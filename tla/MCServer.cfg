CONSTANTS
    Gateways = {g1, g2, g3}
    Silent = {g1}
    MaxRounds = 2
    MaxLosses = 1
    None = None
    MaxRows = 3
    APIMaxPageSize = 2
    MaxChanges = 2
SPECIFICATION ServerSpec
INVARIANTS ServerTypeOK AtMostOneLeft NothingMissing  
PROPERTIES  RoundsEnd Resubscribes
CHECK_DEADLOCK FALSE
