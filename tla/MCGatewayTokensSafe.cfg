CONSTANTS
    Gateways = {g1}
    Down = {}
    Tokens = {t1, t2, t3, t4, t5, t6, t7}
    None = None
    MaxAge = 3
    Faults = {"db", "gateway", "crash"}
    MaxFaults = 4
SPECIFICATION Spec
SYMMETRY Symmetry
INVARIANTS StoredOnGateway ServedTokenOnGateway ClientKeepsToken
