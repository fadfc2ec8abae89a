CONSTANTS
    Workers = {w1, w2}
    Gateways = {g1, g2}
    Names = {n1, n2}
    MaxUid = 2
    None = None
    Faults = {"db", "gateway", "crash", "operator"}
    MaxFaults = 1
SPECIFICATION Spec
SYMMETRY Symmetry
INVARIANTS TypeOK GatewaysAgree CacheFollows
PROPERTIES AnsweredEverywhere
