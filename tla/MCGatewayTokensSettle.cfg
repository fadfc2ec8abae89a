CONSTANTS
    Gateways = {g1, g2}
    Down = {g2}
    Tokens = {t1, t2, t3, t4, t5, t6}
    None = None
    MaxAge = 2
    Faults = {"db", "gateway", "crash", "forget", "support"}
    MaxFaults = 3
SPECIFICATION FairSpec
INVARIANTS CacheFollows
PROPERTIES Settles
