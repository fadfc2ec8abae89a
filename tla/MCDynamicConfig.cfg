CONSTANTS
    Keys = {k1, k2}
    Values = {v1}
    Handlers = {h1, h2}
    Ticker = ticker
    None = None
    Ops = {"create", "update", "set", "delete"}
    MaxRequests = 3
    MaxFaults = 2
SPECIFICATION FairSpec
INVARIANTS TypeOK CacheCurrent ModifiedCovers
PROPERTIES Settles
