CONSTANTS
    Keys = {k1, k2}
    Values = {v1}
    Handlers = {h1}
    Ticker = ticker
    None = None
    Ops = {"create"}
    MaxRequests = 2
    MaxFaults = 0
SPECIFICATION ClientSpec
INVARIANTS PollTells
