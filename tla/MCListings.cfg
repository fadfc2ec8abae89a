CONSTANTS
    Puts = {p1, p2, p3}
    Composites = {c1, c2}
    Rooms = {r1, r2}
    MaxItems = 2
    Nil = Nil
    None = None
    Faults = {"db", "operator"}
    MaxFaults = 1
    Readers = {l1}
    Users = {u1}
    MaxRequests = 3
SPECIFICATION ListSpec
SYMMETRY Symmetry
INVARIANTS TypeOK  CircleNeedsThird  
PROPERTIES ReplacesWhatItSaw
CHECK_DEADLOCK FALSE
