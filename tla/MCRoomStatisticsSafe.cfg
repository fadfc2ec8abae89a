CONSTANTS
    Handlers = {h1, h2, h3}
    Rooms = {r1, r2}
    None = None
    MaxMessages = 5
    Faults = {"db", "reset"}
SPECIFICATION Spec
SYMMETRY Symmetry
CHECK_DEADLOCK FALSE
INVARIANTS SoloCounted 
