CONSTANTS
    Workers = {w1}
    Cleaner = cleaner
    Users = {u1}
    Handles = {h1}
    Ids = {i1, i2}
    None = None
    CleanerOn = FALSE
    Faults = {}
SPECIFICATION Spec
SYMMETRY Symmetry
PROPERTIES UnknownUserEnters
