CONSTANTS
    Workers = {w1}
    Cleaner = cleaner
    Users = {u1}
    Handles = {h1}
    Ids = {i1, i2}
    None = None
    CleanerOn = TRUE
    Faults = {}
SPECIFICATION Spec
SYMMETRY Symmetry
PROPERTIES OnlyDeadCleaned
