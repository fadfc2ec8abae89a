CONSTANTS
    Workers = {w1}
    Cleaner = cleaner
    Users = {u1}
    Handles = {h1, h2}
    Ids = {i1, i2, i3}
    None = None
    CleanerOn = TRUE
    Faults = {"db", "disable"}
SPECIFICATION FairSpec
PROPERTIES NoGhosts 
