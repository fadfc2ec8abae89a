CONSTANTS
    Workers = {w1, w2}
    Cleaner = cleaner
    Users = {u1}
    Handles = {h1, h2}
    Ids = {i1, i2, i3}
    None = None
    CleanerOn = TRUE
    Faults = {"crash", "evict", "disable"}
SPECIFICATION Spec
SYMMETRY Symmetry
INVARIANTS TypeOK CacheAgrees OwnersRegistered DeadlocksOfClosers
PROPERTIES ImplementsRegistry SoleSessionAfterEnter NoSessionAfterLeave KnownUserEnters DisabledStayOut
