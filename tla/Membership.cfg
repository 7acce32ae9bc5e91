SPECIFICATION Spec
CONSTANTS
    Server = {s1, s2}
    HBINT = 2
    HBTIMEOUT = 4
    MaxDelay = 1
    Cycle = 2
    None = None
SYMMETRY Symm
INVARIANTS
    TypeOK
    LiveIsFound
    NoneStarved
PROPERTIES
    DeadIsNotChosen
