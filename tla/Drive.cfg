SPECIFICATION FairSpec
CONSTANTS
    a = a
    b = b
    d = d
    e = e
    x = x
    y = y
    File = {a, b}
    Dir = {d, e}
    Old = {x, y}
    Request = {q1, q2}
    Start <- MCStart
    Up = Up
    Blank = Blank
    Err = Err
    MaxDepth = 2
CONSTRAINT Bounded
INVARIANTS
    TypeOK
    DriveAgrees
    FileSurvives
    ThrownIsRaced
PROPERTIES
    RequestEnds
CHECK_DEADLOCK FALSE
