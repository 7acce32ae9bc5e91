SPECIFICATION Spec
CONSTANTS
    u1 = u1
    u2 = u2
    None = None
    Session = {w, m}
    Web = {w}
    Request = {q}
    User <- MCUser
    Part <- MCPart
    Sender = {f}
    Title = {t}
    MaxTime = 1
    MaxRcpt = 2
CONSTRAINT Bounded
INVARIANTS
    TypeOK
    AppendedStays
CHECK_DEADLOCK FALSE
