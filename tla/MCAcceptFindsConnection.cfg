SPECIFICATION Spec
CONSTANTS
    Server = {s1, s2}
    Client = {c1}
    Conn = {a, b}
    Backlog = 3
    Size = 1
    None = None
INVARIANT AcceptFindsConnection
CHECK_DEADLOCK FALSE
