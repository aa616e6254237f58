SPECIFICATION FairSpec
CONSTANTS
    Server = {s1}
    Client = {c1, c2}
    Conn = {a, b}
    Backlog = 3
    Size = 1
    None = None
INVARIANT NothingMovedMeansClosed
PROPERTIES AcceptedConnectReturns CloseWakesPeer
CHECK_DEADLOCK FALSE
