SPECIFICATION FairSpec
CONSTANTS
    Proc = {shell, p1, p2}
    Shell = shell
    Pipes = {a}
    MaxFd = 1
    Size = 1
    Calls = {"wait"}
    None = None
    p1 = p1
    p2 = p2
PROPERTY EndReachesReaders
CHECK_DEADLOCK FALSE
