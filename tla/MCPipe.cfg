SPECIFICATION Spec
CONSTANTS
    Proc = {shell, p1, p2}
    Shell = shell
    Pipes = {a}
    MaxFd = 1
    Size = 1
    Calls = {"write", "dup", "wait"}
    None = None
    p1 = p1
    p2 = p2
SYMMETRY ChildSymmetry
INVARIANTS CountersMatchHandles CheckStillHolds
PROPERTY EndIsFinal
CHECK_DEADLOCK FALSE
