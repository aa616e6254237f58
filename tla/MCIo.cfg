SPECIFICATION MCSpec
CONSTANTS
    c1 = c1
    c2 = c2
    Nobody = Nobody
    Cpu = {c1, c2}
    Byte = {0, 1}
    Zero = 0
    Size = 2
    MaxRead = 2
    MaxWrite = 3
    MaxSent = 5
    RingLength = 5
    Ports = {1, 2}
    Slots = {1, 2}
    Kinds = {"keyboard", "mouse", "fast"}
    Polls = 1
    Caps <- UsbCaps
    Keys = {4, 5}
    KeySlots = 2
    Modifiers = {1}
    Shift = 1
    Delays = {10}
    FsProcs = {p1, p2}
    FsPaths <- MCPaths
    MountPaths <- MCMounts
    MaxInodes = 6
    MaxBytes = 2
    Bytes = {1}
INVARIANTS CopiesStayInHalf AnswersReachWaiters EventsForLiveDevices  FilesReadBack
PROPERTIES ImplementsByteStream NameStaysBound
CHECK_DEADLOCK FALSE
