SPECIFICATION FrameSpec
CONSTANTS
    FrameCpu = {c1, c2}
    BootCpu = c1
    Maps <- PlainMaps
    W = 4
    WordsPerFrame = 8
    Trampoline = 3
    HeapFrames = 2
    Sizes = {2}
    NoEntry = NoEntry
INVARIANTS OwnedFramesMarked
CHECK_DEADLOCK FALSE
