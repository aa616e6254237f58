SPECIFICATION MCSpec
CONSTANTS
    FrameCpu = {c1}
    BootCpu = c1
    Maps <- PlainMaps
    W = 4
    WordsPerFrame = 8
    Trampoline = 3
    HeapFrames = 2
    Sizes = {2}
    NoEntry = NoEntry
    ChunkSize = 4
    HeaderSize = 2
    BucketBits = 4
    RegionSize = 72
    RegionStruct = 4
    Slack = 8
    FrameSize = 24
    RamFrames = 9
    Alignment = 4
    DiffSize = 1
    BlockSizes = {1, 9, 24, 42, 46}
    AlignedSizes = {2, 37, 45}
    MaxBlocks = 3
    Nodes = {0, 8, 9, 10, 11, 12, 13, 14, 15, 16, 17, 18, 19, 20, 21, 22, 23, 24, 27, 28, 29, 30, 31}
    TreeSize = 7
    Null = 99
    Total = 32
    KernelSize = 8
    HeapBase = 24
    HeapSize = 3
    StackSize = 2
    Segments = {1, 3}
    MaxSegments = 3
    MapSizes = {1, 2, 4}
    DeviceBase = 16
    Frames = 16
    MaxRegions = 7
    Volumes <- MCVolumes
    FirmwareMaps <- MCMaps
    KernelPages = 2
    StackPages = 2
    DmesgPages = 1
    SpareEntries = 2
    Functions <- MCFunctions
    StartBus = 0
    EndBus = 2
    FirstVector = 4
    Vectors = 16
    KernelVectors = {0, 1, 2, 12, 14, 15}
    MaxEvents = 2
    LogCpus = {"c1", "c2"}
    LogLine = 2
    LogCapacity = 5
    MaxPrinted = 3
    ReadSizes = {1, 3}
    Cols = 4
    Rows = 2
    ReadLimit = 9
    Prompt <- MCPrompt
    Letters = {"a", " "}
    MaxLine = 2
    MaxHistory = 1
    TextLetters = {"b", "c"}
    MaxText = 5
INVARIANTS OwnedFramesMarked NoFrameLost   RegionsApart TablesMatchRegions KernelMemoryKept NoEventForgotten LogReadsBack  TextOnScreen
CHECK_DEADLOCK FALSE
