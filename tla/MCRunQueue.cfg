CONSTANTS
    c1 = c1
    c2 = c2
    c3 = c3
    t1 = t1
    t2 = t2
    Cpu = {c1, c2, c3}
    Thread = {t1, t2}
    NoThread = NoThread
    SlotCount = 2
    Modulus = 8
    Starts <- MCStarts
    MaxTickets = 3
SPECIFICATION OFairSpec
PROPERTIES ImplementsThreadQueue FirstInFirstOut CallsReturn
