CONSTANTS
    c1 = c1
    c2 = c2
    i1 = i1
    i2 = i2
    Cpu = {c1, c2}
    Bsp = c1
    NormalThread = {n1, n2, n3}
    KernelInit = n1
    Thread = {i1, i2, n1, n2, n3}
    IdleOf <- MCIdleOf
    Event = {e}
    Waitable = {n2, n3}
    None = None
SPECIFICATION Spec
INVARIANTS ProcessOutlivesThreads
