SPECIFICATION LSpec
CONSTANTS
    MemoryMap <- MCMemoryMap
    TableSpan = 4
    HeapPage = 8
    HeapPages = 1
    RamdiskPage = 14
    RamdiskPages = 1
    KernelArea = 20
    UserArea = 40
    AreaPages = 19
    Bytes <- MCBytes
    Programs <- MCPrograms
    StackPages = 2
INVARIANTS
    FirstPushOnStack
