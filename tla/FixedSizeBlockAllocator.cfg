SPECIFICATION Spec
CONSTANTS
    HeapStart = 4096
    HeapSize = 4250
    MaxLive = 2
    Layouts <- MCLayouts
INVARIANTS
    BlocksKeepTheirClass
PROPERTY
    ImplementsHeap
