SPECIFICATION Spec
CONSTANTS
    HeapStart = 64
    HeapSize = 96
    Layouts <- MCLayouts
INVARIANTS
    ListInFreeMemory
    AssertsHold
PROPERTY
    ImplementsHeap
