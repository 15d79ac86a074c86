SPECIFICATION Spec
CONSTANTS
    HeapStart = 6
    HeapSize = 8
    MaxSize = 3
    Aligns = {1, 4}
    Layouts <- MCLayouts
INVARIANTS
    NextTracksLive
    LiveDisjoint
PROPERTY
    ImplementsHeap
