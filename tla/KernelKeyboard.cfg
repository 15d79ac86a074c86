SPECIFICATION Spec
CONSTANTS
    MaxDepth = 3
    MaxWait = 1
INVARIANT
    KeyboardIrqNeverBlocks
