SPECIFICATION Spec
CONSTANTS
    MaxDepth = 3
    MaxWait = 1
INVARIANTS
    SerialAndHeapUncontended
    BlockedOnlyAfterReport
    InterruptsOnlyWhenReady
PROPERTIES
    FailureReachesSerial
    SyscallReturns
