SPECIFICATION Spec
CONSTANTS
    Scancode = {a, b}
    ScancodeCap = 2
    TaskQueueCap = 3
    NoTask = NoTask
    NoScancode = NoScancode
INVARIANTS
    NoLostWakeup
    HaltedOnlyWithoutInput
PROPERTIES
    ImplementsMailbox
    ImplementsExecutor
