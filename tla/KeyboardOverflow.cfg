SPECIFICATION Spec
CONSTANTS
    Scancode = {a, b}
    ScancodeCap = 2
    TaskQueueCap = 3
    NoTask = NoTask
    NoScancode = NoScancode
INVARIANT
    TaskQueueNeverFull
