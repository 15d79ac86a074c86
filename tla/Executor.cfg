SPECIFICATION Spec
CONSTANTS
    MaxTasks = 2
    TaskQueueCap = 3
    NoTask = NoTask
INVARIANTS
    TypeOK
    HaltedOnlyWhenIdle
    PollsOwnedTasks
PROPERTIES
    FinishedStaysFinished
    QueuedIsPolled
