------------------------------ MODULE Executor ------------------------------
(***************************************************************************)
(* The cooperative executor of kernel/src/executor.rs: the tasks it owns,  *)
(* the bounded queue of ids that are ready to be polled, the wakers that   *)
(* push into that queue, and the cli / sti;hlt protocol by which the one   *)
(* CPU goes to sleep.                                                      *)
(*                                                                         *)
(* There is one CPU.  The main context runs kernel_main and then           *)
(* Executor::run; an interrupt handler runs with interrupts off, so its    *)
(* whole body is one step, taken between any two steps of the main context *)
(* while `iflag' is set.  What a future does inside poll is not known to   *)
(* the executor: here it may clone, drop or wake any waker it can reach    *)
(* and then return Ready or Pending.  Keyboard.tla replaces this by the    *)
(* one future the kernel really runs.                                      *)
(***************************************************************************)
EXTENDS Naturals, Sequences, SequencesExt

CONSTANTS
    MaxTasks,      \* bound on the number of tasks created (NEXT_ID is a u64)
    TaskQueueCap,  \* ArrayQueue::new(100)
    NoTask         \* "no task is being polled"

TaskId == 0 .. (MaxTasks - 1)

ASSUME ExecutorAssumption ==
    /\ MaxTasks \in Nat \ {0}
    /\ TaskQueueCap \in Nat \ {0}
    /\ NoTask \notin TaskId

VARIABLES
    next_id,      \* the NEXT_ID counter behind TaskId::new
    tasks,        \* keys of Executor::tasks
    task_queue,   \* Executor::task_queue, shared with every TaskWaker
    waker_cache,  \* keys of Executor::waker_cache
    wakers,       \* ids that have a Waker clone outside waker_cache
    pc,           \* where the main context is
    current,      \* the task being polled
    iflag         \* RFLAGS.IF

vars == <<next_id, tasks, task_queue, waker_cache, wakers, pc, current, iflag>>

(***************************************************************************)
(* pc: "setup" before run; "ready" at the top of the while-let of          *)
(* run_ready_tasks; "poll" inside Task::poll; "cli", "check", "hlt" and    *)
(* "sti" the steps of sleep_if_idle; "halted" in hlt; "panic" in the       *)
(* `loop {}' of the panic handler.                                         *)
(***************************************************************************)
PcValues ==
    {"setup", "ready", "poll", "cli", "check", "hlt", "sti", "halted", "panic"}

Init ==
    /\ next_id = 0
    /\ tasks = {}
    /\ task_queue = <<>>
    /\ waker_cache = {}
    /\ wakers = {}
    /\ pc = "setup"
    /\ current = NoTask
    /\ iflag = TRUE

-----------------------------------------------------------------------------

\* Mutant: a queue without a limit.
PushOrPanic_Unbounded(id, next) ==
    /\ Len(task_queue) <= TaskQueueCap
    /\ task_queue' = Append(task_queue, id)
    /\ pc' = next

\* ArrayQueue::push(id).expect(..): a full queue panics, the queue unchanged.
PushOrPanic(id, next) ==
    \/ /\ Len(task_queue) < TaskQueueCap
       /\ task_queue' = Append(task_queue, id)
       /\ pc' = next
    \/ /\ Len(task_queue) >= TaskQueueCap
       /\ pc' = "panic"
       /\ UNCHANGED task_queue

\* Executor::spawn(Task::new(..)); run borrows the executor for ever, so
\* spawn is only possible before it.
Spawn ==
    /\ pc = "setup"
    /\ next_id < MaxTasks
    /\ next_id' = next_id + 1
    /\ tasks' = tasks \cup {next_id}
    /\ IF next_id \in tasks
       THEN pc' = "panic" /\ UNCHANGED task_queue   \* "Task with same ID .."
       ELSE PushOrPanic(next_id, "setup")
    /\ UNCHANGED <<waker_cache, wakers, current, iflag>>

\* Entry into Executor::run.
Run ==
    /\ pc = "setup"
    /\ pc' = "ready"
    /\ UNCHANGED <<next_id, tasks, task_queue, waker_cache, wakers, current, iflag>>

\* Mutant: polls without looking the task up.
PopTask_Unchecked ==
    /\ pc = "ready"
    /\ task_queue # <<>>
    /\ task_queue' = Tail(task_queue)
    /\ current' = Head(task_queue)
    /\ waker_cache' = waker_cache \cup {Head(task_queue)}
    /\ pc' = "poll"
    /\ UNCHANGED <<next_id, tasks, wakers, iflag>>

\* run_ready_tasks: pop an id whose task still exists, look its waker up in
\* the cache or create it, and enter poll.
PopTask ==
    /\ pc = "ready"
    /\ task_queue # <<>>
    /\ Head(task_queue) \in tasks
    /\ task_queue' = Tail(task_queue)
    /\ current' = Head(task_queue)
    /\ waker_cache' = waker_cache \cup {Head(task_queue)}
    /\ pc' = "poll"
    /\ UNCHANGED <<next_id, tasks, wakers, iflag>>

\* run_ready_tasks: "task no longer exists" -> continue.
PopStale ==
    /\ pc = "ready"
    /\ task_queue # <<>>
    /\ Head(task_queue) \notin tasks
    /\ task_queue' = Tail(task_queue)
    /\ UNCHANGED <<next_id, tasks, waker_cache, wakers, pc, current, iflag>>

\* run_ready_tasks: pop returned None, the loop ends.
PopEmpty ==
    /\ pc = "ready"
    /\ task_queue = <<>>
    /\ pc' = "cli"
    /\ UNCHANGED <<next_id, tasks, task_queue, waker_cache, wakers, current, iflag>>

\* Mutant: the cached waker of a finished task is kept.
PollReady_KeepsWaker ==
    /\ pc = "poll"
    /\ tasks' = tasks \ {current}
    /\ current' = NoTask
    /\ pc' = "ready"
    /\ UNCHANGED <<next_id, task_queue, waker_cache, wakers, iflag>>

\* Poll::Ready: the task and its cached waker are removed; clones survive.
PollReady ==
    /\ pc = "poll"
    /\ tasks' = tasks \ {current}
    /\ waker_cache' = waker_cache \ {current}
    /\ current' = NoTask
    /\ pc' = "ready"
    /\ UNCHANGED <<next_id, task_queue, wakers, iflag>>

\* Poll::Pending.
PollPending ==
    /\ pc = "poll"
    /\ current' = NoTask
    /\ pc' = "ready"
    /\ UNCHANGED <<next_id, tasks, task_queue, waker_cache, wakers, iflag>>

\* Mutant: sleep_if_idle without interrupts::disable().
DisableInterrupts_Missing ==
    /\ pc = "cli"
    /\ pc' = "check"
    /\ UNCHANGED <<next_id, tasks, task_queue, waker_cache, wakers, current, iflag>>

\* sleep_if_idle: interrupts::disable().
DisableInterrupts ==
    /\ pc = "cli"
    /\ iflag' = FALSE
    /\ pc' = "check"
    /\ UNCHANGED <<next_id, tasks, task_queue, waker_cache, wakers, current>>

\* Mutant: the test of is_empty inverted.
CheckIdle_Inverted ==
    /\ pc = "check"
    /\ pc' = IF task_queue = <<>> THEN "sti" ELSE "hlt"
    /\ UNCHANGED <<next_id, tasks, task_queue, waker_cache, wakers, current, iflag>>

\* sleep_if_idle: task_queue.is_empty().
CheckIdle ==
    /\ pc = "check"
    /\ pc' = IF task_queue = <<>> THEN "hlt" ELSE "sti"
    /\ UNCHANGED <<next_id, tasks, task_queue, waker_cache, wakers, current, iflag>>

\* enable_and_hlt(): sti takes effect after the following instruction, so
\* no interrupt fits between it and hlt.
EnableAndHlt ==
    /\ pc = "hlt"
    /\ iflag' = TRUE
    /\ pc' = "halted"
    /\ UNCHANGED <<next_id, tasks, task_queue, waker_cache, wakers, current>>

\* interrupts::enable() of the else branch.
EnableInterrupts ==
    /\ pc = "sti"
    /\ iflag' = TRUE
    /\ pc' = "ready"
    /\ UNCHANGED <<next_id, tasks, task_queue, waker_cache, wakers, current>>

\* loop {} at the end of the panic handler.
PanicLoop ==
    /\ pc = "panic"
    /\ UNCHANGED vars

-----------------------------------------------------------------------------
(* What a future may do with wakers while it is polled.                    *)

CloneWaker ==
    /\ pc = "poll"
    /\ wakers' = wakers \cup {current}
    /\ UNCHANGED <<next_id, tasks, task_queue, waker_cache, pc, current, iflag>>

DropWaker ==
    /\ pc = "poll"
    /\ \E t \in wakers : wakers' = wakers \ {t}
    /\ UNCHANGED <<next_id, tasks, task_queue, waker_cache, pc, current, iflag>>

\* Waker::wake / wake_by_ref from inside a poll: TaskWaker::wake_task.
PollWake ==
    /\ pc = "poll"
    /\ \E t \in wakers \cup {current} :
          /\ PushOrPanic(t, "poll")
          /\ wakers' \in {wakers, wakers \ {t}}
    /\ UNCHANGED <<next_id, tasks, waker_cache, current, iflag>>

(* Interrupt handlers.  Any interrupt ends hlt; the run loop continues.    *)

Resumed == IF pc = "halted" THEN "ready" ELSE pc

\* A handler that wakes nobody, such as timer_interrupt_handler.
IrqOther ==
    /\ iflag
    /\ pc # "panic"
    /\ pc' = Resumed
    /\ UNCHANGED <<next_id, tasks, task_queue, waker_cache, wakers, current, iflag>>

\* A handler that wakes a task whose Waker it was given.
IrqWake ==
    /\ iflag
    /\ pc # "panic"
    /\ \E t \in wakers :
          /\ PushOrPanic(t, Resumed)
          /\ wakers' \in {wakers, wakers \ {t}}
    /\ UNCHANGED <<next_id, tasks, waker_cache, current, iflag>>

-----------------------------------------------------------------------------

\* The steps of the main context that the executor's own code takes.
RunLoop ==
    \/ Run \/ PopTask \/ PopStale \/ PopEmpty
    \/ DisableInterrupts \/ CheckIdle \/ EnableAndHlt \/ EnableInterrupts

PollReturn == PollReady \/ PollPending

Next ==
    \/ Spawn \/ Run
    \/ PopTask \/ PopStale \/ PopEmpty
    \/ PollReady \/ PollPending
    \/ DisableInterrupts \/ CheckIdle \/ EnableAndHlt \/ EnableInterrupts
    \/ CloneWaker \/ DropWaker \/ PollWake
    \/ IrqOther \/ IrqWake
    \/ PanicLoop

SafetySpec == Init /\ [][Next]_vars

\* The CPU executes the main context whenever no handler runs, and a poll
\* returns (the contract of Future::poll).
Fairness == WF_vars(RunLoop) /\ WF_vars(PollReturn)

Spec == SafetySpec /\ Fairness

-----------------------------------------------------------------------------

TypeOK ==
    /\ next_id \in 0 .. MaxTasks
    /\ tasks \subseteq TaskId
    /\ task_queue \in Seq(TaskId)
    /\ Len(task_queue) <= TaskQueueCap
    /\ waker_cache \subseteq TaskId
    /\ wakers \subseteq TaskId
    /\ pc \in PcValues
    /\ current \in TaskId \cup {NoTask}
    /\ iflag \in BOOLEAN

\* The CPU is in hlt, or irrevocably about to be, only while no task is
\* ready: sleep_if_idle loses no wake between is_empty and hlt.
HaltedOnlyWhenIdle == pc \in {"hlt", "halted"} => task_queue = <<>>

\* run_ready_tasks polls only tasks the executor owns, with a cached waker,
\* and keeps no waker for a task it no longer owns; tasks are polled with
\* interrupts on, which are off only while sleep_if_idle decides.
PollsOwnedTasks ==
    /\ waker_cache \subseteq tasks
    /\ pc = "poll" => current # NoTask
    /\ current # NoTask => current \in waker_cache
    /\ iflag <=> pc \notin {"check", "hlt", "sti"}

\* A finished task is never polled again although its wakers may live on and
\* still push its id ("task no longer exists").
FinishedStaysFinished ==
    [][\A t \in TaskId :
          (t < next_id /\ t \notin tasks) => (t \notin tasks' /\ current' # t)]_vars

\* Every queued id of a live task leads to a poll of that task, whatever the
\* other tasks and the interrupts do, unless the kernel panics first.
QueuedIsPolled ==
    \A t \in TaskId :
        (t \in tasks /\ Contains(task_queue, t))
            ~> (current = t \/ pc = "panic")

=============================================================================
