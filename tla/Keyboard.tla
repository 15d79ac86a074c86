------------------------------ MODULE Keyboard ------------------------------
(***************************************************************************)
(* The keyboard path: the interrupt handler of IOAPIC input 1 calls        *)
(* add_scancode, which fills SCANCODE_QUEUE and wakes WAKER; the shell     *)
(* task, polled by the executor, drains the queue through                  *)
(* ScancodeStream::poll_next.  This module composes kernel/src/keyboard.rs *)
(* with Executor.tla and with futures_util's AtomicWaker, whose atomic     *)
(* operations are separate steps because the interrupt may arrive between  *)
(* any two of them.                                                        *)
(*                                                                         *)
(* The first state is the one after main.rs has called ScancodeStream::new *)
(* (Kernel.tla models what may happen before).                               *)
(***************************************************************************)
EXTENDS Naturals, Sequences, SequencesExt

CONSTANTS
    Scancode,       \* the bytes port 0x60 may return
    ScancodeCap,    \* ArrayQueue::new(100) in ScancodeStream::new
    TaskQueueCap,   \* ArrayQueue::new(100) in Executor::new
    NoTask, NoScancode

\* The only task main.rs spawns: run_command_line; its id is the first one.
Shell == 0

ASSUME KeyboardAssumption ==
    /\ ScancodeCap \in Nat \ {0}
    /\ TaskQueueCap \in Nat \ {0}
    /\ NoScancode \notin Scancode
    /\ NoTask # Shell

VARIABLES
    next_id, tasks, task_queue, waker_cache, pc, current, iflag,  \* Executor
    scancode_queue,  \* SCANCODE_QUEUE
    waker_state,     \* WAKER.state
    waker_cell,      \* WAKER.waker: the Shell's waker, or NoTask
    kpc,             \* where the shell's future is inside its poll
    hand             \* the scancode poll_next returned, being handled

execVars == <<next_id, tasks, task_queue, waker_cache, pc, current, iflag>>
wakerVars == <<waker_state, waker_cell>>
vars == <<execVars, scancode_queue, wakerVars, kpc, hand>>

(***************************************************************************)
(* kpc: "fast" at the top of poll_next; "lock", "store", "unlock" inside   *)
(* AtomicWaker::register, with "release" and "rewake" its path when a wake *)
(* came in between; "second" before the second pop; "take", "clear",       *)
(* "leave" inside AtomicWaker::take; "key" in the body of the shell's      *)
(* loop; "pending" about to return Poll::Pending.                          *)
(***************************************************************************)
KpcValues ==
    {"fast", "lock", "store", "unlock", "release", "rewake", "second",
     "take", "clear", "leave", "key", "pending"}

WakerStates == {"WAITING", "REGISTERING", "WAKING", "REGISTERING|WAKING"}

\* Clones of the shell's waker outside waker_cache: the one in the cell or
\* the one register has just moved out of it.
Wakers ==
    IF waker_cell # NoTask \/ kpc \in {"release", "rewake"} THEN {Shell} ELSE {}

Exec == INSTANCE Executor WITH MaxTasks <- 1, wakers <- Wakers

Init ==
    /\ next_id = 0
    /\ tasks = {}
    /\ task_queue = <<>>
    /\ waker_cache = {}
    /\ pc = "setup"
    /\ current = NoTask
    /\ iflag = TRUE
    /\ scancode_queue = <<>>
    /\ waker_state = "WAITING"
    /\ waker_cell = NoTask
    /\ kpc = "fast"
    /\ hand = NoScancode

-----------------------------------------------------------------------------
(* The executor's own steps leave the keyboard's state alone.              *)

\* e.spawn(Task::new(run_command_line(scancodes))); e.run() comes after it.
SpawnShell ==
    /\ UNCHANGED <<scancode_queue, wakerVars, kpc, hand>>
    /\ Exec!Spawn

RunLoop ==
    /\ UNCHANGED <<scancode_queue, wakerVars, kpc, hand>>
    /\ tasks # {}
    /\ Exec!RunLoop

-----------------------------------------------------------------------------
(* ScancodeStream::poll_next, called from the shell's loop.                *)

InPoll(at) == pc = "poll" /\ kpc = at

\* "fast path": pop, and Ready(Some(..)) if there was one.
FastPop ==
    /\ InPoll("fast")
    /\ \/ /\ scancode_queue # <<>>
          /\ hand' = Head(scancode_queue)
          /\ scancode_queue' = Tail(scancode_queue)
          /\ kpc' = "key"
       \/ /\ scancode_queue = <<>>
          /\ kpc' = "lock"
          /\ UNCHANGED <<hand, scancode_queue>>
    /\ UNCHANGED <<execVars, wakerVars>>

\* register: compare_exchange(WAITING, REGISTERING).  A concurrent wake or
\* register would be seen here; on one CPU every handler has finished.
RegisterLock ==
    /\ InPoll("lock")
    /\ waker_state = "WAITING"
    /\ waker_state' = "REGISTERING"
    /\ kpc' = "store"
    /\ UNCHANGED <<execVars, scancode_queue, waker_cell, hand>>

\* Mutant: register leaves the cell empty.
RegisterStore_Skipped ==
    /\ InPoll("store")
    /\ kpc' = "unlock"
    /\ UNCHANGED <<execVars, scancode_queue, wakerVars, hand>>

\* register: keep the old waker if it will_wake the same task, else store a
\* clone of cx.waker().
RegisterStore ==
    /\ InPoll("store")
    /\ waker_cell' = current
    /\ kpc' = "unlock"
    /\ UNCHANGED <<execVars, scancode_queue, waker_state, hand>>

\* register: compare_exchange(REGISTERING, WAITING); when it fails a wake
\* came in between, so the waker is taken out again ...
RegisterUnlock ==
    /\ InPoll("unlock")
    /\ \/ /\ waker_state = "REGISTERING"
          /\ waker_state' = "WAITING"
          /\ kpc' = "second"
          /\ UNCHANGED waker_cell
       \/ /\ waker_state = "REGISTERING|WAKING"
          /\ waker_cell' = NoTask
          /\ kpc' = "release"
          /\ UNCHANGED waker_state
    /\ UNCHANGED <<execVars, scancode_queue, hand>>

\* ... the lock released with swap(WAITING) ...
RegisterRelease ==
    /\ InPoll("release")
    /\ waker_state' = "WAITING"
    /\ kpc' = "rewake"
    /\ UNCHANGED <<execVars, scancode_queue, waker_cell, hand>>

\* ... and the waker woken by register itself.
RegisterRewake ==
    /\ InPoll("rewake")
    /\ Exec!PushOrPanic(Shell, "poll")
    /\ kpc' = "second"
    /\ UNCHANGED <<next_id, tasks, waker_cache, current, iflag>>
    /\ UNCHANGED <<scancode_queue, wakerVars, hand>>

\* Mutant: Pending straight after registering, without looking again.
SecondPop_Skipped ==
    /\ InPoll("second")
    /\ kpc' = "pending"
    /\ UNCHANGED <<execVars, scancode_queue, wakerVars, hand>>

\* The second pop, after registering.
SecondPop ==
    /\ InPoll("second")
    /\ \/ /\ scancode_queue # <<>>
          /\ hand' = Head(scancode_queue)
          /\ scancode_queue' = Tail(scancode_queue)
          /\ kpc' = "take"
       \/ /\ scancode_queue = <<>>
          /\ kpc' = "pending"
          /\ UNCHANGED <<hand, scancode_queue>>
    /\ UNCHANGED <<execVars, wakerVars>>

\* WAKER.take(): fetch_or(WAKING) ...
TakeLock ==
    /\ InPoll("take")
    /\ waker_state = "WAITING"
    /\ waker_state' = "WAKING"
    /\ kpc' = "clear"
    /\ UNCHANGED <<execVars, scancode_queue, waker_cell, hand>>

\* ... the cell emptied, its waker dropped ...
TakeCell ==
    /\ InPoll("clear")
    /\ waker_cell' = NoTask
    /\ kpc' = "leave"
    /\ UNCHANGED <<execVars, scancode_queue, waker_state, hand>>

\* ... fetch_and(!WAKING).
TakeUnlock ==
    /\ InPoll("leave")
    /\ waker_state' = "WAITING"
    /\ kpc' = "key"
    /\ UNCHANGED <<execVars, scancode_queue, waker_cell, hand>>

\* The body of the shell's `while let' loop; then scs.next().await again.
HandleKey ==
    /\ InPoll("key")
    /\ hand' = NoScancode
    /\ kpc' = "fast"
    /\ UNCHANGED <<execVars, scancode_queue, wakerVars>>

\* Poll::Pending goes up through next().await to run_ready_tasks; the next
\* poll of the shell resumes in poll_next.
ReturnPending ==
    /\ InPoll("pending")
    /\ kpc' = "fast"
    /\ UNCHANGED <<scancode_queue, wakerVars, hand>>
    /\ Exec!PollPending

-----------------------------------------------------------------------------
(* Interrupts.                                                             *)

\* Mutant: one interrupt wakes the task twice.
WakerWake_Twice ==
    \/ /\ waker_state = "WAITING"
       /\ waker_cell' = NoTask
       /\ UNCHANGED waker_state
       /\ IF waker_cell = NoTask \/ Len(task_queue) + 2 > TaskQueueCap
          THEN pc' = Exec!Resumed /\ UNCHANGED task_queue
          ELSE pc' = Exec!Resumed /\ task_queue' = task_queue \o <<Shell, Shell>>
    \/ /\ waker_state # "WAITING"
       /\ pc' = Exec!Resumed
       /\ UNCHANGED <<wakerVars, task_queue>>

\* Mutant: the handler queues the scancode and wakes nobody.
WakerWake_Never ==
    /\ pc' = Exec!Resumed
    /\ UNCHANGED <<wakerVars, task_queue>>

\* WAKER.wake() = take(), then wake() of what it returned.
WakerWake ==
    \/ /\ waker_state = "WAITING"
       /\ waker_cell' = NoTask
       /\ UNCHANGED waker_state
       /\ \/ /\ waker_cell = NoTask
             /\ pc' = Exec!Resumed
             /\ UNCHANGED task_queue
          \/ /\ waker_cell # NoTask
             /\ Exec!PushOrPanic(waker_cell, Exec!Resumed)
    \/ /\ waker_state # "WAITING"      \* fetch_or(WAKING), nothing to take
       /\ waker_state' = IF waker_state = "REGISTERING"
                         THEN "REGISTERING|WAKING" ELSE waker_state
       /\ pc' = Exec!Resumed
       /\ UNCHANGED <<waker_cell, task_queue>>

\* ioapic_handler_1: read port 0x60, add_scancode, EOI.  A full queue drops
\* the scancode and wakes nobody.
KeyboardIrq ==
    /\ iflag
    /\ pc # "panic"
    /\ \/ /\ Len(scancode_queue) < ScancodeCap
          /\ \E s \in Scancode : scancode_queue' = Append(scancode_queue, s)
          /\ WakerWake
       \/ /\ Len(scancode_queue) >= ScancodeCap
          /\ pc' = Exec!Resumed
          /\ UNCHANGED <<scancode_queue, wakerVars, task_queue>>
    /\ UNCHANGED <<next_id, tasks, waker_cache, current, iflag, kpc, hand>>

\* timer_interrupt_handler and the handlers that only send EOI.
OtherIrq ==
    /\ UNCHANGED <<scancode_queue, wakerVars, kpc, hand>>
    /\ Exec!IrqOther

PanicLoop ==
    /\ UNCHANGED <<scancode_queue, wakerVars, kpc, hand>>
    /\ Exec!PanicLoop

-----------------------------------------------------------------------------

Poll ==
    \/ FastPop
    \/ RegisterLock \/ RegisterStore \/ RegisterUnlock
    \/ RegisterRelease \/ RegisterRewake
    \/ SecondPop
    \/ TakeLock \/ TakeCell \/ TakeUnlock
    \/ HandleKey \/ ReturnPending

Next == SpawnShell \/ RunLoop \/ Poll \/ KeyboardIrq \/ OtherIrq \/ PanicLoop

\* The CPU executes the main context whenever no handler runs.
Spec == Init /\ [][Next]_vars /\ WF_vars(SpawnShell \/ RunLoop \/ Poll)

-----------------------------------------------------------------------------

TypeOK ==
    /\ Exec!TypeOK
    /\ scancode_queue \in Seq(Scancode)
    /\ Len(scancode_queue) <= ScancodeCap
    /\ waker_state \in WakerStates
    /\ waker_cell \in {Shell, NoTask}
    /\ kpc \in KpcValues
    /\ hand \in Scancode \cup {NoScancode}

\* No lost wake-up: when the shell is not being polled and a scancode is
\* queued, the shell's id is in the task queue, whichever instruction of
\* poll_next, register or take the interrupt hit.
NoLostWakeup ==
    (pc \notin {"poll", "panic"} /\ tasks # {} /\ scancode_queue # <<>>)
        => Contains(task_queue, Shell)

\* Why no wake-up is lost.  Outside a poll the shell is queued, or its waker
\* is in the cell and the scancode queue is empty, so that the next scancode
\* finds the waker; inside a poll the same is re-established between
\* register and the return of Pending, where the AtomicWaker's lock state
\* says how a handler that comes in between is noticed.
ShellArmed ==
    Contains(task_queue, Shell) \/ (waker_cell = Shell /\ scancode_queue = <<>>)

WakeProtocol ==
    /\ iflag <=> pc \notin {"check", "hlt", "sti"}
    /\ pc \in {"hlt", "halted"} => task_queue = <<>>
    /\ tasks = {} =>
         pc = "setup" /\ next_id = 0 /\ task_queue = <<>> /\ waker_cell = NoTask
    /\ pc = "setup" /\ tasks # {} => next_id = 1
    /\ pc \notin {"poll", "panic"} => kpc = "fast" /\ waker_state = "WAITING"
    /\ pc \notin {"poll", "panic"} /\ tasks # {} => ShellArmed
    /\ pc = "poll" =>
         /\ tasks # {} /\ current = Shell
         /\ kpc \in {"store", "unlock"} =>
              waker_state \in {"REGISTERING", "REGISTERING|WAKING"}
         /\ kpc = "release" => waker_state = "REGISTERING|WAKING"
         /\ kpc \in {"clear", "leave"} => waker_state = "WAKING"
         /\ kpc \in {"fast", "lock", "rewake", "second", "take", "key", "pending"} =>
              waker_state = "WAITING"
         /\ kpc = "unlock" => waker_cell = Shell
         /\ kpc = "second" => waker_cell = Shell \/ Contains(task_queue, Shell)
         /\ kpc = "pending" => ShellArmed
         /\ (hand # NoScancode) <=> kpc \in {"take", "clear", "leave", "key"}
    /\ pc \notin {"poll", "panic"} => hand = NoScancode

\* The CPU sleeps only when there is no scancode to handle.
HaltedOnlyWithoutInput == pc \in {"hlt", "halted"} => scancode_queue = <<>>

\* The panic of TaskWaker::wake_task, "(EXECUTOR) Task queue full".
TaskQueueNeverFull == pc # "panic"

\* The keyboard path implements the mailbox, its liveness included.
Box == INSTANCE Mailbox WITH
          Capacity <- ScancodeCap,
          queue <- scancode_queue,
          dead <- (pc = "panic")
ImplementsMailbox == Box!Spec

\* The composition is one of the behaviours the executor allows its tasks
\* and interrupt handlers.
ImplementsExecutor == Exec!SafetySpec

=============================================================================
