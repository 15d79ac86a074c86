-------------------------- MODULE Keyboard_proofs --------------------------
(***************************************************************************)
(* Proofs about Keyboard.tla, for every capacity of the two queues and     *)
(* every set of scancodes.                                                 *)
(***************************************************************************)
EXTENDS Keyboard, SequenceTheorems, TLAPS

\* The inductive invariant.
IInv == TypeOK /\ WakeProtocol

\* Pushing an id makes it a member of the queue and removes no other.
LEMMA ContainsAppend ==
    ASSUME NEW S, NEW s \in Seq(S), NEW x \in S, NEW e
    PROVE  /\ Contains(Append(s, x), x)
           /\ Contains(s, e) => Contains(Append(s, x), e)
  BY DEF Contains

\* There is one task.
LEMMA OneTask == Exec!TaskId = {Shell}
  BY DEF Exec!TaskId, Shell

\* Popping from a bounded queue leaves a bounded queue.
LEMMA PopFacts ==
    ASSUME NEW S, NEW s \in Seq(S), NEW cap \in Nat, Len(s) <= cap, s # <<>>
    PROVE  Head(s) \in S /\ Tail(s) \in Seq(S) /\ Len(Tail(s)) <= cap
  BY HeadTailProperties, LenProperties

\* ... the scancode queue in particular ...
LEMMA PopScancode ==
    ASSUME TypeOK, scancode_queue # <<>>,
           hand' = Head(scancode_queue), scancode_queue' = Tail(scancode_queue)
    PROVE  /\ hand' \in Scancode
           /\ scancode_queue' \in Seq(Scancode)
           /\ Len(scancode_queue') <= ScancodeCap
  BY PopFacts, KeyboardAssumption DEF TypeOK

\* ... and the task queue.
LEMMA PopTaskId ==
    ASSUME Exec!TypeOK, task_queue # <<>>,
           current' = Head(task_queue), task_queue' = Tail(task_queue)
    PROVE  /\ current' = Shell
           /\ task_queue' \in Seq(Exec!TaskId)
           /\ Len(task_queue') <= TaskQueueCap
  BY PopFacts, OneTask, KeyboardAssumption DEF Exec!TypeOK

\* The states ScancodeStream::new leaves behind satisfy the invariant.
LEMMA InitIInv == Init => IInv
  BY KeyboardAssumption
     DEF Init, IInv, TypeOK, WakeProtocol, ShellArmed, Exec!TypeOK, Exec!TaskId,
         Exec!PcValues, WakerStates, KpcValues, Wakers, Shell

\* A push of the shell's id keeps the executor's variables well typed.
LEMMA PushType ==
    ASSUME Exec!TypeOK, NEW next \in Exec!PcValues, Exec!PushOrPanic(Shell, next)
    PROVE  /\ task_queue' \in Seq(Exec!TaskId)
           /\ Len(task_queue') <= TaskQueueCap
           /\ pc' \in Exec!PcValues
           /\ \/ pc' = "panic" /\ task_queue' = task_queue
              \/ pc' = next /\ Contains(task_queue', Shell)
  <1>1. Shell \in Exec!TaskId
    BY DEF Shell, Exec!TaskId
  <1>2. Contains(Append(task_queue, Shell), Shell)
    BY <1>1, ContainsAppend DEF Exec!TypeOK
  <1>3. /\ Append(task_queue, Shell) \in Seq(Exec!TaskId)
        /\ Len(Append(task_queue, Shell)) = Len(task_queue) + 1
    BY <1>1, AppendProperties DEF Exec!TypeOK
  <1>4. Len(task_queue) \in Nat
    BY LenProperties DEF Exec!TypeOK
  <1>5. CASE Len(task_queue) < TaskQueueCap
    <2>1. task_queue' = Append(task_queue, Shell) /\ pc' = next
      BY <1>4, <1>5, KeyboardAssumption DEF Exec!PushOrPanic
    <2>2. Contains(task_queue', Shell)
      BY <2>1, <1>2
    <2> QED
      BY <1>3, <1>4, <1>5, <2>1, <2>2, KeyboardAssumption
  <1>6. CASE Len(task_queue) >= TaskQueueCap
    BY <1>4, <1>6, KeyboardAssumption DEF Exec!TypeOK, Exec!PushOrPanic, Exec!PcValues
  <1> QED
    BY <1>4, <1>5, <1>6, KeyboardAssumption

\* Every step of the composed system preserves the invariant.
LEMMA NextIInv == IInv /\ [Next]_vars => IInv'
  <1> SUFFICES ASSUME IInv, [Next]_vars PROVE IInv'
    OBVIOUS
  <1> USE KeyboardAssumption, OneTask
  <1> USE DEF IInv, TypeOK, WakeProtocol, ShellArmed, Exec!TypeOK,
              Exec!PcValues, WakerStates, KpcValues, execVars, wakerVars
  <1>1. CASE SpawnShell
    <2> USE <1>1 DEF SpawnShell, Exec!Spawn, Wakers, Shell
    <2>1. /\ tasks = {} /\ next_id = 0 /\ task_queue = <<>> /\ pc = "setup"
          /\ tasks' = {Shell} /\ next_id' = 1 /\ UNCHANGED iflag
      OBVIOUS
    <2>2. Exec!PushOrPanic(Shell, "setup")
      BY <2>1
    <2>3. pc' = "setup" /\ task_queue' = <<Shell>>
      BY <2>1, <2>2 DEF Exec!PushOrPanic
    <2>4. Contains(task_queue', Shell)
      BY <2>3 DEF Contains
    <2> QED
      BY <2>1, <2>3, <2>4
  <1>2. CASE RunLoop
    <2> USE <1>2 DEF RunLoop, Wakers
    <2>1. CASE Exec!Run
      BY <2>1 DEF Exec!Run
    <2>2. CASE Exec!PopTask
      <3>1. task_queue # <<>> /\ current' = Head(task_queue) /\ task_queue' = Tail(task_queue)
        BY <2>2 DEF Exec!PopTask
      <3>2. /\ current' = Shell
            /\ task_queue' \in Seq(Exec!TaskId)
            /\ Len(task_queue') <= TaskQueueCap
        BY <3>1, PopTaskId
      <3>3. /\ pc' = "poll" /\ waker_cache' \subseteq Exec!TaskId /\ iflag' /\ tasks' # {}
            /\ UNCHANGED <<next_id, tasks>> /\ kpc = "fast" /\ waker_state = "WAITING"
            /\ hand = NoScancode
        BY <2>2, <3>1, <3>2 DEF Exec!PopTask
      <3>4. TypeOK'
        BY <3>2, <3>3
      <3>5. WakeProtocol'
        BY <3>2, <3>3
      <3> QED
        BY <3>4, <3>5
    <2>3. CASE Exec!PopStale
      BY <2>3 DEF Exec!PopStale   \* the shell never finishes
    <2>4. CASE Exec!PopEmpty
      BY <2>4 DEF Exec!PopEmpty
    <2>5. CASE Exec!DisableInterrupts
      BY <2>5 DEF Exec!DisableInterrupts
    <2>6. CASE Exec!CheckIdle
      BY <2>6 DEF Exec!CheckIdle
    <2>7. CASE Exec!EnableAndHlt
      BY <2>7 DEF Exec!EnableAndHlt
    <2>8. CASE Exec!EnableInterrupts
      BY <2>8 DEF Exec!EnableInterrupts
    <2> QED
      BY <2>1, <2>2, <2>3, <2>4, <2>5, <2>6, <2>7, <2>8 DEF Exec!RunLoop
  <1>3. CASE Poll
    <2> USE DEF InPoll, Wakers
    <2>1. CASE FastPop
      <3>1. CASE scancode_queue # <<>>
        <4>0. hand' = Head(scancode_queue) /\ scancode_queue' = Tail(scancode_queue)
          BY <2>1, <3>1 DEF FastPop
        <4>1. /\ hand' \in Scancode
              /\ scancode_queue' \in Seq(Scancode)
              /\ Len(scancode_queue') <= ScancodeCap
          BY <3>1, <4>0, PopScancode
        <4>2. kpc' = "key" /\ pc = "poll" /\ kpc = "fast" /\ UNCHANGED <<execVars, wakerVars>>
          BY <2>1, <3>1 DEF FastPop
        <4>3. TypeOK'
          BY <4>1, <4>2
        <4>4. WakeProtocol'
          BY <4>1, <4>2
        <4> QED
          BY <4>3, <4>4
      <3>2. CASE scancode_queue = <<>>
        BY <2>1, <3>2 DEF FastPop
      <3> QED
        BY <3>1, <3>2
    <2>2. CASE RegisterLock
      BY <2>2 DEF RegisterLock
    <2>3. CASE RegisterStore
      BY <2>3 DEF RegisterStore
    <2>4. CASE RegisterUnlock
      BY <2>4 DEF RegisterUnlock
    <2>5. CASE RegisterRelease
      BY <2>5 DEF RegisterRelease
    <2>6. CASE RegisterRewake
      BY <2>6, PushType DEF RegisterRewake
    <2>7. CASE SecondPop
      <3>1. CASE scancode_queue # <<>>
        <4>0. hand' = Head(scancode_queue) /\ scancode_queue' = Tail(scancode_queue)
          BY <2>7, <3>1 DEF SecondPop
        <4>1. /\ hand' \in Scancode
              /\ scancode_queue' \in Seq(Scancode)
              /\ Len(scancode_queue') <= ScancodeCap
          BY <3>1, <4>0, PopScancode
        <4>2. kpc' = "take" /\ pc = "poll" /\ kpc = "second" /\ UNCHANGED <<execVars, wakerVars>>
          BY <2>7, <3>1 DEF SecondPop
        <4>3. TypeOK'
          BY <4>1, <4>2
        <4>4. WakeProtocol'
          BY <4>1, <4>2
        <4> QED
          BY <4>3, <4>4
      <3>2. CASE scancode_queue = <<>>
        BY <2>7, <3>2 DEF SecondPop
      <3> QED
        BY <3>1, <3>2
    <2>8. CASE TakeLock
      BY <2>8 DEF TakeLock
    <2>9. CASE TakeCell
      BY <2>9 DEF TakeCell
    <2>10. CASE TakeUnlock
      BY <2>10 DEF TakeUnlock
    <2>11. CASE HandleKey
      BY <2>11 DEF HandleKey
    <2>12. CASE ReturnPending
      BY <2>12 DEF ReturnPending, Exec!PollPending
    <2> QED
      BY <1>3, <2>1, <2>2, <2>3, <2>4, <2>5, <2>6, <2>7, <2>8, <2>9, <2>10,
         <2>11, <2>12 DEF Poll
  <1>4. CASE KeyboardIrq
    <2> USE <1>4 DEF KeyboardIrq, Wakers, Exec!Resumed
    <2>1. Exec!Resumed \in Exec!PcValues /\ UNCHANGED <<kpc, hand, iflag, tasks, next_id>>
      OBVIOUS
    <2>2. CASE Len(scancode_queue) >= ScancodeCap
      BY <2>2 DEF WakerWake
    <2>3. CASE Len(scancode_queue) < ScancodeCap
      <3>1. WakerWake
        BY <2>3
      <3>2. scancode_queue' \in Seq(Scancode) /\ Len(scancode_queue') <= ScancodeCap
        BY <2>3, AppendProperties
      <3>3. CASE waker_state = "WAITING" /\ waker_cell # NoTask
        <4>1. Exec!PushOrPanic(Shell, Exec!Resumed) /\ UNCHANGED waker_state
              /\ waker_cell' = NoTask
          BY <3>1, <3>3 DEF WakerWake
        <4>2. /\ task_queue' \in Seq(Exec!TaskId)
              /\ Len(task_queue') <= TaskQueueCap
              /\ pc' \in Exec!PcValues
              /\ \/ pc' = "panic" /\ task_queue' = task_queue
                 \/ pc' = Exec!Resumed /\ Contains(task_queue', Shell)
          BY <2>1, <4>1, PushType
        <4>3. TypeOK'
          BY <2>1, <3>2, <4>1, <4>2
        <4>4. CASE pc' = "panic" /\ task_queue' = task_queue
          BY <2>1, <3>3, <4>1, <4>3, <4>4
        <4>5. CASE pc' = Exec!Resumed /\ Contains(task_queue', Shell)
          BY <2>1, <3>3, <4>1, <4>3, <4>5
        <4> QED
          BY <4>2, <4>4, <4>5
      <3>4. CASE waker_state # "WAITING" \/ waker_cell = NoTask
        BY <2>1, <3>1, <3>2, <3>4 DEF WakerWake
      <3> QED
        BY <3>3, <3>4
    <2> QED
      BY <2>2, <2>3
  <1>5. CASE OtherIrq
    BY <1>5 DEF OtherIrq, Exec!IrqOther, Exec!Resumed, Wakers
  <1>6. CASE PanicLoop
    BY <1>6 DEF PanicLoop, Exec!PanicLoop, Exec!vars, Wakers
  <1>7. CASE UNCHANGED vars
    BY <1>7 DEF vars, Wakers
  <1> QED
    BY <1>1, <1>2, <1>3, <1>4, <1>5, <1>6, <1>7 DEF Next

\* The composed state is always well typed: neither queue ever holds more
\* than its capacity.
THEOREM KeyboardTypeCorrect == Spec => []TypeOK
  <1>1. IInv => TypeOK
    BY DEF IInv
  <1> QED
    BY <1>1, InitIInv, NextIInv, PTL DEF Spec

\* A scancode queued while the shell is not being polled finds the shell in
\* the executor's queue.
THEOREM KeyboardNoLostWakeup == Spec => []NoLostWakeup
  <1>1. IInv => NoLostWakeup
    BY DEF IInv, WakeProtocol, ShellArmed, NoLostWakeup
  <1> QED
    BY <1>1, InitIInv, NextIInv, PTL DEF Spec

\* hlt is executed only when no scancode waits.
THEOREM KeyboardHaltedOnlyWithoutInput == Spec => []HaltedOnlyWithoutInput
  <1>1. IInv => HaltedOnlyWithoutInput
    BY DEF IInv, WakeProtocol, ShellArmed, HaltedOnlyWithoutInput, Contains
  <1> QED
    BY <1>1, InitIInv, NextIInv, PTL DEF Spec

\* Every step of the keyboard path is a step of the mailbox or leaves it
\* unchanged.
LEMMA MailboxStep == IInv /\ [Next]_vars => [Box!Next]_(Box!vars)
  <1> SUFFICES ASSUME IInv, [Next]_vars PROVE [Box!Next]_(Box!vars)
    OBVIOUS
  <1> USE DEF Box!Next, Box!vars
  <1>1. CASE UNCHANGED <<scancode_queue, hand>>
    <2>1. CASE (pc' = "panic") = (pc = "panic")
      BY <1>1, <2>1
    <2>2. CASE pc # "panic" /\ pc' = "panic"
      BY <1>1, <2>2 DEF Box!Panic
    <2>3. CASE pc = "panic" /\ pc' # "panic"
      BY <2>3, <1>1 DEF Next, SpawnShell, RunLoop, Poll, FastPop, RegisterLock,
         RegisterStore, RegisterUnlock, RegisterRelease, RegisterRewake, SecondPop,
         TakeLock, TakeCell, TakeUnlock, HandleKey, ReturnPending, InPoll,
         KeyboardIrq, OtherIrq, PanicLoop, Exec!PanicLoop, Exec!vars, Exec!IrqOther,
         Exec!Spawn, Exec!RunLoop, Exec!Run, Exec!PopTask, Exec!PopStale,
         Exec!PopEmpty, Exec!DisableInterrupts, Exec!CheckIdle, Exec!EnableAndHlt,
         Exec!EnableInterrupts, vars, execVars
    <2> QED
      BY <2>1, <2>2, <2>3
  <1>2. CASE FastPop \/ SecondPop
    <2>1. CASE scancode_queue = <<>>
      BY <1>1, <1>2, <2>1 DEF FastPop, SecondPop
    <2>2. CASE scancode_queue # <<>>
      <3>1. /\ pc = "poll" /\ pc' = "poll" /\ hand = NoScancode
            /\ hand' = Head(scancode_queue) /\ scancode_queue' = Tail(scancode_queue)
        BY <1>2, <2>2
           DEF FastPop, SecondPop, InPoll, execVars, IInv, WakeProtocol
      <3> QED
        BY <2>2, <3>1 DEF Box!Deliver
    <2> QED
      BY <2>1, <2>2
  <1>3. CASE HandleKey
    BY <1>3 DEF HandleKey, InPoll, execVars, Box!Done, IInv, WakeProtocol
  <1>4. CASE KeyboardIrq
    <2>1. CASE Len(scancode_queue) < ScancodeCap
      <3>1. /\ pc # "panic"
            /\ \E s \in Scancode : scancode_queue' = Append(scancode_queue, s)
            /\ UNCHANGED hand
        BY <1>4, <2>1, KeyboardAssumption, LenProperties
           DEF KeyboardIrq, IInv, TypeOK
      <3>2. (pc' = "panic") \in BOOLEAN
        OBVIOUS
      <3> QED
        BY <2>1, <3>1, <3>2 DEF Box!Put
    <2>2. CASE ~(Len(scancode_queue) < ScancodeCap)
      BY <1>1, <1>4, <2>2 DEF KeyboardIrq
    <2> QED
      BY <2>1, <2>2
  <1> QED
    BY <1>1, <1>2, <1>3, <1>4
       DEF Next, SpawnShell, RunLoop, Poll, RegisterLock, RegisterStore,
           RegisterUnlock, RegisterRelease, RegisterRewake, TakeLock, TakeCell,
           TakeUnlock, ReturnPending, OtherIrq, PanicLoop, vars

\* Scancodes reach the shell in the order in which they were accepted, none
\* twice and none invented: the safety part of ImplementsMailbox.
THEOREM KeyboardImplementsMailbox == Spec => Box!SafetySpec
  <1>1. Init => Box!Init
    BY DEF Init, Box!Init
  <1> QED
    BY <1>1, InitIInv, NextIInv, MailboxStep, PTL DEF Spec, Box!SafetySpec

\* Every step of the keyboard path is a step that the executor allows its
\* task and its interrupt handlers, with the clones of the shell's waker as
\* the executor's wakers, or leaves the executor unchanged.
LEMMA ExecutorStep == IInv /\ [Next]_vars => [Exec!Next]_(Exec!vars)
  <1> SUFFICES ASSUME IInv, [Next]_vars PROVE [Exec!Next]_(Exec!vars)
    OBVIOUS
  <1> DEFINE W == Wakers
  <1>w. W \in {{}, {Shell}} /\ W' \in {{}, {Shell}}
    BY DEF Wakers
  <1>1. CASE SpawnShell \/ RunLoop \/ OtherIrq \/ PanicLoop
    BY <1>1 DEF SpawnShell, RunLoop, OtherIrq, PanicLoop, Exec!RunLoop, Exec!Next
  <1>2. CASE Poll
    <2>1. CASE UNCHANGED execVars
      <3>1. pc = "poll" /\ current = Shell
        BY <1>2, <2>1 DEF Poll, FastPop, RegisterLock, RegisterStore, RegisterUnlock,
             RegisterRelease, RegisterRewake, SecondPop, TakeLock, TakeCell,
             TakeUnlock, HandleKey, ReturnPending, InPoll, IInv, WakeProtocol
      <3>2. CASE W' = W
        BY <2>1, <3>2 DEF execVars, Exec!vars
      <3>3. CASE W = {} /\ W' = {Shell}
        <4>1. Exec!CloneWaker
          BY <2>1, <3>1, <3>3 DEF execVars, Exec!CloneWaker
        <4> QED
          BY <4>1 DEF Exec!Next
      <3>4. CASE W = {Shell} /\ W' = {}
        <4>1. Exec!DropWaker
          BY <2>1, <3>1, <3>4 DEF execVars, Exec!DropWaker
        <4> QED
          BY <4>1 DEF Exec!Next
      <3> QED
        BY <1>w, <3>2, <3>3, <3>4
    <2>2. CASE RegisterRewake
      <3>1. /\ pc = "poll" /\ W = {Shell} /\ Exec!PushOrPanic(Shell, "poll")
            /\ UNCHANGED <<next_id, tasks, waker_cache, current, iflag>>
        BY <2>2 DEF RegisterRewake, InPoll, Wakers
      <3>2. W' \in {W, W \ {Shell}}
        BY <1>w, <3>1
      <3>3. Exec!PollWake
        BY <3>1, <3>2 DEF Exec!PollWake
      <3> QED
        BY <3>3 DEF Exec!Next
    <2>3. CASE ReturnPending
      BY <2>3 DEF ReturnPending, Exec!Next
    <2> QED
      BY <1>2, <2>1, <2>2, <2>3
         DEF Poll, FastPop, RegisterLock, RegisterStore, RegisterUnlock,
             RegisterRelease, SecondPop, TakeLock, TakeCell, TakeUnlock, HandleKey
  <1>3. CASE KeyboardIrq
    <2>1. /\ iflag /\ pc # "panic"
          /\ UNCHANGED <<next_id, tasks, waker_cache, current, iflag, kpc>>
      BY <1>3 DEF KeyboardIrq
    <2>2. CASE pc' = Exec!Resumed /\ UNCHANGED <<waker_cell, task_queue>>
      <3>1. W' = W
        BY <2>1, <2>2 DEF Wakers
      <3>2. Exec!IrqOther
        BY <2>1, <2>2, <3>1 DEF Exec!IrqOther
      <3> QED
        BY <3>2 DEF Exec!Next
    <2>3. CASE waker_cell # NoTask /\ Exec!PushOrPanic(waker_cell, Exec!Resumed)
      <3>1. waker_cell = Shell /\ W = {Shell}
        BY <2>3 DEF IInv, TypeOK, Wakers
      <3>2. W' \in {W, W \ {Shell}}
        BY <1>w, <3>1
      <3>3. Exec!IrqWake
        BY <2>1, <2>3, <3>1, <3>2 DEF Exec!IrqWake
      <3> QED
        BY <3>3 DEF Exec!Next
    <2> QED
      BY <1>3, <2>2, <2>3 DEF KeyboardIrq, WakerWake, wakerVars
  <1>4. CASE UNCHANGED vars
    BY <1>4 DEF vars, execVars, wakerVars, Exec!vars, Wakers
  <1> QED
    BY <1>1, <1>2, <1>3, <1>4 DEF Next

\* The composition of the keyboard path with the run loop obeys the
\* executor's specification: all that was proved of the executor for any
\* tasks and handlers holds of the shell and ioapic_handler_1.
THEOREM KeyboardImplementsExecutor == Spec => ImplementsExecutor
  <1>1. Init => Exec!Init
    BY KeyboardAssumption DEF Init, Exec!Init, Wakers
  <1> QED
    BY <1>1, InitIInv, NextIInv, ExecutorStep, PTL
       DEF Spec, ImplementsExecutor, Exec!SafetySpec

=============================================================================
