---------------------------- MODULE Tasks_proofs ----------------------------
(***************************************************************************)
(* Proofs about Executor.tla, for every number of tasks and every capacity *)
(* of the queue, and about the task that it runs, Shell.tla with           *)
(* Terminal.tla and USTar.tla, for every size of the screen, every length  *)
(* of the line, every text and every archive.                              *)
(*                                                                         *)
(* Seen and Offset are recursive functions.  That they obey their          *)
(* definitions is proved here from the existence of a least                *)
(* counterexample, WFMin of the library.                                   *)
(***************************************************************************)
EXTENDS Executor, Shell, SequenceTheorems, WellFoundedInduction, TLAPS

-----------------------------------------------------------------------------
(* The executor.                                                           *)

\* The inductive invariant: the three checked invariants need one another.
ExecutorIInv == TypeOK /\ HaltedOnlyWhenIdle /\ PollsOwnedTasks

\* What a push of a task id does to the queue.
LEMMA ExecutorPush ==
    ASSUME TypeOK, NEW id \in TaskId, NEW next, PushOrPanic(id, next)
    PROVE  /\ task_queue' \in Seq(TaskId)
           /\ Len(task_queue') <= TaskQueueCap
           /\ pc' = next \/ pc' = "panic"
  <1>1. Len(task_queue) \in Nat
    BY LenProperties DEF TypeOK
  <1>2. /\ Append(task_queue, id) \in Seq(TaskId)
        /\ Len(Append(task_queue, id)) = Len(task_queue) + 1
    BY AppendProperties DEF TypeOK
  <1>3. CASE Len(task_queue) < TaskQueueCap
    <2>1. task_queue' = Append(task_queue, id) /\ pc' = next
      BY <1>1, <1>3, ExecutorAssumption DEF PushOrPanic
    <2> QED
      BY <1>1, <1>2, <1>3, <2>1, ExecutorAssumption
  <1>4. CASE Len(task_queue) >= TaskQueueCap
    BY <1>1, <1>4, ExecutorAssumption DEF PushOrPanic, TypeOK
  <1> QED
    BY <1>1, <1>3, <1>4, ExecutorAssumption

\* Executor::new and interrupts enabled by main.rs.
LEMMA ExecutorInit == Init => ExecutorIInv
  BY ExecutorAssumption
     DEF Init, ExecutorIInv, TypeOK, HaltedOnlyWhenIdle, PollsOwnedTasks, PcValues

\* Every step of the executor, of a polled task and of an interrupt handler
\* preserves the invariant.
LEMMA ExecutorNext == ExecutorIInv /\ [Next]_vars => ExecutorIInv'
  <1> SUFFICES ASSUME ExecutorIInv, [Next]_vars PROVE ExecutorIInv'
    OBVIOUS
  <1> USE ExecutorAssumption
  <1> USE DEF ExecutorIInv, TypeOK, HaltedOnlyWhenIdle, PollsOwnedTasks, PcValues
  <1>1. CASE Spawn
    <2>1. next_id \in TaskId
      BY <1>1 DEF Spawn, TaskId
    <2>2. pc' \in {"setup", "panic"} /\ task_queue' \in Seq(TaskId)
          /\ Len(task_queue') <= TaskQueueCap
      BY <1>1, <2>1, ExecutorPush DEF Spawn
    <2> QED
      BY <1>1, <2>1, <2>2 DEF Spawn
  <1>2. CASE Run
    BY <1>2 DEF Run
  <1>3. CASE PopTask
    <2>1. /\ Head(task_queue) \in TaskId /\ Tail(task_queue) \in Seq(TaskId)
          /\ Len(Tail(task_queue)) <= TaskQueueCap
      BY <1>3, HeadTailProperties, LenProperties DEF PopTask
    <2> QED
      BY <1>3, <2>1 DEF PopTask
  <1>4. CASE PopStale
    <2>1. /\ Tail(task_queue) \in Seq(TaskId)
          /\ Len(Tail(task_queue)) <= TaskQueueCap
      BY <1>4, HeadTailProperties, LenProperties DEF PopStale
    <2> QED
      BY <1>4, <2>1 DEF PopStale
  <1>5. CASE PopEmpty
    BY <1>5 DEF PopEmpty
  <1>6. CASE PollReady
    BY <1>6 DEF PollReady
  <1>7. CASE PollPending
    BY <1>7 DEF PollPending
  <1>8. CASE DisableInterrupts
    BY <1>8 DEF DisableInterrupts
  <1>9. CASE CheckIdle
    BY <1>9 DEF CheckIdle
  <1>10. CASE EnableAndHlt
    BY <1>10 DEF EnableAndHlt
  <1>11. CASE EnableInterrupts
    BY <1>11 DEF EnableInterrupts
  <1>12. CASE CloneWaker
    BY <1>12 DEF CloneWaker
  <1>13. CASE DropWaker
    BY <1>13 DEF DropWaker
  <1>14. CASE PollWake
    <2>1. PICK t \in wakers \cup {current} :
            PushOrPanic(t, "poll") /\ wakers' \in {wakers, wakers \ {t}}
      BY <1>14 DEF PollWake
    <2>2. t \in TaskId
      BY <1>14, <2>1 DEF PollWake
    <2>3. /\ task_queue' \in Seq(TaskId) /\ Len(task_queue') <= TaskQueueCap
          /\ pc' = "poll" \/ pc' = "panic"
      BY <2>1, <2>2, ExecutorPush
    <2> QED
      BY <1>14, <2>1, <2>3 DEF PollWake
  <1>15. CASE IrqOther
    BY <1>15 DEF IrqOther, Resumed
  <1>16. CASE IrqWake
    <2>1. PICK t \in wakers :
            PushOrPanic(t, Resumed) /\ wakers' \in {wakers, wakers \ {t}}
      BY <1>16 DEF IrqWake
    <2>2. /\ task_queue' \in Seq(TaskId) /\ Len(task_queue') <= TaskQueueCap
          /\ pc' = Resumed \/ pc' = "panic"
      BY <2>1, ExecutorPush
    <2> QED
      BY <1>16, <2>1, <2>2 DEF IrqWake, Resumed
  <1>17. CASE PanicLoop \/ UNCHANGED vars
    BY <1>17 DEF PanicLoop, vars
  <1> QED
    BY <1>1, <1>2, <1>3, <1>4, <1>5, <1>6, <1>7, <1>8, <1>9, <1>10, <1>11,
       <1>12, <1>13, <1>14, <1>15, <1>16, <1>17 DEF Next

\* The executor's state is always well typed and its queue within bounds.
THEOREM ExecutorTypeCorrect == Spec => []TypeOK
  <1>1. ExecutorIInv => TypeOK
    BY DEF ExecutorIInv
  <1> QED
    BY <1>1, ExecutorInit, ExecutorNext, PTL DEF Spec, SafetySpec

\* sleep_if_idle never halts the CPU over a task that is ready.
THEOREM ExecutorHaltedOnlyWhenIdle == Spec => []HaltedOnlyWhenIdle
  <1>1. ExecutorIInv => HaltedOnlyWhenIdle
    BY DEF ExecutorIInv
  <1> QED
    BY <1>1, ExecutorInit, ExecutorNext, PTL DEF Spec, SafetySpec

\* run_ready_tasks polls only tasks it owns, with interrupts on.
THEOREM ExecutorPollsOwnedTasks == Spec => []PollsOwnedTasks
  <1>1. ExecutorIInv => PollsOwnedTasks
    BY DEF ExecutorIInv
  <1> QED
    BY <1>1, ExecutorInit, ExecutorNext, PTL DEF Spec, SafetySpec

\* A task that returned Ready is never polled again.
THEOREM ExecutorFinishedStaysFinished == Spec => FinishedStaysFinished
  <1> DEFINE Gone(t) == t < next_id /\ t \notin tasks
  <1>1. ExecutorIInv /\ [Next]_vars =>
          [\A t \in TaskId : Gone(t) => (t \notin tasks' /\ current' # t)]_vars
    <2> SUFFICES ASSUME ExecutorIInv, Next, NEW t \in TaskId, t < next_id, t \notin tasks
                 PROVE  t \notin tasks' /\ current' # t
      BY DEF vars
    <2>1. current # t /\ t # NoTask /\ next_id \in Nat /\ t \in Nat
      BY ExecutorAssumption DEF ExecutorIInv, PollsOwnedTasks, TypeOK, TaskId
    <2>2. tasks' \subseteq tasks \cup {next_id}
      BY DEF Next, Spawn, Run, PopTask, PopStale, PopEmpty, PollReady, PollPending,
             DisableInterrupts, CheckIdle, EnableAndHlt, EnableInterrupts,
             CloneWaker, DropWaker, PollWake, IrqOther, IrqWake, PanicLoop, vars
    <2>3. current' \in tasks \cup {current, NoTask}
      BY DEF Next, Spawn, Run, PopTask, PopStale, PopEmpty, PollReady, PollPending,
             DisableInterrupts, CheckIdle, EnableAndHlt, EnableInterrupts,
             CloneWaker, DropWaker, PollWake, IrqOther, IrqWake, PanicLoop, vars
    <2> QED
      BY <2>1, <2>2, <2>3
  <1> QED
    BY <1>1, ExecutorInit, ExecutorNext, PTL DEF Spec, SafetySpec, FinishedStaysFinished

-----------------------------------------------------------------------------
(* What is visible of a line (Shell.tla).                                  *)

\* A set of numbers has a least one: an induction over data is a search for
\* the least counterexample.
LEMMA LeastNatural ==
    ASSUME NEW S, S \subseteq Nat, S # {}
    PROVE  \E m \in S : \A n \in S : m <= n
  <1>1. PICK m \in S : \A n \in S : ~(<<n, m>> \in OpToRel(<, Nat))
    BY WFMin, NatLessThanWellFounded
  <1>2. \A n \in S : m <= n
    <2> SUFFICES ASSUME NEW n \in S PROVE m <= n
      OBVIOUS
    <2>1. m \in Nat /\ n \in Nat
      OBVIOUS
    <2>2. ~(n < m)
      BY <1>1, <2>1 DEF OpToRel
    <2> QED
      BY <2>1, <2>2
  <1> QED
    BY <1>2

\* The right-hand side of the recursive definition of Seen.
SeenStep(buf, f) ==
    [n \in 0 .. Len(buf) |->
        IF n = 0 THEN <<>>
        ELSE IF buf[n] = "del" THEN f[n - 1] ELSE Append(f[n - 1], buf[n])]

\* Seen obeys its definition if some function does.
LEMMA SeenChoose ==
    ASSUME NEW buf, \E f : f = SeenStep(buf, f)
    PROVE Seen(buf) = SeenStep(buf, Seen(buf))
  <1>1. Seen(buf) = CHOOSE f : f = SeenStep(buf, f)
    BY DEF Seen, SeenStep
  <1> QED
    BY <1>1

\* f is what Seen is to be for the first n characters of buf.
SeenIn(buf, n, f) ==
    /\ f \in [0 .. n -> Seq(Chars)]
    /\ f[0] = <<>>
    /\ \A i \in 1 .. n :
          f[i] = IF buf[i] = "del" THEN f[i - 1] ELSE Append(f[i - 1], buf[i])

\* One character more.
LEMMA SeenExtend ==
    ASSUME NEW buf \in Seq(Chars \cup {"del"}), NEW n \in 1 .. Len(buf),
           NEW f, SeenIn(buf, n - 1, f)
    PROVE  \E g : SeenIn(buf, n, g)
  <1> DEFINE new == IF buf[n] = "del" THEN f[n - 1] ELSE Append(f[n - 1], buf[n])
             g == [i \in 0 .. n |-> IF i = n THEN new ELSE f[i]]
  <1>1. n \in Nat /\ n > 0 /\ buf[n] \in Chars \cup {"del"}
    OBVIOUS
  <1>2. f \in [0 .. (n - 1) -> Seq(Chars)] /\ f[n - 1] \in Seq(Chars) /\ f[0] = <<>>
    BY <1>1 DEF SeenIn
  <1>3. new \in Seq(Chars)
    BY <1>1, <1>2, AppendProperties
  <1>4. \A i \in 0 .. n : g[i] = IF i = n THEN new ELSE f[i]
    OBVIOUS
  <1> HIDE DEF new
  <1>5. g \in [0 .. n -> Seq(Chars)]
    BY <1>1, <1>2, <1>3
  <1> HIDE DEF g
  <1>6. g[0] = <<>>
    BY <1>1, <1>2, <1>4
  <1>7. ASSUME NEW i \in 1 .. n
        PROVE  g[i] = IF buf[i] = "del" THEN g[i - 1] ELSE Append(g[i - 1], buf[i])
    <2>1. g[i - 1] = f[i - 1]
      BY <1>1, <1>4
    <2>2. CASE i = n
      BY <1>1, <1>4, <2>1, <2>2 DEF new
    <2>3. CASE i # n
      <3>1. i \in 1 .. (n - 1) /\ g[i] = f[i]
        BY <1>1, <1>4, <2>3
      <3>2. f[i] = IF buf[i] = "del" THEN f[i - 1] ELSE Append(f[i - 1], buf[i])
        BY <3>1 DEF SeenIn
      <3> QED
        BY <2>1, <3>1, <3>2
    <2> QED
      BY <2>2, <2>3
  <1>8. SeenIn(buf, n, g)
    BY <1>5, <1>6, <1>7 DEF SeenIn
  <1> QED
    BY <1>8

\* There is such a function for every buffer.
LEMMA SeenExists ==
    ASSUME NEW buf \in Seq(Chars \cup {"del"}), NEW n \in 0 .. Len(buf)
    PROVE  \E f : SeenIn(buf, n, f)
  <1> DEFINE Bad == {i \in Nat : i <= Len(buf) /\ ~\E f : SeenIn(buf, i, f)}
  <1>1. Len(buf) \in Nat
    OBVIOUS
  <1>2. SUFFICES ASSUME Bad # {} PROVE FALSE
    BY <1>1
  <1>3. PICK m \in Bad : \A i \in Bad : m <= i
    BY <1>2, LeastNatural
  <1>4. m # 0
    <2>1. SeenIn(buf, 0, [i \in 0 .. 0 |-> <<>>])
      BY DEF SeenIn
    <2> QED
      BY <2>1
  <1>5. m \in 1 .. Len(buf) /\ m - 1 \in Nat /\ m - 1 \notin Bad /\ m - 1 <= Len(buf)
    BY <1>1, <1>3, <1>4
  <1>6. \E f : SeenIn(buf, m - 1, f)
    BY <1>5
  <1>7. \E f : SeenIn(buf, m, f)
    BY <1>5, <1>6, SeenExtend
  <1> QED
    BY <1>7

\* Seen is what its definition says.
LEMMA SeenDef ==
    ASSUME NEW buf \in Seq(Chars \cup {"del"})
    PROVE  SeenIn(buf, Len(buf), Seen(buf))
  <1> DEFINE N == Len(buf)
             v == Seen(buf)
             Bad == {i \in Nat : i <= N /\ v[i] \notin Seq(Chars)}
  <1>1. N \in Nat
    OBVIOUS
  <1>2. PICK f : SeenIn(buf, N, f)
    BY <1>1, SeenExists
  <1>3. f = SeenStep(buf, f)
    <2>1. /\ f = [i \in 0 .. N |-> f[i]] /\ f[0] = <<>>
          /\ \A i \in 1 .. N :
                f[i] = IF buf[i] = "del" THEN f[i - 1] ELSE Append(f[i - 1], buf[i])
      BY <1>2 DEF SeenIn
    <2>2. \A i \in 0 .. N : i = 0 \/ i \in 1 .. N
      BY <1>1
    <2>3. \A i \in 0 .. N : f[i] = SeenStep(buf, f)[i]
      BY <2>1, <2>2 DEF SeenStep
    <2>4. SeenStep(buf, f) = [i \in 0 .. N |-> SeenStep(buf, f)[i]]
      BY DEF SeenStep
    <2> QED
      BY <2>1, <2>3, <2>4, Zenon
  <1>4. v = SeenStep(buf, v)
    BY <1>3, SeenChoose
  <1>5. /\ v = [i \in 0 .. N |-> v[i]] /\ v[0] = <<>>
        /\ \A i \in 1 .. N :
              v[i] = IF buf[i] = "del" THEN v[i - 1] ELSE Append(v[i - 1], buf[i])
    <2> HIDE DEF v
    <2>1. /\ \A i \in 0 .. N :
               v[i] = IF i = 0 THEN <<>>
                      ELSE IF buf[i] = "del" THEN v[i - 1] ELSE Append(v[i - 1], buf[i])
          /\ v = [i \in 0 .. N |-> v[i]]
      BY <1>4 DEF SeenStep
    <2>2. \A i \in 1 .. N : i # 0 /\ i \in 0 .. N
      BY <1>1
    <2> QED
      BY <1>1, <2>1, <2>2
  <1> HIDE DEF v, N
  <1>6. Bad = {}
    <2> SUFFICES ASSUME Bad # {} PROVE FALSE
      OBVIOUS
    <2>1. PICK m \in Bad : \A i \in Bad : m <= i
      BY LeastNatural
    <2>2. m # 0
      <3>1. v[0] = <<>>
        BY <1>5, Zenon
      <3>2. <<>> \in Seq(Chars)
        OBVIOUS
      <3> QED
        BY <3>1, <3>2
    <2>3. m \in 1 .. N /\ m - 1 \in Nat /\ m - 1 <= N /\ m - 1 \notin Bad
      BY <1>1, <2>1, <2>2
    <2>4. v[m - 1] \in Seq(Chars)
      BY <2>3
    <2>5. buf[m] \in Chars \cup {"del"}
      BY <2>3 DEF N
    <2>6. v[m] = IF buf[m] = "del" THEN v[m - 1] ELSE Append(v[m - 1], buf[m])
      BY <1>5, <2>3
    <2>7. v[m] \in Seq(Chars)
      BY <2>4, <2>5, <2>6, AppendProperties
    <2> QED
      BY <2>7
  <1>7. \A i \in 0 .. N : v[i] \in Seq(Chars)
    BY <1>1, <1>6
  <1>8. v \in [0 .. N -> Seq(Chars)]
    BY <1>5, <1>7
  <1> QED
    BY <1>5, <1>8 DEF SeenIn, v, N

\* f obeys the definition of Seen for the first n characters.
SeenUpTo(buf, n, f) ==
    /\ f[0] = <<>>
    /\ \A i \in 1 .. n :
          f[i] = IF buf[i] = "del" THEN f[i - 1] ELSE Append(f[i - 1], buf[i])

\* The first n characters are the same.
SamePrefix(b1, b2, n) == \A i \in 1 .. n : b1[i] = b2[i]

\* What is seen of a prefix does not depend on what follows it.
LEMMA SeenAgree ==
    ASSUME NEW b1, NEW b2, NEW n \in Nat, NEW f1, NEW f2,
           SeenUpTo(b1, n, f1), SeenUpTo(b2, n, f2), SamePrefix(b1, b2, n)
    PROVE  f1[n] = f2[n]
  <1> DEFINE Bad == {i \in Nat : i <= n /\ f1[i] # f2[i]}
  <1> SUFFICES ASSUME Bad # {} PROVE FALSE
    OBVIOUS
  <1>1. PICK m \in Bad : \A i \in Bad : m <= i
    BY LeastNatural
  <1>2. m # 0
    BY DEF SeenUpTo
  <1>3. m \in 1 .. n /\ m - 1 \in Nat /\ m - 1 \notin Bad /\ m - 1 <= n
    BY <1>1, <1>2
  <1>4. f1[m - 1] = f2[m - 1] /\ b1[m] = b2[m]
    BY <1>3 DEF SamePrefix
  <1>5. f1[m] = f2[m]
    BY <1>3, <1>4 DEF SeenUpTo
  <1> QED
    BY <1>5

\* No more is seen than was typed.
LEMMA SeenShort ==
    ASSUME NEW buf, NEW n \in Nat, NEW f, SeenIn(buf, n, f)
    PROVE  Len(f[n]) <= n
  <1> DEFINE Bad == {i \in Nat : i <= n /\ ~(Len(f[i]) <= i)}
  <1> SUFFICES ASSUME Bad # {} PROVE FALSE
    OBVIOUS
  <1>1. PICK m \in Bad : \A i \in Bad : m <= i
    BY LeastNatural
  <1>2. m # 0
    BY DEF SeenIn
  <1>3. m \in 1 .. n /\ m - 1 \in 0 .. n /\ m - 1 \notin Bad
    BY <1>1, <1>2
  <1>4. Len(f[m - 1]) <= m - 1 /\ f[m - 1] \in Seq(Chars)
    BY <1>3 DEF SeenIn
  <1>5. Len(f[m]) <= Len(f[m - 1]) + 1 /\ Len(f[m - 1]) \in Nat
    <2>1. f[m] = IF buf[m] = "del" THEN f[m - 1] ELSE Append(f[m - 1], buf[m])
      BY <1>3 DEF SeenIn
    <2>2. CASE buf[m] = "del"
      BY <1>4, <2>1, <2>2
    <2>3. CASE buf[m] # "del"
      <3>1. f[m] \in Seq(Chars)
        BY <1>3 DEF SeenIn
      <3>2. Len(Append(f[m - 1], buf[m])) = Len(f[m - 1]) + 1
        BY <1>4
      <3> QED
        BY <1>4, <2>1, <2>3, <3>2
    <2> QED
      BY <2>2, <2>3
  <1> QED
    BY <1>1, <1>3, <1>4, <1>5

\* Nothing typed, nothing visible.
LEMMA VisibleEmpty == Visible(<<>>) = <<>>
  <1>1. <<>> \in Seq(Chars \cup {"del"}) /\ Len(<<>>) = 0
    OBVIOUS
  <1> QED
    BY <1>1, SeenDef DEF Visible, SeenIn

\* What is visible of a line are printable characters.
LEMMA VisibleType ==
    ASSUME NEW buf \in Seq(Chars \cup {"del"})
    PROVE  Visible(buf) \in Seq(Chars)
  BY SeenDef DEF Visible, SeenIn

\* ... in particular not on one character.
LEMMA SeenFront ==
    ASSUME NEW long, NEW short, NEW n \in Nat,
           SeenIn(long, n + 1, Seen(long)), SeenIn(short, n, Seen(short)),
           \A i \in 1 .. n : short[i] = long[i]
    PROVE  Seen(short)[n] = Seen(long)[n]
  <1>1. PICK f : f = Seen(long)
    OBVIOUS
  <1>2. SeenUpTo(long, n, f)
    BY <1>1 DEF SeenIn, SeenUpTo
  <1>3. PICK g : g = Seen(short)
    OBVIOUS
  <1>4. SeenUpTo(short, n, g)
    BY <1>3 DEF SeenIn, SeenUpTo
  <1>5. SamePrefix(short, long, n)
    BY DEF SamePrefix
  <1>6. g[n] = f[n]
    BY <1>2, <1>4, <1>5, SeenAgree
  <1> QED
    BY <1>1, <1>3, <1>6

\* A character that is typed is the next visible one, Delete is not visible.
LEMMA VisibleAppend ==
    ASSUME NEW buf \in Seq(Chars \cup {"del"}), NEW c \in Chars \cup {"del"}
    PROVE  Visible(Append(buf, c)) =
               IF c = "del" THEN Visible(buf) ELSE Append(Visible(buf), c)
  <1>1. PICK n \in Nat : n = Len(buf)
    OBVIOUS
  <1>2. PICK b \in Seq(Chars \cup {"del"}) : b = Append(buf, c)
    BY AppendProperties
  <1>3. /\ Len(b) = n + 1 /\ b[n + 1] = c
        /\ \A i \in 1 .. n : b[i] = buf[i]
    BY <1>1, <1>2, AppendProperties
  <1>4. SeenIn(buf, n, Seen(buf)) /\ SeenIn(b, n + 1, Seen(b))
    BY <1>1, <1>3, SeenDef
  <1>5. Seen(b)[n] = Seen(buf)[n]
    BY <1>3, <1>4, SeenFront
  <1>6. Seen(b)[n + 1] = IF c = "del" THEN Seen(b)[n] ELSE Append(Seen(b)[n], c)
    BY <1>1, <1>3, <1>4 DEF SeenIn
  <1> QED
    BY <1>1, <1>2, <1>3, <1>5, <1>6 DEF Visible

\* All that was typed is visible.
NoDelete(buf) == buf = Visible(buf)

\* ... and all that is left of it when pop has taken the last character.
LEMMA VisibleFront ==
    ASSUME NEW buf \in Seq(Chars \cup {"del"}), Len(buf) > 0, NoDelete(buf)
    PROVE  Visible(SubSeq(buf, 1, Len(buf) - 1)) = SubSeq(buf, 1, Len(buf) - 1)
  <1>1. PICK n \in Nat : n = Len(buf) - 1 /\ Len(buf) = n + 1
    BY LenProperties
  <1>2. PICK b : b = SubSeq(buf, 1, n)
    OBVIOUS
  <1>3. /\ b \in Seq(Chars \cup {"del"}) /\ Len(b) = n
        /\ \A i \in 1 .. n : b[i] = buf[i]
    BY <1>1, <1>2
  <1>4. SeenIn(buf, n + 1, Seen(buf)) /\ SeenIn(b, n, Seen(b))
    BY <1>1, <1>3, SeenDef
  <1>5. Seen(b)[n] = Seen(buf)[n]
    BY <1>3, <1>4, SeenFront
  <1>6. PICK v : v = Seen(buf)
    OBVIOUS
  <1>7. /\ v[n] \in Seq(Chars)
        /\ v[n + 1] = IF buf[n + 1] = "del" THEN v[n] ELSE Append(v[n], buf[n + 1])
    <2>1. n + 1 \in 1 .. (n + 1) /\ n \in 0 .. (n + 1) /\ (n + 1) - 1 = n
      BY <1>1
    <2>2. SeenIn(buf, n + 1, v)
      BY <1>4, <1>6
    <2> QED
      BY <2>1, <2>2 DEF SeenIn
  <1>8. v[n + 1] = buf
    BY <1>1, <1>6 DEF NoDelete, Visible
  <1>9. Len(v[n]) <= n
    BY <1>4, <1>5, <1>6, SeenShort
  <1>10. v[n] = b
    <2>1. PICK s \in Seq(Chars) : s = v[n]
      BY <1>7
    <2>2. PICK c : c = buf[n + 1]
      OBVIOUS
    <2>3. buf = Append(s, c)
      <3>1. v[n] # buf
        BY <1>1, <1>9
      <3> QED
        BY <1>7, <1>8, <2>1, <2>2, <3>1
    <2>4. Len(Append(s, c)) = Len(s) + 1 /\ \A i \in 1 .. Len(s) : Append(s, c)[i] = s[i]
      OBVIOUS
    <2>5. Len(s) = n /\ \A i \in 1 .. n : s[i] = buf[i]
      BY <1>1, <2>3, <2>4
    <2>6. s \in Seq(Chars \cup {"del"})
      BY <2>1, SeqMonotonic
    <2>7. \A i \in 1 .. Len(s) : s[i] = b[i]
      BY <1>3, <2>5
    <2> QED
      BY <1>3, <2>1, <2>5, <2>6, <2>7, SeqEqual
  <1> QED
    BY <1>1, <1>2, <1>3, <1>5, <1>6, <1>10 DEF Visible

-----------------------------------------------------------------------------
(* The cells of the terminal (Terminal.tla).                               *)

\* The types of the text buffer
Buffers == [Cells -> Chars \cup {NUL}]

\* and of the framebuffer.
Pictures == [Cells -> SUBSET (Chars \cup {NUL, "face"})]

\* Division by the width.
LEMMA Multiples ==
    ASSUME NEW w \in Nat \ {0}, NEW y \in Nat, NEW x \in 0 .. (w - 1)
    PROVE  /\ y * w + x \in Nat
           /\ (y * w + x) \div w = y
           /\ \A h \in Nat : y < h => (y * w) + x <= (w * h) - 1
  <1>1. y * w \in Nat
    OBVIOUS
  <1>2. (y * w + x) \div w = y
    OBVIOUS
  <1>3. ASSUME NEW h \in Nat, y < h
        PROVE  (y * w) + x <= (w * h) - 1
    <2>1. (y + 1) * w <= h * w
      BY <1>3
    <2> QED
      BY <1>1, <2>1
  <1> QED
    BY <1>1, <1>2, <1>3

\* The place of a cell in the buffer.
LEMMA CellAt ==
    ASSUME NEW y \in 0 .. (Height - 1), NEW x \in 0 .. (Width - 1)
    PROVE  /\ y * Width + x \in Cells
           /\ Row(y * Width + x) = y
  BY TerminalAssumption, Multiples DEF Cells, Row

\* ... and back.
LEMMA CellOf ==
    ASSUME NEW k \in Cells
    PROVE  /\ Row(k) \in 0 .. (Height - 1)
           /\ k - Row(k) * Width \in 0 .. (Width - 1)
           /\ k = Row(k) * Width + (k - Row(k) * Width)
  <1>1. /\ Width \in Nat \ {0} /\ Height \in Nat \ {0} /\ k \in Nat /\ k < Width * Height
    BY TerminalAssumption DEF Cells
  <1>2. PICK q \in Nat : q = k \div Width
    BY <1>1
  <1>3. q * Width \in Nat /\ q * Width <= k /\ k < q * Width + Width
    BY <1>1, <1>2
  <1>4. q < Height
    <2>1. SUFFICES ASSUME q >= Height PROVE FALSE
      BY <1>1
    <2>2. q * Width >= Height * Width
      BY <1>1, <2>1
    <2> QED
      BY <1>1, <1>3, <2>2
  <1> QED
    BY <1>1, <1>2, <1>3, <1>4 DEF Row

\* There is no row below the last one.
LEMMA LastRow ==
    ASSUME NEW k \in Cells, Row(k) >= Height - 1
    PROVE  k + Width \notin Cells
  <1>1. Width \in Nat \ {0} /\ Height \in Nat \ {0} /\ k \in Nat
    BY TerminalAssumption DEF Cells
  <1>2. Row(k) = Height - 1 /\ k >= Row(k) * Width
    <2>1. PICK r \in 0 .. (Height - 1) : r = Row(k) /\ k - r * Width \in 0 .. (Width - 1)
      BY CellOf
    <2>2. r * Width \in Nat
      BY <1>1, <2>1
    <2> QED
      BY <1>1, <2>1, <2>2
  <1>3. (Height - 1) * Width + Width = Width * Height
    BY <1>1
  <1>4. k + Width >= Width * Height
    BY <1>1, <1>2, <1>3
  <1> QED
    BY <1>1, <1>4 DEF Cells

\* A cell shows the character that is drawn in it or nothing.
LEMMA GlyphType ==
    ASSUME NEW k, NEW c
    PROVE  Glyph(k, c) \subseteq {c}
  BY DEF Glyph

\* scroll_up leaves the last row empty.
LEMMA ScrollFacts ==
    ASSUME NEW buf \in Buffers
    PROVE  /\ scroll_up(buf) \in Buffers
           /\ \A k \in Cells : Row(k) >= Height - 1 => scroll_up(buf)[k] = NUL
  BY LastRow DEF Buffers, scroll_up

\* After scroll_up the framebuffer shows the text.
LEMMA RedrawFacts ==
    ASSUME NEW buf \in Buffers
    PROVE  /\ RedrawText(buf) \in Pictures
           /\ \A k \in Cells :
                 RedrawText(buf)[k] = IF buf[k] = NUL THEN {} ELSE Glyph(k, buf[k])
  BY GlyphType DEF Buffers, Pictures, RedrawText

\* After delete it shows one row of it.
LEMMA RedrawRowFacts ==
    ASSUME NEW buf \in Buffers, NEW y
    PROVE  /\ RedrawRow(buf, y) \in Pictures
           /\ \A k \in Cells :
                 RedrawRow(buf, y)[k] = IF Row(k) = y THEN Glyph(k, buf[k]) ELSE {}
  BY GlyphType DEF Buffers, Pictures, RedrawRow

\* set_char and draw_char_psf at the cursor.
LEMMA DrawFacts ==
    ASSUME TerminalTypeOK, NEW c \in Chars \cup {"face"}
    PROVE  LET at == cursor_y * Width + cursor_x IN
           /\ at \in Cells /\ Row(at) = cursor_y
           /\ Draw(screen, cursor_x, cursor_y, c) \in Pictures
           /\ \A k \in Cells : Draw(screen, cursor_x, cursor_y, c)[k] =
                 IF k = at THEN screen[k] \cup Glyph(k, c) ELSE screen[k]
           /\ c \in Chars => set_char(text_buf, cursor_x, cursor_y, c) \in Buffers
           /\ \A k \in Cells : set_char(text_buf, cursor_x, cursor_y, c)[k] =
                 IF k = at THEN c ELSE text_buf[k]
  <1> DEFINE at == cursor_y * Width + cursor_x
  <1>1. at \in Cells /\ Row(at) = cursor_y
    BY CellAt DEF TerminalTypeOK
  <1>2. ~(cursor_x >= Width \/ cursor_y >= Height)
    BY TerminalAssumption DEF TerminalTypeOK
  <1>3. /\ Draw(screen, cursor_x, cursor_y, c) = [screen EXCEPT ![at] = @ \cup Glyph(at, c)]
        /\ set_char(text_buf, cursor_x, cursor_y, c) = [text_buf EXCEPT ![at] = c]
    BY <1>2 DEF Draw, set_char
  <1>4. text_buf \in Buffers /\ screen \in Pictures
    BY DEF TerminalTypeOK, Buffers, Pictures
  <1> HIDE DEF at
  <1>5. /\ [screen EXCEPT ![at] = @ \cup Glyph(at, c)] \in Pictures
        /\ \A k \in Cells : [screen EXCEPT ![at] = @ \cup Glyph(at, c)][k] =
              IF k = at THEN screen[k] \cup Glyph(k, c) ELSE screen[k]
    <2>1. screen[at] \cup Glyph(at, c) \in SUBSET (Chars \cup {NUL, "face"})
      BY <1>1, <1>4, GlyphType DEF Pictures
    <2> QED
      BY <1>1, <1>4, <2>1 DEF Pictures
  <1>6. /\ c \in Chars => [text_buf EXCEPT ![at] = c] \in Buffers
        /\ \A k \in Cells : [text_buf EXCEPT ![at] = c][k] =
              IF k = at THEN c ELSE text_buf[k]
    BY <1>1, <1>4 DEF Buffers
  <1> QED
    BY <1>1, <1>3, <1>5, <1>6 DEF at

\* delete moves the rest of the row and touches no other.
LEMMA ShiftFacts ==
    ASSUME NEW buf \in Buffers, NEW y \in 0 .. (Height - 1), NEW x \in 0 .. (Width - 1)
    PROVE  /\ ShiftRow(buf, x, y) \in Buffers
           /\ \A k \in Cells : Row(k) # y => ShiftRow(buf, x, y)[k] = buf[k]
           /\ \A j \in 0 .. (Width - 1) :
                 ShiftRow(buf, x, y)[y * Width + j] =
                    IF j < x THEN buf[y * Width + j]
                    ELSE IF j = Width - 1 THEN NUL ELSE buf[y * Width + (j + 1)]
  <1>1. Width \in Nat \ {0} /\ Height \in Nat \ {0} /\ y \in Nat /\ x \in Nat /\ x < Width
    BY TerminalAssumption
  <1>2. PICK base \in Nat : base = y * Width
    BY <1>1
  <1> DEFINE last == base + Width - 1
             s == [k \in Cells |-> IF k = last THEN NUL
                                   ELSE IF base + x <= k /\ k < last THEN buf[k + 1]
                                   ELSE buf[k]]
  <1>3. ShiftRow(buf, x, y) = s
    BY <1>2 DEF ShiftRow
  <1>4. \A j \in 0 .. (Width - 1) : base + j \in Cells /\ Row(base + j) = y
    BY <1>2, CellAt
  <1>5. \A k \in Cells : k \in Nat /\ (base + x <= k /\ k < last => k + 1 \in Cells /\ Row(k) = y)
    <2> SUFFICES ASSUME NEW k \in Cells, base + x <= k, k < last
                 PROVE  k + 1 \in Cells /\ Row(k) = y
      BY DEF Cells
    <2>1. k \in Nat
      BY DEF Cells
    <2>2. PICK j \in 0 .. (Width - 1) : j = k - base /\ j + 1 \in 0 .. (Width - 1)
      BY <1>1, <1>2, <2>1
    <2>3. k = base + j /\ k + 1 = base + (j + 1)
      BY <1>2, <2>1, <2>2
    <2> QED
      BY <1>4, <2>2, <2>3
  <1>6. last \in Cells /\ Row(last) = y
    <2>1. Width - 1 \in 0 .. (Width - 1) /\ base + (Width - 1) = last
      BY <1>1, <1>2
    <2> QED
      BY <1>4, <2>1
  <1>7. s \in Buffers
    BY <1>5 DEF Buffers
  <1>8. \A k \in Cells : Row(k) # y => s[k] = buf[k]
    BY <1>5, <1>6
  <1>9. ASSUME NEW j \in 0 .. (Width - 1)
        PROVE  s[base + j] = IF j < x THEN buf[base + j]
                             ELSE IF j = Width - 1 THEN NUL ELSE buf[base + (j + 1)]
    <2>1. /\ base + j \in Cells
          /\ (base + j) + 1 = base + (j + 1)
          /\ base + j = last <=> j = Width - 1
          /\ base + x <= base + j <=> ~(j < x)
          /\ base + j < last <=> j # Width - 1
          /\ j < x => j # Width - 1
      BY <1>1, <1>2, <1>4
    <2> QED
      BY <2>1
  <1> QED
    BY <1>2, <1>3, <1>7, <1>8, <1>9

\* ... what it does to the row itself.
LEMMA ShiftCell ==
    ASSUME NEW buf \in Buffers, NEW y \in 0 .. (Height - 1), NEW x \in 0 .. (Width - 1),
           NEW j \in 0 .. (Width - 1)
    PROVE  ShiftRow(buf, x, y)[y * Width + j] =
               IF j < x THEN buf[y * Width + j]
               ELSE IF j = Width - 1 THEN NUL ELSE buf[y * Width + (j + 1)]
  BY ShiftFacts, Zenon

-----------------------------------------------------------------------------
(* The tokens of the output.                                               *)

\* A step that leaves the cursor in its row
Stays(buf, pic, gone, x) ==
    /\ cursor_x' = x /\ cursor_y' = cursor_y
    /\ text_buf' = buf /\ screen' = pic /\ erased' = gone

\* and one that takes it to the start of the next, scrolling at the bottom.
MovesDown(buf, pic, gone) ==
    /\ cursor_x' = 0
    /\ \/ /\ cursor_y + 1 < Height /\ cursor_y' = cursor_y + 1
          /\ text_buf' = buf /\ screen' = pic /\ erased' = gone
       \/ /\ cursor_y' = Height - 1
          /\ text_buf' = scroll_up(buf) /\ screen' = RedrawText(scroll_up(buf))
          /\ erased' = FALSE

\* The end of the loop body in write_str does the one inside the row
LEMMA SettleHere ==
    ASSUME TerminalTypeOK, NEW buf, NEW pic, NEW gone, NEW x \in 0 .. (Width - 1),
           Settle(buf, pic, gone, x, cursor_y)
    PROVE  Stays(buf, pic, gone, x)
  <1>1. ~(x >= Width) /\ cursor_y < Height /\ ~(cursor_y >= Height)
    BY TerminalAssumption DEF TerminalTypeOK
  <1> QED
    BY <1>1 DEF Settle, Stays

\* and the other behind it.
LEMMA SettleBelow ==
    ASSUME TerminalTypeOK, NEW buf, NEW pic, NEW gone, NEW x \in Nat, NEW y \in Nat,
           \/ x >= Width /\ y = cursor_y
           \/ x = 0 /\ y = cursor_y + 1,
           Settle(buf, pic, gone, x, y)
    PROVE  MovesDown(buf, pic, gone)
  <1>1. Width \in Nat \ {0} /\ Height \in Nat \ {0} /\ cursor_y \in Nat
    BY TerminalAssumption DEF TerminalTypeOK
  <1>2. /\ (IF x >= Width THEN 0 ELSE x) = 0
        /\ (IF x >= Width THEN y + 1 ELSE y) = cursor_y + 1
    BY <1>1
  <1> QED
    BY <1>1, <1>2 DEF Settle, MovesDown

\* delete of the cell at x.
Erases(x) ==
    Stays(ShiftRow(text_buf, x, cursor_y),
          RedrawRow(ShiftRow(text_buf, x, cursor_y), cursor_y), TRUE, x)

\* What each token of the output does to the cursor, a character first.
LEMMA CharStep ==
    ASSUME TerminalTypeOK, NEW c, Char(c)
    PROVE  LET buf == set_char(text_buf, cursor_x, cursor_y, c)
               pic == Draw(screen, cursor_x, cursor_y, c)
           IN  /\ c \in Chars
               /\ cursor_x + 1 < Width => Stays(buf, pic, erased, cursor_x + 1)
               /\ ~(cursor_x + 1 < Width) => MovesDown(buf, pic, erased)
  <1>1. cursor_x \in Nat /\ cursor_y \in Nat /\ Width \in Nat
    BY TerminalAssumption DEF TerminalTypeOK
  <1>2. CASE cursor_x + 1 < Width
    <2>1. cursor_x + 1 \in 0 .. (Width - 1)
      BY <1>1, <1>2
    <2> QED
      BY <1>2, <2>1, SettleHere DEF Char
  <1>3. CASE ~(cursor_x + 1 < Width)
    <2>1. PICK x \in Nat : x = cursor_x + 1 /\ x >= Width
      BY <1>1, <1>3
    <2>2. Settle(set_char(text_buf, cursor_x, cursor_y, c),
                 Draw(screen, cursor_x, cursor_y, c), erased, x, cursor_y)
      BY <2>1 DEF Char
    <2>3. MovesDown(set_char(text_buf, cursor_x, cursor_y, c),
                    Draw(screen, cursor_x, cursor_y, c), erased)
      <3>1. \/ x >= Width /\ cursor_y = cursor_y
            \/ x = 0 /\ cursor_y = cursor_y + 1
        BY <2>1
      <3> QED
        BY <1>1, <2>2, <3>1, SettleBelow, Zenon
    <2> QED
      BY <1>3, <2>3 DEF Char
  <1> QED
    BY <1>2, <1>3

\* "\n" goes down,
LEMMA NewlineStep ==
    ASSUME TerminalTypeOK, NEW c, Newline(c)
    PROVE  c = "\n" /\ MovesDown(text_buf, screen, erased)
  <1>1. 0 \in Nat /\ cursor_y + 1 \in Nat
    BY DEF TerminalTypeOK
  <1> QED
    BY <1>1, SettleBelow DEF Newline

\* "\r" back,
LEMMA CarriageReturnStep ==
    ASSUME TerminalTypeOK, NEW c, CarriageReturn(c)
    PROVE  c = "\r" /\ Stays(text_buf, screen, erased, 0)
  <1>1. 0 \in 0 .. (Width - 1)
    BY TerminalAssumption
  <1> QED
    BY <1>1, SettleHere DEF CarriageReturn

\* a delete takes one cell,
LEMMA RemoveStep ==
    ASSUME TerminalTypeOK, NEW x \in 0 .. (Width - 1), RemoveCell(x)
    PROVE  Erases(x)
  BY SettleHere DEF RemoveCell, Erases

\* Backspace the one on the left, if there is one,
LEMMA BackspaceStep ==
    ASSUME TerminalTypeOK, NEW c, Backspace(c)
    PROVE  /\ c = "backspace"
           /\ cursor_x = 0 => Stays(text_buf, screen, erased, cursor_x)
           /\ cursor_x > 0 => cursor_x - 1 \in 0 .. (Width - 1) /\ Erases(cursor_x - 1)
  <1>1. cursor_x \in Nat /\ cursor_x < Width /\ Width \in Nat
    BY TerminalAssumption DEF TerminalTypeOK
  <1>2. CASE cursor_x = 0
    BY <1>2 DEF Backspace, Stays, tty
  <1>3. CASE cursor_x > 0
    <2>1. cursor_x - 1 \in 0 .. (Width - 1) /\ cursor_x # 0
      BY <1>1, <1>3
    <2>2. c = "backspace" /\ RemoveCell(cursor_x - 1)
      BY <2>1 DEF Backspace
    <2> QED
      BY <1>3, <2>1, <2>2, RemoveStep
  <1> QED
    BY <1>1, <1>2, <1>3

\* Delete the one at the cursor,
LEMMA DeleteStep ==
    ASSUME TerminalTypeOK, NEW c, Delete(c)
    PROVE  c = "del" /\ Erases(cursor_x)
  BY RemoveStep DEF Delete, TerminalTypeOK

\* a colour sequence does nothing,
LEMMA ColourStep ==
    ASSUME NEW c, Colour(c)
    PROVE  c = "colour" /\ Stays(text_buf, screen, erased, cursor_x)
  BY DEF Colour, Stays, tty

\* a face is drawn and moves the cursor on, without scrolling.
LEMMA FaceStep ==
    ASSUME TerminalTypeOK, NEW c, Face(c)
    PROVE  /\ c = "face"
           /\ cursor_x' \in 0 .. (Width - 1) /\ cursor_y' \in 0 .. (Height - 1)
           /\ text_buf' = text_buf /\ erased' = erased
           /\ screen' = Draw(screen, cursor_x, cursor_y, "face")
           /\ cursor_x + 1 < Width =>
                 Stays(text_buf, Draw(screen, cursor_x, cursor_y, "face"), erased,
                       cursor_x + 1)
  <1>1. /\ cursor_x \in 0 .. (Width - 1) /\ cursor_y \in 0 .. (Height - 1)
        /\ Width \in Nat \ {0} /\ Height \in Nat \ {0}
    BY TerminalAssumption DEF TerminalTypeOK
  <1>2. /\ c = "face" /\ text_buf' = text_buf /\ erased' = erased
        /\ screen' = Draw(screen, cursor_x, cursor_y, "face")
    BY DEF Face
  <1>3. /\ cursor_x' \in 0 .. (Width - 1) /\ cursor_y' \in 0 .. (Height - 1)
        /\ cursor_x + 1 < Width => cursor_x' = cursor_x + 1 /\ cursor_y' = cursor_y
    BY <1>1 DEF Face
  <1> QED
    BY <1>2, <1>3 DEF Stays

-----------------------------------------------------------------------------

\* All of them keep the types: those that stay,
LEMMA StaysType ==
    ASSUME TerminalTypeOK, NEW buf \in Buffers, NEW pic \in Pictures, NEW gone \in BOOLEAN,
           NEW x \in 0 .. (Width - 1), Stays(buf, pic, gone, x)
    PROVE  /\ text_buf' \in Buffers /\ screen' \in Pictures /\ erased' \in BOOLEAN
           /\ cursor_x' \in 0 .. (Width - 1) /\ cursor_y' \in 0 .. (Height - 1)
  BY DEF TerminalTypeOK, Stays

\* those that move down,
LEMMA MovesDownType ==
    ASSUME TerminalTypeOK, NEW buf \in Buffers, NEW pic \in Pictures, NEW gone \in BOOLEAN,
           MovesDown(buf, pic, gone)
    PROVE  /\ text_buf' \in Buffers /\ screen' \in Pictures /\ erased' \in BOOLEAN
           /\ cursor_x' \in 0 .. (Width - 1) /\ cursor_y' \in 0 .. (Height - 1)
  <1>1. Width \in Nat \ {0} /\ Height \in Nat \ {0} /\ cursor_y \in Nat
    BY TerminalAssumption DEF TerminalTypeOK
  <1>2. scroll_up(buf) \in Buffers /\ RedrawText(scroll_up(buf)) \in Pictures
    BY ScrollFacts, RedrawFacts
  <1>3. text_buf' \in Buffers /\ screen' \in Pictures
    BY <1>2 DEF MovesDown
  <1>4. erased' \in BOOLEAN
    BY DEF MovesDown
  <1>5. cursor_x' \in 0 .. (Width - 1) /\ cursor_y' \in 0 .. (Height - 1)
    BY <1>1 DEF MovesDown
  <1> QED
    BY <1>3, <1>4, <1>5

\* those that erase.
LEMMA ErasesType ==
    ASSUME TerminalTypeOK, NEW x \in 0 .. (Width - 1), Erases(x)
    PROVE  /\ text_buf' \in Buffers /\ screen' \in Pictures /\ erased' \in BOOLEAN
           /\ cursor_x' \in 0 .. (Width - 1) /\ cursor_y' \in 0 .. (Height - 1)
  <1>1. text_buf \in Buffers /\ cursor_y \in 0 .. (Height - 1)
    BY DEF TerminalTypeOK, Buffers
  <1>2. ShiftRow(text_buf, x, cursor_y) \in Buffers
    BY <1>1, ShiftFacts
  <1>3. RedrawRow(ShiftRow(text_buf, x, cursor_y), cursor_y) \in Pictures
    BY <1>2, RedrawRowFacts
  <1> QED
    BY <1>2, <1>3, StaysType DEF Erases

-----------------------------------------------------------------------------
(* Text on the screen and empty rows.                                      *)

\* TextIsDrawn of any buffer and framebuffer.
Drawn(buf, pic, gone) ==
    ~gone => \A k \in Cells : buf[k] # NUL => Glyph(k, buf[k]) \subseteq pic[k]

\* A cell without text, and without pixels unless a delete left some.
Blank(buf, pic, gone, k) == buf[k] = NUL /\ (~gone => pic[k] = {})

\* No text below row y
BlankBelow(buf, pic, gone, y) == \A k \in Cells : Row(k) > y => Blank(buf, pic, gone, k)

\* or in and below it.
BlankFrom(buf, pic, gone, y) == \A k \in Cells : Row(k) >= y => Blank(buf, pic, gone, k)

\* The rows below the cursor's are empty.
RowsBelowBlank == BlankBelow(text_buf, screen, erased, cursor_y)

\* ... and the cursor is at the start of an empty row.
FreshLine == cursor_x = 0 /\ BlankFrom(text_buf, screen, erased, cursor_y)

\* Drawn is TextIsDrawn with the variables put in.
LEMMA DrawnIs == TextIsDrawn <=> Drawn(text_buf, screen, erased)
  BY DEF TextIsDrawn, Drawn

\* Moving down keeps the text on the screen
LEMMA MovesDownDrawn ==
    ASSUME TerminalTypeOK, NEW buf \in Buffers, NEW pic \in Pictures, NEW gone \in BOOLEAN,
           MovesDown(buf, pic, gone), Drawn(buf, pic, gone)
    PROVE  Drawn(text_buf, screen, erased)'
  <1>1. CASE text_buf' = buf /\ screen' = pic /\ erased' = gone
    BY <1>1 DEF Drawn
  <1>2. CASE text_buf' = scroll_up(buf) /\ screen' = RedrawText(scroll_up(buf))
    <2>1. PICK b \in Buffers : b = scroll_up(buf)
      BY ScrollFacts
    <2>2. \A k \in Cells : b[k] # NUL => RedrawText(b)[k] = Glyph(k, b[k])
      BY <2>1, RedrawFacts
    <2> QED
      BY <1>2, <2>1, <2>2 DEF Drawn
  <1> QED
    BY <1>1, <1>2 DEF MovesDown

\* and opens an empty row.
LEMMA MovesDownFresh ==
    ASSUME TerminalTypeOK, NEW buf \in Buffers, NEW pic \in Pictures, NEW gone \in BOOLEAN,
           MovesDown(buf, pic, gone), BlankBelow(buf, pic, gone, cursor_y)
    PROVE  FreshLine'
  <1>0. cursor_y \in Nat /\ \A k \in Cells : Row(k) \in Nat
    BY CellOf DEF TerminalTypeOK
  <1>1. CASE /\ cursor_y' = cursor_y + 1
             /\ text_buf' = buf /\ screen' = pic /\ erased' = gone
    <2>1. \A k \in Cells : Row(k) >= cursor_y' => Row(k) > cursor_y
      BY <1>0, <1>1
    <2> QED
      BY <1>1, <2>1 DEF FreshLine, MovesDown, BlankBelow, BlankFrom, Blank
  <1>2. CASE /\ text_buf' = scroll_up(buf) /\ screen' = RedrawText(scroll_up(buf))
             /\ cursor_y' = Height - 1
    <2>1. PICK b \in Buffers : b = scroll_up(buf)
      BY ScrollFacts
    <2>2. \A k \in Cells : Row(k) >= Height - 1 => b[k] = NUL
      BY <2>1, ScrollFacts
    <2>3. \A k \in Cells : Row(k) >= Height - 1 => RedrawText(b)[k] = {}
      BY <2>1, <2>2, RedrawFacts
    <2> QED
      BY <1>2, <2>1, <2>2, <2>3 DEF FreshLine, MovesDown, BlankFrom, Blank
  <1> QED
    BY <1>1, <1>2 DEF MovesDown

\* An empty row has empty ones below it.
LEMMA FreshBelow ==
    ASSUME TerminalTypeOK, FreshLine
    PROVE  RowsBelowBlank
  <1>1. cursor_y \in Nat /\ \A k \in Cells : Row(k) \in Nat
    BY CellOf DEF TerminalTypeOK
  <1> QED
    BY <1>1 DEF FreshLine, RowsBelowBlank, BlankBelow, BlankFrom

\* Writing in the cursor's row.
LEMMA PutFacts ==
    ASSUME TerminalTypeOK, NEW c \in Chars,
           NEW buf, buf = set_char(text_buf, cursor_x, cursor_y, c),
           NEW pic, pic = Draw(screen, cursor_x, cursor_y, c)
    PROVE  /\ buf \in Buffers /\ pic \in Pictures
           /\ TextIsDrawn => Drawn(buf, pic, erased)
           /\ RowsBelowBlank => BlankBelow(buf, pic, erased, cursor_y)
  <1>1. PICK at \in Cells : at = cursor_y * Width + cursor_x /\ Row(at) = cursor_y
    BY DrawFacts
  <1>2. /\ buf \in Buffers /\ pic \in Pictures
        /\ \A k \in Cells : pic[k] = IF k = at THEN screen[k] \cup Glyph(k, c) ELSE screen[k]
        /\ \A k \in Cells : buf[k] = IF k = at THEN c ELSE text_buf[k]
    BY <1>1, DrawFacts
  <1>3. TextIsDrawn => Drawn(buf, pic, erased)
    BY <1>2 DEF TextIsDrawn, Drawn
  <1>4. ~(cursor_y > cursor_y)
    BY DEF TerminalTypeOK
  <1>5. RowsBelowBlank => BlankBelow(buf, pic, erased, cursor_y)
    BY <1>1, <1>2, <1>4 DEF RowsBelowBlank, BlankBelow, Blank
  <1> QED
    BY <1>2, <1>3, <1>5

\* A face is drawn on top of what is there.
LEMMA FacePicture ==
    ASSUME TerminalTypeOK, NEW pic, pic = Draw(screen, cursor_x, cursor_y, "face")
    PROVE  /\ pic \in Pictures
           /\ TextIsDrawn => Drawn(text_buf, pic, erased)
           /\ RowsBelowBlank => BlankBelow(text_buf, pic, erased, cursor_y)
  <1>1. PICK at \in Cells : at = cursor_y * Width + cursor_x /\ Row(at) = cursor_y
    BY DrawFacts
  <1>2. /\ pic \in Pictures
        /\ \A k \in Cells :
              pic[k] = IF k = at THEN screen[k] \cup Glyph(k, "face") ELSE screen[k]
    BY <1>1, DrawFacts
  <1>3. TextIsDrawn => Drawn(text_buf, pic, erased)
    BY <1>2 DEF TextIsDrawn, Drawn
  <1>4. ~(cursor_y > cursor_y)
    BY DEF TerminalTypeOK
  <1>5. RowsBelowBlank => BlankBelow(text_buf, pic, erased, cursor_y)
    BY <1>1, <1>2, <1>4 DEF RowsBelowBlank, BlankBelow, Blank
  <1> QED
    BY <1>2, <1>3, <1>5

\* delete redraws the row and leaves the ones below empty.
LEMMA ErasesFacts ==
    ASSUME TerminalTypeOK, NEW x \in 0 .. (Width - 1), Erases(x)
    PROVE  /\ Drawn(text_buf, screen, erased)'
           /\ RowsBelowBlank => RowsBelowBlank'
  <1>1. erased' = TRUE /\ cursor_y' = cursor_y /\ text_buf' = ShiftRow(text_buf, x, cursor_y)
    BY DEF Erases, Stays
  <1>2. cursor_y \in Nat /\ text_buf \in Buffers /\ cursor_y \in 0 .. (Height - 1)
    BY DEF TerminalTypeOK, Buffers
  <1>3. \A k \in Cells : Row(k) # cursor_y => text_buf'[k] = text_buf[k]
    BY <1>1, <1>2, ShiftFacts
  <1>4. \A k \in Cells : Row(k) > cursor_y => Row(k) # cursor_y
    BY <1>2
  <1>5. Drawn(text_buf, screen, erased)'
    BY <1>1 DEF Drawn
  <1>6. RowsBelowBlank => RowsBelowBlank'
    BY <1>1, <1>3, <1>4 DEF RowsBelowBlank, BlankBelow, Blank
  <1> QED
    BY <1>5, <1>6

\* clear_tty leaves an empty screen.
LEMMA EmptyScreen ==
    ASSUME NEW buf, buf = [k \in Cells |-> NUL], NEW pic, pic = [k \in Cells |-> {}]
    PROVE  /\ buf \in Buffers /\ pic \in Pictures
           /\ 0 \in 0 .. (Width - 1) /\ 0 \in 0 .. (Height - 1)
           /\ Drawn(buf, pic, FALSE) /\ BlankFrom(buf, pic, FALSE, 0)
  <1>1. 0 \in 0 .. (Width - 1) /\ 0 \in 0 .. (Height - 1)
    BY TerminalAssumption
  <1>2. buf \in Buffers /\ pic \in Pictures
    BY DEF Buffers, Pictures
  <1>3. Drawn(buf, pic, FALSE) /\ BlankFrom(buf, pic, FALSE, 0)
    BY DEF Drawn, BlankFrom, Blank
  <1> QED
    BY <1>1, <1>2, <1>3

\* The type invariant in terms of the two types above.
LEMMA TypeIs ==
    TerminalTypeOK <=>
        /\ text_buf \in Buffers /\ screen \in Pictures /\ erased \in BOOLEAN
        /\ cursor_x \in 0 .. (Width - 1) /\ cursor_y \in 0 .. (Height - 1)
        /\ out \in Seq(Tokens)
  BY DEF TerminalTypeOK, Buffers, Pictures

\* A step of write_str, yay, sad or clear_tty keeps the text buffer and the
\* framebuffer in agreement.
LEMMA WriteDraws ==
    ASSUME TerminalTypeOK, TextIsDrawn, Write
    PROVE  TerminalTypeOK' /\ TextIsDrawn'
  <1>1. PICK c : c = Head(out)
    OBVIOUS
  <1>2. out' \in Seq(Tokens)
    BY HeadTailProperties DEF Write, TerminalTypeOK
  <1> DEFINE Types == /\ text_buf' \in Buffers /\ screen' \in Pictures
                      /\ erased' \in BOOLEAN
                      /\ cursor_x' \in 0 .. (Width - 1) /\ cursor_y' \in 0 .. (Height - 1)
             Agree == Drawn(text_buf, screen, erased)'
  <1> SUFFICES Types /\ Agree
    <2>1. TerminalTypeOK'
      BY <1>2 DEF TerminalTypeOK, Buffers, Pictures
    <2>2. TextIsDrawn'
      BY DEF TextIsDrawn, Drawn
    <2> QED
      BY <2>1, <2>2
  <1>3. /\ text_buf \in Buffers /\ screen \in Pictures /\ erased \in BOOLEAN
        /\ cursor_x \in 0 .. (Width - 1) /\ cursor_y \in 0 .. (Height - 1)
        /\ 0 \in 0 .. (Width - 1)
    BY TypeIs, TerminalAssumption
  <1>4. Drawn(text_buf, screen, erased)
    BY DrawnIs
  <1>5. ASSUME NEW buf \in Buffers, NEW pic \in Pictures, NEW x \in 0 .. (Width - 1),
               Stays(buf, pic, erased, x), Drawn(buf, pic, erased)
        PROVE  Types /\ Agree
    <2>1. Types
      BY <1>3, <1>5, StaysType
    <2>2. Agree
      BY <1>5 DEF Stays, Drawn
    <2> QED
      BY <2>1, <2>2
  <1>6. ASSUME NEW buf \in Buffers, NEW pic \in Pictures,
               MovesDown(buf, pic, erased), Drawn(buf, pic, erased)
        PROVE  Types /\ Agree
    BY <1>3, <1>6, MovesDownType, MovesDownDrawn
  <1>7. ASSUME NEW x \in 0 .. (Width - 1), Erases(x)
        PROVE  Types /\ Agree
    BY <1>7, ErasesType, ErasesFacts
  <1> HIDE DEF Types, Agree
  <1>8. CASE Char(c)
    <2>1. PICK buf, pic : /\ buf = set_char(text_buf, cursor_x, cursor_y, c)
                          /\ pic = Draw(screen, cursor_x, cursor_y, c)
      OBVIOUS
    <2>2. /\ c \in Chars
          /\ \/ Stays(buf, pic, erased, cursor_x + 1) /\ cursor_x + 1 < Width
             \/ MovesDown(buf, pic, erased)
      BY <1>8, <2>1, CharStep
    <2>3. buf \in Buffers /\ pic \in Pictures /\ Drawn(buf, pic, erased)
      BY <2>1, <2>2, PutFacts
    <2>4. cursor_x + 1 < Width => cursor_x + 1 \in 0 .. (Width - 1)
      BY <1>3, TerminalAssumption
    <2> QED
      BY <1>5, <1>6, <2>2, <2>3, <2>4
  <1>9. CASE Newline(c)
    BY <1>3, <1>4, <1>6, <1>9, NewlineStep
  <1>10. CASE CarriageReturn(c)
    BY <1>3, <1>4, <1>5, <1>10, CarriageReturnStep
  <1>11. CASE Backspace(c)
    <2>1. cursor_x = 0 \/ cursor_x > 0
      BY <1>3
    <2> QED
      BY <1>3, <1>4, <1>5, <1>7, <1>11, <2>1, BackspaceStep
  <1>12. CASE Delete(c)
    BY <1>3, <1>7, <1>12, DeleteStep
  <1>13. CASE Colour(c)
    BY <1>3, <1>4, <1>5, <1>13, ColourStep
  <1>14. CASE Face(c)
    <2>1. PICK pic : pic = Draw(screen, cursor_x, cursor_y, "face")
      OBVIOUS
    <2>2. /\ cursor_x' \in 0 .. (Width - 1) /\ cursor_y' \in 0 .. (Height - 1)
          /\ text_buf' = text_buf /\ erased' = erased /\ screen' = pic
      BY <1>14, <2>1, FaceStep
    <2>3. pic \in Pictures /\ Drawn(text_buf, pic, erased)
      BY <2>1, FacePicture
    <2>4. Types
      BY <1>3, <2>2, <2>3 DEF Types
    <2>5. Agree
      BY <2>2, <2>3 DEF Agree, Drawn
    <2> QED
      BY <2>4, <2>5
  <1>15. CASE clear_tty(c)
    <2>1. PICK buf, pic : buf = [k \in Cells |-> NUL] /\ pic = [k \in Cells |-> {}]
      OBVIOUS
    <2>2. /\ text_buf' = buf /\ screen' = pic /\ cursor_x' = 0 /\ cursor_y' = 0
          /\ erased' = FALSE
      BY <1>15, <2>1 DEF clear_tty
    <2>3. /\ buf \in Buffers /\ pic \in Pictures /\ Drawn(buf, pic, FALSE)
          /\ 0 \in 0 .. (Width - 1) /\ 0 \in 0 .. (Height - 1)
      BY <2>1, EmptyScreen
    <2>4. Types
      BY <2>2, <2>3 DEF Types
    <2>5. Agree
      BY <2>2, <2>3 DEF Agree, Drawn
    <2> QED
      BY <2>4, <2>5
  <1> QED
    BY <1>1, <1>8, <1>9, <1>10, <1>11, <1>12, <1>13, <1>14, <1>15 DEF Write

\* What is empty from a row on is empty below it.
LEMMA FromBelow ==
    ASSUME NEW buf, NEW pic, NEW gone, NEW y \in Nat, BlankFrom(buf, pic, gone, y)
    PROVE  BlankBelow(buf, pic, gone, y)
  <1>1. \A k \in Cells : Row(k) > y => Row(k) >= y
    BY CellOf
  <1> QED
    BY <1>1 DEF BlankBelow, BlankFrom

\* What is written stays in the cursor's row or opens a new one.
LEMMA WriteBlanks ==
    ASSUME TerminalTypeOK, RowsBelowBlank, Width > 1,
           Head(out) = "face" => cursor_x = 0, Write
    PROVE  /\ RowsBelowBlank'
           /\ Head(out) \in {"\n", "clear"} => FreshLine'
  <1>1. PICK c : c = Head(out)
    OBVIOUS
  <1> SUFFICES RowsBelowBlank' /\ (c \in {"\n", "clear"} => FreshLine')
    BY <1>1
  <1>2. /\ text_buf \in Buffers /\ screen \in Pictures /\ erased \in BOOLEAN
        /\ cursor_x \in 0 .. (Width - 1) /\ cursor_y \in 0 .. (Height - 1)
    BY TypeIs
  <1>3. ASSUME NEW buf, NEW pic, NEW x,
               Stays(buf, pic, erased, x), BlankBelow(buf, pic, erased, cursor_y)
        PROVE  RowsBelowBlank'
    BY <1>3 DEF Stays, RowsBelowBlank
  <1>4. ASSUME NEW buf \in Buffers, NEW pic \in Pictures,
               MovesDown(buf, pic, erased), BlankBelow(buf, pic, erased, cursor_y)
        PROVE  RowsBelowBlank' /\ FreshLine'
    <2>1. FreshLine'
      BY <1>2, <1>4, MovesDownFresh
    <2>2. cursor_y' \in Nat
      BY <1>2, <1>4, MovesDownType
    <2> QED
      BY <2>1, <2>2, FromBelow DEF FreshLine, RowsBelowBlank
  <1>5. Chars \cap {"\n", "clear"} = {}
    BY TerminalAssumption DEF Controls
  <1>6. CASE Char(c)
    <2>1. PICK buf, pic : /\ buf = set_char(text_buf, cursor_x, cursor_y, c)
                          /\ pic = Draw(screen, cursor_x, cursor_y, c)
      OBVIOUS
    <2>2. /\ c \in Chars
          /\ \/ Stays(buf, pic, erased, cursor_x + 1)
             \/ MovesDown(buf, pic, erased)
      BY <1>6, <2>1, CharStep
    <2>3. buf \in Buffers /\ pic \in Pictures /\ BlankBelow(buf, pic, erased, cursor_y)
      BY <2>1, <2>2, PutFacts
    <2> QED
      BY <1>3, <1>4, <1>5, <2>2, <2>3
  <1>7. CASE Newline(c)
    BY <1>2, <1>4, <1>7, NewlineStep DEF RowsBelowBlank
  <1>8. CASE CarriageReturn(c)
    BY <1>3, <1>8, CarriageReturnStep DEF RowsBelowBlank
  <1>9. CASE Backspace(c)
    <2>1. cursor_x = 0 \/ cursor_x > 0
      BY <1>2
    <2>2. CASE cursor_x = 0
      BY <1>3, <1>9, <2>2, BackspaceStep DEF RowsBelowBlank
    <2>3. CASE cursor_x > 0
      BY <1>9, <2>3, BackspaceStep, ErasesFacts
    <2> QED
      BY <2>1, <2>2, <2>3
  <1>10. CASE Delete(c)
    BY <1>2, <1>10, DeleteStep, ErasesFacts
  <1>11. CASE Colour(c)
    BY <1>3, <1>11, ColourStep DEF RowsBelowBlank
  <1>12. CASE Face(c)
    <2>1. PICK pic : pic = Draw(screen, cursor_x, cursor_y, "face")
      OBVIOUS
    <2>2. c = "face"
      BY <1>12 DEF Face
    <2>3. cursor_x + 1 < Width
      BY <1>1, <2>2, TerminalAssumption
    <2>4. Stays(text_buf, pic, erased, cursor_x + 1)
      BY <1>12, <2>1, <2>3, FaceStep
    <2>5. BlankBelow(text_buf, pic, erased, cursor_y)
      BY <2>1, FacePicture
    <2> QED
      BY <1>3, <2>2, <2>4, <2>5
  <1>13. CASE clear_tty(c)
    <2>1. PICK buf, pic : buf = [k \in Cells |-> NUL] /\ pic = [k \in Cells |-> {}]
      OBVIOUS
    <2>2. /\ text_buf' = buf /\ screen' = pic /\ cursor_x' = 0 /\ cursor_y' = 0
          /\ erased' = FALSE
      BY <1>13, <2>1 DEF clear_tty
    <2>3. BlankFrom(buf, pic, FALSE, 0)
      BY <2>1, EmptyScreen
    <2>4. FreshLine'
      BY <2>2, <2>3 DEF FreshLine
    <2>5. BlankBelow(buf, pic, FALSE, 0)
      BY <2>3, FromBelow
    <2>6. RowsBelowBlank'
      BY <2>2, <2>5 DEF RowsBelowBlank
    <2> QED
      BY <2>4, <2>6
  <1> QED
    BY <1>1, <1>6, <1>7, <1>8, <1>9, <1>10, <1>11, <1>12, <1>13 DEF Write

-----------------------------------------------------------------------------

\* The cell in column x of the cursor's row holds the character c and shows it.
Holds(buf, pic, gone, y, x, c) ==
    LET k == y * Width + x
        shown == IF c = NUL THEN {} ELSE Glyph(k, c)
    IN  /\ buf[k] = c
        /\ shown \subseteq pic[k]
        /\ ~gone => shown = pic[k]

\* The cursor's row holds the first n characters of the line before the
\* cursor and nothing behind it.
RowHolds(buf, pic, gone, y, n, line) ==
    \A x \in 0 .. (Width - 1) :
        /\ x < n /\ x < Len(line) => Holds(buf, pic, gone, y, x, line[x + 1])
        /\ x >= n => Holds(buf, pic, gone, y, x, NUL)

\* A fresh row holds what has been written of any line: nothing.
LEMMA FreshRow ==
    ASSUME TerminalTypeOK, FreshLine, NEW line
    PROVE  RowHolds(text_buf, screen, erased, cursor_y, 0, line)
  <1>1. \A x \in 0 .. (Width - 1) : /\ cursor_y * Width + x \in Cells
                                    /\ Row(cursor_y * Width + x) = cursor_y
    BY CellAt DEF TerminalTypeOK
  <1>2. \A x \in 0 .. (Width - 1) : ~(x < 0)
    BY TerminalAssumption
  <1>3. ASSUME NEW x \in 0 .. (Width - 1)
        PROVE  Holds(text_buf, screen, erased, cursor_y, x, NUL)
    <2>1. PICK k \in Cells : k = cursor_y * Width + x /\ Row(k) = cursor_y
      BY <1>1
    <2>2. Row(k) >= cursor_y
      BY <2>1 DEF TerminalTypeOK
    <2>3. text_buf[k] = NUL /\ (~erased => screen[k] = {})
      BY <2>2 DEF FreshLine, BlankFrom, Blank
    <2> QED
      BY <2>1, <2>3 DEF Holds
  <1> QED
    BY <1>2, <1>3 DEF RowHolds

\* Typing the next character of the line.
LEMMA RowPut ==
    ASSUME TerminalTypeOK, NEW line, NEW c \in Chars, cursor_x < Len(line), Len(line) \in Nat,
           line[cursor_x + 1] = c,
           RowHolds(text_buf, screen, erased, cursor_y, cursor_x, line),
           NEW buf, buf = set_char(text_buf, cursor_x, cursor_y, c),
           NEW pic, pic = Draw(screen, cursor_x, cursor_y, c)
    PROVE  RowHolds(buf, pic, erased, cursor_y, cursor_x + 1, line)
  <1>1. PICK at \in Cells : at = cursor_y * Width + cursor_x
    BY DrawFacts
  <1>2. /\ \A k \in Cells : pic[k] = IF k = at THEN screen[k] \cup Glyph(k, c) ELSE screen[k]
        /\ \A k \in Cells : buf[k] = IF k = at THEN c ELSE text_buf[k]
    BY <1>1, DrawFacts
  <1>3. c # NUL /\ cursor_x \in 0 .. (Width - 1) /\ cursor_y \in 0 .. (Height - 1)
        /\ Width \in Nat
    BY TerminalAssumption DEF TerminalTypeOK
  <1>4. ASSUME NEW x \in 0 .. (Width - 1)
        PROVE  /\ x < cursor_x + 1 /\ x < Len(line) =>
                     Holds(buf, pic, erased, cursor_y, x, line[x + 1])
               /\ x >= cursor_x + 1 => Holds(buf, pic, erased, cursor_y, x, NUL)
    <2>1. PICK k \in Cells : k = cursor_y * Width + x
      BY <1>3, CellAt
    <2>2. k = at <=> x = cursor_x
      <3>1. cursor_y * Width \in Nat
        BY <1>3
      <3> QED
        BY <1>1, <1>3, <2>1, <3>1
    <2>3. CASE x = cursor_x
      <3>1. Holds(text_buf, screen, erased, cursor_y, x, NUL)
        BY <1>3, <2>3 DEF RowHolds
      <3>2. /\ buf[k] = c /\ pic[k] = screen[k] \cup Glyph(k, c)
            /\ ~erased => screen[k] = {}
        BY <1>2, <2>1, <2>2, <2>3, <3>1 DEF Holds
      <3>3. Holds(buf, pic, erased, cursor_y, x, c)
        BY <1>3, <2>1, <3>2 DEF Holds
      <3> QED
        BY <1>3, <2>3, <3>3
    <2>4. CASE x # cursor_x
      <3>1. buf[k] = text_buf[k] /\ pic[k] = screen[k]
        BY <1>2, <2>2, <2>4
      <3>2. \A d : Holds(text_buf, screen, erased, cursor_y, x, d)
                     => Holds(buf, pic, erased, cursor_y, x, d)
        BY <2>1, <3>1 DEF Holds
      <3>3. /\ x < cursor_x + 1 => x < cursor_x
            /\ x >= cursor_x + 1 => x >= cursor_x
        BY <1>3, <2>4
      <3> QED
        BY <3>2, <3>3 DEF RowHolds
    <2> QED
      BY <2>3, <2>4
  <1> QED
    BY <1>4 DEF RowHolds

\* Taking out the last character, or the empty cell behind it.
LEMMA RowErase ==
    ASSUME TerminalTypeOK, NEW line, Len(line) \in Nat, NEW x \in 0 .. (Width - 1),
           x = Len(line), x = cursor_x \/ x + 1 = cursor_x,
           RowHolds(text_buf, screen, erased, cursor_y, cursor_x, line),
           Erases(x)
    PROVE  RowHolds(text_buf, screen, erased, cursor_y, x, line)'
  <1>1. text_buf \in Buffers /\ cursor_y \in 0 .. (Height - 1) /\ cursor_x \in 0 .. (Width - 1)
        /\ Width \in Nat \ {0}
    BY TypeIs, TerminalAssumption
  <1>2. PICK buf \in Buffers : buf = ShiftRow(text_buf, x, cursor_y)
    BY <1>1, ShiftFacts
  <1>3. /\ text_buf' = buf /\ screen' = RedrawRow(buf, cursor_y) /\ erased' = TRUE
        /\ cursor_y' = cursor_y
    BY <1>2 DEF Erases, Stays
  <1>4. ASSUME NEW j \in 0 .. (Width - 1)
        PROVE  /\ buf[cursor_y * Width + j] = IF j < x THEN text_buf[cursor_y * Width + j] ELSE NUL
               /\ RedrawRow(buf, cursor_y)[cursor_y * Width + j]
                    = Glyph(cursor_y * Width + j, buf[cursor_y * Width + j])
    <2>1. cursor_y * Width + j \in Cells /\ Row(cursor_y * Width + j) = cursor_y
      BY <1>1, CellAt
    <2>2. RedrawRow(buf, cursor_y)[cursor_y * Width + j]
            = Glyph(cursor_y * Width + j, buf[cursor_y * Width + j])
      BY <2>1, RedrawRowFacts
    <2>3. buf[cursor_y * Width + j] =
                    IF j < x THEN text_buf[cursor_y * Width + j]
                    ELSE IF j = Width - 1 THEN NUL ELSE text_buf[cursor_y * Width + (j + 1)]
      <3>1. ShiftRow(text_buf, x, cursor_y)[cursor_y * Width + j] =
                    IF j < x THEN text_buf[cursor_y * Width + j]
                    ELSE IF j = Width - 1 THEN NUL ELSE text_buf[cursor_y * Width + (j + 1)]
        BY <1>1, ShiftCell
      <3> QED
        BY <1>2, <3>1, Zenon
    <2>4. ~(j < x) /\ j # Width - 1 => text_buf[cursor_y * Width + (j + 1)] = NUL
      <3> SUFFICES ASSUME ~(j < x), j # Width - 1
                   PROVE  text_buf[cursor_y * Width + (j + 1)] = NUL
        OBVIOUS
      <3>1. j + 1 \in 0 .. (Width - 1) /\ j + 1 >= cursor_x
        BY <1>1
      <3> QED
        BY <3>1 DEF RowHolds, Holds
    <2> QED
      BY <2>2, <2>3, <2>4
  <1>5. ASSUME NEW j \in 0 .. (Width - 1)
        PROVE  /\ j < x /\ j < Len(line) =>
                     Holds(text_buf', screen', erased', cursor_y, j, line[j + 1])
               /\ j >= x => Holds(text_buf', screen', erased', cursor_y, j, NUL)
    <2>1. CASE j < x
      <3>1. j < cursor_x /\ j < Len(line) /\ ~(j >= x)
        BY <1>1, <2>1
      <3>2. text_buf[cursor_y * Width + j] = line[j + 1]
        BY <3>1 DEF RowHolds, Holds
      <3> QED
        BY <1>3, <1>4, <2>1, <3>1, <3>2 DEF Holds
    <2>2. CASE ~(j < x)
      BY <1>3, <1>4, <2>2 DEF Holds
    <2> QED
      BY <2>1, <2>2
  <1> QED
    BY <1>3, <1>5 DEF RowHolds

-----------------------------------------------------------------------------
(* The shell and the terminal: the line on the screen.                     *)

\* The type invariant without the reader of the archive.
ShellTypes ==
    /\ TerminalTypeOK
    /\ spc \in {"read", "exec", "walk", "prompt", "off", "panicked"}
    /\ input_buffer \in Seq(Typed)
    /\ Len(input_buffer) <= MaxLine
    /\ prev_ret_code \in {-1, 0, 1}
    /\ tidy \in BOOLEAN

\* Whatever a command prints ends with a new line or with an empty screen.
OutputEnds ==
    spc \in {"prompt", "exec", "walk"} =>
        /\ out = <<>> => FreshLine
        /\ out # <<>> => out[Len(out)] \in {"\n", "clear"}

\* smiley draws its face at the left margin.
FaceAtMargin == \A n \in 1 .. Len(out) : out[n] = "face" => n = 1 /\ cursor_x = 0

\* The line that the user sees.
Line == Prompt(prev_ret_code) \o Visible(input_buffer)

\* What is still to be written of the line, and where the cursor is meanwhile.
Pending(todo, x, line) ==
    \/ /\ todo \in Seq(Chars) /\ x + Len(todo) = Len(line)
       /\ \A i \in 1 .. Len(todo) : todo[i] = line[x + i]
    \/ todo = <<"del">> /\ x = Len(line)
    \/ todo = <<"backspace">> /\ x = Len(line) + 1

\* The row of the cursor holds what has been written of the line.
LineHeld ==
    spc = "read" /\ tidy =>
        /\ Len(Line) < Width
        /\ Pending(out, cursor_x, Line)
        /\ RowHolds(text_buf, screen, erased, cursor_y, cursor_x, Line)

\* The inductive invariant of shell and terminal.  On a screen of one
\* column no line is tidy, and a face at the bottom goes back to the top: the
\* rows below the cursor may hold text there.
ScreenInv ==
    /\ ShellTypes
    /\ TextIsDrawn
    /\ Width > 1 => RowsBelowBlank /\ OutputEnds /\ FaceAtMargin
    /\ LineHeld

\* The prompt has one or two characters here,
LEMMA PromptType ==
    ASSUME NEW code \in {-1, 0, 1}
    PROVE  Prompt(code) \in Seq(Chars) /\ Len(Prompt(code)) \in {1, 2}
  BY ShellAssumption DEF Prompt

\* and the line at least one.
LEMMA LineType ==
    ASSUME NEW code \in {-1, 0, 1}, NEW buf \in Seq(Typed)
    PROVE  LET line == Prompt(code) \o Visible(buf) IN
           /\ line \in Seq(Chars) /\ Len(line) \in Nat /\ Len(line) >= 1
           /\ Len(line) = Len(Prompt(code)) + Len(Visible(buf))
  <1>1. buf \in Seq(Chars \cup {"del"})
    BY ShellAssumption
  <1>2. Visible(buf) \in Seq(Chars)
    BY <1>1, VisibleType
  <1>3. PICK p \in Seq(Chars), v \in Seq(Chars) : p = Prompt(code) /\ v = Visible(buf)
    BY <1>2, PromptType
  <1>4. p \o v \in Seq(Chars) /\ Len(p \o v) = Len(p) + Len(v) /\ Len(v) \in Nat
        /\ Len(p) \in Nat
    BY ConcatProperties, LenProperties
  <1>5. Len(p) >= 1
    <2>1. Len(p) \in {1, 2}
      BY <1>3, PromptType
    <2> QED
      BY <2>1
  <1>6. Len(p \o v) \in Nat /\ Len(p \o v) >= 1
    BY <1>4, <1>5
  <1> QED
    BY <1>3, <1>4, <1>6

\* The invariant on the screen says what LineOnScreen says.
LEMMA HeldOnScreen == ScreenInv => LineOnScreen
  <1> SUFFICES ASSUME ScreenInv, spc = "read", out = <<>>, tidy
               PROVE  /\ cursor_x = Len(Line)
                      /\ \A x \in 0 .. (Width - 1) :
                           Holds(text_buf, screen, erased, cursor_y, x,
                                 IF x < Len(Line) THEN Line[x + 1] ELSE NUL)
    BY DEF LineOnScreen, Reading, Line, Holds
  <1>1. Len(Line) \in Nat /\ cursor_x \in Nat
    BY LineType DEF ScreenInv, ShellTypes, Line, TerminalTypeOK
  <1>2. cursor_x = Len(Line)
    <2>1. Len(<<>>) = 0 /\ <<>> # <<"del">> /\ <<>> # <<"backspace">>
      OBVIOUS
    <2> QED
      BY <1>1, <2>1 DEF ScreenInv, LineHeld, Pending
  <1>3. RowHolds(text_buf, screen, erased, cursor_y, cursor_x, Line)
    BY DEF ScreenInv, LineHeld
  <1>4. ASSUME NEW x \in 0 .. (Width - 1)
        PROVE  Holds(text_buf, screen, erased, cursor_y, x,
                     IF x < Len(Line) THEN Line[x + 1] ELSE NUL)
    <2>1. x < Len(Line) \/ x >= Len(Line)
      BY <1>1
    <2>2. x >= Len(Line) => ~(x < Len(Line))
      BY <1>1
    <2> QED
      BY <1>2, <1>3, <2>1, <2>2 DEF RowHolds
  <1> QED
    BY <1>2, <1>4

-----------------------------------------------------------------------------

\* The rest of a sequence.
LEMMA TailFacts ==
    ASSUME NEW S, NEW s \in Seq(S), s # <<>>
    PROVE  /\ Tail(s) \in Seq(S) /\ Len(s) \in Nat /\ Len(s) >= 1 /\ Len(Tail(s)) = Len(s) - 1
           /\ Head(s) = s[1] /\ Head(s) \in S
           /\ \A i \in 1 .. Len(Tail(s)) : Tail(s)[i] = s[i + 1] /\ i + 1 \in 1 .. Len(s)
           /\ Tail(s) = <<>> => Len(s) = 1
           /\ Tail(s) # <<>> => Tail(s)[Len(Tail(s))] = s[Len(s)]
  <1>1. Len(s) \in Nat /\ s \in [1 .. Len(s) -> S]
    BY LenProperties
  <1>2. Len(s) # 0
    BY EmptySeq, <1>1
  <1>3. Len(s) >= 1
    BY <1>1, <1>2
  <1>4. Head(s) = s[1] /\ Head(s) \in S
    BY <1>1, <1>3
  <1>5. /\ Tail(s) \in Seq(S) /\ Len(Tail(s)) = Len(s) - 1
        /\ \A i \in 1 .. Len(Tail(s)) : Tail(s)[i] = s[i + 1]
    BY HeadTailProperties
  <1>6. \A i \in 1 .. Len(Tail(s)) : i + 1 \in 1 .. Len(s)
    BY <1>1, <1>5
  <1>7. Tail(s) = <<>> => Len(s) = 1
    <2>1. Len(<<>>) = 0
      OBVIOUS
    <2> QED
      BY <1>1, <1>5, <2>1
  <1>8. ASSUME Tail(s) # <<>> PROVE Tail(s)[Len(Tail(s))] = s[Len(s)]
    <2>1. PICK t \in Seq(S) : t = Tail(s)
      BY <1>5
    <2>2. Len(t) \in Nat /\ Len(t) # 0
      BY <1>8, <2>1, EmptySeq, LenProperties
    <2>3. Len(t) \in 1 .. Len(Tail(s)) /\ Len(t) + 1 = Len(s)
      BY <1>1, <1>5, <2>1, <2>2
    <2> QED
      BY <1>5, <2>1, <2>3
  <1> QED
    BY <1>1, <1>3, <1>4, <1>5, <1>6, <1>7, <1>8

\* What is left of the output is as the invariant wants it.
LEMMA WriteEnds ==
    ASSUME ScreenInv, Width > 1, WriteOut
    PROVE  RowsBelowBlank' /\ OutputEnds' /\ FaceAtMargin'
  <1>1. /\ out \in Seq(Tokens) /\ out # <<>> /\ out' = Tail(out) /\ UNCHANGED spc /\ Write
        /\ TerminalTypeOK
    BY DEF WriteOut, Write, svars, ScreenInv, ShellTypes, TerminalTypeOK
  <1>2. /\ Len(out) \in Nat /\ Len(out) >= 1 /\ Len(out') = Len(out) - 1
        /\ Head(out) = out[1]
        /\ \A i \in 1 .. Len(out') : out'[i] = out[i + 1] /\ i + 1 \in 1 .. Len(out)
        /\ out' = <<>> => Len(out) = 1
        /\ out' # <<>> => out'[Len(out')] = out[Len(out)]
    BY <1>1, TailFacts
  <1>3. RowsBelowBlank /\ OutputEnds /\ FaceAtMargin
    BY DEF ScreenInv
  <1>4. Head(out) = "face" => cursor_x = 0
    BY <1>2, <1>3 DEF FaceAtMargin
  <1>5. RowsBelowBlank' /\ (Head(out) \in {"\n", "clear"} => FreshLine')
    BY <1>1, <1>3, <1>4, WriteBlanks
  <1>6. OutputEnds'
    BY <1>1, <1>2, <1>3, <1>5 DEF OutputEnds
  <1>7. FaceAtMargin'
    <2> SUFFICES ASSUME NEW n \in 1 .. Len(out'), out'[n] = "face" PROVE FALSE
      BY DEF FaceAtMargin
    <2>1. out[n + 1] = "face" /\ n + 1 \in 1 .. Len(out) /\ n + 1 # 1
      BY <1>2
    <2> QED
      BY <1>3, <2>1 DEF FaceAtMargin
  <1> QED
    BY <1>5, <1>6, <1>7

\* A character of the line, and the echo of Delete and Backspace.
LEMMA WriteLine ==
    ASSUME ScreenInv, WriteOut
    PROVE  LineHeld'
  <1>1. /\ out \in Seq(Tokens) /\ out # <<>> /\ out' = Tail(out) /\ Write
        /\ TerminalTypeOK /\ UNCHANGED <<spc, input_buffer, prev_ret_code, tidy>>
        /\ prev_ret_code \in {-1, 0, 1} /\ input_buffer \in Seq(Typed)
    BY DEF WriteOut, Write, svars, ScreenInv, ShellTypes, TerminalTypeOK
  <1> SUFFICES ASSUME spc = "read", tidy PROVE LineHeld'
    BY <1>1 DEF LineHeld
  <1>2. PICK line \in Seq(Chars) : line = Line /\ Len(line) \in Nat
    BY <1>1, LineType DEF Line
  <1>3. Line' = line
    BY <1>1, <1>2 DEF Line
  <1>4. /\ Len(line) < Width /\ Pending(out, cursor_x, line)
        /\ RowHolds(text_buf, screen, erased, cursor_y, cursor_x, line)
    BY <1>2 DEF ScreenInv, LineHeld
  <1>5. SUFFICES /\ Pending(out', cursor_x', line)
                 /\ RowHolds(text_buf', screen', erased', cursor_y', cursor_x', line)
    BY <1>3, <1>4 DEF LineHeld
  <1>6. PICK c : c = Head(out)
    OBVIOUS
  <1>7. \/ Char(c) \/ Newline(c) \/ CarriageReturn(c) \/ Backspace(c) \/ Delete(c)
        \/ Colour(c) \/ Face(c) \/ clear_tty(c)
    BY <1>1, <1>6 DEF Write
  <1>8. cursor_x \in 0 .. (Width - 1) /\ cursor_x \in Nat /\ Width \in Nat
    BY <1>1, TerminalAssumption DEF TerminalTypeOK
  <1>9. CASE /\ out \in Seq(Chars) /\ cursor_x + Len(out) = Len(line)
             /\ \A i \in 1 .. Len(out) : out[i] = line[cursor_x + i]
    <2>1. /\ out' \in Seq(Chars) /\ Len(out) \in Nat /\ Len(out) >= 1
          /\ Len(out') = Len(out) - 1 /\ c = out[1] /\ c \in Chars
          /\ \A i \in 1 .. Len(out') : out'[i] = out[i + 1] /\ i + 1 \in 1 .. Len(out)
      BY <1>1, <1>6, <1>9, TailFacts
    <2>2. line[cursor_x + 1] = c
      BY <1>9, <2>1
    <2>3. cursor_x < Len(line) /\ cursor_x + 1 < Width
      BY <1>2, <1>4, <1>8, <1>9, <2>1
    <2>4. c \notin {"\n", "\r", "backspace", "del", "colour", "face", "clear"}
      BY <2>1, TerminalAssumption DEF Controls
    <2>5. Char(c)
      BY <1>7, <2>4
         DEF Newline, CarriageReturn, Backspace, Delete, Colour, Face, clear_tty
    <2>6. PICK buf, pic : /\ buf = set_char(text_buf, cursor_x, cursor_y, c)
                          /\ pic = Draw(screen, cursor_x, cursor_y, c)
      OBVIOUS
    <2>7. Stays(buf, pic, erased, cursor_x + 1)
      BY <1>1, <2>3, <2>5, <2>6, CharStep
    <2>8. RowHolds(buf, pic, erased, cursor_y, cursor_x + 1, line)
      BY <1>1, <1>2, <1>4, <2>1, <2>2, <2>3, <2>6, RowPut
    <2>9. cursor_x' = cursor_x + 1
      BY <2>7 DEF Stays
    <2>10. cursor_x' + Len(out') = Len(line)
      <3>1. PICK x \in Nat, m \in Nat : x = cursor_x /\ m = Len(out)
        BY <1>8, <2>1
      <3>2. x + m = Len(line) /\ cursor_x' = x + 1 /\ Len(out') = m - 1
        BY <1>9, <2>1, <2>9, <3>1
      <3> QED
        BY <1>2, <3>1, <3>2
    <2>11. ASSUME NEW i \in 1 .. Len(out')
           PROVE  out'[i] = line[cursor_x' + i]
      <3>1. cursor_x' + i = cursor_x + (i + 1)
        BY <1>8, <2>1, <2>9
      <3> QED
        BY <1>9, <2>1, <3>1
    <2>12. Pending(out', cursor_x', line)
      BY <2>1, <2>10, <2>11 DEF Pending
    <2> QED
      BY <2>7, <2>8, <2>12 DEF Stays
  <1>10. ASSUME NEW x \in 0 .. (Width - 1), x = Len(line), x = cursor_x \/ x + 1 = cursor_x,
                Erases(x), out' = <<>>
         PROVE  /\ Pending(out', cursor_x', line)
                /\ RowHolds(text_buf', screen', erased', cursor_y', cursor_x', line)
    <2>1. cursor_x' = x
      BY <1>10 DEF Erases, Stays
    <2>2. RowHolds(text_buf', screen', erased', cursor_y', x, line)
      BY <1>1, <1>2, <1>4, <1>10, RowErase
    <2>3. <<>> \in Seq(Chars) /\ Len(<<>>) = 0
      OBVIOUS
    <2>4. Pending(out', cursor_x', line)
      BY <1>2, <1>10, <2>1, <2>3 DEF Pending
    <2> QED
      BY <2>1, <2>2, <2>4
  <1>11. Chars \cap {"del", "backspace"} = {}
    BY TerminalAssumption DEF Controls
  <1>12. CASE out = <<"del">> /\ cursor_x = Len(line)
    <2>1. c = "del" /\ out' = <<>>
      BY <1>1, <1>6, <1>12
    <2>2. Delete(c)
      BY <1>7, <1>11, <2>1 DEF Char, Newline, CarriageReturn, Backspace, Colour, Face, clear_tty
    <2>3. Erases(cursor_x)
      BY <1>1, <2>2, DeleteStep
    <2> QED
      BY <1>8, <1>10, <1>12, <2>1, <2>3
  <1>13. CASE out = <<"backspace">> /\ cursor_x = Len(line) + 1
    <2>1. c = "backspace" /\ out' = <<>>
      BY <1>1, <1>6, <1>13
    <2>2. Backspace(c)
      BY <1>7, <1>11, <2>1 DEF Char, Newline, CarriageReturn, Delete, Colour, Face, clear_tty
    <2>3. PICK x \in 0 .. (Width - 1) : x = cursor_x - 1 /\ x = Len(line) /\ x + 1 = cursor_x
      BY <1>2, <1>8, <1>13
    <2>4. cursor_x > 0
      BY <1>2, <1>8, <1>13
    <2>5. Erases(x)
      BY <1>1, <2>2, <2>3, <2>4, BackspaceStep
    <2> QED
      BY <1>10, <2>1, <2>3, <2>5
  <1> QED
    BY <1>4, <1>9, <1>12, <1>13 DEF Pending

\* The shell starts with an empty screen.
LEMMA InitScreen == ShellInit => ScreenInv
  <1> SUFFICES ASSUME ShellInit PROVE ScreenInv
    OBVIOUS
  <1>1. /\ text_buf \in Buffers /\ screen \in Pictures
        /\ 0 \in 0 .. (Width - 1) /\ 0 \in 0 .. (Height - 1)
        /\ Drawn(text_buf, screen, FALSE) /\ BlankFrom(text_buf, screen, FALSE, 0)
    BY EmptyScreen DEF ShellInit, TerminalInit
  <1>2. <<>> \in Seq(Tokens) /\ <<>> \in Seq(Typed) /\ Len(<<>>) = 0 /\ 0 <= MaxLine
    BY ShellAssumption
  <1>3. /\ cursor_x = 0 /\ cursor_y = 0 /\ erased = FALSE /\ out = <<>> /\ spc = "prompt"
        /\ input_buffer = <<>> /\ prev_ret_code = 0 /\ tidy = FALSE
    BY DEF ShellInit, TerminalInit
  <1>4. TerminalTypeOK /\ TextIsDrawn /\ FreshLine
    BY <1>1, <1>2, <1>3, TypeIs, DrawnIs DEF FreshLine
  <1>5. ShellTypes
    BY <1>2, <1>3, <1>4 DEF ShellTypes
  <1>6. RowsBelowBlank
    BY <1>4, FreshBelow
  <1>7. OutputEnds /\ LineHeld
    BY <1>3, <1>4 DEF OutputEnds, LineHeld
  <1>8. FaceAtMargin
    BY <1>2, <1>3 DEF FaceAtMargin
  <1> QED
    BY <1>4, <1>5, <1>6, <1>7, <1>8 DEF ScreenInv

\* A step that only asks the terminal for something.
LEMMA AsksStep ==
    ASSUME ScreenInv, UNCHANGED tty, out' \in Seq(Tokens),
           spc' \in {"read", "exec", "walk", "prompt", "off", "panicked"},
           input_buffer' \in Seq(Typed), Len(input_buffer') <= MaxLine,
           prev_ret_code' \in {-1, 0, 1}, tidy' \in BOOLEAN,
           Width > 1 => OutputEnds' /\ FaceAtMargin',
           LineHeld'
    PROVE  ScreenInv'
  <1>1. UNCHANGED <<text_buf, cursor_x, cursor_y, screen, erased>>
    BY DEF tty
  <1>2. TerminalTypeOK' /\ TextIsDrawn'
    BY <1>1 DEF ScreenInv, ShellTypes, TerminalTypeOK, TextIsDrawn
  <1>3. Width > 1 => RowsBelowBlank'
    BY <1>1 DEF ScreenInv, RowsBelowBlank
  <1> QED
    BY <1>2, <1>3 DEF ScreenInv, ShellTypes

\* FreshLine only looks at the terminal.
LEMMA FreshStays ==
    ASSUME UNCHANGED tty
    PROVE  FreshLine' = FreshLine
  BY DEF tty, FreshLine

\* A token of the output is written.
LEMMA StepWriteOut ==
    ASSUME ScreenInv, WriteOut
    PROVE  ScreenInv'
  <1>1. TerminalTypeOK' /\ TextIsDrawn'
    BY WriteDraws DEF ScreenInv, ShellTypes, WriteOut
  <1>2. ShellTypes'
    BY <1>1 DEF ScreenInv, ShellTypes, WriteOut, svars
  <1>3. Width > 1 => RowsBelowBlank' /\ OutputEnds' /\ FaceAtMargin'
    BY WriteEnds
  <1>4. LineHeld'
    BY WriteLine
  <1> QED
    BY <1>1, <1>2, <1>3, <1>4 DEF ScreenInv

\* The prompt is shown in a fresh row.
LEMMA StepShowPrompt ==
    ASSUME ScreenInv, ShowPrompt
    PROVE  ScreenInv'
  <1>1. /\ spc = "prompt" /\ out = <<>> /\ out' = Prompt(prev_ret_code) /\ input_buffer' = <<>>
        /\ spc' = "read" /\ tidy' = (Len(Prompt(prev_ret_code)) < Width)
        /\ UNCHANGED tty /\ prev_ret_code' = prev_ret_code
    BY DEF ShowPrompt
  <1>2. prev_ret_code \in {-1, 0, 1} /\ TerminalTypeOK
    BY DEF ScreenInv, ShellTypes
  <1>3. PICK p \in Seq(Chars) : p = Prompt(prev_ret_code) /\ Len(p) \in {1, 2}
    BY <1>2, PromptType
  <1>4. Line' = p
    <2>1. Line' = Prompt(prev_ret_code') \o Visible(input_buffer')
      BY DEF Line
    <2>2. Visible(input_buffer') = <<>>
      BY <1>1, VisibleEmpty
    <2>3. p \o <<>> = p
      BY ConcatEmptySeq
    <2> QED
      BY <1>1, <1>3, <2>1, <2>2, <2>3
  <1>5. p \in Seq(Tokens) /\ \A n \in 1 .. Len(p) : p[n] \in Chars
    BY DEF Tokens
  <1>6. LineHeld'
    <2> SUFFICES ASSUME Len(p) < Width
                 PROVE  /\ Pending(p, cursor_x', p)
                        /\ RowHolds(text_buf', screen', erased', cursor_y', cursor_x', p)
      BY <1>1, <1>3, <1>4 DEF LineHeld
    <2>1. Width > 1
      <3>1. Width \in Nat
        BY TerminalAssumption
      <3> QED
        BY <1>3, <3>1
    <2>2. FreshLine
      BY <1>1, <2>1 DEF ScreenInv, OutputEnds
    <2>3. RowHolds(text_buf, screen, erased, cursor_y, 0, p)
      BY <1>2, <2>2, FreshRow
    <2>4. cursor_x = 0
      BY <2>2 DEF FreshLine
    <2>5. Pending(p, 0, p)
      BY <1>3 DEF Pending
    <2> QED
      BY <1>1, <2>3, <2>4, <2>5 DEF tty
  <1>7. OutputEnds'
    BY <1>1 DEF OutputEnds
  <1>8. FaceAtMargin'
    <2>1. "face" \notin Chars
      BY TerminalAssumption DEF Controls
    <2> QED
      BY <1>1, <1>3, <1>5, <2>1 DEF FaceAtMargin
  <1>9. /\ input_buffer' \in Seq(Typed) /\ Len(input_buffer') <= MaxLine
        /\ tidy' \in BOOLEAN
    BY <1>1, ShellAssumption
  <1> QED
    BY <1>1, <1>2, <1>3, <1>5, <1>6, <1>7, <1>8, <1>9, AsksStep

-----------------------------------------------------------------------------

\* A row that holds a line holds what starts as the line does.
LEMMA RowPrefix ==
    ASSUME NEW buf, NEW pic, NEW gone, NEW y, NEW n \in Nat, NEW l1, NEW l2,
           RowHolds(buf, pic, gone, y, n, l1), Len(l1) \in Nat, Len(l2) \in Nat,
           \A i \in 1 .. Len(l2) : i <= n => i <= Len(l1) /\ l2[i] = l1[i]
    PROVE  RowHolds(buf, pic, gone, y, n, l2)
  <1> SUFFICES ASSUME NEW x \in 0 .. (Width - 1)
               PROVE  /\ x < n /\ x < Len(l2) => Holds(buf, pic, gone, y, x, l2[x + 1])
                      /\ x >= n => Holds(buf, pic, gone, y, x, NUL)
    BY DEF RowHolds
  <1>1. Width \in Nat
    BY TerminalAssumption
  <1>2. ASSUME x < n, x < Len(l2)
        PROVE  x < Len(l1) /\ l2[x + 1] = l1[x + 1]
    <2>1. x + 1 \in 1 .. Len(l2) /\ x + 1 <= n
      BY <1>1, <1>2
    <2>2. x + 1 <= Len(l1) /\ l2[x + 1] = l1[x + 1]
      BY <2>1
    <2> QED
      BY <1>1, <2>2
  <1> QED
    BY <1>2 DEF RowHolds

\* What the invariant says when a key is read.
LEMMA AtRead ==
    ASSUME ScreenInv, Reading, tidy
    PROVE  /\ cursor_x = Len(Line) /\ Len(Line) < Width
           /\ RowHolds(text_buf, screen, erased, cursor_y, cursor_x, Line)
  <1>1. Len(Line) \in Nat /\ cursor_x \in Nat
    BY LineType DEF ScreenInv, ShellTypes, Line, TerminalTypeOK
  <1>2. Len(<<>>) = 0 /\ <<>> # <<"del">> /\ <<>> # <<"backspace">>
    OBVIOUS
  <1>3. /\ Len(Line) < Width /\ Pending(out, cursor_x, Line)
        /\ RowHolds(text_buf, screen, erased, cursor_y, cursor_x, Line)
    BY DEF ScreenInv, LineHeld, Reading
  <1>4. cursor_x = Len(Line)
    BY <1>1, <1>2, <1>3 DEF Pending, Reading
  <1> QED
    BY <1>3, <1>4

\* Appending to the second part of a line.
LEMMA ConcatAppend ==
    ASSUME NEW S, NEW p \in Seq(S), NEW v \in Seq(S), NEW c \in S
    PROVE  p \o Append(v, c) = Append(p \o v, c)
  <1>1. <<c>> \in Seq(S) /\ p \o v \in Seq(S)
    BY ConcatProperties
  <1>2. p \o (v \o <<c>>) = (p \o v) \o <<c>>
    BY <1>1, ConcatAssociative
  <1> QED
    BY <1>1, <1>2, AppendIsConcat

\* A key is appended to the buffer and echoed.
LEMMA StepTypeKey ==
    ASSUME ScreenInv, NEW c \in Typed, TypeKey(c)
    PROVE  ScreenInv'
  <1>1. /\ Reading /\ spc = "read" /\ Len(input_buffer) < MaxLine /\ out' = <<c>>
        /\ input_buffer' = Append(input_buffer, c)
        /\ tidy' = (tidy /\ (c = "del" \/ cursor_x + 1 < Width))
        /\ UNCHANGED tty /\ UNCHANGED spc /\ prev_ret_code' = prev_ret_code
    BY DEF TypeKey, Reading
  <1>2. /\ prev_ret_code \in {-1, 0, 1} /\ TerminalTypeOK /\ input_buffer \in Seq(Typed)
        /\ spc \in {"read", "exec", "walk", "prompt", "off", "panicked"} /\ tidy \in BOOLEAN
    BY DEF ScreenInv, ShellTypes
  <1>3. c \in Chars \cup {"del"} /\ Chars \cap {"del", "face", "backspace"} = {}
    BY ShellAssumption, TerminalAssumption DEF Controls
  <1>4. input_buffer \in Seq(Chars \cup {"del"})
    BY <1>2, ShellAssumption
  <1>5. PICK p \in Seq(Chars), v \in Seq(Chars) :
            p = Prompt(prev_ret_code) /\ v = Visible(input_buffer) /\ Line = p \o v
    BY <1>2, <1>4, PromptType, VisibleType DEF Line
  <1>6. Line' = p \o (IF c = "del" THEN v ELSE Append(v, c))
    <2>1. Line' = Prompt(prev_ret_code') \o Visible(input_buffer')
      BY DEF Line
    <2>2. Visible(input_buffer') = IF c = "del" THEN v ELSE Append(v, c)
      BY <1>1, <1>3, <1>4, <1>5, VisibleAppend
    <2> QED
      BY <1>1, <1>5, <2>1, <2>2
  <1>7. LineHeld'
    <2> SUFFICES ASSUME tidy, c = "del" \/ cursor_x + 1 < Width
                 PROVE  /\ Len(Line') < Width
                        /\ Pending(<<c>>, cursor_x, Line')
                        /\ RowHolds(text_buf, screen, erased, cursor_y, cursor_x, Line')
      BY <1>1 DEF LineHeld, tty
    <2>1. /\ cursor_x = Len(Line) /\ Len(Line) < Width
          /\ RowHolds(text_buf, screen, erased, cursor_y, cursor_x, Line)
      BY <1>1, AtRead
    <2>2. CASE c = "del"
      <3>1. Line' = Line
        BY <1>5, <1>6, <2>2
      <3> QED
        BY <2>1, <2>2, <3>1 DEF Pending
    <2>3. CASE c # "del"
      <3>1. c \in Chars /\ Line' = p \o Append(v, c)
        BY <1>3, <1>6, <2>3
      <3>2. PICK l \in Seq(Chars) : l = Line /\ Len(l) \in Nat
        BY <1>5, ConcatProperties, LenProperties
      <3>3. Line' = Append(l, c)
        BY <1>5, <3>1, <3>2, ConcatAppend
      <3>4. /\ Line' \in Seq(Chars) /\ Len(Line') = Len(l) + 1 /\ Line'[Len(l) + 1] = c
            /\ \A i \in 1 .. Len(l) : Line'[i] = l[i]
        BY <3>1, <3>2, <3>3, AppendProperties
      <3>9. cursor_x = Len(l) /\ Width \in Nat /\ Len(Line') = cursor_x + 1
        BY <2>1, <3>2, <3>4, TerminalAssumption
      <3>10. Len(Line') < Width
        BY <2>3, <3>9
      <3>11. RowHolds(text_buf, screen, erased, cursor_y, cursor_x, Line')
        <4>1. \A i \in 1 .. Len(Line') : i <= cursor_x => i <= Len(l) /\ Line'[i] = l[i]
          BY <3>2, <3>4, <3>9
        <4>2. cursor_x \in Nat /\ Len(Line') \in Nat
          BY <3>2, <3>9
        <4> QED
          BY <2>1, <3>2, <4>1, <4>2, RowPrefix
      <3>12. Pending(<<c>>, cursor_x, Line')
        <4>1. <<c>> \in Seq(Chars) /\ Len(<<c>>) = 1 /\ <<c>>[1] = c
          BY <3>1
        <4>2. ASSUME NEW i \in 1 .. Len(<<c>>) PROVE <<c>>[i] = Line'[cursor_x + i]
          <5>1. i = 1
            BY <4>1
          <5> QED
            BY <3>4, <3>9, <4>1, <5>1
        <4> QED
          BY <3>9, <4>1, <4>2 DEF Pending
      <3> QED
        BY <3>10, <3>11, <3>12
    <2> QED
      BY <2>2, <2>3
  <1>8. OutputEnds' /\ FaceAtMargin'
    BY <1>1, <1>3 DEF OutputEnds, FaceAtMargin
  <1>9. input_buffer' \in Seq(Typed) /\ Len(input_buffer') <= MaxLine
    <2>1. Len(input_buffer') = Len(input_buffer) + 1 /\ Len(input_buffer) \in Nat
      BY <1>1, <1>2, AppendProperties, LenProperties
    <2> QED
      BY <1>1, <1>2, <2>1, AppendProperties, ShellAssumption
  <1>10. out' \in Seq(Tokens) /\ tidy' \in BOOLEAN
    BY <1>1, <1>2, <1>3 DEF Tokens, Controls
  <1> QED
    BY <1>1, <1>2, <1>7, <1>8, <1>9, <1>10, AsksStep

-----------------------------------------------------------------------------
(* Backspace, Enter and the commands.                                      *)

\* Backspace takes the last character from the buffer and its cell from the
\* screen.
LEMMA StepEraseKey ==
    ASSUME ScreenInv, EraseKey
    PROVE  ScreenInv'
  <1>1. /\ Reading /\ spc = "read" /\ out' = <<"backspace">>
        /\ input_buffer' = IF input_buffer = <<>> THEN <<>>
                           ELSE SubSeq(input_buffer, 1, Len(input_buffer) - 1)
        /\ tidy' = (tidy /\ input_buffer # <<>> /\ input_buffer = Visible(input_buffer))
        /\ UNCHANGED tty /\ UNCHANGED spc /\ prev_ret_code' = prev_ret_code
    BY DEF EraseKey, Reading
  <1>2. /\ prev_ret_code \in {-1, 0, 1} /\ TerminalTypeOK /\ input_buffer \in Seq(Typed)
        /\ Len(input_buffer) <= MaxLine /\ MaxLine \in Nat
        /\ spc \in {"read", "exec", "walk", "prompt", "off", "panicked"} /\ tidy \in BOOLEAN
    BY ShellAssumption DEF ScreenInv, ShellTypes
  <1>3. input_buffer \in Seq(Chars \cup {"del"})
    BY <1>2, ShellAssumption
  <1>4. ASSUME input_buffer # <<>>
        PROVE  \E n \in Nat : /\ Len(input_buffer) = n + 1
                              /\ input_buffer' \in Seq(Typed) /\ Len(input_buffer') = n
                              /\ \A i \in 1 .. n : input_buffer'[i] = input_buffer[i]
    <2>1. PICK n \in Nat : n = Len(input_buffer) - 1 /\ Len(input_buffer) = n + 1
      <3>1. Len(input_buffer) \in Nat \ {0}
        BY <1>2, <1>4, EmptySeq
      <3> QED
        BY <3>1
    <2>2. \A i \in 1 .. n : input_buffer[i] \in Typed
      BY <1>2, <2>1, LenProperties
    <2>3. input_buffer' = SubSeq(input_buffer, 1, n)
      BY <1>1, <1>4, <2>1
    <2>4. 1 \in Int /\ n \in Int
      OBVIOUS
    <2>5. /\ input_buffer' \in Seq(Typed)
          /\ Len(input_buffer') = IF 1 <= n THEN n - 1 + 1 ELSE 0
          /\ \A i \in 1 .. n - 1 + 1 : input_buffer'[i] = input_buffer[1 + i - 1]
      BY <2>2, <2>3, <2>4, SubSeqProperties
    <2>6. Len(input_buffer') = n
      BY <2>5
    <2>7. \A i \in 1 .. n : input_buffer'[i] = input_buffer[i]
      BY <2>5
    <2> QED
      BY <2>1, <2>5, <2>6, <2>7
  <1>5. input_buffer' \in Seq(Typed) /\ Len(input_buffer') <= MaxLine
    <2>1. CASE input_buffer = <<>>
      BY <1>1, <1>2, <2>1
    <2>2. CASE input_buffer # <<>>
      BY <1>2, <1>4, <2>2
    <2> QED
      BY <2>1, <2>2
  <1>6. LineHeld'
    <2> SUFFICES ASSUME tidy, input_buffer # <<>>, NoDelete(input_buffer)
                 PROVE  /\ Len(Line') < Width
                        /\ Pending(<<"backspace">>, cursor_x, Line')
                        /\ RowHolds(text_buf, screen, erased, cursor_y, cursor_x, Line')
      BY <1>1 DEF LineHeld, tty, NoDelete
    <2>1. /\ cursor_x = Len(Line) /\ Len(Line) < Width
          /\ RowHolds(text_buf, screen, erased, cursor_y, cursor_x, Line)
      BY <1>1, AtRead
    <2>2. PICK n \in Nat : /\ Len(input_buffer) = n + 1
                           /\ input_buffer' \in Seq(Typed) /\ Len(input_buffer') = n
                           /\ \A i \in 1 .. n : input_buffer'[i] = input_buffer[i]
      BY <1>4
    <2>3. Visible(input_buffer') = input_buffer'
      <3>1. input_buffer' = SubSeq(input_buffer, 1, Len(input_buffer) - 1)
        BY <1>1
      <3>2. Len(input_buffer) > 0
        BY <2>2
      <3> QED
        BY <1>3, <3>1, <3>2, VisibleFront
    <2>4. PICK S : S = Chars \cup {"del"}
      OBVIOUS
    <2>5. PICK p \in Seq(S), v \in Seq(S), w \in Seq(S) :
              p = Prompt(prev_ret_code) /\ v = input_buffer /\ w = input_buffer'
      <3>1. input_buffer' \in Seq(S)
        BY <2>2, <2>4, ShellAssumption
      <3>2. Prompt(prev_ret_code) \in Seq(S)
        BY <1>2, <2>4, PromptType
      <3> QED
        BY <1>3, <2>4, <3>1, <3>2
    <2>6. Line = p \o v /\ Line' = p \o w
      <3>1. Visible(input_buffer) = v
        BY <2>5 DEF NoDelete
      <3>2. Line' = Prompt(prev_ret_code') \o Visible(input_buffer')
        BY DEF Line
      <3> QED
        BY <1>1, <2>3, <2>5, <3>1, <3>2 DEF Line
    <2>7. PICK a \in Nat : a = Len(p)
      BY LenProperties
    <2>8. /\ Len(Line) = a + (n + 1)
          /\ \A i \in 1 .. (a + (n + 1)) : Line[i] = IF i <= a THEN p[i] ELSE v[i - a]
      BY <2>2, <2>5, <2>6, <2>7, ConcatProperties
    <2>9. /\ Len(Line') = a + n
          /\ \A i \in 1 .. (a + n) : Line'[i] = IF i <= a THEN p[i] ELSE w[i - a]
      <3>1. Len(w) = n
        BY <2>2, <2>5
      <3>2. /\ Len(p \o w) = Len(p) + Len(w)
            /\ \A i \in 1 .. (Len(p) + Len(w)) :
                  (p \o w)[i] = IF i <= Len(p) THEN p[i] ELSE w[i - Len(p)]
        BY ConcatProperties
      <3> QED
        BY <2>6, <2>7, <3>1, <3>2
    <2>10. ASSUME NEW i \in 1 .. (a + n) PROVE i <= Len(Line) /\ Line'[i] = Line[i]
      <3>1. i \in 1 .. (a + (n + 1)) /\ i <= Len(Line)
        BY <2>8
      <3>2. CASE i <= a
        BY <2>8, <2>9, <3>1, <3>2
      <3>3. CASE ~(i <= a)
        <4>1. i - a \in 1 .. n
          BY <3>3
        <4>2. w[i - a] = v[i - a]
          BY <2>2, <2>5, <4>1
        <4> QED
          BY <2>8, <2>9, <3>1, <3>3, <4>2
      <3> QED
        BY <3>1, <3>2, <3>3
    <2>11. Width \in Nat /\ Len(Line') \in Nat /\ Len(Line) \in Nat
           /\ cursor_x = Len(Line') + 1 /\ cursor_x \in Nat
      BY <2>1, <2>8, <2>9, TerminalAssumption
    <2>12. RowHolds(text_buf, screen, erased, cursor_y, cursor_x, Line')
      <3>1. \A i \in 1 .. Len(Line') : i <= cursor_x => i <= Len(Line) /\ Line'[i] = Line[i]
        BY <2>9, <2>10
      <3> QED
        BY <2>1, <2>11, <3>1, RowPrefix
    <2> QED
      BY <2>1, <2>11, <2>12 DEF Pending
  <1>7. OutputEnds' /\ FaceAtMargin'
    BY <1>1 DEF OutputEnds, FaceAtMargin
  <1>8. out' \in Seq(Tokens) /\ tidy' \in BOOLEAN
    BY <1>1, <1>2 DEF Tokens, Controls
  <1> QED
    BY <1>1, <1>2, <1>5, <1>6, <1>7, <1>8, AsksStep

\* Enter ends the line.
LEMMA StepEnterKey ==
    ASSUME ScreenInv, EnterKey
    PROVE  ScreenInv'
  <1>1. /\ out' = <<"\n">> /\ spc' \in {"prompt", "exec"} /\ tidy' = FALSE /\ UNCHANGED tty
        /\ input_buffer' = input_buffer /\ prev_ret_code' = prev_ret_code
    BY DEF EnterKey
  <1>2. /\ prev_ret_code \in {-1, 0, 1} /\ TerminalTypeOK /\ input_buffer \in Seq(Typed)
        /\ Len(input_buffer) <= MaxLine
    BY DEF ScreenInv, ShellTypes
  <1>3. /\ out' \in Seq(Tokens) /\ out' # <<>> /\ Len(out') = 1 /\ out'[1] = "\n"
    BY <1>1 DEF Tokens, Controls
  <1>4. OutputEnds' /\ FaceAtMargin'
    BY <1>3 DEF OutputEnds, FaceAtMargin
  <1>5. LineHeld'
    BY <1>1 DEF LineHeld
  <1> QED
    BY <1>1, <1>2, <1>3, <1>4, <1>5, AsksStep

-----------------------------------------------------------------------------

\* A command that returns to the prompt.
LEMMA StepReturns ==
    ASSUME ScreenInv, NEW code \in {-1, 0, 1}, NEW text \in Seq(Tokens), Returns(code, text),
           text = <<>> => out = <<>> /\ spc = "exec",
           text # <<>> => text[Len(text)] \in {"\n", "clear"},
           \A n \in 1 .. Len(text) : text[n] = "face" => n = 1 /\ out = <<>> /\ spc = "exec"
    PROVE  ScreenInv'
  <1>1. /\ prev_ret_code' = code /\ out' = text /\ spc' = "prompt"
        /\ UNCHANGED tty /\ UNCHANGED <<input_buffer, tidy>>
    BY DEF Returns
  <1>2. /\ TerminalTypeOK /\ input_buffer \in Seq(Typed)
        /\ Len(input_buffer) <= MaxLine /\ tidy \in BOOLEAN
    BY DEF ScreenInv, ShellTypes
  <1>3. LineHeld'
    BY <1>1 DEF LineHeld
  <1>4. ASSUME Width > 1
        PROVE  OutputEnds' /\ FaceAtMargin'
    <2>1. out = <<>> /\ spc = "exec" => FreshLine
      BY <1>4 DEF ScreenInv, OutputEnds
    <2>2. OutputEnds'
      BY <1>1, <2>1, FreshStays DEF OutputEnds
    <2>3. FaceAtMargin'
      BY <1>1, <2>1 DEF FaceAtMargin, FreshLine, tty
    <2> QED
      BY <2>2, <2>3
  <1> QED
    BY <1>1, <1>2, <1>3, <1>4, AsksStep

\* A text and the end of its line.
LEMMA TextEnds ==
    ASSUME NEW t \in Seq(Written), NEW text, text = t \o <<"\n">>
    PROVE  /\ text \in Seq(Tokens) /\ text # <<>> /\ text[Len(text)] = "\n"
           /\ \A n \in 1 .. Len(text) : text[n] # "face"
  <1>1. "\n" \in Written /\ "face" \notin Written /\ Written \subseteq Tokens
    <2>1. "\n" \in Tokens
      BY DEF Tokens, Controls
    <2> QED
      BY <2>1 DEF Written
  <1>2. <<"\n">> \in Seq(Written)
    BY <1>1
  <1>3. text = Append(t, "\n")
    BY <1>1, AppendIsConcat
  <1>4. /\ text \in Seq(Written) /\ text # <<>> /\ Len(text) = Len(t) + 1
        /\ text[Len(t) + 1] = "\n"
    BY <1>1, <1>3, AppendProperties
  <1>5. text \in Seq(Tokens)
    BY <1>1, <1>4
  <1>6. \A n \in 1 .. Len(text) : text[n] \in Written
    BY <1>4, LenProperties
  <1> QED
    BY <1>1, <1>4, <1>5, <1>6

\* A command that prints a text.
LEMMA StepPrints ==
    ASSUME ScreenInv, NEW code \in {-1, 0, 1}, NEW t \in Texts \cup Contents,
           Returns(code, t \o <<"\n">>)
    PROVE  ScreenInv'
  <1>1. PICK text : text = t \o <<"\n">>
    OBVIOUS
  <1>2. t \in Seq(Written)
    BY ShellAssumption
  <1>3. /\ text \in Seq(Tokens) /\ text # <<>> /\ text[Len(text)] = "\n"
        /\ \A n \in 1 .. Len(text) : text[n] # "face"
    BY <1>1, <1>2, TextEnds
  <1> QED
    BY <1>1, <1>3, StepReturns

\* smiley draws its face in a fresh row.
LEMMA StepSmiley ==
    ASSUME ScreenInv, smiley
    PROVE  ScreenInv'
  <1>1. PICK text : text = <<"face", "\n">>
    OBVIOUS
  <1>2. /\ text \in Seq(Tokens) /\ text # <<>> /\ Len(text) = 2 /\ text[2] = "\n"
        /\ text[1] = "face"
    BY <1>1 DEF Tokens, Controls
  <1>3. \A n \in 1 .. Len(text) : text[n] = "face" => n = 1
    BY <1>2
  <1>4. Returns(0, text) /\ out = <<>> /\ spc = "exec"
    BY <1>1 DEF smiley, Exec
  <1> QED
    BY <1>2, <1>3, <1>4, StepReturns

\* clear leaves an empty screen.
LEMMA StepClear ==
    ASSUME ScreenInv, clear
    PROVE  ScreenInv'
  <1>1. PICK text : text = <<"clear">>
    OBVIOUS
  <1>2. /\ text \in Seq(Tokens) /\ text # <<>> /\ Len(text) = 1 /\ text[1] = "clear"
    BY <1>1 DEF Tokens, Controls
  <1>3. Returns(0, text)
    BY <1>1 DEF clear
  <1> QED
    BY <1>2, <1>3, StepReturns

\* A step of a command that prints nothing.
LEMMA StepSilent ==
    ASSUME ScreenInv, UNCHANGED <<tty, out, input_buffer, prev_ret_code, tidy>>,
           \/ UNCHANGED spc
           \/ spc = "exec" /\ spc' \in {"off", "panicked", "walk"}
    PROVE  ScreenInv'
  <1>1. /\ prev_ret_code \in {-1, 0, 1} /\ TerminalTypeOK /\ input_buffer \in Seq(Typed)
        /\ Len(input_buffer) <= MaxLine /\ tidy \in BOOLEAN /\ out \in Seq(Tokens)
        /\ spc' \in {"read", "exec", "walk", "prompt", "off", "panicked"}
    BY DEF ScreenInv, ShellTypes, TerminalTypeOK
  <1>2. UNCHANGED <<text_buf, cursor_x, cursor_y, screen, erased>>
    BY DEF tty
  <1>3. Width > 1 => OutputEnds' /\ FaceAtMargin'
    BY <1>2 DEF ScreenInv, OutputEnds, FaceAtMargin, FreshLine
  <1>4. LineHeld'
    <2>1. CASE UNCHANGED spc
      BY <1>2, <2>1 DEF ScreenInv, LineHeld, Line
    <2>2. CASE spc' \in {"off", "panicked", "walk"}
      BY <2>2 DEF LineHeld
    <2> QED
      BY <2>1, <2>2
  <1> QED
    BY <1>1, <1>3, <1>4, AsksStep

\* shutdown stops the machine or prints nothing.
LEMMA StepShutdown ==
    ASSUME ScreenInv, shutdown
    PROVE  ScreenInv'
  <1>1. CASE spc' = "off" /\ UNCHANGED <<tty, out, input_buffer, prev_ret_code, tidy>>
    BY <1>1, StepSilent DEF shutdown, Exec
  <1>2. CASE Returns(0, <<>>)
    <2>1. <<>> \in Seq(Tokens) /\ Len(<<>>) = 0
      OBVIOUS
    <2>2. \A n \in 1 .. Len(<<>>) : <<>>[n] = "face" => FALSE
      BY <2>1
    <2> QED
      BY <1>2, <2>1, <2>2, StepReturns DEF shutdown, Exec
  <1> QED
    BY <1>1, <1>2 DEF shutdown

\* Every step of the shell keeps the screen as the invariant wants it.
LEMMA NextScreen ==
    ASSUME ScreenInv, [ShellNext]_shell_vars
    PROVE  ScreenInv'
  <1>1. CASE WriteOut \/ ShowPrompt
    BY <1>1, StepWriteOut, StepShowPrompt
  <1>2. CASE NotFound \/ Message \/ Usage
    BY <1>2, StepPrints DEF NotFound, Message, Usage
  <1>3. CASE smiley \/ clear \/ shutdown
    BY <1>3, StepSmiley, StepClear, StepShutdown
  <1>4. CASE panic_ \/ ls \/ cat
    BY <1>4, StepSilent DEF panic_, ls, cat, Exec
  <1>5. CASE Walk
    BY <1>5, StepSilent DEF Walk, svars
  <1>6. CASE LsPrints \/ CatPrints
    BY <1>6, StepPrints DEF LsPrints, CatPrints
  <1>7. CASE Keys
    BY <1>7, StepTypeKey, StepEraseKey, StepEnterKey DEF Keys
  <1>8. CASE UNCHANGED shell_vars
    BY <1>8, StepSilent DEF shell_vars, svars
  <1> QED
    BY <1>1, <1>2, <1>3, <1>4, <1>5, <1>6, <1>7, <1>8 DEF ShellNext, Work, Stopped

-----------------------------------------------------------------------------
(* The places of files in an archive (USTar.tla).                          *)

\* What an archive says of a file.
Entries == [name : STRING, size : Nat]

\* The header of a file and the blocks of its data.
Room(size) == BLOCK_SIZE * (1 + (size + BLOCK_SIZE - 1) \div BLOCK_SIZE)

\* The right-hand side of the recursive definition of Offset.
OffsetStep(files, f) ==
    [n \in 1 .. (Len(files) + 1) |->
        IF n = 1 THEN 0 ELSE f[n - 1] + Room(files[n - 1].size)]

\* Where a block may start.
Places == {BLOCK_SIZE * k : k \in Nat}

\* f is what Offset is to be for the first n places.
OffsetIn(files, n, f) ==
    /\ f \in [1 .. n -> Places]
    /\ f[1] = 0
    /\ \A i \in 2 .. n : f[i] = f[i - 1] + Room(files[i - 1].size)

\* A file takes up its header and its data, and less than a block more.
LEMMA RoomFacts ==
    ASSUME NEW size \in Nat
    PROVE  /\ Room(size) \in Places /\ Room(size) \in Nat
           /\ Room(size) >= 512 + size /\ Room(size) < 1024 + size
  <1>1. PICK k \in Nat : k = (size + 511) \div 512 /\ 512 * k >= size /\ 512 * k < size + 512
    OBVIOUS
  <1>2. Room(size) = 512 * (1 + k)
    BY <1>1 DEF Room, BLOCK_SIZE
  <1>3. 1 + k \in Nat
    OBVIOUS
  <1> QED
    BY <1>1, <1>2, <1>3 DEF Places, BLOCK_SIZE

\* Places are closed under addition.
LEMMA PlaceFacts ==
    /\ 0 \in Places /\ Places \subseteq Nat
    /\ \A a, b \in Places : a + b \in Places
  <1>1. 0 \in Places
    BY DEF Places, BLOCK_SIZE
  <1>2. Places \subseteq Nat
    BY DEF Places, BLOCK_SIZE
  <1>3. ASSUME NEW a \in Places, NEW b \in Places PROVE a + b \in Places
    <2>1. PICK i \in Nat, j \in Nat : a = 512 * i /\ b = 512 * j
      BY DEF Places, BLOCK_SIZE
    <2>2. i + j \in Nat /\ a + b = 512 * (i + j)
      BY <2>1
    <2> QED
      BY <2>2 DEF Places, BLOCK_SIZE
  <1> QED
    BY <1>1, <1>2, <1>3

\* A file of an archive takes up whole blocks.
LEMMA FileRoom ==
    ASSUME NEW files \in Seq(Entries), NEW n \in 1 .. Len(files)
    PROVE  files[n].size \in Nat /\ files[n].name \in STRING /\ Room(files[n].size) \in Places
  <1>1. files[n] \in Entries
    BY LenProperties
  <1>2. files[n].size \in Nat /\ files[n].name \in STRING
    BY <1>1 DEF Entries
  <1>3. PICK z \in Nat : z = files[n].size
    BY <1>2
  <1>4. Room(z) \in Places
    BY RoomFacts
  <1> QED
    BY <1>2, <1>3, <1>4

\* One file more.
LEMMA OffsetExtend ==
    ASSUME NEW files \in Seq(Entries), NEW n \in 1 .. Len(files),
           NEW f, OffsetIn(files, n, f)
    PROVE  \E g : OffsetIn(files, n + 1, g)
  <1> DEFINE new == f[n] + Room(files[n].size)
             g == [i \in 1 .. (n + 1) |-> IF i = n + 1 THEN new ELSE f[i]]
  <1>1. n \in Nat /\ n > 0 /\ Len(files) \in Nat
    BY LenProperties
  <1>2. f \in [1 .. n -> Places] /\ f[n] \in Places /\ f[1] = 0
    BY <1>1 DEF OffsetIn
  <1>3. new \in Places
    BY <1>2, PlaceFacts, FileRoom
  <1>4. \A i \in 1 .. (n + 1) : g[i] = IF i = n + 1 THEN new ELSE f[i]
    OBVIOUS
  <1> HIDE DEF new
  <1>5. g \in [1 .. (n + 1) -> Places]
    BY <1>1, <1>2, <1>3
  <1> HIDE DEF g
  <1>6. g[1] = 0
    BY <1>1, <1>2, <1>4
  <1>7. ASSUME NEW i \in 2 .. (n + 1)
        PROVE  g[i] = g[i - 1] + Room(files[i - 1].size)
    <2>1. g[i - 1] = f[i - 1]
      BY <1>1, <1>4
    <2>2. CASE i = n + 1
      <3>1. g[i] = new /\ i - 1 = n
        BY <1>1, <1>4, <2>2
      <3> QED
        BY <2>1, <3>1 DEF new
    <2>3. CASE i # n + 1
      <3>1. i \in 2 .. n /\ g[i] = f[i]
        BY <1>1, <1>4, <2>3
      <3>2. f[i] = f[i - 1] + Room(files[i - 1].size)
        BY <3>1 DEF OffsetIn
      <3> QED
        BY <2>1, <3>1, <3>2
    <2> QED
      BY <2>2, <2>3
  <1>8. OffsetIn(files, n + 1, g)
    BY <1>5, <1>6, <1>7 DEF OffsetIn
  <1> QED
    BY <1>8

\* There is such a function for every sequence of files.
LEMMA OffsetExists ==
    ASSUME NEW files \in Seq(Entries)
    PROVE  \E f : OffsetIn(files, Len(files) + 1, f)
  <1> DEFINE Bad == {i \in Nat : i <= Len(files) /\ ~\E f : OffsetIn(files, i + 1, f)}
  <1>1. Len(files) \in Nat
    BY LenProperties
  <1>2. SUFFICES ASSUME Bad # {} PROVE FALSE
    BY <1>1
  <1>3. PICK m \in Bad : \A i \in Bad : m <= i
    BY <1>2, LeastNatural
  <1>4. m # 0
    <2>1. \A i \in 2 .. 1 : FALSE
      OBVIOUS
    <2>2. OffsetIn(files, 1, [i \in 1 .. 1 |-> 0])
      BY <2>1, PlaceFacts DEF OffsetIn
    <2>3. 0 + 1 = 1
      OBVIOUS
    <2> QED
      BY <2>2, <2>3
  <1>5. m \in Nat /\ m \in 1 .. Len(files)
    BY <1>1, <1>4
  <1>6. \E f : OffsetIn(files, m, f)
    <2>1. PICK j \in Nat : j + 1 = m /\ j <= Len(files)
      BY <1>1, <1>5
    <2>2. j \notin Bad
      <3> HIDE DEF Bad
      <3> QED
        BY <1>3, <1>5, <2>1
    <2> QED
      BY <2>1, <2>2
  <1>7. \E f : OffsetIn(files, m + 1, f)
    BY <1>5, <1>6, OffsetExtend
  <1> QED
    BY <1>7

\* Offset obeys its definition if some function does.
LEMMA OffsetChoose ==
    ASSUME NEW files, \E f : f = OffsetStep(files, f)
    PROVE  Offset(files) = OffsetStep(files, Offset(files))
  <1>1. Offset(files) = CHOOSE f : f = OffsetStep(files, f)
    BY DEF Offset, OffsetStep, Room
  <1> QED
    BY <1>1

\* Offset is what its definition says.
LEMMA OffsetDef ==
    ASSUME NEW files \in Seq(Entries)
    PROVE  OffsetIn(files, Len(files) + 1, Offset(files))
  <1>1. PICK N \in Nat : N = Len(files)
    BY LenProperties
  <1>2. PICK f : OffsetIn(files, N + 1, f)
    BY <1>1, OffsetExists
  <1>3. f = OffsetStep(files, f)
    <2>1. /\ f = [i \in 1 .. (N + 1) |-> f[i]] /\ f[1] = 0
          /\ \A i \in 2 .. (N + 1) : f[i] = f[i - 1] + Room(files[i - 1].size)
      BY <1>2 DEF OffsetIn
    <2>2. \A i \in 1 .. (N + 1) : i = 1 \/ i \in 2 .. (N + 1)
      BY <1>1
    <2>3. \A i \in 1 .. (N + 1) : f[i] = OffsetStep(files, f)[i]
      BY <1>1, <2>1, <2>2 DEF OffsetStep
    <2>4. OffsetStep(files, f) = [i \in 1 .. (N + 1) |-> OffsetStep(files, f)[i]]
      BY <1>1 DEF OffsetStep
    <2> QED
      BY <2>1, <2>3, <2>4, Zenon
  <1>4. PICK v : v = Offset(files) /\ v = OffsetStep(files, v)
    BY <1>3, OffsetChoose
  <1>5. /\ v = [i \in 1 .. (N + 1) |-> v[i]] /\ v[1] = 0
        /\ \A i \in 2 .. (N + 1) : v[i] = v[i - 1] + Room(files[i - 1].size)
    <2>1. /\ \A i \in 1 .. (N + 1) :
               v[i] = IF i = 1 THEN 0 ELSE v[i - 1] + Room(files[i - 1].size)
          /\ v = [i \in 1 .. (N + 1) |-> v[i]]
      BY <1>1, <1>4 DEF OffsetStep
    <2>2. \A i \in 2 .. (N + 1) : i # 1 /\ i \in 1 .. (N + 1)
      BY <1>1
    <2>3. 1 \in 1 .. (N + 1)
      BY <1>1
    <2> QED
      BY <2>1, <2>2, <2>3
  <1> DEFINE Bad == {i \in Nat : i <= N /\ v[i + 1] \notin Places}
  <1>6. Bad = {}
    <2> SUFFICES ASSUME Bad # {} PROVE FALSE
      OBVIOUS
    <2>1. PICK m \in Bad : \A i \in Bad : m <= i
      BY LeastNatural
    <2>2. m # 0
      <3>1. 0 + 1 = 1 /\ v[1] \in Places
        BY <1>5, PlaceFacts
      <3> QED
        BY <3>1
    <2>3. m \in Nat /\ m <= N
      OBVIOUS
    <2>4. v[m] \in Places
      <3>1. PICK j \in Nat : j + 1 = m /\ j <= N
        BY <2>2, <2>3
      <3>2. j \notin Bad
        <4> HIDE DEF Bad
        <4> QED
          BY <2>1, <2>3, <3>1
      <3> QED
        BY <3>1, <3>2
    <2> HIDE DEF Bad
    <2>5. m \in 1 .. N /\ m + 1 \in 2 .. (N + 1) /\ (m + 1) - 1 = m
      BY <2>2, <2>3
    <2>6. v[m + 1] = v[m] + Room(files[m].size)
      BY <1>5, <2>5
    <2>7. Room(files[m].size) \in Places
      BY <1>1, <2>5, FileRoom
    <2>8. v[m + 1] \in Places
      BY <2>4, <2>6, <2>7, PlaceFacts
    <2> QED
      BY <2>8 DEF Bad
  <1>7. ASSUME NEW i \in 1 .. (N + 1) PROVE v[i] \in Places
    <2>1. PICK j \in Nat : j + 1 = i /\ j <= N
      OBVIOUS
    <2>2. j \notin Bad
      BY <1>6
    <2> QED
      BY <2>1, <2>2
  <1> HIDE DEF Bad
  <1>8. v \in [1 .. (N + 1) -> Places]
    BY <1>5, <1>7
  <1> QED
    BY <1>1, <1>4, <1>5, <1>8 DEF OffsetIn

\* A file is behind those before it.
LEMMA OffsetGrows ==
    ASSUME NEW files \in Seq(Entries), NEW m \in 1 .. (Len(files) + 1),
           NEW n \in 1 .. (Len(files) + 1), m <= n
    PROVE  Offset(files)[m] <= Offset(files)[n]
  <1>1. PICK N \in Nat : N = Len(files)
    BY LenProperties
  <1>2. PICK v : v = Offset(files) /\ OffsetIn(files, N + 1, v)
    BY <1>1, OffsetDef
  <1>3. \A i \in 1 .. (N + 1) : v[i] \in Nat
    BY <1>1, <1>2, PlaceFacts DEF OffsetIn
  <1> DEFINE Bad == {i \in Nat : i <= N + 1 /\ m <= i /\ v[m] > v[i]}
  <1>4. Bad = {}
    <2> SUFFICES ASSUME Bad # {} PROVE FALSE
      OBVIOUS
    <2>1. PICK i \in Bad : \A j \in Bad : i <= j
      BY LeastNatural
    <2>2. i # m
      BY <1>1, <1>3
    <2>3. i \in 2 .. (N + 1) /\ i - 1 \in 1 .. N /\ m <= i - 1 /\ i - 1 \notin Bad
      BY <1>1, <2>1, <2>2
    <2>4. v[m] <= v[i - 1]
      <3>1. v[m] \in Nat /\ v[i - 1] \in Nat
        BY <1>1, <1>3, <2>3
      <3>2. ~(v[m] > v[i - 1])
        BY <1>1, <2>3
      <3> QED
        BY <3>1, <3>2
    <2>5. v[i] = v[i - 1] + Room(files[i - 1].size)
      BY <1>2, <2>3 DEF OffsetIn
    <2>6. Room(files[i - 1].size) \in Nat
      BY <1>1, <2>3, FileRoom, PlaceFacts
    <2>7. v[m] \in Nat /\ v[i - 1] \in Nat /\ v[i] \in Nat
      BY <1>1, <1>3, <2>3
    <2> QED
      BY <2>4, <2>5, <2>6, <2>7
  <1>5. ~(v[m] > v[n])
    BY <1>1, <1>4
  <1> QED
    BY <1>1, <1>2, <1>3, <1>5

\* Where a file starts and how much further the next one does.
LEMMA OffsetFacts ==
    ASSUME NEW files \in Seq(Entries)
    PROVE  /\ Offset(files)[1] = 0
           /\ \A n \in 1 .. (Len(files) + 1) : Offset(files)[n] \in Places
           /\ \A n \in 1 .. Len(files) :
                 Offset(files)[n + 1] = Offset(files)[n] + Room(files[n].size)
  <1>1. PICK N \in Nat : N = Len(files)
    BY LenProperties
  <1>2. PICK v : v = Offset(files) /\ OffsetIn(files, N + 1, v)
    BY <1>1, OffsetDef
  <1>3. ASSUME NEW n \in 1 .. N PROVE v[n + 1] = v[n] + Room(files[n].size)
    <2>1. n + 1 \in 2 .. (N + 1) /\ (n + 1) - 1 = n
      OBVIOUS
    <2> QED
      BY <1>2, <2>1 DEF OffsetIn
  <1> QED
    BY <1>1, <1>2, <1>3 DEF OffsetIn

-----------------------------------------------------------------------------
(* ls and cat.                                                             *)

\* What the readers return of a file.
Files == [name : STRING, data : Nat, size : Nat]

\* A file that ls lists.
Good(n) == Whole(n) /\ archive.files[n].name \in Names

\* ls has listed the files before the one it is at.
Listing ==
    walk = "ls" =>
        /\ found \in Seq(Files)
        /\ Len(found) <= Len(archive.files) /\ Len(found) <= LsLimit
        /\ ptr = Offset(archive.files)[Len(found) + 1]
        /\ \A n \in 1 .. Len(found) : Good(n) /\ found[n] = Entry(n)

\* A file that cat looks for.
Hit(n) == Whole(n) /\ archive.files[n].name = wanted

\* cat is at a file and has passed none that it looks for.
Seeking ==
    walk = "cat" =>
        \E m \in 1 .. (Len(archive.files) + 1) :
            /\ ptr = Offset(archive.files)[m]
            /\ \A n \in 1 .. (m - 1) : ~Hit(n)

\* The inductive invariant of the two readers.
USTarInv == USTarTypeOK /\ Listing /\ Seeking /\ LsListsFiles /\ CatReadsFirst

\* What the assumption on archives says of the one in use.
LEMMA ArchiveFacts ==
    ASSUME archive \in Archives
    PROVE  /\ archive.files \in Seq(Entries) /\ Len(archive.files) \in Nat
           /\ archive.len \in Nat /\ Len(archive.blocks) \in Nat
           /\ archive.len <= 512 * Len(archive.blocks)
           /\ \A n \in 1 .. (Len(archive.files) + 1) : Offset(archive.files)[n] \in Places
  <1>1. PICK F \in Seq(Entries) : F = archive.files
    BY USTarAssumption DEF IsStored, Entries
  <1>2. Len(F) \in Nat /\ \A n \in 1 .. (Len(F) + 1) : Offset(F)[n] \in Places
    BY LenProperties, OffsetFacts
  <1>3. /\ archive.len \in 0 .. (Len(archive.blocks) * 512)
        /\ archive.blocks \in Seq([ustar : BOOLEAN, name : STRING, size : Nat])
    BY USTarAssumption DEF IsStored, BLOCK_SIZE
  <1>4. PICK B \in Nat : B = Len(archive.blocks)
    BY <1>3, LenProperties
  <1>5. archive.len \in Nat /\ archive.len <= 512 * B
    BY <1>3, <1>4
  <1> QED
    BY <1>1, <1>2, <1>4, <1>5

\* What the entry of a file is, as the readers compute it.
LEMMA EntryFacts ==
    ASSUME archive \in Archives, NEW n \in 1 .. Len(archive.files)
    PROVE  /\ archive.files[n].size \in Nat
           /\ Offset(archive.files)[n] \in Nat
           /\ Entry(n) \in Files
           /\ Whole(n) <=> Offset(archive.files)[n] + 512 + archive.files[n].size <= archive.len
  <1>1. PICK F \in Seq(Entries) : F = archive.files /\ Len(F) \in Nat
    BY ArchiveFacts
  <1>2. F[n].size \in Nat /\ F[n].name \in STRING
    BY <1>1, FileRoom
  <1>3. PICK o \in Nat : o = Offset(F)[n]
    <2>1. n \in 1 .. (Len(F) + 1)
      BY <1>1
    <2>2. Offset(F)[n] \in Places
      BY <2>1, OffsetFacts
    <2> QED
      BY <2>2, PlaceFacts
  <1>4. Entry(n) = [name |-> F[n].name, data |-> o + 512, size |-> F[n].size]
    BY <1>1, <1>3 DEF Entry, BLOCK_SIZE
  <1>5. Entry(n) \in Files
    BY <1>2, <1>4 DEF Files
  <1>6. Whole(n) <=> o + 512 + F[n].size <= archive.len
    BY <1>4 DEF Whole
  <1> QED
    BY <1>1, <1>2, <1>3, <1>5, <1>6

\* A reader that is at a header is at the header of a file.
LEMMA AtFile ==
    ASSUME archive \in Archives, NEW m \in 1 .. (Len(archive.files) + 1),
           ptr = Offset(archive.files)[m], AtHeader
    PROVE  /\ m \in 1 .. Len(archive.files)
           /\ header.name = archive.files[m].name /\ header.size = archive.files[m].size
           /\ this_file = Entry(m) /\ (data_end <= data_len <=> Whole(m))
           /\ next_ptr = Offset(archive.files)[m + 1]
  <1>1. ptr + BLOCK_SIZE <= archive.len /\ BlockAt(archive, ptr).ustar
    BY DEF AtHeader, data_len, header, BlockAt
  <1>2. IsPacked(archive)
    BY USTarAssumption
  <1>3. Len(archive.files) \in Nat
    BY ArchiveFacts
  <1>4. m # Len(archive.files) + 1
    BY <1>1, <1>2 DEF IsPacked
  <1>5. m \in 1 .. Len(archive.files)
    BY <1>3, <1>4
  <1>6. header.name = archive.files[m].name /\ header.size = archive.files[m].size
    BY <1>1, <1>2, <1>5 DEF IsPacked, header, BlockAt
  <1>7. this_file = Entry(m)
    BY <1>6 DEF this_file, Entry, data_start
  <1>8. PICK s \in Nat, o \in Nat : s = archive.files[m].size /\ o = ptr
    BY <1>5, EntryFacts
  <1>9. (data_end <= data_len <=> Whole(m))
    <2>1. Whole(m) <=> o + 512 + s <= archive.len
      BY <1>5, <1>8, EntryFacts
    <2>2. data_end = o + 512 + s
      BY <1>6, <1>8 DEF data_end, data_start, BLOCK_SIZE
    <2> QED
      BY <2>1, <2>2 DEF data_len
  <1>10. next_ptr = Offset(archive.files)[m + 1]
    <2>1. Offset(archive.files)[m + 1] = o + Room(s)
      BY <1>5, <1>8, ArchiveFacts, OffsetFacts
    <2>2. next_ptr = o + ((s + 512 - 1) \div 512 + 1) * 512
      BY <1>6, <1>8 DEF next_ptr, blocks_needed, BLOCK_SIZE
    <2>3. Room(s) = 512 * (1 + (s + 512 - 1) \div 512)
      BY DEF Room, BLOCK_SIZE
    <2>4. PICK k \in Nat : k = (s + 512 - 1) \div 512
      OBVIOUS
    <2>5. (k + 1) * 512 = 512 * (1 + k)
      OBVIOUS
    <2> QED
      BY <2>1, <2>2, <2>3, <2>4, <2>5
  <1> QED
    BY <1>5, <1>6, <1>7, <1>9, <1>10

\* A file that is there has its header there, and so have those before it.
LEMMA NotAtFile ==
    ASSUME archive \in Archives, NEW m \in 1 .. Len(archive.files),
           ptr = Offset(archive.files)[m], ~AtHeader,
           NEW n \in 1 .. Len(archive.files), m <= n
    PROVE  ~Whole(n)
  <1>1. ~(ptr + BLOCK_SIZE <= archive.len)
    <2> SUFFICES ASSUME ptr + BLOCK_SIZE <= archive.len PROVE BlockAt(archive, ptr).ustar
      BY DEF AtHeader, data_len, header, BlockAt
    <2> QED
      BY USTarAssumption DEF IsPacked
  <1>2. PICK o \in Nat, p \in Nat, s \in Nat : /\ o = ptr /\ p = Offset(archive.files)[n]
                                             /\ s = archive.files[n].size
    BY EntryFacts
  <1>3. o <= p
    <2>1. archive.files \in Seq(Entries) /\ Len(archive.files) \in Nat
      BY ArchiveFacts
    <2>2. m \in 1 .. (Len(archive.files) + 1) /\ n \in 1 .. (Len(archive.files) + 1)
      BY <2>1
    <2> QED
      BY <1>2, <2>1, <2>2, OffsetGrows
  <1>4. Whole(n) <=> p + 512 + s <= archive.len
    BY <1>2, EntryFacts
  <1>5. PICK len \in Nat : len = archive.len
    BY ArchiveFacts
  <1>6. ~(o + 512 <= len)
    BY <1>1, <1>2, <1>5 DEF BLOCK_SIZE
  <1>7. ~(p + 512 + s <= len)
    BY <1>3, <1>6
  <1> QED
    BY <1>4, <1>5, <1>7

\* The bound of RoomFacts, with a name for the room.
LEMMA RoomBound ==
    ASSUME NEW s \in Nat
    PROVE  \E r \in Nat : r = Room(s) /\ r < 1024 + s
  BY RoomFacts

\* The data of a file ends before the next header.
LEMMA BehindFile ==
    ASSUME archive \in Archives, NEW m \in 1 .. Len(archive.files)
    PROVE  /\ Whole(m) => Offset(archive.files)[m + 1] < archive.len + 512
           /\ Offset(archive.files)[m + 1] > archive.len =>
                 \A n \in (m + 1) .. Len(archive.files) : ~Whole(n)
  <1>1. PICK o \in Nat, s \in Nat, len \in Nat :
            /\ o = Offset(archive.files)[m] /\ s = archive.files[m].size
            /\ len = archive.len
    BY EntryFacts, ArchiveFacts
  <1>2. Offset(archive.files)[m + 1] = o + Room(s)
    BY <1>1, ArchiveFacts, OffsetFacts
  <1>3. PICK r \in Nat : r = Room(s) /\ r < 1024 + s
    BY RoomBound
  <1>4. Whole(m) => Offset(archive.files)[m + 1] < archive.len + 512
    <2>1. Whole(m) <=> o + 512 + s <= len
      BY <1>1, EntryFacts
    <2>2. o + 512 + s <= len => o + r < len + 512
      BY <1>3
    <2> QED
      BY <1>1, <1>2, <1>3, <2>1, <2>2
  <1>5. ASSUME Offset(archive.files)[m + 1] > archive.len,
               NEW n \in (m + 1) .. Len(archive.files)
        PROVE  ~Whole(n)
    <2>1. archive.files \in Seq(Entries) /\ Len(archive.files) \in Nat
      BY ArchiveFacts
    <2>2. /\ n \in 1 .. Len(archive.files) /\ m + 1 \in 1 .. (Len(archive.files) + 1)
          /\ n \in 1 .. (Len(archive.files) + 1) /\ m + 1 <= n
      BY <2>1
    <2>3. Offset(archive.files)[m + 1] <= Offset(archive.files)[n]
      BY <2>1, <2>2, OffsetGrows
    <2>4. PICK p \in Nat, z \in Nat : p = Offset(archive.files)[n] /\ z = archive.files[n].size
      BY <2>2, EntryFacts
    <2>5. Whole(n) <=> p + 512 + z <= len
      BY <1>1, <2>2, <2>4, EntryFacts
    <2>6. o + r > len /\ o + r <= p
      BY <1>1, <1>2, <1>3, <1>5, <2>3, <2>4
    <2>7. ~(p + 512 + z <= len)
      BY <2>6
    <2> QED
      BY <2>5, <2>7
  <1> QED
    BY <1>4, <1>5

\* A place in the archive is one for ptr.
LEMMA PtrType ==
    ASSUME archive \in Archives, NEW o \in Places, o < archive.len + 512
    PROVE  o \in {k * BLOCK_SIZE : k \in 0 .. Len(archive.blocks)}
  <1>1. PICK k \in Nat : o = 512 * k
    BY DEF Places, BLOCK_SIZE
  <1>2. PICK B \in Nat, len \in Nat :
            B = Len(archive.blocks) /\ len = archive.len /\ len <= 512 * B
    BY ArchiveFacts
  <1>3. 512 * k < 512 * B + 512
    BY <1>1, <1>2
  <1>4. k \in 0 .. Len(archive.blocks) /\ o = k * BLOCK_SIZE
    BY <1>1, <1>2, <1>3 DEF BLOCK_SIZE
  <1> QED
    BY <1>4

\* The first place is one for ptr.
LEMMA PtrZero ==
    ASSUME archive \in Archives
    PROVE  0 \in {k * BLOCK_SIZE : k \in 0 .. Len(archive.blocks)}
  <1>1. PICK len \in Nat : len = archive.len
    BY ArchiveFacts
  <1>2. 0 < len + 512
    OBVIOUS
  <1> QED
    BY <1>1, <1>2, PlaceFacts, PtrType

\* No walk is under way at the start.
LEMMA InitUSTar == USTarInit => USTarInv
  <1> SUFFICES ASSUME USTarInit PROVE USTarInv
    OBVIOUS
  <1>1. archive \in Archives /\ walk = "none" /\ ptr = 0 /\ wanted = ""
    BY DEF USTarInit
  <1>2. 0 \in {k * BLOCK_SIZE : k \in 0 .. Len(archive.blocks)}
    BY <1>1, PtrZero
  <1> QED
    BY <1>1, <1>2 DEF USTarInv, USTarTypeOK, Listing, Seeking, LsListsFiles, CatReadsFirst

\* The type invariant of USTar with a name for the set of `wanted'.
Wants == Names \cup {""}

\* ... its conjuncts ...
TypeParts ==
    /\ archive \in Archives
    /\ walk \in {"none", "ls", "cat", "listed", "read"}
    /\ ptr \in {k * BLOCK_SIZE : k \in 0 .. Len(archive.blocks)}
    /\ wanted \in Wants

\* ... and that they are the same.
LEMMA TypePartsAre == USTarTypeOK <=> TypeParts
  BY DEF USTarTypeOK, TypeParts, Wants

\* The start or the end of a walk.
Turns ==
    /\ ptr' = 0 /\ found' = <<>> /\ archive' = archive
    /\ wanted' \in Wants /\ walk' \in {"ls", "cat", "none"}

\* ls and cat start a walk, their ends drop the reader.
LEMMA WalkTurns ==
    ASSUME \/ StartWalk("ls", "")
           \/ \E name \in Names : StartWalk("cat", name)
           \/ EndWalk
    PROVE  Turns
  BY DEF StartWalk, EndWalk, Turns, Wants

\* The start and the end of a walk keep the invariant,
LEMMA TurnsWalk ==
    ASSUME USTarInv, Turns
    PROVE  USTarInv'
  <1>1. /\ archive \in Archives /\ archive' = archive /\ ptr' = 0 /\ found' = <<>>
        /\ wanted' \in Wants /\ walk' \in {"ls", "cat", "none"}
    BY TypePartsAre DEF Turns, USTarInv, TypeParts
  <1>2. PICK F \in Seq(Entries) : F = archive.files /\ Len(F) \in Nat
    BY <1>1, ArchiveFacts
  <1>3. Offset(F)[1] = 0
    BY OffsetFacts
  <1>4. 0 \in {k * BLOCK_SIZE : k \in 0 .. Len(archive.blocks)}
    BY <1>1, PtrZero
  <1>5. USTarTypeOK'
    <2>1. TypeParts'
      BY <1>1, <1>4 DEF TypeParts
    <2> QED
      BY <2>1 DEF USTarTypeOK, TypeParts, Wants
  <1>6. Listing'
    <2>1. found' \in Seq(Files) /\ Len(found') = 0
      BY <1>1, EmptySeq
    <2>2. Len(found') <= Len(F) /\ Len(found') <= LsLimit /\ Len(found') + 1 = 1
      <3>1. 0 <= Len(F) /\ 0 <= LsLimit /\ 0 + 1 = 1
        BY <1>2, USTarAssumption
      <3> QED
        BY <2>1, <3>1
    <2>3. \A n \in 1 .. Len(found') : FALSE
      <3>1. \A n \in 1 .. 0 : FALSE
        OBVIOUS
      <3> QED
        BY <2>1, <3>1
    <2> QED
      BY <1>1, <1>2, <1>3, <2>1, <2>2, <2>3 DEF Listing
  <1>7. Seeking'
    <2>1. 1 \in 1 .. (Len(F) + 1)
      BY <1>2
    <2>2. \A n \in 1 .. (1 - 1) : FALSE
      OBVIOUS
    <2> QED
      BY <1>1, <1>2, <1>3, <2>1, <2>2 DEF Seeking
  <1>8. LsListsFiles' /\ CatReadsFirst'
    BY <1>1 DEF LsListsFiles, CatReadsFirst
  <1> QED
    BY <1>5, <1>6, <1>7, <1>8 DEF USTarInv

\* and so does a step that has nothing to do with it.
LEMMA StaysWalk ==
    ASSUME USTarInv, UNCHANGED ustar_vars
    PROVE  USTarInv'
  BY DEF USTarInv, ustar_vars, USTarTypeOK, Listing, Seeking, LsListsFiles, CatReadsFirst,
         Good, Hit, Whole, Entry

\* Listing a file.
LEMMA ListsFile ==
    ASSUME USTarInv, walk = "ls", Listable
    PROVE  /\ Len(found) + 1 \in 1 .. Len(archive.files)
           /\ Good(Len(found) + 1) /\ this_file = Entry(Len(found) + 1)
           /\ next_ptr = Offset(archive.files)[Len(found) + 2]
           /\ Append(found, this_file) \in Seq(Files)
           /\ Len(Append(found, this_file)) = Len(found) + 1 /\ Len(found) \in Nat
           /\ \A n \in 1 .. (Len(found) + 1) :
                 Good(n) /\ Append(found, this_file)[n] = Entry(n)
  <1>1. /\ archive \in Archives /\ found \in Seq(Files)
        /\ Len(found) <= Len(archive.files)
        /\ ptr = Offset(archive.files)[Len(found) + 1]
        /\ \A n \in 1 .. Len(found) : Good(n) /\ found[n] = Entry(n)
    BY DEF USTarInv, USTarTypeOK, Listing
  <1>2. PICK m \in Nat : m = Len(found) + 1 /\ m = m /\ Len(found) \in Nat
    BY <1>1, LenProperties
  <1>3. m \in 1 .. (Len(archive.files) + 1)
    BY <1>1, <1>2, ArchiveFacts
  <1>4. /\ m \in 1 .. Len(archive.files)
        /\ header.name = archive.files[m].name
        /\ this_file = Entry(m) /\ (data_end <= data_len <=> Whole(m))
        /\ next_ptr = Offset(archive.files)[m + 1]
    BY <1>1, <1>2, <1>3, AtFile DEF Listable
  <1>5. Good(m)
    BY <1>4 DEF Good, Listable
  <1>6. Entry(m) \in Files
    BY <1>1, <1>4, EntryFacts
  <1>7. m + 1 = Len(found) + 2
    BY <1>2
  <1>8. /\ Append(found, this_file) \in Seq(Files)
        /\ Len(Append(found, this_file)) = Len(found) + 1
        /\ \A n \in 1 .. Len(found) : Append(found, this_file)[n] = found[n]
        /\ Append(found, this_file)[Len(found) + 1] = this_file
    BY <1>1, <1>4, <1>6, AppendProperties
  <1>9. ASSUME NEW n \in 1 .. (Len(found) + 1)
        PROVE  Good(n) /\ Append(found, this_file)[n] = Entry(n)
    <2>1. n \in 1 .. Len(found) \/ n = m
      BY <1>2
    <2> QED
      BY <1>1, <1>2, <1>4, <1>5, <1>8, <2>1
  <1> QED
    BY <1>2, <1>4, <1>5, <1>7, <1>8, <1>9

\* The parts of the invariant that other readers than the one at work keep.
LEMMA GoodStays ==
    ASSUME archive' = archive, NEW n
    PROVE  Good(n)' = Good(n) /\ Whole(n)' = Whole(n) /\ Entry(n)' = Entry(n)
  BY DEF Good, Whole, Entry

\* ls takes a file and goes on to the next header.
LEMMA StepListFile ==
    ASSUME USTarInv, ListFile
    PROVE  USTarInv'
  <1>1. /\ walk = "ls" /\ Listable /\ Len(found) + 1 <= LsLimit /\ ptr' = next_ptr
        /\ found' = Append(found, this_file) /\ UNCHANGED <<archive, walk, wanted>>
    BY DEF ListFile
  <1>2. archive \in Archives /\ wanted \in Wants
    BY TypePartsAre DEF USTarInv, TypeParts
  <1>3. PICK m \in Nat : m = Len(found) + 1
    BY <1>1, ListsFile
  <1>4. /\ m \in 1 .. Len(archive.files) /\ Good(m)
        /\ next_ptr = Offset(archive.files)[m + 1]
        /\ found' \in Seq(Files) /\ Len(found') = m
        /\ \A n \in 1 .. m : Good(n) /\ found'[n] = Entry(n)
    <2>1. Len(found) + 2 = m + 1
      BY <1>1, <1>3, ListsFile
    <2> QED
      BY <1>1, <1>3, <2>1, ListsFile
  <1>5. USTarTypeOK'
    <2>1. Offset(archive.files)[m + 1] < archive.len + 512
      BY <1>2, <1>4, BehindFile DEF Good
    <2>2. Offset(archive.files)[m + 1] \in Places
      <3>1. m + 1 \in 1 .. (Len(archive.files) + 1)
        BY <1>2, <1>4, ArchiveFacts
      <3> QED
        BY <1>2, <3>1, ArchiveFacts
    <2>3. ptr' \in {k * BLOCK_SIZE : k \in 0 .. Len(archive.blocks)}
      BY <1>1, <1>2, <1>4, <2>1, <2>2, PtrType
    <2>4. TypeParts'
      BY <1>1, <1>2, <2>3 DEF TypeParts
    <2> QED
      BY <2>4 DEF USTarTypeOK, TypeParts, Wants
  <1>6. Listing'
    <2>1. Len(found') <= Len(archive.files) /\ Len(found') <= LsLimit
      <3>1. Len(archive.files) \in Nat
        BY <1>2, ArchiveFacts
      <3>2. m <= Len(archive.files) /\ m <= LsLimit
        BY <1>1, <1>3, <1>4, <3>1
      <3> QED
        BY <1>4, <3>2
    <2>2. \A n \in 1 .. Len(found') : Good(n)' /\ found'[n] = Entry(n)'
      BY <1>1, <1>4, GoodStays
    <2> QED
      BY <1>1, <1>4, <2>1, <2>2 DEF Listing
  <1>7. Seeking' /\ LsListsFiles' /\ CatReadsFirst'
    BY <1>1 DEF Seeking, LsListsFiles, CatReadsFirst
  <1> QED
    BY <1>5, <1>6, <1>7 DEF USTarInv

\* The end of a walk: what the readers promise is all that is left to show.
LEMMA StopsWalk ==
    ASSUME USTarInv, NEW done \in {"listed", "read"}, NEW files, StopWalk(done, files),
           LsListsFiles', CatReadsFirst'
    PROVE  USTarInv'
  BY DEF USTarInv, StopWalk, USTarTypeOK, Listing, Seeking

\* ls stops with the file that exceeds the limit.
LEMMA StepListLast ==
    ASSUME USTarInv, ListLast
    PROVE  USTarInv'
  <1>1. /\ walk = "ls" /\ Listable /\ Len(found) + 1 > LsLimit
        /\ StopWalk("listed", Append(found, this_file))
    BY DEF ListLast
  <1>2. /\ archive' = archive /\ walk' = "listed" /\ found' = Append(found, this_file)
        /\ archive \in Archives /\ LsLimit \in Nat
    BY <1>1, USTarAssumption DEF StopWalk, USTarInv, USTarTypeOK
  <1>3. PICK m \in Nat : m = Len(found) + 1
    BY <1>1, ListsFile
  <1>4. /\ Len(found') = m /\ m > LsLimit
        /\ \A n \in 1 .. m : Good(n) /\ found'[n] = Entry(n)
    BY <1>1, <1>2, <1>3, ListsFile
  <1>5. ASSUME NEW n \in 1 .. Len(found')
        PROVE  (\A k \in 1 .. n : Good(k)') /\ found'[n] = Entry(n)'
    <2>1. \A k \in 1 .. n : k \in 1 .. m
      BY <1>4
    <2> QED
      BY <1>2, <1>4, <2>1, GoodStays
  <1>6. \A n \in (Len(found') + 1) .. Len(archive'.files) : n > LsLimit + 1
    BY <1>2, <1>4, ArchiveFacts
  <1>7. LsListsFiles'
    BY <1>5, <1>6 DEF LsListsFiles, Good
  <1>8. CatReadsFirst'
    BY <1>2 DEF CatReadsFirst
  <1> QED
    BY <1>1, <1>7, <1>8, StopsWalk

\* ls stops where the iterator ends: no later file is listable.
LEMMA StepListEnd ==
    ASSUME USTarInv, ListEnd
    PROVE  USTarInv'
  <1>1. walk = "ls" /\ ~Listable /\ StopWalk("listed", found)
    BY DEF ListEnd
  <1>2. /\ archive' = archive /\ walk' = "listed" /\ found' = found
        /\ archive \in Archives
    BY <1>1 DEF StopWalk, USTarInv, USTarTypeOK
  <1>3. /\ found \in Seq(Files) /\ Len(found) <= Len(archive.files)
        /\ ptr = Offset(archive.files)[Len(found) + 1]
        /\ \A n \in 1 .. Len(found) : Good(n) /\ found[n] = Entry(n)
    BY <1>1 DEF USTarInv, Listing
  <1>4. PICK m \in Nat : m = Len(found) + 1 /\ Len(found) \in Nat
    BY <1>3, LenProperties
  <1>5. PICK N \in Nat : N = Len(archive.files)
    BY <1>2, ArchiveFacts
  <1>6. m \in 1 .. N => ~Good(m)
    <2> SUFFICES ASSUME m \in 1 .. Len(archive.files), Good(m) PROVE FALSE
      BY <1>5
    <2>1. AtHeader
      BY <1>2, <1>3, <1>4, NotAtFile DEF Good
    <2>2. m \in 1 .. (Len(archive.files) + 1)
      BY <1>5
    <2>3. header.name = archive.files[m].name /\ data_end <= data_len
      BY <1>2, <1>3, <1>4, <2>1, <2>2, AtFile DEF Good
    <2> QED
      BY <1>1, <2>1, <2>3 DEF Listable, Good
  <1>7. ASSUME NEW n \in 1 .. Len(found')
        PROVE  (\A k \in 1 .. n : Good(k)') /\ found'[n] = Entry(n)'
    <2>1. n \in 1 .. Len(found) /\ \A k \in 1 .. n : k \in 1 .. Len(found)
      BY <1>2, <1>4
    <2> QED
      BY <1>2, <1>3, <2>1, GoodStays
  <1>8. ASSUME NEW n \in (Len(found') + 1) .. Len(archive'.files)
        PROVE  ~(\A k \in 1 .. n : Good(k)')
    <2>1. m \in 1 .. n /\ m \in 1 .. N
      BY <1>2, <1>4, <1>5
    <2> QED
      BY <1>2, <1>6, <2>1, GoodStays
  <1>9. LsListsFiles'
    BY <1>7, <1>8 DEF LsListsFiles, Good
  <1>10. CatReadsFirst'
    BY <1>2 DEF CatReadsFirst
  <1> QED
    BY <1>1, <1>9, <1>10, StopsWalk

-----------------------------------------------------------------------------
(* cat, and the theorems.                                                  *)

\* The file that cat is at.
AtPlace(m) ==
    /\ m \in 1 .. (Len(archive.files) + 1)
    /\ ptr = Offset(archive.files)[m]
    /\ \A n \in 1 .. (m - 1) : ~Hit(n)

\* cat is at such a file.
LEMMA PlaceOf ==
    ASSUME USTarInv, walk = "cat"
    PROVE  \E m : AtPlace(m)
  BY DEF USTarInv, Seeking, AtPlace

\* A file with the right header is the one looked for.
LEMMA MatchIsHit ==
    ASSUME archive \in Archives, NEW m, AtPlace(m), AtHeader
    PROVE  Matches <=> Hit(m)
  <1>1. header.name = archive.files[m].name /\ (data_end <= data_len <=> Whole(m))
    BY AtFile DEF AtPlace
  <1> QED
    BY <1>1 DEF Matches, Hit

\* cat returns the file it is at: none before it is a hit.
LEMMA StepReadFound ==
    ASSUME USTarInv, ReadFound
    PROVE  USTarInv'
  <1>1. walk = "cat" /\ Matches /\ AtHeader /\ StopWalk("read", <<this_file>>)
    BY DEF ReadFound, Matches
  <1>2. /\ archive' = archive /\ walk' = "read" /\ wanted' = wanted /\ found' = <<this_file>>
        /\ archive \in Archives
    BY <1>1 DEF StopWalk, USTarInv, USTarTypeOK
  <1>3. PICK m : AtPlace(m)
    BY <1>1, PlaceOf
  <1>4. m \in 1 .. Len(archive.files) /\ this_file = Entry(m) /\ Hit(m)
    BY <1>1, <1>2, <1>3, AtFile, MatchIsHit DEF AtPlace
  <1>5. \A n \in 1 .. (m - 1) : ~Hit(n)
    BY <1>3 DEF AtPlace
  <1>6. DOMAIN archive.files = 1 .. Len(archive.files) /\ Len(archive.files) \in Nat
    BY <1>2, ArchiveFacts, LenProperties
  <1>7. \A k \in 1 .. Len(archive.files) : Hit(k) => m <= k
    <2> SUFFICES ASSUME NEW k \in 1 .. Len(archive.files), k < m PROVE ~Hit(k)
      BY <1>4, <1>6
    <2>1. k \in 1 .. (m - 1)
      BY <1>4, <1>6
    <2> QED
      BY <1>5, <2>1
  <1>8. CatReadsFirst'
    <2> DEFINE hits == {n \in DOMAIN archive.files :
                           Whole(n) /\ archive.files[n].name = wanted}
    <2>1. m \in hits /\ \A k \in hits : m <= k
      BY <1>4, <1>6, <1>7 DEF Hit
    <2>2. found' = <<Entry(m)>>
      BY <1>2, <1>4
    <2>3. \A n : Whole(n)' = Whole(n) /\ Entry(n)' = Entry(n)
      BY <1>2, GoodStays
    <2>4. hits' = hits
      BY <1>2, <2>3
    <2> QED
      BY <2>1, <2>2, <2>3, <2>4 DEF CatReadsFirst
  <1>9. LsListsFiles'
    BY <1>2 DEF LsListsFiles
  <1> QED
    BY <1>1, <1>8, <1>9, StopsWalk

\* cat goes on to the next header.
LEMMA StepReadNext ==
    ASSUME USTarInv, ReadNext
    PROVE  USTarInv'
  <1>1. /\ walk = "cat" /\ AtHeader /\ ~Matches /\ next_ptr <= data_len /\ ptr' = next_ptr
        /\ UNCHANGED <<archive, walk, wanted, found>>
    BY DEF ReadNext
  <1>2. archive \in Archives /\ wanted \in Wants
    BY TypePartsAre DEF USTarInv, TypeParts
  <1>3. PICK m : AtPlace(m)
    BY <1>1, PlaceOf
  <1>4. m \in 1 .. Len(archive.files) /\ next_ptr = Offset(archive.files)[m + 1] /\ ~Hit(m)
    BY <1>1, <1>2, <1>3, AtFile, MatchIsHit DEF AtPlace
  <1>5. PICK N \in Nat : N = Len(archive.files)
    BY <1>2, ArchiveFacts
  <1>6. m \in Nat /\ m + 1 \in 1 .. (N + 1) /\ (m + 1) - 1 = m
    BY <1>4, <1>5
  <1>7. ASSUME NEW n \in 1 .. ((m + 1) - 1) PROVE ~Hit(n)
    <2>1. n \in 1 .. (m - 1) \/ n = m
      BY <1>6
    <2> QED
      BY <1>3, <1>4, <2>1 DEF AtPlace
  <1>8. \A n : Hit(n)' = Hit(n)
    BY <1>1 DEF Hit, Whole, Entry
  <1>9. Seeking'
    BY <1>1, <1>4, <1>5, <1>6, <1>7, <1>8 DEF Seeking
  <1>10. USTarTypeOK'
    <2>1. PICK o \in Places : o = Offset(archive.files)[m + 1]
      BY <1>2, <1>5, <1>6, ArchiveFacts
    <2>2. o < archive.len + 512
      <3>1. PICK len \in Nat : len = archive.len
        BY <1>2, ArchiveFacts
      <3>2. o <= len /\ o \in Nat
        BY <1>1, <1>4, <2>1, <3>1, PlaceFacts DEF data_len
      <3> QED
        BY <3>1, <3>2
    <2>3. ptr' \in {k * BLOCK_SIZE : k \in 0 .. Len(archive.blocks)}
      BY <1>1, <1>2, <1>4, <2>1, <2>2, PtrType
    <2>4. TypeParts'
      BY <1>1, <1>2, <2>3 DEF TypeParts
    <2> QED
      BY <2>4 DEF USTarTypeOK, TypeParts, Wants
  <1>11. Listing' /\ LsListsFiles' /\ CatReadsFirst'
    BY <1>1 DEF Listing, LsListsFiles, CatReadsFirst
  <1> QED
    BY <1>9, <1>10, <1>11 DEF USTarInv

\* cat gives up: no file from here on is whole and has the name.
LEMMA StepReadNone ==
    ASSUME USTarInv, ReadNone
    PROVE  USTarInv'
  <1>1. /\ walk = "cat" /\ StopWalk("read", <<>>)
        /\ ~AtHeader \/ (AtHeader /\ ~Matches /\ next_ptr > data_len)
    BY DEF ReadNone
  <1>2. /\ archive' = archive /\ walk' = "read" /\ wanted' = wanted /\ found' = <<>>
        /\ archive \in Archives
    BY <1>1 DEF StopWalk, USTarInv, USTarTypeOK
  <1>3. PICK m : AtPlace(m)
    BY <1>1, PlaceOf
  <1>4. PICK N \in Nat : N = Len(archive.files)
    BY <1>2, ArchiveFacts
  <1>5. m \in 1 .. (N + 1) /\ \A n \in 1 .. (m - 1) : ~Hit(n)
    BY <1>3, <1>4 DEF AtPlace
  <1>6. ASSUME NEW n \in 1 .. N PROVE ~Hit(n)
    <2>1. CASE n < m
      <3>1. n \in 1 .. (m - 1)
        BY <1>5, <2>1
      <3> QED
        BY <1>5, <3>1
    <2>2. CASE n >= m /\ ~AtHeader
      <3>1. m \in 1 .. N
        BY <1>5, <2>2
      <3>2. ~Whole(n)
        BY <1>2, <1>3, <1>4, <2>2, <3>1, NotAtFile DEF AtPlace
      <3> QED
        BY <3>2 DEF Hit
    <2>3. CASE n = m /\ AtHeader /\ ~Matches
      BY <1>2, <1>3, <2>3, MatchIsHit
    <2>4. CASE n > m /\ AtHeader /\ next_ptr > data_len
      <3>1. m \in 1 .. Len(archive.files) /\ next_ptr = Offset(archive.files)[m + 1]
        BY <1>2, <1>3, <2>4, AtFile DEF AtPlace
      <3>2. n \in (m + 1) .. Len(archive.files)
        BY <1>4, <1>5, <2>4
      <3>3. ~Whole(n)
        BY <1>2, <2>4, <3>1, <3>2, BehindFile DEF data_len
      <3> QED
        BY <3>3 DEF Hit
    <2>5. n < m \/ n = m \/ n > m
      BY <1>5
    <2>6. n >= m <=> n = m \/ n > m
      BY <1>5
    <2> QED
      BY <1>1, <2>1, <2>2, <2>3, <2>4, <2>5, <2>6
  <1>7. CatReadsFirst'
    <2> DEFINE hits == {n \in DOMAIN archive.files :
                           Whole(n) /\ archive.files[n].name = wanted}
    <2>1. DOMAIN archive.files = 1 .. N
      BY <1>2, <1>4, ArchiveFacts, LenProperties
    <2>2. hits = {}
      BY <1>6, <2>1 DEF Hit
    <2>3. \A n : Whole(n)' = Whole(n)
      BY <1>2, GoodStays
    <2>4. hits' = hits
      BY <1>2, <2>3
    <2> QED
      BY <1>2, <2>2, <2>4 DEF CatReadsFirst
  <1>8. LsListsFiles'
    BY <1>2 DEF LsListsFiles
  <1> QED
    BY <1>1, <1>7, <1>8, StopsWalk

\* Every step of the shell keeps the invariant of the readers.
LEMMA NextUSTar ==
    ASSUME USTarInv, [ShellNext]_shell_vars
    PROVE  USTarInv'
  <1>1. CASE UNCHANGED ustar_vars
    BY <1>1, StaysWalk
  <1>2. CASE Turns
    BY <1>2, TurnsWalk
  <1>3. CASE WalkStep
    BY <1>3, StepListFile, StepListLast, StepListEnd, StepReadFound, StepReadNext, StepReadNone
       DEF WalkStep
  <1>4. UNCHANGED ustar_vars \/ Turns \/ WalkStep
    <2>1. CASE WriteOut \/ ShowPrompt \/ Keys \/ Stopped \/ UNCHANGED shell_vars
      BY <2>1 DEF WriteOut, ShowPrompt, Keys, TypeKey, EraseKey, EnterKey, Stopped, shell_vars
    <2>2. CASE NotFound \/ Message \/ Usage \/ smiley \/ clear \/ shutdown \/ panic_
      BY <2>2 DEF NotFound, Message, Usage, smiley, clear, shutdown, panic_
    <2>3. CASE ls \/ cat \/ LsPrints \/ CatPrints
      BY <2>3, WalkTurns DEF ls, cat, LsPrints, CatPrints
    <2>4. CASE Walk
      BY <2>4 DEF Walk
    <2> QED
      BY <2>1, <2>2, <2>3, <2>4 DEF ShellNext, Work
  <1> QED
    BY <1>1, <1>2, <1>3, <1>4

\* The inductive invariant of the shell.
ShellIInv == ScreenInv /\ USTarInv

\* ... holds in every state.
LEMMA ShellInductive == ShellSpec => []ShellIInv
  <1>1. ShellInit => ShellIInv
    BY InitScreen, InitUSTar DEF ShellInit, ShellIInv
  <1>2. ShellIInv /\ [ShellNext]_shell_vars => ShellIInv'
    BY NextScreen, NextUSTar DEF ShellIInv
  <1> QED
    BY <1>1, <1>2, PTL DEF ShellSpec

\* The cursor stays inside the text buffer, the line buffer within its bound
\* and the reader's pointer at a block of the archive, on every screen, for
\* every archive and whatever is typed and printed.
THEOREM ShellTypeCorrect == ShellSpec => []ShellTypeOK
  <1>1. ShellIInv => ShellTypeOK
    BY DEF ShellIInv, ScreenInv, ShellTypes, USTarInv, ShellTypeOK
  <1> QED
    BY <1>1, ShellInductive, PTL

\* What TTY::write_str, scroll_up and delete leave in the text buffer is to be
\* seen in the framebuffer, until a delete clears it: on every screen size.
THEOREM ShellTextIsDrawn == ShellSpec => []TextIsDrawn
  <1>1. ShellIInv => TextIsDrawn
    BY DEF ShellIInv, ScreenInv
  <1> QED
    BY <1>1, ShellInductive, PTL

\* The line that run_command_line hands to process_command is the one on the
\* screen, as long as it is tidy, after any number of scrolled lines, deletes
\* and commands: on every screen size and for every line length.
THEOREM ShellLineOnScreen == ShellSpec => []LineOnScreen
  <1>1. ShellIInv => LineOnScreen
    BY HeldOnScreen DEF ShellIInv
  <1> QED
    BY <1>1, ShellInductive, PTL

\* USTarFileIterator lists the files of every packed archive in order, up to
\* the first that is cut off or unreadable, and the limit of ls.
THEOREM ShellLsListsFiles == ShellSpec => []LsListsFiles
  <1>1. ShellIInv => LsListsFiles
    BY DEF ShellIInv, USTarInv
  <1> QED
    BY <1>1, ShellInductive, PTL

\* USTar::read_file returns the first whole file of that name of every packed
\* archive, or nothing when there is none, whatever the data blocks look like.
THEOREM ShellCatReadsFirst == ShellSpec => []CatReadsFirst
  <1>1. ShellIInv => CatReadsFirst
    BY DEF ShellIInv, USTarInv
  <1> QED
    BY <1>1, ShellInductive, PTL

=============================================================================
