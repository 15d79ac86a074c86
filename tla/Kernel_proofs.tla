--------------------------- MODULE Kernel_proofs ---------------------------
(***************************************************************************)
(* Proofs about Kernel: nobody waits for the serial line or the heap, only *)
(* a panic or fault that has reported loses the screen, interrupts come on *)
(* only when IDT and LAPIC are there - for every depth of nesting of       *)
(* contexts.  The one exception is the fault that a bad pointer of the     *)
(* panic system call raises inside the section of SERIAL1: Stuck.          *)
(*                                                                         *)
(* The invariant KInv is about the code that is left in every context.     *)
(* Fit says which code is sound where it stands: its sections close and    *)
(* nothing in them breaks them (Closed), sections of SERIAL1 and RTL8139   *)
(* run with interrupts off (Uninterrupted), the serial line is written     *)
(* inside its section (Writes), a failing context reports before it turns  *)
(* to the screen (Reports), interrupts come on late (Ordered).  Owned ties *)
(* the locks to the code: the owner is inside the section, or failed       *)
(* there.  Placed says who may use the heap and the screen at all.         *)
(***************************************************************************)
EXTENDS Kernel, SequenceTheorems, TLAPS

-----------------------------------------------------------------------------
(* What sound code is.                                                     *)

Ops == {"lock", "unlock", "draw", "without_interrupts", "write", "loop", "expect", "ready",
        "enable", "init", "pixels", "user", "sleep", "wait", "add_scancode", "tick", "eoi", "iret"}

Args == Locks \cup {"", "log", "report", "user", "tty", "heap", "idt", "lapic", "queue"}

InstrSet == {i \in [op : Ops, arg : Args] : i.op \in {"lock", "unlock"} => i.arg \in Locks}

Code == Seq(InstrSet)

\* Locks that no context holds where it may panic or fault.
Private == {"SERIAL1", "HEAP", "RTL8139"}

Opens(i, l) == i.op = "lock" /\ i.arg = l
Closes(i, l) == i.op = "unlock" /\ i.arg = l

\* Instructions that are never executed with lock l held.
Breaks(i, l) ==
    \/ Opens(i, l)
    \/ i.op = "draw" /\ l = "FRAMEBUFFER"
    \/ i.op = "without_interrupts" /\ l = "SERIAL1"
    \/ i.op \in {"expect", "pixels", "draw", "add_scancode", "eoi"} /\ l \in Private
    \/ i.op \in {"init", "iret"}

\* Code c is inside a section of lock l.
Held(c, l) == \E k \in 1 .. Len(c) : Closes(c[k], l) /\ \A j \in 1 .. (k - 1) : ~Breaks(c[j], l)

\* What is locked is unlocked again, with nothing in between that breaks it.
Closed(c) ==
    \A l \in Locks : \A k \in 1 .. Len(c) : Opens(c[k], l) =>
        \E m \in (k + 1) .. Len(c) :
            Closes(c[m], l) /\ \A j \in (k + 1) .. (m - 1) : ~Breaks(c[j], l)

Failing(c) == \E k \in 1 .. Len(c) : c[k].op = "loop"

Masking(i) == i.op = "unlock" /\ i.arg \in {"SERIAL1", "RTL8139"}

OnScreen(i) ==
    \/ i.op = "draw"
    \/ i.op \in {"lock", "unlock"} /\ i.arg \in {"TTY", "FRAMEBUFFER"}
OnHeap(i) == i.op \in {"lock", "unlock"} /\ i.arg = "HEAP"

\* Instructions that lead to interrupts being on, or to user mode.
Late(i) == i.op \in {"enable", "iret", "init"}

Report(i) == i.op \in {"without_interrupts", "write"} /\ i.arg \in {"report", "user"}
Brings(i, x) == i.op = "ready" /\ i.arg = x

HeapFree(c) == \A k \in 1 .. Len(c) : ~OnHeap(c[k])
ScreenFree(c) == \A k \in 1 .. Len(c) : ~OnScreen(c[k])

\* Interrupts are off in sections of SERIAL1 and RTL8139, and the section is
\* the next thing the context executes.  (f: interrupts may arrive.)
Uninterrupted(c, f) ==
    \A k \in 1 .. Len(c) : Masking(c[k]) =>
        ~f /\ \A j \in 1 .. (k - 1) : c[j].op \in {"lock", "write"}

\* A panic or fault reports before it turns to the screen.  (r: it has.)
Reports(c, r) ==
    Failing(c) /\ ~r => \A k \in 1 .. Len(c) : OnScreen(c[k]) => \E j \in 1 .. (k - 1) : Report(c[j])

\* Interrupts come on after IDT and LAPIC are there.  (s: what is there.)
Ordered(c, s) ==
    \A k \in 1 .. Len(c) : Late(c[k]) =>
        \A x \in {"idt", "lapic"} : x \in s \/ \E j \in 1 .. (k - 1) : Brings(c[j], x)

\* Nothing follows iretq, or the choice of the init program.
ReturnsLast(c) == \A k \in 1 .. Len(c) : c[k].op \in {"iret", "init"} => k = Len(c)

\* The serial line is written as all there is of a section of SERIAL1.
Writes(c) ==
    \A k \in 1 .. Len(c) : c[k].op = "write" =>
        /\ k = 1 \/ Opens(c[k - 1], "SERIAL1")
        /\ k + 1 \in 1 .. Len(c) /\ Closes(c[k + 1], "SERIAL1")

Fit(c, f, r, s) ==
    /\ c \in Code /\ Closed(c) /\ Writes(c)
    /\ Uninterrupted(c, f) /\ Reports(c, r) /\ Ordered(c, s) /\ ReturnsLast(c)

-----------------------------------------------------------------------------
(* Code.                                                                   *)

\* What is left of code after its first instruction.
LEMMA TailOf ==
    ASSUME NEW c \in Code, c # << >>
    PROVE  /\ Tail(c) \in Code /\ Len(c) \in Nat /\ Len(c) >= 1 /\ Len(Tail(c)) = Len(c) - 1
           /\ Head(c) = c[1] /\ c[1] \in InstrSet
           /\ \A k \in 1 .. (Len(c) - 1) : Tail(c)[k] = c[k + 1]
  BY DEF Code

\* Code after code: the length and the instructions.
LEMMA ConcatOf ==
    ASSUME NEW b \in Code, NEW c \in Code
    PROVE  /\ b \o c \in Code /\ Len(b) \in Nat /\ Len(c) \in Nat
           /\ Len(b \o c) = Len(b) + Len(c)
           /\ \A k \in 1 .. Len(b) : (b \o c)[k] = b[k]
           /\ \A k \in 1 .. Len(c) : (b \o c)[Len(b) + k] = c[k]
           /\ \A k \in (Len(b) + 1) .. (Len(b) + Len(c)) :
                 (b \o c)[k] = c[k - Len(b)] /\ k - Len(b) \in 1 .. Len(c)
  BY DEF Code

\* The first instruction of code after code.
LEMMA FirstOf ==
    ASSUME NEW b \in Code, NEW c \in Code, Len(b) >= 1
    PROVE  b \o c \in Code /\ Len(b \o c) \in Nat /\ Len(b \o c) >= 1 /\ (b \o c)[1] = b[1]
  <1>1. /\ b \o c \in Code /\ Len(b) \in Nat /\ Len(c) \in Nat
        /\ Len(b \o c) = Len(b) + Len(c)
        /\ \A k \in 1 .. Len(b) : (b \o c)[k] = b[k]
    BY ConcatOf
  <1> QED BY <1>1

\* A context inside a section stays there until the unlock.
LEMMA HeldTail ==
    ASSUME NEW c \in Code, c # << >>, NEW l \in Locks, Held(c, l), ~Closes(c[1], l)
    PROVE  ~Breaks(c[1], l) /\ Held(Tail(c), l)
  <1>1. PICK k \in 1 .. Len(c) : Closes(c[k], l) /\ \A j \in 1 .. (k - 1) : ~Breaks(c[j], l)
    BY DEF Held
  <1>2. Len(c) \in Nat /\ k \in Nat /\ k > 1
    BY <1>1, TailOf
  <1>3. 1 \in 1 .. (k - 1) /\ k - 1 \in 1 .. (Len(c) - 1) /\ (k - 1) + 1 = k
    BY <1>2
  <1>4. Closes(Tail(c)[k - 1], l)
    BY <1>1, <1>3, TailOf
  <1>5. ASSUME NEW j \in 1 .. ((k - 1) - 1) PROVE ~Breaks(Tail(c)[j], l)
    <2>1. j \in 1 .. (Len(c) - 1) /\ j + 1 \in 1 .. (k - 1)
      BY <1>2
    <2> QED BY <1>1, <2>1, TailOf
  <1> QED BY <1>1, <1>3, <1>4, <1>5, TailOf DEF Held

\* Taking the lock brings the context into the section.
LEMMA HeldOpened ==
    ASSUME NEW c \in Code, c # << >>, NEW l \in Locks, Closed(c), Opens(c[1], l)
    PROVE  Held(Tail(c), l)
  <1>0. 1 \in 1 .. Len(c) /\ Len(c) \in Nat
    BY TailOf
  <1>1. PICK m \in (1 + 1) .. Len(c) :
            Closes(c[m], l) /\ \A j \in (1 + 1) .. (m - 1) : ~Breaks(c[j], l)
    BY <1>0 DEF Closed
  <1>2. m - 1 \in 1 .. (Len(c) - 1) /\ (m - 1) + 1 = m
    BY <1>0
  <1>3. Closes(Tail(c)[m - 1], l)
    BY <1>1, <1>2, TailOf
  <1>4. ASSUME NEW j \in 1 .. ((m - 1) - 1) PROVE ~Breaks(Tail(c)[j], l)
    <2>1. j \in 1 .. (Len(c) - 1) /\ j + 1 \in (1 + 1) .. (m - 1)
      BY <1>0
    <2> QED BY <1>1, <2>1, TailOf
  <1> QED BY <1>2, <1>3, <1>4, TailOf DEF Held

\* Code put in front of a section keeps it if nothing breaks it.
LEMMA HeldConcat ==
    ASSUME NEW b \in Code, NEW c \in Code, NEW l \in Locks, Held(c, l),
           \A k \in 1 .. Len(b) : ~Breaks(b[k], l)
    PROVE  Held(b \o c, l)
  <1>1. PICK k \in 1 .. Len(c) : Closes(c[k], l) /\ \A j \in 1 .. (k - 1) : ~Breaks(c[j], l)
    BY DEF Held
  <1> DEFINE m == Len(b) + k
  <1>2. m \in 1 .. Len(b \o c) /\ Closes((b \o c)[m], l) /\ Len(b) \in Nat /\ Len(c) \in Nat
    <2>1. Len(b) \in Nat /\ Len(c) \in Nat /\ Len(b \o c) = Len(b) + Len(c) /\ (b \o c)[m] = c[k]
      BY ConcatOf
    <2> QED BY <1>1, <2>1
  <1>3. ASSUME NEW j \in 1 .. (m - 1) PROVE ~Breaks((b \o c)[j], l)
    <2>1. CASE j \in 1 .. Len(b)
      BY <2>1, ConcatOf
    <2>2. CASE j > Len(b)
      <3>1. j - Len(b) \in 1 .. (k - 1) /\ j - Len(b) \in 1 .. Len(c) /\ Len(b) + (j - Len(b)) = j
        BY <1>2, <2>2
      <3> QED BY <1>1, <3>1, ConcatOf
    <2> QED BY <1>2, <2>1, <2>2
  <1> QED BY <1>2, <1>3 DEF Held

\* Sections still close after the first instruction.
LEMMA ClosedTail ==
    ASSUME NEW c \in Code, c # << >>, Closed(c)
    PROVE  Closed(Tail(c))
  <1> SUFFICES ASSUME NEW l \in Locks, NEW k \in 1 .. Len(Tail(c)), Opens(Tail(c)[k], l)
               PROVE  \E m \in (k + 1) .. Len(Tail(c)) :
                         /\ Closes(Tail(c)[m], l)
                         /\ \A j \in (k + 1) .. (m - 1) : ~Breaks(Tail(c)[j], l)
    BY DEF Closed
  <1>1. Len(c) \in Nat /\ k \in 1 .. (Len(c) - 1) /\ k + 1 \in 1 .. Len(c) /\ Opens(c[k + 1], l)
    BY TailOf
  <1>2. PICK m \in ((k + 1) + 1) .. Len(c) :
            Closes(c[m], l) /\ \A j \in ((k + 1) + 1) .. (m - 1) : ~Breaks(c[j], l)
    BY <1>1 DEF Closed
  <1>3. m - 1 \in (k + 1) .. (Len(c) - 1) /\ (m - 1) + 1 = m /\ m - 1 \in 1 .. (Len(c) - 1)
    BY <1>1
  <1>4. Closes(Tail(c)[m - 1], l)
    BY <1>2, <1>3, TailOf
  <1>5. ASSUME NEW j \in (k + 1) .. ((m - 1) - 1) PROVE ~Breaks(Tail(c)[j], l)
    <2>1. j \in 1 .. (Len(c) - 1) /\ j + 1 \in ((k + 1) + 1) .. (m - 1)
      BY <1>1
    <2> QED BY <1>2, <2>1, TailOf
  <1> QED BY <1>3, <1>4, <1>5, TailOf

\* Sections close in code after code.
LEMMA ClosedConcat ==
    ASSUME NEW b \in Code, NEW c \in Code, Closed(b), Closed(c)
    PROVE  Closed(b \o c)
  <1> DEFINE w == b \o c
  <1> SUFFICES ASSUME NEW l \in Locks, NEW k \in 1 .. Len(w), Opens(w[k], l)
               PROVE  \E m \in (k + 1) .. Len(w) :
                         /\ Closes(w[m], l)
                         /\ \A j \in (k + 1) .. (m - 1) : ~Breaks(w[j], l)
    BY DEF Closed
  <1>1. /\ Len(b) \in Nat /\ Len(c) \in Nat /\ Len(w) = Len(b) + Len(c)
        /\ \A j \in 1 .. Len(b) : w[j] = b[j]
        /\ \A j \in 1 .. Len(c) : w[Len(b) + j] = c[j]
        /\ \A j \in (Len(b) + 1) .. (Len(b) + Len(c)) : w[j] = c[j - Len(b)] /\ j - Len(b) \in 1 .. Len(c)
    BY ConcatOf
  <1> HIDE DEF w
  <1>2. CASE k \in 1 .. Len(b)
    <2>1. PICK m \in (k + 1) .. Len(b) :
              Closes(b[m], l) /\ \A j \in (k + 1) .. (m - 1) : ~Breaks(b[j], l)
      BY <1>1, <1>2 DEF Closed
    <2>2. m \in (k + 1) .. Len(w) /\ Closes(w[m], l)
      BY <1>1, <1>2, <2>1
    <2>3. \A j \in (k + 1) .. (m - 1) : ~Breaks(w[j], l)
      BY <1>1, <1>2, <2>1
    <2> QED BY <2>2, <2>3
  <1>3. CASE k \notin 1 .. Len(b)
    <2>0. k \in (Len(b) + 1) .. (Len(b) + Len(c))
      BY <1>1, <1>3
    <2> DEFINE n == k - Len(b)
    <2>1. n \in 1 .. Len(c) /\ Opens(c[n], l) /\ k = Len(b) + n
      BY <1>1, <2>0
    <2> HIDE DEF n
    <2>2. PICK m \in (n + 1) .. Len(c) :
              Closes(c[m], l) /\ \A j \in (n + 1) .. (m - 1) : ~Breaks(c[j], l)
      BY <2>1 DEF Closed
    <2>3. Len(b) + m \in (k + 1) .. Len(w) /\ Closes(w[Len(b) + m], l)
      BY <1>1, <2>1, <2>2
    <2>4. ASSUME NEW j \in (k + 1) .. (Len(b) + m - 1) PROVE ~Breaks(w[j], l)
      <3>1. j \in (Len(b) + 1) .. (Len(b) + Len(c)) /\ j - Len(b) \in (n + 1) .. (m - 1)
        BY <1>1, <2>1, <2>2
      <3> QED BY <1>1, <2>2, <3>1
    <2> QED BY <2>3, <2>4
  <1> QED BY <1>2, <1>3

\* Writing is still all of its section after the first instruction.
LEMMA WritesTail ==
    ASSUME NEW c \in Code, c # << >>, Writes(c)
    PROVE  Writes(Tail(c)) /\ (~Opens(c[1], "SERIAL1") => Tail(c) = << >> \/ Tail(c)[1].op # "write")
  <1>1. /\ Tail(c) \in Code /\ Len(c) \in Nat /\ Len(c) >= 1 /\ Len(Tail(c)) = Len(c) - 1
        /\ \A k \in 1 .. (Len(c) - 1) : Tail(c)[k] = c[k + 1]
    BY TailOf
  <1>2. ASSUME NEW k \in 1 .. Len(Tail(c)), Tail(c)[k].op = "write"
        PROVE  /\ Opens(c[k], "SERIAL1") /\ (k = 1 \/ Opens(Tail(c)[k - 1], "SERIAL1"))
               /\ k + 1 \in 1 .. Len(Tail(c)) /\ Closes(Tail(c)[k + 1], "SERIAL1")
    <2>1. k + 1 \in 1 .. Len(c) /\ c[k + 1].op = "write" /\ k + 1 # 1 /\ (k + 1) - 1 = k /\ k \in Nat
      BY <1>1, <1>2
    <2>2. Opens(c[k], "SERIAL1") /\ (k + 1) + 1 \in 1 .. Len(c) /\ Closes(c[(k + 1) + 1], "SERIAL1")
      BY <2>1 DEF Writes
    <2>3. k + 1 \in 1 .. (Len(c) - 1)
      BY <1>1, <2>1, <2>2
    <2>4. k = 1 \/ (k - 1 \in 1 .. (Len(c) - 1) /\ (k - 1) + 1 = k)
      BY <1>1, <2>1
    <2> QED BY <1>1, <2>2, <2>3, <2>4
  <1>3. Writes(Tail(c))
    BY <1>2 DEF Writes
  <1>4. Tail(c) # << >> => 1 \in 1 .. Len(Tail(c))
    BY <1>1 DEF Code
  <1> QED BY <1>2, <1>3, <1>4

\* Writing is all of its section in code after code.
LEMMA WritesConcat ==
    ASSUME NEW b \in Code, NEW c \in Code, Writes(b), Writes(c), c = << >> \/ c[1].op # "write"
    PROVE  Writes(b \o c)
  <1> DEFINE w == b \o c
  <1>1. /\ Len(b) \in Nat /\ Len(c) \in Nat /\ Len(w) = Len(b) + Len(c)
        /\ \A j \in 1 .. Len(b) : w[j] = b[j]
        /\ \A j \in 1 .. Len(c) : w[Len(b) + j] = c[j]
        /\ \A j \in (Len(b) + 1) .. (Len(b) + Len(c)) : w[j] = c[j - Len(b)] /\ j - Len(b) \in 1 .. Len(c)
    BY ConcatOf
  <1> HIDE DEF w
  <1> SUFFICES ASSUME NEW k \in 1 .. Len(w), w[k].op = "write"
               PROVE  /\ k = 1 \/ Opens(w[k - 1], "SERIAL1")
                      /\ k + 1 \in 1 .. Len(w) /\ Closes(w[k + 1], "SERIAL1")
    BY DEF Writes, w
  <1>2. CASE k \in 1 .. Len(b)
    <2>1. (k = 1 \/ Opens(b[k - 1], "SERIAL1")) /\ k + 1 \in 1 .. Len(b) /\ Closes(b[k + 1], "SERIAL1")
      BY <1>1, <1>2 DEF Writes
    <2>2. k = 1 \/ k - 1 \in 1 .. Len(b)
      BY <1>1, <1>2
    <2> QED BY <1>1, <2>1, <2>2
  <1>3. CASE k \notin 1 .. Len(b)
    <2> DEFINE n == k - Len(b)
    <2>0. k \in (Len(b) + 1) .. (Len(b) + Len(c))
      BY <1>1, <1>3
    <2>1. n \in 1 .. Len(c) /\ c[n].op = "write" /\ k = Len(b) + n
      BY <1>1, <2>0
    <2> HIDE DEF n
    <2>2. n # 1
      <3>1. c # << >>
        BY <1>1, <2>1
      <3> QED BY <2>1, <3>1
    <2>3. Opens(c[n - 1], "SERIAL1") /\ n + 1 \in 1 .. Len(c) /\ Closes(c[n + 1], "SERIAL1")
      BY <2>1, <2>2 DEF Writes
    <2>4. /\ n - 1 \in 1 .. Len(c) /\ Len(b) + (n - 1) = k - 1
          /\ Len(b) + (n + 1) = k + 1 /\ k + 1 \in 1 .. Len(w)
      BY <1>1, <2>1, <2>2, <2>3
    <2>5. w[k - 1] = c[n - 1] /\ w[k + 1] = c[n + 1]
      BY <1>1, <2>3, <2>4
    <2> QED BY <2>3, <2>4, <2>5
  <1> QED BY <1>2, <1>3

\* Code that any context may run, at any time.
Block(c) ==
    /\ c \in Code /\ Closed(c)
    /\ \A k \in 1 .. Len(c) :
          ~Masking(c[k]) /\ ~Late(c[k]) /\ c[k].op \notin {"loop", "write"}

\* Blocks one after the other are a block.
LEMMA BlockConcat ==
    ASSUME NEW b, NEW c, Block(b), Block(c)
    PROVE  Block(b \o c)
  <1>0. b \in Code /\ c \in Code
    BY DEF Block
  <1>1. ASSUME NEW k \in 1 .. Len(b \o c)
        PROVE  ~Masking((b \o c)[k]) /\ ~Late((b \o c)[k]) /\ (b \o c)[k].op \notin {"loop", "write"}
    <2>1. CASE k \in 1 .. Len(b)
      BY <1>0, <2>1, ConcatOf DEF Block
    <2>2. CASE k \notin 1 .. Len(b)
      <3>1. k \in (Len(b) + 1) .. (Len(b) + Len(c))
        BY <1>0, <2>2, ConcatOf
      <3>2. (b \o c)[k] = c[k - Len(b)] /\ k - Len(b) \in 1 .. Len(c)
        BY <1>0, <3>1, ConcatOf
      <3> QED BY <3>2 DEF Block
    <2> QED BY <2>1, <2>2
  <1> QED BY <1>0, <1>1, ConcatOf, ClosedConcat DEF Block

\* Code that leaves the heap alone, one after the other.
LEMMA HeapFreeConcat ==
    ASSUME NEW b \in Code, NEW c \in Code, HeapFree(b), HeapFree(c)
    PROVE  HeapFree(b \o c)
  <1> SUFFICES ASSUME NEW k \in 1 .. Len(b \o c) PROVE ~OnHeap((b \o c)[k])
    BY DEF HeapFree
  <1>1. CASE k \in 1 .. Len(b)
    BY <1>1, ConcatOf DEF HeapFree
  <1>2. CASE k \notin 1 .. Len(b)
    <2>1. k \in (Len(b) + 1) .. (Len(b) + Len(c))
      BY <1>2, ConcatOf
    <2> QED BY <2>1, ConcatOf DEF HeapFree
  <1> QED BY <1>1, <1>2

\* Instructions and their parts.
LEMMA Instrs ==
    ASSUME NEW o \in Ops, NEW a \in Args, o \in {"lock", "unlock"} => a \in Locks
    PROVE  I(o, a) \in InstrSet /\ I(o, a).op = o /\ I(o, a).arg = a
  BY DEF I, InstrSet

\* Code of one instruction.
LEMMA OneOf ==
    ASSUME NEW i \in InstrSet
    PROVE  <<i>> \in Code /\ Len(<<i>>) = 1 /\ <<i>>[1] = i
  BY DEF Code

\* One instruction that is no lock.
LEMMA OneInstr ==
    ASSUME NEW o \in Ops, NEW a \in Args, o \notin {"lock", "unlock"}
    PROVE  /\ <<I(o, a)>> \in Code /\ Len(<<I(o, a)>>) = 1 /\ <<I(o, a)>>[1] = I(o, a)
           /\ Closed(<<I(o, a)>>) /\ HeapFree(<<I(o, a)>>)
           /\ o \notin {"enable", "iret", "init", "loop", "write"} => Block(<<I(o, a)>>)
  <1> DEFINE i == I(o, a)  c == <<i>>
  <1>1. i \in InstrSet /\ i.op = o /\ i.arg = a
    BY Instrs
  <1> HIDE DEF i
  <1>2. c \in Code /\ Len(c) = 1 /\ c[1] = i
    BY <1>1, OneOf
  <1> HIDE DEF c
  <1>3. Closed(c)
    BY <1>1, <1>2 DEF Closed, Opens
  <1>4. HeapFree(c)
    BY <1>1, <1>2 DEF HeapFree, OnHeap
  <1>5. o \notin {"enable", "iret", "init", "loop", "write"} => Block(c)
    BY <1>1, <1>2, <1>3 DEF Block, Masking, Late
  <1> QED BY <1>2, <1>3, <1>4, <1>5 DEF c, i

\* A section with one instruction.
LEMMA WithOne ==
    ASSUME NEW l \in Locks, NEW i \in InstrSet, ~Breaks(i, l), i.op \notin {"lock", "unlock"}
    PROVE  LET c == With(l, <<i>>) IN
           /\ c \in Code /\ Len(c) = 3 /\ Closed(c)
           /\ c[1] = I("lock", l) /\ c[2] = i /\ c[3] = I("unlock", l)
           /\ l # "HEAP" => HeapFree(c)
           /\ l \notin {"SERIAL1", "RTL8139"} /\ ~Late(i) /\ i.op \notin {"loop", "write"} => Block(c)
  <1> DEFINE a == I("lock", l)  z == I("unlock", l)  c == With(l, <<i>>)
  <1>1. /\ a \in InstrSet /\ a.op = "lock" /\ a.arg = l
        /\ z \in InstrSet /\ z.op = "unlock" /\ z.arg = l
    <2>1. l \in Args /\ "lock" \in Ops /\ "unlock" \in Ops
      BY DEF Args, Ops
    <2> QED BY <2>1, Instrs
  <1>2. c = (<<a>> \o <<i>>) \o <<z>>
    BY DEF With
  <1> HIDE DEF a, z, c
  <1>3. c \in Code /\ Len(c) = 3 /\ c[1] = a /\ c[2] = i /\ c[3] = z
    <2> DEFINE b == <<a>> \o <<i>>
    <2>1. b \in Code /\ Len(b) = 2 /\ b[1] = a /\ b[2] = i
      <3>1. <<a>> \in Code /\ Len(<<a>>) = 1 /\ <<a>>[1] = a
        BY <1>1, OneOf
      <3>2. <<i>> \in Code /\ Len(<<i>>) = 1 /\ <<i>>[1] = i
        BY OneOf
      <3>3. (<<a>> \o <<i>>)[1] = <<a>>[1] /\ (<<a>> \o <<i>>)[1 + 1] = <<i>>[1]
        BY <3>1, <3>2, ConcatOf
      <3> QED BY <3>1, <3>2, <3>3, ConcatOf
    <2>2. <<z>> \in Code /\ Len(<<z>>) = 1 /\ <<z>>[1] = z
      BY <1>1, OneOf
    <2>3. c = b \o <<z>>
      BY <1>2
    <2> DEFINE y == <<z>>
    <2> HIDE DEF b, y
    <2>4. b \in Code /\ y \in Code /\ Len(y) = 1 /\ y[1] = z /\ c = b \o y
      BY <2>1, <2>2, <2>3 DEF y
    <2>5. 1 \in 1 .. Len(b) /\ 2 \in 1 .. Len(b) /\ 1 \in 1 .. Len(y) /\ Len(b) + 1 = 3
      BY <2>1, <2>4
    <2>6. /\ c \in Code /\ Len(c) = Len(b) + Len(y)
          /\ c[1] = b[1] /\ c[2] = b[2] /\ c[Len(b) + 1] = y[1]
      BY <2>4, <2>5, ConcatOf
    <2> QED BY <2>1, <2>4, <2>5, <2>6
  <1>4. Closed(c)
    <2> SUFFICES ASSUME NEW n \in Locks, NEW k \in 1 .. Len(c), Opens(c[k], n)
                 PROVE  \E m \in (k + 1) .. Len(c) :
                            Closes(c[m], n) /\ \A j \in (k + 1) .. (m - 1) : ~Breaks(c[j], n)
      BY DEF Closed
    <2>1. k = 1 /\ n = l
      BY <1>1, <1>3 DEF Opens
    <2>2. 3 \in (k + 1) .. Len(c) /\ Closes(c[3], n) /\ \A j \in (k + 1) .. (3 - 1) : j = 2
      BY <1>1, <1>3, <2>1 DEF Closes
    <2> QED BY <1>3, <2>1, <2>2
  <1>5. l # "HEAP" => HeapFree(c)
    BY <1>1, <1>3 DEF HeapFree, OnHeap
  <1>6. l \notin {"SERIAL1", "RTL8139"} /\ ~Late(i) /\ i.op \notin {"loop", "write"} => Block(c)
    BY <1>1, <1>3, <1>4 DEF Block, Masking, Late
  <1> QED BY <1>3, <1>4, <1>5, <1>6 DEF c, a, z

\* A section with none.
LEMMA WithNone ==
    ASSUME NEW l \in Locks
    PROVE  LET c == With(l, << >>) IN
           /\ c \in Code /\ Len(c) = 2 /\ Closed(c)
           /\ c[1] = I("lock", l) /\ c[2] = I("unlock", l)
           /\ l \notin {"SERIAL1", "RTL8139"} => Block(c)
  <1> DEFINE a == I("lock", l)  z == I("unlock", l)  c == With(l, << >>)
  <1>1. /\ a \in InstrSet /\ a.op = "lock" /\ a.arg = l
        /\ z \in InstrSet /\ z.op = "unlock" /\ z.arg = l
    <2>1. l \in Args /\ "lock" \in Ops /\ "unlock" \in Ops
      BY DEF Args, Ops
    <2> QED BY <2>1, Instrs
  <1>2. c = (<<a>> \o << >>) \o <<z>>
    BY DEF With
  <1> HIDE DEF a, z, c
  <1>3. c \in Code /\ Len(c) = 2 /\ c[1] = a /\ c[2] = z
    <2>1. <<a>> \in Code /\ Len(<<a>>) = 1 /\ <<a>>[1] = a /\ <<a>> \o << >> = <<a>>
      BY <1>1, OneOf
    <2>2. <<z>> \in Code /\ Len(<<z>>) = 1 /\ <<z>>[1] = z
      BY <1>1, OneOf
    <2>3. c = <<a>> \o <<z>>
      BY <1>2, <2>1
    <2> DEFINE b == <<a>>  y == <<z>>
    <2> HIDE DEF b, y
    <2>4. /\ b \in Code /\ y \in Code /\ c = b \o y
          /\ Len(b) = 1 /\ b[1] = a /\ Len(y) = 1 /\ y[1] = z
      BY <2>1, <2>2, <2>3 DEF b, y
    <2>5. 1 \in 1 .. Len(b) /\ 1 \in 1 .. Len(y) /\ Len(b) + 1 = 2
      BY <2>4
    <2>6. c \in Code /\ Len(c) = Len(b) + Len(y) /\ c[1] = b[1] /\ c[Len(b) + 1] = y[1]
      BY <2>4, <2>5, ConcatOf
    <2> QED BY <2>4, <2>5, <2>6
  <1>4. Closed(c)
    <2> SUFFICES ASSUME NEW n \in Locks, NEW k \in 1 .. Len(c), Opens(c[k], n)
                 PROVE  \E m \in (k + 1) .. Len(c) :
                            Closes(c[m], n) /\ \A j \in (k + 1) .. (m - 1) : ~Breaks(c[j], n)
      BY DEF Closed
    <2>1. k = 1 /\ n = l
      BY <1>1, <1>3 DEF Opens
    <2>2. 2 \in (k + 1) .. Len(c) /\ Closes(c[2], n) /\ (k + 1) .. (2 - 1) = {}
      BY <1>1, <1>3, <2>1 DEF Closes
    <2> QED BY <2>2
  <1>5. l \notin {"SERIAL1", "RTL8139"} => Block(c)
    BY <1>1, <1>3, <1>4 DEF Block, Masking, Late
  <1> QED BY <1>3, <1>4, <1>5 DEF c, a, z

\* The pieces the programs are made of.
LEMMA Pieces ==
    /\ Block(Console) /\ HeapFree(Console)
    /\ Block(Pixels) /\ Block(Alloc)
    /\ Pixels \in Code /\ Len(Pixels) = 3 /\ Pixels[1] = I("lock", "FRAMEBUFFER")
    /\ Pixels[2] = I("pixels", "") /\ Pixels[3] = I("unlock", "FRAMEBUFFER")
    /\ \A kind \in {"log", "report", "user"} :
          /\ Block(LogPrint(kind)) /\ HeapFree(LogPrint(kind))
          /\ Len(LogPrint(kind)) \in Nat /\ Len(LogPrint(kind)) >= 1
          /\ LogPrint(kind)[1] = I("without_interrupts", kind)
  <1>1. Block(Console) /\ HeapFree(Console)
    <2> DEFINE i == I("draw", "")
    <2>1. i \in InstrSet /\ i.op = "draw" /\ i.arg = ""
      BY Instrs DEF Ops, Args
    <2> HIDE DEF i
    <2>2. "TTY" \in Locks /\ "TTY" \notin {"SERIAL1", "RTL8139", "HEAP"} /\ ~Breaks(i, "TTY") /\ ~Late(i)
      BY <2>1 DEF Locks, Breaks, Late, Opens, Private
    <2>3. Block(With("TTY", <<i>>)) /\ HeapFree(With("TTY", <<i>>))
      BY <2>1, <2>2, WithOne
    <2> QED BY <2>3 DEF Console, i
  <1>2. /\ Block(Pixels)
        /\ Pixels \in Code /\ Len(Pixels) = 3 /\ Pixels[1] = I("lock", "FRAMEBUFFER")
        /\ Pixels[2] = I("pixels", "") /\ Pixels[3] = I("unlock", "FRAMEBUFFER")
    <2> DEFINE i == I("pixels", "")
    <2>1. i \in InstrSet /\ i.op = "pixels" /\ i.arg = ""
      BY Instrs DEF Ops, Args
    <2> HIDE DEF i
    <2>2. /\ "FRAMEBUFFER" \in Locks /\ "FRAMEBUFFER" \notin {"SERIAL1", "RTL8139", "HEAP"}
          /\ ~Breaks(i, "FRAMEBUFFER") /\ ~Late(i)
      BY <2>1 DEF Locks, Breaks, Late, Opens, Private
    <2> DEFINE c == With("FRAMEBUFFER", <<i>>)
    <2>3. Block(c) /\ c \in Code /\ Len(c) = 3 /\ c[1] = I("lock", "FRAMEBUFFER") /\ c[2] = i
          /\ c[3] = I("unlock", "FRAMEBUFFER")
      BY <2>1, <2>2, WithOne
    <2> QED BY <2>3 DEF Pixels, i
  <1>3. Block(Alloc)
    <2>1. "HEAP" \in Locks /\ "HEAP" \notin {"SERIAL1", "RTL8139"}
      BY DEF Locks
    <2> QED BY <2>1, WithNone DEF Alloc
  <1>4. ASSUME NEW kind \in {"log", "report", "user"}
        PROVE  /\ Block(LogPrint(kind)) /\ HeapFree(LogPrint(kind))
               /\ Len(LogPrint(kind)) \in Nat /\ Len(LogPrint(kind)) >= 1
               /\ LogPrint(kind)[1] = I("without_interrupts", kind)
    <2> DEFINE b == <<I("without_interrupts", kind)>>
    <2>1. b \in Code /\ Len(b) = 1 /\ b[1] = I("without_interrupts", kind) /\ Block(b) /\ HeapFree(b)
      <3>1. "without_interrupts" \in Ops /\ kind \in Args
        BY DEF Ops, Args
      <3> QED BY <3>1, OneInstr
    <2> HIDE DEF b
    <2>2. Console \in Code /\ LogPrint(kind) = b \o Console
      BY <1>1 DEF Block, LogPrint, b
    <2>3. (b \o Console)[1] = b[1] /\ Len(b \o Console) \in Nat /\ Len(b \o Console) >= 1
      BY <2>1, <2>2, FirstOf
    <2> QED BY <1>1, <2>1, <2>2, <2>3, BlockConcat, HeapFreeConcat
  <1> QED BY <1>1, <1>2, <1>3, <1>4

\* A block is sound anywhere.
LEMMA FitBlock ==
    ASSUME NEW c, Block(c), NEW f, NEW r, NEW s
    PROVE  Fit(c, f, r, s) /\ ~Failing(c)
  BY DEF Block, Fit, Uninterrupted, Reports, Ordered, ReturnsLast, Failing, Late, Writes

\* Sound code stays sound after its first instruction.
LEMMA FitTail ==
    ASSUME NEW c, c # << >>, NEW f \in BOOLEAN, NEW r \in BOOLEAN, NEW s, Fit(c, f, r, s),
           NEW g \in BOOLEAN, NEW q \in BOOLEAN, NEW t,
           g => f \/ c[1].op \notin {"lock", "write"},
           r \/ Report(c[1]) => q,
           s \subseteq t, \A x \in {"idt", "lapic"} : Brings(c[1], x) => x \in t
    PROVE  Fit(Tail(c), g, q, t)
  <1>0. c \in Code
    BY DEF Fit
  <1> DEFINE d == Tail(c)
  <1>1. /\ d \in Code /\ Len(c) \in Nat /\ Len(c) >= 1 /\ Len(d) = Len(c) - 1
        /\ \A k \in 1 .. (Len(c) - 1) : d[k] = c[k + 1]
    BY <1>0, TailOf
  <1>2. Closed(d) /\ Writes(d)
    BY <1>0, ClosedTail, WritesTail DEF Fit
  <1> HIDE DEF d
  <1>3. Uninterrupted(d, g)
    <2> SUFFICES ASSUME NEW k \in 1 .. Len(d), Masking(d[k])
                 PROVE  ~g /\ \A j \in 1 .. (k - 1) : d[j].op \in {"lock", "write"}
      BY DEF Uninterrupted
    <2>1. k + 1 \in 1 .. Len(c) /\ Masking(c[k + 1]) /\ k \in Nat
      BY <1>1
    <2>2. ~f /\ \A j \in 1 .. ((k + 1) - 1) : c[j].op \in {"lock", "write"}
      BY <2>1 DEF Fit, Uninterrupted
    <2>3. c[1].op \in {"lock", "write"}
      BY <2>1, <2>2
    <2>4. ASSUME NEW j \in 1 .. (k - 1) PROVE d[j].op \in {"lock", "write"}
      <3>1. j + 1 \in 1 .. ((k + 1) - 1) /\ j \in 1 .. (Len(c) - 1)
        BY <1>1, <2>1
      <3> QED BY <1>1, <2>2, <3>1
    <2> QED BY <2>2, <2>3, <2>4
  <1>4. Reports(d, q)
    <2> SUFFICES ASSUME Failing(d), ~q, NEW k \in 1 .. Len(d), OnScreen(d[k])
                 PROVE  \E j \in 1 .. (k - 1) : Report(d[j])
      BY DEF Reports
    <2>1. k + 1 \in 1 .. Len(c) /\ OnScreen(c[k + 1]) /\ k \in Nat
      BY <1>1
    <2>2. Failing(c)
      <3>1. PICK m \in 1 .. Len(d) : d[m].op = "loop"
        BY DEF Failing
      <3>2. m + 1 \in 1 .. Len(c) /\ c[m + 1].op = "loop"
        BY <1>1, <3>1
      <3> QED BY <3>2 DEF Failing
    <2>3. PICK j \in 1 .. ((k + 1) - 1) : Report(c[j])
      BY <2>1, <2>2 DEF Fit, Reports
    <2>4. j # 1
      BY <2>3
    <2>5. j - 1 \in 1 .. (k - 1) /\ j - 1 \in 1 .. (Len(c) - 1) /\ (j - 1) + 1 = j
      BY <1>1, <2>1, <2>4
    <2>6. Report(d[j - 1])
      BY <1>1, <2>3, <2>5
    <2> QED BY <2>5, <2>6
  <1>5. Ordered(d, t)
    <2> SUFFICES ASSUME NEW k \in 1 .. Len(d), Late(d[k]), NEW x \in {"idt", "lapic"}, x \notin t
                 PROVE  \E j \in 1 .. (k - 1) : Brings(d[j], x)
      BY DEF Ordered
    <2>1. k + 1 \in 1 .. Len(c) /\ Late(c[k + 1]) /\ k \in Nat
      BY <1>1
    <2>3. PICK j \in 1 .. ((k + 1) - 1) : Brings(c[j], x)
      BY <2>1 DEF Fit, Ordered
    <2>4. j # 1
      BY <2>3
    <2>5. j - 1 \in 1 .. (k - 1) /\ j - 1 \in 1 .. (Len(c) - 1) /\ (j - 1) + 1 = j
      BY <1>1, <2>1, <2>4
    <2>6. Brings(d[j - 1], x)
      BY <1>1, <2>3, <2>5
    <2> QED BY <2>5, <2>6
  <1>6. ReturnsLast(d)
    <2> SUFFICES ASSUME NEW k \in 1 .. Len(d), d[k].op \in {"iret", "init"} PROVE k = Len(d)
      BY DEF ReturnsLast
    <2>1. k + 1 \in 1 .. Len(c) /\ c[k + 1].op \in {"iret", "init"}
      BY <1>1
    <2>2. k + 1 = Len(c)
      BY <2>1 DEF Fit, ReturnsLast
    <2> QED BY <1>1, <2>2
  <1> QED BY <1>1, <1>2, <1>3, <1>4, <1>5, <1>6 DEF Fit, d

\* Code b in front of what is left of c, instead of the first instruction.
LEMMA FitPrefix ==
    ASSUME NEW c, c # << >>, NEW f \in BOOLEAN, NEW r \in BOOLEAN, NEW s, Fit(c, f, r, s),
           c[1].op \notin {"lock", "write", "ready"},
           NEW b \in Code, Closed(b), Writes(b), NEW g \in BOOLEAN,
           \A k \in 1 .. Len(b) :
              /\ b[k].op \notin {"loop", "iret", "init"}
              /\ Late(b[k]) => {"idt", "lapic"} \subseteq s
              /\ Masking(b[k]) => ~g /\ \A j \in 1 .. (k - 1) : b[j].op \in {"lock", "write"},
           \/ OnScreen(c[1])
           \/ ScreenFree(b) /\ (Report(c[1]) => \E j \in 1 .. Len(b) : Report(b[j]))
    PROVE  Fit(b \o Tail(c), g, r, s)
  <1>0. c \in Code
    BY DEF Fit
  <1> DEFINE d == Tail(c)  w == b \o d  n == Len(b)
  <1>1. /\ d \in Code /\ Len(c) \in Nat /\ Len(c) >= 1 /\ Len(d) = Len(c) - 1
        /\ \A k \in 1 .. (Len(c) - 1) : d[k] = c[k + 1]
    BY <1>0, TailOf
  <1>2. Closed(d) /\ Writes(d) /\ (d = << >> \/ d[1].op # "write")
    BY <1>0, ClosedTail, WritesTail DEF Fit, Opens
  <1>3. /\ w \in Code /\ Closed(w) /\ n \in Nat /\ Len(w) = n + Len(d) /\ Writes(w)
        /\ \A k \in 1 .. n : w[k] = b[k]
        /\ \A k \in (n + 1) .. (n + Len(d)) : w[k] = d[k - n] /\ k - n \in 1 .. Len(d)
    BY <1>1, <1>2, ConcatOf, ClosedConcat, WritesConcat
  <1> HIDE DEF d, w, n
  <1>4. ASSUME NEW k \in 1 .. Len(w), k \notin 1 .. n
        PROVE  /\ (k - n) + 1 \in 2 .. Len(c) /\ w[k] = c[(k - n) + 1] /\ k - n \in 1 .. Len(d)
               /\ k \in Nat /\ k > n
    <2>1. k \in (n + 1) .. (n + Len(d)) /\ k \in Nat /\ k > n
      BY <1>1, <1>3, <1>4
    <2>2. w[k] = d[k - n] /\ k - n \in 1 .. Len(d) /\ Len(d) = Len(c) - 1
      BY <1>1, <1>3, <2>1
    <2>3. d[k - n] = c[(k - n) + 1]
      BY <1>1, <2>2
    <2>4. (k - n) + 1 \in 2 .. Len(c)
      BY <1>1, <2>2
    <2> QED BY <2>1, <2>2, <2>3, <2>4
  <1>5. Uninterrupted(w, g)
    <2> SUFFICES ASSUME NEW k \in 1 .. Len(w), Masking(w[k])
                 PROVE  ~g /\ \A j \in 1 .. (k - 1) : w[j].op \in {"lock", "write"}
      BY DEF Uninterrupted
    <2>1. CASE k \in 1 .. n
      <3>1. ~g /\ \A j \in 1 .. (k - 1) : b[j].op \in {"lock", "write"}
        BY <1>3, <2>1 DEF n
      <3>2. \A j \in 1 .. (k - 1) : j \in 1 .. n
        BY <1>3, <2>1
      <3> QED BY <1>3, <3>1, <3>2
    <2>2. CASE k \notin 1 .. n
      <3> DEFINE m == (k - n) + 1
      <3>1. m \in 2 .. Len(c) /\ Masking(c[m])
        BY <1>4, <2>2
      <3>2. 1 \in 1 .. (m - 1) /\ m \in 1 .. Len(c)
        BY <1>1, <3>1
      <3> QED BY <3>1, <3>2 DEF Fit, Uninterrupted
    <2> QED BY <2>1, <2>2
  <1>6. Reports(w, r)
    <2> SUFFICES ASSUME Failing(w), ~r, NEW k \in 1 .. Len(w), OnScreen(w[k])
                 PROVE  \E j \in 1 .. (k - 1) : Report(w[j])
      BY DEF Reports
    <2>1. Failing(c)
      <3>1. PICK m \in 1 .. Len(w) : w[m].op = "loop"
        BY DEF Failing
      <3>2. m \notin 1 .. n
        BY <1>3, <3>1 DEF n
      <3>3. (m - n) + 1 \in 1 .. Len(c) /\ c[(m - n) + 1].op = "loop"
        BY <1>1, <1>4, <3>1, <3>2
      <3> QED BY <3>3 DEF Failing
    <2>2. \A m \in 1 .. Len(c) : OnScreen(c[m]) => \E j \in 1 .. (m - 1) : Report(c[j])
      BY <2>1 DEF Fit, Reports
    <2>3. ~OnScreen(c[1])
      <3>1. 1 \in 1 .. Len(c) /\ 1 .. (1 - 1) = {}
        BY <1>1
      <3> QED BY <2>2, <3>1
    <2>4. k \notin 1 .. n
      BY <1>3, <2>3 DEF ScreenFree, n
    <2> DEFINE m == (k - n) + 1
    <2>5. m \in 2 .. Len(c) /\ OnScreen(c[m]) /\ m \in 1 .. Len(c) /\ k \in Nat /\ k > n
      BY <1>1, <1>4, <2>4
    <2>6. PICK j \in 1 .. (m - 1) : Report(c[j])
      BY <2>2, <2>5
    <2>7. CASE j = 1
      <3>1. PICK h \in 1 .. n : Report(b[h])
        BY <2>3, <2>6, <2>7 DEF n
      <3>2. h \in 1 .. (k - 1) /\ Report(w[h])
        BY <1>3, <2>5, <3>1
      <3> QED BY <3>2
    <2>8. CASE j # 1
      <3> DEFINE h == n + (j - 1)
      <3>1. h \in 1 .. (k - 1) /\ h \in (n + 1) .. (n + Len(d)) /\ h - n = j - 1
            /\ j - 1 \in 1 .. (Len(c) - 1) /\ (j - 1) + 1 = j
        BY <1>1, <1>3, <2>5, <2>8
      <3>2. w[h] = d[h - n] /\ d[j - 1] = c[(j - 1) + 1]
        BY <1>1, <1>3, <3>1
      <3>3. w[h] = c[j]
        BY <3>1, <3>2
      <3> QED BY <2>6, <3>1, <3>3
    <2> QED BY <2>7, <2>8
  <1>7. Ordered(w, s)
    <2> SUFFICES ASSUME NEW k \in 1 .. Len(w), Late(w[k]), NEW x \in {"idt", "lapic"}, x \notin s
                 PROVE  \E j \in 1 .. (k - 1) : Brings(w[j], x)
      BY DEF Ordered
    <2>1. k \notin 1 .. n
      BY <1>3 DEF n
    <2> DEFINE m == (k - n) + 1
    <2>2. m \in 2 .. Len(c) /\ Late(c[m]) /\ m \in 1 .. Len(c) /\ k \in Nat /\ k > n
      BY <1>1, <1>4, <2>1
    <2>3. PICK j \in 1 .. (m - 1) : Brings(c[j], x)
      BY <2>2 DEF Fit, Ordered
    <2>4. j # 1
      BY <2>3 DEF Brings
    <2> DEFINE h == n + (j - 1)
    <2>5. h \in 1 .. (k - 1) /\ h \in (n + 1) .. (n + Len(d)) /\ h - n = j - 1
          /\ j - 1 \in 1 .. (Len(c) - 1) /\ (j - 1) + 1 = j
      BY <1>1, <1>3, <2>2, <2>4
    <2>6. w[h] = d[h - n] /\ d[j - 1] = c[(j - 1) + 1]
      BY <1>1, <1>3, <2>5
    <2>7. w[h] = c[j]
      BY <2>5, <2>6
    <2> QED BY <2>3, <2>5, <2>7
  <1>8. ReturnsLast(w)
    <2> SUFFICES ASSUME NEW k \in 1 .. Len(w), w[k].op \in {"iret", "init"} PROVE k = Len(w)
      BY DEF ReturnsLast
    <2>1. k \notin 1 .. n
      BY <1>3 DEF n
    <2>2. (k - n) + 1 \in 1 .. Len(c) /\ c[(k - n) + 1].op \in {"iret", "init"} /\ k \in Nat
      BY <1>1, <1>4, <2>1
    <2>3. (k - n) + 1 = Len(c)
      BY <2>2 DEF Fit, ReturnsLast
    <2> QED BY <1>1, <1>3, <2>2, <2>3
  <1> QED BY <1>3, <1>5, <1>6, <1>7, <1>8 DEF Fit, w, d

\* Two instructions that are no locks.
LEMMA TwoInstrs ==
    ASSUME NEW o \in Ops, NEW a \in Args, o \notin {"lock", "unlock"},
           NEW p \in Ops, NEW b \in Args, p \notin {"lock", "unlock"}
    PROVE  LET c == <<I(o, a), I(p, b)>> IN
           /\ c \in Code /\ Len(c) = 2 /\ c[1] = I(o, a) /\ c[2] = I(p, b)
           /\ I(o, a).op = o /\ I(o, a).arg = a /\ I(p, b).op = p /\ I(p, b).arg = b
           /\ Closed(c) /\ HeapFree(c)
           /\ /\ o \notin {"enable", "iret", "init", "loop", "write"}
              /\ p \notin {"enable", "iret", "init", "loop", "write"}
              => Block(c)
  <1> DEFINE i == I(o, a)  j == I(p, b)  c == <<i, j>>
  <1>1. i \in InstrSet /\ i.op = o /\ i.arg = a /\ j \in InstrSet /\ j.op = p /\ j.arg = b
    BY Instrs
  <1> HIDE DEF i, j
  <1>2. c \in Code /\ Len(c) = 2 /\ c[1] = i /\ c[2] = j
    BY <1>1 DEF Code
  <1> HIDE DEF c
  <1>3. Closed(c)
    BY <1>1, <1>2 DEF Closed, Opens
  <1>4. HeapFree(c)
    BY <1>1, <1>2 DEF HeapFree, OnHeap
  <1>5. /\ o \notin {"enable", "iret", "init", "loop", "write"}
        /\ p \notin {"enable", "iret", "init", "loop", "write"}
        => Block(c)
    BY <1>1, <1>2, <1>3 DEF Block, Masking, Late
  <1> QED BY <1>1, <1>2, <1>3, <1>4, <1>5 DEF c, i, j

\* Where interrupts may arrive, the serial line is not being written.
LEMMA NotWriting ==
    ASSUME NEW c, NEW r, NEW s, Fit(c, TRUE, r, s)
    PROVE  c = << >> \/ c[1].op # "write"
  <1> SUFFICES ASSUME c # << >>, c[1].op = "write" PROVE FALSE
    OBVIOUS
  <1>1. c \in Code /\ 1 \in 1 .. Len(c)
    BY TailOf DEF Fit
  <1>2. 1 + 1 \in 1 .. Len(c) /\ Closes(c[1 + 1], "SERIAL1")
    BY <1>1 DEF Fit, Writes
  <1> QED BY <1>2 DEF Fit, Uninterrupted, Masking, Closes

\* Code d after code b.
LEMMA FitJoin ==
    ASSUME NEW b, NEW d, NEW f \in BOOLEAN, NEW r \in BOOLEAN, NEW s, NEW t,
           Fit(b, f, r, s), Fit(d, TRUE, r, t),
           \A k \in 1 .. Len(b) : b[k].op \notin {"iret", "init"},
           \A x \in {"idt", "lapic"} : x \in t => x \in s \/ \E j \in 1 .. Len(b) : Brings(b[j], x),
           \/ ScreenFree(b) /\ ScreenFree(d)
           \/ Len(b) >= 1 /\ Report(b[1])
           \/ ~Failing(b) /\ ~Failing(d)
    PROVE  Fit(b \o d, f, r, s)
  <1> DEFINE w == b \o d  n == Len(b)
  <1>0. b \in Code /\ d \in Code
    BY DEF Fit
  <1>w. Writes(w)
    BY <1>0, NotWriting, WritesConcat DEF Fit
  <1>1. /\ w \in Code /\ Closed(w) /\ n \in Nat /\ Len(d) \in Nat /\ Len(w) = n + Len(d)
        /\ \A k \in 1 .. n : w[k] = b[k]
        /\ \A k \in (n + 1) .. (n + Len(d)) : w[k] = d[k - n] /\ k - n \in 1 .. Len(d)
    BY <1>0, ConcatOf, ClosedConcat DEF Fit
  <1> HIDE DEF w, n
  <1>2. ASSUME NEW k \in 1 .. Len(w), k \notin 1 .. n
        PROVE  k - n \in 1 .. Len(d) /\ w[k] = d[k - n] /\ k \in Nat /\ k > n
    <2>1. k \in (n + 1) .. (n + Len(d)) /\ k \in Nat /\ k > n
      BY <1>1, <1>2
    <2> QED BY <1>1, <2>1
  <1>3. Uninterrupted(w, f)
    <2> SUFFICES ASSUME NEW k \in 1 .. Len(w), Masking(w[k])
                 PROVE  ~f /\ \A j \in 1 .. (k - 1) : w[j].op \in {"lock", "write"}
      BY DEF Uninterrupted
    <2>1. k \in 1 .. n
      BY <1>2 DEF Fit, Uninterrupted
    <2>2. ~f /\ \A j \in 1 .. (k - 1) : b[j].op \in {"lock", "write"}
      BY <1>1, <2>1 DEF Fit, Uninterrupted, n
    <2>3. \A j \in 1 .. (k - 1) : j \in 1 .. n
      BY <1>1, <2>1
    <2> QED BY <1>1, <2>2, <2>3
  <1>4. Reports(w, r)
    <2> SUFFICES ASSUME Failing(w), ~r, NEW k \in 1 .. Len(w), OnScreen(w[k])
                 PROVE  \E j \in 1 .. (k - 1) : Report(w[j])
      BY DEF Reports
    <2>1. ~(~Failing(b) /\ ~Failing(d))
      <3>1. PICK m \in 1 .. Len(w) : w[m].op = "loop"
        BY DEF Failing
      <3>2. CASE m \in 1 .. n
        BY <1>1, <3>1, <3>2 DEF Failing, n
      <3>3. CASE m \notin 1 .. n
        BY <1>2, <3>1, <3>3 DEF Failing
      <3> QED BY <3>2, <3>3
    <2>2. ~(ScreenFree(b) /\ ScreenFree(d))
      <3>1. CASE k \in 1 .. n
        BY <1>1, <3>1 DEF ScreenFree, n
      <3>2. CASE k \notin 1 .. n
        BY <1>2, <3>2 DEF ScreenFree
      <3> QED BY <3>1, <3>2
    <2>3. n >= 1 /\ Report(w[1])
      <3>1. n >= 1 /\ Report(b[1])
        BY <2>1, <2>2 DEF n
      <3>2. 1 \in 1 .. n
        BY <1>1, <3>1
      <3> QED BY <1>1, <3>1, <3>2
    <2>4. k # 1
      BY <2>3 DEF Report, OnScreen
    <2>5. 1 \in 1 .. (k - 1)
      BY <1>1, <2>4
    <2> QED BY <2>3, <2>5
  <1>5. Ordered(w, s)
    <2> SUFFICES ASSUME NEW k \in 1 .. Len(w), Late(w[k]), NEW x \in {"idt", "lapic"}, x \notin s
                 PROVE  \E j \in 1 .. (k - 1) : Brings(w[j], x)
      BY DEF Ordered
    <2>1. CASE k \in 1 .. n
      <3>1. PICK j \in 1 .. (k - 1) : Brings(b[j], x)
        BY <1>1, <2>1 DEF Fit, Ordered, n
      <3>2. j \in 1 .. n
        BY <1>1, <2>1
      <3> QED BY <1>1, <3>1, <3>2
    <2>2. CASE k \notin 1 .. n
      <3>1. k - n \in 1 .. Len(d) /\ Late(d[k - n]) /\ k \in Nat /\ k > n
        BY <1>2, <2>2
      <3>2. CASE x \in t
        <4>1. PICK j \in 1 .. n : Brings(b[j], x)
          BY <3>2 DEF n
        <4>2. j \in 1 .. (k - 1) /\ Brings(w[j], x)
          BY <1>1, <3>1, <4>1
        <4> QED BY <4>2
      <3>3. CASE x \notin t
        <4>1. PICK j \in 1 .. ((k - n) - 1) : Brings(d[j], x)
          BY <3>1, <3>3 DEF Fit, Ordered
        <4> DEFINE h == n + j
        <4>0. /\ n \in Nat /\ Len(d) \in Nat /\ j \in Nat /\ j >= 1 /\ j <= (k - n) - 1
              /\ k \in Nat /\ k - n <= Len(d)
          BY <1>1, <3>1
        <4>2. h \in 1 .. (k - 1) /\ h \in (n + 1) .. (n + Len(d)) /\ h - n = j
          BY <4>0
        <4>3. w[h] = d[h - n]
          BY <1>1, <4>2
        <4> QED BY <4>1, <4>2, <4>3
      <3> QED BY <3>2, <3>3
    <2> QED BY <2>1, <2>2
  <1>6. ReturnsLast(w)
    <2> SUFFICES ASSUME NEW k \in 1 .. Len(w), w[k].op \in {"iret", "init"} PROVE k = Len(w)
      BY DEF ReturnsLast
    <2>1. k \notin 1 .. n
      BY <1>1 DEF n
    <2>2. k - n \in 1 .. Len(d) /\ d[k - n].op \in {"iret", "init"} /\ k \in Nat
      BY <1>2, <2>1
    <2>3. k - n = Len(d)
      BY <2>2 DEF Fit, ReturnsLast
    <2> QED BY <1>1, <2>2, <2>3
  <1> QED BY <1>w, <1>1, <1>3, <1>4, <1>5, <1>6 DEF Fit, w

\* A panic or a fault.  Its message is at hand, or behind a user's pointer.
FailCode(c) ==
    /\ c \in Code /\ Closed(c) /\ Failing(c) /\ HeapFree(c)
    /\ Len(c) >= 1 /\ \E m \in {"report", "user"} : c[1] = I("without_interrupts", m)
    /\ \A k \in 1 .. Len(c) : ~Masking(c[k]) /\ ~Late(c[k]) /\ c[k].op # "write"

\* A block that reports first, and then loops.
LEMMA FailOf ==
    ASSUME NEW b, Block(b), HeapFree(b), Len(b) >= 1,
           NEW m \in {"report", "user"}, b[1] = I("without_interrupts", m)
    PROVE  FailCode(b \o <<I("loop", "")>>) /\ (b \o <<I("loop", "")>>)[1] = b[1]
  <1> DEFINE d == <<I("loop", "")>>  w == b \o d
  <1>1. d \in Code /\ Len(d) = 1 /\ d[1].op = "loop" /\ Closed(d) /\ HeapFree(d)
    <2>1. "loop" \in Ops /\ "" \in Args /\ "loop" \notin {"lock", "unlock"}
      BY DEF Ops, Args
    <2>2. I("loop", "").op = "loop"
      BY DEF I
    <2> QED BY <2>1, <2>2, OneInstr
  <1> HIDE DEF d
  <1>2. b \in Code /\ Closed(b)
    BY DEF Block
  <1>3. /\ w \in Code /\ Closed(w) /\ Len(b) \in Nat /\ Len(w) = Len(b) + 1
        /\ \A k \in 1 .. Len(b) : w[k] = b[k]
        /\ w[Len(b) + 1] = d[1]
        /\ HeapFree(w)
    <2>1. 1 \in 1 .. Len(d)
      BY <1>1
    <2>2. Closed(w) /\ HeapFree(w)
      BY <1>1, <1>2, ClosedConcat, HeapFreeConcat DEF Block
    <2>3. /\ w \in Code /\ Len(b) \in Nat /\ Len(w) = Len(b) + Len(d)
          /\ \A k \in 1 .. Len(b) : w[k] = b[k]
          /\ \A k \in 1 .. Len(d) : w[Len(b) + k] = d[k]
      BY <1>1, <1>2, ConcatOf
    <2> QED BY <1>1, <2>1, <2>2, <2>3
  <1> HIDE DEF w
  <1>4. Failing(w)
    BY <1>1, <1>3 DEF Failing
  <1>5. ASSUME NEW k \in 1 .. Len(w) PROVE ~Masking(w[k]) /\ ~Late(w[k]) /\ w[k].op # "write"
    <2>1. CASE k \in 1 .. Len(b)
      BY <1>3, <2>1 DEF Block
    <2>2. CASE k \notin 1 .. Len(b)
      <3>1. k = Len(b) + 1
        BY <1>3, <2>2
      <3> QED BY <1>1, <1>3, <3>1 DEF Masking, Late
    <2> QED BY <2>1, <2>2
  <1>6. Len(w) >= 1 /\ w[1] = b[1]
    BY <1>3
  <1> QED BY <1>3, <1>4, <1>5, <1>6 DEF FailCode, w, d

\* panic_handler and the fault handlers report first.
LEMMA FailPrograms ==
    /\ \A m \in {"report", "user"} : FailCode(PanicProgram(m))
    /\ FailCode(FaultProgram) /\ FaultProgram[1] = I("without_interrupts", "report")
  <1> DEFINE log == <<I("without_interrupts", "log")>>
  <1>1. Block(log) /\ HeapFree(log) /\ log \in Code
    <2>1. "without_interrupts" \in Ops /\ "log" \in Args
      BY DEF Ops, Args
    <2> QED BY <2>1, OneInstr
  <1>2. /\ Block(Console) /\ HeapFree(Console) /\ Console \in Code
        /\ \A m \in {"report", "user"} :
              /\ Block(LogPrint(m)) /\ HeapFree(LogPrint(m)) /\ LogPrint(m) \in Code
              /\ Len(LogPrint(m)) >= 1 /\ LogPrint(m)[1] = I("without_interrupts", m)
    BY Pieces DEF Block
  <1>3. ASSUME NEW m \in {"report", "user"} PROVE FailCode(PanicProgram(m))
    <2> DEFINE p == LogPrint(m)  b == p \o log  c == b \o Console
    <2>0. /\ Block(p) /\ HeapFree(p) /\ p \in Code /\ Len(p) >= 1
          /\ p[1] = I("without_interrupts", m)
      BY <1>2
    <2> HIDE DEF p, log
    <2>1. Block(b) /\ HeapFree(b) /\ b \in Code /\ Len(b) >= 1 /\ b[1] = I("without_interrupts", m)
      BY <1>1, <2>0, BlockConcat, HeapFreeConcat, FirstOf
    <2> HIDE DEF b
    <2>2. Block(c) /\ HeapFree(c) /\ Len(c) >= 1 /\ c[1] = I("without_interrupts", m)
      BY <1>2, <2>1, BlockConcat, HeapFreeConcat, FirstOf
    <2>3. PanicProgram(m) = c \o <<I("loop", "")>>
      BY DEF PanicProgram, c, b, p, log
    <2> HIDE DEF c
    <2> QED BY <2>2, <2>3, FailOf
  <1>4. FailCode(FaultProgram) /\ FaultProgram[1] = I("without_interrupts", "report")
    <2> DEFINE p == LogPrint("report")  b == p \o Console  c == b \o log
    <2>0. /\ Block(p) /\ HeapFree(p) /\ p \in Code /\ Len(p) >= 1
          /\ p[1] = I("without_interrupts", "report")
      BY <1>2
    <2> HIDE DEF p, log
    <2>1. /\ Block(b) /\ HeapFree(b) /\ b \in Code /\ Len(b) >= 1
          /\ b[1] = I("without_interrupts", "report")
      BY <1>2, <2>0, BlockConcat, HeapFreeConcat, FirstOf
    <2> HIDE DEF b
    <2>2. Block(c) /\ HeapFree(c) /\ Len(c) >= 1 /\ c[1] = I("without_interrupts", "report")
      BY <1>1, <2>1, BlockConcat, HeapFreeConcat, FirstOf
    <2>3. FaultProgram = c \o <<I("loop", "")>>
      BY DEF FaultProgram, c, b, p, log
    <2> HIDE DEF c
    <2> QED BY <2>2, <2>3, FailOf
  <1> QED BY <1>3, <1>4

\* A panic or a fault is sound anywhere.
LEMMA FitFail ==
    ASSUME NEW c, FailCode(c), NEW f, NEW r, NEW s
    PROVE  Fit(c, f, r, s)
  <1>1. Reports(c, r)
    <2> SUFFICES ASSUME NEW k \in 1 .. Len(c), OnScreen(c[k])
                 PROVE  \E j \in 1 .. (k - 1) : Report(c[j])
      BY DEF Reports
    <2>1. Report(c[1])
      BY DEF FailCode, Report, I
    <2>2. k # 1
      BY <2>1 DEF Report, OnScreen
    <2>3. 1 \in 1 .. (k - 1)
      BY <2>2
    <2> QED BY <2>1, <2>3
  <1> QED BY <1>1 DEF FailCode, Fit, Uninterrupted, Ordered, ReturnsLast, Late, Writes

\* An instruction of code after code is of one or the other.
LEMMA ConcatEach ==
    ASSUME NEW b \in Code, NEW c \in Code, NEW k \in 1 .. Len(b \o c)
    PROVE  \/ \E j \in 1 .. Len(b) : (b \o c)[k] = b[j]
           \/ \E j \in 1 .. Len(c) : (b \o c)[k] = c[j]
  <1>1. CASE k \in 1 .. Len(b)
    BY <1>1, ConcatOf
  <1>2. CASE k \notin 1 .. Len(b)
    <2>1. k \in (Len(b) + 1) .. (Len(b) + Len(c))
      BY <1>2, ConcatOf
    <2>2. (b \o c)[k] = c[k - Len(b)] /\ k - Len(b) \in 1 .. Len(c)
      BY <2>1, ConcatOf
    <2> QED BY <2>2
  <1> QED BY <1>1, <1>2

\* Code without the instruction o.
Without(c, o) == \A k \in 1 .. Len(c) : c[k].op # o

\* What code after code inherits.
LEMMA WithoutConcat ==
    ASSUME NEW b \in Code, NEW c \in Code
    PROVE  /\ \A o \in Ops : Without(b, o) /\ Without(c, o) => Without(b \o c, o)
           /\ ScreenFree(b) /\ ScreenFree(c) => ScreenFree(b \o c)
           /\ HeapFree(b) /\ HeapFree(c) => HeapFree(b \o c)
           /\ Failing(c) => Failing(b \o c)
           /\ ~Failing(b) /\ ~Failing(c) => ~Failing(b \o c)
  <1>1. ASSUME Failing(c) PROVE Failing(b \o c)
    <2>1. PICK k \in 1 .. Len(c) : c[k].op = "loop"
      BY <1>1 DEF Failing
    <2>2. /\ Len(b) \in Nat /\ Len(c) \in Nat /\ Len(b \o c) = Len(b) + Len(c)
          /\ (b \o c)[Len(b) + k] = c[k]
      BY ConcatOf
    <2>3. Len(b) + k \in 1 .. Len(b \o c)
      BY <2>2
    <2> QED BY <2>1, <2>2, <2>3 DEF Failing
  <1>2. \A o \in Ops : Without(b, o) /\ Without(c, o) => Without(b \o c, o)
    BY ConcatEach DEF Without
  <1>3. ScreenFree(b) /\ ScreenFree(c) => ScreenFree(b \o c)
    BY ConcatEach DEF ScreenFree
  <1>4. ~Failing(b) /\ ~Failing(c) => ~Failing(b \o c)
    BY ConcatEach DEF Failing
  <1> QED BY <1>1, <1>2, <1>3, <1>4, HeapFreeConcat

\* What the tail of code inherits.
LEMMA WithoutTail ==
    ASSUME NEW c \in Code, c # << >>
    PROVE  /\ \A o \in Ops : Without(c, o) => Without(Tail(c), o)
           /\ ScreenFree(c) => ScreenFree(Tail(c))
           /\ HeapFree(c) => HeapFree(Tail(c))
           /\ c[1].op # "loop" => (Failing(Tail(c)) <=> Failing(c))
  <1>1. \A k \in 1 .. Len(Tail(c)) : k + 1 \in 1 .. Len(c) /\ Tail(c)[k] = c[k + 1]
    BY TailOf
  <1>2. ASSUME c[1].op # "loop", Failing(c) PROVE Failing(Tail(c))
    <2>1. PICK k \in 1 .. Len(c) : c[k].op = "loop"
      BY <1>2 DEF Failing
    <2>2. k - 1 \in 1 .. Len(Tail(c)) /\ (k - 1) + 1 = k
      BY <1>2, <2>1, TailOf
    <2> QED BY <1>1, <2>1, <2>2 DEF Failing
  <1> QED BY <1>1, <1>2 DEF Without, ScreenFree, HeapFree, Failing

\* A block neither returns nor starts the init program, and calls _print to write.
LEMMA BlockWithout ==
    ASSUME NEW c, Block(c)
    PROVE  Without(c, "iret") /\ Without(c, "init") /\ Without(c, "write")
  BY DEF Block, Without, Late

Booted(s) == {"idt", "lapic"} \subseteq s

\* Code that ends a handler.
Ending(d) ==
    /\ d \in Code /\ Len(d) \in Nat /\ Len(d) >= 1 /\ Closed(d) /\ ScreenFree(d) /\ HeapFree(d)
    /\ \A k \in 1 .. Len(d) : d[k].op \in {"eoi", "iret"} /\ (d[k].op = "iret" => k = Len(d))

\* iretq, and eoi before it.
LEMMA Endings == Ending(<<I("iret", "")>>) /\ Ending(<<I("eoi", ""), I("iret", "")>>)
  <1>1. /\ "iret" \in Ops /\ "eoi" \in Ops /\ "" \in Args
        /\ "iret" \notin {"lock", "unlock"} /\ "eoi" \notin {"lock", "unlock"}
    BY DEF Ops, Args
  <1>2. Ending(<<I("iret", "")>>)
    <2> DEFINE d == <<I("iret", "")>>
    <2>1. I("iret", "").op = "iret"
      BY DEF I
    <2>2. d \in Code /\ Len(d) = 1 /\ Closed(d) /\ HeapFree(d) /\ d[1].op = "iret"
      BY <1>1, <2>1, OneInstr
    <2> HIDE DEF d
    <2>3. \A k \in 1 .. Len(d) : k = 1
      BY <2>2
    <2>4. ScreenFree(d)
      BY <2>2, <2>3 DEF ScreenFree, OnScreen
    <2>5. Ending(d)
      BY <2>2, <2>3, <2>4 DEF Ending
    <2> QED BY <2>5 DEF d
  <1>3. Ending(<<I("eoi", ""), I("iret", "")>>)
    <2> DEFINE d == <<I("eoi", ""), I("iret", "")>>
    <2>2. d \in Code /\ Len(d) = 2 /\ Closed(d) /\ HeapFree(d) /\ d[1].op = "eoi" /\ d[2].op = "iret"
      BY <1>1, TwoInstrs
    <2> HIDE DEF d
    <2>3. \A k \in 1 .. Len(d) : k = 1 \/ k = 2
      BY <2>2
    <2>4. ScreenFree(d)
      BY <2>2, <2>3 DEF ScreenFree, OnScreen
    <2>5. Ending(d)
      BY <2>2, <2>3, <2>4 DEF Ending
    <2> QED BY <2>5 DEF d
  <1> QED BY <1>2, <1>3

\* Code for a handler.
LEMMA Returning ==
    ASSUME NEW b, NEW r \in BOOLEAN, NEW s, Booted(s),
           Fit(b, FALSE, r, s), Without(b, "iret"), Without(b, "init"),
           ~Failing(b) \/ (Len(b) >= 1 /\ Report(b[1])),
           Without(b, "write"), NEW d, Ending(d)
    PROVE  Fit(b \o d, FALSE, r, s) /\ Without(b \o d, "init") /\ Without(b \o d, "write")
  <1>3. ~Failing(d) /\ Without(d, "init") /\ Without(d, "write") /\ d \in Code
    BY DEF Failing, Without, Ending
  <1>4. Fit(d, TRUE, r, s)
    BY <1>3 DEF Fit, Uninterrupted, Masking, Reports, Ordered, ReturnsLast, Booted, Ending, Writes
  <1>5. \A k \in 1 .. Len(b) : b[k].op \notin {"iret", "init"}
    BY DEF Without
  <1>6. Fit(b \o d, FALSE, r, s)
    BY <1>3, <1>4, <1>5, FitJoin
  <1>7. b \in Code /\ "init" \in Ops /\ "write" \in Ops
    BY DEF Fit, Ops
  <1> QED BY <1>3, <1>6, <1>7, WithoutConcat

-----------------------------------------------------------------------------
(* kernel_main.                                                            *)

\* kernel_main sets up IDT and LAPIC in a block, before interrupts.
LEMMA BootBefore ==
    \E b : /\ Block(b) /\ \A x \in {"idt", "lapic"} : \E j \in 1 .. Len(b) : Brings(b[j], x)
           /\ BootProgram = (((((((((((b \o LogPrint("log")) \o <<I("enable", "")>>) \o LogPrint("log"))
                \o Alloc) \o <<I("ready", "queue")>>) \o Alloc) \o <<I("expect", "")>>)
                \o LogPrint("log")) \o <<I("init", "")>>)))
  <1> DEFINE
        a1 == <<I("without_interrupts", "log"), I("expect", "")>>
        a3 == With("TTY", <<I("ready", "tty")>>)
        p  == LogPrint("log")
        e  == <<I("expect", "")>>
        a7 == <<I("ready", "heap"), I("expect", "")>>
        a12 == <<I("ready", "idt")>>
        a13 == <<I("expect", ""), I("ready", "lapic")>>
        b1 == a1 \o Pixels
        b2 == b1 \o a3
        b3 == b2 \o Console
        b4 == b3 \o p
        b5 == b4 \o e
        b6 == b5 \o a7
        b7 == b6 \o Pixels
        b8 == b7 \o e
        b9 == b8 \o Alloc
        b10 == b9 \o p
        b11 == b10 \o a12
        b12 == b11 \o a13
  <1>1. Block(a1) /\ Block(e) /\ Block(a7) /\ Block(a12) /\ Block(a13)
    <2>1. /\ "without_interrupts" \in Ops /\ "expect" \in Ops /\ "ready" \in Ops
          /\ "log" \in Args /\ "" \in Args /\ "heap" \in Args /\ "idt" \in Args /\ "lapic" \in Args
      BY DEF Ops, Args
    <2>2. ASSUME NEW o \in {"without_interrupts", "expect", "ready"}, NEW x \in Args,
                 NEW q \in {"without_interrupts", "expect", "ready"}, NEW y \in Args
          PROVE  Block(<<I(o, x), I(q, y)>>) /\ Block(<<I(o, x)>>)
      <3>1. /\ o \in Ops /\ o \notin {"lock", "unlock"} /\ o \notin {"enable", "iret", "init", "loop", "write"}
            /\ q \in Ops /\ q \notin {"lock", "unlock"} /\ q \notin {"enable", "iret", "init", "loop", "write"}
        BY <2>1
      <3>2. Block(<<I(o, x), I(q, y)>>)
        BY <3>1, TwoInstrs
      <3>3. Block(<<I(o, x)>>)
        BY <3>1, OneInstr
      <3> QED BY <3>2, <3>3
    <2>3. Block(a1)
      BY <2>1, <2>2
    <2>4. Block(a7)
      BY <2>1, <2>2
    <2>5. Block(a13)
      BY <2>1, <2>2
    <2>6. Block(e)
      BY <2>1, <2>2
    <2>7. Block(a12)
      BY <2>1, <2>2
    <2> QED BY <2>3, <2>4, <2>5, <2>6, <2>7
  <1>2. Block(a3)
    <2> DEFINE i == I("ready", "tty")
    <2>1. i \in InstrSet /\ i.op = "ready" /\ i.arg = "tty"
      BY Instrs DEF Ops, Args
    <2> HIDE DEF i
    <2>2. "TTY" \in Locks /\ "TTY" \notin {"SERIAL1", "RTL8139"} /\ ~Breaks(i, "TTY") /\ ~Late(i)
      BY <2>1 DEF Locks, Breaks, Late, Opens, Private
    <2>3. Block(With("TTY", <<i>>))
      BY <2>1, <2>2, WithOne
    <2> QED BY <2>3 DEF i
  <1>3. Block(p) /\ Block(Pixels) /\ Block(Console) /\ Block(Alloc)
    BY Pieces
  <1>4. Len(a12) = 1 /\ Brings(a12[1], "idt")
    BY DEF Brings, I
  <1>5. Len(a13) = 2 /\ Brings(a13[2], "lapic")
    BY DEF Brings, I
  <1>6. BootProgram = (((((((((((b12 \o p) \o <<I("enable", "")>>) \o p)
            \o Alloc) \o <<I("ready", "queue")>>) \o Alloc) \o e) \o p) \o <<I("init", "")>>)))
    BY DEF BootProgram
  <1> HIDE DEF a1, a3, p, e, a7, a12, a13
  <1>7. Block(b10)
    <2>1. Block(b4)
      <3>1. Block(b2)
        BY <1>1, <1>2, <1>3, BlockConcat
      <3> HIDE DEF b2
      <3> QED BY <1>3, <3>1, BlockConcat
    <2> HIDE DEF b4
    <2>2. Block(b6)
      BY <1>1, <2>1, BlockConcat
    <2> HIDE DEF b6
    <2>3. Block(b8)
      BY <1>1, <1>3, <2>2, BlockConcat
    <2> HIDE DEF b8
    <2> QED BY <1>3, <2>3, BlockConcat
  <1>8. Block(b11) /\ b11 = b10 \o a12
    BY <1>1, <1>7, BlockConcat
  <1> HIDE DEF b10
  <1>9. Block(b12) /\ b12 = b11 \o a13
    BY <1>1, <1>8, BlockConcat
  <1> HIDE DEF b11, b12
  <1>10. b10 \in Code /\ b11 \in Code /\ b12 \in Code /\ a12 \in Code /\ a13 \in Code
    BY <1>1, <1>7, <1>8, <1>9 DEF Block
  <1>11. /\ Len(b10) \in Nat /\ Len(b11) = Len(b10) + 1 /\ Len(b12) = Len(b11) + 2
         /\ b11[Len(b10) + 1] = a12[1]
         /\ b12[Len(b10) + 1] = b11[Len(b10) + 1]
         /\ b12[Len(b11) + 2] = a13[2]
    <2>1. 1 \in 1 .. Len(a12) /\ 2 \in 1 .. Len(a13)
      BY <1>4, <1>5
    <2>2. /\ Len(b10) \in Nat /\ Len(b11) = Len(b10) + Len(a12) /\ b11[Len(b10) + 1] = a12[1]
      BY <1>8, <1>10, <2>1, ConcatOf
    <2>3. Len(b10) + 1 \in 1 .. Len(b11)
      BY <1>4, <2>2
    <2>4. Len(b12) = Len(b11) + Len(a13) /\ b12[Len(b11) + 2] = a13[2] /\ b12[Len(b10) + 1] = b11[Len(b10) + 1]
      BY <1>9, <1>10, <2>1, <2>3, ConcatOf
    <2> QED BY <1>4, <1>5, <2>2, <2>4
  <1>12. \E j \in 1 .. Len(b12) : Brings(b12[j], "idt")
    BY <1>4, <1>11
  <1>13. \E j \in 1 .. Len(b12) : Brings(b12[j], "lapic")
    <2>1. Len(b11) + 2 \in 1 .. Len(b12)
      BY <1>11
    <2> QED BY <1>5, <1>11, <2>1
  <1> QED BY <1>6, <1>9, <1>12, <1>13 DEF p, e

\* Code that kernel_main runs: nothing panics for good, and what brings the
\* interrupts on comes late.
Boots(c) == Fit(c, FALSE, FALSE, {}) /\ ~Failing(c)
            /\ Without(c, "iret") /\ Without(c, "init") /\ Without(c, "write")
            /\ \A x \in {"idt", "lapic"} : \E j \in 1 .. Len(c) : Brings(c[j], x)

\* kernel_main goes on after that block.
LEMMA BootsJoin ==
    ASSUME NEW b, NEW d, Boots(b), Fit(d, TRUE, FALSE, {"idt", "lapic"}), ~Failing(d),
           Without(d, "iret"), Without(d, "write")
    PROVE  /\ Fit(b \o d, FALSE, FALSE, {}) /\ ~Failing(b \o d)
           /\ Without(b \o d, "iret") /\ Without(b \o d, "write")
           /\ Without(d, "init") => Boots(b \o d)
  <1>0. b \in Code /\ d \in Code /\ "iret" \in Ops /\ "init" \in Ops /\ "write" \in Ops
    BY DEF Boots, Fit, Ops
  <1>1. \A k \in 1 .. Len(b) : b[k].op \notin {"iret", "init"}
    BY DEF Boots, Without
  <1>2. Fit(b, FALSE, FALSE, {}) /\ ~Failing(b)
        /\ \A x \in {"idt", "lapic"} : \E j \in 1 .. Len(b) : Brings(b[j], x)
    BY DEF Boots
  <1>3. Fit(b \o d, FALSE, FALSE, {})
    BY <1>1, <1>2, FitJoin
  <1>4. ASSUME NEW x \in {"idt", "lapic"} PROVE \E j \in 1 .. Len(b \o d) : Brings((b \o d)[j], x)
    <2>1. PICK j \in 1 .. Len(b) : Brings(b[j], x)
      BY <1>2
    <2>2. (b \o d)[j] = b[j] /\ Len(b \o d) = Len(b) + Len(d) /\ Len(b) \in Nat /\ Len(d) \in Nat
      BY <1>0, ConcatOf
    <2>3. j \in 1 .. Len(b \o d)
      BY <2>2
    <2> QED BY <2>1, <2>2, <2>3
  <1> QED BY <1>0, <1>2, <1>3, <1>4, WithoutConcat DEF Boots

\* kernel_main is sound.
LEMMA BootFits ==
    /\ Fit(BootProgram, FALSE, FALSE, {})
    /\ Without(BootProgram, "iret") /\ Without(BootProgram, "write")
  <1> DEFINE p == LogPrint("log")  on == <<I("enable", "")>>  q == <<I("ready", "queue")>>
             e == <<I("expect", "")>>  z == <<I("init", "")>>
             Joins(d) == Fit(d, TRUE, FALSE, {"idt", "lapic"}) /\ ~Failing(d)
                         /\ Without(d, "iret") /\ Without(d, "write")
  <1>1. PICK b : /\ Block(b) /\ \A x \in {"idt", "lapic"} : \E j \in 1 .. Len(b) : Brings(b[j], x)
                 /\ BootProgram = (((((((((((b \o p) \o on) \o p) \o Alloc) \o q) \o Alloc) \o e) \o p) \o z)))
    BY BootBefore
  <1>2. Boots(b)
    BY <1>1, FitBlock, BlockWithout DEF Boots
  <1>3. \A d : Block(d) => Joins(d) /\ Without(d, "init")
    BY FitBlock, BlockWithout
  <1>4. Block(q) /\ Block(e)
    <2>1. "ready" \in Ops /\ "expect" \in Ops /\ "queue" \in Args /\ "" \in Args
      BY DEF Ops, Args
    <2> QED BY <2>1, OneInstr
  <1>5. Joins(on) /\ Without(on, "init") /\ Joins(z)
    <2>1. ASSUME NEW o \in {"enable", "init"}
          PROVE  Joins(<<I(o, "")>>) /\ (o = "enable" => Without(<<I(o, "")>>, "init"))
      <3> DEFINE d == <<I(o, "")>>
      <3>1. o \in Ops /\ "" \in Args /\ o \notin {"lock", "unlock"} /\ I(o, "").op = o
        BY DEF Ops, Args, I
      <3>2. d \in Code /\ Len(d) = 1 /\ Closed(d) /\ d[1].op = o
        BY <3>1, OneInstr
      <3> HIDE DEF d
      <3>3. \A k \in 1 .. Len(d) : k = 1
        BY <3>2
      <3>4. /\ ~Failing(d) /\ Without(d, "iret") /\ Without(d, "write")
            /\ (o = "enable" => Without(d, "init"))
        BY <3>2, <3>3 DEF Failing, Without
      <3>5. Fit(d, TRUE, FALSE, {"idt", "lapic"})
        BY <3>2, <3>3, <3>4 DEF Fit, Uninterrupted, Masking, Reports, Ordered, ReturnsLast, Writes
      <3> QED BY <3>4, <3>5 DEF d
    <2> QED BY <2>1
  <1>6. Block(p) /\ Block(Alloc)
    BY Pieces
  <1>7. Joins(p) /\ Without(p, "init") /\ Joins(Alloc) /\ Without(Alloc, "init")
        /\ Joins(q) /\ Without(q, "init") /\ Joins(e) /\ Without(e, "init")
    BY <1>3, <1>4, <1>6
  <1> HIDE DEF p, on, q, e, z
  <1>8. Boots(b \o p)
    BY <1>2, <1>7, BootsJoin
  <1>9. PICK c : c = b \o p
    OBVIOUS
  <1>10. Boots(c \o on)
    BY <1>5, <1>8, <1>9, BootsJoin
  <1>11. PICK c2 : c2 = c \o on
    OBVIOUS
  <1>12. Boots(c2 \o p)
    BY <1>7, <1>10, <1>11, BootsJoin
  <1>13. PICK c3 : c3 = c2 \o p
    OBVIOUS
  <1>14. Boots(c3 \o Alloc)
    BY <1>7, <1>12, <1>13, BootsJoin
  <1>15. PICK c4 : c4 = c3 \o Alloc
    OBVIOUS
  <1>16. Boots(c4 \o q)
    BY <1>7, <1>14, <1>15, BootsJoin
  <1>17. PICK c5 : c5 = c4 \o q
    OBVIOUS
  <1>18. Boots(c5 \o Alloc)
    BY <1>7, <1>16, <1>17, BootsJoin
  <1>19. PICK c6 : c6 = c5 \o Alloc
    OBVIOUS
  <1>20. Boots(c6 \o e)
    BY <1>7, <1>18, <1>19, BootsJoin
  <1>21. PICK c7 : c7 = c6 \o e
    OBVIOUS
  <1>22. Boots(c7 \o p)
    BY <1>7, <1>20, <1>21, BootsJoin
  <1>23. PICK c8 : c8 = c7 \o p
    OBVIOUS
  <1>24. Fit(c8 \o z, FALSE, FALSE, {}) /\ Without(c8 \o z, "iret") /\ Without(c8 \o z, "write")
    BY <1>5, <1>22, <1>23, BootsJoin
  <1>25. BootProgram = c8 \o z
    BY <1>1, <1>9, <1>11, <1>13, <1>15, <1>17, <1>19, <1>21, <1>23
  <1> QED BY <1>24, <1>25

-----------------------------------------------------------------------------
(* The state.                                                              *)

\* Only the innermost contexts use the heap or the screen: kernel_main, a
\* call of the user program (which holds nothing), a panic or a fault.
Placed(d) ==
    \/ d = 1
    \/ d = 2 /\ stack[1].todo = << >>
    \/ /\ HeapFree(stack[d].todo)
       /\ ScreenFree(stack[d].todo) \/ Failing(stack[d].todo)

\* The context has got its message out.
Told(d) == stack[d].message = "out"

Good(d) ==
    /\ Fit(stack[d].todo, IF_ \/ d < Depth, Told(d), ready)
    /\ Placed(d)
    /\ d = 1 => Without(stack[d].todo, "iret")
    /\ d > 1 => Without(stack[d].todo, "init")

\* A context is inside the section of a lock it owns, unless it failed there.
Owned(d) ==
    \A l \in Locks :
        owner[l] = d /\ (l \in Private \/ ~Failing(stack[d].todo)) => Held(stack[d].todo, l)

\* Who writes to the serial line holds its lock.
Writing == todo # << >> /\ todo[1].op = "write" => owner["SERIAL1"] = Depth

Kinds == {"main", "fault", "syscall"} \cup DOMAIN IrqPrograms

Frames == [kind : Kinds, todo : Code, message : Messages]

Typed ==
    /\ stack \in Seq(Frames)
    /\ Depth >= 1
    /\ owner \in [Locks -> Nat] /\ \A l \in Locks : owner[l] <= Depth
    /\ IF_ \in BOOLEAN
    /\ IF_ \/ mode # "boot" => Booted(ready)

KInv == Typed /\ Writing /\ \A d \in 1 .. Depth : Good(d) /\ Owned(d)

\* Sound code stays sound when more is reported or set up.
LEMMA FitGrows ==
    ASSUME NEW c, NEW f, NEW r \in BOOLEAN, NEW s, Fit(c, f, r, s),
           NEW q \in BOOLEAN, r => q, NEW t, s \subseteq t
    PROVE  Fit(c, f, q, t)
  <1>1. Reports(c, q)
    BY DEF Fit, Reports
  <1>2. Ordered(c, t)
    BY DEF Fit, Ordered
  <1> QED BY <1>1, <1>2 DEF Fit

\* A context without code is inside no section.
LEMMA HeldNothing ==
    ASSUME NEW l PROVE ~Held(<< >>, l) /\ ~Failing(<< >>)
  BY DEF Held, Failing

\* What the invariant says of the context that runs.
LEMMA Running ==
    ASSUME KInv
    PROVE  /\ Depth \in Nat /\ Depth >= 1 /\ todo = stack[Depth].todo /\ todo \in Code
           /\ Fit(todo, IF_, Told(Depth), ready) /\ Good(Depth) /\ Owned(Depth)
           /\ IF_ \in BOOLEAN /\ Told(Depth) \in BOOLEAN
           /\ todo # << >> => Instr = todo[1] /\ Instr \in InstrSet
  <1>1. Depth \in Nat /\ Depth >= 1 /\ IF_ \in BOOLEAN /\ Told(Depth) \in BOOLEAN
    BY DEF KInv, Typed, Depth, Told
  <1>2. Depth \in 1 .. Depth /\ ~(Depth < Depth)
    BY <1>1
  <1>3. todo = stack[Depth].todo
    BY DEF todo, Top
  <1>4. Good(Depth) /\ Owned(Depth)
    BY <1>2 DEF KInv
  <1>5. Fit(todo, IF_ \/ Depth < Depth, Told(Depth), ready)
    BY <1>3, <1>4 DEF Good
  <1>6. (IF_ \/ Depth < Depth) = IF_
    BY <1>1, <1>2
  <1>7. Fit(todo, IF_, Told(Depth), ready)
    BY <1>5, <1>6
  <1>8. todo \in Code
    BY <1>7 DEF Fit
  <1>9. todo # << >> => Instr = todo[1] /\ Instr \in InstrSet
    BY <1>8, TailOf DEF Instr
  <1> QED BY <1>1, <1>3, <1>4, <1>7, <1>8, <1>9

\* The running context goes on with code n.
LEMMA ContinueKeeps ==
    ASSUME KInv, NEW n \in Code, NEW m \in Messages, Becomes(n, m),
           IF_' \in BOOLEAN, ready \subseteq ready',
           IF_' \/ mode' # "boot" => Booted(ready'),
           Fit(n, IF_', m = "out", ready'),
           n = << >> \/ n[1].op # "write" \/ owner'["SERIAL1"] = Depth,
           owner' \in [Locks -> Nat],
           \A l \in Locks : owner'[l] \in {owner[l], 0, Depth},
           \A l \in Locks :
              owner'[l] = Depth /\ (l \in Private \/ ~Failing(n)) => Held(n, l),
           Depth = 1 => Without(n, "iret"),
           Depth > 1 => /\ Without(n, "init")
                        /\ HeapFree(todo) => HeapFree(n)
                        /\ ScreenFree(todo) \/ Failing(todo) => ScreenFree(n) \/ Failing(n)
    PROVE  KInv'
  <1>1. /\ stack' \in Seq(Frames) /\ Depth' = Depth /\ Depth \in Nat /\ Depth >= 1
        /\ stack'[Depth].todo = n /\ stack'[Depth].message = m
        /\ \A d \in 1 .. Depth : d # Depth => stack'[d] = stack[d]
    <2>1. stack \in Seq(Frames) /\ Len(stack) \in Nat /\ Len(stack) >= 1
      BY DEF KInv, Typed, Depth
    <2>2. stack[Len(stack)] \in Frames
      BY <2>1
    <2> DEFINE x == [kind |-> Top.kind, todo |-> n, message |-> m]
    <2>3. x \in Frames /\ x.todo = n /\ x.message = m
      BY <2>2 DEF Frames, Top, Depth
    <2>4. stack' = [stack EXCEPT ![Len(stack)] = x]
      BY DEF Becomes, Depth
    <2> HIDE DEF x
    <2>6. /\ stack' \in Seq(Frames) /\ Len(stack') = Len(stack) /\ stack'[Len(stack)] = x
          /\ \A d \in 1 .. Len(stack) : d # Len(stack) => stack'[d] = stack[d]
      BY <2>1, <2>3, <2>4
    <2> QED BY <2>1, <2>3, <2>6 DEF Depth
  <1>2. Typed'
    <2>1. \A l \in Locks : owner[l] <= Depth
      BY DEF KInv, Typed
    <2>2. \A l \in Locks : owner'[l] <= Depth
      BY <1>1, <2>1
    <2> QED BY <1>1, <2>2 DEF Typed, Booted
  <1>w. Writing'
    <2>1. todo' = n
      BY <1>1 DEF todo, Top
    <2> QED BY <1>1, <2>1 DEF Writing
  <1>3. ASSUME NEW d \in 1 .. Depth, d # Depth PROVE Good(d)' /\ Owned(d)'
    <2>1. stack'[d] = stack[d] /\ d < Depth /\ d < Depth'
      BY <1>1, <1>3
    <2>2. Good(d) /\ Owned(d)
      BY DEF KInv
    <2>3. Fit(stack[d].todo, TRUE, Told(d), ready)
      <3>1. (IF_ \/ d < Depth) = TRUE
        BY <2>1
      <3>2. Fit(stack[d].todo, IF_ \/ d < Depth, Told(d), ready)
        BY <2>2 DEF Good
      <3> QED BY <3>1, <3>2
    <2>4. Fit(stack[d].todo, TRUE, Told(d), ready')
      <3>1. Told(d) \in BOOLEAN
        BY DEF Told
      <3> QED BY <2>3, <3>1, FitGrows
    <2>5. Fit(stack'[d].todo, IF_' \/ d < Depth', Told(d)', ready')
      <3>1. (IF_' \/ d < Depth') = TRUE
        BY <2>1
      <3>2. Told(d)' = Told(d)
        BY <2>1 DEF Told
      <3> QED BY <2>1, <2>4, <3>1, <3>2
    <2>6. Placed(d)'
      <3>1. d = 2 => stack'[1] = stack[1]
        BY <1>1, <2>1
      <3> QED BY <2>1, <2>2, <3>1 DEF Good, Placed
    <2>7. Good(d)'
      BY <2>1, <2>2, <2>5, <2>6 DEF Good
    <2>8. Owned(d)'
      <3>1. \A l \in Locks : owner'[l] = d => owner[l] = d
        BY <1>1, <1>3
      <3> QED BY <2>1, <2>2, <3>1 DEF Owned
    <2> QED BY <2>7, <2>8
  <1>4. Good(Depth)' /\ Owned(Depth)'
    <2>0. /\ Good(Depth) /\ todo = stack[Depth].todo
      BY Running
    <2>1. Fit(stack'[Depth'].todo, IF_' \/ Depth' < Depth', Told(Depth)', ready')
      <3>1. (IF_' \/ Depth' < Depth') = IF_'
        BY <1>1
      <3>2. Told(Depth)' = (m = "out")
        BY <1>1 DEF Told
      <3> QED BY <1>1, <3>1, <3>2
    <2>2. Placed(Depth)'
      <3>1. Depth = 2 => stack'[1] = stack[1]
        BY <1>1
      <3>2. Placed(Depth)
        BY <2>0 DEF Good
      <3> QED BY <1>1, <2>0, <3>1, <3>2 DEF Placed
    <2>3. Good(Depth)'
      BY <1>1, <2>1, <2>2 DEF Good
    <2>4. Owned(Depth)'
      BY <1>1 DEF Owned
    <2> QED BY <2>3, <2>4
  <1>5. ASSUME NEW d \in 1 .. Depth' PROVE Good(d)' /\ Owned(d)'
    <2>1. CASE d = Depth
      BY <1>1, <1>4, <2>1
    <2>2. CASE d # Depth
      BY <1>1, <1>3, <2>2
    <2> QED BY <2>1, <2>2
  <1> QED BY <1>2, <1>w, <1>5 DEF KInv

\* A context enters on top of the one that runs.
LEMMA EnterKeeps ==
    ASSUME KInv, NEW kind \in Kinds, NEW n \in Code, NEW m \in Messages,
           Enter(kind, n, m), UNCHANGED <<owner, ready, mode>>,
           Uninterrupted(todo, TRUE),
           Fit(n, FALSE, m = "out", ready), Without(n, "init"), Without(n, "write"),
           \/ Depth = 1 /\ todo = << >>
           \/ HeapFree(n) /\ (ScreenFree(n) \/ Failing(n))
    PROVE  KInv'
  <1>1. /\ stack' \in Seq(Frames) /\ Depth' = Depth + 1
        /\ Depth \in Nat /\ Depth >= 1
        /\ stack'[Depth + 1].todo = n /\ stack'[Depth + 1].message = m
        /\ \A d \in 1 .. Depth : stack'[d] = stack[d]
        /\ IF_' = FALSE
    <2> DEFINE x == [kind |-> kind, todo |-> n, message |-> m]
    <2>1. x \in Frames /\ x.todo = n /\ x.message = m
      BY DEF Frames
    <2>2. stack' = Append(stack, x) /\ IF_' = FALSE /\ stack \in Seq(Frames) /\ Len(stack) >= 1
      BY DEF KInv, Typed, Depth, Enter
    <2> HIDE DEF x
    <2> QED BY <2>1, <2>2 DEF Depth
  <1>2. Typed'
    <2>1. /\ owner \in [Locks -> Nat] /\ \A l \in Locks : owner[l] <= Depth
          /\ mode # "boot" => Booted(ready)
      BY DEF KInv, Typed
    <2>2. owner' \in [Locks -> Nat] /\ \A l \in Locks : owner'[l] <= Depth'
      BY <1>1, <2>1
    <2>3. IF_' \/ mode' # "boot" => Booted(ready')
      BY <1>1, <2>1
    <2>4. IF_' \in BOOLEAN
      BY <1>1
    <2>6. Depth' >= 1
      BY <1>1
    <2> QED BY <1>1, <2>2, <2>3, <2>4, <2>6 DEF Typed, Booted
  <1>w. Writing'
    <2>1. todo' = n
      BY <1>1 DEF todo, Top
    <2>2. n # << >> => 1 \in 1 .. Len(n)
      BY TailOf
    <2> QED BY <2>1, <2>2 DEF Writing, Without
  <1>3. ASSUME NEW d \in 1 .. Depth PROVE Good(d)' /\ Owned(d)'
    <2>1. stack'[d] = stack[d] /\ d < Depth'
      BY <1>1
    <2>2. Good(d) /\ Owned(d)
      BY DEF KInv
    <2>3. Fit(stack[d].todo, TRUE, Told(d), ready)
      <3>1. CASE d = Depth
        <4>1. todo = stack[d].todo /\ Fit(todo, IF_, Told(d), ready)
          BY <3>1, Running
        <4> QED BY <4>1 DEF Fit
      <3>2. CASE d # Depth
        <4>1. (IF_ \/ d < Depth) = TRUE
          BY <1>1, <3>2
        <4>2. Fit(stack[d].todo, IF_ \/ d < Depth, Told(d), ready)
          BY <2>2 DEF Good
        <4> QED BY <4>1, <4>2
      <3> QED BY <3>1, <3>2
    <2>5. Fit(stack'[d].todo, IF_' \/ d < Depth', Told(d)', ready')
      <3>1. (IF_' \/ d < Depth') = TRUE
        BY <2>1
      <3>2. Told(d)' = Told(d)
        BY <2>1 DEF Told
      <3> QED BY <2>1, <2>3, <3>1, <3>2
    <2>6. Placed(d)'
      <3>1. d = 2 => stack'[1] = stack[1]
        BY <1>1
      <3> QED BY <2>1, <2>2, <3>1 DEF Good, Placed
    <2>7. Good(d)'
      BY <2>1, <2>2, <2>5, <2>6 DEF Good
    <2>8. Owned(d)'
      BY <2>1, <2>2 DEF Owned
    <2> QED BY <2>7, <2>8
  <1>4. ASSUME NEW d, d = Depth + 1 PROVE Good(d)' /\ Owned(d)'
    <2>1. Fit(stack'[d].todo, IF_' \/ d < Depth', stack'[d].message = "out", ready')
      <3>1. (IF_' \/ d < Depth') = FALSE
        BY <1>1, <1>4
      <3>2. (stack'[d].message = "out") = (m = "out")
        BY <1>1, <1>4
      <3> QED BY <1>1, <1>4, <3>1, <3>2
    <2>2. Placed(d)'
      <3>1. CASE Depth = 1 /\ todo = << >>
        <4>1. stack'[1].todo = << >>
          BY <1>1, <3>1 DEF todo, Top
        <4> QED BY <1>4, <3>1, <4>1 DEF Placed
      <3>2. CASE HeapFree(n) /\ (ScreenFree(n) \/ Failing(n))
        BY <1>1, <1>4, <3>2 DEF Placed
      <3> QED BY <3>1, <3>2
    <2>3. Good(d)'
      BY <1>1, <1>4, <2>1, <2>2 DEF Good, Told
    <2>4. Owned(d)'
      <3>1. \A l \in Locks : owner'[l] # d
        BY <1>1, <1>4 DEF KInv, Typed
      <3> QED BY <3>1 DEF Owned
    <2> QED BY <2>3, <2>4
  <1>5. ASSUME NEW d \in 1 .. Depth' PROVE Good(d)' /\ Owned(d)'
    <2>1. d \in 1 .. Depth \/ d = Depth + 1
      BY <1>1
    <2> QED BY <1>3, <1>4, <2>1
  <1> QED BY <1>2, <1>w, <1>5 DEF KInv

\* The parts of the invariant that the actions need.
LEMMA TypedParts ==
    ASSUME KInv
    PROVE  /\ IF_ \in BOOLEAN /\ Top.message \in Messages /\ owner \in [Locks -> Nat]
           /\ Depth \in Nat /\ Depth >= 1
           /\ IF_ \/ mode # "boot" => Booted(ready)
  <1>1. stack \in Seq(Frames) /\ Depth \in Nat /\ Depth >= 1 /\ Len(stack) = Depth
    BY DEF KInv, Typed, Depth
  <1>2. stack[Depth] \in Frames
    BY <1>1
  <1>3. Top.message \in Messages
    BY <1>2 DEF Top, Frames
  <1> QED BY <1>1, <1>3 DEF KInv, Typed

\* The running context has executed its first instruction.
LEMMA TailKeeps ==
    ASSUME KInv, todo # << >>, NEW m \in Messages, Becomes(Tail(todo), m), Instr.op # "loop",
           IF_' \in BOOLEAN, IF_' => IF_ \/ Instr.op \notin {"lock", "write"},
           Told(Depth) \/ Report(Instr) => m = "out",
           ready \subseteq ready', \A x \in {"idt", "lapic"} : Brings(Instr, x) => x \in ready',
           IF_' \/ mode' # "boot" => Booted(ready'),
           owner' \in [Locks -> Nat],
           \A l \in Locks : owner'[l] \in {owner[l], 0, Depth},
           \A l \in Locks : Opens(Instr, l) => owner'[l] = Depth,
           \A l \in Locks :
              owner'[l] = Depth => Opens(Instr, l) \/ (owner[l] = Depth /\ ~Closes(Instr, l))
    PROVE  KInv'
  <1> DEFINE n == Tail(todo)
  <1>1. /\ Depth \in Nat /\ Depth >= 1 /\ todo = stack[Depth].todo /\ todo \in Code
        /\ Fit(todo, IF_, Told(Depth), ready) /\ Good(Depth) /\ Owned(Depth)
        /\ IF_ \in BOOLEAN /\ Told(Depth) \in BOOLEAN
        /\ Instr = todo[1] /\ Instr \in InstrSet
    BY Running
  <1>2. n \in Code
    BY <1>1, TailOf
  <1>3. Fit(n, IF_', m = "out", ready')
    <2>1. IF_' => IF_ \/ todo[1].op \notin {"lock", "write"}
      BY <1>1
    <2>q. PICK q \in BOOLEAN : q = (m = "out")
      OBVIOUS
    <2>2. Told(Depth) \/ Report(todo[1]) => q
      BY <1>1, <2>q
    <2>3. \A x \in {"idt", "lapic"} : Brings(todo[1], x) => x \in ready'
      BY <1>1
    <2>4. Fit(n, IF_', q, ready')
      BY <1>1, <2>1, <2>2, <2>3, FitTail
    <2> QED BY <2>q, <2>4
  <1>w. n = << >> \/ n[1].op # "write" \/ owner'["SERIAL1"] = Depth
    <2>1. Writes(todo) /\ "SERIAL1" \in Locks
      BY <1>1 DEF Fit, Locks
    <2>2. CASE Opens(Instr, "SERIAL1")
      BY <2>1, <2>2
    <2>3. CASE ~Opens(todo[1], "SERIAL1")
      BY <1>1, <2>1, <2>3, WritesTail
    <2> QED BY <1>1, <2>2, <2>3
  <1>4. /\ \A o \in Ops : Without(todo, o) => Without(n, o)
        /\ ScreenFree(todo) => ScreenFree(n)
        /\ HeapFree(todo) => HeapFree(n)
        /\ Failing(n) <=> Failing(todo)
    BY <1>1, WithoutTail
  <1>5. ASSUME NEW l \in Locks, owner'[l] = Depth, l \in Private \/ ~Failing(n) PROVE Held(n, l)
    <2>1. CASE Opens(Instr, l)
      <3>1. Closed(todo)
        BY <1>1 DEF Fit
      <3> QED BY <1>1, <2>1, <3>1, HeldOpened
    <2>2. CASE owner[l] = Depth /\ ~Closes(Instr, l)
      <3>1. Held(todo, l)
        BY <1>1, <1>4, <1>5, <2>2 DEF Owned
      <3> QED BY <1>1, <2>2, <3>1, HeldTail
    <2> QED BY <1>5, <2>1, <2>2
  <1>6. "iret" \in Ops /\ "init" \in Ops
    BY DEF Ops
  <1>7. (Depth = 1 => Without(n, "iret")) /\ (Depth > 1 => Without(n, "init"))
    BY <1>1, <1>4, <1>6 DEF Good
  <1> HIDE DEF n
  <1>8. Becomes(n, m)
    BY DEF n
  <1>9. ScreenFree(todo) \/ Failing(todo) => ScreenFree(n) \/ Failing(n)
    BY <1>4
  <1> QED BY <1>w, <1>2, <1>3, <1>4, <1>5, <1>7, <1>8, <1>9, ContinueKeeps

\* The running context panics.
LEMMA PanicKeeps ==
    ASSUME KInv, todo # << >>, Instr.op \in {"expect", "pixels", "add_scancode", "eoi"}, Panic
    PROVE  KInv'
  <1> DEFINE n == PanicProgram("report")
  <1>1. /\ Depth \in Nat /\ Depth >= 1 /\ todo = stack[Depth].todo /\ todo \in Code
        /\ Owned(Depth) /\ IF_ \in BOOLEAN
        /\ Instr = todo[1] /\ Instr \in InstrSet
    BY Running
  <1>2. FailCode(n)
    BY FailPrograms
  <1>3. /\ n \in Code /\ Fit(n, IF_, "owed" = "out", ready) /\ HeapFree(n) /\ Failing(n)
        /\ Without(n, "iret") /\ Without(n, "init") /\ n[1].op # "write"
    <2>1. 1 \in 1 .. Len(n)
      BY <1>2 DEF FailCode, Code
    <2> QED BY <1>2, <2>1, FitFail DEF FailCode, Without, Late
  <1>4. /\ Becomes(n, "owed") /\ IF_' = IF_ /\ owner' = owner /\ ready' = ready /\ mode' = mode
        /\ "owed" \in Messages
    BY DEF Panic, Messages
  <1>5. ASSUME NEW l \in Locks, owner[l] = Depth, l \in Private PROVE Held(n, l)
    <2>1. Held(todo, l)
      BY <1>1, <1>5 DEF Owned
    <2>2. ~Closes(todo[1], l) /\ Breaks(todo[1], l)
      BY <1>1, <1>5 DEF Closes, Breaks
    <2> QED BY <1>1, <2>1, <2>2, HeldTail
  <1> HIDE DEF n
  <1>6. owner \in [Locks -> Nat] /\ (IF_ \/ mode # "boot" => Booted(ready))
    BY DEF KInv, Typed
  <1>7. /\ IF_' \in BOOLEAN /\ ready \subseteq ready'
        /\ IF_' \/ mode' # "boot" => Booted(ready')
        /\ Fit(n, IF_', "owed" = "out", ready') /\ owner' \in [Locks -> Nat]
    BY <1>1, <1>3, <1>4, <1>6
  <1>8. /\ \A l \in Locks : owner'[l] \in {owner[l], 0, Depth}
        /\ \A l \in Locks : owner'[l] = Depth /\ (l \in Private \/ ~Failing(n)) => Held(n, l)
    BY <1>3, <1>4, <1>5
  <1> QED BY <1>3, <1>4, <1>7, <1>8, ContinueKeeps

\* Instructions that only move on.
LEMMA PlainKeeps ==
    ASSUME KInv, todo # << >>, Continue(Tail(todo)),
           Instr.op \notin {"lock", "unlock", "loop", "without_interrupts", "write", "ready"},
           UNCHANGED <<IF_, owner, ready, mode>>
    PROVE  KInv'
  <1>0. Becomes(Tail(todo), Top.message)
    BY DEF Continue
  <1>1. /\ IF_ \in BOOLEAN /\ Top.message \in Messages /\ owner \in [Locks -> Nat]
        /\ IF_ \/ mode # "boot" => Booted(ready)
    BY TypedParts
  <1>2. /\ ~Report(Instr) /\ \A x \in {"idt", "lapic"} : ~Brings(Instr, x)
        /\ \A l \in Locks : ~Closes(Instr, l) /\ ~Opens(Instr, l)
    BY DEF Report, Brings, Closes, Opens
  <1>3. /\ IF_' = IF_ /\ owner' = owner /\ ready' = ready /\ mode' = mode
    OBVIOUS
  <1>4. /\ IF_' \in BOOLEAN /\ owner' \in [Locks -> Nat]
        /\ (IF_' => IF_) /\ (Told(Depth) \/ Report(Instr) => Top.message = "out")
        /\ IF_' \/ mode' # "boot" => Booted(ready')
    BY <1>1, <1>2, <1>3 DEF Told, Top
  <1>5. /\ ready \subseteq ready' /\ \A x \in {"idt", "lapic"} : Brings(Instr, x) => x \in ready'
        /\ \A l \in Locks : owner'[l] \in {owner[l], 0, Depth}
        /\ \A l \in Locks : Opens(Instr, l) => owner'[l] = Depth
        /\ \A l \in Locks :
              owner'[l] = Depth => Opens(Instr, l) \/ (owner[l] = Depth /\ ~Closes(Instr, l))
    BY <1>2, <1>3
  <1> QED BY <1>0, <1>1, <1>4, <1>5, TailKeeps

-----------------------------------------------------------------------------
(* The actions.                                                            *)

\* The instruction a context is at.
LEMMA AtFirst ==
    ASSUME KInv, NEW o, At(o)
    PROVE  /\ todo # << >> /\ Instr.op = o /\ todo \in Code /\ Instr = todo[1] /\ Instr \in InstrSet
           /\ Instr.op \in Ops /\ Instr.arg \in Args
           /\ o \in {"lock", "unlock"} => Instr.arg \in Locks
  <1>1. todo # << >> /\ Instr.op = o
    BY DEF At
  <1>2. todo \in Code /\ Instr = todo[1] /\ Instr \in InstrSet
    BY <1>1, Running
  <1> QED BY <1>1, <1>2 DEF InstrSet

\* One lemma per action, or group of actions.
LEMMA AcquireKeeps == ASSUME KInv, Acquire PROVE KInv'
  <1>1. /\ todo # << >> /\ Instr.op = "lock" /\ Instr.arg \in Locks
    BY AtFirst DEF Acquire
  <1>2. /\ IF_ \in BOOLEAN /\ Top.message \in Messages /\ owner \in [Locks -> Nat] /\ Depth \in Nat
        /\ IF_ \/ mode # "boot" => Booted(ready)
    BY TypedParts
  <1>3. /\ Becomes(Tail(todo), Top.message) /\ IF_' = IF_ /\ ready' = ready /\ mode' = mode
        /\ owner' = [owner EXCEPT ![Instr.arg] = Depth]
    BY DEF Acquire, Continue
  <1>4. /\ ~Report(Instr) /\ \A x \in {"idt", "lapic"} : ~Brings(Instr, x)
        /\ \A l \in Locks : ~Closes(Instr, l)
    BY <1>1 DEF Report, Brings, Closes
  <1>5. /\ owner' \in [Locks -> Nat] /\ \A l \in Locks : owner'[l] \in {owner[l], 0, Depth}
        /\ \A l \in Locks : Opens(Instr, l) => owner'[l] = Depth
        /\ \A l \in Locks :
              owner'[l] = Depth => Opens(Instr, l) \/ (owner[l] = Depth /\ ~Closes(Instr, l))
    BY <1>1, <1>2, <1>3, <1>4 DEF Opens
  <1>6. /\ IF_' \in BOOLEAN
        /\ (IF_' => IF_) /\ (Told(Depth) \/ Report(Instr) => Top.message = "out")
        /\ IF_' \/ mode' # "boot" => Booted(ready')
    BY <1>2, <1>3, <1>4 DEF Told, Top
  <1> QED BY <1>2, <1>1, <1>3, <1>4, <1>5, <1>6, TailKeeps

LEMMA ReleaseKeeps == ASSUME KInv, Release PROVE KInv'
  <1>1. /\ todo # << >> /\ Instr.op = "unlock" /\ Instr.arg \in Locks
    BY AtFirst DEF Release
  <1>2. /\ IF_ \in BOOLEAN /\ Top.message \in Messages /\ owner \in [Locks -> Nat] /\ Depth \in Nat /\ Depth >= 1
        /\ IF_ \/ mode # "boot" => Booted(ready)
    BY TypedParts
  <1>3. /\ Becomes(Tail(todo), Top.message) /\ IF_' = IF_ /\ ready' = ready /\ mode' = mode
        /\ owner' = [owner EXCEPT ![Instr.arg] = 0]
    BY DEF Release, Continue
  <1>4. /\ ~Report(Instr) /\ \A x \in {"idt", "lapic"} : ~Brings(Instr, x)
    BY <1>1 DEF Report, Brings
  <1>5. /\ owner' \in [Locks -> Nat] /\ \A l \in Locks : owner'[l] \in {owner[l], 0, Depth}
        /\ \A l \in Locks : Opens(Instr, l) => owner'[l] = Depth
        /\ \A l \in Locks :
              owner'[l] = Depth => Opens(Instr, l) \/ (owner[l] = Depth /\ ~Closes(Instr, l))
    BY <1>1, <1>2, <1>3 DEF Closes, Opens
  <1>6. /\ IF_' \in BOOLEAN
        /\ (IF_' => IF_) /\ (Told(Depth) \/ Report(Instr) => Top.message = "out")
        /\ IF_' \/ mode' # "boot" => Booted(ready')
    BY <1>2, <1>3, <1>4 DEF Told, Top
  <1> QED BY <1>2, <1>1, <1>3, <1>4, <1>5, <1>6, TailKeeps

LEMMA WriteSerialKeeps == ASSUME KInv, WriteSerial PROVE KInv'
  <1> DEFINE m == IF Instr.arg = "log" THEN Top.message ELSE "out"
  <1>1. /\ todo # << >> /\ Instr.op = "write"
    BY AtFirst DEF WriteSerial
  <1>2. /\ IF_ \in BOOLEAN /\ Top.message \in Messages /\ owner \in [Locks -> Nat] /\ Depth \in Nat
        /\ IF_ \/ mode # "boot" => Booted(ready)
    BY TypedParts
  <1>3. /\ Becomes(Tail(todo), m) /\ IF_' = IF_ /\ ready' = ready /\ mode' = mode /\ owner' = owner
    BY DEF WriteSerial
  <1>m. m \in Messages
    BY <1>2 DEF Messages
  <1>4. /\ \A x \in {"idt", "lapic"} : ~Brings(Instr, x)
        /\ \A l \in Locks : ~Closes(Instr, l)
    BY <1>1 DEF Brings, Closes
  <1>5. /\ owner' \in [Locks -> Nat] /\ \A l \in Locks : owner'[l] \in {owner[l], 0, Depth}
        /\ \A l \in Locks : Opens(Instr, l) => owner'[l] = Depth
        /\ \A l \in Locks :
              owner'[l] = Depth => Opens(Instr, l) \/ (owner[l] = Depth /\ ~Closes(Instr, l))
    BY <1>1, <1>2, <1>3, <1>4 DEF Opens
  <1>6. /\ IF_' \in BOOLEAN
        /\ (IF_' => IF_) /\ (Told(Depth) \/ Report(Instr) => m = "out")
        /\ IF_' \/ mode' # "boot" => Booted(ready')
    BY <1>2, <1>3 DEF Report, Told, Top
  <1> HIDE DEF m
  <1> QED BY <1>m, <1>1, <1>3, <1>4, <1>5, <1>6, TailKeeps

LEMMA EnableKeeps == ASSUME KInv, Enable PROVE KInv'
  <1>1. /\ todo # << >> /\ Instr.op = "enable" /\ todo \in Code /\ Instr = todo[1]
    BY AtFirst DEF Enable
  <1>2. /\ Top.message \in Messages /\ owner \in [Locks -> Nat] /\ Depth \in Nat
    BY TypedParts
  <1>3. /\ Becomes(Tail(todo), Top.message) /\ IF_' = TRUE /\ ready' = ready /\ mode' = mode
        /\ owner' = owner
    BY DEF Enable, Continue
  <1>4. /\ ~Report(Instr) /\ \A x \in {"idt", "lapic"} : ~Brings(Instr, x)
        /\ \A l \in Locks : ~Closes(Instr, l)
    BY <1>1 DEF Report, Brings, Closes
  <1>5. /\ owner' \in [Locks -> Nat] /\ \A l \in Locks : owner'[l] \in {owner[l], 0, Depth}
        /\ \A l \in Locks : Opens(Instr, l) => owner'[l] = Depth
        /\ \A l \in Locks :
              owner'[l] = Depth => Opens(Instr, l) \/ (owner[l] = Depth /\ ~Closes(Instr, l))
    BY <1>1, <1>2, <1>3, <1>4 DEF Opens
  <1>6. Booted(ready')
    <2>1. Ordered(todo, ready) /\ Len(todo) >= 1 /\ Len(todo) \in Nat
      BY <1>1, Running, TailOf DEF Fit
    <2>2. 1 \in 1 .. Len(todo) /\ 1 .. (1 - 1) = {} /\ Late(todo[1])
      BY <1>1, <2>1 DEF Late
    <2> QED BY <1>3, <2>1, <2>2 DEF Ordered, Booted
  <1>7. /\ IF_' \in BOOLEAN
        /\ (IF_' => IF_ \/ Instr.op \notin {"lock", "write"}) /\ (Told(Depth) \/ Report(Instr) => Top.message = "out")
        /\ IF_' \/ mode' # "boot" => Booted(ready')
    BY <1>1, <1>2, <1>3, <1>4, <1>6 DEF Told, Top
  <1> QED BY <1>2, <1>1, <1>3, <1>4, <1>5, <1>7, TailKeeps

LEMMA SetUpKeeps == ASSUME KInv, SetUp PROVE KInv'
  <1>1. /\ todo # << >> /\ Instr.op = "ready"
    BY AtFirst DEF SetUp
  <1>2. /\ IF_ \in BOOLEAN /\ Top.message \in Messages /\ owner \in [Locks -> Nat] /\ Depth \in Nat
        /\ IF_ \/ mode # "boot" => Booted(ready)
    BY TypedParts
  <1>3. /\ Becomes(Tail(todo), Top.message) /\ IF_' = IF_ /\ mode' = mode /\ owner' = owner
        /\ ready' = ready \cup {Instr.arg}
    BY DEF SetUp, Continue
  <1>4. /\ ~Report(Instr) /\ \A x \in {"idt", "lapic"} : Brings(Instr, x) => x \in ready'
        /\ \A l \in Locks : ~Closes(Instr, l)
    BY <1>1, <1>3 DEF Report, Brings, Closes
  <1>5. /\ owner' \in [Locks -> Nat] /\ \A l \in Locks : owner'[l] \in {owner[l], 0, Depth}
        /\ \A l \in Locks : Opens(Instr, l) => owner'[l] = Depth
        /\ \A l \in Locks :
              owner'[l] = Depth => Opens(Instr, l) \/ (owner[l] = Depth /\ ~Closes(Instr, l))
    BY <1>1, <1>2, <1>3, <1>4 DEF Opens
  <1>6. ready \subseteq ready'
    BY <1>3
  <1>7. /\ IF_' \in BOOLEAN
        /\ (IF_' => IF_) /\ (Told(Depth) \/ Report(Instr) => Top.message = "out")
        /\ IF_' \/ mode' # "boot" => Booted(ready')
    BY <1>2, <1>3, <1>4, <1>6 DEF Booted, Told, Top
  <1> QED BY <1>2, <1>1, <1>3, <1>4, <1>5, <1>6, <1>7, TailKeeps

\* The running context executes code b instead of its first instruction.
LEMMA PrefixKeeps ==
    ASSUME KInv, todo # << >>, NEW b \in Code, Continue(b \o Tail(todo)),
           Instr.op \notin {"lock", "unlock", "write", "ready", "loop"},
           IF_' \in BOOLEAN, IF_' => IF_, UNCHANGED <<owner, ready, mode>>,
           Closed(b), HeapFree(b), Writes(b), Len(b) >= 1, b[1].op # "write",
           \A k \in 1 .. Len(b) :
              /\ b[k].op \notin {"loop", "iret", "init"}
              /\ Late(b[k]) => Booted(ready)
              /\ Masking(b[k]) => ~IF_' /\ \A j \in 1 .. (k - 1) : b[j].op \in {"lock", "write"}
              /\ \A l \in Locks : Breaks(b[k], l) => Breaks(Instr, l),
           \/ OnScreen(Instr)
           \/ ScreenFree(b) /\ (Report(Instr) => \E j \in 1 .. Len(b) : Report(b[j]))
    PROVE  KInv'
  <1> DEFINE d == Tail(todo)  n == b \o d
  <1>1. /\ Depth \in Nat /\ Depth >= 1 /\ todo = stack[Depth].todo /\ todo \in Code
        /\ Fit(todo, IF_, Told(Depth), ready) /\ Good(Depth) /\ Owned(Depth)
        /\ IF_ \in BOOLEAN /\ Told(Depth) \in BOOLEAN
        /\ Instr = todo[1] /\ Instr \in InstrSet
    BY Running
  <1>2. d \in Code
    BY <1>1, TailOf
  <1>3. n \in Code
    BY <1>2, ConcatOf
  <1>4. Fit(n, IF_', Told(Depth), ready)
    <2>1. \A k \in 1 .. Len(b) : Late(b[k]) => {"idt", "lapic"} \subseteq ready
      BY DEF Booted
    <2> QED BY <1>1, <2>1, FitPrefix
  <1>5. /\ \A o \in Ops : Without(todo, o) => Without(d, o)
        /\ ScreenFree(todo) => ScreenFree(d)
        /\ HeapFree(todo) => HeapFree(d)
        /\ Failing(d) <=> Failing(todo)
    BY <1>1, WithoutTail
  <1>6. "iret" \in Ops /\ "init" \in Ops /\ Without(b, "iret") /\ Without(b, "init") /\ ~Failing(b)
    BY DEF Ops, Without, Failing
  <1>7. /\ \A o \in {"iret", "init"} : Without(todo, o) => Without(n, o)
        /\ ScreenFree(b) /\ ScreenFree(d) => ScreenFree(n)
        /\ HeapFree(todo) => HeapFree(n)
        /\ Failing(n) <=> Failing(todo)
    BY <1>2, <1>5, <1>6, WithoutConcat
  <1>8. ScreenFree(todo) => ScreenFree(n)
    <2>1. CASE OnScreen(Instr)
      <3>1. 1 \in 1 .. Len(todo)
        BY <1>1, TailOf
      <3> QED BY <1>1, <2>1, <3>1 DEF ScreenFree
    <2>2. CASE ScreenFree(b)
      BY <1>5, <1>7, <2>2
    <2> QED BY <2>1, <2>2
  <1>9. ASSUME NEW l \in Locks, owner[l] = Depth, l \in Private \/ ~Failing(n) PROVE Held(n, l)
    <2>1. Held(todo, l)
      BY <1>1, <1>7, <1>9 DEF Owned
    <2>2. ~Closes(todo[1], l)
      BY <1>1 DEF Closes
    <2>3. ~Breaks(todo[1], l) /\ Held(d, l)
      BY <1>1, <2>1, <2>2, HeldTail
    <2>4. \A k \in 1 .. Len(b) : ~Breaks(b[k], l)
      BY <1>1, <2>3
    <2> QED BY <1>2, <2>3, <2>4, HeldConcat
  <1>10. Becomes(n, Top.message) /\ Told(Depth) = (Top.message = "out") /\ Top.message \in Messages
    BY TypedParts DEF Continue, Told, Top
  <1>w. n[1].op # "write"
    BY <1>2, FirstOf
  <1> HIDE DEF n
  <1>11. /\ owner \in [Locks -> Nat] /\ (IF_ \/ mode # "boot" => Booted(ready))
    BY TypedParts
  <1>12. /\ owner' = owner /\ ready' = ready /\ mode' = mode
    OBVIOUS
  <1>13. /\ ready \subseteq ready'
         /\ IF_' \/ mode' # "boot" => Booted(ready')
         /\ Fit(n, IF_', Top.message = "out", ready') /\ owner' \in [Locks -> Nat]
    BY <1>1, <1>4, <1>10, <1>11, <1>12
  <1>14. /\ \A l \in Locks : owner'[l] \in {owner[l], 0, Depth}
         /\ \A l \in Locks : owner'[l] = Depth /\ (l \in Private \/ ~Failing(n)) => Held(n, l)
    BY <1>9, <1>12
  <1>15. /\ Depth = 1 => Without(n, "iret")
         /\ Depth > 1 => Without(n, "init")
         /\ ScreenFree(todo) \/ Failing(todo) => ScreenFree(n) \/ Failing(n)
    BY <1>1, <1>7, <1>8 DEF Good
  <1> QED BY <1>w, <1>3, <1>7, <1>10, <1>13, <1>14, <1>15, ContinueKeeps

LEMMA SleepMsKeeps == ASSUME KInv, SleepMs PROVE KInv'
  <1> DEFINE b == <<I("wait", "")>>
  <1>1. /\ todo # << >> /\ Instr.op = "sleep"
    BY AtFirst DEF SleepMs
  <1>2. b \in Code /\ Len(b) = 1 /\ b[1].op = "wait" /\ Closed(b) /\ HeapFree(b)
    <2>1. "wait" \in Ops /\ "" \in Args /\ I("wait", "").op = "wait"
      BY DEF Ops, Args, I
    <2> QED BY <2>1, OneInstr
  <1>3. Continue(b \o Tail(todo)) /\ UNCHANGED <<IF_, owner, ready, mode>>
    BY DEF SleepMs
  <1> HIDE DEF b
  <1>4. \A k \in 1 .. Len(b) : b[k].op = "wait"
    BY <1>2
  <1>5. \A k \in 1 .. Len(b) :
              /\ b[k].op \notin {"loop", "iret", "init"} /\ ~Late(b[k]) /\ ~Masking(b[k])
              /\ \A l \in Locks : ~Breaks(b[k], l)
    BY <1>4 DEF Late, Masking, Breaks, Opens
  <1>6. ScreenFree(b) /\ ~Report(Instr) /\ Writes(b)
    BY <1>1, <1>4 DEF ScreenFree, OnScreen, Report, Writes
  <1>7. IF_' \in BOOLEAN /\ (IF_' => IF_) /\ UNCHANGED <<owner, ready, mode>>
    BY <1>3, TypedParts
  <1> QED BY <1>1, <1>2, <1>3, <1>5, <1>6, <1>7, PrefixKeeps

LEMMA DrawKeeps == ASSUME KInv, Draw PROVE KInv'
  <1>1. /\ todo # << >> /\ Instr.op = "draw" /\ todo \in Code
    BY AtFirst DEF Draw
  <1>2. UNCHANGED <<IF_, owner, ready, mode>>
    BY DEF Draw
  <1>3. CASE "tty" \in ready
    <2>0. PICK b : b = Pixels
      OBVIOUS
    <2>1. Continue(b \o Tail(todo))
      BY <1>3, <2>0 DEF Draw
    <2>2. /\ b \in Code /\ Len(b) = 3 /\ Closed(b)
          /\ b[1] = I("lock", "FRAMEBUFFER") /\ b[2] = I("pixels", "") /\ b[3] = I("unlock", "FRAMEBUFFER")
      BY <2>0, Pieces DEF Block
    <2>3. /\ b[1].op = "lock" /\ b[1].arg = "FRAMEBUFFER" /\ b[2].op = "pixels"
          /\ b[3].op = "unlock" /\ b[3].arg = "FRAMEBUFFER"
          /\ \A k \in 1 .. Len(b) : k = 1 \/ k = 2 \/ k = 3
      <3>1. Len(b) = 3
        BY <2>2
      <3>2. \A k \in 1 .. Len(b) : k = 1 \/ k = 2 \/ k = 3
        BY <3>1
      <3>3. /\ I("lock", "FRAMEBUFFER").op = "lock" /\ I("lock", "FRAMEBUFFER").arg = "FRAMEBUFFER"
            /\ I("pixels", "").op = "pixels"
            /\ I("unlock", "FRAMEBUFFER").op = "unlock" /\ I("unlock", "FRAMEBUFFER").arg = "FRAMEBUFFER"
        BY DEF I
      <3> QED BY <2>2, <3>2, <3>3
    <2>4. HeapFree(b) /\ Writes(b) /\ b[1].op # "write"
      BY <2>3 DEF HeapFree, OnHeap, Writes
    <2>l. Len(b) >= 1
      <3>1. Len(b) = 3
        BY <2>2
      <3> QED BY <3>1
    <2>5. \A k \in 1 .. Len(b) :
              /\ b[k].op \notin {"loop", "iret", "init"} /\ ~Late(b[k]) /\ ~Masking(b[k])
              /\ \A l \in Locks : Breaks(b[k], l) => Breaks(Instr, l)
      BY <1>1, <2>3 DEF Late, Masking, Breaks, Opens
    <2>6. OnScreen(Instr)
      BY <1>1 DEF OnScreen
    <2>7. IF_' \in BOOLEAN /\ (IF_' => IF_) /\ UNCHANGED <<owner, ready, mode>>
      BY <1>2, TypedParts
    <2>8. b \in Code /\ Closed(b) /\ Instr.op \notin {"lock", "unlock", "write", "ready", "loop"}
      BY <1>1, <2>2
    <2> QED BY <1>1, <2>1, <2>4, <2>l, <2>5, <2>6, <2>7, <2>8, PrefixKeeps
  <1>4. CASE "tty" \notin ready
    <2>1. Continue(Tail(todo))
      <3>1. Tail(todo) \in Code
        BY <1>1, TailOf
      <3>2. << >> \o Tail(todo) = Tail(todo)
        BY <3>1 DEF Code
      <3> QED BY <1>4, <3>2 DEF Draw
    <2> QED BY <1>1, <1>2, <2>1, PlainKeeps
  <1> QED BY <1>3, <1>4

LEMMA WithoutInterruptsKeeps == ASSUME KInv, WithoutInterrupts PROVE KInv'
  <1> DEFINE e == IF IF_ THEN <<I("enable", "")>> ELSE << >>
             i == I("write", Instr.arg)
             a == With("SERIAL1", <<i>>)
             b == a \o e
  <1>1. /\ todo # << >> /\ Instr.op = "without_interrupts" /\ Instr.arg \in Args
    BY AtFirst DEF WithoutInterrupts
  <1>2. /\ Continue(b \o Tail(todo)) /\ IF_' = FALSE /\ UNCHANGED <<owner, ready, mode>>
    BY DEF WithoutInterrupts, SerialBody
  <1>3. i \in InstrSet /\ i.op = "write" /\ i.arg = Instr.arg
    BY <1>1, Instrs DEF Ops
  <1>4. /\ a \in Code /\ Len(a) = 3 /\ Closed(a) /\ HeapFree(a)
        /\ a[1] = I("lock", "SERIAL1") /\ a[2] = i /\ a[3] = I("unlock", "SERIAL1")
    <2> HIDE DEF i
    <2>1. "SERIAL1" \in Locks /\ ~Breaks(i, "SERIAL1") /\ "SERIAL1" # "HEAP"
      BY <1>3 DEF Locks, Breaks, Opens, Private
    <2> QED BY <1>3, <2>1, WithOne
  <1>5. /\ e \in Code /\ Closed(e) /\ HeapFree(e) /\ Len(e) \in {0, 1} /\ (IF_ \/ Len(e) = 0)
        /\ Len(e) = 1 => e[1].op = "enable"
    <2>1. CASE IF_
      <3>1. "enable" \in Ops /\ "" \in Args /\ I("enable", "").op = "enable"
        BY DEF Ops, Args, I
      <3>2. e = <<I("enable", "")>>
        BY <2>1
      <3> QED BY <2>1, <3>1, <3>2, OneInstr
    <2>2. CASE ~IF_
      <3>1. e = << >>
        BY <2>2
      <3> HIDE DEF e
      <3>2. e \in Code /\ Len(e) = 0
        BY <3>1 DEF Code
      <3> QED BY <3>2 DEF Closed, HeapFree
    <2> QED BY <2>1, <2>2
  <1> HIDE DEF e, a, i
  <1>6. /\ b \in Code /\ Closed(b) /\ HeapFree(b) /\ Len(b) = 3 + Len(e)
        /\ \A k \in 1 .. Len(a) : b[k] = a[k]
        /\ \A k \in 1 .. Len(e) : b[Len(a) + k] = e[k]
    <2>1. Closed(b) /\ HeapFree(b)
      BY <1>4, <1>5, ClosedConcat, HeapFreeConcat
    <2>2. /\ b \in Code /\ Len(b) = Len(a) + Len(e)
          /\ \A k \in 1 .. Len(a) : b[k] = a[k]
          /\ \A k \in 1 .. Len(e) : b[Len(a) + k] = e[k]
      BY <1>4, <1>5, ConcatOf
    <2> HIDE DEF b
    <2> QED BY <1>4, <2>1, <2>2
  <1> HIDE DEF b
  <1>7. /\ b[1].op = "lock" /\ b[1].arg = "SERIAL1" /\ b[2] = i
        /\ b[3].op = "unlock" /\ b[3].arg = "SERIAL1"
    <2>1. 1 \in 1 .. Len(a) /\ 2 \in 1 .. Len(a) /\ 3 \in 1 .. Len(a)
      BY <1>4
    <2>2. b[1] = a[1] /\ b[2] = a[2] /\ b[3] = a[3]
      BY <1>6, <2>1
    <2> QED BY <1>4, <2>2 DEF I
  <1>8. \A k \in 1 .. Len(b) : k \in {1, 2, 3} \/ (k = 4 /\ b[4].op = "enable" /\ IF_)
    <2>1. CASE Len(e) = 0
      BY <1>6, <2>1
    <2>2. CASE Len(e) = 1
      <3>1. 1 \in 1 .. Len(e) /\ Len(a) + 1 = 4 /\ IF_
        BY <1>4, <1>5, <2>2
      <3>2. b[4].op = "enable"
        BY <1>5, <1>6, <2>2, <3>1
      <3> QED BY <1>6, <2>2, <3>1, <3>2
    <2> QED BY <1>5, <2>1, <2>2
  <1>9. ASSUME NEW k \in 1 .. Len(b)
        PROVE  /\ b[k].op \notin {"loop", "iret", "init"}
               /\ Late(b[k]) => Booted(ready)
               /\ Masking(b[k]) => \A j \in 1 .. (k - 1) : b[j].op \in {"lock", "write"}
               /\ \A l \in Locks : Breaks(b[k], l) => Breaks(Instr, l)
               /\ ~OnScreen(b[k])
    <2>1. CASE k = 1
      BY <1>1, <1>7, <2>1 DEF Late, Masking, Breaks, Opens, OnScreen
    <2>2. CASE k = 2
      BY <1>3, <1>7, <2>2 DEF Late, Masking, Breaks, Opens, OnScreen
    <2>3. CASE k = 3
      <3>1. \A j \in 1 .. (k - 1) : j = 1 \/ j = 2
        BY <2>3
      <3>2. \A j \in 1 .. (k - 1) : b[j].op \in {"lock", "write"}
        BY <1>3, <1>7, <3>1
      <3> QED BY <1>7, <2>3, <3>2 DEF Late, Breaks, Opens, OnScreen
    <2>4. CASE k = 4 /\ b[4].op = "enable" /\ IF_
      BY <2>4, TypedParts DEF Masking, Breaks, Opens, OnScreen
    <2> QED BY <1>8, <2>1, <2>2, <2>3, <2>4
  <1>10. ScreenFree(b) /\ (Report(Instr) => \E j \in 1 .. Len(b) : Report(b[j]))
    <2>1. 2 \in 1 .. Len(b)
      BY <1>5, <1>6
    <2>2. Report(Instr) => Report(b[2])
      BY <1>3, <1>7 DEF Report
    <2> QED BY <1>9, <2>1, <2>2 DEF ScreenFree
  <1>11. IF_' \in BOOLEAN /\ ~IF_'
    BY <1>2
  <1>12. Writes(b) /\ Len(b) >= 1 /\ b[1].op # "write"
    <2>1. Len(b) \in Nat /\ Len(b) >= 3
      BY <1>5, <1>6
    <2>2. \A k \in 1 .. Len(b) : b[k].op = "write" => k = 2
      BY <1>7, <1>8
    <2>3. Opens(b[2 - 1], "SERIAL1") /\ 2 + 1 \in 1 .. Len(b) /\ Closes(b[2 + 1], "SERIAL1")
      BY <1>7, <2>1 DEF Opens, Closes
    <2> QED BY <1>7, <2>1, <2>2, <2>3 DEF Writes
  <1> QED BY <1>1, <1>2, <1>6, <1>9, <1>10, <1>11, <1>12, PrefixKeeps

\* kernel_main has nothing left to do: it holds no lock.
LEMMA RestingKeeps ==
    ASSUME KInv, Depth = 1, \A l \in Locks : owner[l] # 1,
           NEW n \in Code, Continue(n), UNCHANGED <<IF_, owner, ready>>,
           IF_ \/ mode' # "boot" => Booted(ready),
           Fit(n, IF_, Told(Depth), ready), Without(n, "iret"), Without(n, "write")
    PROVE  KInv'
  <1>0. Becomes(n, Top.message) /\ Told(Depth) = (Top.message = "out")
    BY DEF Continue, Told, Top
  <1>w. n = << >> \/ n[1].op # "write"
    <2>1. n # << >> => 1 \in 1 .. Len(n)
      BY TailOf
    <2> QED BY <2>1 DEF Without
  <1>1. IF_ \in BOOLEAN /\ Top.message \in Messages /\ owner \in [Locks -> Nat]
    BY TypedParts
  <1>2. IF_' = IF_ /\ owner' = owner /\ ready' = ready
    OBVIOUS
  <1>3. /\ IF_' \in BOOLEAN /\ ready \subseteq ready'
        /\ IF_' \/ mode' # "boot" => Booted(ready')
        /\ Fit(n, IF_', Top.message = "out", ready') /\ owner' \in [Locks -> Nat]
    BY <1>0, <1>1, <1>2
  <1>4. /\ \A l \in Locks : owner'[l] \in {owner[l], 0, Depth}
        /\ \A l \in Locks : owner'[l] = Depth /\ (l \in Private \/ ~Failing(n)) => Held(n, l)
    BY <1>2
  <1>5. ~(Depth > 1)
    OBVIOUS
  <1> QED BY <1>0, <1>w, <1>1, <1>3, <1>4, <1>5, ContinueKeeps

\* A context with an empty todo, or one that ends, holds no lock.
LEMMA LastHoldsNothing ==
    ASSUME KInv, todo = << >> \/ (todo # << >> /\ Instr.op \in {"iret", "init"})
    PROVE  /\ \A l \in Locks : owner[l] # Depth
           /\ todo # << >> => Booted(ready)
  <1>1. /\ todo = stack[Depth].todo /\ todo \in Code /\ Owned(Depth) /\ Fit(todo, IF_, Told(Depth), ready)
        /\ todo # << >> => Instr = todo[1]
    BY Running
  <1>2. CASE todo = << >>
    BY <1>1, <1>2, HeldNothing DEF Owned
  <1>3. CASE todo # << >>
    <2>1. Len(todo) \in Nat /\ Len(todo) >= 1 /\ todo[1].op \in {"iret", "init"}
      BY <1>1, <1>3, TailOf
    <2>2. 1 \in 1 .. Len(todo) /\ 1 .. (1 - 1) = {} /\ Late(todo[1])
      BY <2>1 DEF Late
    <2>3. Len(todo) = 1
      BY <1>1, <2>1, <2>2 DEF Fit, ReturnsLast
    <2>4. \A k \in 1 .. Len(todo) : k = 1
      BY <2>3
    <2>5. ~Failing(todo) /\ \A l \in Locks : ~Held(todo, l)
      BY <2>1, <2>4 DEF Failing, Held, Closes
    <2>6. Ordered(todo, ready)
      BY <1>1 DEF Fit
    <2>7. Booted(ready)
      BY <2>2, <2>6 DEF Ordered, Booted
    <2> QED BY <1>1, <2>5, <2>7 DEF Owned
  <1> QED BY <1>2, <1>3

LEMMA ShellCommandKeeps == ASSUME KInv, ShellCommand PROVE KInv'
  <1>1. PICK n \in ShellPrograms : Continue(n)
    BY DEF ShellCommand
  <1>2. Depth = 1 /\ todo = << >> /\ UNCHANGED <<IF_, owner, ready, mode>>
    BY DEF ShellCommand
  <1>3. Block(n)
    BY Pieces DEF ShellPrograms
  <1>4. n \in Code /\ Fit(n, IF_, Told(Depth), ready) /\ Without(n, "iret") /\ Without(n, "write")
    BY <1>3, FitBlock, BlockWithout DEF Block
  <1>5. \A l \in Locks : owner[l] # 1
    BY <1>2, LastHoldsNothing
  <1>6. IF_ \/ mode' # "boot" => Booted(ready)
    BY <1>2, TypedParts
  <1> QED BY <1>1, <1>2, <1>4, <1>5, <1>6, RestingKeeps

\* The code of StartInit for a user program.
LEMMA ToUserFits ==
    ASSUME NEW f \in BOOLEAN, NEW r \in BOOLEAN, NEW s, Booted(s)
    PROVE  LET n == LogPrint("log") \o <<I("without_interrupts", "log")>> \o Alloc
                        \o <<I("expect", ""), I("enable", "")>>
           IN  Fit(n, f, r, s) /\ Without(n, "iret") /\ Without(n, "write") /\ n \in Code
  <1> DEFINE p == LogPrint("log")  w == <<I("without_interrupts", "log")>>
             b1 == p \o w  b == b1 \o Alloc  d == <<I("expect", ""), I("enable", "")>>
  <1>1. Block(p) /\ Block(w) /\ Block(Alloc)
    <2>1. "without_interrupts" \in Ops /\ "log" \in Args
      BY DEF Ops, Args
    <2> QED BY <2>1, Pieces, OneInstr
  <1>2. d \in Code /\ Len(d) = 2 /\ Closed(d) /\ d[1].op = "expect" /\ d[2].op = "enable"
    <2>1. "expect" \in Ops /\ "enable" \in Ops /\ "" \in Args
      BY DEF Ops, Args
    <2> QED BY <2>1, TwoInstrs
  <1> HIDE DEF p, w, d
  <1>3. Block(b1)
    BY <1>1, BlockConcat
  <1> HIDE DEF b1
  <1>4. Block(b)
    BY <1>1, <1>3, BlockConcat
  <1> HIDE DEF b
  <1>5. \A k \in 1 .. Len(d) : d[k].op \in {"expect", "enable"}
    <2>1. \A k \in 1 .. Len(d) : k = 1 \/ k = 2
      BY <1>2
    <2> QED BY <1>2, <2>1
  <1>6. Fit(d, TRUE, r, s) /\ ~Failing(d) /\ Without(d, "iret") /\ Without(d, "write")
    BY <1>2, <1>5
       DEF Fit, Uninterrupted, Masking, Reports, Failing, Ordered, ReturnsLast, Booted, Without, Writes
  <1>7. /\ Fit(b, f, r, s) /\ ~Failing(b) /\ b \in Code
        /\ Without(b, "iret") /\ Without(b, "init") /\ Without(b, "write")
    BY <1>4, FitBlock, BlockWithout DEF Block
  <1>8. \A k \in 1 .. Len(b) : b[k].op \notin {"iret", "init"}
    BY <1>7 DEF Without
  <1>9. Fit(b \o d, f, r, s)
    BY <1>6, <1>7, <1>8, FitJoin
  <1>10. Without(b \o d, "iret") /\ Without(b \o d, "write") /\ b \o d \in Code
    BY <1>2, <1>6, <1>7, WithoutConcat, ConcatOf DEF Ops
  <1> QED BY <1>9, <1>10 DEF b, b1, d, p, w

LEMMA StartInitKeeps == ASSUME KInv, StartInit PROVE KInv'
  <1>1. todo # << >> /\ Instr.op = "init" /\ todo \in Code /\ Instr = todo[1]
    BY AtFirst DEF StartInit
  <1>2. Depth = 1
    <2>1. Depth \in Nat /\ Depth >= 1 /\ Good(Depth) /\ todo = stack[Depth].todo
      BY Running
    <2>2. 1 \in 1 .. Len(todo)
      BY <1>1, TailOf
    <2>3. ~Without(todo, "init")
      BY <1>1, <2>2 DEF Without
    <2> QED BY <2>1, <2>3 DEF Good
  <1>3. (\A l \in Locks : owner[l] # 1) /\ Booted(ready)
    BY <1>1, <1>2, LastHoldsNothing
  <1>4. UNCHANGED <<IF_, owner, ready>> /\ IF_ \in BOOLEAN /\ Told(Depth) \in BOOLEAN
    BY TypedParts DEF StartInit, Told
  <1>5. \E n \in Code : Continue(n) /\ Fit(n, IF_, Told(Depth), ready) /\ Without(n, "iret") /\ Without(n, "write")
    <2>1. CASE Continue(<< >>)
      <3>1. << >> \in Code /\ Len(<< >>) = 0
        BY DEF Code
      <3>2. Block(<< >>)
        BY <3>1 DEF Block, Closed
      <3> QED BY <2>1, <3>1, <3>2, FitBlock, BlockWithout
    <2>2. CASE Continue(LogPrint("log") \o <<I("without_interrupts", "log")>>
                            \o Alloc \o <<I("expect", ""), I("enable", "")>>)
      BY <1>3, <1>4, <2>2, ToUserFits
    <2> QED BY <2>1, <2>2 DEF StartInit
  <1> QED BY <1>2, <1>3, <1>4, <1>5, RestingKeeps

\* No code at all is a block.
LEMMA EmptyBlock == Block(<< >>) /\ << >> \in Code /\ HeapFree(<< >>) /\ ScreenFree(<< >>)
  <1>1. << >> \in Code /\ Len(<< >>) = 0
    BY DEF Code
  <1> QED BY <1>1 DEF Block, Closed, HeapFree, ScreenFree

\* What an interrupt handler does before eoi and iretq.
LEMMA IrqPieces ==
    ASSUME NEW kind \in DOMAIN IrqPrograms, NEW r, NEW s
    PROVE  LET b == IrqPrograms[kind] IN
           /\ b \in Code /\ Fit(b, FALSE, r, s) /\ ~Failing(b)
           /\ Without(b, "iret") /\ Without(b, "init") /\ Without(b, "write")
           /\ HeapFree(b) /\ ScreenFree(b)
  <1>1. kind \in {"keyboard", "timer", "network", "other"}
    BY DEF IrqPrograms
  <1>2. /\ IrqPrograms["keyboard"] = <<I("add_scancode", "")>> /\ IrqPrograms["timer"] = <<I("tick", "")>>
        /\ IrqPrograms["network"] = With("RTL8139", << >>) /\ IrqPrograms["other"] = << >>
    BY DEF IrqPrograms
  <1>3. ASSUME NEW o \in {"add_scancode", "tick"}, NEW b, b = <<I(o, "")>>
        PROVE  Block(b) /\ b \in Code /\ HeapFree(b) /\ ScreenFree(b)
    <2>1. o \in Ops /\ "" \in Args /\ I(o, "").op = o
      BY DEF Ops, Args, I
    <2>2. Block(<<I(o, "")>>) /\ <<I(o, "")>> \in Code /\ HeapFree(<<I(o, "")>>) /\ Len(<<I(o, "")>>) = 1
          /\ <<I(o, "")>>[1] = I(o, "")
      BY <2>1, OneInstr
    <2>3. Block(b) /\ b \in Code /\ HeapFree(b) /\ Len(b) = 1 /\ b[1].op = o
      BY <1>3, <2>1, <2>2
    <2>4. ScreenFree(b)
      BY <2>3 DEF ScreenFree, OnScreen
    <2> QED BY <2>3, <2>4
  <1>4. CASE kind = "network"
    <2>0. PICK b : b = IrqPrograms[kind]
      OBVIOUS
    <2>1. b \in Code /\ Len(b) = 2 /\ Closed(b) /\ b[1] = I("lock", "RTL8139") /\ b[2] = I("unlock", "RTL8139")
      BY <1>2, <1>4, <2>0, WithNone DEF Locks
    <2>2. /\ I("lock", "RTL8139").op = "lock" /\ I("lock", "RTL8139").arg = "RTL8139"
          /\ I("unlock", "RTL8139").op = "unlock" /\ I("unlock", "RTL8139").arg = "RTL8139"
      BY DEF I
    <2>3. /\ \A k \in 1 .. Len(b) : k = 1 \/ k = 2
          /\ b[1].op = "lock" /\ b[1].arg = "RTL8139" /\ b[2].op = "unlock" /\ b[2].arg = "RTL8139"
      <3>1. Len(b) = 2
        BY <2>1
      <3>2. \A k \in 1 .. Len(b) : k = 1 \/ k = 2
        BY <3>1
      <3> QED BY <2>1, <2>2, <3>2
    <2>4. /\ ~Failing(b) /\ HeapFree(b) /\ ScreenFree(b)
          /\ Without(b, "iret") /\ Without(b, "init") /\ Without(b, "write")
      BY <2>3 DEF Failing, Without, HeapFree, OnHeap, ScreenFree, OnScreen
    <2>5. Uninterrupted(b, FALSE)
      <3> SUFFICES ASSUME NEW k \in 1 .. Len(b), Masking(b[k])
                   PROVE  \A j \in 1 .. (k - 1) : b[j].op \in {"lock", "write"}
        BY DEF Uninterrupted
      <3>1. k = 2
        BY <2>3 DEF Masking
      <3>2. \A j \in 1 .. (k - 1) : j = 1
        BY <3>1
      <3> QED BY <2>3, <3>2
    <2>6. Fit(b, FALSE, r, s)
      BY <2>1, <2>3, <2>4, <2>5 DEF Fit, Reports, Ordered, Late, ReturnsLast, Writes
    <2> QED BY <2>0, <2>1, <2>4, <2>6
  <1>5. CASE kind # "network"
    <2>0. PICK b : b = IrqPrograms[kind]
      OBVIOUS
    <2>1. Block(b) /\ b \in Code /\ HeapFree(b) /\ ScreenFree(b)
      BY <1>1, <1>2, <1>3, <1>5, <2>0, EmptyBlock
    <2> QED BY <2>0, <2>1, FitBlock, BlockWithout
  <1> QED BY <1>4, <1>5

LEMMA IrqKeeps == ASSUME KInv, NEW kind \in DOMAIN IrqPrograms, Irq(kind) PROVE KInv'
  <1>0. /\ IF_ /\ Booted(ready)
        /\ Fit(todo, IF_, Told(Depth), ready)
    BY TypedParts, Running DEF Irq
  <1>1. PICK b : b = IrqPrograms[kind]
    OBVIOUS
  <1>2. PICK d : d = <<I("eoi", ""), I("iret", "")>>
    OBVIOUS
  <1>3. /\ Enter(kind, b \o d, "none") /\ UNCHANGED <<owner, ready, mode>> /\ "none" \in Messages
    BY <1>1, <1>2 DEF Irq, Messages
  <1>4. /\ b \in Code /\ Fit(b, FALSE, FALSE, ready) /\ ~Failing(b)
        /\ Without(b, "iret") /\ Without(b, "init") /\ Without(b, "write")
        /\ HeapFree(b) /\ ScreenFree(b)
    BY <1>1, IrqPieces
  <1>5. Ending(d) /\ d \in Code /\ HeapFree(d) /\ ScreenFree(d)
    BY <1>2, Endings DEF Ending
  <1>6. Fit(b \o d, FALSE, FALSE, ready) /\ Without(b \o d, "init") /\ Without(b \o d, "write")
    BY <1>0, <1>4, <1>5, Returning
  <1>7. b \o d \in Code /\ HeapFree(b \o d) /\ ScreenFree(b \o d)
    BY <1>4, <1>5, WithoutConcat, ConcatOf
  <1>8. Uninterrupted(todo, TRUE)
    BY <1>0 DEF Fit, Uninterrupted
  <1>9. kind \in Kinds
    BY DEF Kinds
  <1>10. ("none" = "out") = FALSE
    OBVIOUS
  <1> QED BY <1>3, <1>6, <1>7, <1>8, <1>9, <1>10, EnterKeeps

\* read and randu64 do nothing that matters here.
LEMMA SilentCalls ==
    ASSUME NEW b, b \in SyscallPrograms(0) \/ b \in SyscallPrograms(4)
    PROVE  b = << >>
  <1>1. ASSUME b \in SyscallPrograms(0) PROVE b = << >>
    BY <1>1 DEF SyscallPrograms
  <1>2. ASSUME b \in SyscallPrograms(4) PROVE b = << >>
    BY <1>2 DEF SyscallPrograms
  <1> QED BY <1>1, <1>2

\* The blocks that system calls are made of.
LEMMA CallBlocks ==
    /\ Block(Sleep) /\ Block(LogPrint("log")) /\ Block(Console) /\ Block(<< >>)
    /\ Block(UserBytes \o LogPrint("log")) /\ Block(UserBytes \o Console) /\ Block(UserBytes \o << >>)
    /\ Block(Alloc \o Alloc) /\ Block(Alloc \o UserBytes \o Alloc)
  <1>1. Block(Sleep) /\ Block(UserBytes)
    <2>1. "sleep" \in Ops /\ "user" \in Ops /\ "" \in Args
      BY DEF Ops, Args
    <2> QED BY <2>1, OneInstr DEF Sleep, UserBytes
  <1>2. Block(Alloc) /\ Block(LogPrint("log")) /\ Block(Console) /\ Block(<< >>)
    BY Pieces, EmptyBlock
  <1> QED BY <1>1, <1>2, BlockConcat

\* What a system call does before iretq: a block, but for panic.
LEMMA CallPrograms ==
    ASSUME NEW rax \in 0 .. 9, NEW b \in SyscallPrograms(rax)
    PROVE  Block(b) \/ b = PanicProgram("user")
  <1>1. rax \in {0, 1, 2, 3, 4, 5, 6, 7, 8, 9}
    OBVIOUS
  <1>2. CASE rax = 0 \/ rax = 4
    BY <1>2, SilentCalls, CallBlocks
  <1>3. CASE rax = 1
    <2>1. SyscallPrograms(rax) = {LogPrint("log")} \cup {UserBytes \o code :
                                    code \in {LogPrint("log"), Console, << >>}}
      BY <1>3 DEF SyscallPrograms
    <2> QED BY <2>1, CallBlocks
  <1>4. CASE rax = 2
    <2>1. SyscallPrograms(rax) = {PanicProgram("user")}
      BY <1>4 DEF SyscallPrograms
    <2> QED BY <2>1
  <1>5. CASE rax = 3
    <2>1. SyscallPrograms(3) = {Sleep}
      BY DEF SyscallPrograms
    <2> QED BY <1>5, <2>1, CallBlocks
  <1>6. CASE rax = 5
    <2>1. SyscallPrograms(rax) = {Alloc \o Alloc, Alloc \o UserBytes \o Alloc}
      BY <1>6 DEF SyscallPrograms
    <2> QED BY <2>1, CallBlocks
  <1>7. CASE rax = 6
    <2>1. SyscallPrograms(rax) = {Console, << >>}
      BY <1>7 DEF SyscallPrograms
    <2> QED BY <2>1, CallBlocks
  <1>8. CASE rax \in {7, 8, 9}
    <2>1. SyscallPrograms(rax) = {LogPrint("log")}
      BY <1>8 DEF SyscallPrograms
    <2> QED BY <2>1, CallBlocks
  <1> QED BY <1>1, <1>2, <1>3, <1>4, <1>5, <1>6, <1>7, <1>8

\* It is sound.
LEMMA SyscallPieces ==
    ASSUME NEW rax \in 0 .. 9, NEW b \in SyscallPrograms(rax), NEW r \in BOOLEAN, NEW s
    PROVE  /\ b \in Code /\ Fit(b, FALSE, r, s)
           /\ Without(b, "iret") /\ Without(b, "init") /\ Without(b, "write")
           /\ ~Failing(b) \/ (Len(b) >= 1 /\ Report(b[1]))
  <1>1. CASE b = PanicProgram("user")
    <2>1. FailCode(b)
      BY <1>1, FailPrograms
    <2>2. \A m \in {"report", "user"} : Report(I("without_interrupts", m))
      BY DEF Report, I
    <2> QED BY <2>1, <2>2, FitFail DEF FailCode, Without, Late
  <1>2. CASE Block(b)
    BY <1>2, FitBlock, BlockWithout DEF Block
  <1> QED BY <1>1, <1>2, CallPrograms

LEMMA SyscallKeeps == ASSUME KInv, Syscall PROVE KInv'
  <1>0. /\ Depth = 1 /\ todo = << >> /\ Booted(ready)
        /\ UNCHANGED <<owner, ready, mode>>
    BY TypedParts DEF Syscall, InUserMode
  <1>r. PICK rax \in 0 .. 9 : \E c \in SyscallPrograms(rax) :
            Enter("syscall", c \o <<I("iret", "")>>, IF rax = 2 THEN "owed" ELSE "none")
    BY DEF Syscall
  <1>m. PICK m \in Messages : m = (IF rax = 2 THEN "owed" ELSE "none")
    BY DEF Messages
  <1>1. PICK b \in SyscallPrograms(rax) : Enter("syscall", b \o <<I("iret", "")>>, m)
    BY <1>r, <1>m
  <1>2. PICK d : d = <<I("iret", "")>>
    OBVIOUS
  <1>3. Enter("syscall", b \o d, m)
    BY <1>1, <1>2
  <1>4. /\ b \in Code /\ Fit(b, FALSE, FALSE, ready)
        /\ Without(b, "iret") /\ Without(b, "init") /\ Without(b, "write")
        /\ ~Failing(b) \/ (Len(b) >= 1 /\ Report(b[1]))
    BY <1>0, SyscallPieces
  <1>5. Ending(d) /\ d \in Code
    BY <1>2, Endings DEF Ending
  <1>6. Fit(b \o d, FALSE, FALSE, ready) /\ Without(b \o d, "init") /\ Without(b \o d, "write")
    BY <1>0, <1>4, <1>5, Returning
  <1>7. b \o d \in Code
    BY <1>4, <1>5, ConcatOf
  <1>8. Uninterrupted(todo, TRUE)
    BY <1>0 DEF Uninterrupted
  <1>9. "syscall" \in Kinds
    BY DEF Kinds
  <1>10. (m = "out") = FALSE
    BY <1>m
  <1> QED BY <1>0, <1>3, <1>6, <1>7, <1>8, <1>9, <1>10, EnterKeeps

LEMMA FaultKeeps == ASSUME KInv, Fault, ~ReadsUserMessage(todo) PROVE KInv'
  <1>1. PICK n : n = FaultProgram
    OBVIOUS
  <1>2. FailCode(n) /\ n \in Code /\ HeapFree(n) /\ Failing(n)
        /\ Without(n, "init") /\ Without(n, "write")
    BY <1>1, FailPrograms DEF FailCode, Without, Late
  <1>3. Fit(n, FALSE, "owed" = "out", ready)
    BY <1>2, FitFail
  <1>4. Enter("fault", n, "owed") /\ UNCHANGED <<owner, ready, mode>> /\ "owed" \in Messages
    BY <1>1 DEF Fault, Enter, Messages
  <1>5. Uninterrupted(todo, TRUE)
    <2>1. CASE todo = << >>
      BY <2>1 DEF Uninterrupted
    <2>2. CASE todo # << >>
      <3>1. todo[1].op \in {"expect", "pixels", "user"} /\ Fit(todo, IF_, Told(Depth), ready)
        BY <2>2, Running DEF Fault, At, InUserMode
      <3> SUFFICES ASSUME NEW k \in 1 .. Len(todo), Masking(todo[k]) PROVE FALSE
        BY DEF Uninterrupted
      <3>2. k # 1
        BY <3>1 DEF Masking
      <3>3. 1 \in 1 .. (k - 1)
        BY <3>2
      <3> QED BY <3>1, <3>3 DEF Fit, Uninterrupted
    <2> QED BY <2>1, <2>2
  <1>6. "fault" \in Kinds
    BY DEF Kinds
  <1> QED BY <1>2, <1>3, <1>4, <1>5, <1>6, EnterKeeps

LEMMA IretKeeps == ASSUME KInv, Iret PROVE KInv'
  <1>0. todo # << >> /\ Instr.op = "iret" /\ todo \in Code /\ Instr = todo[1]
    BY AtFirst DEF Iret
  <1>1. Depth > 1 /\ Depth \in Nat
    <2>1. Depth \in Nat /\ Depth >= 1 /\ Good(Depth) /\ todo = stack[Depth].todo
      BY Running
    <2>2. 1 \in 1 .. Len(todo)
      BY <1>0, TailOf
    <2>3. ~Without(todo, "iret")
      BY <1>0, <2>2 DEF Without
    <2> QED BY <2>1, <2>3 DEF Good
  <1>2. (\A l \in Locks : owner[l] # Depth) /\ Booted(ready)
    BY <1>0, LastHoldsNothing
  <1>3. IF_' = TRUE /\ UNCHANGED <<owner, ready, mode>>
    BY DEF Iret
  <1>4. /\ stack' \in Seq(Frames) /\ Depth' = Depth - 1
        /\ \A d \in 1 .. (Depth - 1) : stack'[d] = stack[d]
    <2>1. stack \in Seq(Frames) /\ Len(stack) \in Nat /\ Len(stack) > 1
      BY <1>1 DEF KInv, Typed, Depth
    <2>2. stack' = SubSeq(stack, 1, Len(stack) - 1)
      BY DEF Iret, Depth
    <2>3. stack' \in Seq(Frames) /\ Len(stack') = Len(stack) - 1
          /\ \A d \in 1 .. (Len(stack) - 1) : stack'[d] = stack[d]
      BY <2>1, <2>2
    <2> QED BY <2>3 DEF Depth
  <1>5. Typed'
    <2>1. /\ owner \in [Locks -> Nat] /\ \A l \in Locks : owner[l] <= Depth
      BY DEF KInv, Typed
    <2>2. \A l \in Locks : owner[l] <= Depth - 1
      BY <1>1, <1>2, <2>1
    <2>3. owner' \in [Locks -> Nat] /\ \A l \in Locks : owner'[l] <= Depth'
      BY <1>3, <1>4, <2>1, <2>2
    <2>4. IF_' \in BOOLEAN
      BY <1>3
    <2>6. Depth' >= 1
      BY <1>1, <1>4
    <2>7. Booted(ready')
      BY <1>2, <1>3
    <2> QED BY <1>4, <2>3, <2>4, <2>6, <2>7 DEF Typed, Booted
  <1>6. ASSUME NEW d \in 1 .. Depth' PROVE Good(d)' /\ Owned(d)'
    <2>1. stack'[d] = stack[d] /\ d \in 1 .. Depth /\ d < Depth
      BY <1>1, <1>4
    <2>2. Good(d) /\ Owned(d)
      BY <2>1 DEF KInv
    <2>3. Fit(stack[d].todo, TRUE, Told(d), ready)
      <3>1. (IF_ \/ d < Depth) = TRUE
        BY <2>1
      <3>2. Fit(stack[d].todo, IF_ \/ d < Depth, Told(d), ready)
        BY <2>2 DEF Good
      <3> QED BY <3>1, <3>2
    <2>4. Fit(stack'[d].todo, IF_' \/ d < Depth', Told(d)', ready')
      <3>1. (IF_' \/ d < Depth') = TRUE
        BY <1>3
      <3>2. Told(d)' = Told(d)
        BY <2>1 DEF Told
      <3> QED BY <1>3, <2>1, <2>3, <3>1, <3>2
    <2>5. Placed(d)'
      <3>1. d = 2 => stack'[1] = stack[1]
        BY <1>1, <1>4
      <3> QED BY <2>1, <2>2, <3>1 DEF Good, Placed
    <2>6. Good(d)'
      BY <2>1, <2>2, <2>4, <2>5 DEF Good
    <2>7. Owned(d)'
      BY <1>3, <2>1, <2>2 DEF Owned
    <2> QED BY <2>6, <2>7
  <1>7. Writing'
    <2>1. Depth' \in 1 .. Depth' /\ Depth' < Depth /\ Depth' \in 1 .. Depth
      BY <1>1, <1>4
    <2>2. PICK d \in 1 .. Depth : d = Depth'
      BY <2>1
    <2>3. Good(d) /\ stack'[d] = stack[d] /\ (IF_ \/ d < Depth) = TRUE
      BY <1>1, <1>4, <2>1, <2>2 DEF KInv
    <2>4. Fit(stack[d].todo, IF_ \/ d < Depth, Told(d), ready)
      BY <2>3 DEF Good
    <2>5. Fit(stack[d].todo, TRUE, Told(d), ready)
      BY <2>3, <2>4
    <2>6. todo' = stack[d].todo
      BY <2>2, <2>3 DEF todo, Top
    <2> QED BY <2>5, <2>6, NotWriting DEF Writing
  <1> QED BY <1>5, <1>6, <1>7 DEF KInv

-----------------------------------------------------------------------------
(* The invariant and what follows from it.                                 *)

\* The invariant holds initially ...
LEMMA KInvInit == ASSUME Init PROVE KInv
  <1>1. /\ Fit(BootProgram, FALSE, FALSE, {}) /\ BootProgram \in Code
        /\ Without(BootProgram, "iret") /\ Without(BootProgram, "write")
    BY BootFits DEF Fit
  <1>2. /\ stack = <<[kind |-> "main", todo |-> BootProgram, message |-> "none"]>> /\ IF_ = FALSE
        /\ ready = {} /\ mode = "boot" /\ owner = [l \in Locks |-> 0]
    BY DEF Init
  <1>3. /\ stack \in Seq(Frames) /\ Depth = 1 /\ stack[1].todo = BootProgram
        /\ stack[1].message = "none"
    <2>1. "main" \in Kinds /\ "none" \in Messages
      BY DEF Kinds, Messages
    <2>2. PICK x : x = [kind |-> "main", todo |-> BootProgram, message |-> "none"]
      OBVIOUS
    <2>3. x \in Frames /\ x.todo = BootProgram /\ x.message = "none"
      BY <1>1, <2>1, <2>2 DEF Frames
    <2>4. stack = <<x>>
      BY <1>2, <2>2
    <2> QED BY <2>3, <2>4 DEF Depth
  <1>4. Typed
    <2>1. owner \in [Locks -> Nat] /\ \A l \in Locks : owner[l] <= Depth
      BY <1>2, <1>3
    <2>2. IF_ \in BOOLEAN /\ ~(IF_ \/ mode # "boot")
      BY <1>2
    <2>3. Depth >= 1
      BY <1>3
    <2> QED BY <1>3, <2>1, <2>2, <2>3 DEF Typed
  <1>5. ASSUME NEW d \in 1 .. Depth PROVE Good(d) /\ Owned(d)
    <2>1. d = 1
      BY <1>3
    <2>2. Fit(stack[d].todo, IF_ \/ d < Depth, Told(d), ready)
      <3>1. (IF_ \/ d < Depth) = FALSE
        BY <1>2, <1>3, <2>1
      <3>2. Told(d) = FALSE
        BY <1>3, <2>1 DEF Told
      <3> QED BY <1>1, <1>2, <1>3, <2>1, <3>1, <3>2
    <2>3. Good(d)
      BY <1>1, <1>3, <2>1, <2>2 DEF Good, Placed
    <2>4. Owned(d)
      BY <1>2, <2>1 DEF Owned
    <2> QED BY <2>3, <2>4
  <1>6. Writing
    <2>1. todo = BootProgram
      BY <1>3 DEF todo, Top
    <2>2. BootProgram # << >> => 1 \in 1 .. Len(BootProgram)
      BY <1>1, TailOf
    <2> QED BY <1>1, <2>1, <2>2 DEF Writing, Without
  <1> QED BY <1>4, <1>5, <1>6 DEF KInv

\* ... and every step keeps it, but for the fault that a user's pointer raises.
LEMMA KInvNext == ASSUME KInv, [Next]_vars, ~(Fault /\ ReadsUserMessage(todo)) PROVE KInv'
  <1>1. CASE UNCHANGED vars
    BY <1>1 DEF vars, KInv, Typed, Good, Owned, Placed, Depth, Told, Writing, todo, Top
  <1>2. CASE PanicHere
    <2>1. todo # << >> /\ Instr.op \in {"expect", "pixels"} /\ Panic
      BY <1>2 DEF PanicHere, At
    <2> QED BY <2>1, PanicKeeps
  <1>3. CASE AddScancode
    <2>1. todo # << >> /\ Instr.op = "add_scancode"
      BY <1>3 DEF AddScancode, At
    <2>2. CASE Panic
      BY <2>1, <2>2, PanicKeeps
    <2>3. CASE Continue(Tail(todo)) /\ UNCHANGED <<IF_, owner, ready, mode>>
      BY <2>1, <2>3, PlainKeeps
    <2> QED BY <1>3, <2>2, <2>3 DEF AddScancode
  <1>4. CASE Eoi
    <2>1. todo # << >> /\ Instr.op = "eoi"
      BY <1>4 DEF Eoi, At
    <2>2. CASE Panic
      BY <2>1, <2>2, PanicKeeps
    <2>3. CASE Continue(Tail(todo)) /\ UNCHANGED <<IF_, owner, ready, mode>>
      BY <2>1, <2>3, PlainKeeps
    <2> QED BY <1>4, <2>2, <2>3 DEF Eoi
  <1>5. CASE Plain \/ Tick \/ SleepReturns
    <2>1. /\ todo # << >> /\ Instr.op \in {"expect", "pixels", "user", "tick", "wait"}
          /\ Continue(Tail(todo)) /\ UNCHANGED <<IF_, owner, ready, mode>>
      BY <1>5 DEF Plain, Tick, SleepReturns, At
    <2> QED BY <2>1, PlainKeeps
  <1>6. CASE Spin
    BY <1>1, <1>6 DEF Spin
  <1>7. CASE \E k \in DOMAIN IrqPrograms : Irq(k)
    BY <1>7, IrqKeeps
  <1> QED
    BY <1>1, <1>2, <1>3, <1>4, <1>5, <1>6, <1>7, AcquireKeeps, ReleaseKeeps, WithoutInterruptsKeeps,
       WriteSerialKeeps, EnableKeeps, DrawKeeps, SetUpKeeps, StartInitKeeps, ShellCommandKeeps,
       IretKeeps, SleepMsKeeps, FaultKeeps, SyscallKeeps DEF Next, Step, Trouble

-----------------------------------------------------------------------------
(* The bad pointer of the panic system call.                               *)

\* The fault that the pointer raised waits for the lock of its own kernel.
Stuck ==
    /\ stack \in Seq(Frames) /\ Depth >= 2
    /\ todo # << >> /\ Instr \in {I("without_interrupts", "report"), I("lock", "SERIAL1")}
    /\ owner["SERIAL1"] # 0
    /\ IF_ = FALSE
    /\ ReadsUserMessage(stack[Depth - 1].todo)

\* The fault strikes inside the section of SERIAL1 ...
LEMMA BadPointerSticks == ASSUME KInv, Fault, ReadsUserMessage(todo) PROVE Stuck'
  <1>1. /\ Depth \in Nat /\ Depth >= 1 /\ todo = stack[Depth].todo
        /\ todo # << >> /\ todo[1] = I("write", "user")
    BY Running DEF ReadsUserMessage, Instr
  <1>2. owner["SERIAL1"] = Depth
    <2>1. I("write", "user").op = "write"
      BY DEF I
    <2> QED BY <1>1, <2>1 DEF KInv, Writing
  <1>3. PICK n : n = FaultProgram
    OBVIOUS
  <1>4. /\ n \in Code /\ n # << >> /\ Head(n) = I("without_interrupts", "report")
    <2>1. n \in Code /\ Len(n) >= 1 /\ n[1] = I("without_interrupts", "report")
      BY <1>3, FailPrograms DEF FailCode
    <2>2. Head(n) = n[1] /\ n # << >>
      BY <2>1, TailOf DEF Code
    <2> QED BY <2>1, <2>2
  <1>5. /\ stack' = Append(stack, [kind |-> "fault", todo |-> n, message |-> "owed"])
        /\ IF_' = FALSE /\ owner' = owner
    BY <1>3 DEF Fault, Enter
  <1>6. /\ stack' \in Seq(Frames) /\ Depth' = Depth + 1 /\ stack'[Depth + 1].todo = n
        /\ stack'[Depth] = stack[Depth]
    <2> DEFINE x == [kind |-> "fault", todo |-> n, message |-> "owed"]
    <2>1. x \in Frames /\ x.todo = n
      BY <1>4 DEF Frames, Kinds, Messages
    <2>2. stack' = Append(stack, x) /\ stack \in Seq(Frames) /\ Len(stack) >= 1
      BY <1>5 DEF KInv, Typed, Depth
    <2> HIDE DEF x
    <2> QED BY <2>1, <2>2 DEF Depth
  <1>7. todo' = n /\ Instr' = I("without_interrupts", "report")
    BY <1>4, <1>6 DEF todo, Top, Instr
  <1>8. Depth' - 1 = Depth /\ Depth' >= 2 /\ stack'[Depth' - 1].todo = todo
    BY <1>1, <1>6
  <1>9. ReadsUserMessage(stack'[Depth' - 1].todo)
    BY <1>8
  <1>10. owner'["SERIAL1"] # 0 /\ todo' # << >>
         /\ Instr' \in {I("without_interrupts", "report"), I("lock", "SERIAL1")}
    BY <1>1, <1>2, <1>4, <1>5, <1>7
  <1> QED BY <1>5, <1>6, <1>8, <1>9, <1>10 DEF Stuck

\* ... and there it stays.
LEMMA StuckNext == ASSUME Stuck, [Next]_vars PROVE Stuck'
  <1>1. /\ todo # << >> /\ Instr.op \in {"without_interrupts", "lock"}
        /\ (Instr.op = "lock" => Instr.arg = "SERIAL1")
        /\ (Instr.op = "without_interrupts" => Instr.arg = "report")
        /\ IF_ = FALSE /\ owner["SERIAL1"] # 0
    BY DEF Stuck, I
  <1>2. ~Fault
    <2>1. Instr # I("write", "user")
      BY <1>1 DEF I
    <2> QED BY <1>1, <2>1 DEF Fault, At, ReadsUserMessage, InUserMode, Instr
  <1>3. [Next]_vars => UNCHANGED vars \/ WithoutInterrupts
    BY <1>1, <1>2
       DEF Next, Step, Trouble, Acquire, Release, WriteSerial, Enable, Draw, SetUp, Plain, StartInit,
           ShellCommand, AddScancode, Tick, Eoi, Iret, SleepMs, SleepReturns, PanicHere, Syscall, Spin,
           Irq, At, InUserMode
  <1>4. CASE UNCHANGED vars
    BY <1>4 DEF vars, Stuck, Depth, todo, Top, Instr
  <1>5. CASE WithoutInterrupts
    <2> DEFINE t == Tail(todo)
               n == SerialBody("report", << >>) \o t
    <2>1. /\ Becomes(n, Top.message) /\ IF_' = FALSE /\ owner' = owner
      BY <1>1, <1>5 DEF WithoutInterrupts, Continue, At
    <2>2. stack \in Seq(Frames) /\ Len(stack) \in Nat /\ Len(stack) >= 2 /\ Depth = Len(stack)
      BY DEF Stuck, Depth
    <2>3. stack[Depth] \in Frames
      BY <2>2
    <2>4. t \in Code
      <3>1. todo \in Code
        BY <2>3 DEF Frames, todo, Top
      <3> QED BY <1>1, <3>1, TailOf
    <2>5. n \in Code /\ n # << >> /\ Head(n) = I("lock", "SERIAL1")
      <3> DEFINE i == I("write", "report")  a == With("SERIAL1", <<i>>)
      <3>1. i \in InstrSet /\ i.op = "write"
        <4>1. "write" \in Ops /\ "report" \in Args
          BY DEF Ops, Args
        <4> QED BY <4>1, Instrs
      <3> HIDE DEF i
      <3>2. "SERIAL1" \in Locks /\ ~Breaks(i, "SERIAL1")
        BY <3>1 DEF Locks, Breaks, Opens, Private
      <3>3. a \in Code /\ Len(a) >= 1 /\ a[1] = I("lock", "SERIAL1")
        BY <3>1, <3>2, WithOne
      <3> HIDE DEF a
      <3>4. a \o << >> = a
        BY <3>3 DEF Code
      <3>5. n = a \o t
        BY <3>4 DEF SerialBody, a, i
      <3> HIDE DEF n, t
      <3>6. n \in Code /\ Len(n) >= 1 /\ n[1] = a[1]
        BY <2>4, <3>3, <3>5, FirstOf
      <3>7. n # << >> /\ Head(n) = n[1]
        BY <3>6 DEF Code
      <3> QED BY <3>3, <3>6, <3>7
    <2> HIDE DEF n, t
    <2>6. /\ stack' \in Seq(Frames) /\ Len(stack') = Len(stack) /\ stack'[Depth].todo = n
          /\ stack'[Depth - 1] = stack[Depth - 1]
      <3> DEFINE x == [kind |-> Top.kind, todo |-> n, message |-> Top.message]
      <3>1. x \in Frames /\ x.todo = n
        BY <2>3, <2>5 DEF Frames, Top
      <3>2. stack' = [stack EXCEPT ![Depth] = x]
        BY <2>1 DEF Becomes
      <3> HIDE DEF x
      <3> QED BY <2>2, <3>1, <3>2
    <2>7. Depth' = Depth /\ todo' = n /\ Instr' = I("lock", "SERIAL1")
      BY <2>5, <2>6 DEF Depth, todo, Top, Instr
    <2>8. ReadsUserMessage(stack'[Depth' - 1].todo)
      BY <2>6, <2>7 DEF Stuck
    <2> QED BY <1>1, <2>1, <2>2, <2>5, <2>6, <2>7, <2>8 DEF Stuck
  <1> QED BY <1>3, <1>4, <1>5

\* The invariant, for every depth of nesting: the kernel's contexts are sound,
\* or one waits because the user program passed panic a bad pointer.
THEOREM KernelInvariant == Spec => [](KInv \/ Stuck)
  <1>1. Init => KInv
    BY KInvInit
  <1>2. (KInv \/ Stuck) /\ [Next]_vars => (KInv \/ Stuck)'
    BY KInvNext, BadPointerSticks, StuckNext
  <1> QED BY <1>1, <1>2, PTL DEF Spec

\* What the bad pointer leads to.
LEMMA StuckMeans ==
    ASSUME Stuck
    PROVE  BadPanicPointer /\ ~IF_ /\ (At("lock") => Instr.arg = "SERIAL1")
  <1>1. Depth \in Nat /\ Depth >= 2
    BY DEF Stuck, Depth
  <1>2. Depth - 1 \in 1 .. (Depth - 1) /\ ReadsUserMessage(stack[Depth - 1].todo)
    BY <1>1 DEF Stuck
  <1>3. At("lock") => Instr.arg = "SERIAL1"
    BY DEF Stuck, At, I
  <1> QED BY <1>2, <1>3 DEF Stuck, BadPanicPointer

\* A taken lock: whose it is, and that the context that waits has reported.
LEMMA BlockedMeans ==
    ASSUME KInv, At("lock"), owner[Instr.arg] # 0
    PROVE  Told(Depth) /\ Instr.arg \notin Private
  <1>1. todo # << >> /\ Instr.op = "lock" /\ todo \in Code /\ Instr = todo[1] /\ Instr.arg \in Locks
    BY AtFirst
  <1>2. PICK l \in Locks : l = Instr.arg
    BY <1>1
  <1>3. PICK d \in 1 .. Depth : owner[l] = d
    BY <1>2 DEF KInv, Typed
  <1>4. /\ Depth \in Nat /\ Depth >= 1 /\ todo = stack[Depth].todo /\ Good(Depth) /\ Owned(Depth)
        /\ Fit(todo, IF_, Told(Depth), ready) /\ Told(Depth) \in BOOLEAN
    BY Running
  <1>5. 1 \in 1 .. Len(todo) /\ 1 .. (1 - 1) = {}
    BY <1>1, TailOf
  <1>6. Failing(todo) /\ l \notin Private => Told(Depth)
    <2>1. l \notin Private => OnScreen(todo[1])
      BY <1>1, <1>2 DEF OnScreen, Private, Locks
    <2>2. Reports(todo, Told(Depth))
      BY <1>4 DEF Fit
    <2> QED BY <1>5, <2>1, <2>2 DEF Reports
  <1>7. CASE d = Depth
    <2>1. ~Held(todo, l)
      <3>1. ~Closes(todo[1], l) /\ Breaks(todo[1], l)
        BY <1>1, <1>2 DEF Closes, Breaks, Opens
      <3> QED BY <1>1, <3>1, HeldTail
    <2> QED BY <1>2, <1>3, <1>4, <1>6, <1>7, <2>1 DEF Owned
  <1>8. CASE d # Depth
    <2>1. d < Depth /\ Good(d) /\ Owned(d)
      BY <1>4, <1>8 DEF KInv
    <2>2. Fit(stack[d].todo, TRUE, Told(d), ready)
      <3>1. (IF_ \/ d < Depth) = TRUE
        BY <2>1
      <3>2. Fit(stack[d].todo, IF_ \/ d < Depth, Told(d), ready)
        BY <2>1 DEF Good
      <3> QED BY <3>1, <3>2
    <2>3. l \notin {"SERIAL1", "RTL8139"}
      <3> SUFFICES ASSUME l \in {"SERIAL1", "RTL8139"} PROVE FALSE
        OBVIOUS
      <3>1. Held(stack[d].todo, l)
        BY <1>3, <2>1 DEF Owned, Private
      <3>2. PICK k \in 1 .. Len(stack[d].todo) : Closes(stack[d].todo[k], l)
        BY <3>1 DEF Held
      <3>3. Masking(stack[d].todo[k])
        BY <3>2 DEF Closes, Masking
      <3> QED BY <2>2, <3>3 DEF Fit, Uninterrupted
    <2>4. Depth = 2 /\ stack[1].todo = << >> => l \notin Locks
      <3> SUFFICES ASSUME Depth = 2, stack[1].todo = << >> PROVE FALSE
        OBVIOUS
      <3>1. d = 1
        BY <2>1
      <3> QED BY <1>3, <2>1, <3>1, HeldNothing DEF Owned
    <2>5. HeapFree(todo) /\ (ScreenFree(todo) \/ Failing(todo))
      <3>1. Depth # 1
        BY <2>1
      <3> QED BY <1>4, <2>4, <3>1 DEF Good, Placed
    <2>6. l # "HEAP"
      BY <1>1, <1>2, <1>5, <2>5 DEF HeapFree, OnHeap
    <2>7. l \notin Private
      BY <2>3, <2>6 DEF Private
    <2>8. OnScreen(todo[1])
      BY <1>1, <1>2, <2>7 DEF OnScreen, Private, Locks
    <2>9. Failing(todo)
      BY <1>5, <2>5, <2>8 DEF ScreenFree
    <2> QED BY <1>2, <1>6, <2>7, <2>9
  <1> QED BY <1>7, <1>8

\* logging::_print, which disables interrupts around SERIAL1, and the handlers,
\* which do not allocate: no context ever finds the heap taken, and none the
\* serial line but the fault of a bad pointer (SerialAndHeapUncontended).
THEOREM KernelSerialAndHeapUncontended == Spec => []SerialAndHeapUncontended
  <1>1. KInv => SerialAndHeapUncontended
    BY BlockedMeans DEF SerialAndHeapUncontended, Blocked, Private
  <1>2. Stuck => SerialAndHeapUncontended
    BY StuckMeans DEF SerialAndHeapUncontended, Blocked
  <1> QED BY <1>1, <1>2, KernelInvariant, PTL

\* A context waits for a lock only if it is a panic or a fault whose own message
\* is on the serial line (BlockedOnlyAfterReport), or the fault of a bad
\* pointer: panic_handler and the fault handlers write there before they turn
\* to the screen.
THEOREM KernelBlockedOnlyAfterReport == Spec => []BlockedOnlyAfterReport
  <1>1. KInv => BlockedOnlyAfterReport
    BY BlockedMeans DEF BlockedOnlyAfterReport, Blocked, Told, Top
  <1>2. Stuck => BlockedOnlyAfterReport
    BY StuckMeans DEF BlockedOnlyAfterReport
  <1> QED BY <1>1, <1>2, KernelInvariant, PTL

\* kernel_main enables interrupts after init_idt and the LAPIC, and
\* without_interrupts restores the flag it found (InterruptsOnlyWhenReady).
THEOREM KernelInterruptsOnlyWhenReady == Spec => []InterruptsOnlyWhenReady
  <1>1. KInv => InterruptsOnlyWhenReady
    BY TypedParts DEF InterruptsOnlyWhenReady, Booted
  <1>2. Stuck => InterruptsOnlyWhenReady
    BY StuckMeans DEF InterruptsOnlyWhenReady
  <1> QED BY <1>1, <1>2, KernelInvariant, PTL

=============================================================================
