------------------------------- MODULE Kernel -------------------------------
(***************************************************************************)
(* The contexts that share the kernel's spin locks on one CPU: kernel_main *)
(* and what it starts (the shell or the user program), interrupt handlers, *)
(* system calls, exception handlers and panics                             *)
(* (kernel/src/main.rs, interrupts.rs, logging.rs, serial.rs, syscall.rs,  *)
(* sleep.rs).                                                              *)
(*                                                                         *)
(* A context is a frame of `stack'; the top one runs.  What is left of its *)
(* code is `todo', a sequence of the instructions that matter here: locks, *)
(* the interrupt flag, the points that may panic or fault.  Everything a   *)
(* handler does besides is data.  `message' is a history variable: whether *)
(* the context is a panic or a fault, and has got its message out on the   *)
(* serial line.                                                            *)
(***************************************************************************)
EXTENDS Naturals, Sequences

CONSTANTS
    MaxDepth,  \* bound: contexts on the stack (a fault in a fault nests)
    MaxWait    \* bound: milliseconds a program asks Sleep::ms for

ASSUME KernelAssumption == MaxDepth \in Nat \ {0} /\ MaxWait \in Nat

Locks == {"SERIAL1", "TTY", "FRAMEBUFFER", "HEAP", "RTL8139"}

VARIABLES
    stack,       \* the contexts, innermost last: [kind, todo, message]
    IF_,         \* the interrupt flag
    owner,       \* per lock: the depth of the context that holds it, or 0
    ready,       \* what kernel_main has set up so far
    mode,        \* "boot", "shell" or "user"
    ticks_left   \* goal - TICK_COUNT of the Sleep::ms in progress

vars == <<stack, IF_, owner, ready, mode, ticks_left>>

Depth == Len(stack)
Top == stack[Depth]
todo == Top.todo
Instr == Head(todo)

\* A context's message: it is no failure, it is one that has yet to report, or
\* one whose message is on the serial line.
Messages == {"none", "owed", "out"}

-----------------------------------------------------------------------------
(* Code, as sequences of instructions.                                     *)

I(op, arg) == [op |-> op, arg |-> arg]

With(lock, body) == <<I("lock", lock)>> \o body \o <<I("unlock", lock)>>

\* print!: TTY.lock(), and if there is a TTY, write to the framebuffer.
Console == With("TTY", <<I("draw", "")>>)

\* Mutant: logging::_print writes to the screen first.
LogPrint_ScreenFirst(kind) == Console \o <<I("without_interrupts", kind)>>

\* logging::_print: the serial line with interrupts off, then the screen.
LogPrint(kind) == <<I("without_interrupts", kind)>> \o Console

\* panic_handler: the message, a face on the serial line, one on the screen.
\* The message is at hand ("report") or behind a user's pointer ("user").
PanicProgram(message) ==
    LogPrint(message) \o <<I("without_interrupts", "log")>> \o Console
        \o <<I("loop", "")>>

\* The page fault, double fault and GP fault handlers.
FaultProgram ==
    LogPrint("report") \o Console \o <<I("without_interrupts", "log")>>
        \o <<I("loop", "")>>

Alloc == With("HEAP", <<>>)
Pixels == With("FRAMEBUFFER", <<I("pixels", "")>>)

\* Memory of the user program is read or written through its pointer.
UserBytes == <<I("user", "")>>

\* The call of Sleep::ms, see SleepMs.
Sleep == <<I("sleep", "")>>

\* kernel_main up to the choice between the shell and the init program.
BootProgram ==
    <<I("without_interrupts", "log"), I("expect", "")>>
    \o Pixels                                  \* FRAMEBUFFER and TTY::new
    \o With("TTY", <<I("ready", "tty")>>) \o Console   \* TTY, clear_tty
    \o LogPrint("log") \o <<I("expect", "")>>     \* physical memory offset
    \o <<I("ready", "heap"), I("expect", "")>> \* init_heap
    \o Pixels                                  \* resolution, logo
    \o <<I("expect", "")>> \o Alloc            \* ACPI tables, PCI scan
    \o LogPrint("log") \o <<I("ready", "idt")>>   \* init_idt, gdt::init
    \o <<I("expect", ""), I("ready", "lapic")>>    \* platform info, APICs
    \o LogPrint("log") \o <<I("enable", "")>>     \* interrupts::enable
    \o LogPrint("log")                            \* "Initializing scancode queue"
    \o Alloc \o <<I("ready", "queue")>>        \* ScancodeStream::new
    \o Alloc \o <<I("expect", "")>>            \* network, ramdisk
    \o LogPrint("log") \o <<I("init", "")>>       \* "Getting init program..."

\* What the shell does with a line, and the prompt.
ShellPrograms == {Console, LogPrint("log"), Pixels, Alloc}

\* Mutant: a call prints with the framebuffer locked.
SyscallPrograms_HoldsFramebuffer(rax) == {With("FRAMEBUFFER", Console)}

\* syscall_handler, by the number in rax; 9 stands for every number beyond 8.
SyscallPrograms(rax) ==
    CASE rax = 0 -> {<<>>}                              \* read
      [] rax = 1 -> {LogPrint("log")} \cup {UserBytes \o code :       \* write
                        code \in {LogPrint("log"), Console, <<>>}}
      [] rax = 2 -> {PanicProgram("user")}              \* panic
      [] rax = 3 -> {Sleep}                             \* wait
      [] rax = 4 -> {<<>>}                              \* randu64
      [] rax = 5 -> {Alloc \o Alloc, Alloc \o UserBytes \o Alloc}
                                                        \* inttostr: format!, drop
      [] rax = 6 -> {Console, <<>>}                     \* emoticon
      [] rax \in {7, 8, 9} -> {LogPrint("log")}            \* stubs, invalid

\* The interrupt handlers of the IDT.
IrqPrograms ==
    [keyboard |-> <<I("add_scancode", "")>>,
     timer    |-> <<I("tick", "")>>,
     network  |-> With("RTL8139", <<>>),      \* RTL8139 is never Some
     other    |-> <<>>]

-----------------------------------------------------------------------------

Init ==
    /\ stack = <<[kind |-> "main", todo |-> BootProgram, message |-> "none"]>>
    /\ IF_ = FALSE
    /\ owner = [l \in Locks |-> 0]
    /\ ready = {}
    /\ mode = "boot"
    /\ ticks_left = 0

\* The top context goes on with `code'.
Becomes(code, message) ==
    stack' = [stack EXCEPT ![Depth] = [kind |-> Top.kind, todo |-> code, message |-> message]]
Continue(code) == Becomes(code, Top.message)

At(op) == todo # <<>> /\ Instr.op = op

\* Spinlock::lock, spin::Mutex::lock: without the lock the context spins.
Acquire ==
    /\ At("lock")
    /\ owner[Instr.arg] = 0
    /\ owner' = [owner EXCEPT ![Instr.arg] = Depth]
    /\ Continue(Tail(todo))
    /\ UNCHANGED <<IF_, ready, mode, ticks_left>>

Release ==
    /\ At("unlock")
    /\ owner' = [owner EXCEPT ![Instr.arg] = 0]
    /\ Continue(Tail(todo))
    /\ UNCHANGED <<IF_, ready, mode, ticks_left>>

SerialBody(kind, end) == With("SERIAL1", <<I("write", kind)>>) \o end

\* Mutant: the serial line is written with interrupts as they are.
WithoutInterrupts_Missing ==
    /\ At("without_interrupts")
    /\ Continue(SerialBody(Instr.arg, <<>>) \o Tail(todo))
    /\ UNCHANGED <<IF_, owner, ready, mode, ticks_left>>

\* Mutant: interrupts are enabled afterwards whatever they were.
WithoutInterrupts_Enables ==
    /\ At("without_interrupts")
    /\ IF_' = FALSE
    /\ Continue(SerialBody(Instr.arg, <<I("enable", "")>>) \o Tail(todo))
    /\ UNCHANGED <<owner, ready, mode, ticks_left>>

\* interrupts::without_interrupts around SERIAL1.lock().write_fmt(..): the
\* flag is set again only if it was set.
WithoutInterrupts ==
    /\ At("without_interrupts")
    /\ IF_' = FALSE
    /\ Continue(SerialBody(Instr.arg, IF IF_ THEN <<I("enable", "")>> ELSE <<>>)
                    \o Tail(todo))
    /\ UNCHANGED <<owner, ready, mode, ticks_left>>

WriteSerial ==
    /\ At("write")
    /\ Becomes(Tail(todo), IF Instr.arg = "log" THEN Top.message ELSE "out")
    /\ UNCHANGED <<IF_, owner, ready, mode, ticks_left>>

Enable ==
    /\ At("enable")
    /\ IF_' = TRUE
    /\ Continue(Tail(todo))
    /\ UNCHANGED <<owner, ready, mode, ticks_left>>

\* The body of `if let Some(tty) = TTY.lock().as_mut()'.
Draw ==
    /\ At("draw")
    /\ Continue((IF "tty" \in ready THEN Pixels ELSE <<>>) \o Tail(todo))
    /\ UNCHANGED <<IF_, owner, ready, mode, ticks_left>>

\* A step of kernel_main that sets something up.
SetUp ==
    /\ At("ready")
    /\ ready' = ready \cup {Instr.arg}
    /\ Continue(Tail(todo))
    /\ UNCHANGED <<IF_, owner, mode, ticks_left>>

\* An expect that succeeds, pixels that are drawn, a pointer that is good.
Plain ==
    /\ At("expect") \/ At("pixels") \/ At("user")
    /\ Continue(Tail(todo))
    /\ UNCHANGED <<IF_, owner, ready, mode, ticks_left>>

\* A panic replaces the code of its context; its locks stay locked.
Panic ==
    /\ Becomes(PanicProgram("report"), "owed")
    /\ UNCHANGED <<IF_, owner, ready, mode, ticks_left>>

\* An expect that fails, an index out of range in the drawing code.
PanicHere == (At("expect") \/ At("pixels")) /\ Panic

\* The user program runs.
InUserMode == mode = "user" /\ Depth = 1 /\ todo = <<>>

\* Text behind a user's pointer is formatted while it is written.
ReadsUserMessage(code) == code # <<>> /\ Head(code) = I("write", "user")

\* An interrupt gate of the IDT: the flag is cleared.
Enter(kind, code, message) ==
    /\ Depth < MaxDepth
    /\ stack' = Append(stack, [kind |-> kind, todo |-> code, message |-> message])
    /\ IF_' = FALSE

\* A bad access, once the IDT is loaded (before that the machine resets).
Fault ==
    /\ \/ At("expect") \/ At("pixels") \/ At("user")
       \/ ReadsUserMessage(todo)
       \/ InUserMode
    /\ "idt" \in ready
    /\ Enter("fault", FaultProgram, "owed")
    /\ UNCHANGED <<owner, ready, mode, ticks_left>>

\* The match on `init' at the end of kernel_main: run_command_line, or
\* Process::new, switch and jump_to_usermode, which sets the flag.
StartInit ==
    /\ At("init")
    /\ \/ /\ mode' = "shell"
          /\ Continue(<<>>)
       \/ /\ mode' = "user"
          /\ Continue(LogPrint("log") \o <<I("without_interrupts", "log")>>
                        \o Alloc \o <<I("expect", ""), I("enable", "")>>)
    /\ UNCHANGED <<IF_, owner, ready, ticks_left>>

\* The shell handles a line, for ever.
ShellCommand ==
    /\ mode = "shell"
    /\ Depth = 1
    /\ todo = <<>>
    /\ \E code \in ShellPrograms : Continue(code)
    /\ UNCHANGED <<IF_, owner, ready, mode, ticks_left>>

-----------------------------------------------------------------------------
(* Interrupts and system calls.                                            *)

Irq(kind) ==
    /\ IF_
    /\ Enter(kind, IrqPrograms[kind] \o <<I("eoi", ""), I("iret", "")>>, "none")
    /\ UNCHANGED <<owner, ready, mode, ticks_left>>

\* add_scancode: panics without a queue, else Keyboard.tla.
AddScancode ==
    /\ At("add_scancode")
    /\ \/ /\ "queue" \in ready
          /\ Continue(Tail(todo))
          /\ UNCHANGED <<IF_, owner, ready, mode, ticks_left>>
       \/ "queue" \notin ready /\ Panic

\* timer_interrupt_handler: TICK_COUNT + 1.
Tick ==
    /\ At("tick")
    /\ ticks_left' = IF ticks_left > 0 THEN ticks_left - 1 ELSE 0
    /\ Continue(Tail(todo))
    /\ UNCHANGED <<IF_, owner, ready, mode>>

\* LAPIC.get().expect(..).eoi().
Eoi ==
    /\ At("eoi")
    /\ \/ /\ "lapic" \in ready
          /\ Continue(Tail(todo))
          /\ UNCHANGED <<IF_, owner, ready, mode, ticks_left>>
       \/ "lapic" \notin ready /\ Panic

\* iretq: interrupts and system calls are only entered with the flag set.
Iret ==
    /\ At("iret")
    /\ stack' = SubSeq(stack, 1, Depth - 1)
    /\ IF_' = TRUE
    /\ UNCHANGED <<owner, ready, mode, ticks_left>>

\* int 0x80 from the user program, which runs with interrupts on.
Syscall ==
    /\ InUserMode
    /\ \E rax \in 0 .. 9 : \E code \in SyscallPrograms(rax) :
          Enter("syscall", code \o <<I("iret", "")>>, IF rax = 2 THEN "owed" ELSE "none")
    /\ UNCHANGED <<owner, ready, mode, ticks_left>>

\* Sleep::ms: goal = TICK_COUNT + ms.
SleepMs ==
    /\ At("sleep")
    /\ ticks_left' \in 0 .. MaxWait
    /\ Continue(<<I("wait", "")>> \o Tail(todo))
    /\ UNCHANGED <<IF_, owner, ready, mode>>

\* ... and it returns when TICK_COUNT has reached the goal.
SleepReturns ==
    /\ At("wait")
    /\ ticks_left = 0
    /\ Continue(Tail(todo))
    /\ UNCHANGED <<IF_, owner, ready, mode, ticks_left>>

\* The top context runs and gets nowhere: loop {}, hlt_loop, a lock that is
\* taken, a goal that is not reached.
Spinning ==
    \/ At("loop")
    \/ At("lock") /\ owner[Instr.arg] # 0
    \/ At("wait") /\ ticks_left > 0

Spin == Spinning /\ UNCHANGED vars

-----------------------------------------------------------------------------

Step ==
    \/ Acquire \/ Release \/ WithoutInterrupts \/ WriteSerial \/ Enable
    \/ Draw \/ SetUp \/ Plain \/ StartInit \/ ShellCommand
    \/ AddScancode \/ Tick \/ Eoi \/ Iret \/ SleepMs \/ SleepReturns

Trouble == PanicHere \/ Fault

Next == Step \/ Trouble \/ Syscall \/ Spin \/ \E k \in DOMAIN IrqPrograms : Irq(k)

\* The CPU executes the context on top; interrupts are not so frequent that
\* an interrupted context never advances.
Fairness == \A d \in 1 .. MaxDepth : SF_vars(Depth = d /\ Step)

Spec == Init /\ [][Next]_vars /\ Fairness

-----------------------------------------------------------------------------

Blocked == At("lock") /\ owner[Instr.arg] # 0

\* The program has called panic with a pointer that cannot be read: the fault
\* struck inside the section of SERIAL1 (syscall.rs:65).
BadPanicPointer == \E d \in 1 .. (Depth - 1) : ReadsUserMessage(stack[d].todo)

\* _print disables interrupts around SERIAL1, and no handler allocates while
\* kernel_main might: nobody ever waits for the heap, and nobody for the serial
\* line but the fault that a bad pointer of the panic system call raises.
SerialAndHeapUncontended ==
    Blocked /\ Instr.arg \in {"SERIAL1", "HEAP"} => Instr.arg = "SERIAL1" /\ BadPanicPointer

\* A context that finds a lock taken is itself a panic or a fault, and its own
\* message is on the serial line by then: the screen is all it loses.  (But
\* for the same bad pointer.)
BlockedOnlyAfterReport == Blocked => Top.message = "out" \/ BadPanicPointer

\* without_interrupts restores the flag it found: no interrupt arrives before
\* the IDT is loaded and LAPIC, which every handler unwraps, is set.
InterruptsOnlyWhenReady == IF_ => {"idt", "lapic"} \subseteq ready

Owes(d) == d <= Depth /\ stack[d].message = "owed"

\* A key that arrives before the scancode queue is there makes its handler
\* panic (main.rs:197 to 201); it never returns to what it interrupted.
LostToKeyboard(d) ==
    "queue" \notin ready /\ \E e \in (d + 1) .. Depth :
        stack[e].kind = "keyboard" /\ stack[e].message # "none"

\* Each panic and each fault, whatever locks are held, gets its own message out
\* on the serial line.  Two things can keep it from that: such a key between
\* the panic and its without_interrupts, and a bad pointer of the panic system
\* call.
FailureReachesSerial ==
    \A d \in 1 .. MaxDepth : Owes(d) ~> (~Owes(d) \/ LostToKeyboard(d) \/ BadPanicPointer)

Sleeping == At("wait") /\ ticks_left > 0

Failed == \E d \in 1 .. Depth : stack[d].message # "none"

\* A system call returns, unless something failed or it sleeps: the gate of
\* int 0x80 has cleared the flag, no tick arrives, and it sleeps for ever
\* (SYSCALLS.md:2 records that wait is broken).
SyscallReturns == (Top.kind = "syscall") ~> (Depth = 1 \/ Failed \/ []Sleeping)

\* keyboard.rs:19, on what the keyboard interrupt calls: "Must not block or
\* allocate".
KeyboardIrqNeverBlocks == Top.kind = "keyboard" => ~Blocked

=============================================================================
