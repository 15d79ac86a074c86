-------------------------------- MODULE Apic --------------------------------
(***************************************************************************)
(* The interrupt controllers (kernel/src/apic.rs), the IDT they feed       *)
(* (kernel/src/interrupts.rs) and the loop of kernel_main that programs    *)
(* them.  A redirection entry is its low word and its destination; the     *)
(* reserved bits are left out.                                             *)
(***************************************************************************)
EXTENDS Pci

VARIABLES
    pics,        \* hardware: the two 8259s, [expects, offset, mask]
    lapic,       \* hardware: [on, lvt, count] of the local APIC
    redir,       \* hardware: per I/O APIC, per pin, the redirection entry
    IO_APIC_0,   \* the OnceCell: an index into M.ioapics, or 0
    prog         \* the loops of kernel_main: [a, i], I/O APIC and pin

apic_vars == <<pics, lapic, redir, IO_APIC_0, prog>>

Pins == 0 .. 23

\* The firmware leaves every pin of every I/O APIC masked, and the 8259s in
\* any state.
ASSUME FirmwareAssumption ==
    \A m \in DOMAIN Machines :
        LET chips == Machines[m].ioapics IN
        /\ Machines[m].pic \in [expects : 0 .. 3, offset : 0 .. 255, mask : 0 .. 255]
        /\ chips \in Seq([entries : [Pins -> [low : Nat, destination : 0 .. 255]]])
        /\ \A a \in DOMAIN chips : \A i \in Pins :
              (chips[a].entries[i].low \div 2^16) % 2 = 1

-----------------------------------------------------------------------------
(* The 8259: after the command 0x11 it takes three initialisation words    *)
(* from its data port, any further byte there is its mask.                 *)

AfterWrite(pic, w) ==
    CASE w.port = "command" -> [pic EXCEPT !.expects = 3]
      [] w.port = "data" /\ pic.expects = 3 -> [expects |-> 2, offset |-> w.byte, mask |-> pic.mask]
      [] w.port = "data" /\ pic.expects \in {1, 2} -> [pic EXCEPT !.expects = @ - 1]
      [] w.port = "data" /\ pic.expects = 0 -> [pic EXCEPT !.mask = w.byte]

W(port, byte) == [port |-> port, byte |-> byte]

AfterFive(pic, w) ==
    AfterWrite(AfterWrite(AfterWrite(AfterWrite(AfterWrite(pic, w[1]), w[2]), w[3]), w[4]), w[5])

\* disable_pic: the bytes for one of the two.
disable_pic(offset, cascade) ==
    <<W("command", 17), W("data", offset), W("data", cascade), W("data", 1), W("data", 255)>>

-----------------------------------------------------------------------------
(* RedTbl: the fields as the code has them, with two bits of delivery mode *)
(* where the hardware has three, and each later field one bit too low.     *)

Bit(n, k) == (n \div 2^k) % 2

RedTbl(n) ==
    [vector |-> n.low % 256,
     delivery_mode |-> (n.low \div 256) % 4,
     destination_mode |-> Bit(n.low, 10),
     delivery_status |-> Bit(n.low, 11),
     pin_polarity |-> Bit(n.low, 12),
     remote_irr |-> Bit(n.low, 13),
     trigger_mode |-> Bit(n.low, 14),
     mask |-> Bit(n.low, 15),
     destination |-> n.destination]

\* Mutant: the fields after the delivery mode go where the hardware has them.
store_OneBitUp(r) ==
    [low |-> r.vector + r.delivery_mode * 2^8 + r.destination_mode * 2^11
             + r.delivery_status * 2^12 + r.pin_polarity * 2^13
             + r.remote_irr * 2^14 + r.trigger_mode * 2^15 + r.mask * 2^16,
     destination |-> r.destination]

store(r) ==
    [low |-> r.vector + r.delivery_mode * 2^8 + r.destination_mode * 2^10
             + r.delivery_status * 2^11 + r.pin_polarity * 2^12
             + r.remote_irr * 2^13 + r.trigger_mode * 2^14 + r.mask * 2^15,
     destination |-> r.destination]

\* write_redtlb: 16 bits of the low word, so the hardware's mask bit is 0.
write_redtlb(n) == [n EXCEPT !.low = @ % 2^16]

\* IDT: the handler of a vector from 32 on.
idt(vector) ==
    CASE vector = 48 -> <<"timer">>
      [] vector = 49 -> <<"timer2">>
      [] vector \in 50 .. 73 -> <<"ioapic", vector - 50>>
      [] vector = 128 -> <<"int80">>
      [] OTHER -> <<"generic">>

-----------------------------------------------------------------------------

ApicInit ==
    /\ pics = <<M.pic, M.pic>>
    /\ lapic = [on |-> FALSE, lvt |-> 0, count |-> 0]
    /\ redir = [a \in DOMAIN M.ioapics |-> M.ioapics[a].entries]
    /\ IO_APIC_0 = 0
    /\ prog = [a |-> 1, i |-> 0]

\* init_idt, gdt::init.
LoadIdt ==
    /\ hw = "idt"
    /\ hw' = "lapic"
    /\ UNCHANGED <<machine, acpi_vars, pci_vars, apic_vars>>

\* LocalApic::init, then the timer: periodic, vector 48.
InitLocalApic ==
    /\ hw = "lapic"
    /\ pics' = <<AfterFive(pics[1], disable_pic(240, 4)), AfterFive(pics[2], disable_pic(248, 2))>>
    /\ lapic' = [on |-> TRUE, lvt |-> 2^17 + 48, count |-> M.freq]
    /\ hw' = "ioapic"
    /\ UNCHANGED <<machine, acpi_vars, pci_vars, redir, IO_APIC_0, prog>>

\* IoApic::init: get_or_init returns the first one for ever.
IoApicInit(a) == IF IO_APIC_0 = 0 THEN a ELSE IO_APIC_0

Programming == hw = "ioapic" /\ prog.a <= Len(M.ioapics)

\* Mutant: vectors are numbered from 49.
Vector_From49(i) == 49 + i

Vector(i) == 50 + i

\* One round of the inner loop: read, decode, set the vector, encode, write.
Programmed(n, vector) == write_redtlb(store([RedTbl(n) EXCEPT !.vector = vector]))

ProgramPin ==
    /\ Programming
    /\ LET ioa == IoApicInit(prog.a) IN
          /\ IO_APIC_0' = ioa
          /\ redir' = [redir EXCEPT ![ioa][prog.i] = Programmed(redir[ioa][prog.i], Vector(prog.i))]
    /\ prog' = IF prog.i + 1 \in Pins THEN [prog EXCEPT !.i = @ + 1]
               ELSE [a |-> prog.a + 1, i |-> 0]
    /\ UNCHANGED <<machine, hw, acpi_vars, pci_vars, pics, lapic>>

\* The loops are done: interrupts::enable.
EnableInterrupts ==
    /\ hw = "ioapic"
    /\ ~Programming
    /\ hw' = "net"
    /\ UNCHANGED <<machine, acpi_vars, pci_vars, apic_vars>>

ApicNext == LoadIdt \/ InitLocalApic \/ ProgramPin \/ EnableInterrupts

-----------------------------------------------------------------------------

InterruptsOn == hw \in {"net", "init", "wait", "up", "none"}

\* The fields of an entry where the hardware has them.
Masked(n) == Bit(n.low, 16) = 1
Wiring(n) == <<(n.low \div 2^8) % 8, Bit(n.low, 11), Bit(n.low, 13), Bit(n.low, 15),
               n.destination>>

\* The pins that are not masked, of all I/O APICs.
Delivering == {p \in (DOMAIN redir) \X Pins : ~Masked(redir[p[1]][p[2]])}

\* Once interrupts are on, the 8259s are silent, the timer runs its handler,
\* and each pin of the I/O APIC that the table lists first is unmasked and
\* runs the handler of that pin: pin 1 the keyboard's, pin 10 the network's.
\* The loop runs for every I/O APIC with the same 24 vectors, but reaches only
\* one of them: no two pins that deliver share a vector.
PinsReachTheirHandlers ==
    InterruptsOn =>
        /\ \A k \in 1 .. 2 : pics[k].mask = 255 /\ pics[k].offset >= 32
        /\ lapic.on /\ idt(lapic.lvt % 256) = <<"timer">>
        /\ M.ioapics # <<>> =>
              \A i \in Pins :
                  /\ ~Masked(redir[1][i])
                  /\ idt(redir[1][i].low % 256) = <<"ioapic", i>>
        /\ \A p, q \in Delivering :
              redir[p[1]][p[2]].low % 256 = redir[q[1]][q[2]].low % 256 => p = q

\* The decoder and the encoder of redirection entries disagree with the
\* hardware about where the fields are, and agree with each other: how the
\* firmware wired a pin (delivery and destination mode, polarity, trigger
\* mode, destination) survives, on every I/O APIC, also while programming.
WiringKept ==
    \A a \in DOMAIN redir : \A i \in Pins :
        Wiring(redir[a][i]) = Wiring(M.ioapics[a].entries[i])

=============================================================================
