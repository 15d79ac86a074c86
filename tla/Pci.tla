-------------------------------- MODULE Pci --------------------------------
(***************************************************************************)
(* PCI configuration space and the bus scan (kernel/src/pci.rs).  A        *)
(* function is the number bus * 256 + slot * 8 + func, which is also the   *)
(* page of its configuration space in the ECAM region, and its address     *)
(* (without the register) behind ports CF8 and CFC.                        *)
(***************************************************************************)
EXTENDS Acpi

CONSTANTS
    Funcs       \* functions of one slot: 8

ASSUME PciAssumption == Funcs \in Nat \ {0} /\ BusPages % Funcs = 0

VARIABLES
    at,         \* scan_pci_bus: the function it is at
    devs,       \* ... and the PCIDevices it has found: [fn, id]
    command,    \* hardware: the command register of each function
    master      \* what enable_bus_master returned, "" before

pci_vars == <<at, devs, command, master>>

PciInit ==
    /\ at = 0
    /\ devs = <<>>
    /\ command = [n \in DOMAIN M.functions |-> M.functions[n].command]
    /\ master = ""

-----------------------------------------------------------------------------
(* Reads.  A vendor id is [id, bit7]; id "ffff" is what an absent function *)
(* reads as.                                                               *)

Absent == [id |-> "ffff", bit7 |-> TRUE]

\* The function that answers at number n, through either mechanism.
Answer(n) == IF n \in DOMAIN M.functions THEN M.functions[n].vendor ELSE Absent

\* The host bridge decodes frames only for the buses it has.
Decoded(frame) ==
    /\ frame >= M.window.base + M.window.start * BusPages
    /\ frame < M.window.base + (M.window.end + 1) * BusPages

\* read_config, read_config32: what register 0 of function n may read as.  A
\* page that is not mapped faults; a frame that is no configuration space
\* holds anything.
read_config(n) ==
    IF ECAM_BASE = 0 THEN {Answer(n)}
    ELSE IF ECAM_BASE + n \notin DOMAIN pages THEN {}
    ELSE LET frame == pages[ECAM_BASE + n] IN
         IF Decoded(frame) THEN {Answer(frame - M.window.base)}
         ELSE {Absent, [id |-> "junk", bit7 |-> TRUE], [id |-> "junk", bit7 |-> FALSE]}

-----------------------------------------------------------------------------
(* scan_pci_bus.                                                           *)

\* for bus in 0..=255, slot in 0..32, func in 0..8.
Total == (LastBus + 1) * BusPages

\* The functions of a machine are on its buses, none has the vendor id of an
\* absent one, and the region is not at address 0.
ASSUME FunctionsAssumption ==
    \A m \in DOMAIN Machines :
        /\ Machines[m].window.base \in Nat \ {0}
        /\ DOMAIN Machines[m].functions \subseteq 0 .. (Total - 1)
        /\ \A n \in DOMAIN Machines[m].functions : Machines[m].functions[n].vendor # Absent

NextSlot(n) == (n \div Funcs + 1) * Funcs

ScanAbsent ==
    /\ hw = "scan"
    /\ at < Total
    /\ Absent \in read_config(at)
    /\ at' = at + 1
    /\ UNCHANGED <<machine, hw, acpi_vars, devs, command, master>>

\* Behind function 0, bit 7 of register 0 (a bit of the vendor id) decides
\* whether the other functions are looked at.
ScanPresent ==
    /\ hw = "scan"
    /\ at < Total
    /\ \E v \in read_config(at) \ {Absent} :
          /\ devs' = Append(devs, [fn |-> at, id |-> v.id])
          /\ at' = IF at % Funcs = 0 /\ ~v.bit7 THEN NextSlot(at) ELSE at + 1
    /\ UNCHANGED <<machine, hw, acpi_vars, command, master>>

\* There is no IDT yet: a page fault resets the machine.
ScanFaults ==
    /\ hw = "scan"
    /\ at < Total
    /\ read_config(at) = {}
    /\ hw' = "reset"
    /\ UNCHANGED <<machine, acpi_vars, pci_vars>>

ScanDone ==
    /\ hw = "scan"
    /\ at = Total
    /\ hw' = "idt"
    /\ UNCHANGED <<machine, acpi_vars, pci_vars>>

PciNext == ScanAbsent \/ ScanPresent \/ ScanFaults \/ ScanDone

-----------------------------------------------------------------------------
(* Operations on a device that was found.  The functions are those of the  *)
(* window: see ScanSound.                                                  *)

\* enable_bus_master: read_config_u16, two bits added, write_config_u16.  The
\* bit called PCI_CMD_MEMORY_ENABLE is bit 0, I/O space.
enable_bus_master(n) ==
    /\ command' = [command EXCEPT ![n] =
                     (@ \cup {"io", "master"}) \cap M.functions[n].implements]
    /\ master' = IF "master" \in command'[n] THEN "ok" ELSE "failed"

-----------------------------------------------------------------------------

\* The firmware describes all buses, and either all of the region or nothing
\* of it is in the physical memory that the bootloader has mapped.
WholeRegion ==
    Candidates # <<>> =>
        LET e == Head(Candidates)
            region == e.base .. (e.base + Total - 1)
        IN  /\ e = M.window
            /\ e.start = 0 /\ e.end = LastBus
            /\ \/ region \cap M.physical = {}
               \/ region \subseteq M.physical /\ M.behind[e.base] # e.base
               \/ \A p \in region : p \in M.physical /\ M.behind[p] = p

\* Functions the scan skips: behind a function 0 whose vendor id has bit 7
\* clear.
Hidden(n) ==
    LET zero == (n \div Funcs) * Funcs IN
    n # zero /\ zero \in DOMAIN M.functions /\ ~Answer(zero).bit7

\* main.rs:149, "Falling back to legacy CF8/CFC", and the ECAM path: with
\* either, whatever failed half-way before, the scan does not fault and has
\* found the functions of the machine, each once and in order, and no others.
\* Two things are exempt: a region that is not described or mapped as a whole
\* (WholeRegion), and the functions that pci.rs:311 hides by testing bit 7 of
\* the vendor id where the header type belongs (Hidden).
ScanSound ==
    WholeRegion =>
        /\ hw # "reset"
        /\ hw \notin {"acpi", "map", "scan"} =>
              /\ \A i, j \in DOMAIN devs : i < j => devs[i].fn < devs[j].fn
              /\ {devs[i].fn : i \in DOMAIN devs} =
                    {n \in DOMAIN M.functions : ~Hidden(n)}
              /\ \A i \in DOMAIN devs : devs[i].id = Answer(devs[i].fn).id

============================================================================
