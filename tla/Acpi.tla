-------------------------------- MODULE Acpi --------------------------------
(***************************************************************************)
(* init_pcie_from_acpi and map_ecam_region (kernel/src/acpi.rs), the first *)
(* step of kernel_main that touches hardware: find the ECAM region of PCI  *)
(* segment 0 in the MCFG table and map it.                                 *)
(*                                                                         *)
(* The kernel reaches physical memory at a fixed offset (PMO), so a        *)
(* virtual page carries the number of the frame it is meant for; `pages'   *)
(* says which frame is behind it.  The configuration space of one PCI      *)
(* function is one page.  map_to may fail for want of frames for tables:   *)
(* the frame allocator is Paging's, here it fails at will.                 *)
(***************************************************************************)
EXTENDS Integers, Sequences

CONSTANTS
    Machines,   \* firmware and hardware the kernel may meet, by name
    BusPages,   \* functions of one bus: 32 slots of 8 functions
    LastBus     \* 255

ASSUME AcpiAssumption == BusPages \in Nat \ {0} /\ LastBus \in Nat

VARIABLES
    machine,    \* the name of one of them
    hw,         \* how far kernel_main is
    pages,      \* page -> frame
    ECAM_BASE,  \* the page of function 0, 0 for "no ECAM"
    ecam,       \* the region map_ecam_region is at: [base, n, i]
    pcie        \* what init_pcie_from_acpi returned: "", "ok", "err"

M == Machines[machine]

acpi_vars == <<pages, ECAM_BASE, ecam, pcie>>

NoRegion == [base |-> 0, n |-> 0, i |-> 0]

AcpiInit ==
    /\ machine \in DOMAIN Machines
    /\ hw = "acpi"
    /\ pages = [p \in M.physical |-> M.behind[p]]
    /\ ECAM_BASE = 0
    /\ ecam = NoRegion
    /\ pcie = ""

InSegment0(e) == e.segment = 0

\* The first entry of segment 0; none if the table is missing, has no entries
\* or its length is not that of a whole number of entries.
Candidates ==
    IF M.mcfg = "sound" THEN SelectSeq(M.entries, InSegment0) ELSE <<>>

\* end_bus.saturating_sub(start_bus) + 1.
bus_count(e) == (IF e.end > e.start THEN e.end - e.start ELSE 0) + 1

Returns(result, base) ==
    /\ pcie' = result
    /\ ECAM_BASE' = base
    /\ hw' = "scan"
    /\ UNCHANGED machine

\* The error returns before anything is mapped.
NoEcam ==
    /\ hw = "acpi"
    /\ Candidates = <<>>
    /\ Returns("err", 0)
    /\ UNCHANGED <<pages, ecam>>

\* map_ecam_region looks at its first page: mapped to its own frame, the
\* region is taken for mapped; mapped to another one, nothing is done.
FirstPageMapped ==
    /\ hw = "acpi"
    /\ Candidates # <<>>
    /\ LET base == Head(Candidates).base IN
          /\ base \in DOMAIN pages
          /\ IF pages[base] = base THEN Returns("ok", base) ELSE Returns("err", 0)
    /\ UNCHANGED <<pages, ecam>>

StartMapping ==
    /\ hw = "acpi"
    /\ Candidates # <<>>
    /\ LET e == Head(Candidates) IN
          /\ e.base \notin DOMAIN pages
          /\ ecam' = [base |-> e.base, n |-> bus_count(e) * BusPages, i |-> 0]
    /\ hw' = "map"
    /\ UNCHANGED <<machine, pages, ECAM_BASE, pcie>>

\* The page map with page p mapped to its own frame.
WithPage(p) == [q \in DOMAIN pages \cup {p} |-> IF q = p THEN p ELSE pages[q]]

MapFrame ==
    LET p == ecam.base + ecam.i IN
    /\ hw = "map"
    /\ ecam.i < ecam.n
    /\ p \notin DOMAIN pages
    /\ pages' = WithPage(p)
    /\ ecam' = [ecam EXCEPT !.i = @ + 1]
    /\ UNCHANGED <<machine, hw, ECAM_BASE, pcie>>

\* Mutant: the base is published although a page failed.
MapFrameFails_Ignored ==
    /\ hw = "map"
    /\ ecam.i < ecam.n
    /\ Returns("ok", ecam.base)
    /\ UNCHANGED <<pages, ecam>>

\* map_to returns an error: the page is mapped already, or there is no frame
\* for a table.  The pages mapped so far stay mapped.
MapFrameFails ==
    /\ hw = "map"
    /\ ecam.i < ecam.n
    /\ Returns("err", 0)
    /\ UNCHANGED <<pages, ecam>>

RegionMapped ==
    /\ hw = "map"
    /\ ecam.i = ecam.n
    /\ Returns("ok", ecam.base)
    /\ UNCHANGED <<pages, ecam>>

AcpiNext ==
    NoEcam \/ FirstPageMapped \/ StartMapping \/ MapFrame \/ MapFrameFails \/ RegionMapped

=============================================================================
