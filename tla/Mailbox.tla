------------------------------- MODULE Mailbox -------------------------------
(***************************************************************************)
(* What the keyboard path promises its reader: a bounded first-in          *)
(* first-out mailbox.  A scancode is accepted while there is room and      *)
(* dropped otherwise; an accepted scancode is delivered once, in order,    *)
(* and is delivered eventually, unless the kernel panics.                  *)
(***************************************************************************)
EXTENDS Naturals, Sequences

CONSTANTS Scancode, Capacity, NoScancode

VARIABLES
    queue,  \* accepted, not yet delivered
    hand,   \* the scancode the reader is working on
    dead    \* the kernel panicked

vars == <<queue, hand, dead>>

Init ==
    /\ queue = <<>>
    /\ hand = NoScancode
    /\ dead = FALSE

Put ==
    /\ ~dead
    /\ Len(queue) < Capacity
    /\ \E s \in Scancode : queue' = Append(queue, s)
    /\ dead' \in BOOLEAN
    /\ UNCHANGED hand

Deliver ==
    /\ ~dead
    /\ hand = NoScancode
    /\ queue # <<>>
    /\ hand' = Head(queue)
    /\ queue' = Tail(queue)
    /\ UNCHANGED dead

Done ==
    /\ ~dead
    /\ hand # NoScancode
    /\ hand' = NoScancode
    /\ UNCHANGED <<queue, dead>>

Panic ==
    /\ ~dead
    /\ dead' = TRUE
    /\ UNCHANGED <<queue, hand>>

Next == Put \/ Deliver \/ Done \/ Panic

SafetySpec == Init /\ [][Next]_vars

Spec == SafetySpec /\ WF_vars(Deliver) /\ WF_vars(Done)

=============================================================================
