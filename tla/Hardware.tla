------------------------------ MODULE Hardware ------------------------------
(***************************************************************************)
(* What kernel_main (kernel/src/main.rs) does with hardware, in its order: *)
(* ACPI and the ECAM region, the PCI scan, the interrupt controllers, the  *)
(* network device; then the network device at work.                        *)
(***************************************************************************)
EXTENDS Rtl8139

Init == AcpiInit /\ PciInit /\ ApicInit /\ RtlInit

Boot ==
    \/ AcpiNext /\ UNCHANGED <<pci_vars, apic_vars, nic, rx_vars, tx_vars, irq_vars>>
    \/ PciNext /\ UNCHANGED <<apic_vars, nic, rx_vars, tx_vars, irq_vars>>
    \/ ApicNext /\ UNCHANGED <<nic, rx_vars, tx_vars, irq_vars>>
    \/ RtlBoot

\* The machine has reset, goes on without a network device, waits for the
\* reset of the device (for ever, if its command register never reads 0), or
\* for packets and calls.
Rest == hw \in {"reset", "none", "wait", "up"} /\ UNCHANGED vars

Next == Boot \/ transmit_packet \/ Handler \/ Device \/ Rest

\* handle_interrupt is called while the device has a status bit set, and runs
\* to its end.
Spec == Init /\ [][Next]_vars /\ WF_vars(Handler)

=============================================================================
