------------------------------ MODULE Rtl8139 ------------------------------
(***************************************************************************)
(* The RTL8139 driver (kernel/src/drivers/rtl8139.rs) and the device.      *)
(* kernel_main initialises the devices the scan has found.  Nothing in the *)
(* kernel calls transmit_packet, and the RTL8139 that interrupt 10 looks   *)
(* at is never set: both are called by a client here, any number of times, *)
(* for a device that init has returned.                                    *)
(*                                                                         *)
(* Device: four transmit descriptors served in turn, and a receive ring of *)
(* RxRing bytes.  It writes a packet as a header of four bytes and the     *)
(* data, past the end of the ring if need be (RCR.WRAP, which init sets),  *)
(* and goes on at the next multiple of four, modulo the ring.  Packets are *)
(* numbered in the order they were accepted.                               *)
(*                                                                         *)
(* The driver gives the device addresses that are virtual ones plus PMO,   *)
(* cut to 32 bits.  Whether the device finds RX_BUF or a packet there is   *)
(* the choice of the memory map: it is left open, for both.                *)
(***************************************************************************)
EXTENDS Apic

CONSTANTS
    NicId,         \* the id of the device: 10EC:8139
    RxRing,        \* 8192
    Lengths,       \* the length field of the packets that arrive
    MaxRx, MaxTx   \* bound: packets received (and returned), and transmitted

\* With the device's CAPR register 16 bytes behind the read offset, a packet
\* takes at least 16 bytes of the ring (Ethernet: 68).
ASSUME RtlAssumption ==
    /\ RxRing \in Nat \ {0} /\ RxRing % 4 = 0 /\ 65536 % RxRing = 0
    /\ Lengths \subseteq Nat /\ \A l \in Lengths : l >= 12
    /\ MaxRx \in Nat /\ MaxTx \in Nat

VARIABLES
    nic,           \* the function init was called for, 0 for none
    ring,          \* RX_BUF: offset -> number of the packet whose header is there
    dma,           \* RBSTART points at RX_BUF
    cbr, capr,     \* device: where it writes; where the driver has read up to
    isr,           \* device: the interrupt status
    rx_offset,     \* driver
    tx_current,    \* driver
    tsd,           \* device: per descriptor [own, packet]
    tx_device,     \* device: the descriptor it serves next
    hpc, seen,     \* handle_interrupt: where it is; the isr it has read
    lengths,       \* history: of the packets received
    delivered,     \* history: what receive_packet has returned
    accepted,      \* history: packets transmit_packet took
    sent,          \* history: how many descriptors the device has served
    wire,          \* history: what it sent last, a packet's number or Other
    crossed,       \* history: a packet ran past the end of the ring
    raced          \* history: the last packets, if they came between the
                   \* driver's last look at the ring and the acknowledgement

rx_vars == <<ring, dma, cbr, capr, rx_offset, lengths, delivered, crossed, raced>>
tx_vars == <<tx_current, tsd, tx_device, accepted, sent, wire>>
irq_vars == <<isr, hpc, seen>>
boot_vars == <<machine, hw, acpi_vars, pci_vars, apic_vars, nic>>
vars == <<boot_vars, rx_vars, tx_vars, irq_vars>>

Descriptors == 0 .. 3

\* Bytes on the wire that are not those of the packet.
Other == 0

RtlInit ==
    /\ nic = 0
    /\ ring = <<>> /\ dma = FALSE
    /\ cbr = 0 /\ capr = 65536 - 16
    /\ isr = {} /\ hpc = "idle" /\ seen = {}
    /\ rx_offset = 0 /\ tx_current = 0
    /\ tsd = [d \in Descriptors |-> [own |-> TRUE, packet |-> 0]]
    /\ tx_device = 0
    /\ lengths = <<>> /\ delivered = <<>>
    /\ accepted = 0 /\ sent = 0 /\ wire = Other
    /\ crossed = FALSE /\ raced = {}

-----------------------------------------------------------------------------
(* init, for each such device in turn; one device here.                    *)

\* Where the device takes the driver to be, and whether it has caught up.
ReadPointer == (capr + 16) % RxRing
BufferEmpty == cbr = ReadPointer

Nics == SelectSeq(devs, LAMBDA d : d.id = NicId)

NoNic ==
    /\ hw = "net"
    /\ Nics = <<>>
    /\ hw' = "none"
    /\ UNCHANGED <<machine, acpi_vars, pci_vars, apic_vars, nic, rx_vars, tx_vars, irq_vars>>

EnableNic ==
    /\ hw = "net"
    /\ Nics # <<>>
    /\ LET n == Head(Nics).fn IN
          /\ n \in DOMAIN M.functions
          /\ enable_bus_master(n)
          /\ nic' = n
          /\ hw' = IF master' = "ok" THEN "init" ELSE "none"
    /\ UNCHANGED <<machine, acpi_vars, at, devs, apic_vars, rx_vars, tx_vars, irq_vars>>

\* map_to fails: the page of BAR 0 is mapped already, as all physical memory
\* is, or needs a table and EmptyFrameAllocator has no frame for one.
MapBarFails ==
    /\ hw = "init"
    /\ \/ M.functions[nic].bar \in DOMAIN pages
       \/ ~M.tables
    /\ hw' = "none"
    /\ UNCHANGED <<machine, acpi_vars, pci_vars, apic_vars, nic, rx_vars, tx_vars, irq_vars>>

\* The page is mapped, and the command register written to reset the device.
MapBar ==
    /\ hw = "init"
    /\ M.functions[nic].bar \notin DOMAIN pages
    /\ M.tables
    /\ pages' = WithPage(M.functions[nic].bar)
    /\ hw' = "wait"
    /\ UNCHANGED <<machine, ECAM_BASE, ecam, pcie, pci_vars, apic_vars, nic>>
    /\ UNCHANGED <<rx_vars, tx_vars, irq_vars>>

\* The command register after the reset: BUFE, unless the device shows that
\* bit only while its receiver is on.
CommandAfterReset == IF M.bufe /\ BufferEmpty THEN {"BUFE"} ELSE {}

\* `while rst_port.read() != 0': the loop waits for the whole register.  Then
\* the device is given RX_BUF and switched on.
InitDone ==
    /\ hw = "wait"
    /\ CommandAfterReset = {}
    /\ dma' \in BOOLEAN
    /\ hw' = "up"
    /\ UNCHANGED <<machine, acpi_vars, pci_vars, apic_vars, nic>>
    /\ UNCHANGED <<ring, cbr, capr, rx_offset, lengths, delivered, crossed, raced>>
    /\ UNCHANGED <<tx_vars, irq_vars>>

-----------------------------------------------------------------------------
(* Transmission.                                                           *)

\* Mutant: the descriptor is taken without a look at its owner.
transmit_packet_NotChecked ==
    /\ hw = "up"
    /\ accepted < MaxTx
    /\ tsd' = [tsd EXCEPT ![tx_current] = [own |-> FALSE, packet |-> accepted + 1]]
    /\ accepted' = accepted + 1
    /\ tx_current' = (tx_current + 1) % 4
    /\ UNCHANGED <<boot_vars, rx_vars, irq_vars, tx_device, sent, wire>>

\* transmit_packet: TooLong and TXDescBusy change nothing.  TSAD gets the
\* address of a slice that is borrowed for the call only.
transmit_packet ==
    /\ hw = "up"
    /\ accepted < MaxTx
    /\ tsd[tx_current].own
    /\ tsd' = [tsd EXCEPT ![tx_current] = [own |-> FALSE, packet |-> accepted + 1]]
    /\ accepted' = accepted + 1
    /\ tx_current' = (tx_current + 1) % 4
    /\ UNCHANGED <<boot_vars, rx_vars, irq_vars, tx_device, sent, wire>>

\* The device sends what it finds at the address in TSAD: the packet, if the
\* address leads to it and its memory is still the packet's, or other bytes.
DeviceSends ==
    /\ ~tsd[tx_device].own
    /\ tsd' = [tsd EXCEPT ![tx_device].own = TRUE]
    /\ sent' = sent + 1
    /\ wire' \in {tsd[tx_device].packet, Other}
    /\ tx_device' = (tx_device + 1) % 4
    /\ isr' = isr \cup {"TOK"}
    /\ UNCHANGED <<boot_vars, rx_vars, tx_current, accepted, hpc, seen>>

-----------------------------------------------------------------------------
(* Reception.                                                              *)

Footprint(length) == ((length + 4 + 3) \div 4) * 4

Free == IF BufferEmpty THEN RxRing ELSE (RxRing + ReadPointer - cbr) % RxRing

\* A packet arrives and there is room; else the device drops it.
DeviceReceives ==
    /\ hw = "up"
    /\ Len(lengths) < MaxRx
    /\ \E l \in Lengths :
          LET end == cbr + Footprint(l)
              id == Len(lengths) + 1
          IN  /\ Footprint(l) + 4 < Free
              /\ lengths' = Append(lengths, l)
              /\ ring' = IF ~dma THEN ring
                         ELSE [o \in {o \in DOMAIN ring : o < cbr \/ o >= end} \cup {cbr} |->
                                 IF o = cbr THEN id ELSE ring[o]]
              /\ cbr' = end % RxRing
              /\ crossed' = (crossed \/ end > RxRing)
    /\ isr' = isr \cup {"ROK"}
    /\ raced' = IF hpc = "ack" /\ "ROK" \in seen THEN raced \cup {Len(lengths')} ELSE {}
    /\ UNCHANGED <<boot_vars, dma, capr, rx_offset, delivered, tx_vars, hpc, seen>>

\* receive_packet after a good packet.
Wrapped(o) == IF o >= RxRing THEN 0 ELSE o

\* Mutant: the padding is forgotten.
Advanced_NoPadding(length) == rx_offset + length + 4

\* (rx_offset + length + 4 + 3) & !3.
Advanced(length) == ((rx_offset + length + 4 + 3) \div 4) * 4

\* update_read_pointer; the build with overflow checks panics below 16.
update_read_pointer(o) ==
    IF o = 0 THEN capr' = RxRing - 16 ELSE capr' = (o - 16) % 65536

Underflows(o) == o > 0 /\ o < 16

\* handle_interrupt reads the status register ...
HandleInterrupt ==
    /\ hw = "up"
    /\ hpc = "idle"
    /\ isr # {}
    /\ seen' = isr
    /\ hpc' = IF "ROK" \in isr THEN "receive" ELSE "ack"
    /\ UNCHANGED <<boot_vars, rx_vars, tx_vars, isr>>

Receiving == hw = "up" /\ hpc = "receive"

\* Mutant: only one packet is taken for an interrupt.
NextPacket_One == "ack"

\* handle_receive: while let Ok(packet) = receive_packet().
NextPacket == "receive"

\* ... receive_packet: a good packet,
ReceiveGood ==
    /\ Receiving
    /\ ~BufferEmpty
    /\ rx_offset \in DOMAIN ring
    /\ Len(delivered) < MaxRx
    /\ LET id == ring[rx_offset] IN
          /\ delivered' = Append(delivered, id)
          /\ rx_offset' = Wrapped(Advanced(lengths[id]))
    /\ update_read_pointer(rx_offset')
    /\ hpc' = NextPacket
    /\ UNCHANGED <<boot_vars, ring, dma, cbr, lengths, crossed, raced, tx_vars, isr, seen>>

\* a header of a buffer the device has never written: not good, length 0,
ReceiveBad ==
    /\ Receiving
    /\ ~BufferEmpty
    /\ ~dma
    /\ rx_offset' = Advanced(0)
    /\ update_read_pointer(rx_offset')
    /\ \/ hpc' = "ack"
       \/ Underflows(rx_offset') /\ hpc' = "panicked"
    /\ UNCHANGED <<boot_vars, ring, dma, cbr, lengths, delivered, crossed, raced, tx_vars, isr, seen>>

\* bytes that are no header: from here on the driver is lost,
ReceiveJunk ==
    /\ Receiving
    /\ ~BufferEmpty
    /\ dma
    /\ rx_offset \notin DOMAIN ring
    /\ hpc' = "lost"
    /\ UNCHANGED <<boot_vars, rx_vars, tx_vars, isr, seen>>

\* or nothing.
ReceiveNone ==
    /\ Receiving
    /\ BufferEmpty
    /\ hpc' = "ack"
    /\ UNCHANGED <<boot_vars, rx_vars, tx_vars, isr, seen>>


\* ... and writes the status it has read back, which clears those bits.
AckInterrupt ==
    /\ hpc = "ack"
    /\ isr' = isr \ seen
    /\ hpc' = "idle"
    /\ seen' = {}
    /\ UNCHANGED <<boot_vars, rx_vars, tx_vars>>

-----------------------------------------------------------------------------

RtlBoot == NoNic \/ EnableNic \/ MapBarFails \/ MapBar \/ InitDone

Handler ==
    \/ HandleInterrupt \/ ReceiveGood \/ ReceiveBad \/ ReceiveJunk \/ ReceiveNone
    \/ AckInterrupt

Device == DeviceSends \/ DeviceReceives

\* What the device sends k-th is the k-th packet that transmit_packet took or,
\* where TSAD does not lead to it, other bytes: never another packet, and none
\* twice.  The descriptors from the one the device serves next hold the
\* packets that wait, in order; the others are free.  transmit_packet never
\* takes one the device still owns, and the two walk around the four in step.
TransmittedInOrder ==
    /\ wire \in {sent, Other}
    /\ accepted \in sent .. (sent + 4)
    /\ \A k \in 0 .. 3 :
          LET d == tsd[(tx_device + k) % 4] IN
          IF sent + k + 1 <= accepted
          THEN ~d.own /\ d.packet = sent + k + 1
          ELSE d.own

\* Until a packet runs past the end of the ring, the driver reads headers only
\* where the device has put them, and returns the packets in order and once.
\* (After that it restarts at 0 and the device does not.)
ReceivedInOrder ==
    dma /\ ~crossed =>
        /\ hpc # "lost"
        /\ delivered = [k \in 1 .. Len(delivered) |-> k]
        /\ Len(delivered) <= Len(lengths)

\* No packet waits in the ring without an interrupt to fetch it, but for the
\* last ones, if they came between the driver's last look at the ring and its
\* acknowledgement, which clears their bit with the others.  The next packet
\* brings an interrupt for them too.
NoPacketLeftBehind ==
    dma /\ ~crossed /\ hpc = "idle" /\ "ROK" \notin isr =>
        (Len(delivered) + 1) .. Len(lengths) \subseteq raced


=============================================================================
