-------------------------- MODULE Hardware_proofs --------------------------
(***************************************************************************)
(* Proofs about kernel_main's use of hardware and the RTL8139 driver, for  *)
(* every set of machines, size of the ring, length of a packet and bound.  *)
(***************************************************************************)
EXTENDS Hardware, TLAPS, SequenceTheorems

-----------------------------------------------------------------------------
(* Transmission.                                                           *)

\* Arithmetic modulo the number of descriptors.
LEMMA Mod4 ==
    ASSUME NEW d \in 0 .. 3, NEW k \in 0 .. 4
    PROVE  (d + k) % 4 = IF d + k < 4 THEN d + k ELSE d + k - 4
  OBVIOUS

\* Only transmit_packet and the device touch the transmit side.
LEMMA TxFrame ==
    Next => transmit_packet \/ DeviceSends \/ UNCHANGED tx_vars
  <1> SUFFICES ASSUME Next PROVE transmit_packet \/ DeviceSends \/ UNCHANGED tx_vars
    OBVIOUS
  <1>1. CASE Boot
    BY <1>1 DEF Boot, RtlBoot, NoNic, EnableNic, MapBarFails, MapBar, InitDone
  <1>2. CASE Handler
    BY <1>2 DEF Handler, HandleInterrupt, ReceiveGood, ReceiveBad, ReceiveJunk, ReceiveNone,
                AckInterrupt
  <1>3. CASE Device
    BY <1>3 DEF Device, DeviceReceives
  <1>4. CASE Rest
    BY <1>4 DEF Rest, vars
  <1> QED BY <1>1, <1>2, <1>3, <1>4 DEF Next

\* The driver is as many descriptors ahead of the device as there are packets
\* waiting.
TxInv ==
    /\ accepted \in Nat
    /\ sent \in Nat
    /\ tx_device \in 0 .. 3
    /\ tx_current = (tx_device + (accepted - sent)) % 4
    /\ tsd \in [Descriptors -> [own : BOOLEAN, packet : Nat]]
    /\ TransmittedInOrder

LEMMA TxInit == Init => TxInv
  <1> SUFFICES ASSUME Init PROVE TxInv
    OBVIOUS
  <1>1. sent = 0 /\ wire = Other /\ accepted = 0 /\ tx_device = 0 /\ tx_current = 0
    BY DEF Init, RtlInit
  <1>2. tsd = [d \in Descriptors |-> [own |-> TRUE, packet |-> 0]]
    BY DEF Init, RtlInit
  <1>3. \A k \in 0 .. 3 : tsd[(tx_device + k) % 4].own
    BY <1>1, <1>2 DEF Descriptors
  <1> QED BY <1>1, <1>2, <1>3 DEF TxInv, TransmittedInOrder, Descriptors

LEMMA TxTransmit == TxInv /\ transmit_packet => TxInv'
  <1> SUFFICES ASSUME TxInv, transmit_packet PROVE TxInv'
    OBVIOUS
  <1> DEFINE n == sent  w == accepted - sent
  <1>1. n \in Nat /\ accepted \in Nat /\ w \in 0 .. 4 /\ accepted = n + w
    <2>1. sent \in Nat
      BY DEF TxInv
    <2>2. accepted \in Nat /\ accepted \in sent .. (sent + 4) /\ tx_device \in 0 .. 3
      BY DEF TxInv, TransmittedInOrder
    <2> QED BY <2>1, <2>2
  <1>2. /\ tsd' = [tsd EXCEPT ![tx_current] = [own |-> FALSE, packet |-> accepted + 1]]
        /\ accepted' = accepted + 1
        /\ tx_current' = (tx_current + 1) % 4
        /\ tx_device' = tx_device /\ sent' = sent /\ wire' = wire
        /\ tsd[tx_current].own
    BY DEF transmit_packet
  <1>3. tx_current \in 0 .. 3 /\ tx_device \in 0 .. 3
    BY <1>1 DEF TxInv
  <1>4. w # 4
    <2> SUFFICES ASSUME w = 4 PROVE FALSE
      OBVIOUS
    <2>1. tx_current = (tx_device + 0) % 4
      BY <1>1 DEF TxInv
    <2>2. n + 0 + 1 <= accepted
      BY <1>1
    <2>3. ~tsd[(tx_device + 0) % 4].own
      BY <2>2 DEF TxInv, TransmittedInOrder
    <2> QED BY <2>1, <2>3, <1>2
  <1>5. ASSUME NEW k \in 0 .. 3
        PROVE  (tx_device + k) % 4 = tx_current <=> k = w
    <2>1. k \in 0 .. 4 /\ tx_current = (tx_device + w) % 4
      BY <1>1, <1>3, <1>4 DEF TxInv
    <2>2. /\ (tx_device + k) % 4 = IF tx_device + k < 4 THEN tx_device + k ELSE tx_device + k - 4
          /\ (tx_device + w) % 4 = IF tx_device + w < 4 THEN tx_device + w ELSE tx_device + w - 4
      BY <1>1, <1>3, <2>1, Mod4
    <2>3. w \in 0 .. 3
      BY <1>1, <1>4
    <2>4. CASE tx_device + w < 4
      BY <1>3, <2>1, <2>2, <2>3, <2>4
    <2>5. CASE ~(tx_device + w < 4)
      BY <1>3, <2>1, <2>2, <2>3, <2>5
    <2> QED BY <2>4, <2>5
  <1>6. tx_current' = (tx_device' + (accepted' - sent')) % 4
    BY <1>1, <1>2, <1>3 DEF TxInv
  <1>7. tsd' \in [Descriptors -> [own : BOOLEAN, packet : Nat]]
    BY <1>1, <1>2, <1>3 DEF TxInv, Descriptors
  <1>8. ASSUME NEW k \in 0 .. 3
        PROVE  IF sent + k + 1 <= accepted'
               THEN ~tsd'[(tx_device + k) % 4].own /\ tsd'[(tx_device + k) % 4].packet = sent + k + 1
               ELSE tsd'[(tx_device + k) % 4].own
    <2>0. (tx_device + k) % 4 \in Descriptors
      BY <1>3 DEF Descriptors
    <2>1. CASE k = w
      <3>1. tsd'[(tx_device + k) % 4] = [own |-> FALSE, packet |-> accepted + 1]
        BY <1>2, <1>5, <2>0, <2>1 DEF TxInv
      <3> QED BY <3>1, <1>1, <1>2, <2>1
    <2>2. CASE k # w
      <3>1. tsd'[(tx_device + k) % 4] = tsd[(tx_device + k) % 4]
        BY <1>2, <1>5, <2>0, <2>2 DEF TxInv
      <3>2. n + k + 1 <= accepted' <=> n + k + 1 <= accepted
        BY <1>1, <1>2, <2>2
      <3> QED BY <3>1, <3>2 DEF TxInv, TransmittedInOrder
    <2> QED BY <2>1, <2>2
  <1>9. TransmittedInOrder'
    <2>1. accepted' \in sent .. (sent + 4)
      BY <1>1, <1>2, <1>4
    <2>2. wire' \in {sent', Other}
      BY <1>2 DEF TxInv, TransmittedInOrder
    <2> QED BY <1>2, <1>8, <2>1, <2>2 DEF TransmittedInOrder
  <1> QED BY <1>1, <1>2, <1>6, <1>7, <1>9 DEF TxInv

LEMMA TxSends == TxInv /\ DeviceSends => TxInv'
  <1> SUFFICES ASSUME TxInv, DeviceSends PROVE TxInv'
    OBVIOUS
  <1> DEFINE n == sent  w == accepted - sent
  <1>1. n \in Nat /\ accepted \in Nat /\ w \in 0 .. 4 /\ accepted = n + w /\ tx_device \in 0 .. 3
    <2>1. sent \in Nat
      BY DEF TxInv
    <2>2. accepted \in Nat /\ accepted \in sent .. (sent + 4) /\ tx_device \in 0 .. 3
      BY DEF TxInv, TransmittedInOrder
    <2> QED BY <2>1, <2>2
  <1>2. /\ tsd' = [tsd EXCEPT ![tx_device].own = TRUE]
        /\ sent' = sent + 1
        /\ wire' \in {tsd[tx_device].packet, Other}
        /\ tx_device' = (tx_device + 1) % 4
        /\ accepted' = accepted /\ tx_current' = tx_current
        /\ ~tsd[tx_device].own
    BY DEF DeviceSends
  <1>3. (tx_device + 0) % 4 = tx_device
    BY <1>1
  <1>4. w >= 1 /\ tsd[tx_device].packet = n + 1
    <2>1. IF n + 0 + 1 <= accepted THEN tsd[tx_device].packet = n + 0 + 1 ELSE tsd[tx_device].own
      BY <1>3, 0 \in 0 .. 3 DEF TxInv, TransmittedInOrder
    <2>2. n + 0 + 1 <= accepted /\ tsd[tx_device].packet = n + 0 + 1
      BY <1>2, <2>1
    <2> QED BY <1>1, <2>2
  <1>5. sent' = n + 1 /\ sent' \in Nat
    BY <1>1, <1>2
  <1>6. wire' \in {sent', Other}
    BY <1>2, <1>4, <1>5
  <1>7. tx_device' \in 0 .. 3 /\ tx_current' = (tx_device' + (accepted' - sent')) % 4
    <2>1. tx_current = (tx_device + w) % 4
      BY DEF TxInv
    <2>2. tx_device' = IF tx_device + 1 < 4 THEN tx_device + 1 ELSE tx_device + 1 - 4
      BY <1>1, <1>2, 1 \in 0 .. 4, Mod4
    <2>3. (tx_device' + (w - 1)) % 4 = (tx_device + w) % 4
      <3>1. tx_device' \in 0 .. 3 /\ w - 1 \in 0 .. 4
        BY <1>1, <1>4, <2>2
      <3>2. (tx_device' + (w - 1)) % 4 = IF tx_device' + (w - 1) < 4 THEN tx_device' + (w - 1)
                                       ELSE tx_device' + (w - 1) - 4
        BY <3>1, Mod4
      <3>3. (tx_device + w) % 4 = IF tx_device + w < 4 THEN tx_device + w ELSE tx_device + w - 4
        BY <1>1, Mod4
      <3>4. CASE tx_device < 3
        <4>1. tx_device' + (w - 1) = tx_device + w
          BY <1>1, <2>2, <3>4
        <4> QED BY <4>1
      <3>5. CASE tx_device = 3
        <4>1. tx_device' = 0 /\ w \in 1 .. 4
          BY <1>1, <1>4, <2>2, <3>5
        <4>2. (tx_device' + (w - 1)) % 4 = w - 1
          BY <3>2, <4>1
        <4>3. (tx_device + w) % 4 = w - 1
          BY <3>3, <3>5, <4>1
        <4> QED BY <4>2, <4>3
      <3> QED BY <1>1, <3>4, <3>5
    <2>4. accepted' - sent' = w - 1
      BY <1>1, <1>2, <1>5
    <2> QED BY <1>1, <1>2, <2>1, <2>2, <2>3, <2>4
  <1>8. tsd' \in [Descriptors -> [own : BOOLEAN, packet : Nat]]
    BY <1>1, <1>2 DEF TxInv, Descriptors
  <1>9. ASSUME NEW k \in 0 .. 3
        PROVE  IF sent' + k + 1 <= accepted
               THEN /\ ~tsd'[(tx_device' + k) % 4].own
                    /\ tsd'[(tx_device' + k) % 4].packet = sent' + k + 1
               ELSE tsd'[(tx_device' + k) % 4].own
    <2>1. CASE k = 3
      <3>1. (tx_device' + k) % 4 = tx_device
        BY <1>1, <1>2, <2>1
      <3>2. tsd'[tx_device].own
        BY <1>1, <1>2 DEF TxInv, Descriptors
      <3>3. ~(sent' + k + 1 <= accepted)
        BY <1>1, <1>5, <2>1
      <3> QED BY <3>1, <3>2, <3>3
    <2>2. CASE k # 3
      <3>1. k + 1 \in 0 .. 3 /\ (tx_device' + k) % 4 = (tx_device + (k + 1)) % 4
        <4>1. k \in 0 .. 4 /\ k + 1 \in 0 .. 3 /\ k + 1 \in 0 .. 4
          BY <1>1, <2>2
        <4>2. tx_device' = IF tx_device + 1 < 4 THEN tx_device + 1 ELSE tx_device + 1 - 4
          BY <1>1, <1>2, 1 \in 0 .. 4, Mod4
        <4>3. tx_device' \in 0 .. 3
          BY <1>1, <4>1, <4>2
        <4>4. (tx_device' + k) % 4 = IF tx_device' + k < 4 THEN tx_device' + k ELSE tx_device' + k - 4
          BY <4>1, <4>3, Mod4
        <4>5. (tx_device + (k + 1)) % 4 = IF tx_device + (k + 1) < 4 THEN tx_device + (k + 1)
                                        ELSE tx_device + (k + 1) - 4
          BY <1>1, <4>1, Mod4
        <4> QED BY <1>1, <4>1, <4>2, <4>3, <4>4, <4>5
      <3>2. (tx_device + (k + 1)) % 4 \in Descriptors /\ (tx_device + (k + 1)) % 4 # tx_device
        BY <1>1, <2>2 DEF Descriptors
      <3>3. tsd'[(tx_device' + k) % 4] = tsd[(tx_device + (k + 1)) % 4]
        BY <1>2, <3>1, <3>2 DEF TxInv
      <3>4. sent' + k + 1 = n + (k + 1) + 1
        BY <1>1, <1>5
      <3> QED BY <3>1, <3>3, <3>4, <1>5 DEF TxInv, TransmittedInOrder
    <2> QED BY <2>1, <2>2
  <1>10. TransmittedInOrder'
    BY <1>1, <1>2, <1>4, <1>5, <1>6, <1>9 DEF TxInv, TransmittedInOrder
  <1> QED BY <1>1, <1>2, <1>5, <1>7, <1>8, <1>10 DEF TxInv

\* The descriptors serve the packets that transmit_packet took in order, each
\* once, however its calls and the device's progress around the four of them
\* interleave; what leaves is the packet whose turn it is, or bytes that are no
\* packet where the address in TSAD does not lead to it.
THEOREM TransmissionKeepsOrder == Spec => []TransmittedInOrder
  <1>1. TxInv /\ [Next]_vars => TxInv'
    <2> SUFFICES ASSUME TxInv, [Next]_vars PROVE TxInv'
      OBVIOUS
    <2>1. CASE UNCHANGED tx_vars
      BY <2>1 DEF TxInv, TransmittedInOrder, tx_vars
    <2>2. CASE UNCHANGED vars
      BY <2>1, <2>2 DEF vars
    <2> QED BY <2>1, <2>2, TxFrame, TxTransmit, TxSends
  <1>2. TxInv => TransmittedInOrder
    BY DEF TxInv
  <1> QED BY <1>1, <1>2, TxInit, PTL DEF Spec

-----------------------------------------------------------------------------
(* Reception.                                                              *)

\* What touches the receive side; everything else leaves it alone, and leaves
\* the bits of the status register set.
RxStep ==
    \/ InitDone \/ DeviceReceives \/ HandleInterrupt
    \/ ReceiveGood \/ ReceiveBad \/ ReceiveJunk \/ ReceiveNone \/ AckInterrupt

RxStill ==
    /\ UNCHANGED <<rx_vars, hpc, seen>>
    /\ isr \subseteq isr'
    /\ hw' = "up" <=> hw = "up"

LEMMA RxFrame == [Next]_vars => RxStep \/ RxStill
  <1> SUFFICES ASSUME [Next]_vars PROVE RxStep \/ RxStill
    OBVIOUS
  <1>1. CASE AcpiNext /\ UNCHANGED <<pci_vars, apic_vars, nic, rx_vars, tx_vars, irq_vars>>
    BY <1>1 DEF AcpiNext, NoEcam, FirstPageMapped, StartMapping, MapFrame, MapFrameFails,
                RegionMapped, Returns, RxStill, irq_vars
  <1>2. CASE PciNext /\ UNCHANGED <<apic_vars, nic, rx_vars, tx_vars, irq_vars>>
    BY <1>2 DEF PciNext, ScanAbsent, ScanPresent, ScanFaults, ScanDone, RxStill, irq_vars
  <1>3. CASE ApicNext /\ UNCHANGED <<nic, rx_vars, tx_vars, irq_vars>>
    BY <1>3 DEF ApicNext, LoadIdt, InitLocalApic, ProgramPin, EnableInterrupts, RxStill, irq_vars
  <1>4. CASE RtlBoot
    BY <1>4 DEF RtlBoot, NoNic, EnableNic, MapBarFails, MapBar, RxStep, RxStill, irq_vars
  <1>5. CASE transmit_packet \/ Handler
    BY <1>5 DEF Handler, transmit_packet, RxStep, RxStill, irq_vars, boot_vars
  <1>6. CASE Device
    BY <1>6 DEF Device, DeviceSends, RxStep, RxStill, boot_vars
  <1>7. CASE UNCHANGED vars
    BY <1>7 DEF vars, irq_vars, boot_vars, RxStill
  <1> QED BY <1>1, <1>2, <1>3, <1>4, <1>5, <1>6, <1>7 DEF Next, Boot, Rest

-----------------------------------------------------------------------------

LEMMA ModRing ==
    ASSUME NEW x \in 0 .. (RxRing - 1)
    PROVE  x % RxRing = x /\ (RxRing + x) % RxRing = x /\ RxRing % RxRing = 0
  BY RtlAssumption

LEMMA FootprintOf ==
    ASSUME NEW l \in Lengths
    PROVE  l \in Nat /\ Footprint(l) \in Nat /\ Footprint(l) % 4 = 0 /\ Footprint(l) >= 16
  <1>1. l \in Nat /\ l >= 12
    BY RtlAssumption
  <1> QED BY <1>1 DEF Footprint

\* The bytes of the ring between the driver, at rx, and the device, at cb.
InUse(o, rx, cb) == IF rx <= cb THEN rx <= o /\ o < cb ELSE rx <= o \/ o < cb

\* p gives the place of each of the packets ls that is not delivered yet, all
\* but the first d, and where the next one goes: the places follow each other,
\* lie between the driver and the device, hold the packets' headers in the
\* ring rg and do not overlap.
Chain(p, ls, d, rg, rx, cb) ==
    /\ p[d + 1] = rx /\ p[Len(ls) + 1] = cb
    /\ \A k \in (d + 1) .. Len(ls) :
          /\ p[k] + Footprint(ls[k]) <= RxRing
          /\ p[k + 1] = Wrapped(p[k] + Footprint(ls[k]))
          /\ p[k] \in DOMAIN rg /\ rg[p[k]] = k
          /\ InUse(p[k], rx, cb)
          /\ \A j \in (d + 1) .. (Len(ls) + 1) :
                j # k => p[j] < p[k] \/ p[j] >= p[k] + Footprint(ls[k])

Offsets == 0 .. (RxRing - 1)

\* The device puts a packet of length l behind the others.
LEMMA ChainGrows ==
    ASSUME NEW ls \in Seq(Lengths), NEW d \in 0 .. Len(ls), NEW rg,
           NEW rx \in Offsets, NEW cb \in Offsets,
           NEW p \in [1 .. (Len(ls) + 1) -> Offsets],
           Chain(p, ls, d, rg, rx, cb),
           NEW l \in Lengths,
           cb + Footprint(l) <= RxRing,
           Footprint(l) + 4 < (IF cb = rx THEN RxRing
                               ELSE IF cb < rx THEN rx - cb ELSE RxRing + rx - cb)
    PROVE  LET end == cb + Footprint(l)
               more == [o \in {o \in DOMAIN rg : o < cb \/ o >= end} \cup {cb} |->
                          IF o = cb THEN Len(ls) + 1 ELSE rg[o]]
           IN  \E q \in [1 .. (Len(ls) + 2) -> Offsets] :
                  Chain(q, Append(ls, l), d, more, rx, Wrapped(end))
  <1> DEFINE n == Len(ls)
             F == Footprint(l)
             end == cb + F
             c == Wrapped(end)
             more == [o \in {o \in DOMAIN rg : o < cb \/ o >= end} \cup {cb} |->
                        IF o = cb THEN n + 1 ELSE rg[o]]
             q == [k \in 1 .. (n + 2) |-> IF k = n + 2 THEN c ELSE p[k]]
             ms == Append(ls, l)
  <1>1. n \in Nat /\ d \in Nat /\ d <= n /\ F \in Nat /\ F >= 16 /\ RxRing \in Nat
    BY FootprintOf, RtlAssumption
  <1>2. rx \in Nat /\ rx < RxRing /\ cb \in Nat /\ cb < RxRing
    BY <1>1 DEF Offsets
  <1>3. c \in Nat /\ c < RxRing /\ (c = end \/ (c = 0 /\ end = RxRing))
    BY <1>1, <1>2 DEF Wrapped
  <1>4. c \in Offsets
    BY <1>1, <1>3 DEF Offsets
  <1>5. Len(ms) = n + 1 /\ ms[n + 1] = l /\ \A k \in 1 .. n : ms[k] = ls[k]
    BY AppendProperties
  <1>6. q \in [1 .. (n + 2) -> Offsets]
    BY <1>1, <1>4
  <1>7. q[n + 2] = c /\ \A k \in 1 .. (n + 1) : q[k] = p[k]
    BY <1>1
  <1>8. p[n + 1] = cb /\ p[d + 1] = rx
    BY DEF Chain
  <1>9. cb \in DOMAIN more /\ more[cb] = n + 1
    OBVIOUS
  <1>10. \A o \in DOMAIN rg : o < cb \/ o >= end => o \in DOMAIN more
    OBVIOUS
  <1>11. \A o \in DOMAIN rg : (o < cb \/ o >= end) /\ o # cb => more[o] = rg[o]
    OBVIOUS
  <1> HIDE DEF c, more, q, ms, F
  <1>12. ASSUME NEW k \in (d + 1) .. n
         PROVE  /\ p[k] \in Nat /\ Footprint(ls[k]) \in Nat
                /\ p[k] < cb \/ p[k] >= end
                /\ InUse(p[k], rx, c)
                /\ c < p[k] \/ c >= p[k] + Footprint(ls[k])
                /\ cb < p[k] \/ cb >= p[k] + Footprint(ls[k])
    <2>1. k \in 1 .. n /\ k \in 1 .. (n + 1) /\ n + 1 \in (d + 1) .. (n + 1) /\ n + 1 # k
      BY <1>1
    <2>2. p[k] \in Nat /\ p[k] < RxRing /\ ls[k] \in Lengths
      BY <1>1, <2>1, ElementOfSeq DEF Offsets
    <2>3. Footprint(ls[k]) \in Nat /\ Footprint(ls[k]) >= 16
      BY <2>2, FootprintOf
    <2>4. InUse(p[k], rx, cb) /\ p[k] + Footprint(ls[k]) <= RxRing
      BY DEF Chain
    <2>5. cb < p[k] \/ cb >= p[k] + Footprint(ls[k])
      BY <1>8, <2>1 DEF Chain
    <2>6. /\ cb = rx => F + 4 < RxRing
          /\ cb < rx => F + 4 < rx - cb
          /\ rx < cb => F + 4 < RxRing + rx - cb
      BY <1>2 DEF F
    <2>7. cb + F <= RxRing
      BY DEF F
    <2>8. /\ p[k] < cb \/ p[k] >= end
          /\ InUse(p[k], rx, c)
          /\ c < p[k] \/ c >= p[k] + Footprint(ls[k])
      <3> DEFINE o == p[k]
                 G == Footprint(ls[k])
      <3>1. o \in Nat /\ o < RxRing /\ G \in Nat /\ InUse(o, rx, cb) /\ (cb < o \/ cb >= o + G)
        BY <2>2, <2>3, <2>4, <2>5
      <3> HIDE DEF o, G
      <3>2. (o < cb \/ o >= cb + F) /\ InUse(o, rx, c) /\ (c < o \/ c >= o + G)
        <4>1. CASE rx > cb
          <5>1. c = cb + F /\ c < rx
            BY <1>1, <1>2, <1>3, <2>6, <4>1
          <5>2. o >= rx \/ o < cb
            BY <1>2, <3>1, <4>1 DEF InUse
          <5> QED BY <1>1, <1>2, <3>1, <4>1, <5>1, <5>2 DEF InUse
        <4>2. CASE rx <= cb
          <5>1. rx <= o /\ o < cb /\ cb >= o + G
            BY <1>2, <3>1, <4>2 DEF InUse
          <5>2. CASE c = cb + F
            BY <1>1, <1>2, <3>1, <4>2, <5>1, <5>2 DEF InUse
          <5>3. CASE c = 0 /\ cb + F = RxRing
            <6>1. rx > 0
              BY <1>1, <1>2, <2>6, <4>2, <5>3
            <6> QED BY <1>1, <1>2, <3>1, <5>1, <5>3, <6>1 DEF InUse
          <5> QED BY <1>3, <5>2, <5>3
        <4> QED BY <1>2, <4>1, <4>2
      <3> QED BY <3>2 DEF o, G
    <2> QED BY <2>2, <2>3, <2>5, <2>8
  <1>13. InUse(cb, rx, c) /\ ~(cb <= c /\ c < end)
    BY <1>1, <1>2, <1>3 DEF InUse, F
  <1>14. ASSUME NEW k \in (d + 1) .. (n + 1)
         PROVE  /\ q[k] + Footprint(ms[k]) <= RxRing
                /\ q[k + 1] = Wrapped(q[k] + Footprint(ms[k]))
                /\ q[k] \in DOMAIN more /\ more[q[k]] = k
                /\ InUse(q[k], rx, c)
                /\ \A j \in (d + 1) .. (n + 2) :
                      j # k => q[j] < q[k] \/ q[j] >= q[k] + Footprint(ms[k])
    <2>1. CASE k \in (d + 1) .. n
      <3>1. k \in 1 .. n /\ k \in 1 .. (n + 1) /\ k + 1 \in 1 .. (n + 1)
        BY <1>1, <2>1
      <3>2. q[k] = p[k] /\ q[k + 1] = p[k + 1] /\ ms[k] = ls[k]
        BY <1>5, <1>7, <3>1
      <3>3. ASSUME NEW j \in (d + 1) .. (n + 2), j # k
            PROVE  q[j] < p[k] \/ q[j] >= p[k] + Footprint(ls[k])
        <4>1. CASE j = n + 2
          BY <1>7, <1>12, <2>1, <4>1
        <4>2. CASE j # n + 2
          <5>1. j \in (d + 1) .. (n + 1) /\ j \in 1 .. (n + 1)
            BY <1>1, <4>2
          <5> QED BY <1>7, <2>1, <3>3, <5>1 DEF Chain
        <4> QED BY <4>1, <4>2
      <3>4. p[k] \in DOMAIN rg /\ rg[p[k]] = k /\ p[k] + Footprint(ls[k]) <= RxRing
            /\ p[k + 1] = Wrapped(p[k] + Footprint(ls[k]))
        BY <2>1 DEF Chain
      <3>5. p[k] \in DOMAIN more /\ more[p[k]] = k
        <4>1. p[k] # cb
          <5>1. p[k] \in Nat /\ (p[k] < cb \/ p[k] >= end)
            BY <1>12, <2>1
          <5> QED BY <1>1, <1>2, <5>1
        <4> QED BY <1>10, <1>11, <1>12, <2>1, <3>4, <4>1
      <3>6. InUse(p[k], rx, c)
        BY <1>12, <2>1
      <3> QED BY <3>2, <3>3, <3>4, <3>5, <3>6
    <2>2. CASE k = n + 1
      <3>1. n + 1 \in 1 .. (n + 1)
        BY <1>1
      <3>2. q[k] = cb /\ q[k + 1] = c /\ ms[k] = l
        BY <1>1, <1>5, <1>7, <1>8, <2>2, <3>1
      <3>3. ASSUME NEW j \in (d + 1) .. (n + 2), j # k
            PROVE  q[j] < cb \/ q[j] >= end
        <4>1. CASE j = n + 2
          BY <1>1, <1>2, <1>3, <1>7, <1>13, <4>1 DEF F
        <4>2. CASE j # n + 2
          <5>1. j \in (d + 1) .. n /\ j \in 1 .. (n + 1)
            BY <1>1, <2>2, <3>3, <4>2
          <5> QED BY <1>7, <1>12, <5>1
        <4> QED BY <4>1, <4>2
      <3>4. cb \in DOMAIN more /\ more[cb] = k
        BY <1>9, <2>2
      <3>5. cb + Footprint(l) <= RxRing /\ c = Wrapped(cb + Footprint(l))
        BY DEF c, F
      <3> QED BY <3>2, <3>3, <3>4, <3>5, <1>13 DEF F
    <2> QED BY <1>1, <2>1, <2>2
  <1>15. q[d + 1] = rx /\ q[(n + 1) + 1] = c
    BY <1>1, <1>7, <1>8
  <1>16. Chain(q, ms, d, more, rx, c)
    BY <1>1, <1>5, <1>14, <1>15 DEF Chain
  <1> QED BY <1>6, <1>16 DEF ms, more, c, F

\* The driver takes the first packet.
LEMMA ChainShrinks ==
    ASSUME NEW ls \in Seq(Lengths), NEW d \in Nat, d < Len(ls), NEW rg,
           NEW rx \in Offsets, NEW cb \in Offsets,
           NEW p \in [1 .. (Len(ls) + 1) -> Offsets],
           Chain(p, ls, d, rg, rx, cb)
    PROVE  /\ rx \in DOMAIN rg /\ rg[rx] = d + 1
           /\ rx + Footprint(ls[d + 1]) <= RxRing
           /\ Chain(p, ls, d + 1, rg, Wrapped(rx + Footprint(ls[d + 1])), cb)
  <1> DEFINE n == Len(ls)
             F == Footprint(ls[d + 1])
             r == Wrapped(rx + F)
  <1>1. n \in Nat /\ d + 1 \in 1 .. n /\ d + 1 \in (d + 1) .. n
    OBVIOUS
  <1>2. F \in Nat /\ F >= 16 /\ RxRing \in Nat
    <2>1. ls[d + 1] \in Lengths
      BY <1>1, ElementOfSeq
    <2> HIDE DEF F
    <2>2. F \in Nat /\ F >= 16
      BY <2>1, FootprintOf DEF F
    <2> QED BY <2>2, RtlAssumption
  <1>3. p[d + 1] = rx /\ p[n + 1] = cb
    BY DEF Chain
  <1>4. rx \in DOMAIN rg /\ rg[rx] = d + 1 /\ rx + F <= RxRing /\ p[d + 2] = r
    <2>1. (d + 1) + 1 = d + 2
      OBVIOUS
    <2> QED BY <1>1, <1>3, <2>1 DEF Chain
  <1>5. \A j \in (d + 2) .. (n + 1) : p[j] < rx \/ p[j] >= rx + F
    <2> SUFFICES ASSUME NEW j \in (d + 2) .. (n + 1) PROVE p[j] < rx \/ p[j] >= rx + F
      OBVIOUS
    <2>1. j \in (d + 1) .. (n + 1) /\ j # d + 1
      BY <1>1
    <2> QED BY <1>1, <1>3, <2>1 DEF Chain
  <1>6. rx \in Nat /\ rx < RxRing /\ cb \in Nat /\ cb < RxRing
    BY <1>2 DEF Offsets
  <1>7. r = rx + F \/ (r = 0 /\ rx + F = RxRing)
    BY <1>2, <1>4, <1>6 DEF Wrapped
  <1>8. cb < rx \/ cb >= rx + F
    BY <1>1, <1>3, <1>5
  <1> HIDE DEF F, r
  <1>9. ASSUME NEW k \in (d + 2) .. n
        PROVE  InUse(p[k], r, cb)
    <2>1. k \in (d + 1) .. n /\ k \in 1 .. (n + 1) /\ k \in (d + 2) .. (n + 1)
      BY <1>1
    <2>2. p[k] \in Nat /\ p[k] < RxRing
      BY <1>2, <2>1 DEF Offsets
    <2>3. InUse(p[k], rx, cb)
      BY <2>1 DEF Chain
    <2>4. p[k] < rx \/ p[k] >= rx + F
      BY <1>5, <2>1
    <2> QED BY <1>2, <1>6, <1>7, <1>8, <2>2, <2>3, <2>4 DEF InUse
  <1>10. ASSUME NEW k \in (d + 2) .. n
         PROVE  /\ p[k] + Footprint(ls[k]) <= RxRing
                /\ p[k + 1] = Wrapped(p[k] + Footprint(ls[k]))
                /\ p[k] \in DOMAIN rg /\ rg[p[k]] = k
                /\ \A j \in (d + 2) .. (n + 1) :
                      j # k => p[j] < p[k] \/ p[j] >= p[k] + Footprint(ls[k])
    <2>1. k \in (d + 1) .. n /\ (d + 2) .. (n + 1) \subseteq (d + 1) .. (n + 1)
      BY <1>1
    <2> QED BY <2>1 DEF Chain
  <1>11. (d + 1) + 1 = d + 2
    OBVIOUS
  <1>12. Chain(p, ls, d + 1, rg, r, cb)
    BY <1>3, <1>4, <1>9, <1>10, <1>11 DEF Chain
  <1> QED BY <1>4, <1>12 DEF r, F

RxSound ==
    /\ lengths \in Seq(Lengths)
    /\ delivered \in Seq(Nat)
    /\ delivered = [k \in 1 .. Len(delivered) |-> k]
    /\ Len(delivered) <= Len(lengths)
    /\ hpc # "lost"
    /\ cbr \in Offsets
    /\ rx_offset \in Offsets /\ rx_offset % 4 = 0
    /\ ReadPointer = rx_offset
    /\ \E p \in [1 .. (Len(lengths) + 1) -> Offsets] :
          Chain(p, lengths, Len(delivered), ring, rx_offset, cbr)

RxUntouched ==
    /\ lengths = <<>> /\ delivered = <<>>
    /\ cbr = 0 /\ rx_offset = 0 /\ ReadPointer = 0
    /\ hpc = "idle"

\* Until init is done nothing has happened on the receive side.
RxInv ==
    /\ hw # "up" => RxUntouched /\ ~dma
    /\ dma /\ ~crossed => RxSound

LEMMA RxInvInit == Init => RxInv
  <1> SUFFICES ASSUME Init PROVE RxInv
    OBVIOUS
  <1>1. /\ lengths = <<>> /\ delivered = <<>> /\ cbr = 0 /\ rx_offset = 0
        /\ capr = 65536 - 16 /\ hpc = "idle" /\ ~dma
    BY DEF Init, RtlInit
  <1>2. capr + 16 = 65536
    BY <1>1
  <1>3. ReadPointer = 0
    BY <1>2, RtlAssumption DEF ReadPointer
  <1> QED BY <1>1, <1>3 DEF RxInv, RxUntouched

LEMMA RxFromUntouched == RxUntouched => RxSound
  <1> SUFFICES ASSUME RxUntouched PROVE RxSound
    OBVIOUS
  <1> DEFINE p == [k \in 1 .. (Len(lengths) + 1) |-> 0]
  <1>1. /\ lengths = <<>> /\ delivered = <<>> /\ cbr = 0 /\ rx_offset = 0
        /\ ReadPointer = 0 /\ hpc = "idle"
    BY DEF RxUntouched
  <1>2. Len(lengths) = 0 /\ Len(delivered) = 0
    BY <1>1
  <1>3. 0 \in Offsets
    BY RtlAssumption DEF Offsets
  <1>4. p \in [1 .. (Len(lengths) + 1) -> Offsets]
    BY <1>3
  <1>5. Chain(p, lengths, Len(delivered), ring, rx_offset, cbr)
    <2>1. p[1] = 0
      BY <1>2
    <2>2. (Len(delivered) + 1) .. Len(lengths) = {}
      BY <1>2
    <2> HIDE DEF p
    <2>3. Len(delivered) + 1 = 1 /\ Len(lengths) + 1 = 1
      BY <1>2
    <2> QED BY <1>1, <2>1, <2>2, <2>3 DEF Chain
  <1>6. lengths \in Seq(Lengths) /\ delivered \in Seq(Nat)
    BY <1>1
  <1>7. delivered = [k \in 1 .. Len(delivered) |-> k]
    BY <1>1, <1>2
  <1> HIDE DEF p
  <1> QED BY <1>1, <1>2, <1>3, <1>4, <1>5, <1>6, <1>7 DEF RxSound

LEMMA RxArrives ==
    RxSound /\ dma /\ DeviceReceives /\ ~crossed' => RxSound'
  <1> SUFFICES ASSUME RxSound, dma, DeviceReceives, ~crossed' PROVE RxSound'
    OBVIOUS
  <1>1. PICK l \in Lengths :
          /\ Footprint(l) + 4 < Free
          /\ lengths' = Append(lengths, l)
          /\ ring' = [o \in {o \in DOMAIN ring : o < cbr \/ o >= cbr + Footprint(l)} \cup {cbr} |->
                        IF o = cbr THEN Len(lengths) + 1 ELSE ring[o]]
          /\ cbr' = (cbr + Footprint(l)) % RxRing
          /\ crossed' = (crossed \/ cbr + Footprint(l) > RxRing)
    BY DEF DeviceReceives
  <1>2. UNCHANGED <<capr, rx_offset, delivered, hpc>>
    BY DEF DeviceReceives
  <1>3. /\ lengths \in Seq(Lengths) /\ Len(lengths) \in Nat
        /\ cbr \in Offsets /\ rx_offset \in Offsets /\ RxRing \in Nat \ {0}
        /\ Len(delivered) \in 0 .. Len(lengths)
    BY RtlAssumption DEF RxSound
  <1>4. cbr \in Nat /\ cbr < RxRing /\ rx_offset \in Nat /\ rx_offset < RxRing
    BY <1>3 DEF Offsets
  <1>5. Footprint(l) \in Nat /\ Footprint(l) >= 16
    BY FootprintOf
  <1>6. cbr + Footprint(l) <= RxRing
    <2>1. ~(cbr + Footprint(l) > RxRing)
      BY <1>1
    <2> QED BY <1>3, <1>4, <1>5, <2>1
  <1>7. cbr' = Wrapped(cbr + Footprint(l)) /\ cbr' \in Offsets
    <2>1. CASE cbr + Footprint(l) = RxRing
      <3>1. 0 \in 0 .. (RxRing - 1)
        BY <1>3
      <3> QED BY <1>1, <1>3, <2>1, <3>1, ModRing DEF Wrapped, Offsets
    <2>2. CASE cbr + Footprint(l) < RxRing
      <3>1. cbr + Footprint(l) \in 0 .. (RxRing - 1)
        BY <1>3, <1>4, <1>5, <2>2
      <3> QED BY <1>1, <1>3, <2>2, <3>1, ModRing DEF Wrapped, Offsets
    <2> QED BY <1>3, <1>4, <1>5, <1>6, <2>1, <2>2
  <1>8. Free = IF cbr = rx_offset THEN RxRing
               ELSE IF cbr < rx_offset THEN rx_offset - cbr ELSE RxRing + rx_offset - cbr
    <2>0. ReadPointer = rx_offset
      BY DEF RxSound
    <2>1. CASE cbr = rx_offset
      BY <2>0, <2>1 DEF Free, BufferEmpty
    <2>2. CASE cbr < rx_offset
      <3>1. rx_offset - cbr \in 0 .. (RxRing - 1)
        BY <1>3, <1>4, <2>2
      <3>2. RxRing + rx_offset - cbr = RxRing + (rx_offset - cbr)
        BY <1>3, <1>4
      <3>3. (RxRing + rx_offset - cbr) % RxRing = rx_offset - cbr
        BY <3>1, <3>2, ModRing
      <3> QED BY <1>4, <2>0, <2>2, <3>3 DEF Free, BufferEmpty
    <2>3. CASE cbr > rx_offset
      <3>1. RxRing + rx_offset - cbr \in 0 .. (RxRing - 1)
        BY <1>3, <1>4, <2>3
      <3>2. (RxRing + rx_offset - cbr) % RxRing = RxRing + rx_offset - cbr
        BY <3>1, ModRing
      <3> QED BY <1>4, <2>0, <2>3, <3>2 DEF Free, BufferEmpty
    <2> QED BY <1>4, <2>1, <2>2, <2>3
  <1>9. PICK p \in [1 .. (Len(lengths) + 1) -> Offsets] :
          Chain(p, lengths, Len(delivered), ring, rx_offset, cbr)
    BY DEF RxSound
  <1>10. \E q \in [1 .. (Len(lengths) + 2) -> Offsets] :
            Chain(q, lengths', Len(delivered), ring', rx_offset, cbr')
    <2>1. Footprint(l) + 4 < (IF cbr = rx_offset THEN RxRing
                               ELSE IF cbr < rx_offset THEN rx_offset - cbr
                               ELSE RxRing + rx_offset - cbr)
      BY <1>1, <1>8
    <2>2. \E q \in [1 .. (Len(lengths) + 2) -> Offsets] :
             Chain(q, Append(lengths, l), Len(delivered),
                   [o \in {o \in DOMAIN ring : o < cbr \/ o >= cbr + Footprint(l)} \cup {cbr} |->
                      IF o = cbr THEN Len(lengths) + 1 ELSE ring[o]],
                   rx_offset, Wrapped(cbr + Footprint(l)))
      BY <1>3, <1>6, <1>9, <2>1, ChainGrows
    <2> QED BY <1>1, <1>7, <2>2
  <1>11. Len(lengths') = Len(lengths) + 1 /\ lengths' \in Seq(Lengths)
    BY <1>1, <1>3
  <1>12. Len(lengths') + 1 = Len(lengths) + 2
    BY <1>3, <1>11
  <1>13. \E q \in [1 .. (Len(lengths') + 1) -> Offsets] :
            Chain(q, lengths', Len(delivered'), ring', rx_offset', cbr')
    BY <1>2, <1>10, <1>12
  <1>14. ReadPointer' = rx_offset'
    BY <1>2 DEF RxSound, ReadPointer
  <1>15. Len(delivered') <= Len(lengths')
    BY <1>2, <1>3, <1>11
  <1> QED BY <1>2, <1>7, <1>11, <1>13, <1>14, <1>15 DEF RxSound

LEMMA RxTakes ==
    RxSound /\ ReceiveGood => RxSound'
  <1> SUFFICES ASSUME RxSound, ReceiveGood PROVE RxSound'
    OBVIOUS
  <1> DEFINE d == Len(delivered)
  <1>1. /\ lengths \in Seq(Lengths) /\ Len(lengths) \in Nat
        /\ cbr \in Offsets /\ rx_offset \in Offsets /\ RxRing \in Nat \ {0}
        /\ d \in Nat /\ d <= Len(lengths) /\ delivered \in Seq(Nat)
    BY RtlAssumption DEF RxSound
  <1>2. rx_offset \in Nat /\ rx_offset < RxRing /\ rx_offset % 4 = 0
    BY <1>1 DEF Offsets, RxSound
  <1>3. PICK p \in [1 .. (Len(lengths) + 1) -> Offsets] :
          Chain(p, lengths, d, ring, rx_offset, cbr)
    BY DEF RxSound
  <1>4. cbr # rx_offset
    BY DEF ReceiveGood, BufferEmpty, RxSound
  <1>5. d < Len(lengths)
    <2>1. p[d + 1] = rx_offset /\ p[Len(lengths) + 1] = cbr
      BY <1>3 DEF Chain
    <2> QED BY <1>1, <1>4, <2>1
  <1> DEFINE F == Footprint(lengths[d + 1])
             r == Wrapped(rx_offset + F)
  <1>6. /\ rx_offset \in DOMAIN ring /\ ring[rx_offset] = d + 1
        /\ rx_offset + F <= RxRing
        /\ Chain(p, lengths, d + 1, ring, r, cbr)
    BY <1>1, <1>3, <1>5, ChainShrinks
  <1>7. lengths[d + 1] \in Lengths
    <2>1. d + 1 \in 1 .. Len(lengths)
      BY <1>1, <1>5
    <2> QED BY <1>1, <2>1, ElementOfSeq
  <1>8. F \in Nat /\ F >= 16 /\ F % 4 = 0
    BY <1>7, FootprintOf
  <1>9. Advanced(lengths[d + 1]) = rx_offset + F
    <2>1. lengths[d + 1] \in Nat
      BY <1>7, FootprintOf
    <2> DEFINE l == lengths[d + 1]
    <2> HIDE DEF l
    <2>2. l \in Nat => ((rx_offset + l + 4 + 3) \div 4) * 4 = rx_offset + ((l + 4 + 3) \div 4) * 4
      BY <1>2
    <2> QED BY <2>1, <2>2 DEF Advanced, Footprint, l
  <1>10. delivered' = Append(delivered, d + 1) /\ rx_offset' = r
    BY <1>6, <1>9 DEF ReceiveGood
  <1>11. UNCHANGED <<ring, cbr, lengths>> /\ hpc' = "receive"
    BY DEF ReceiveGood, NextPacket
  <1> HIDE DEF F, r
  <1>12. r \in Nat /\ r < RxRing /\ r % 4 = 0 /\ (r = rx_offset + F \/ (r = 0 /\ rx_offset + F = RxRing))
    <2>1. F \in Nat /\ rx_offset + F \in Nat /\ rx_offset + F <= RxRing /\ RxRing \in Nat /\ RxRing > 0
      BY <1>1, <1>2, <1>6, <1>8
    <2>2. (rx_offset + F) % 4 = 0
      BY <1>2, <1>8
    <2>3. CASE rx_offset + F >= RxRing
      <3>1. r = 0
        BY <2>3 DEF Wrapped, r
      <3> QED BY <2>1, <2>3, <3>1
    <2>4. CASE ~(rx_offset + F >= RxRing)
      <3>1. r = rx_offset + F
        BY <2>4 DEF Wrapped, r
      <3> QED BY <2>1, <2>2, <2>4, <3>1
    <2> QED BY <2>3, <2>4
  <1>13. ReadPointer' = rx_offset'
    <2>1. r \in 0 .. (RxRing - 1)
      BY <1>1, <1>12
    <2>2. RxRing <= 65536
      BY <1>1, RtlAssumption
    <2>3. CASE r = 0
      <3>1. capr' = RxRing - 16
        BY <1>10, <2>3 DEF ReceiveGood, update_read_pointer
      <3>2. capr' + 16 = RxRing
        BY <1>1, <3>1
      <3> QED BY <1>10, <2>1, <2>3, <3>2, ModRing DEF ReadPointer
    <2>4. CASE r # 0
      <3>1. r >= 16 /\ r - 16 < 65536 /\ r - 16 \in Nat
        BY <1>1, <1>2, <1>8, <1>12, <2>2, <2>4
      <3>2. capr' = (r - 16) % 65536
        BY <1>10, <2>4 DEF ReceiveGood, update_read_pointer
      <3>3. capr' + 16 = r
        BY <1>12, <3>1, <3>2
      <3> QED BY <1>10, <2>1, <3>3, ModRing DEF ReadPointer
    <2> QED BY <2>3, <2>4
  <1>14. /\ Len(delivered') = d + 1 /\ delivered' \in Seq(Nat)
         /\ delivered' = [k \in 1 .. Len(delivered') |-> k]
    BY <1>1, <1>10 DEF RxSound
  <1>15. \E q \in [1 .. (Len(lengths') + 1) -> Offsets] :
            Chain(q, lengths', Len(delivered'), ring', rx_offset', cbr')
    BY <1>3, <1>6, <1>10, <1>11, <1>14
  <1>16. rx_offset' \in Offsets /\ rx_offset' % 4 = 0
    BY <1>1, <1>10, <1>12 DEF Offsets
  <1>17. Len(delivered') <= Len(lengths')
    BY <1>1, <1>5, <1>11, <1>14
  <1> QED BY <1>1, <1>11, <1>13, <1>14, <1>15, <1>16, <1>17 DEF RxSound

LEMMA RxInvStep == RxInv /\ [Next]_vars => RxInv'
  <1> SUFFICES ASSUME RxInv, [Next]_vars PROVE RxInv'
    OBVIOUS
  <1>0. ASSUME UNCHANGED <<lengths, delivered, ring, cbr, capr, rx_offset>>, hpc' # "lost", RxSound
        PROVE  RxSound'
    BY <1>0 DEF RxSound, ReadPointer
  <1>1. CASE RxStill
    <2>1. UNCHANGED <<lengths, delivered, ring, cbr, capr, rx_offset, hpc, dma, crossed>>
      BY <1>1 DEF RxStill, rx_vars
    <2>2. RxUntouched => RxUntouched'
      BY <2>1 DEF RxUntouched, ReadPointer
    <2>3. RxSound => RxSound'
      BY <1>0, <2>1 DEF RxSound
    <2> QED BY <1>1, <2>1, <2>2, <2>3 DEF RxInv, RxStill
  <1>2. CASE InitDone
    <2>1. UNCHANGED <<lengths, delivered, ring, cbr, capr, rx_offset, hpc>> /\ hw = "wait" /\ hw' = "up"
      BY <1>2 DEF InitDone, irq_vars
    <2>2. RxSound
      BY <2>1, RxFromUntouched DEF RxInv
    <2>3. RxSound'
      BY <1>0, <2>1, <2>2 DEF RxSound
    <2> QED BY <2>1, <2>3 DEF RxInv
  <1>3. CASE DeviceReceives
    <2>1. hw = "up" /\ hw' = "up" /\ dma' = dma
      BY <1>3 DEF DeviceReceives, boot_vars
    <2>2. ~crossed' => ~crossed
      BY <1>3 DEF DeviceReceives
    <2> QED BY <1>3, <2>1, <2>2, RxArrives DEF RxInv
  <1>4. CASE ReceiveGood
    <2>1. hw = "up" /\ hw' = "up" /\ dma' = dma /\ crossed' = crossed
      BY <1>4 DEF ReceiveGood, Receiving, boot_vars
    <2> QED BY <1>4, <2>1, RxTakes DEF RxInv
  <1>5. CASE ReceiveBad
    BY <1>5 DEF ReceiveBad, Receiving, boot_vars, RxInv
  <1>6. CASE ReceiveJunk
    <2>1. hw = "up" /\ hw' = "up" /\ dma' = dma /\ crossed' = crossed
      BY <1>6 DEF ReceiveJunk, Receiving, boot_vars, rx_vars
    <2>2. ASSUME RxSound PROVE FALSE
      <3>1. /\ lengths \in Seq(Lengths) /\ Len(lengths) \in Nat
            /\ Len(delivered) \in Nat /\ Len(delivered) <= Len(lengths)
            /\ cbr \in Offsets /\ rx_offset \in Offsets
        BY <2>2 DEF RxSound
      <3>2. PICK p \in [1 .. (Len(lengths) + 1) -> Offsets] :
              Chain(p, lengths, Len(delivered), ring, rx_offset, cbr)
        BY <2>2 DEF RxSound
      <3>3. cbr # rx_offset /\ rx_offset \notin DOMAIN ring
        BY <1>6, <2>2 DEF ReceiveJunk, BufferEmpty, RxSound
      <3>4. p[Len(delivered) + 1] = rx_offset /\ p[Len(lengths) + 1] = cbr
        BY <3>2 DEF Chain
      <3>5. Len(delivered) < Len(lengths)
        BY <3>1, <3>3, <3>4
      <3> QED BY <3>1, <3>2, <3>3, <3>5, ChainShrinks
    <2> QED BY <1>6, <2>1, <2>2 DEF RxInv, ReceiveJunk
  <1>7. CASE HandleInterrupt \/ ReceiveNone \/ AckInterrupt
    <2>1. /\ UNCHANGED <<lengths, delivered, ring, cbr, capr, rx_offset, dma, crossed, hw>>
          /\ hpc' # "lost" /\ (hw = "up" \/ hpc = "ack")
      BY <1>7 DEF HandleInterrupt, ReceiveNone, AckInterrupt, Receiving, boot_vars, rx_vars
    <2>2. RxSound => RxSound'
      BY <1>0, <2>1
    <2> QED BY <2>1, <2>2 DEF RxInv, RxUntouched
  <1> QED BY <1>1, <1>2, <1>3, <1>4, <1>5, <1>6, <1>7, RxFrame DEF RxStep

\* As long as no packet runs past the end of the ring, receive_packet finds a
\* header wherever it looks and returns the packets in the order of their
\* arrival, each once: the padding, the wrap at the end of the ring and the 16
\* bytes that CAPR lags behind agree with the device.
THEOREM ReceptionKeepsOrder == Spec => []ReceivedInOrder
  <1>1. RxInv => ReceivedInOrder
    BY DEF RxInv, RxSound, ReceivedInOrder
  <1> QED BY <1>1, RxInvInit, RxInvStep, PTL DEF Spec

\* An empty ring holds no packet that is not delivered.
LEMMA EmptyRing == RxSound /\ BufferEmpty => Len(delivered) = Len(lengths)
  <1> SUFFICES ASSUME RxSound, BufferEmpty, Len(delivered) # Len(lengths) PROVE FALSE
    OBVIOUS
  <1>1. /\ lengths \in Seq(Lengths) /\ Len(lengths) \in Nat
        /\ Len(delivered) \in Nat /\ Len(delivered) < Len(lengths)
        /\ rx_offset \in Nat /\ cbr = rx_offset
    BY RtlAssumption DEF RxSound, BufferEmpty, Offsets
  <1>2. PICK p \in [1 .. (Len(lengths) + 1) -> Offsets] :
          Chain(p, lengths, Len(delivered), ring, rx_offset, cbr)
    BY DEF RxSound
  <1> DEFINE k == Len(delivered) + 1  j == Len(lengths) + 1
  <1>3. k \in (Len(delivered) + 1) .. Len(lengths) /\ j \in (Len(delivered) + 1) .. (Len(lengths) + 1)
        /\ j # k /\ k \in 1 .. Len(lengths)
    BY <1>1
  <1>4. p[k] = rx_offset /\ p[j] = rx_offset
    BY <1>1, <1>2 DEF Chain
  <1>5. p[j] < p[k] \/ p[j] >= p[k] + Footprint(lengths[k])
    BY <1>2, <1>3 DEF Chain
  <1>6. Footprint(lengths[k]) \in Nat /\ Footprint(lengths[k]) >= 16
    BY <1>1, <1>3, ElementOfSeq, FootprintOf
  <1> HIDE DEF k, j
  <1> QED BY <1>1, <1>4, <1>5, <1>6

Waiting == (Len(delivered) + 1) .. Len(lengths)

\* When the driver has left the loop over packets for the acknowledgement that
\* clears ROK, only packets that have come since are in the ring.
LeftInv ==
    dma /\ ~crossed =>
        /\ hpc \in {"idle", "ack"} /\ "ROK" \notin isr => Waiting \subseteq raced
        /\ hpc = "ack" /\ "ROK" \in seen => Waiting \subseteq raced

LEMMA LeftStep == RxInv /\ RxInv' /\ LeftInv /\ [Next]_vars => LeftInv'
  <1> SUFFICES ASSUME RxInv, RxInv', LeftInv, [Next]_vars, dma', ~crossed' PROVE LeftInv'
    BY DEF LeftInv
  <1> USE DEF LeftInv
  <1>0. ASSUME UNCHANGED <<delivered, lengths>> PROVE Waiting' = Waiting
    BY <1>0 DEF Waiting
  <1>1. CASE RxStill
    BY <1>0, <1>1 DEF RxStill, rx_vars
  <1>2. CASE InitDone
    <2>1. hw = "wait" /\ UNCHANGED <<delivered, lengths>>
      BY <1>2 DEF InitDone
    <2>2. Len(delivered) = 0 /\ Len(lengths) = 0
      BY <2>1 DEF RxInv, RxUntouched
    <2>3. Waiting' = {}
      BY <2>1, <2>2 DEF Waiting
    <2> QED BY <2>3
  <1>3. CASE DeviceReceives
    <2>1. /\ "ROK" \in isr' /\ UNCHANGED <<dma, hpc, seen, delivered>>
          /\ ~crossed
          /\ hpc = "ack" /\ "ROK" \in seen => raced' = raced \cup {Len(lengths')}
      BY <1>3 DEF DeviceReceives
    <2>2. PICK l \in Lengths : lengths' = Append(lengths, l)
      BY <1>3 DEF DeviceReceives
    <2>3. lengths \in Seq(Lengths) /\ Len(lengths) \in Nat /\ Len(delivered) \in Nat
      BY <2>1 DEF RxInv, RxSound
    <2>4. Len(lengths') = Len(lengths) + 1
      BY <2>2, <2>3
    <2>5. Waiting' \subseteq Waiting \cup {Len(lengths')}
      BY <2>1, <2>3, <2>4 DEF Waiting
    <2> QED BY <2>1, <2>5
  <1>4. CASE HandleInterrupt
    BY <1>0, <1>4 DEF HandleInterrupt, boot_vars, rx_vars
  <1>5. CASE ReceiveGood
    BY <1>5 DEF ReceiveGood, Receiving, NextPacket, boot_vars
  <1>6. CASE ReceiveBad
    BY <1>6 DEF ReceiveBad, Receiving, boot_vars
  <1>7. CASE ReceiveJunk
    BY <1>7 DEF ReceiveJunk, Receiving, boot_vars
  <1>8. CASE ReceiveNone
    <2>1. BufferEmpty /\ UNCHANGED <<dma, crossed, delivered, lengths>>
      BY <1>8 DEF ReceiveNone, rx_vars
    <2>2. RxSound
      BY <2>1 DEF RxInv
    <2>3. Len(delivered) = Len(lengths) /\ Len(lengths) \in Nat
      BY <2>1, <2>2, EmptyRing DEF RxSound
    <2>4. Waiting' = {}
      BY <2>1, <2>3 DEF Waiting
    <2> QED BY <2>4
  <1>9. CASE AckInterrupt
    BY <1>0, <1>9 DEF AckInterrupt, boot_vars, rx_vars
  <1> QED BY <1>1, <1>2, <1>3, <1>4, <1>5, <1>6, <1>7, <1>8, <1>9, RxFrame DEF RxStep

\* A packet that waits in the ring has its interrupt pending, whatever the
\* order of arrivals, reads of the status register and acknowledgements, but
\* for the last ones, if they came between the driver's last look at the ring
\* and the acknowledgement.
THEOREM PacketsAreFetched == Spec => []NoPacketLeftBehind
  <1>1. Init => LeftInv
    BY DEF Init, RtlInit, LeftInv
  <1>2. LeftInv => NoPacketLeftBehind
    BY DEF LeftInv, Waiting, NoPacketLeftBehind
  <1> QED BY <1>1, <1>2, RxInvInit, RxInvStep, LeftStep, PTL DEF Spec

-----------------------------------------------------------------------------
(* The interrupt controllers.                                              *)

\* One more bit of a number.
LEMMA AddBit ==
    ASSUME NEW h \in Nat
    PROVE  /\ h % 8 = (h % 4) + 4 * ((h \div 4) % 2)
           /\ h % 16 = (h % 8) + 8 * ((h \div 8) % 2)
           /\ h % 32 = (h % 16) + 16 * ((h \div 16) % 2)
           /\ h % 64 = (h % 32) + 32 * ((h \div 32) % 2)
           /\ h % 128 = (h % 64) + 64 * ((h \div 64) % 2)
           /\ h % 256 = (h % 128) + 128 * ((h \div 128) % 2)
  <1>1. h % 8 = (h % 4) + 4 * ((h \div 4) % 2)
    OBVIOUS
  <1>2. h % 16 = (h % 8) + 8 * ((h \div 8) % 2)
    OBVIOUS
  <1>3. h % 32 = (h % 16) + 16 * ((h \div 16) % 2)
    OBVIOUS
  <1>4. h % 64 = (h % 32) + 32 * ((h \div 32) % 2)
    OBVIOUS
  <1>5. h % 128 = (h % 64) + 64 * ((h \div 64) % 2)
    OBVIOUS
  <1>6. h % 256 = (h % 128) + 128 * ((h \div 128) % 2)
    OBVIOUS
  <1> QED BY <1>1, <1>2, <1>3, <1>4, <1>5, <1>6

\* The low byte of a number has its low bits.
LEMMA ByteOfByte ==
    ASSUME NEW h \in Nat
    PROVE  /\ (h % 256) % 8 = h % 8 /\ ((h % 256) \div 8) % 2 = (h \div 8) % 2
           /\ ((h % 256) \div 32) % 2 = (h \div 32) % 2
           /\ ((h % 256) \div 128) % 2 = (h \div 128) % 2
  <1>1. (h % 256) % 8 = h % 8
    OBVIOUS
  <1>2. ((h % 256) \div 8) % 2 = (h \div 8) % 2
    OBVIOUS
  <1>3. ((h % 256) \div 32) % 2 = (h \div 32) % 2
    OBVIOUS
  <1>4. ((h % 256) \div 128) % 2 = (h \div 128) % 2
    OBVIOUS
  <1> QED BY <1>1, <1>2, <1>3, <1>4

LEMMA Powers ==
    /\ 2^8 = 256 /\ 2^10 = 1024 /\ 2^11 = 2048 /\ 2^12 = 4096 /\ 2^13 = 8192
    /\ 2^14 = 16384 /\ 2^15 = 32768 /\ 2^16 = 65536
  OBVIOUS

\* Bits of the second byte.
LEMMA SecondByte ==
    ASSUME NEW x \in Nat
    PROVE  LET h == x \div 256 IN
           /\ Bit(x, 10) = (h \div 4) % 2 /\ Bit(x, 11) = (h \div 8) % 2
           /\ Bit(x, 12) = (h \div 16) % 2 /\ Bit(x, 13) = (h \div 32) % 2
           /\ Bit(x, 14) = (h \div 64) % 2 /\ Bit(x, 15) = (h \div 128) % 2
  <1> DEFINE h == x \div 256
  <1>1. /\ x \div 1024 = h \div 4 /\ x \div 2048 = h \div 8
        /\ x \div 4096 = h \div 16 /\ x \div 8192 = h \div 32
        /\ x \div 16384 = h \div 64 /\ x \div 32768 = h \div 128
    OBVIOUS
  <1> QED BY <1>1, Powers DEF Bit

\* A redirection entry, as the table has it.
RedEntry == [low : Nat, destination : 0 .. 255]

\* An entry that delivers vector v.
Delivers(e, v) == e.low < 65536 /\ e.low % 256 = v

LEMMA SecondByteWiring ==
    ASSUME NEW n \in RedEntry, NEW h \in Nat, n.low \div 256 = h
    PROVE  Wiring(n) = <<h % 8, (h \div 8) % 2, (h \div 32) % 2, (h \div 128) % 2, n.destination>>
  <1> DEFINE x == n.low
  <1>1. x \in Nat /\ x \div 256 = h
    BY DEF RedEntry
  <1> HIDE DEF x
  <1>2. /\ Bit(x, 11) = (h \div 8) % 2 /\ Bit(x, 13) = (h \div 32) % 2
        /\ Bit(x, 15) = (h \div 128) % 2 /\ (x \div 2^8) % 8 = h % 8
    <2>1. x \div 2048 = h \div 8 /\ x \div 8192 = h \div 32 /\ x \div 32768 = h \div 128
      BY <1>1
    <2> QED BY <1>1, <2>1, Powers DEF Bit
  <1> QED BY <1>2, Zenon DEF Wiring, x

LEMMA LowByteOfSum ==
    ASSUME NEW v \in 0 .. 255, NEW s \in 0 .. 255
    PROVE  /\ (v + 256 * s) % 65536 = v + 256 * s
           /\ (v + 256 * s) % 256 = v
           /\ (v + 256 * s) \div 256 = s
           /\ v + 256 * s \in Nat /\ v + 256 * s < 65536
  OBVIOUS

LEMMA Reprogrammed ==
    ASSUME NEW n \in RedEntry, NEW v \in 0 .. 255
    PROVE  /\ Programmed(n, v) \in RedEntry
           /\ Delivers(Programmed(n, v), v)
           /\ Wiring(Programmed(n, v)) = Wiring(n)
  <1> DEFINE x == n.low
             h == x \div 256
             s == h % 256
             red == [RedTbl(n) EXCEPT !.vector = v]
             e == Programmed(n, v)
  <1>1. x \in Nat /\ h \in Nat /\ s \in 0 .. 255
    BY DEF RedEntry
  <1>2. red = [vector |-> v, delivery_mode |-> h % 4, destination_mode |-> (h \div 4) % 2,
               delivery_status |-> (h \div 8) % 2, pin_polarity |-> (h \div 16) % 2,
               remote_irr |-> (h \div 32) % 2, trigger_mode |-> (h \div 64) % 2,
               mask |-> (h \div 128) % 2, destination |-> n.destination]
    BY <1>1, SecondByte DEF RedTbl
  <1>3. store(red) = [low |-> v + 256 * s, destination |-> n.destination]
    <2>1. store(red) = [low |-> v + (h % 4) * 256 + ((h \div 4) % 2) * 1024
                                + ((h \div 8) % 2) * 2048 + ((h \div 16) % 2) * 4096
                                + ((h \div 32) % 2) * 8192 + ((h \div 64) % 2) * 16384
                                + ((h \div 128) % 2) * 32768,
                        destination |-> n.destination]
      BY <1>2, Powers DEF store
    <2>2. v + (h % 4) * 256 + ((h \div 4) % 2) * 1024
                                + ((h \div 8) % 2) * 2048 + ((h \div 16) % 2) * 4096
                                + ((h \div 32) % 2) * 8192 + ((h \div 64) % 2) * 16384
                                + ((h \div 128) % 2) * 32768 = v + 256 * s
      <3> HIDE DEF h
      <3> QED BY <1>1, AddBit
    <2> QED BY <2>1, <2>2
  <1>4. e = [low |-> v + 256 * s, destination |-> n.destination]
    <2> HIDE DEF s
    <2>1. (v + 256 * s) % 65536 = v + 256 * s
      BY <1>1, LowByteOfSum
    <2>2. (v + 256 * s) % 2^16 = v + 256 * s
      BY <2>1, Powers
    <2> QED BY <1>3, <2>2 DEF write_redtlb, Programmed, red
  <1> HIDE DEF e, s
  <1>5. e.low = v + 256 * s /\ e.low % 256 = v /\ e.low \div 256 = s /\ e.low \in Nat /\ e.low < 65536
    BY <1>1, <1>4, LowByteOfSum
  <1>6. Wiring(e) = <<s % 8, (s \div 8) % 2, (s \div 32) % 2, (s \div 128) % 2, n.destination>>
    <2>1. s \in Nat /\ e.destination = n.destination
      BY <1>1, <1>4
    <2>2. e \in RedEntry
      BY <1>4, <1>5 DEF RedEntry
    <2> QED BY <1>5, <2>1, <2>2, SecondByteWiring
  <1>7. Wiring(n) = <<h % 8, (h \div 8) % 2, (h \div 32) % 2, (h \div 128) % 2, n.destination>>
    BY <1>1, SecondByteWiring
  <1> HIDE DEF h
  <1>8. /\ s % 8 = h % 8 /\ (s \div 8) % 2 = (h \div 8) % 2
        /\ (s \div 32) % 2 = (h \div 32) % 2 /\ (s \div 128) % 2 = (h \div 128) % 2
    BY <1>1, ByteOfByte DEF s
  <1>9. e \in RedEntry
    BY <1>4, <1>5 DEF RedEntry
  <1>10. Delivers(e, v)
    BY <1>5 DEF Delivers
  <1> QED BY <1>6, <1>7, <1>8, <1>9, <1>10 DEF e

\* disable_pic leaves an 8259 with its vectors moved and all its lines masked.
PicState == [expects : 0 .. 3, offset : 0 .. 255, mask : 0 .. 255]

Quiet(pic) == pic.mask = 255 /\ pic.offset >= 32

LEMMA PicSilent ==
    ASSUME NEW pic \in PicState,
           NEW o \in 32 .. 255, NEW x \in 0 .. 255
    PROVE  Quiet(AfterFive(pic, disable_pic(o, x)))
  <1> DEFINE p1 == [expects |-> 3, offset |-> pic.offset, mask |-> pic.mask]
             p2 == [expects |-> 2, offset |-> o, mask |-> pic.mask]
             p3 == [expects |-> 1, offset |-> o, mask |-> pic.mask]
             p4 == [expects |-> 0, offset |-> o, mask |-> pic.mask]
             p5 == [expects |-> 0, offset |-> o, mask |-> 255]
  <1>1. AfterWrite(pic, W("command", 17)) = p1
    BY DEF AfterWrite, W, PicState
  <1>2. AfterWrite(p1, W("data", o)) = p2
    BY DEF AfterWrite, W
  <1>3. AfterWrite(p2, W("data", x)) = p3
    BY DEF AfterWrite, W
  <1>4. AfterWrite(p3, W("data", 1)) = p4
    BY DEF AfterWrite, W
  <1>5. AfterWrite(p4, W("data", 255)) = p5
    BY DEF AfterWrite, W
  <1> DEFINE w == disable_pic(o, x)
  <1>6. /\ w[1] = W("command", 17) /\ w[2] = W("data", o) /\ w[3] = W("data", x)
        /\ w[4] = W("data", 1) /\ w[5] = W("data", 255)
    BY DEF disable_pic
  <1>7. AfterFive(pic, w) = p5
    <2> HIDE DEF w, p1, p2, p3, p4, p5
    <2> QED BY <1>1, <1>2, <1>3, <1>4, <1>5, <1>6 DEF AfterFive
  <1> HIDE DEF w
  <1>8. Quiet(AfterFive(pic, w))
    BY <1>7 DEF Quiet
  <1> QED BY <1>8 DEF w

-----------------------------------------------------------------------------

Early == {"acpi", "map", "scan", "reset", "idt", "lapic"}

\* What leaves the interrupt controllers alone.
ApicStill ==
    /\ UNCHANGED <<machine, pics, lapic, redir, IO_APIC_0, prog>>
    /\ \/ hw \in Early /\ hw' \in Early
       \/ InterruptsOn /\ InterruptsOn'
       \/ hw' = hw

LEMMA ApicFrame ==
    [Next]_vars => InitLocalApic \/ ProgramPin \/ EnableInterrupts \/ ApicStill
  <1> SUFFICES ASSUME [Next]_vars
               PROVE  InitLocalApic \/ ProgramPin \/ EnableInterrupts \/ ApicStill
    OBVIOUS
  <1> USE DEF ApicStill, apic_vars, Early, InterruptsOn
  <1>1. CASE AcpiNext /\ UNCHANGED <<pci_vars, apic_vars, nic, rx_vars, tx_vars, irq_vars>>
    BY <1>1 DEF AcpiNext, NoEcam, FirstPageMapped, StartMapping, MapFrame, MapFrameFails,
                RegionMapped, Returns
  <1>2. CASE PciNext /\ UNCHANGED <<apic_vars, nic, rx_vars, tx_vars, irq_vars>>
    BY <1>2 DEF PciNext, ScanAbsent, ScanPresent, ScanFaults, ScanDone
  <1>3. CASE ApicNext
    BY <1>3 DEF ApicNext, LoadIdt
  <1>4. CASE RtlBoot
    BY <1>4 DEF RtlBoot, NoNic, EnableNic, MapBarFails, MapBar, InitDone
  <1>5. CASE UNCHANGED boot_vars
    BY <1>5 DEF boot_vars
  <1>6. CASE transmit_packet \/ Handler
    BY <1>5, <1>6 DEF Handler, transmit_packet, HandleInterrupt, ReceiveGood, ReceiveBad,
                      ReceiveJunk, ReceiveNone, AckInterrupt
  <1>7. CASE Device
    BY <1>5, <1>7 DEF Device, DeviceSends, DeviceReceives
  <1>8. CASE UNCHANGED vars
    BY <1>5, <1>8 DEF vars
  <1> QED BY <1>1, <1>2, <1>3, <1>4, <1>6, <1>7, <1>8 DEF Next, Boot, Rest

\* The redirection tables are those of the machine, in shape and wiring.
RedirSound ==
    /\ DOMAIN redir = DOMAIN M.ioapics
    /\ \A a \in DOMAIN redir : redir[a] \in [Pins -> RedEntry]

\* Only the first I/O APIC is ever programmed, pin after pin.
ProgramSound ==
    /\ prog \in [a : Nat \ {0}, i : Pins]
    /\ IO_APIC_0 = IF prog.a = 1 /\ prog.i = 0 THEN 0 ELSE 1
    /\ \A a \in DOMAIN redir : a # 1 => \A i \in Pins : Masked(redir[a][i])
    /\ 1 \in DOMAIN redir =>
          \A i \in Pins : prog.a > 1 \/ i < prog.i =>
              Delivers(redir[1][i], Vector(i))

Silenced ==
    /\ \A k \in 1 .. 2 : Quiet(pics[k])
    /\ lapic.on /\ idt(lapic.lvt % 256) = <<"timer">>

\* What is set up when.
PhaseSound ==
    /\ hw \in Early \/ hw = "ioapic" \/ InterruptsOn
    /\ hw \in Early => pics = <<M.pic, M.pic>>
    /\ hw \notin Early => Silenced
    /\ InterruptsOn => prog.a > Len(M.ioapics)

ApicInv ==
    /\ machine \in DOMAIN Machines
    /\ RedirSound
    /\ WiringKept
    /\ ProgramSound
    /\ PhaseSound

LEMMA Chips ==
    ASSUME machine \in DOMAIN Machines
    PROVE  /\ Len(M.ioapics) \in Nat /\ DOMAIN M.ioapics = 1 .. Len(M.ioapics)
           /\ M.ioapics = <<>> <=> Len(M.ioapics) = 0
           /\ M.pic \in PicState
           /\ \A a \in DOMAIN M.ioapics :
                 /\ M.ioapics[a].entries \in [Pins -> RedEntry]
                 /\ \A i \in Pins : Masked(M.ioapics[a].entries[i])
  <1> DEFINE chips == M.ioapics
             T == [entries : [Pins -> RedEntry]]
  <1>1. /\ M.pic \in PicState
        /\ chips \in Seq(T)
        /\ \A a \in DOMAIN chips : \A i \in Pins : (chips[a].entries[i].low \div 2^16) % 2 = 1
    BY FirmwareAssumption DEF M, RedEntry, PicState
  <1> HIDE DEF chips
  <1>2. Len(chips) \in Nat /\ DOMAIN chips = 1 .. Len(chips) /\ (chips = <<>> <=> Len(chips) = 0)
    BY <1>1, EmptySeq, LenProperties
  <1>3. \A a \in DOMAIN chips : chips[a] \in T
    BY <1>1, <1>2, ElementOfSeq
  <1>4. \A a \in DOMAIN chips : chips[a].entries \in [Pins -> RedEntry]
    BY <1>3
  <1>5. \A a \in DOMAIN chips : \A i \in Pins : Masked(chips[a].entries[i])
    BY <1>1 DEF Masked, Bit
  <1> QED BY <1>1, <1>2, <1>4, <1>5 DEF chips

LEMMA ApicInvInit == Init => ApicInv
  <1> SUFFICES ASSUME Init PROVE ApicInv
    OBVIOUS
  <1>1. machine \in DOMAIN Machines /\ hw = "acpi"
    BY DEF Init, AcpiInit
  <1>2. /\ pics = <<M.pic, M.pic>> /\ IO_APIC_0 = 0 /\ prog = [a |-> 1, i |-> 0]
        /\ redir = [a \in DOMAIN M.ioapics |-> M.ioapics[a].entries]
    BY DEF Init, ApicInit
  <1>3. RedirSound
    BY <1>1, <1>2, Chips DEF RedirSound
  <1>4. WiringKept
    BY <1>2 DEF WiringKept
  <1>5. ProgramSound
    <2>1. \A a \in DOMAIN redir : \A i \in Pins : Masked(redir[a][i])
      BY <1>1, <1>2, Chips
    <2>2. \A i \in Pins : ~(prog.a > 1 \/ i < prog.i)
      BY <1>2 DEF Pins
    <2>3. prog \in [a : Nat \ {0}, i : Pins] /\ prog.a = 1 /\ prog.i = 0
      BY <1>2 DEF Pins
    <2>4. IO_APIC_0 = IF prog.a = 1 /\ prog.i = 0 THEN 0 ELSE 1
      BY <1>2, <2>3
    <2> HIDE <1>2
    <2> QED BY <2>1, <2>2, <2>3, <2>4 DEF ProgramSound
  <1>6. PhaseSound
    BY <1>1, <1>2 DEF PhaseSound, Early, InterruptsOn
  <1> QED BY <1>1, <1>3, <1>4, <1>5, <1>6 DEF ApicInv

LEMMA VectorRuns ==
    ASSUME NEW i \in Pins
    PROVE  Vector(i) \in 0 .. 255 /\ idt(Vector(i)) = <<"ioapic", i>>
  <1>1. Vector(i) \in 50 .. 73 /\ Vector(i) - 50 = i /\ Vector(i) \in 0 .. 255
    BY DEF Vector, Pins
  <1>2. Vector(i) # 48 /\ Vector(i) # 49 /\ Vector(i) # 128
    BY <1>1
  <1> HIDE DEF Vector
  <1>3. idt(Vector(i)) = <<"ioapic", Vector(i) - 50>>
    BY <1>1, <1>2 DEF idt
  <1> QED BY <1>1, <1>3

LEMMA ApicProgramPin == ApicInv /\ ProgramPin => ApicInv'
  <1> SUFFICES ASSUME ApicInv, ProgramPin PROVE ApicInv'
    OBVIOUS
  <1>1. /\ machine \in DOMAIN Machines /\ hw = "ioapic" /\ prog.a <= Len(M.ioapics)
        /\ UNCHANGED <<machine, hw, pics, lapic>> /\ M' = M
    BY DEF ApicInv, ProgramPin, Programming, M
  <1>2. prog \in [a : Nat \ {0}, i : Pins]
    BY DEF ApicInv, ProgramSound
  <1>3. IoApicInit(prog.a) = 1 /\ 1 \in DOMAIN redir
    <2>1. IoApicInit(prog.a) = 1
      BY <1>2 DEF ApicInv, ProgramSound, IoApicInit
    <2>2. DOMAIN redir = 1 .. Len(M.ioapics) /\ Len(M.ioapics) \in Nat
      BY <1>1, Chips DEF ApicInv, RedirSound
    <2> QED BY <1>1, <1>2, <2>1, <2>2
  <1> DEFINE pin == prog.i
             old == redir[1][pin]
             new == Programmed(old, Vector(pin))
  <1>4. pin \in Pins /\ old \in RedEntry /\ redir[1] \in [Pins -> RedEntry]
    BY <1>2, <1>3 DEF ApicInv, RedirSound
  <1>5. new \in RedEntry /\ Delivers(new, Vector(pin)) /\ Wiring(new) = Wiring(old)
    <2>1. Vector(pin) \in 0 .. 255
      BY <1>4, VectorRuns
    <2> QED BY <1>4, <2>1, Reprogrammed
  <1>6. redir' = [redir EXCEPT ![1][pin] = new] /\ IO_APIC_0' = 1
    BY <1>3 DEF ProgramPin
  <1>7. prog' = IF pin + 1 \in Pins THEN [prog EXCEPT !.i = pin + 1] ELSE [a |-> prog.a + 1, i |-> 0]
    BY DEF ProgramPin
  <1> HIDE DEF new, pin, old
  <1>8. /\ DOMAIN redir' = DOMAIN redir
        /\ \A a \in DOMAIN redir : a # 1 => redir'[a] = redir[a]
        /\ redir'[1] \in [Pins -> RedEntry]
        /\ redir'[1][pin] = new
        /\ \A i \in Pins : i # pin => redir'[1][i] = redir[1][i]
    BY <1>3, <1>4, <1>5, <1>6
  <1>9. RedirSound'
    <2>1. ASSUME NEW a \in DOMAIN redir PROVE redir'[a] \in [Pins -> RedEntry]
      <3>1. CASE a = 1
        BY <1>8, <3>1
      <3>2. CASE a # 1
        BY <1>8, <3>2 DEF ApicInv, RedirSound
      <3> QED BY <3>1, <3>2
    <2> QED BY <1>1, <1>8, <2>1 DEF ApicInv, RedirSound
  <1>10. WiringKept'
    <2>1. ASSUME NEW a \in DOMAIN redir, NEW i \in Pins
          PROVE  Wiring(redir'[a][i]) = Wiring(redir[a][i])
      <3>1. CASE a = 1 /\ i = pin
        BY <1>5, <1>8, <3>1 DEF old
      <3>2. CASE ~(a = 1 /\ i = pin)
        BY <1>8, <3>2
      <3> QED BY <3>1, <3>2
    <2> QED BY <1>1, <1>8, <2>1 DEF ApicInv, WiringKept
  <1>11. ProgramSound'
    <2>1. prog' \in [a : Nat \ {0}, i : Pins] /\ ~(prog'.a = 1 /\ prog'.i = 0)
      <3>1. CASE pin + 1 \in Pins
        <4>1. prog'.a = prog.a /\ prog'.i = pin + 1 /\ prog' \in [a : Nat \ {0}, i : Pins]
          BY <1>2, <1>7, <3>1
        <4>2. pin + 1 # 0
          BY <1>4 DEF Pins
        <4> QED BY <4>1, <4>2
      <3>2. CASE pin + 1 \notin Pins
        <4>1. prog' = [a |-> prog.a + 1, i |-> 0] /\ 0 \in Pins
          BY <1>7, <3>2 DEF Pins
        <4>2. prog.a + 1 \in Nat \ {0} /\ prog.a + 1 # 1
          BY <1>2
        <4> QED BY <4>1, <4>2
      <3> QED BY <3>1, <3>2
    <2>2. \A a \in DOMAIN redir' : a # 1 => \A i \in Pins : Masked(redir'[a][i])
      BY <1>8 DEF ApicInv, ProgramSound
    <2>3. ASSUME NEW i \in Pins, prog'.a > 1 \/ i < prog'.i
          PROVE  Delivers(redir'[1][i], Vector(i))
      <3>1. CASE i = pin
        BY <1>5, <1>8, <3>1
      <3>2. CASE i # pin
        <4>1. prog.a > 1 \/ i < pin
          <5>1. CASE pin + 1 \in Pins
            <6>1. prog'.a = prog.a /\ prog'.i = pin + 1
              BY <1>2, <1>7, <5>1
            <6> QED BY <1>4, <2>3, <3>2, <6>1 DEF Pins
          <5>2. CASE pin + 1 \notin Pins
            BY <1>4, <3>2, <5>2 DEF Pins
          <5> QED BY <5>1, <5>2
        <4>2. Delivers(redir[1][i], Vector(i))
          BY <1>3, <4>1 DEF ApicInv, ProgramSound, pin
        <4> QED BY <1>8, <3>2, <4>2
      <3> QED BY <3>1, <3>2
    <2>4. IO_APIC_0' = IF prog'.a = 1 /\ prog'.i = 0 THEN 0 ELSE 1
      BY <1>6, <2>1
    <2> QED BY <2>1, <2>2, <2>3, <2>4 DEF ProgramSound, Masked, Vector, Delivers
  <1>12. PhaseSound'
    <2>1. hw' = "ioapic" /\ "ioapic" \notin Early /\ ~InterruptsOn'
      BY <1>1 DEF Early, InterruptsOn
    <2>2. Silenced'
      <3>1. Silenced
        BY <1>1, <2>1 DEF ApicInv, PhaseSound
      <3> QED BY <1>1, <3>1 DEF Silenced
    <2> QED BY <2>1, <2>2 DEF PhaseSound, Early
  <1> QED BY <1>1, <1>9, <1>10, <1>11, <1>12 DEF ApicInv

LEMMA ApicInitLocal == ApicInv /\ InitLocalApic => ApicInv'
  <1> SUFFICES ASSUME ApicInv, InitLocalApic PROVE ApicInv'
    OBVIOUS
  <1>1. /\ machine \in DOMAIN Machines /\ hw = "lapic" /\ hw' = "ioapic"
        /\ UNCHANGED <<machine, redir, IO_APIC_0, prog>> /\ M' = M
    BY DEF ApicInv, InitLocalApic, M
  <1>2. pics = <<M.pic, M.pic>> /\ M.pic \in PicState
    BY <1>1, Chips DEF ApicInv, PhaseSound, Early
  <1>3. pics'[1] = AfterFive(M.pic, disable_pic(240, 4)) /\ pics'[2] = AfterFive(M.pic, disable_pic(248, 2))
    BY <1>2 DEF InitLocalApic
  <1>4. 240 \in 32 .. 255 /\ 4 \in 0 .. 255 /\ 248 \in 32 .. 255 /\ 2 \in 0 .. 255
    OBVIOUS
  <1>5. Quiet(pics'[1]) /\ Quiet(pics'[2])
    <2>1. \A o \in 32 .. 255 : \A x \in 0 .. 255 : Quiet(AfterFive(M.pic, disable_pic(o, x)))
      <3> DEFINE pic == M.pic
      <3>1. pic \in PicState
        BY <1>2
      <3> HIDE DEF pic
      <3>2. \A o \in 32 .. 255 : \A x \in 0 .. 255 : Quiet(AfterFive(pic, disable_pic(o, x)))
        BY <3>1, PicSilent
      <3> QED BY <3>2 DEF pic
    <2>2. Quiet(AfterFive(M.pic, disable_pic(240, 4)))
      BY <1>4, <2>1, ZenonT(60)
    <2>3. Quiet(AfterFive(M.pic, disable_pic(248, 2)))
      BY <1>4, <2>1, ZenonT(60)
    <2> QED BY <1>3, <2>2, <2>3, ZenonT(60)
  <1>6. lapic'.on /\ lapic'.lvt = 2^17 + 48
    BY DEF InitLocalApic
  <1>7. lapic'.lvt % 256 = 48
    <2>1. 2^17 = 131072
      OBVIOUS
    <2> QED BY <1>6, <2>1
  <1>8. idt(48) = <<"timer">>
    BY DEF idt
  <1>9. Silenced'
    <2>1. \A k \in 1 .. 2 : Quiet(pics'[k])
      BY <1>5
    <2> QED BY <1>6, <1>7, <1>8, <2>1 DEF Silenced, idt, Quiet
  <1>10. PhaseSound'
    BY <1>1, <1>9 DEF PhaseSound, Early, InterruptsOn
  <1> QED BY <1>1, <1>10 DEF ApicInv, RedirSound, WiringKept, ProgramSound

LEMMA ApicInvStep == ApicInv /\ [Next]_vars => ApicInv'
  <1> SUFFICES ASSUME ApicInv, [Next]_vars PROVE ApicInv'
    OBVIOUS
  <1>1. CASE EnableInterrupts
    <2>1. /\ UNCHANGED <<machine, pics, lapic, redir, IO_APIC_0, prog>> /\ M' = M
          /\ hw = "ioapic" /\ hw' = "net" /\ ~(prog.a <= Len(M.ioapics))
      BY <1>1 DEF EnableInterrupts, Programming, apic_vars, M
    <2>2. prog.a > Len(M.ioapics)
      <3>1. prog.a \in Nat /\ Len(M.ioapics) \in Nat
        BY Chips DEF ApicInv, ProgramSound
      <3> QED BY <2>1, <3>1
    <2>3. Silenced /\ (Silenced => Silenced')
      BY <2>1 DEF ApicInv, PhaseSound, Silenced, Early
    <2>4. PhaseSound'
      BY <2>1, <2>2, <2>3 DEF PhaseSound, Early, InterruptsOn
    <2> QED BY <2>1, <2>4 DEF ApicInv, RedirSound, WiringKept, ProgramSound
  <1>2. CASE ApicStill
    <2>1. UNCHANGED <<machine, pics, lapic, redir, IO_APIC_0, prog>> /\ M' = M
      BY <1>2 DEF ApicStill, M
    <2>2. Silenced => Silenced'
      BY <2>1 DEF Silenced
    <2>3. PhaseSound'
      BY <1>2, <2>1, <2>2 DEF ApicInv, PhaseSound, ApicStill, Early, InterruptsOn
    <2> QED BY <2>1, <2>3 DEF ApicInv, RedirSound, WiringKept, ProgramSound
  <1> QED BY <1>1, <1>2, ApicFrame, ApicProgramPin, ApicInitLocal

\* However often the pins are programmed, and although decoder and encoder
\* have every field after the delivery mode in the wrong place, the wiring the
\* firmware gave a pin survives.
THEOREM WiringSurvives == Spec => []WiringKept
  <1>1. ApicInv => WiringKept
    BY DEF ApicInv
  <1> QED BY <1>1, ApicInvInit, ApicInvStep, PTL DEF Spec

\* On every machine, whatever state the 8259s are found in and however many
\* I/O APICs there are, the handlers are reached as the IDT has them once
\* interrupts are on, and no two pins deliver the same vector.
THEOREM HandlersAreReached == Spec => []PinsReachTheirHandlers
  <1>1. ApicInv => PinsReachTheirHandlers
    <2> SUFFICES ASSUME ApicInv, InterruptsOn
                 PROVE  /\ Silenced
                        /\ M.ioapics # <<>> =>
                              \A i \in Pins :
                                  /\ ~Masked(redir[1][i])
                                  /\ idt(redir[1][i].low % 256) = <<"ioapic", i>>
                        /\ \A p, q \in Delivering :
                              redir[p[1]][p[2]].low % 256 = redir[q[1]][q[2]].low % 256 => p = q
      BY DEF PinsReachTheirHandlers, Silenced, Quiet
    <2>1. Silenced
      BY DEF ApicInv, PhaseSound, InterruptsOn, Early
    <2>2. /\ Len(M.ioapics) \in Nat /\ DOMAIN redir = 1 .. Len(M.ioapics)
          /\ M.ioapics = <<>> <=> Len(M.ioapics) = 0
      BY Chips DEF ApicInv, RedirSound
    <2>3. prog.a \in Nat /\ prog.a > Len(M.ioapics)
      BY DEF ApicInv, PhaseSound, ProgramSound
    <2>4. ASSUME 1 \in DOMAIN redir, NEW i \in Pins
          PROVE  redir[1][i].low \in Nat /\ redir[1][i].low < 65536 /\ redir[1][i].low % 256 = Vector(i)
      <3>1. prog.a > 1
        BY <2>2, <2>3, <2>4
      <3>2. redir[1][i] \in RedEntry
        BY <2>4 DEF ApicInv, RedirSound
      <3>3. redir[1][i].low \in Nat
        BY <3>2 DEF RedEntry
      <3>4. Delivers(redir[1][i], Vector(i))
        BY <2>4, <3>1 DEF ApicInv, ProgramSound
      <3> QED BY <3>3, <3>4 DEF Delivers
    <2>5. ASSUME M.ioapics # <<>>, NEW i \in Pins
          PROVE  ~Masked(redir[1][i]) /\ idt(redir[1][i].low % 256) = <<"ioapic", i>>
      <3>1. 1 \in DOMAIN redir
        BY <2>2, <2>5
      <3>2. (redir[1][i].low \div 65536) % 2 = 0
        BY <2>4, <3>1
      <3>3. ~Masked(redir[1][i])
        BY <3>2, Powers DEF Masked, Bit
      <3> QED BY <2>4, <3>1, <3>3, VectorRuns
    <2>6. ASSUME NEW p \in Delivering, NEW q \in Delivering,
                 redir[p[1]][p[2]].low % 256 = redir[q[1]][q[2]].low % 256
          PROVE  p = q
      <3>0. /\ p \in (DOMAIN redir) \X Pins /\ q \in (DOMAIN redir) \X Pins
            /\ ~Masked(redir[p[1]][p[2]]) /\ ~Masked(redir[q[1]][q[2]])
        BY DEF Delivering
      <3>1. p[1] = 1 /\ q[1] = 1 /\ p[2] \in Pins /\ q[2] \in Pins
        BY <3>0 DEF ApicInv, ProgramSound
      <3>2. Vector(p[2]) = Vector(q[2])
        BY <2>4, <2>6, <3>0, <3>1
      <3>3. p[2] = q[2]
        BY <3>1, <3>2 DEF Vector, Pins
      <3> QED BY <3>0, <3>1, <3>3
    <2> QED BY <2>1, <2>5, <2>6
  <1> QED BY <1>1, ApicInvInit, ApicInvStep, PTL DEF Spec

-----------------------------------------------------------------------------
(* The bus scan.                                                           *)

\* Function 0 of the slot of function n.
Slot(n) == (n \div Funcs) * Funcs

\* Arithmetic of slots.
LEMMA SlotOf ==
    ASSUME NEW n \in Nat
    PROVE  /\ Funcs \in Nat \ {0}
           /\ Slot(n) \in Nat /\ n % Funcs \in Nat
           /\ n = Slot(n) + (n % Funcs) /\ n % Funcs < Funcs
           /\ (n % Funcs = 0 <=> n = Slot(n))
           /\ NextSlot(n) = Slot(n) + Funcs
  <1>1. Funcs \in Nat \ {0}
    BY PciAssumption
  <1> DEFINE q == n \div Funcs
             r == n % Funcs
  <1>2. q \in Nat /\ r \in Nat /\ n = q * Funcs + r /\ r < Funcs
    BY <1>1
  <1>3. Slot(n) = q * Funcs /\ NextSlot(n) = (q + 1) * Funcs
    BY DEF Slot, NextSlot
  <1> HIDE DEF q, r
  <1>4. q * Funcs \in Nat /\ (q + 1) * Funcs = q * Funcs + Funcs
    BY <1>1, <1>2
  <1> QED BY <1>1, <1>2, <1>3, <1>4 DEF r

\* Numbers of one slot have the same function 0.
LEMMA SameSlot ==
    ASSUME NEW n \in Nat, NEW m \in Nat, Slot(n) <= m, m < Slot(n) + Funcs
    PROVE  Slot(m) = Slot(n)
  <1>1. Funcs \in Nat \ {0}
    BY PciAssumption
  <1> DEFINE q == n \div Funcs
             t == m \div Funcs
  <1>2. q \in Nat /\ t \in Nat /\ t * Funcs <= m /\ m < t * Funcs + Funcs
    BY <1>1
  <1>3. q * Funcs <= m /\ m < q * Funcs + Funcs
    BY DEF Slot
  <1>4. Slot(m) = t * Funcs /\ Slot(n) = q * Funcs
    BY DEF Slot
  <1> HIDE DEF q, t
  <1>5. CASE q < t
    <2>1. (q + 1) * Funcs <= t * Funcs
      BY <1>1, <1>2, <1>5
    <2>2. (q + 1) * Funcs = q * Funcs + Funcs /\ q * Funcs \in Nat /\ t * Funcs \in Nat
      BY <1>1, <1>2
    <2> QED BY <1>1, <1>2, <1>3, <2>1, <2>2
  <1>6. CASE t < q
    <2>1. (t + 1) * Funcs <= q * Funcs
      BY <1>1, <1>2, <1>6
    <2>2. (t + 1) * Funcs = t * Funcs + Funcs /\ q * Funcs \in Nat /\ t * Funcs \in Nat
      BY <1>1, <1>2
    <2> QED BY <1>1, <1>2, <1>3, <2>1, <2>2
  <1> QED BY <1>2, <1>4, <1>5, <1>6

\* The slots fill the buses.
LEMMA TotalSlots ==
    /\ Total \in Nat \ {0}
    /\ \A n \in Nat : n < Total => NextSlot(n) <= Total
  <1>1. Funcs \in Nat \ {0} /\ BusPages \in Nat \ {0} /\ LastBus \in Nat /\ BusPages % Funcs = 0
    BY PciAssumption, AcpiAssumption
  <1>2. PICK k \in Nat : BusPages = k * Funcs
    <2> DEFINE k == BusPages \div Funcs
    <2>1. k \in Nat /\ BusPages = k * Funcs
      BY <1>1
    <2> QED BY <2>1
  <1> DEFINE t == (LastBus + 1) * k
  <1>3. t \in Nat /\ Total = t * Funcs
    BY <1>1, <1>2 DEF Total
  <1>4. Total \in Nat \ {0}
    BY <1>1 DEF Total
  <1> HIDE DEF t
  <1>5. ASSUME NEW n \in Nat, n < Total PROVE NextSlot(n) <= Total
    <2> DEFINE q == n \div Funcs
    <2>1. q \in Nat /\ q * Funcs <= n /\ NextSlot(n) = (q + 1) * Funcs
      BY <1>1 DEF NextSlot
    <2> HIDE DEF q
    <2>2. q * Funcs < t * Funcs
      BY <1>1, <1>3, <1>5, <2>1
    <2>3. q < t
      BY <1>1, <1>3, <2>1, <2>2
    <2>4. (q + 1) * Funcs <= t * Funcs
      BY <1>1, <1>3, <2>1, <2>3
    <2> QED BY <1>3, <2>1, <2>4
  <1> QED BY <1>4, <1>5

LEMMA HiddenOf ==
    ASSUME NEW n \in Nat
    PROVE  Hidden(n) <=> n # Slot(n) /\ Slot(n) \in DOMAIN M.functions /\ ~Answer(Slot(n)).bit7
  BY DEF Hidden, Slot

\* A step of the scan by one goes to a function that is to be looked at, if
\* the one before it was and does not end its slot.
LEMMA OneOn ==
    ASSUME NEW n \in Nat, ~Hidden(n),
           n % Funcs = 0 => n \notin DOMAIN M.functions \/ Answer(n).bit7
    PROVE  ~Hidden(n + 1)
  <1> SUFFICES ASSUME n + 1 # Slot(n + 1), Slot(n + 1) \in DOMAIN M.functions,
                      ~Answer(Slot(n + 1)).bit7
               PROVE  FALSE
    BY HiddenOf
  <1>1. Slot(n + 1) = Slot(n)
    <2> DEFINE m == n + 1
    <2>1. m \in Nat /\ m # Slot(m)
      OBVIOUS
    <2>2. m = n + 1
      OBVIOUS
    <2> HIDE DEF m
    <2>3. /\ Funcs \in Nat /\ Slot(m) \in Nat /\ m % Funcs \in Nat
          /\ m = Slot(m) + (m % Funcs) /\ m % Funcs < Funcs
      BY <2>1, SlotOf
    <2>4. Slot(m) <= n /\ n < Slot(m) + Funcs
      BY <2>1, <2>2, <2>3
    <2> QED BY <2>1, <2>2, <2>4, SameSlot
  <1>2. n = Slot(n)
    BY <1>1, HiddenOf
  <1> QED BY <1>1, <1>2, SlotOf

\* The rest of a slot is passed over as a whole.
LEMMA SlotOn ==
    ASSUME NEW n \in Nat, n % Funcs = 0, n \in DOMAIN M.functions, ~Answer(n).bit7
    PROVE  /\ NextSlot(n) \in Nat /\ n < NextSlot(n)
           /\ ~Hidden(NextSlot(n))
           /\ \A m \in Nat : n < m /\ m < NextSlot(n) => Hidden(m)
  <1>1. /\ Funcs \in Nat \ {0} /\ n = Slot(n) /\ NextSlot(n) = n + Funcs
    BY SlotOf
  <1>2. NextSlot(n) = Slot(NextSlot(n))
    <2> DEFINE q == n \div Funcs
    <2>1. q \in Nat /\ NextSlot(n) = (q + 1) * Funcs
      BY <1>1 DEF NextSlot
    <2>2. ((q + 1) * Funcs) \div Funcs = q + 1
      BY <1>1, <2>1
    <2> QED BY <2>1, <2>2 DEF Slot
  <1>3. ASSUME NEW m \in Nat, n < m, m < NextSlot(n) PROVE Hidden(m)
    <2>1. Slot(m) = n
      BY <1>1, <1>3, SameSlot
    <2> QED BY <1>3, <2>1, HiddenOf
  <1> QED BY <1>1, <1>2, <1>3, HiddenOf

Records == [fn : DOMAIN M.functions, id : {Answer(n).id : n \in DOMAIN M.functions}]

\* What the scan has found when it is at function n.
Found ==
    /\ at \in 0 .. Total
    /\ devs \in Seq(Records)
    /\ \A i \in DOMAIN devs :
          /\ devs[i].fn < at /\ ~Hidden(devs[i].fn)
          /\ devs[i].id = Answer(devs[i].fn).id
    /\ \A i, j \in DOMAIN devs : i < j => devs[i].fn < devs[j].fn
    /\ \A n \in DOMAIN M.functions :
          n < at /\ ~Hidden(n) => \E i \in DOMAIN devs : devs[i].fn = n
    /\ ~Hidden(at)

\* The functions of a machine.
LEMMA MachineFunctions ==
    ASSUME machine \in DOMAIN Machines
    PROVE  /\ M.window.base \in Nat \ {0}
           /\ DOMAIN M.functions \subseteq 0 .. (Total - 1) /\ DOMAIN M.functions \subseteq Nat
           /\ \A n \in DOMAIN M.functions : Answer(n) # Absent
           /\ \A n : n \notin DOMAIN M.functions => Answer(n) = Absent
           /\ \A r \in Records : r.fn \in DOMAIN M.functions
  <1>1. /\ M.window.base \in Nat \ {0}
        /\ DOMAIN M.functions \subseteq 0 .. (Total - 1)
        /\ \A n \in DOMAIN M.functions : Answer(n) # Absent
        /\ \A n : n \notin DOMAIN M.functions => Answer(n) = Absent
    BY FunctionsAssumption DEF M, Answer
  <1>2. DOMAIN M.functions \subseteq Nat
    BY <1>1, TotalSlots
  <1>3. \A r \in Records : r.fn \in DOMAIN M.functions
    BY DEF Records
  <1> QED BY <1>1, <1>2, <1>3

LEMMA SameMachine ==
    ASSUME machine' = machine
    PROVE  /\ M' = M
           /\ Records' = Records
           /\ \A n : Hidden(n)' = Hidden(n) /\ Answer(n)' = Answer(n)
           /\ WholeRegion' <=> WholeRegion
  <1>1. M' = M
    BY DEF M
  <1>2. \A n : Answer(n)' = Answer(n)
    BY <1>1 DEF Answer
  <1>3. \A n : Hidden(n)' = Hidden(n)
    BY <1>1, <1>2 DEF Hidden
  <1>4. Candidates' = Candidates
    BY <1>1 DEF Candidates
  <1>5. Records' = Records
    BY <1>1, <1>2 DEF Records
  <1> QED BY <1>1, <1>2, <1>3, <1>4, <1>5 DEF WholeRegion

LEMMA FoundAbsent ==
    ASSUME machine \in DOMAIN Machines, Found, at < Total, Answer(at) = Absent,
           machine' = machine, at' = at + 1, devs' = devs
    PROVE  Found'
  <1>1. at \in Nat /\ Total \in Nat /\ at \notin DOMAIN M.functions
    BY TotalSlots, MachineFunctions DEF Found
  <1>2. ~Hidden(at + 1)
    BY <1>1, OneOn DEF Found
  <1>3. DOMAIN M.functions \subseteq Nat
    BY MachineFunctions
  <1>4. \A i \in DOMAIN devs : devs[i].fn \in Nat
    <2>1. \A i \in DOMAIN devs : devs[i] \in Records
      BY DEF Found
    <2> QED BY <1>3, <2>1, MachineFunctions
  <1>5. at + 1 \in 0 .. Total /\ \A n \in Nat : (n < at + 1 <=> n < at \/ n = at)
    BY <1>1
  <1>6. \A i \in DOMAIN devs : devs[i].fn < at + 1
    BY <1>4, <1>5 DEF Found
  <1>7. \A n \in DOMAIN M.functions : n < at + 1 => n < at
    BY <1>1, <1>3, <1>5
  <1>8. ~Hidden(at)'
    BY <1>2, SameMachine DEF Hidden, Answer, M
  <1>9. \A i \in DOMAIN devs' :
          /\ devs'[i].fn < at' /\ ~Hidden(devs[i].fn)'
          /\ devs'[i].id = Answer(devs[i].fn)'.id
    BY <1>6, SameMachine DEF Found, Hidden, Answer, M
  <1>10. \A n \in DOMAIN M.functions :
          n < at' /\ ~Hidden(n)' => \E i \in DOMAIN devs' : devs'[i].fn = n
    BY <1>7, SameMachine DEF Found
  <1>11. at' \in 0 .. Total /\ devs' \in Seq(Records')
    BY <1>5, SameMachine DEF Found
  <1> QED BY <1>8, <1>9, <1>10, <1>11, SameMachine DEF Found

LEMMA FoundPresent ==
    ASSUME machine \in DOMAIN Machines, Found, at < Total, Answer(at) # Absent,
           machine' = machine, devs' = Append(devs, [fn |-> at, id |-> Answer(at).id]),
           at' = IF at % Funcs = 0 /\ ~Answer(at).bit7 THEN NextSlot(at) ELSE at + 1
    PROVE  Found'
  <1>1. at \in Nat /\ Total \in Nat /\ at \in DOMAIN M.functions
    BY TotalSlots, MachineFunctions DEF Found
  <1>2. /\ at' \in Nat /\ at < at' /\ at' <= Total
        /\ ~Hidden(at')
        /\ \A m \in Nat : at < m /\ m < at' => Hidden(m)
    <2>1. CASE at % Funcs = 0 /\ ~Answer(at).bit7
      <3>1. at' = NextSlot(at)
        BY <2>1
      <3>2. NextSlot(at) <= Total
        BY <1>1, TotalSlots
      <3> QED BY <1>1, <2>1, <3>1, <3>2, SlotOn
    <2>2. CASE ~(at % Funcs = 0 /\ ~Answer(at).bit7)
      <3>1. at' = at + 1
        BY <2>2
      <3>2. ~Hidden(at + 1)
        BY <1>1, <2>2, OneOn DEF Found
      <3>3. at + 1 \in Nat /\ at < at + 1 /\ at + 1 <= Total /\ \A m \in Nat : ~(at < m /\ m < at + 1)
        BY <1>1
      <3> QED BY <3>1, <3>2, <3>3
    <2> QED BY <2>1, <2>2
  <1> DEFINE new == [fn |-> at, id |-> Answer(at).id]
             last == Len(devs) + 1
  <1>3. new \in Records /\ new.fn = at /\ new.id = Answer(at).id
    BY <1>1 DEF Records
  <1>4. /\ devs' \in Seq(Records) /\ last \in DOMAIN devs' /\ devs'[last] = new
        /\ \A i \in DOMAIN devs' : i = last \/ i \in DOMAIN devs
        /\ \A i \in DOMAIN devs : i \in DOMAIN devs' /\ devs'[i] = devs[i] /\ i < last /\ i \in Nat
        /\ last \in Nat
    <2> HIDE DEF new
    <2>1. devs \in Seq(Records) /\ devs' = Append(devs, new)
      BY DEF Found, new
    <2> QED BY <1>3, <2>1
  <1>5. \A i \in DOMAIN devs : devs[i].fn \in Nat /\ devs[i].fn < at /\ devs[i].fn < at'
    <2>1. \A i \in DOMAIN devs : devs[i] \in Records
      BY DEF Found
    <2>2. \A i \in DOMAIN devs : devs[i].fn \in Nat /\ devs[i].fn < at
      BY <2>1, MachineFunctions DEF Found
    <2> QED BY <1>1, <1>2, <2>2
  <1> HIDE DEF new, last
  <1>6. ASSUME NEW i \in DOMAIN devs'
        PROVE  devs'[i].fn < at' /\ ~Hidden(devs'[i].fn) /\ devs'[i].id = Answer(devs'[i].fn).id
    <2>1. CASE i = last
      BY <1>2, <1>3, <1>4, <2>1 DEF Found
    <2>2. CASE i \in DOMAIN devs
      BY <1>4, <1>5, <2>2 DEF Found
    <2> QED BY <1>4, <2>1, <2>2
  <1>7. ASSUME NEW i \in DOMAIN devs', NEW j \in DOMAIN devs', i < j
        PROVE  devs'[i].fn < devs'[j].fn
    <2>1. i \in DOMAIN devs
      BY <1>4, <1>7
    <2>2. CASE j = last
      BY <1>3, <1>4, <1>5, <2>1, <2>2
    <2>3. CASE j \in DOMAIN devs
      BY <1>4, <1>7, <2>1, <2>3 DEF Found
    <2> QED BY <1>4, <2>2, <2>3
  <1>8. ASSUME NEW n \in DOMAIN M.functions, n < at', ~Hidden(n)
        PROVE  \E i \in DOMAIN devs' : devs'[i].fn = n
    <2>1. n \in Nat
      BY MachineFunctions
    <2>2. CASE n = at
      BY <1>3, <1>4, <2>2
    <2>3. CASE n < at
      BY <1>4, <1>8, <2>3 DEF Found
    <2> QED BY <1>1, <1>2, <1>8, <2>1, <2>2, <2>3
  <1>9. at' \in 0 .. Total
    BY <1>1, <1>2
  <1>10. /\ \A i \in DOMAIN devs' :
              /\ devs'[i].fn < at' /\ ~Hidden(devs[i].fn)'
              /\ devs'[i].id = Answer(devs[i].fn)'.id
         /\ ~Hidden(at)'
    <2>1. M' = M
      BY SameMachine
    <2> QED BY <1>2, <1>6, <2>1 DEF Hidden, Answer
  <1>11. \A n \in DOMAIN M.functions :
          n < at' /\ ~Hidden(n)' => \E i \in DOMAIN devs' : devs'[i].fn = n
    BY <1>8, SameMachine
  <1> QED BY <1>4, <1>7, <1>9, <1>10, <1>11, SameMachine DEF Found

\* Where the region of ECAM is published, all of it is mapped to itself.
Published ==
    \/ ECAM_BASE = 0
    \/ /\ ECAM_BASE = M.window.base /\ M.window.start = 0 /\ M.window.end = LastBus
       /\ \A j \in 0 .. (Total - 1) :
             M.window.base + j \in DOMAIN pages /\ pages[M.window.base + j] = M.window.base + j

\* Then the configuration space of each function is its own, either way.
LEMMA ReadsRight ==
    ASSUME machine \in DOMAIN Machines, Published, NEW n \in 0 .. (Total - 1)
    PROVE  read_config(n) = {Answer(n)}
  <1>1. CASE ECAM_BASE = 0
    BY <1>1 DEF read_config
  <1>2. CASE ECAM_BASE # 0
    <2> DEFINE w == M.window.base
    <2>1. w \in Nat \ {0} /\ Total \in Nat \ {0} /\ n \in Nat /\ n < Total
      BY MachineFunctions, TotalSlots
    <2>2. ECAM_BASE = w /\ w + n \in DOMAIN pages /\ pages[w + n] = w + n
      BY <1>2 DEF Published
    <2>3. M.window.start = 0 /\ M.window.end = LastBus
      BY <1>2 DEF Published
    <2>4. M.window.start * BusPages = 0 /\ (M.window.end + 1) * BusPages = Total
      BY <2>3, AcpiAssumption DEF Total
    <2>5. Decoded(w + n)
      BY <2>1, <2>4 DEF Decoded
    <2>6. (w + n) - M.window.base = n
      BY <2>1
    <2> QED BY <1>2, <2>2, <2>5, <2>6 DEF read_config
  <1> QED BY <1>1, <1>2

\* The region, as far as it is mapped.
Mapping ==
    /\ ecam \in [base : Nat, n : Nat, i : Nat]
    /\ ecam.base = M.window.base /\ ecam.n = Total /\ ecam.i <= Total
    /\ M.window.start = 0 /\ M.window.end = LastBus
    /\ \A j \in 0 .. (ecam.i - 1) :
          M.window.base + j \in DOMAIN pages /\ pages[M.window.base + j] = M.window.base + j

BeforeScan == {"acpi", "map", "scan", "reset"}

ScanPhases ==
    /\ hw # "reset"
    /\ hw = "acpi" => pages = [p \in M.physical |-> M.behind[p]]
    /\ hw = "map" => Mapping
    /\ hw \in {"acpi", "map"} => at = 0 /\ devs = <<>>
    /\ hw = "scan" => Published /\ Found
    /\ hw \notin BeforeScan => Found /\ at = Total

ScanInv == machine \in DOMAIN Machines /\ (WholeRegion => ScanPhases)

\* Nothing but the first steps of the boot touches what the scan has found.
ScanStill ==
    /\ UNCHANGED <<machine, at, devs>>
    /\ \/ UNCHANGED <<hw, acpi_vars>>
       \/ hw \notin BeforeScan /\ hw' \notin BeforeScan

LEMMA ScanFrame == [Next]_vars => (AcpiNext /\ UNCHANGED pci_vars) \/ PciNext \/ ScanStill
  <1> SUFFICES ASSUME [Next]_vars
               PROVE  (AcpiNext /\ UNCHANGED pci_vars) \/ PciNext \/ ScanStill
    OBVIOUS
  <1>1. CASE ApicNext
    BY <1>1 DEF ApicNext, LoadIdt, InitLocalApic, ProgramPin, Programming, EnableInterrupts,
                ScanStill, BeforeScan, acpi_vars, pci_vars
  <1>2. CASE RtlBoot
    <2>1. CASE NoNic
      BY <2>1 DEF NoNic, ScanStill, BeforeScan, acpi_vars, pci_vars
    <2>2. CASE EnableNic
      BY <2>2 DEF EnableNic, ScanStill, BeforeScan
    <2>3. CASE MapBarFails
      BY <2>3 DEF MapBarFails, ScanStill, BeforeScan, acpi_vars, pci_vars
    <2>4. CASE MapBar
      BY <2>4 DEF MapBar, ScanStill, BeforeScan, pci_vars
    <2>5. CASE InitDone
      BY <2>5 DEF InitDone, ScanStill, BeforeScan, acpi_vars, pci_vars
    <2> QED BY <1>2, <2>1, <2>2, <2>3, <2>4, <2>5 DEF RtlBoot
  <1>3. CASE transmit_packet \/ Handler
    BY <1>3 DEF Handler, transmit_packet, HandleInterrupt, ReceiveGood, ReceiveBad, ReceiveJunk,
                ReceiveNone, AckInterrupt, boot_vars, ScanStill, acpi_vars, pci_vars
  <1>4. CASE Device
    BY <1>4 DEF Device, DeviceSends, DeviceReceives, boot_vars, ScanStill, acpi_vars, pci_vars
  <1>5. CASE UNCHANGED vars
    BY <1>5 DEF vars, boot_vars, ScanStill, acpi_vars, pci_vars
  <1> QED BY <1>1, <1>2, <1>3, <1>4, <1>5 DEF Next, Boot, Rest

LEMMA FoundNothing ==
    ASSUME machine \in DOMAIN Machines, at = 0, devs = <<>>
    PROVE  Found
  <1>1. 0 \in 0 .. Total /\ \A n \in Nat : ~(n < 0)
    BY TotalSlots
  <1>2. ~Hidden(0)
    <2>1. 0 \div Funcs = 0
      BY PciAssumption
    <2> QED BY <2>1, PciAssumption DEF Hidden
  <1>3. devs \in Seq(Records) /\ DOMAIN devs = {}
    OBVIOUS
  <1>4. \A n \in DOMAIN M.functions : ~(n < 0)
    BY <1>1, MachineFunctions
  <1> QED BY <1>1, <1>2, <1>3, <1>4 DEF Found

LEMMA ScanInvInit == Init => ScanInv
  <1> SUFFICES ASSUME Init PROVE ScanInv
    OBVIOUS
  <1>1. /\ machine \in DOMAIN Machines /\ hw = "acpi" /\ at = 0 /\ devs = <<>>
        /\ pages = [p \in M.physical |-> M.behind[p]]
    BY DEF Init, AcpiInit, PciInit
  <1> QED BY <1>1 DEF ScanInv, ScanPhases, BeforeScan

\* What WholeRegion says of the entry that is used.
LEMMA RegionUsed ==
    ASSUME machine \in DOMAIN Machines, WholeRegion, Candidates # <<>>
    PROVE  LET w == M.window.base IN
           /\ Head(Candidates) = M.window
           /\ M.window.start = 0 /\ M.window.end = LastBus
           /\ bus_count(M.window) * BusPages = Total
           /\ w \in M.physical /\ M.behind[w] = w =>
                 \A j \in 0 .. (Total - 1) : w + j \in M.physical /\ M.behind[w + j] = w + j
  <1> DEFINE w == M.window.base
             region == w .. (w + Total - 1)
  <1>1. /\ Head(Candidates) = M.window
        /\ M.window.start = 0 /\ M.window.end = LastBus
        /\ \/ region \cap M.physical = {}
           \/ region \subseteq M.physical /\ M.behind[w] # w
           \/ \A p \in region : p \in M.physical /\ M.behind[p] = p
    BY DEF WholeRegion
  <1>2. w \in Nat /\ Total \in Nat \ {0}
    BY MachineFunctions, TotalSlots
  <1>3. w \in region /\ \A j \in 0 .. (Total - 1) : w + j \in region
    BY <1>2
  <1>4. bus_count(M.window) * BusPages = Total
    <2>1. bus_count(M.window) = LastBus + 1
      BY <1>1, AcpiAssumption DEF bus_count
    <2> QED BY <2>1 DEF Total
  <1> HIDE DEF region
  <1> QED BY <1>1, <1>3, <1>4

LEMMA ScanAcpi == ScanInv /\ AcpiNext /\ UNCHANGED pci_vars => ScanInv'
  <1> SUFFICES ASSUME ScanInv, AcpiNext, UNCHANGED pci_vars PROVE ScanInv'
    OBVIOUS
  <1>0. machine' = machine
    BY DEF AcpiNext, NoEcam, FirstPageMapped, StartMapping, MapFrame, MapFrameFails, RegionMapped,
           Returns
  <1> SUFFICES ASSUME WholeRegion PROVE ScanPhases'
    BY <1>0, SameMachine DEF ScanInv
  <1>1. machine \in DOMAIN Machines /\ ScanPhases
    BY DEF ScanInv
  <1>2. machine' = machine /\ M' = M /\ at' = at /\ devs' = devs
    BY <1>0, SameMachine DEF pci_vars
  <1>3. at = 0 /\ devs = <<>>
    BY <1>1 DEF ScanPhases, AcpiNext, NoEcam, FirstPageMapped, StartMapping, MapFrame, MapFrameFails,
                RegionMapped
  <1>4. ASSUME hw' = "scan", Published' PROVE ScanPhases'
    <2>1. Found'
      <3>1. Found
        BY <1>1, <1>3, FoundNothing
      <3> QED BY <1>2, <3>1, SameMachine DEF Found, Hidden, Answer
    <2> QED BY <1>4, <2>1 DEF ScanPhases, BeforeScan
  <1>5. CASE NoEcam
    BY <1>2, <1>4, <1>5 DEF NoEcam, Returns, Published
  <1>6. CASE MapFrameFails
    BY <1>2, <1>4, <1>6 DEF MapFrameFails, Returns, Published
  <1> DEFINE w == M.window.base
  <1>7. CASE FirstPageMapped
    <2>1. Head(Candidates) = M.window /\ hw = "acpi" /\ pages' = pages
      BY <1>1, <1>7, RegionUsed DEF FirstPageMapped
    <2>2. pages = [p \in M.physical |-> M.behind[p]]
      BY <1>1, <2>1 DEF ScanPhases
    <2>3. CASE pages[w] = w
      <3>1. w \in M.physical /\ M.behind[w] = w
        BY <1>7, <2>1, <2>2, <2>3 DEF FirstPageMapped
      <3>2. \A j \in 0 .. (Total - 1) : w + j \in DOMAIN pages /\ pages[w + j] = w + j
        BY <1>1, <1>7, <2>2, <3>1, RegionUsed DEF FirstPageMapped
      <3>3. hw' = "scan" /\ ECAM_BASE' = w
        BY <1>7, <2>1, <2>3 DEF FirstPageMapped, Returns
      <3>4. M.window.start = 0 /\ M.window.end = LastBus
        BY <1>1, <1>7, RegionUsed DEF FirstPageMapped
      <3> QED BY <1>2, <1>4, <2>1, <3>2, <3>3, <3>4 DEF Published
    <2>4. CASE pages[w] # w
      BY <1>2, <1>4, <1>7, <2>1, <2>4 DEF FirstPageMapped, Returns, Published
    <2> QED BY <2>3, <2>4
  <1>8. CASE StartMapping
    <2>1. /\ Head(Candidates) = M.window /\ bus_count(M.window) * BusPages = Total
          /\ M.window.start = 0 /\ M.window.end = LastBus
      BY <1>1, <1>8, RegionUsed DEF StartMapping
    <2>2. hw' = "map" /\ ecam' = [base |-> w, n |-> Total, i |-> 0]
      BY <1>8, <2>1 DEF StartMapping
    <2>3. w \in Nat /\ Total \in Nat
      BY <1>1, MachineFunctions, TotalSlots
    <2>4. Mapping'
      <3> HIDE DEF w
      <3>1. /\ ecam' \in [base : Nat, n : Nat, i : Nat]
            /\ ecam'.base = w /\ ecam'.n = Total /\ ecam'.i = 0
        BY <2>2, <2>3
      <3>2. 0 .. (ecam'.i - 1) = {} /\ ecam'.i <= Total
        BY <2>3, <3>1
      <3> QED BY <1>2, <2>1, <3>1, <3>2 DEF Mapping, w
    <2> QED BY <1>2, <1>3, <2>2, <2>4 DEF ScanPhases, BeforeScan
  <1>9. CASE MapFrame
    <2>1. hw = "map" /\ hw' = "map" /\ Mapping
      BY <1>1, <1>9 DEF MapFrame, ScanPhases
    <2>2. /\ w \in Nat /\ Total \in Nat /\ ecam.base = w /\ ecam.n = Total /\ ecam.i \in Nat
          /\ ecam.i < Total
      BY <1>1, <1>9, <2>1, MachineFunctions, TotalSlots DEF MapFrame, Mapping
    <2>3. /\ pages' = WithPage(w + ecam.i) /\ w + ecam.i \notin DOMAIN pages
          /\ ecam' = [ecam EXCEPT !.i = ecam.i + 1]
      BY <1>9, <2>2 DEF MapFrame
    <2>4. /\ ecam' \in [base : Nat, n : Nat, i : Nat]
          /\ ecam'.base = w /\ ecam'.n = Total /\ ecam'.i = ecam.i + 1
      BY <2>1, <2>2, <2>3 DEF Mapping
    <2>5. ASSUME NEW j \in 0 .. (ecam'.i - 1)
          PROVE  w + j \in DOMAIN pages' /\ pages'[w + j] = w + j
      <3>1. CASE j = ecam.i
        BY <2>3, <3>1 DEF WithPage
      <3>2. CASE j # ecam.i
        <4>1. j \in 0 .. (ecam.i - 1)
          BY <2>2, <2>4, <3>2
        <4>2. w + j \in DOMAIN pages /\ pages[w + j] = w + j
          BY <2>1, <4>1 DEF Mapping
        <4> QED BY <2>3, <4>2 DEF WithPage
      <3> QED BY <3>1, <3>2
    <2>6. ecam'.i <= Total
      BY <2>2, <2>4
    <2>7. Mapping'
      BY <1>2, <2>1, <2>4, <2>5, <2>6 DEF Mapping
    <2> QED BY <1>2, <1>3, <2>1, <2>7 DEF ScanPhases, BeforeScan
  <1>10. CASE RegionMapped
    <2>1. hw' = "scan" /\ Mapping /\ pages' = pages /\ ecam.i = ecam.n /\ ECAM_BASE' = ecam.base
      BY <1>1, <1>10 DEF RegionMapped, Returns, ScanPhases
    <2>2. Published'
      BY <1>2, <2>1 DEF Mapping, Published
    <2> QED BY <1>4, <2>1, <2>2
  <1> QED BY <1>2, <1>5, <1>6, <1>7, <1>8, <1>9, <1>10 DEF AcpiNext

LEMMA ScanPci == ScanInv /\ PciNext => ScanInv'
  <1> SUFFICES ASSUME ScanInv, PciNext PROVE ScanInv'
    OBVIOUS
  <1>0. machine' = machine
    BY DEF PciNext, ScanAbsent, ScanPresent, ScanFaults, ScanDone
  <1> SUFFICES ASSUME WholeRegion PROVE ScanPhases'
    BY <1>0, SameMachine DEF ScanInv
  <1>1. machine \in DOMAIN Machines /\ hw = "scan" /\ Published /\ Found
    BY DEF ScanInv, ScanPhases, PciNext, ScanAbsent, ScanPresent, ScanFaults, ScanDone
  <1>2. machine' = machine /\ M' = M /\ UNCHANGED acpi_vars
    BY SameMachine DEF PciNext, ScanAbsent, ScanPresent, ScanFaults, ScanDone
  <1>3. Published'
    BY <1>1, <1>2 DEF Published, acpi_vars
  <1>4. at < Total => read_config(at) = {Answer(at)}
    <2>1. at \in 0 .. Total /\ Total \in Nat
      BY <1>1, TotalSlots DEF Found
    <2>2. at < Total => at \in 0 .. (Total - 1)
      BY <2>1
    <2> QED BY <1>1, <2>2, ReadsRight
  <1>5. CASE ScanAbsent
    <2>1. at < Total /\ Answer(at) = Absent /\ at' = at + 1 /\ devs' = devs /\ hw' = "scan"
      BY <1>1, <1>4, <1>5 DEF ScanAbsent
    <2>2. Found'
      BY <1>1, <1>2, <2>1, FoundAbsent
    <2> QED BY <1>2, <1>3, <2>1, <2>2 DEF ScanPhases, BeforeScan
  <1>6. CASE ScanPresent
    <2>1. /\ at < Total /\ Answer(at) # Absent /\ hw' = "scan"
          /\ devs' = Append(devs, [fn |-> at, id |-> Answer(at).id])
          /\ at' = IF at % Funcs = 0 /\ ~Answer(at).bit7 THEN NextSlot(at) ELSE at + 1
      BY <1>1, <1>4, <1>6 DEF ScanPresent
    <2>2. Found'
      BY <1>1, <1>2, <2>1, FoundPresent
    <2> QED BY <1>2, <1>3, <2>1, <2>2 DEF ScanPhases, BeforeScan
  <1>7. CASE ScanFaults
    BY <1>4, <1>7 DEF ScanFaults
  <1>8. CASE ScanDone
    <2>1. at = Total /\ hw' = "idt" /\ at' = at /\ devs' = devs
      BY <1>8 DEF ScanDone, pci_vars
    <2>2. Found'
      BY <1>1, <1>2, <2>1, SameMachine DEF Found, Hidden, Answer
    <2> QED BY <1>2, <2>1, <2>2 DEF ScanPhases, BeforeScan
  <1> QED BY <1>2, <1>5, <1>6, <1>7, <1>8 DEF PciNext

LEMMA ScanInvStep == ScanInv /\ [Next]_vars => ScanInv'
  <1> SUFFICES ASSUME ScanInv, ScanStill PROVE ScanInv'
    BY ScanFrame, ScanAcpi, ScanPci
  <1>1. machine' = machine /\ at' = at /\ devs' = devs /\ M' = M /\ (WholeRegion' <=> WholeRegion)
    BY SameMachine DEF ScanStill
  <1> SUFFICES ASSUME WholeRegion PROVE ScanPhases'
    BY <1>1 DEF ScanInv
  <1>2. ScanPhases
    BY DEF ScanInv
  <1>3. Found => Found'
    BY <1>1, SameMachine DEF Found, Hidden, Answer
  <1>4. CASE UNCHANGED <<hw, acpi_vars>>
    <2>1. (Published => Published') /\ (Mapping => Mapping')
      BY <1>1, <1>4 DEF Published, Mapping, acpi_vars
    <2> QED BY <1>1, <1>2, <1>3, <1>4, <2>1 DEF ScanPhases, acpi_vars
  <1>5. CASE hw \notin BeforeScan /\ hw' \notin BeforeScan
    BY <1>1, <1>2, <1>3, <1>5 DEF ScanPhases, BeforeScan
  <1> QED BY <1>4, <1>5 DEF ScanStill

\* On every machine whose firmware describes its buses as they are, the scan
\* ends and has found each function that is not hidden, once and in order,
\* through the ECAM region or, when that could not be mapped, through the
\* ports.
THEOREM ScanFindsFunctions == Spec => []ScanSound
  <1>1. ScanInv => ScanSound
    <2> SUFFICES ASSUME ScanInv, WholeRegion PROVE ScanSound
      BY DEF ScanSound
    <2>1. machine \in DOMAIN Machines /\ ScanPhases
      BY DEF ScanInv
    <2>2. hw # "reset"
      BY <2>1 DEF ScanPhases
    <2> SUFFICES ASSUME hw \notin {"acpi", "map", "scan"}
                 PROVE  /\ \A i, j \in DOMAIN devs : i < j => devs[i].fn < devs[j].fn
                        /\ {devs[i].fn : i \in DOMAIN devs} =
                              {n \in DOMAIN M.functions : ~Hidden(n)}
                        /\ \A i \in DOMAIN devs : devs[i].id = Answer(devs[i].fn).id
      BY <2>2 DEF ScanSound
    <2>3. Found /\ at = Total
      BY <2>1, <2>2 DEF ScanPhases, BeforeScan
    <2>4. \A i \in DOMAIN devs : devs[i].fn \in DOMAIN M.functions /\ ~Hidden(devs[i].fn)
      <3>1. \A i \in DOMAIN devs : devs[i] \in Records
        BY <2>3 DEF Found
      <3> QED BY <2>1, <2>3, <3>1, MachineFunctions DEF Found
    <2>5. ASSUME NEW n \in DOMAIN M.functions, ~Hidden(n)
          PROVE  \E i \in DOMAIN devs : devs[i].fn = n
      <3>1. n < Total
        <4>1. n \in 0 .. (Total - 1) /\ Total \in Nat
          BY <2>1, MachineFunctions, TotalSlots
        <4> QED BY <4>1
      <3> QED BY <2>3, <2>5, <3>1 DEF Found
    <2>6. {devs[i].fn : i \in DOMAIN devs} = {n \in DOMAIN M.functions : ~Hidden(n)}
      BY <2>4, <2>5
    <2> QED BY <2>3, <2>6 DEF Found
  <1> QED BY <1>1, ScanInvInit, ScanInvStep, PTL DEF Spec

=============================================================================
