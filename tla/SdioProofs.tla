----------------------------- MODULE SdioProofs -----------------------------
(***************************************************************************)
(* Proofs about the SDIO bus, for any number of ports, of packets and of   *)
(* ports in an aggregated read.                                            *)
(*                                                                         *)
(* The argument: seen from curr_rd_port, the packets that the card holds   *)
(* are at distances 0, 1, 2, ... in the order it sent them, and a bitmap   *)
(* read from its registers names the first few of them (RotInv).  A read   *)
(* takes packets from the front and moves curr_rd_port by as many.         *)
(***************************************************************************)
EXTENDS Sdio, SequenceTheorems, WellFoundedInduction, NaturalsInduction, TLAPS

CardType == [wr : SUBSET Ports, busy : Seq(Ports), rd : [Ports -> 0 .. MaxRx], up : Ports,
             sent : 0 .. MaxRx, ireg : SUBSET {"UP", "DN", "CMD"},
             cmd : {"none", "sent", "answered"}]
RegsType == [ireg : SUBSET {"UP", "DN", "CMD"}, wr : SUBSET Ports, rd : SUBSET Ports]
IntType == [enabled : BOOLEAN, flag : BOOLEAN, notified : BOOLEAN]

TypeInv ==
  /\ card \in CardType /\ mp_regs \in RegsType /\ int \in IntType
  /\ core \in {"arm", "wait", "regs", "status", "read"}
  /\ mp_wr_bitmap \in SUBSET Ports /\ mp_rd_bitmap \in SUBSET Ports
  /\ curr_rd_port \in Ports /\ txportno \in Ports
  /\ tx \in [pc : {"idle", "xmit"}, retry : 0 .. retry_attempts]
  /\ got \in [pkts : Seq(0 .. MaxRx), failed : BOOLEAN]

\* Registers that have been read are used at once, and what they offer is still offered.
WriteInv ==
  /\ PortsOffered
  /\ core = "status" => mp_regs.wr \subseteq card.wr
  /\ core # "status" => mp_regs = NoRegs

\* The interrupt is enabled only while the thread waits for it.
IntInv ==
  /\ core = "wait" => int.notified \/ (int.enabled /\ int.flag)
  /\ core = "wait" /\ int.notified => ~int.enabled
  /\ core # "wait" => ~int.enabled /\ ~int.notified

\* How far a port is ahead of curr_rd_port.
Dist(p) == IF p >= curr_rd_port THEN p - curr_rd_port ELSE p - curr_rd_port + MAX_PORT
Held == card.sent - Len(got.pkts)

\* The first ports of the rotation, all with a packet.
Front(S) == \A p \in S : Dist(p) < Held /\ \A q \in Ports : Dist(q) <= Dist(p) => q \in S

RotInv ==
  ~got.failed =>
    /\ InCardOrder
    /\ Held \in 0 .. MAX_PORT
    /\ IF Held = MAX_PORT THEN card.up = curr_rd_port ELSE Dist(card.up) = Held
    /\ \A p \in Ports :
         card.rd[p] = IF Dist(p) < Held THEN Len(got.pkts) + 1 + Dist(p) ELSE NoPkt
    /\ Front(mp_rd_bitmap) /\ Front(mp_regs.rd)

\* What the card holds is announced or about to be read.
AnnouncedInv ==
  /\ ~got.failed => \A p \in Ports : card.rd[p] # NoPkt =>
       \/ "UP" \in card.ireg
       \/ core = "status" /\ "UP" \in mp_regs.ireg /\ p \in mp_regs.rd
       \/ core = "read" /\ p \in mp_rd_bitmap
  /\ card.cmd = "answered" => "CMD" \in card.ireg \/ (core = "status" /\ "CMD" \in mp_regs.ireg)

SdioInv == TypeInv /\ WriteInv /\ IntInv /\ RotInv /\ AnnouncedInv
-----------------------------------------------------------------------------
(* Arithmetic of the rotation *)

\* A set of numbers up to n that has a member has a largest one.
LEMMA Largest ==
  ASSUME NEW n \in Nat, NEW S \in SUBSET (0 .. n), S # {}
  PROVE  \E k \in S : \A j \in S : j <= k
<1> DEFINE T == {n - k : k \in S}
<1>1. T \subseteq Nat /\ T # {}
  <2>1. \A k \in S : n - k \in Nat
    OBVIOUS
  <2> QED
    BY <2>1
<1>2. PICK x \in T : \A y \in T : ~(<<y, x>> \in OpToRel(<, Nat))
  BY <1>1, NatLessThanWellFounded, WFMin
<1>3. \A y \in T : ~(y < x)
  BY <1>1, <1>2 DEF OpToRel
<1>4. PICK k \in S : x = n - k
  OBVIOUS
<1>5. ASSUME NEW j \in S PROVE j <= k
  <2>1. n - j \in T /\ ~(n - j < n - k)
    BY <1>3, <1>4
  <2> QED
    BY <2>1
<1> QED
  BY <1>5

LEMMA NextPortIs ==
  ASSUME NEW p \in Ports
  PROVE  NextPort(p) \in Ports /\ NextPort(p) = IF p = MAX_PORT - 1 THEN 0 ELSE p + 1
BY SdioAssumption DEF Ports, NextPort

\* wlan_get_rd_port(): how many ports are read at once.
LEMMA RdPortsIs ==
  ASSUME TypeInv
  PROVE  /\ RdPorts \in 0 .. MAX_PORT - 1
         /\ \A i \in 0 .. RdPorts - 1 : curr_rd_port + i \in mp_rd_bitmap
         /\ RdPorts = 0 <=> curr_rd_port \notin mp_rd_bitmap
<1> DEFINE run(k) == k >= 1 => /\ \A i \in 0 .. k - 1 : curr_rd_port + i \in mp_rd_bitmap
                               /\ k <= PktLimitMax /\ (k = 1 \/ k <= MAX_PORT \div 2)
           R == {k \in 0 .. MAX_PORT : run(k)}
           top(k) == run(k) /\ \A j \in k + 1 .. MAX_PORT : ~run(j)
<1>1. MAX_PORT \in Nat /\ MAX_PORT >= 2 /\ 0 \in R
  BY SdioAssumption
<1>2. PICK k \in R : \A j \in R : j <= k
  <2> HIDE DEF R
  <2>1. R \in SUBSET (0 .. MAX_PORT)
    BY DEF R
  <2> QED
    BY <1>1, <2>1, Largest
<1>3. k \in 0 .. MAX_PORT /\ top(k)
  BY <1>1, <1>2
<1>4. RdPorts \in 0 .. MAX_PORT /\ top(RdPorts)
  <2>1. RdPorts = CHOOSE x \in 0 .. MAX_PORT : top(x)
    BY DEF RdPorts
  <2> HIDE DEF top
  <2> QED
    BY <1>3, <2>1
<1>5. RdPorts # MAX_PORT
  <2>1. MAX_PORT # 1 /\ ~(MAX_PORT <= MAX_PORT \div 2)
    BY <1>1
  <2> QED
    BY <1>1, <1>4, <2>1
<1>6. ASSUME curr_rd_port \in mp_rd_bitmap PROVE RdPorts # 0
  <2>1. run(1)
    BY <1>6, SdioAssumption DEF TypeInv, Ports
  <2> QED
    BY <1>1, <1>4, <2>1
<1>7. ASSUME RdPorts # 0 PROVE curr_rd_port \in mp_rd_bitmap
  <2>1. 0 \in 0 .. RdPorts - 1 /\ curr_rd_port + 0 = curr_rd_port
    BY <1>4, <1>7 DEF TypeInv, Ports
  <2> QED
    BY <1>4, <2>1
<1>8. \A i \in 0 .. RdPorts - 1 : curr_rd_port + i \in mp_rd_bitmap
  BY <1>4
<1>9. RdPorts \in 0 .. MAX_PORT - 1
  BY <1>1, <1>4, <1>5
<1> QED
  BY <1>6, <1>7, <1>8, <1>9

LEMMA DistIs ==
  ASSUME TypeInv
  PROVE  \A p \in Ports : Dist(p) \in 0 .. MAX_PORT - 1
BY SdioAssumption DEF TypeInv, Ports, Dist

LEMMA DistDiffers ==
  ASSUME TypeInv, NEW p \in Ports, NEW q \in Ports, p # q
  PROVE  Dist(p) # Dist(q)
BY SdioAssumption DEF TypeInv, Ports, Dist

LEMMA DistNext ==
  ASSUME TypeInv, NEW p \in Ports
  PROVE  IF Dist(p) = MAX_PORT - 1 THEN NextPort(p) = curr_rd_port
                                   ELSE Dist(NextPort(p)) = Dist(p) + 1
<1>1. NextPort(p) = IF p = MAX_PORT - 1 THEN 0 ELSE p + 1
  BY NextPortIs
<1>2. MAX_PORT \in Nat /\ MAX_PORT >= 2 /\ curr_rd_port \in Ports
  BY SdioAssumption DEF TypeInv
<1> QED
  BY <1>1, <1>2 DEF Ports, Dist

\* One read, in terms of distances: the n ports at the front.
LEMMA ReadIs ==
  ASSUME TypeInv, core = "read", RdPorts > 0
  PROVE  /\ RdPorts \in 1 .. MAX_PORT - 1 /\ curr_rd_port + RdPorts <= MAX_PORT
         /\ Advance(RdPorts) = IF curr_rd_port + RdPorts = MAX_PORT THEN 0 ELSE curr_rd_port + RdPorts
         /\ Advance(RdPorts) \in Ports
         /\ \A i \in 1 .. RdPorts : /\ (curr_rd_port + i - 1) % MAX_PORT = curr_rd_port + i - 1
                                   /\ curr_rd_port + i - 1 \in mp_rd_bitmap
                                   /\ curr_rd_port + i - 1 \in Ports
                                   /\ Dist(curr_rd_port + i - 1) = i - 1
         /\ \A p \in Ports : Dist(p) < RdPorts => /\ Dist(p) + 1 \in 1 .. RdPorts
                                                  /\ p = curr_rd_port + (Dist(p) + 1) - 1
<1> DEFINE n == RdPorts
           c == curr_rd_port
<1>1. MAX_PORT \in Nat /\ MAX_PORT >= 2 /\ c \in 0 .. MAX_PORT - 1 /\ mp_rd_bitmap \subseteq Ports
  BY SdioAssumption DEF TypeInv, Ports
<1>2. n \in 1 .. MAX_PORT - 1 /\ \A i \in 0 .. n - 1 : c + i \in mp_rd_bitmap
  BY RdPortsIs
<1> HIDE DEF n, c
<1>3. c + (n - 1) \in mp_rd_bitmap
  BY <1>1, <1>2
<1>4. c + n <= MAX_PORT
  BY <1>1, <1>2, <1>3 DEF Ports
<1>5. (c + n) % MAX_PORT = IF c + n = MAX_PORT THEN 0 ELSE c + n
  BY <1>1, <1>2, <1>4
<1>6. ASSUME NEW i \in 1 .. n
      PROVE  /\ (c + i - 1) % MAX_PORT = c + i - 1
             /\ c + i - 1 \in mp_rd_bitmap /\ c + i - 1 \in Ports
  <2>1. i - 1 \in 0 .. n - 1 /\ c + (i - 1) = c + i - 1 /\ c + i - 1 \in 0 .. MAX_PORT - 1
    BY <1>1, <1>2, <1>4
  <2> QED
    BY <1>1, <1>2, <2>1 DEF Ports
<1>7. ASSUME NEW i \in 1 .. n PROVE Dist(c + i - 1) = i - 1
  BY <1>1, <1>2 DEF Dist, c
<1>8. ASSUME NEW p \in Ports, Dist(p) < n
      PROVE  Dist(p) + 1 \in 1 .. n /\ p = c + (Dist(p) + 1) - 1
  BY <1>1, <1>2, <1>4, <1>8 DEF Dist, Ports, c
<1>9. (IF c + n = MAX_PORT THEN 0 ELSE c + n) \in Ports
  BY <1>1, <1>2, <1>4 DEF Ports
<1> QED
  BY <1>2, <1>4, <1>5, <1>6, <1>7, <1>8, <1>9 DEF Advance, n, c
-----------------------------------------------------------------------------
(* Types *)

LEMMA WritePortType ==
  ASSUME TypeInv, NEW ok \in BOOLEAN, WritePort(ok)
  PROVE  card' \in CardType /\ mp_wr_bitmap' \in SUBSET Ports /\ txportno' \in Ports
<1>1. Append(card.busy, txportno) \in Seq(Ports)
  BY DEF TypeInv, CardType
<1>2. [card EXCEPT !.wr = @ \ {txportno}, !.busy = Append(@, txportno)] \in CardType
  BY <1>1 DEF TypeInv, CardType
<1> QED
  BY <1>2, NextPortIs DEF TypeInv, WritePort

LEMMA ReadType ==
  ASSUME TypeInv, handle_sdio_packet_read
  PROVE  /\ card' \in CardType
         /\ got' \in [pkts : Seq(0 .. MaxRx), failed : BOOLEAN]
         /\ curr_rd_port' \in Ports /\ mp_rd_bitmap' \in SUBSET Ports
<1> DEFINE n == RdPorts
           read == [i \in 1 .. n |-> (curr_rd_port + i - 1) % MAX_PORT]
           new == [i \in 1 .. n |-> card.rd[read[i]]]
<1>1. /\ core = "read" /\ RdPorts > 0
      /\ mp_rd_bitmap' = mp_rd_bitmap \ {read[i] : i \in 1 .. n}
      /\ curr_rd_port' = Advance(n)
      /\ card' = [card EXCEPT !.rd = [p \in Ports |-> IF \E i \in 1 .. n : read[i] = p
                                                        THEN NoPkt ELSE @[p]]]
      /\ got' = IF got.failed THEN got ELSE [got EXCEPT !.pkts = @ \o new]
  BY DEF handle_sdio_packet_read
<1>2. n \in Nat /\ Advance(n) \in Ports /\ \A i \in 1 .. n : read[i] \in Ports
  BY <1>1, ReadIs
<1>3. new \in Seq(0 .. MaxRx)
  BY <1>2 DEF TypeInv, CardType
<1>4. got.pkts \o new \in Seq(0 .. MaxRx)
  <2> HIDE DEF new
  <2>1. got.pkts \in Seq(0 .. MaxRx)
    BY DEF TypeInv
  <2> QED
    BY <1>3, <2>1
<1>5. [p \in Ports |-> IF \E i \in 1 .. n : read[i] = p THEN NoPkt ELSE card.rd[p]]
        \in [Ports -> 0 .. MaxRx]
  BY SdioAssumption DEF TypeInv, CardType, NoPkt
<1> HIDE DEF new, read, n
<1> QED
  BY <1>1, <1>2, <1>4, <1>5 DEF TypeInv, CardType

LEMMA TypeInit == Init => TypeInv
<1> SUFFICES ASSUME Init PROVE TypeInv
  OBVIOUS
<1>1. 0 \in Ports /\ 0 \in 0 .. MaxRx /\ 0 \in 0 .. retry_attempts
  BY SdioAssumption DEF Ports
<1>2. card \in CardType
  BY <1>1 DEF Init, CardType, NoPkt
<1>3. mp_regs \in RegsType /\ int \in IntType
  BY DEF Init, RegsType, IntType, NoRegs
<1>4. tx \in [pc : {"idle", "xmit"}, retry : 0 .. retry_attempts]
  BY <1>1 DEF Init, Idle
<1>5. got \in [pkts : Seq(0 .. MaxRx), failed : BOOLEAN]
  BY DEF Init
<1> QED
  BY <1>1, <1>2, <1>3, <1>4, <1>5 DEF Init, TypeInv

LEMMA TypeStep ==
  ASSUME TypeInv, [Next]_vars
  PROVE  TypeInv'
<1> DEFINE TxType == [pc : {"idle", "xmit"}, retry : 0 .. retry_attempts]
           GotType == [pkts : Seq(0 .. MaxRx), failed : BOOLEAN]
<1>1. CASE low_level_output
  <2>1. tx' \in TxType
    BY <1>1, SdioAssumption DEF low_level_output
  <2> QED
    BY <1>1, <2>1 DEF TypeInv, low_level_output, rx
<1>2. ASSUME NEW ok \in BOOLEAN, wifi_low_level_output(ok) PROVE TypeInv'
  <2>1. tx' \in TxType
    <3>1. tx \in TxType /\ (tx' = Idle \/ (tx.retry # 0 /\ tx' = [tx EXCEPT !.retry = @ - 1]))
      BY <1>2 DEF TypeInv, wifi_low_level_output
    <3> QED
      BY <3>1, SdioAssumption DEF Idle
  <2>2. card' \in CardType /\ mp_wr_bitmap' \in SUBSET Ports /\ txportno' \in Ports
    BY <1>2, WritePortType DEF TypeInv, wifi_low_level_output
  <2> QED
    BY <1>2, <2>1, <2>2 DEF TypeInv, wifi_low_level_output, rx
<1>3. CASE wlan_send_sdio_cmd
  <2>1. card' \in CardType
    BY <1>3 DEF TypeInv, wlan_send_sdio_cmd, CardType
  <2> QED
    BY <1>3, <2>1 DEF TypeInv, wlan_send_sdio_cmd, rx
<1>4. CASE EnableInterrupt
  <2>1. int' \in IntType /\ core' = "wait"
    BY <1>4 DEF TypeInv, EnableInterrupt, IntType
  <2> QED
    BY <1>4, <2>1 DEF TypeInv, EnableInterrupt, rx
<1>5. CASE handle_cdint
  <2>1. int' \in IntType
    BY <1>5 DEF TypeInv, handle_cdint, IntType
  <2> QED
    BY <1>5, <2>1 DEF TypeInv, handle_cdint, rx
<1>6. CASE Notified
  <2>1. int' \in IntType /\ core' = "regs"
    BY <1>6 DEF TypeInv, Notified, IntType
  <2> QED
    BY <1>6, <2>1 DEF TypeInv, Notified, rx
<1>7. ASSUME NEW ok \in BOOLEAN, wlan_interrupt(ok) PROVE TypeInv'
  <2>1. CASE ~ok
    BY <1>7, <2>1 DEF TypeInv, wlan_interrupt, rx
  <2>2. CASE ok
    <3>1. /\ mp_regs' = [ireg |-> card.ireg, wr |-> card.wr,
                         rd |-> {p \in Ports : card.rd[p] # NoPkt}]
          /\ card' = [card EXCEPT !.ireg = {}] /\ core' = "status"
      BY <1>7, <2>2 DEF wlan_interrupt
    <3>2. card.ireg \in SUBSET {"UP", "DN", "CMD"} /\ card.wr \in SUBSET Ports
          /\ {p \in Ports : card.rd[p] # NoPkt} \in SUBSET Ports
      BY DEF TypeInv, CardType
    <3>3. mp_regs' \in RegsType
      BY <3>1, <3>2 DEF RegsType
    <3>4. card' \in CardType
      BY <3>1 DEF TypeInv, CardType
    <3> QED
      BY <1>7, <3>1, <3>3, <3>4 DEF TypeInv, wlan_interrupt, rx
  <2> QED
    BY <2>1, <2>2
<1>8. CASE wlan_process_int_status
  <2>1. card' \in CardType /\ mp_regs' \in RegsType /\ core' \in {"read", "arm"}
    BY <1>8 DEF TypeInv, wlan_process_int_status, CardType, RegsType, NoRegs
  <2>2. mp_wr_bitmap' \in SUBSET Ports /\ mp_rd_bitmap' \in SUBSET Ports
    BY <1>8 DEF TypeInv, wlan_process_int_status, RegsType
  <2> QED
    BY <1>8, <2>1, <2>2 DEF TypeInv, wlan_process_int_status
<1>9. CASE handle_sdio_packet_read
  BY <1>9, ReadType DEF TypeInv, handle_sdio_packet_read
<1>10. CASE ReadFails
  <2>1. got' \in GotType /\ core' \in {"arm", "read"} /\ mp_rd_bitmap' \in SUBSET Ports
    BY <1>10 DEF TypeInv, ReadFails
  <2>2. curr_rd_port' \in Ports
    BY <1>10, ReadIs DEF ReadFails
  <2> QED
    BY <1>10, <2>1, <2>2 DEF TypeInv, ReadFails
<1>11. CASE ReadDone
  BY <1>11 DEF TypeInv, ReadDone, rx
<1>12. CASE CardSends
  <2>1. NextPort(card.up) \in Ports
    BY NextPortIs DEF TypeInv, CardType
  <2>2. card' \in CardType
    <3>1. card.sent + 1 \in 0 .. MaxRx
      BY <1>12, SdioAssumption DEF TypeInv, CardSends, CardType
    <3>2. [card.rd EXCEPT ![card.up] = card.sent + 1] \in [Ports -> 0 .. MaxRx]
      BY <3>1 DEF TypeInv, CardType
    <3> QED
      BY <1>12, <2>1, <3>1, <3>2 DEF TypeInv, CardSends, CardType
  <2> QED
    BY <1>12, <2>2 DEF TypeInv, CardSends, rx
<1>13. CASE CardFrees
  <2>1. Head(card.busy) \in Ports /\ Tail(card.busy) \in Seq(Ports)
    BY <1>13 DEF TypeInv, CardType, CardFrees
  <2>2. card' \in CardType
    BY <1>13, <2>1 DEF TypeInv, CardFrees, CardType
  <2> QED
    BY <1>13, <2>2 DEF TypeInv, CardFrees, rx
<1>14. CASE CardAnswers
  <2>1. card' \in CardType
    BY <1>14 DEF TypeInv, CardAnswers, CardType
  <2> QED
    BY <1>14, <2>1 DEF TypeInv, CardAnswers, rx
<1>15. CASE UNCHANGED vars
  BY <1>15 DEF TypeInv, vars
<1> QED
  BY <1>1, <1>2, <1>3, <1>4, <1>5, <1>6, <1>7, <1>8, <1>9, <1>10, <1>11, <1>12, <1>13, <1>14,
     <1>15 DEF Next, Transmit, CoreStep, Card
-----------------------------------------------------------------------------
(* Ports that may be written, and the interrupt *)

LEMMA WriteStep ==
  ASSUME TypeInv, WriteInv, [Next]_vars
  PROVE  WriteInv'
<1> USE DEF WriteInv, PortsOffered
<1>1. CASE low_level_output
  BY <1>1 DEF low_level_output
<1>2. ASSUME NEW ok \in BOOLEAN, wifi_low_level_output(ok) PROVE WriteInv'
  <2>1. core # "status" /\ core' = core /\ mp_regs' = mp_regs
    BY <1>2 DEF wifi_low_level_output, SdioLocked
  <2>2. mp_wr_bitmap' \subseteq card'.wr
    <3>1. CASE WritePort(ok)
      <4>1. card'.wr = card.wr \/ card'.wr = card.wr \ {txportno}
        BY <3>1 DEF WritePort, TypeInv, CardType
      <4> QED
        BY <3>1, <4>1 DEF WritePort
    <3>2. CASE UNCHANGED <<card, mp_wr_bitmap>>
      BY <3>2
    <3> QED
      BY <1>2, <3>1, <3>2 DEF wifi_low_level_output
  <2> QED
    BY <2>1, <2>2
<1>3. CASE wlan_send_sdio_cmd
  BY <1>3 DEF wlan_send_sdio_cmd, TypeInv, CardType
<1>4. CASE EnableInterrupt
  BY <1>4 DEF EnableInterrupt
<1>5. CASE handle_cdint
  BY <1>5 DEF handle_cdint
<1>6. CASE Notified
  BY <1>6 DEF Notified
<1>7. ASSUME NEW ok \in BOOLEAN, wlan_interrupt(ok) PROVE WriteInv'
  BY <1>7 DEF wlan_interrupt, TypeInv, CardType
<1>8. CASE wlan_process_int_status
  BY <1>8 DEF wlan_process_int_status, TypeInv, CardType
<1>9. CASE handle_sdio_packet_read
  <2>1. card'.wr = card.wr
    BY <1>9 DEF handle_sdio_packet_read, TypeInv, CardType
  <2> QED
    BY <1>9, <2>1 DEF handle_sdio_packet_read
<1>10. CASE ReadFails
  BY <1>10 DEF ReadFails
<1>11. CASE ReadDone
  BY <1>11 DEF ReadDone
<1>12. CASE Card
  <2>1. card.wr \subseteq card'.wr
    <3>1. CASE CardSends
      BY <3>1 DEF CardSends, TypeInv, CardType
    <3>2. CASE CardFrees
      BY <3>2 DEF CardFrees, TypeInv, CardType
    <3>3. CASE CardAnswers
      BY <3>3 DEF CardAnswers, TypeInv, CardType
    <3> QED
      BY <1>12, <3>1, <3>2, <3>3 DEF Card
  <2> QED
    BY <1>12, <2>1 DEF Card, CardSends, CardFrees, CardAnswers
<1>13. CASE UNCHANGED vars
  BY <1>13 DEF vars
<1> QED
  BY <1>1, <1>2, <1>3, <1>4, <1>5, <1>6, <1>7, <1>8, <1>9, <1>10, <1>11, <1>12, <1>13
  DEF Next, Transmit, CoreStep

LEMMA IntStep ==
  ASSUME TypeInv, IntInv, [Next]_vars
  PROVE  IntInv'
<1> USE DEF IntInv
<1>1. CASE EnableInterrupt
  BY <1>1 DEF EnableInterrupt, TypeInv, IntType
<1>2. CASE handle_cdint
  BY <1>2 DEF handle_cdint, TypeInv, IntType
<1>3. CASE Notified
  BY <1>3 DEF Notified, TypeInv, IntType
<1>4. ASSUME NEW ok \in BOOLEAN, wlan_interrupt(ok) PROVE IntInv'
  BY <1>4 DEF wlan_interrupt
<1>5. CASE wlan_process_int_status
  BY <1>5 DEF wlan_process_int_status
<1>6. CASE handle_sdio_packet_read \/ ReadFails \/ ReadDone
  BY <1>6 DEF handle_sdio_packet_read, ReadFails, ReadDone
<1>7. CASE Transmit \/ wlan_send_sdio_cmd \/ Card \/ UNCHANGED vars
  <2>1. UNCHANGED <<int, core>>
    BY <1>7 DEF Transmit, low_level_output, wifi_low_level_output, wlan_send_sdio_cmd, Card,
                CardSends, CardFrees, CardAnswers, vars
  <2> QED
    BY <2>1
<1> QED
  BY <1>1, <1>2, <1>3, <1>4, <1>5, <1>6, <1>7 DEF Next, CoreStep
-----------------------------------------------------------------------------
(* The rotation *)

\* The parts of RotInv.
Placed(p) == card.rd[p] = IF Dist(p) < Held THEN Len(got.pkts) + 1 + Dist(p) ELSE NoPkt
UpAt == IF Held = MAX_PORT THEN card.up = curr_rd_port ELSE Dist(card.up) = Held

\* Steps that do not touch what RotInv is about, except that a bitmap is taken over or
\* cleared.
LEMMA RotQuiet ==
  ASSUME RotInv,
         UNCHANGED <<got, curr_rd_port>>,
         card'.sent = card.sent, card'.up = card.up, card'.rd = card.rd,
         mp_rd_bitmap' \in {mp_rd_bitmap, mp_regs.rd}, mp_regs'.rd \in {mp_regs.rd, {}}
  PROVE  RotInv'
<1> SUFFICES ASSUME ~got.failed PROVE RotInv'
  BY DEF RotInv
<1>1. Held' = Held /\ \A p : Dist(p)' = Dist(p)
  BY DEF Held, Dist
<1>2. Front(mp_rd_bitmap) /\ Front(mp_regs.rd) /\ Front({})
  BY DEF RotInv, Front
<1>3. Front(mp_rd_bitmap)' /\ Front(mp_regs.rd)'
  BY <1>1, <1>2 DEF Front
<1>4. InCardOrder'
  BY DEF RotInv, InCardOrder
<1>5. \A p \in Ports : Placed(p)'
  BY <1>1 DEF RotInv, Placed
<1>6. (Held \in 0 .. MAX_PORT)' /\ UpAt'
  BY <1>1 DEF RotInv, UpAt
<1> QED
  BY <1>3, <1>4, <1>5, <1>6 DEF RotInv, Placed, UpAt

\* wlan_interrupt() takes over which ports have a packet.
LEMMA RotRegs ==
  ASSUME TypeInv, RotInv, wlan_interrupt(TRUE)
  PROVE  RotInv'
<1> SUFFICES ASSUME ~got.failed PROVE RotInv'
  BY DEF RotInv, wlan_interrupt, rx
<1>1. /\ UNCHANGED <<got, curr_rd_port, mp_rd_bitmap>>
      /\ card'.sent = card.sent /\ card'.up = card.up /\ card'.rd = card.rd
      /\ mp_regs'.rd = {p \in Ports : card.rd[p] # NoPkt}
  BY DEF wlan_interrupt, rx, TypeInv, CardType
<1>2. Held' = Held /\ \A p : Dist(p)' = Dist(p)
  BY <1>1 DEF Held, Dist
<1>3. mp_regs'.rd = {p \in Ports : Dist(p) < Held}
  <2>1. Len(got.pkts) \in Nat
    BY DEF TypeInv
  <2>2. \A p \in Ports : card.rd[p] # NoPkt <=> Dist(p) < Held
    BY <2>1, DistIs DEF RotInv, NoPkt
  <2> QED
    BY <1>1, <2>2
<1>4. Front(mp_regs.rd)'
  <2>1. Held \in Int
    BY SdioAssumption DEF RotInv
  <2>2. \A p, q \in Ports : Dist(p) < Held /\ Dist(q) <= Dist(p) => Dist(q) < Held
    BY <2>1, DistIs
  <2> QED
    BY <1>2, <1>3, <2>2 DEF Front
<1>5. Front(mp_rd_bitmap)'
  BY <1>1, <1>2 DEF RotInv, Front
<1>6. InCardOrder'
  BY <1>1 DEF RotInv, InCardOrder
<1>7. \A p \in Ports : Placed(p)'
  BY <1>1, <1>2 DEF RotInv, Placed
<1>8. (Held \in 0 .. MAX_PORT)' /\ UpAt'
  BY <1>1, <1>2 DEF RotInv, UpAt
<1> QED
  BY <1>4, <1>5, <1>6, <1>7, <1>8 DEF RotInv, Placed, UpAt

\* The card's next packet goes to the first port behind those it holds.
LEMMA RotSends ==
  ASSUME TypeInv, RotInv, CardSends
  PROVE  RotInv'
<1> SUFFICES ASSUME ~got.failed PROVE RotInv'
  BY DEF RotInv, CardSends, rx
<1>1. /\ UNCHANGED <<got, curr_rd_port, mp_rd_bitmap, mp_regs>>
      /\ card'.sent = card.sent + 1 /\ card'.up = NextPort(card.up)
      /\ card'.rd = [card.rd EXCEPT ![card.up] = card.sent + 1]
      /\ card.rd[card.up] = NoPkt
  BY DEF CardSends, rx, TypeInv, CardType
<1>2. /\ MAX_PORT \in Nat /\ MAX_PORT >= 2 /\ curr_rd_port \in Ports /\ card.up \in Ports
      /\ card.rd \in [Ports -> 0 .. MaxRx] /\ card.sent \in Nat /\ Len(got.pkts) \in Nat
      /\ Held \in 0 .. MAX_PORT
  BY SdioAssumption DEF TypeInv, CardType, RotInv
<1>3. Held < MAX_PORT /\ Dist(card.up) = Held
  <2>1. Placed(card.up) /\ Dist(card.up) \in 0 .. MAX_PORT - 1
    BY <1>2, DistIs DEF RotInv, Placed
  <2>2. ~(Dist(card.up) < Held)
    BY <1>1, <1>2, <2>1 DEF Placed, NoPkt
  <2> QED
    BY <1>2, <2>1, <2>2 DEF RotInv
<1>4. Held' = Held + 1 /\ \A p : Dist(p)' = Dist(p)
  <2>1. Held' = card.sent + 1 - Len(got.pkts) /\ Held = card.sent - Len(got.pkts)
    <3>1. got' = got /\ card'.sent = card.sent + 1
      BY <1>1
    <3> QED
      BY <1>2, <3>1 DEF Held
  <2>2. \A p : Dist(p)' = Dist(p)
    BY <1>1 DEF Dist
  <2> QED
    BY <1>2, <2>1, <2>2
<1>5. card.sent = Len(got.pkts) + Held
  BY <1>2 DEF Held
<1>6. ASSUME NEW p \in Ports PROVE Placed(p)'
  <2>1. Placed(p) /\ Dist(p) \in 0 .. MAX_PORT - 1
    BY DistIs DEF RotInv, Placed
  <2>2. CASE p = card.up
    BY <1>1, <1>2, <1>3, <1>4, <1>5, <2>2 DEF Placed
  <2>3. CASE p # card.up
    <3>1. Dist(p) # Held
      BY <1>2, <1>3, <2>3, DistDiffers
    <3>2. card'.rd[p] = card.rd[p]
      BY <1>1, <1>2, <2>3
    <3> QED
      BY <1>1, <1>2, <1>4, <2>1, <3>1, <3>2 DEF Placed
  <2> QED
    BY <2>2, <2>3
<1>7. UpAt'
  <2>1. IF Dist(card.up) = MAX_PORT - 1 THEN NextPort(card.up) = curr_rd_port
                                        ELSE Dist(NextPort(card.up)) = Dist(card.up) + 1
    BY <1>2, DistNext
  <2>2. IF Held + 1 = MAX_PORT THEN card'.up = curr_rd_port ELSE Dist(card'.up) = Held + 1
    BY <1>1, <1>2, <1>3, <2>1
  <2> QED
    BY <1>1, <1>4, <2>2 DEF UpAt
<1>8. Front(mp_rd_bitmap)' /\ Front(mp_regs.rd)'
  <2>1. Front(mp_rd_bitmap) /\ Front(mp_regs.rd)
        /\ mp_rd_bitmap \subseteq Ports /\ mp_regs.rd \subseteq Ports
    BY DEF RotInv, TypeInv, RegsType
  <2>2. \A p \in Ports : Dist(p) < Held => Dist(p) < Held + 1
    BY <1>2, DistIs
  <2> QED
    BY <1>1, <1>4, <2>1, <2>2 DEF Front
<1>9. InCardOrder' /\ (Held \in 0 .. MAX_PORT)'
  <2>1. InCardOrder'
    BY <1>1 DEF RotInv, InCardOrder
  <2> QED
    BY <1>2, <1>3, <1>4, <2>1
<1> QED
  BY <1>6, <1>7, <1>8, <1>9 DEF RotInv, Placed, UpAt

\* curr_rd_port moves by n and every distance shrinks by n, around the end.
LEMMA DistAdvance ==
  ASSUME TypeInv, NEW n \in 1 .. MAX_PORT - 1, curr_rd_port + n <= MAX_PORT,
         curr_rd_port' = IF curr_rd_port + n = MAX_PORT THEN 0 ELSE curr_rd_port + n,
         NEW p \in Ports
  PROVE  Dist(p)' = IF Dist(p) >= n THEN Dist(p) - n ELSE Dist(p) - n + MAX_PORT
<1>1. MAX_PORT \in Nat /\ MAX_PORT >= 2 /\ curr_rd_port \in 0 .. MAX_PORT - 1
      /\ p \in 0 .. MAX_PORT - 1
  BY SdioAssumption DEF TypeInv, Ports
<1>2. PICK c : c = curr_rd_port
  OBVIOUS
<1>3. PICK d : d = curr_rd_port'
  OBVIOUS
<1>4. d = IF c + n = MAX_PORT THEN 0 ELSE c + n
  BY <1>2, <1>3
<1>5. /\ Dist(p) = IF p >= c THEN p - c ELSE p - c + MAX_PORT
      /\ Dist(p)' = IF p >= d THEN p - d ELSE p - d + MAX_PORT
  BY <1>2, <1>3 DEF Dist
<1> QED
  BY <1>1, <1>2, <1>4, <1>5

\* What a read does, n being the ports it takes: those at distances below n are emptied, and
\* the packets from them are the next n.
LEMMA ReadDoes ==
  ASSUME TypeInv, RotInv, ~got.failed, handle_sdio_packet_read
  PROVE  \E n \in 1 .. MAX_PORT - 1 :
           /\ curr_rd_port + n <= MAX_PORT /\ n <= Held
           /\ curr_rd_port' = IF curr_rd_port + n = MAX_PORT THEN 0 ELSE curr_rd_port + n
           /\ mp_rd_bitmap' = {p \in mp_rd_bitmap : Dist(p) >= n}
           /\ card'.up = card.up /\ card'.sent = card.sent
           /\ \A p \in Ports : card'.rd[p] = IF Dist(p) < n THEN NoPkt ELSE card.rd[p]
           /\ ~got'.failed
           /\ Len(got'.pkts) = Len(got.pkts) + n
           /\ \A i \in 1 .. Len(got.pkts) + n : got'.pkts[i] = i
<1>1. PICK n : n = RdPorts
  OBVIOUS
<1>2. /\ n \in 1 .. MAX_PORT - 1 /\ curr_rd_port + n <= MAX_PORT
      /\ Advance(n) = IF curr_rd_port + n = MAX_PORT THEN 0 ELSE curr_rd_port + n
      /\ \A i \in 1 .. n : /\ (curr_rd_port + i - 1) % MAX_PORT = curr_rd_port + i - 1
                            /\ curr_rd_port + i - 1 \in mp_rd_bitmap
                            /\ curr_rd_port + i - 1 \in Ports
                            /\ Dist(curr_rd_port + i - 1) = i - 1
      /\ \A p \in Ports : Dist(p) < n => /\ Dist(p) + 1 \in 1 .. n
                                          /\ p = curr_rd_port + (Dist(p) + 1) - 1
  BY <1>1, ReadIs DEF handle_sdio_packet_read
<1>3. PICK read : read = [i \in 1 .. n |-> (curr_rd_port + i - 1) % MAX_PORT]
  OBVIOUS
<1>4. PICK new : new = [i \in 1 .. n |-> card.rd[read[i]]]
  OBVIOUS
<1>5. /\ mp_rd_bitmap' = mp_rd_bitmap \ {read[i] : i \in 1 .. n}
      /\ curr_rd_port' = Advance(n)
      /\ card' = [card EXCEPT !.rd = [p \in Ports |-> IF \E i \in 1 .. n : read[i] = p
                                                        THEN NoPkt ELSE @[p]]]
      /\ got' = [got EXCEPT !.pkts = @ \o new]
  BY <1>1, <1>3, <1>4 DEF handle_sdio_packet_read
<1>6. \A i \in 1 .. n : /\ read[i] = curr_rd_port + i - 1 /\ read[i] \in mp_rd_bitmap
                        /\ read[i] \in Ports /\ Dist(read[i]) = i - 1
  BY <1>2, <1>3
<1>7. /\ MAX_PORT \in Nat /\ Held \in 0 .. MAX_PORT /\ got.pkts \in Seq(0 .. MaxRx)
      /\ card \in CardType /\ mp_rd_bitmap \subseteq Ports /\ n \in Nat
      /\ got \in [pkts : Seq(0 .. MaxRx), failed : BOOLEAN]
  BY <1>2, SdioAssumption DEF TypeInv, RotInv
<1>8. \A p \in Ports : (\E i \in 1 .. n : read[i] = p) <=> Dist(p) < n
  <2>1. ASSUME NEW p \in Ports, NEW i \in 1 .. n, read[i] = p PROVE Dist(p) < n
    BY <1>6, <1>7, <2>1
  <2>2. ASSUME NEW p \in Ports, Dist(p) < n PROVE \E i \in 1 .. n : read[i] = p
    <3>1. Dist(p) + 1 \in 1 .. n /\ p = curr_rd_port + (Dist(p) + 1) - 1
      BY <1>2, <2>2
    <3>2. read[Dist(p) + 1] = p
      BY <1>6, <3>1
    <3> QED
      BY <3>1, <3>2
  <2> QED
    BY <2>1, <2>2
<1>9. n <= Held
  <2>1. n \in 1 .. n /\ read[n] \in mp_rd_bitmap /\ Dist(read[n]) = n - 1
    BY <1>2, <1>6
  <2>2. Dist(read[n]) < Held
    BY <2>1 DEF RotInv, Front
  <2> QED
    BY <1>7, <2>1, <2>2
<1>10. mp_rd_bitmap' = {p \in mp_rd_bitmap : Dist(p) >= n}
  <2>1. \A p \in mp_rd_bitmap : Dist(p) >= n <=> ~(Dist(p) < n)
    BY <1>7, DistIs
  <2>2. \A p \in mp_rd_bitmap : p \in {read[i] : i \in 1 .. n} <=> Dist(p) < n
    BY <1>7, <1>8
  <2> QED
    BY <1>5, <2>1, <2>2
<1>11. /\ card'.up = card.up /\ card'.sent = card.sent
       /\ \A p \in Ports : card'.rd[p] = IF Dist(p) < n THEN NoPkt ELSE card.rd[p]
  <2>1. card'.up = card.up /\ card'.sent = card.sent
        /\ card'.rd = [p \in Ports |-> IF \E i \in 1 .. n : read[i] = p THEN NoPkt ELSE card.rd[p]]
    BY <1>5, <1>7 DEF CardType
  <2> QED
    BY <1>8, <2>1
<1>12. \A i \in 1 .. n : new[i] = Len(got.pkts) + i
  <2> SUFFICES ASSUME NEW i \in 1 .. n PROVE new[i] = Len(got.pkts) + i
    OBVIOUS
  <2>1. read[i] \in Ports /\ Dist(read[i]) = i - 1 /\ i - 1 < Held
    BY <1>6, <1>7, <1>9
  <2>2. card.rd[read[i]] = Len(got.pkts) + 1 + (i - 1)
    BY <2>1 DEF RotInv
  <2> QED
    BY <1>4, <1>7, <2>2
<1>13. got'.pkts = got.pkts \o new /\ got'.failed = got.failed
  BY <1>5, <1>7
<1>14. /\ Len(got'.pkts) = Len(got.pkts) + n
       /\ \A i \in 1 .. Len(got.pkts) + n : got'.pkts[i] = i
  <2>1. new \in Seq(0 .. MaxRx) /\ Len(new) = n
    <3>1. \A i \in 1 .. n : card.rd[read[i]] \in 0 .. MaxRx
      BY <1>6, <1>7 DEF CardType
    <3>2. new \in [1 .. n -> 0 .. MaxRx]
      BY <1>4, <3>1
    <3>3. new \in Seq(0 .. MaxRx)
      BY <1>7, <3>2, SeqDef
    <3> QED
      BY <1>7, <3>2, <3>3, LenProperties
  <2>2. PICK old : old = got.pkts
    OBVIOUS
  <2>3. old \in Seq(0 .. MaxRx) /\ Len(old) \in Nat /\ \A i \in 1 .. Len(old) : old[i] = i
    BY <1>7, <2>2 DEF RotInv, InCardOrder
  <2>4. /\ Len(old \o new) = Len(old) + n
        /\ \A i \in 1 .. Len(old) + n :
             (old \o new)[i] = IF i <= Len(old) THEN old[i] ELSE new[i - Len(old)]
    BY <1>7, <2>1, <2>3, ConcatProperties
  <2>5. ASSUME NEW i \in 1 .. Len(old) + n PROVE (old \o new)[i] = i
    <3>1. CASE i <= Len(old)
      BY <1>7, <2>3, <2>4, <3>1
    <3>2. CASE ~(i <= Len(old))
      <4>1. i - Len(old) \in 1 .. n
        BY <1>7, <2>3, <3>2
      <4>2. new[i - Len(old)] = Len(old) + (i - Len(old))
        BY <1>12, <2>2, <4>1
      <4> QED
        BY <1>7, <2>3, <2>4, <3>2, <4>2
    <3> QED
      BY <3>1, <3>2
  <2> QED
    BY <1>13, <2>2, <2>4, <2>5
<1> QED
  BY <1>2, <1>5, <1>9, <1>10, <1>11, <1>13, <1>14

LEMMA RotRead ==
  ASSUME TypeInv, WriteInv, RotInv, handle_sdio_packet_read
  PROVE  RotInv'
<1> SUFFICES ASSUME ~got.failed PROVE RotInv'
  BY DEF RotInv, handle_sdio_packet_read
<1>1. PICK n \in 1 .. MAX_PORT - 1 :
        /\ curr_rd_port + n <= MAX_PORT /\ n <= Held
        /\ curr_rd_port' = IF curr_rd_port + n = MAX_PORT THEN 0 ELSE curr_rd_port + n
        /\ mp_rd_bitmap' = {p \in mp_rd_bitmap : Dist(p) >= n}
        /\ card'.up = card.up /\ card'.sent = card.sent
        /\ \A p \in Ports : card'.rd[p] = IF Dist(p) < n THEN NoPkt ELSE card.rd[p]
        /\ ~got'.failed
        /\ Len(got'.pkts) = Len(got.pkts) + n
        /\ \A i \in 1 .. Len(got.pkts) + n : got'.pkts[i] = i
  BY ReadDoes
<1>2. /\ MAX_PORT \in Nat /\ MAX_PORT >= 2 /\ Held \in 0 .. MAX_PORT
      /\ card.sent \in Nat /\ Len(got.pkts) \in Nat /\ card.up \in Ports
      /\ mp_rd_bitmap \subseteq Ports /\ curr_rd_port \in Ports
  BY SdioAssumption DEF TypeInv, CardType, RotInv
<1>3. Held' = Held - n
  <2>1. Held' = card.sent - (Len(got.pkts) + n) /\ Held = card.sent - Len(got.pkts)
    BY <1>1 DEF Held
  <2> QED
    BY <1>2, <2>1
<1>4. \A p \in Ports : /\ Dist(p) \in 0 .. MAX_PORT - 1
                       /\ Dist(p)' = IF Dist(p) >= n THEN Dist(p) - n ELSE Dist(p) - n + MAX_PORT
  BY <1>1, DistAdvance, DistIs
<1>5. (Held \in 0 .. MAX_PORT)'
  BY <1>1, <1>2, <1>3
<1>6. ASSUME NEW p \in Ports PROVE Placed(p)'
  <2>1. Placed(p)
    BY DEF RotInv, Placed
  <2>2. CASE Dist(p) < n
    BY <1>1, <1>2, <1>3, <1>4, <2>2 DEF Placed
  <2>3. CASE ~(Dist(p) < n)
    <3>1. card'.rd[p] = card.rd[p] /\ Dist(p)' = Dist(p) - n
      BY <1>1, <1>2, <1>4, <2>3
    <3>2. Dist(p)' < Held' <=> Dist(p) < Held
      BY <1>2, <1>3, <1>4, <3>1
    <3>3. Len(got'.pkts) + 1 + Dist(p)' = Len(got.pkts) + 1 + Dist(p)
      BY <1>1, <1>2, <1>4, <3>1
    <3> QED
      BY <2>1, <3>1, <3>2, <3>3 DEF Placed
  <2> QED
    BY <2>2, <2>3
<1>7. UpAt'
  <2>1. IF Held = MAX_PORT THEN card.up = curr_rd_port ELSE Dist(card.up) = Held
    BY DEF RotInv
  <2>2. Dist(curr_rd_port) = 0
    BY <1>2 DEF Dist, Ports
  <2>3. Dist(card.up)' = Held - n
    <3>1. (Dist(card.up))' = IF Dist(card.up) >= n THEN Dist(card.up) - n
                                                   ELSE Dist(card.up) - n + MAX_PORT
      <4>1. PICK u \in Ports : u = card.up
        BY <1>2
      <4>2. Dist(u)' = IF Dist(u) >= n THEN Dist(u) - n ELSE Dist(u) - n + MAX_PORT
        BY <1>4
      <4>3. card.up' = u
        BY <1>1, <4>1
      <4>4. Dist(card.up)' = Dist(u)'
        BY <4>3 DEF Dist
      <4> QED
        BY <4>1, <4>2, <4>4
    <3> QED
      BY <1>1, <1>2, <1>4, <2>1, <2>2, <3>1
  <2> QED
    BY <1>1, <1>2, <1>3, <2>3 DEF UpAt
<1>8. Front(mp_rd_bitmap)'
  <2> SUFFICES ASSUME NEW p \in mp_rd_bitmap'
               PROVE  /\ Dist(p)' < Held'
                      /\ \A q \in Ports : Dist(q)' <= Dist(p)' => q \in mp_rd_bitmap'
    BY DEF Front
  <2>1. p \in mp_rd_bitmap /\ p \in Ports /\ Dist(p) >= n
    BY <1>1, <1>2
  <2>2. Dist(p) < Held /\ \A q \in Ports : Dist(q) <= Dist(p) => q \in mp_rd_bitmap
    BY <2>1 DEF RotInv, Front
  <2>3. Dist(p)' = Dist(p) - n
    BY <1>4, <2>1
  <2>4. ASSUME NEW q \in Ports, Dist(q)' <= Dist(p)' PROVE q \in mp_rd_bitmap'
    <3>1. Dist(q) >= n /\ Dist(q) <= Dist(p)
      BY <1>2, <1>4, <2>1, <2>3, <2>4
    <3> QED
      BY <1>1, <2>2, <3>1
  <2>5. Dist(p)' < Held'
    BY <1>2, <1>3, <1>4, <2>1, <2>2, <2>3
  <2> QED
    BY <2>4, <2>5
<1>9. Front(mp_regs.rd)'
  <2>1. mp_regs' = NoRegs
    BY DEF WriteInv, handle_sdio_packet_read
  <2> QED
    BY <2>1 DEF Front, NoRegs
<1>10. InCardOrder'
  <2>1. got'.pkts \in Seq(0 .. MaxRx)
    BY ReadType
  <2>2. DOMAIN got'.pkts = 1 .. Len(got.pkts) + n
    BY <1>1, <2>1, LenProperties
  <2> QED
    BY <1>1, <2>2 DEF InCardOrder
<1> QED
  BY <1>5, <1>6, <1>7, <1>8, <1>9, <1>10 DEF RotInv, Placed, UpAt

LEMMA RotInit == Init => RotInv
<1> SUFFICES ASSUME Init PROVE RotInv
  OBVIOUS
<1>1. /\ MAX_PORT \in Nat /\ MAX_PORT >= 2 /\ curr_rd_port = 0 /\ card.up = 0 /\ card.sent = 0
      /\ card.rd = [p \in Ports |-> NoPkt] /\ got.pkts = <<>> /\ Len(got.pkts) = 0
      /\ mp_rd_bitmap = {} /\ mp_regs.rd = {}
  BY SdioAssumption DEF Init, NoRegs
<1>2. Held = 0 /\ \A p \in Ports : Dist(p) = p
  <2>1. Held = 0
    <3>1. card.sent = 0 /\ Len(got.pkts) = 0
      BY <1>1
    <3>2. Held = card.sent - Len(got.pkts)
      BY DEF Held
    <3> QED
      BY <3>1, <3>2
  <2>2. \A p \in Ports : Dist(p) = p
    BY <1>1 DEF Dist, Ports
  <2> QED
    BY <2>1, <2>2
<1>3. \A p \in Ports : Placed(p)
  BY <1>1, <1>2 DEF Placed, Ports
<1>4. UpAt /\ Held \in 0 .. MAX_PORT /\ InCardOrder
  BY <1>1, <1>2 DEF UpAt, InCardOrder, Dist
<1>5. Front(mp_rd_bitmap) /\ Front(mp_regs.rd)
  BY <1>1 DEF Front
<1> QED
  BY <1>3, <1>4, <1>5 DEF RotInv, Placed, UpAt

LEMMA RotStep ==
  ASSUME TypeInv, WriteInv, RotInv, [Next]_vars
  PROVE  RotInv'
<1>1. CASE CardSends
  BY <1>1, RotSends
<1>2. CASE handle_sdio_packet_read
  BY <1>2, RotRead
<1>3. CASE wlan_interrupt(TRUE)
  BY <1>3, RotRegs
<1>4. CASE ReadFails
  BY <1>4 DEF ReadFails, RotInv
<1>5. CASE wlan_process_int_status
  <2>1. /\ UNCHANGED <<got, curr_rd_port>>
        /\ mp_rd_bitmap' \in {mp_rd_bitmap, mp_regs.rd} /\ mp_regs'.rd = {}
    BY <1>5 DEF wlan_process_int_status, NoRegs
  <2>2. card'.sent = card.sent /\ card'.up = card.up /\ card'.rd = card.rd
    BY <1>5 DEF wlan_process_int_status, TypeInv, CardType
  <2> QED
    BY <2>1, <2>2, RotQuiet
<1>6. CASE \/ Transmit \/ wlan_send_sdio_cmd \/ EnableInterrupt \/ Notified \/ wlan_interrupt(FALSE)
           \/ ReadDone \/ handle_cdint \/ CardFrees \/ CardAnswers \/ UNCHANGED vars
  <2>1. UNCHANGED <<got, curr_rd_port, mp_rd_bitmap, mp_regs>>
    BY <1>6 DEF Transmit, low_level_output, wifi_low_level_output, wlan_send_sdio_cmd,
         EnableInterrupt, Notified, wlan_interrupt, ReadDone, handle_cdint, CardFrees, CardAnswers,
         vars, rx
  <2>2. card'.sent = card.sent /\ card'.up = card.up /\ card'.rd = card.rd
    <3>1. CASE \/ low_level_output \/ EnableInterrupt \/ Notified \/ wlan_interrupt(FALSE)
               \/ ReadDone \/ handle_cdint \/ UNCHANGED vars
      BY <3>1 DEF low_level_output, EnableInterrupt, Notified, wlan_interrupt, ReadDone,
                  handle_cdint, vars
    <3>2. ASSUME NEW ok \in BOOLEAN, wifi_low_level_output(ok)
          PROVE  card'.sent = card.sent /\ card'.up = card.up /\ card'.rd = card.rd
      BY <3>2 DEF wifi_low_level_output, WritePort, TypeInv, CardType
    <3>3. CASE wlan_send_sdio_cmd
      BY <3>3 DEF wlan_send_sdio_cmd, TypeInv, CardType
    <3>4. CASE CardFrees
      BY <3>4 DEF CardFrees, TypeInv, CardType
    <3>5. CASE CardAnswers
      BY <3>5 DEF CardAnswers, TypeInv, CardType
    <3> QED
      BY <1>6, <3>1, <3>2, <3>3, <3>4, <3>5 DEF Transmit
  <2> QED
    BY <2>1, <2>2, RotQuiet
<1>7. (\E ok \in BOOLEAN : wlan_interrupt(ok)) => wlan_interrupt(TRUE) \/ wlan_interrupt(FALSE)
  OBVIOUS
<1> QED
  BY <1>1, <1>2, <1>3, <1>4, <1>5, <1>6, <1>7 DEF Next, CoreStep, Card
-----------------------------------------------------------------------------
(* Nothing is forgotten *)

\* A bitmap that is not empty has the port the rotation is at.
LEMMA FrontFirst ==
  ASSUME TypeInv, RotInv, ~got.failed, RdPorts = 0
  PROVE  mp_rd_bitmap = {}
<1> SUFFICES ASSUME NEW p \in mp_rd_bitmap PROVE FALSE
  OBVIOUS
<1>1. curr_rd_port \in Ports /\ p \in Ports /\ Dist(p) \in 0 .. MAX_PORT - 1
  BY DistIs DEF TypeInv
<1>2. Dist(curr_rd_port) = 0
  BY <1>1, SdioAssumption DEF Dist, Ports
<1>3. curr_rd_port \in mp_rd_bitmap
  BY <1>1, <1>2, SdioAssumption DEF RotInv, Front
<1> QED
  BY <1>3, RdPortsIs

\* The two halves of AnnouncedInv.
PacketsAnnounced ==
  ~got.failed => \A p \in Ports : card.rd[p] # NoPkt =>
       \/ "UP" \in card.ireg
       \/ core = "status" /\ "UP" \in mp_regs.ireg /\ p \in mp_regs.rd
       \/ core = "read" /\ p \in mp_rd_bitmap
AnswerAnnounced ==
  card.cmd = "answered" => "CMD" \in card.ireg \/ (core = "status" /\ "CMD" \in mp_regs.ireg)

LEMMA AnnouncedStep ==
  ASSUME TypeInv, RotInv, AnnouncedInv, [Next]_vars
  PROVE  AnnouncedInv'
<1>0. PacketsAnnounced /\ AnswerAnnounced /\ card \in CardType
  BY DEF AnnouncedInv, PacketsAnnounced, AnswerAnnounced, TypeInv
<1> SUFFICES PacketsAnnounced' /\ AnswerAnnounced'
  BY DEF AnnouncedInv, PacketsAnnounced, AnswerAnnounced
<1> DEFINE Goal == PacketsAnnounced' /\ AnswerAnnounced'
<1>1. CASE \/ low_level_output \/ EnableInterrupt \/ Notified \/ wlan_interrupt(FALSE)
           \/ handle_cdint \/ UNCHANGED vars
  <2>1. /\ UNCHANGED <<got, mp_regs, mp_rd_bitmap, card>>
        /\ core' = core \/ core \notin {"status", "read"}
    BY <1>1 DEF low_level_output, EnableInterrupt, Notified, wlan_interrupt, handle_cdint, vars, rx
  <2> QED
    BY <1>0, <2>1 DEF PacketsAnnounced, AnswerAnnounced
<1>2. ASSUME NEW ok \in BOOLEAN, wifi_low_level_output(ok) PROVE Goal
  <2>1. UNCHANGED <<got, mp_regs, mp_rd_bitmap, core>>
    BY <1>2 DEF wifi_low_level_output, rx
  <2>2. card'.rd = card.rd /\ card'.ireg = card.ireg /\ card'.cmd = card.cmd
    BY <1>0, <1>2 DEF wifi_low_level_output, WritePort, CardType
  <2> QED
    BY <1>0, <2>1, <2>2 DEF PacketsAnnounced, AnswerAnnounced
<1>3. CASE wlan_send_sdio_cmd
  <2>1. UNCHANGED <<got, mp_regs, mp_rd_bitmap, core>>
    BY <1>3 DEF wlan_send_sdio_cmd, rx
  <2>2. card'.rd = card.rd /\ card'.ireg = card.ireg /\ card'.cmd = "sent"
    BY <1>0, <1>3 DEF wlan_send_sdio_cmd, CardType
  <2> QED
    BY <1>0, <2>1, <2>2 DEF PacketsAnnounced, AnswerAnnounced
<1>4. CASE wlan_interrupt(TRUE)
  <2>1. /\ core = "regs" /\ core' = "status" /\ UNCHANGED <<got, mp_rd_bitmap>>
        /\ mp_regs'.ireg = card.ireg /\ mp_regs'.rd = {p \in Ports : card.rd[p] # NoPkt}
    BY <1>4 DEF wlan_interrupt, rx
  <2>2. card'.rd = card.rd /\ card'.cmd = card.cmd
    BY <1>0, <1>4 DEF wlan_interrupt, CardType
  <2>3. PacketsAnnounced'
    BY <1>0, <2>1, <2>2 DEF PacketsAnnounced
  <2>4. AnswerAnnounced'
    BY <1>0, <2>1, <2>2 DEF AnswerAnnounced
  <2> QED
    BY <2>3, <2>4
<1>5. CASE wlan_process_int_status
  <2>1. /\ core = "status" /\ UNCHANGED got
        /\ "UP" \in mp_regs.ireg => mp_rd_bitmap' = mp_regs.rd /\ core' = "read"
    BY <1>5 DEF wlan_process_int_status
  <2>2. /\ card'.rd = card.rd /\ card'.ireg = card.ireg
        /\ card'.cmd = IF "CMD" \in mp_regs.ireg THEN "none" ELSE card.cmd
    BY <1>0, <1>5 DEF wlan_process_int_status, CardType
  <2>3. PacketsAnnounced'
    BY <1>0, <2>1, <2>2 DEF PacketsAnnounced
  <2>4. AnswerAnnounced'
    BY <1>0, <2>1, <2>2 DEF AnswerAnnounced
  <2> QED
    BY <2>3, <2>4
<1>6. CASE handle_sdio_packet_read
  <2>1. core = "read" /\ core' = "read" /\ UNCHANGED mp_regs
    BY <1>6 DEF handle_sdio_packet_read
  <2>2. card'.ireg = card.ireg /\ card'.cmd = card.cmd
    BY <1>0, <1>6 DEF handle_sdio_packet_read, CardType
  <2>3. AnswerAnnounced'
    BY <1>0, <2>1, <2>2 DEF AnswerAnnounced
  <2>4. CASE got.failed
    BY <1>6, <2>3, <2>4 DEF handle_sdio_packet_read, PacketsAnnounced
  <2>5. CASE ~got.failed
    <3>1. PICK n \in 1 .. MAX_PORT - 1 :
            /\ mp_rd_bitmap' = {p \in mp_rd_bitmap : Dist(p) >= n}
            /\ \A p \in Ports : card'.rd[p] = IF Dist(p) < n THEN NoPkt ELSE card.rd[p]
      BY <1>6, <2>5, ReadDoes
    <3>2. \A p \in Ports : card'.rd[p] # NoPkt => card.rd[p] # NoPkt /\ Dist(p) >= n
      BY <3>1, DistIs, SdioAssumption
    <3> QED
      BY <1>0, <2>1, <2>2, <2>3, <2>5, <3>1, <3>2 DEF PacketsAnnounced
  <2> QED
    BY <2>4, <2>5
<1>7. CASE ReadFails
  <2>1. PacketsAnnounced'
    BY <1>7 DEF ReadFails, PacketsAnnounced
  <2>2. AnswerAnnounced'
    BY <1>0, <1>7 DEF ReadFails, AnswerAnnounced
  <2> QED
    BY <2>1, <2>2
<1>8. CASE ReadDone
  <2>1. core = "read" /\ RdPorts = 0 /\ UNCHANGED <<card, got>>
    BY <1>8 DEF ReadDone, rx
  <2>2. AnswerAnnounced'
    BY <1>0, <2>1 DEF AnswerAnnounced
  <2>3. ~got.failed => mp_rd_bitmap = {}
    BY <2>1, FrontFirst
  <2>4. PacketsAnnounced'
    BY <1>0, <2>1, <2>3 DEF PacketsAnnounced
  <2> QED
    BY <2>2, <2>4
<1>9. CASE CardSends
  <2>1. UNCHANGED <<got, mp_regs, mp_rd_bitmap, core>>
    BY <1>9 DEF CardSends, rx
  <2>2. "UP" \in card'.ireg /\ card.ireg \subseteq card'.ireg /\ card'.cmd = card.cmd
    BY <1>0, <1>9 DEF CardSends, CardType
  <2> QED
    BY <1>0, <2>1, <2>2 DEF PacketsAnnounced, AnswerAnnounced
<1>10. CASE CardFrees \/ CardAnswers
  <2>1. UNCHANGED <<got, mp_regs, mp_rd_bitmap, core>>
    BY <1>10 DEF CardFrees, CardAnswers, rx
  <2>2. /\ card'.rd = card.rd /\ card.ireg \subseteq card'.ireg
        /\ card'.cmd = card.cmd \/ "CMD" \in card'.ireg
    <3>1. CASE CardFrees
      BY <1>0, <3>1 DEF CardFrees, CardType
    <3>2. CASE CardAnswers
      BY <1>0, <3>2 DEF CardAnswers, CardType
    <3> QED
      BY <1>10, <3>1, <3>2
  <2> QED
    BY <1>0, <2>1, <2>2 DEF PacketsAnnounced, AnswerAnnounced
<1>11. (\E ok \in BOOLEAN : wlan_interrupt(ok)) => wlan_interrupt(TRUE) \/ wlan_interrupt(FALSE)
  OBVIOUS
<1> QED
  BY <1>1, <1>2, <1>3, <1>4, <1>5, <1>6, <1>7, <1>8, <1>9, <1>10, <1>11
  DEF Next, Transmit, CoreStep, Card
-----------------------------------------------------------------------------
(* The theorems *)

LEMMA SdioInvInvariant == Spec => []SdioInv
<1>1. Init => SdioInv
  <2> SUFFICES ASSUME Init PROVE SdioInv
    OBVIOUS
  <2>1. WriteInv
    BY DEF Init, WriteInv, PortsOffered
  <2>2. IntInv
    BY DEF Init, IntInv
  <2>3. AnnouncedInv
    BY DEF Init, AnnouncedInv
  <2> QED
    BY <2>1, <2>2, <2>3, TypeInit, RotInit DEF SdioInv
<1>2. SdioInv /\ [Next]_vars => SdioInv'
  BY TypeStep, WriteStep, IntStep, RotStep, AnnouncedStep DEF SdioInv
<1> QED
  BY <1>1, <1>2, PTL DEF Spec

\* The variables keep their types: the ports the driver and the card use are data ports.
THEOREM SdioTypes == Spec => []TypeOK
<1>1. SdioInv => TypeOK
  BY DEF SdioInv, TypeInv, TypeOK, CardType, RegsType, IntType
<1> QED
  BY <1>1, SdioInvInvariant, PTL

\* mp_wr_bitmap never has a port the card does not offer, for any number of ports, whatever
\* writes and reads fail.
THEOREM PortsAlwaysOffered == Spec => []PortsOffered
<1>1. SdioInv => PortsOffered
  BY DEF SdioInv, WriteInv
<1> QED
  BY <1>1, SdioInvInvariant, PTL

\* Packets are handed up in the order the card sent them, each once, for any number of ports
\* and of packets and any limit on an aggregated read, until a read fails.
THEOREM AlwaysInCardOrder == Spec => []InCardOrder
<1>1. SdioInv => InCardOrder
  BY DEF SdioInv, RotInv, InCardOrder
<1> QED
  BY <1>1, SdioInvInvariant, PTL

\* No packet and no answer of the card is left without an interrupt or a read to come, and
\* the core thread never waits for an interrupt that is not enabled.
THEOREM NothingEverForgotten == Spec => []NothingForgotten
<1>1. SdioInv => NothingForgotten
  <2> SUFFICES ASSUME SdioInv PROVE NothingForgotten
    OBVIOUS
  <2>1. ~got.failed /\ mp_rd_bitmap # {} => RdPorts > 0
    BY FrontFirst, RdPortsIs, SdioAssumption DEF SdioInv
  <2> QED
    BY <2>1 DEF SdioInv, IntInv, AnnouncedInv, NothingForgotten
<1> QED
  BY <1>1, SdioInvInvariant, PTL
=============================================================================
