-------------------------------- MODULE Sdio --------------------------------
(***************************************************************************)
(* The SDIO bus between driver and card (wifi-sdio.c, mlan_sdio.c, wifi.c, *)
(* port/lwip/wifi_netif.c): data ports used in rotation in both            *)
(* directions, bitmaps of the ports that are ready, the card interrupt and *)
(* the thread wifi_core_input() it wakes, a transmitter and a sender of    *)
(* commands.  They share the bus under txrx_mutex.                         *)
(*                                                                         *)
(* A packet received is its number; of a packet transmitted only the port  *)
(* it goes to is kept, and of the buffer outbuf, which packets and         *)
(* commands are copied into, nothing.  What is done under the mutex        *)
(* without a look at what the card changes meanwhile is one step; so is an *)
(* aggregated read.  The core thread holds the mutex from reading the      *)
(* registers to the last packet.                                           *)
(*                                                                         *)
(* Build: CONFIG_SDIO_MULTI_PORT_RX_AGGR, a separate command port (not     *)
(* SD8801), no CONFIG_WMM, no LWIP_NETIF_TX_SINGLE_PBUF.  The packets of   *)
(* one aggregated read fit into inbuf.                                     *)
(***************************************************************************)
EXTENDS Integers, Sequences, FiniteSets

CONSTANTS
  MAX_PORT,        \* data ports; the card's mp_end_port is the same number
  PktLimitMax,     \* SDIO_MP_AGGR_DEF_PKT_LIMIT_MAX
  retry_attempts,  \* attempts to transmit after the first
  MaxRx,           \* bound: packets the card sends up
  May              \* which faults may happen, a subset of {"write", "read", "regs"}

ASSUME SdioAssumption ==
  /\ MAX_PORT \in Nat /\ MAX_PORT >= 2
  /\ PktLimitMax \in Nat \ {0} /\ retry_attempts \in Nat /\ MaxRx \in Nat
  /\ May \subseteq {"write", "read", "regs"}

Ports == 0 .. MAX_PORT - 1
NoPkt == 0
NoRegs == [ireg |-> {}, wr |-> {}, rd |-> {}]

VARIABLES
  card,          \* wr: ports it takes data on; busy: the others, in the order it frees them;
                 \* rd: the packet at each port; up: the port of the next one; sent: how many
                 \* so far; ireg: its interrupt status; cmd: a command and its answer
  int,           \* the card interrupt is enabled; g_txrx_flag; the core thread is notified
  core,          \* where wifi_core_input() is
  mp_regs,       \* the registers as the core thread read them
  mp_wr_bitmap, mp_rd_bitmap, curr_rd_port,
  txportno,
  tx,            \* the transmitter: where it is in low_level_output(), its retries
  got            \* history: packets handed up, and whether a read has failed

rx == <<mp_rd_bitmap, curr_rd_port, got>>
vars == <<card, int, core, mp_regs, mp_wr_bitmap, mp_rd_bitmap, curr_rd_port, txportno, tx, got>>

\* txrx_mutex: the core thread holds it.
SdioLocked == core \in {"regs", "status", "read"}

NextPort(p) == (p + 1) % MAX_PORT
-----------------------------------------------------------------------------
(* Transmission *)

Idle == [pc |-> "idle", retry |-> 0]

\* low_level_output() has a packet in outbuf; nothing is locked.
low_level_output ==
  /\ tx.pc = "idle"
  /\ tx' = [pc |-> "xmit", retry |-> retry_attempts]
  /\ UNCHANGED <<card, int, core, mp_regs, mp_wr_bitmap, rx, txportno>>

\* wlan_xmit_pkt(), written or not: the port is used up either way.
WritePort(ok) ==
  /\ mp_wr_bitmap' = mp_wr_bitmap \ {txportno}
  /\ card' = IF ok THEN [card EXCEPT !.wr = @ \ {txportno}, !.busy = Append(@, txportno)] ELSE card
  /\ txportno' = NextPort(txportno)

\* Mutant: the transmitter does not take the mutex.
wifi_low_level_output_unlocked(ok) ==
  /\ tx.pc = "xmit"
  /\ \/ txportno \in mp_wr_bitmap /\ WritePort(ok)
     \/ txportno \notin mp_wr_bitmap /\ ~ok /\ UNCHANGED <<card, mp_wr_bitmap, txportno>>
  /\ tx' = IF ok \/ tx.retry = 0 THEN Idle ELSE [tx EXCEPT !.retry = @ - 1]
  /\ UNCHANGED <<int, core, mp_regs, rx>>

\* One attempt of wifi_low_level_output().  Without a port, or when the write fails, it
\* is tried again after a tick, and given up in the end.
wifi_low_level_output(ok) ==
  /\ tx.pc = "xmit" /\ ~SdioLocked
  /\ \/ txportno \in mp_wr_bitmap /\ (ok \/ "write" \in May) /\ WritePort(ok)
     \/ txportno \notin mp_wr_bitmap /\ ~ok /\ UNCHANGED <<card, mp_wr_bitmap, txportno>>
  /\ tx' = IF ok \/ tx.retry = 0 THEN Idle ELSE [tx EXCEPT !.retry = @ - 1]
  /\ UNCHANGED <<int, core, mp_regs, rx>>

\* wlan_send_sdio_cmd(): the command goes through outbuf and the command port.  The sender
\* waits for the answer before the next one.
wlan_send_sdio_cmd ==
  /\ card.cmd = "none" /\ ~SdioLocked
  /\ card' = [card EXCEPT !.cmd = "sent"]
  /\ UNCHANGED <<int, core, mp_regs, mp_wr_bitmap, rx, txportno, tx>>
-----------------------------------------------------------------------------
(* The interrupt and the core thread *)

\* Mutant: the interrupt is enabled first and the flag set afterwards, with no critical section.
EnableInterrupt_twice ==
  /\ \/ core = "arm" /\ core' = "flag" /\ int' = [int EXCEPT !.enabled = TRUE]
     \/ core = "flag" /\ core' = "wait" /\ int' = [int EXCEPT !.flag = TRUE]
  /\ UNCHANGED <<card, mp_regs, mp_wr_bitmap, rx, txportno, tx>>

\* The critical section at the head of the loop of wifi_core_input().
EnableInterrupt ==
  /\ core = "arm"
  /\ int' = [int EXCEPT !.enabled = TRUE, !.flag = TRUE]
  /\ core' = "wait"
  /\ UNCHANGED <<card, mp_regs, mp_wr_bitmap, rx, txportno, tx>>

\* SDIO_CardInterruptCallBack() and handle_cdint(), as long as the card has a status to be
\* read: the interrupt is disabled, and the thread notified if it is ready to be.
handle_cdint ==
  /\ int.enabled /\ card.ireg # {}
  /\ int' = [enabled |-> FALSE, flag |-> FALSE, notified |-> int.notified \/ int.flag]
  /\ UNCHANGED <<card, core, mp_regs, mp_wr_bitmap, rx, txportno, tx>>

\* The thread is notified and takes the mutex, which the others hold for one step only.
Notified ==
  /\ core = "wait" /\ int.notified
  /\ int' = [int EXCEPT !.notified = FALSE]
  /\ core' = "regs"
  /\ UNCHANGED <<card, mp_regs, mp_wr_bitmap, rx, txportno, tx>>

\* wlan_interrupt(): one read takes all registers and clears the interrupt status.  When
\* it fails the thread goes back to waiting.
wlan_interrupt(ok) ==
  /\ core = "regs" /\ (ok \/ "regs" \in May)
  /\ IF ok
       THEN /\ mp_regs' = [ireg |-> card.ireg, wr |-> card.wr,
                           rd |-> {p \in Ports : card.rd[p] # NoPkt}]
            /\ card' = [card EXCEPT !.ireg = {}]
            /\ core' = "status"
       ELSE core' = "arm" /\ UNCHANGED <<card, mp_regs>>
  /\ UNCHANGED <<int, mp_wr_bitmap, rx, txportno, tx>>

\* wlan_process_int_status() after that: an answer to a command is read, then the bitmaps
\* are taken over.  mp_regs is not looked at again before it is read anew.
wlan_process_int_status ==
  /\ core = "status"
  /\ card' = IF "CMD" \in mp_regs.ireg THEN [card EXCEPT !.cmd = "none"] ELSE card
  /\ mp_wr_bitmap' = IF mp_regs.ireg # {} THEN mp_regs.wr ELSE mp_wr_bitmap
  /\ IF "UP" \in mp_regs.ireg
       THEN mp_rd_bitmap' = mp_regs.rd /\ core' = "read"
       ELSE core' = "arm" /\ UNCHANGED mp_rd_bitmap
  /\ mp_regs' = NoRegs
  /\ UNCHANGED <<int, curr_rd_port, txportno, tx, got>>

\* Mutant: one port too many is added to an aggregated read.
RdPorts_more ==
  LET run(k) == \A i \in 0 .. k - 2 : (curr_rd_port + i) % MAX_PORT \in mp_rd_bitmap
  IN IF curr_rd_port \notin mp_rd_bitmap THEN 0
     ELSE CHOOSE k \in 1 .. MAX_PORT : run(k) /\ \A j \in k + 1 .. MAX_PORT : ~run(j)

\* Ports read at once by wlan_get_rd_port(): those that follow curr_rd_port and are ready,
\* up to the limits, but not past the last port, where the unsigned difference
\* curr_rd_port - start_port ends the loop.
RdPorts ==
  LET run(k) == k >= 1 => /\ \A i \in 0 .. k - 1 : curr_rd_port + i \in mp_rd_bitmap
                          /\ k <= PktLimitMax /\ (k = 1 \/ k <= MAX_PORT \div 2)
  IN CHOOSE k \in 0 .. MAX_PORT : run(k) /\ \A j \in k + 1 .. MAX_PORT : ~run(j)

\* Mutant: the rotation wraps one port too late.
Advance_late(n) == (curr_rd_port + n) % (MAX_PORT + 1)

\* curr_rd_port after a read of n ports.
Advance(n) == (curr_rd_port + n) % MAX_PORT

\* handle_sdio_packet_read(): one read, of one or several ports, and what was read is handed
\* up in the order of the ports.
handle_sdio_packet_read ==
  /\ core = "read" /\ RdPorts > 0
  /\ LET n == RdPorts
         read == [i \in 1 .. n |-> (curr_rd_port + i - 1) % MAX_PORT]
     IN /\ mp_rd_bitmap' = mp_rd_bitmap \ {read[i] : i \in 1 .. n}
        /\ curr_rd_port' = Advance(n)
        /\ card' = [card EXCEPT !.rd = [p \in Ports |-> IF \E i \in 1 .. n : read[i] = p
                                                          THEN NoPkt ELSE @[p]]]
        /\ got' = IF got.failed THEN got
                  ELSE [got EXCEPT !.pkts = @ \o [i \in 1 .. n |-> card.rd[read[i]]]]
  /\ UNCHANGED <<int, core, mp_regs, mp_wr_bitmap, txportno, tx>>

\* The read fails, an aggregated one after its retries: the ports count as read on this side
\* and the loop ends.  The failure of a single read is not looked at: what inbuf held before
\* is handed up and the loop goes on.
ReadFails ==
  /\ core = "read" /\ RdPorts > 0 /\ "read" \in May
  /\ mp_rd_bitmap' = mp_rd_bitmap \ {(curr_rd_port + i) % MAX_PORT : i \in 0 .. RdPorts - 1}
  /\ curr_rd_port' = Advance(RdPorts)
  /\ got' = [pkts |-> <<>>, failed |-> TRUE]
  /\ core' = IF RdPorts > 1 THEN "arm" ELSE "read"
  /\ UNCHANGED <<card, int, mp_regs, mp_wr_bitmap, txportno, tx>>

\* Nothing more to read: the mutex is put.
ReadDone ==
  /\ core = "read" /\ RdPorts = 0
  /\ core' = "arm"
  /\ UNCHANGED <<card, int, mp_regs, mp_wr_bitmap, rx, txportno, tx>>
-----------------------------------------------------------------------------
(* The card *)

\* The next packet is put at the next port, once that one has been read.
CardSends ==
  /\ card.sent < MaxRx /\ card.rd[card.up] = NoPkt
  /\ card' = [card EXCEPT !.rd[card.up] = card.sent + 1, !.up = NextPort(@), !.sent = @ + 1,
                          !.ireg = @ \cup {"UP"}]
  /\ UNCHANGED <<int, core, mp_regs, mp_wr_bitmap, rx, txportno, tx>>

\* Ports are freed in the order they were written.
CardFrees ==
  /\ card.busy # <<>>
  /\ card' = [card EXCEPT !.wr = @ \cup {Head(card.busy)}, !.busy = Tail(@), !.ireg = @ \cup {"DN"}]
  /\ UNCHANGED <<int, core, mp_regs, mp_wr_bitmap, rx, txportno, tx>>

CardAnswers ==
  /\ card.cmd = "sent"
  /\ card' = [card EXCEPT !.cmd = "answered", !.ireg = @ \cup {"CMD"}]
  /\ UNCHANGED <<int, core, mp_regs, mp_wr_bitmap, rx, txportno, tx>>
-----------------------------------------------------------------------------
Init ==
  /\ card = [wr |-> Ports, busy |-> <<>>, rd |-> [p \in Ports |-> NoPkt], up |-> 0, sent |-> 0,
             ireg |-> {}, cmd |-> "none"]
  /\ int = [enabled |-> FALSE, flag |-> FALSE, notified |-> FALSE]
  /\ core = "arm"
  /\ mp_regs = NoRegs
  /\ mp_wr_bitmap = {} /\ mp_rd_bitmap = {} /\ curr_rd_port = 0 /\ txportno = 0
  /\ tx = Idle
  /\ got = [pkts |-> <<>>, failed |-> FALSE]

Transmit == low_level_output \/ \E ok \in BOOLEAN : wifi_low_level_output(ok)

CoreStep ==
  \/ EnableInterrupt \/ Notified \/ (\E ok \in BOOLEAN : wlan_interrupt(ok))
  \/ wlan_process_int_status \/ handle_sdio_packet_read \/ ReadFails \/ ReadDone

Card == CardSends \/ CardFrees \/ CardAnswers

Next == Transmit \/ wlan_send_sdio_cmd \/ CoreStep \/ handle_cdint \/ Card

Spec == Init /\ [][Next]_vars
-----------------------------------------------------------------------------
TypeOK ==
  /\ card.wr \subseteq Ports /\ card.busy \in Seq(Ports) /\ card.rd \in [Ports -> 0 .. MaxRx]
  /\ card.up \in Ports /\ card.sent \in 0 .. MaxRx
  /\ card.ireg \subseteq {"UP", "DN", "CMD"} /\ card.cmd \in {"none", "sent", "answered"}
  /\ int \in [enabled : BOOLEAN, flag : BOOLEAN, notified : BOOLEAN]
  /\ core \in {"arm", "wait", "regs", "status", "read"}
  /\ mp_regs.ireg \subseteq {"UP", "DN", "CMD"}
  /\ mp_regs.wr \subseteq Ports /\ mp_regs.rd \subseteq Ports
  /\ mp_wr_bitmap \subseteq Ports /\ mp_rd_bitmap \subseteq Ports
  /\ curr_rd_port \in Ports /\ txportno \in Ports
  /\ tx \in [pc : {"idle", "xmit"}, retry : 0 .. retry_attempts]
  /\ got.failed \in BOOLEAN

\* A port the driver takes for free is one the card offers ("Check if the port is available"),
\* also between the interrupt that reports the ports and the next: mp_wr_bitmap is replaced as
\* a whole from registers read earlier, and only txrx_mutex keeps a transmission from coming
\* between the two.
PortsOffered == mp_wr_bitmap \subseteq card.wr

\* Packets are handed up in the order the card sent them, each once, as long as no read has
\* failed: the rotation of curr_rd_port keeps up with the card's over many aggregated reads.
InCardOrder == ~got.failed => \A i \in DOMAIN got.pkts : got.pkts[i] = i

\* Nothing the card has for the driver is forgotten: the thread waits only when it is
\* notified or the interrupt will notify it, and a packet at a port or an answer is announced
\* by the card's interrupt status or is among what the thread is about to read.  It is what
\* the critical section of wifi_core_input(), handle_cdint() and the one read that takes the
\* registers and clears the status keep up together.
NothingForgotten ==
  /\ core = "wait" => int.notified \/ (int.enabled /\ int.flag)
  /\ core = "wait" /\ int.notified => ~int.enabled
  /\ ~got.failed => \A p \in Ports : card.rd[p] # NoPkt =>
       \/ "UP" \in card.ireg
       \/ core = "status" /\ "UP" \in mp_regs.ireg /\ p \in mp_regs.rd
       \/ core = "read" /\ p \in mp_rd_bitmap /\ RdPorts > 0
  /\ card.cmd = "answered" => "CMD" \in card.ireg \/ (core = "status" /\ "CMD" \in mp_regs.ireg)
=============================================================================
