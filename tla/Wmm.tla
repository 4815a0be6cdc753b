-------------------------------- MODULE Wmm --------------------------------
(***************************************************************************)
(* The WMM transmit queues (CONFIG_WMM: mlan_wmm.c, wifi.c, mlan_glue.c,   *)
(* port/lwip/wifi_netif.c) of the micro-AP interface: a pool of buffers,   *)
(* for each access category a list of receiver addresses with a queue of   *)
(* buffers each, a sender (lwIP has one at a time), the thread             *)
(* wifi_driver_tx() that empties the queues, the driver's thread, with     *)
(* clients that come and go, and the core thread, which handles the        *)
(* firmware's requests to pause as it reads them from the card.            *)
(*                                                                         *)
(* A lock per category guards its list; only wifi_driver_tx() holds it     *)
(* over several steps, so it is written as a guard on the others.  A       *)
(* buffer is which one it is and the number of the packet in it.  total_   *)
(* pkts is the length of the queue: both change under one lock.  Built     *)
(* without AMSDU_IN_AMPDU.                                                 *)
(***************************************************************************)
EXTENDS Integers, Sequences, FiniteSets, SequencesExt

CONSTANTS
  MAX_WMM_BUF_NUM, MAX_AC_QUEUES,
  Clients, Bcast,   \* receiver addresses
  BcastPkts,        \* bound: the packets that may be broadcasts
  retry_attempts,   \* attempts to find a buffer
  MaxPkts           \* bound: packets sent

ASSUME WmmAssumption ==
  /\ MAX_WMM_BUF_NUM \in Nat \ {0} /\ MAX_AC_QUEUES \in Nat \ {0}
  /\ IsFiniteSet(Clients) /\ Bcast \notin Clients /\ BcastPkts \subseteq Nat
  /\ retry_attempts \in Nat \ {0} /\ MaxPkts \in Nat

Bufs == 1 .. MAX_WMM_BUF_NUM
NoBuf == 0
Acs == 0 .. MAX_AC_QUEUES - 1
RAs == Clients \cup {Bcast}

VARIABLES
  free,         \* outbuf_pool
  ra_list,      \* per category: the nodes [ra, tx_pause, buf_head], in order; a queued buffer is
                \* <<which, the number of its packet>>
  pkts_queued,  \* per category
  priv,         \* tx_pause and media_connected of the interface
  snd,          \* the sender: where it is in low_level_output()
  tx,           \* wifi_driver_tx(): where it is, and (history) what its last round gave up for
  drv,          \* the driver: the event it handles and the category it is at
  core,         \* the core thread: the same, for EVENT_TX_DATA_PAUSE
  notified,     \* wifi_driver_tx() has a notification
  pkt           \* history: the number of the sender's packet

lists == <<free, ra_list, pkts_queued>>
vars == <<free, ra_list, pkts_queued, priv, snd, tx, drv, core, notified, pkt>>

\* wlan_wmm_get_ralist_node(): the position of the first node of the address, or 0.
wlan_wmm_get_ralist_node(ac, ra) == SelectInSeq(ra_list[ac], LAMBDA nd : nd.ra = ra)
Known(ac, ra) == wlan_wmm_get_ralist_node(ac, ra) # 0

\* The lock of a category's list.
Locked(ac) == tx.pc = "xmit" /\ tx.ac = ac

wifi_wmm_is_tx_pause(ac, ra) ==
  priv.tx_pause \/ (Known(ac, ra) /\ ra_list[ac][wlan_wmm_get_ralist_node(ac, ra)].tx_pause)

AppendTo(ac, k, b) == [ra_list EXCEPT ![ac][k].buf_head = Append(@, b)]
-----------------------------------------------------------------------------
(* The sender: low_level_output() and wifi_low_level_output() *)

NoEvent == [pc |-> "idle", ra |-> Bcast, i |-> 0]
Idle == [pc |-> "idle", ra |-> Bcast, ac |-> 0, buf |-> NoBuf, retry |-> 0, i |-> 0]

\* wifi_wmm_get_outbuf_enh(), first part.  For an address that is paused the packet is dropped.
low_level_output(ra, ac) ==
  /\ snd.pc = "idle" /\ pkt < MaxPkts
  /\ ~Locked(ac) /\ ~wifi_wmm_is_tx_pause(ac, ra)
  /\ snd' = [Idle EXCEPT !.pc = "get", !.ra = ra, !.ac = ac, !.retry = retry_attempts]
  /\ pkt' = pkt + 1
  /\ UNCHANGED <<lists, priv, tx, drv, core, notified>>

wifi_wmm_buf_get ==
  /\ snd.pc = "get"
  /\ IF free = {} THEN /\ snd' = [snd EXCEPT !.pc = "steal", !.i = 0]
                       /\ UNCHANGED free
     ELSE LET b == CHOOSE x \in free : \A y \in free : x <= y
          IN  /\ free' = free \ {b}
              /\ snd' = [snd EXCEPT !.pc = "out", !.buf = b, !.retry = 0, !.i = 0]
  /\ UNCHANGED <<ra_list, pkts_queued, priv, tx, drv, core, notified, pkt>>

\* The oldest packet of the first other address that is paused, or of any if the interface is.
Stealable(nd) == nd.buf_head # <<>> /\ (priv.tx_pause \/ (nd.ra # snd.ra /\ nd.tx_pause))
\* Mutant: the count of the category is not corrected.
wifi_wmm_get_alter_buf_from_txqueue_uncounted ==
  /\ snd.pc = "steal" /\ ~Locked(snd.i)
  /\ LET k == SelectInSeq(ra_list[snd.i], Stealable)
     IN  IF k = 0 THEN /\ snd' = IF snd.i = MAX_AC_QUEUES - 1 THEN [snd EXCEPT !.pc = "again", !.i = 0]
                                 ELSE [snd EXCEPT !.i = @ + 1]
                       /\ UNCHANGED ra_list
         ELSE LET b == Head(ra_list[snd.i][k].buf_head)[1]
              IN  /\ ra_list' = [ra_list EXCEPT ![snd.i][k].buf_head = Tail(@)]
                  /\ snd' = [snd EXCEPT !.pc = "out", !.buf = b, !.retry = 0, !.i = 0]
  /\ UNCHANGED <<free, pkts_queued, priv, tx, drv, core, notified, pkt>>
wifi_wmm_get_alter_buf_from_txqueue ==
  /\ snd.pc = "steal" /\ ~Locked(snd.i)
  /\ LET k == IF pkts_queued[snd.i] = 0 THEN 0 ELSE SelectInSeq(ra_list[snd.i], Stealable)
     IN  IF k = 0 THEN /\ snd' = IF snd.i = MAX_AC_QUEUES - 1 THEN [snd EXCEPT !.pc = "again", !.i = 0]
                                 ELSE [snd EXCEPT !.i = @ + 1]
                       /\ UNCHANGED <<ra_list, pkts_queued>>
         ELSE LET b == Head(ra_list[snd.i][k].buf_head)[1]
              IN  /\ ra_list' = [ra_list EXCEPT ![snd.i][k].buf_head = Tail(@)]
                  /\ pkts_queued' = [pkts_queued EXCEPT ![snd.i] = @ - 1]
                  /\ snd' = [snd EXCEPT !.pc = "out", !.buf = b, !.retry = 0, !.i = 0]
  /\ UNCHANGED <<free, priv, tx, drv, core, notified, pkt>>

\* The loop of low_level_output(): drop the packet, or wake wifi_driver_tx() and look again.
Retry ==
  /\ snd.pc = "again"
  /\ IF snd.retry = 1 THEN snd' = Idle /\ UNCHANGED notified
     ELSE /\ ~Locked(snd.ac)
          /\ notified' = TRUE
          /\ snd' = IF wifi_wmm_is_tx_pause(snd.ac, snd.ra) THEN Idle
                    ELSE [snd EXCEPT !.pc = "get", !.retry = @ - 1]
  /\ UNCHANGED <<lists, priv, tx, drv, core, pkt>>

\* Mutant: the buffer is not put back when there is no link.
wifi_low_level_output_leaks ==
  /\ snd.pc = "out"
  /\ snd' = IF priv.media_connected THEN [snd EXCEPT !.pc = "enqueue"] ELSE Idle
  /\ UNCHANGED <<lists, priv, tx, drv, core, notified, pkt>>
wifi_low_level_output ==
  /\ snd.pc = "out"
  /\ IF priv.media_connected THEN snd' = [snd EXCEPT !.pc = "enqueue"] /\ UNCHANGED free
     ELSE snd' = Idle /\ free' = free \cup {snd.buf}
  /\ UNCHANGED <<ra_list, pkts_queued, priv, tx, drv, core, notified, pkt>>

\* wlan_wmm_add_buf_txqueue_enh(): the node may have gone, and is then added for broadcasts only.
wlan_wmm_add_buf_txqueue_enh ==
  /\ snd.pc \in {"enqueue", "added"} /\ ~Locked(snd.ac)
  /\ LET k == wlan_wmm_get_ralist_node(snd.ac, snd.ra)
     IN  \/ /\ k # 0
            /\ ra_list' = AppendTo(snd.ac, k, <<snd.buf, pkt>>)
            /\ pkts_queued' = [pkts_queued EXCEPT ![snd.ac] = @ + 1]
            /\ snd' = [snd EXCEPT !.pc = "notify", !.buf = NoBuf]
            /\ UNCHANGED free
         \/ /\ k = 0 /\ snd.ra = Bcast /\ snd.pc = "enqueue"
            /\ snd' = [snd EXCEPT !.pc = "add", !.i = 0]
            /\ UNCHANGED <<free, ra_list, pkts_queued>>
         \/ /\ k = 0 /\ ~(snd.ra = Bcast /\ snd.pc = "enqueue")
            /\ free' = free \cup {snd.buf} /\ snd' = Idle
            /\ UNCHANGED <<ra_list, pkts_queued>>
  /\ UNCHANGED <<priv, tx, drv, core, notified, pkt>>

\* Mutant: wifi_driver_tx() is not told.
send_wifi_driver_tx_data_event_lost ==
  /\ snd.pc = "notify"
  /\ snd' = Idle
  /\ UNCHANGED <<lists, priv, tx, drv, core, notified, pkt>>
send_wifi_driver_tx_data_event ==
  /\ snd.pc = "notify"
  /\ notified' = TRUE /\ snd' = Idle
  /\ UNCHANGED <<lists, priv, tx, drv, core, pkt>>
-----------------------------------------------------------------------------
(* wlan_ralist_add_enh(), for the sender and for the driver: category by category.  The node is
   looked for without the lock; it may find no memory and then leaves the rest out. *)

Added(ac, ra) == [ra_list EXCEPT ![ac] = Append(@, [ra |-> ra, tx_pause |-> FALSE, buf_head |-> <<>>])]

\* The step of the loop at category i for the thread's record r; done is the record at the end.
AddStep(r, new, done) ==
  \/ /\ \/ Known(r.i, r.ra) /\ UNCHANGED ra_list
        \/ ~Known(r.i, r.ra) /\ ~Locked(r.i) /\ ra_list' = Added(r.i, r.ra)
     /\ new = IF r.i = MAX_AC_QUEUES - 1 THEN done ELSE [r EXCEPT !.i = @ + 1]
  \/ ~Known(r.i, r.ra) /\ UNCHANGED ra_list /\ new = done

SenderAdds ==
  /\ snd.pc = "add"
  /\ AddStep(snd, snd', [snd EXCEPT !.pc = "added", !.i = 0])
  /\ UNCHANGED <<free, pkts_queued, priv, tx, drv, core, notified, pkt>>

wlan_ralist_add_enh ==
  /\ drv.pc = "add"
  /\ AddStep(drv, drv', NoEvent)
  /\ UNCHANGED <<free, pkts_queued, priv, snd, tx, core, notified, pkt>>
-----------------------------------------------------------------------------
(* Events of the firmware *)

\* For the driver: a client associates (what was left of it is deleted first), or goes.
Event(pc, ra) ==
  /\ drv.pc = "idle"
  /\ drv' = [pc |-> pc, ra |-> ra, i |-> 0]
  /\ UNCHANGED <<lists, priv, snd, tx, core, notified, pkt>>

\* EVENT_TX_DATA_PAUSE, which is not put in the driver's queue: the firmware wants the packets
\* of a client held back, or no longer.
DataPause(pc, ra) ==
  /\ core.pc = "idle"
  /\ core' = [pc |-> pc, ra |-> ra, i |-> 0]
  /\ UNCHANGED <<lists, priv, snd, tx, drv, notified, pkt>>

wlan_ralist_del_enh ==
  /\ drv.pc \in {"assoc", "gone"} /\ ~Locked(drv.i)
  /\ LET k == wlan_wmm_get_ralist_node(drv.i, drv.ra)
     IN  IF k = 0 THEN UNCHANGED <<free, ra_list, pkts_queued>>
         ELSE /\ free' = free \cup {e[1] : e \in ToSet(ra_list[drv.i][k].buf_head)}
              /\ pkts_queued' = [pkts_queued EXCEPT ![drv.i] = @ - Len(ra_list[drv.i][k].buf_head)]
              /\ ra_list' = [ra_list EXCEPT ![drv.i] = RemoveAt(@, k)]
  /\ drv' = IF drv.i < MAX_AC_QUEUES - 1 THEN [drv EXCEPT !.i = @ + 1]
            ELSE IF drv.pc = "assoc" THEN [drv EXCEPT !.pc = "add", !.i = 0] ELSE NoEvent
  /\ UNCHANGED <<priv, snd, tx, core, notified, pkt>>

\* wifi_uap_handle_event_data_pause() for a client: node by node, then the trigger.
PauseClient ==
  /\ core.pc \in {"pause", "resume"} /\ ~Locked(core.i)
  /\ LET k == wlan_wmm_get_ralist_node(core.i, core.ra)
     IN  ra_list' = IF k = 0 THEN ra_list ELSE [ra_list EXCEPT ![core.i][k].tx_pause = core.pc = "pause"]
  /\ core' = IF core.i < MAX_AC_QUEUES - 1 THEN [core EXCEPT !.i = @ + 1] ELSE NoEvent
  /\ notified' = (notified \/ (core.i = MAX_AC_QUEUES - 1 /\ core.pc = "resume"))
  /\ UNCHANGED <<free, pkts_queued, priv, snd, tx, drv, pkt>>

\* The same for the interface's own address.
PauseInterface(on) ==
  /\ core.pc = "idle"
  /\ priv' = [priv EXCEPT !.tx_pause = on]
  /\ notified' = (notified \/ ~on)
  /\ UNCHANGED <<lists, snd, tx, drv, core, pkt>>

\* EVENT_MICRO_AP_BSS_ACTIVE, EVENT_MICRO_AP_BSS_IDLE
BssActive(on) ==
  /\ drv.pc = "idle"
  /\ priv' = [priv EXCEPT !.media_connected = on]
  /\ UNCHANGED <<lists, snd, tx, drv, core, notified, pkt>>
-----------------------------------------------------------------------------
(* wifi_driver_tx() *)

NoTx == [pc |-> "idle", ac |-> 0, left |-> "nothing"]

\* Woken: unless the card cannot be woken, no buffer is used, there is no link or the interface
\* is paused, a round begins at the highest category.
wifi_driver_tx(awake) ==
  /\ tx.pc = "idle" /\ notified
  /\ notified' = FALSE
  /\ tx' = IF ~awake THEN [tx EXCEPT !.left = "card"]
           ELSE IF free = Bufs \/ (priv.media_connected /\ priv.tx_pause) THEN NoTx
           ELSE IF ~priv.media_connected THEN [tx EXCEPT !.left = "link"]
           ELSE [pc |-> "round", ac |-> MAX_AC_QUEUES - 1, left |-> "nothing"]
  /\ UNCHANGED <<lists, priv, snd, drv, core, pkt>>

NextAc == IF tx.ac = 0 THEN [NoTx EXCEPT !.left = tx.left] ELSE [tx EXCEPT !.pc = "round", !.ac = @ - 1]

\* wifi_xmit_wmm_ac_pkts_enh() takes the lock of a category that has packets.
TakeAc ==
  /\ tx.pc = "round"
  /\ tx' = IF pkts_queued[tx.ac] = 0 THEN NextAc ELSE [tx EXCEPT !.pc = "xmit"]
  /\ UNCHANGED <<lists, priv, snd, drv, core, notified, pkt>>

\* wifi_xmit_ralist_pkts(): the first address that is not paused and has packets, or 0.
NextNode == SelectInSeq(ra_list[tx.ac], LAMBDA nd : ~nd.tx_pause /\ nd.buf_head # <<>>)

AcDone ==
  /\ tx.pc = "xmit" /\ NextNode = 0
  /\ tx' = NextAc
  /\ UNCHANGED <<lists, priv, snd, drv, core, notified, pkt>>

\* Mutant: a packet the card has no port for goes to the end of its queue.
wifi_xmit_pkts_tail(ok) ==
  /\ tx.pc = "xmit" /\ NextNode # 0
  /\ LET e == Head(ra_list[tx.ac][NextNode].buf_head)
         rest == [ra_list EXCEPT ![tx.ac][NextNode].buf_head = Tail(@)]
     IN  \/ /\ ok
            /\ ra_list' = rest /\ free' = free \cup {e[1]}
            /\ pkts_queued' = [pkts_queued EXCEPT ![tx.ac] = @ - 1]
            /\ UNCHANGED tx
         \/ /\ ~ok
            /\ tx' = [NoTx EXCEPT !.left = "card"]
            /\ ra_list' = [rest EXCEPT ![tx.ac][NextNode].buf_head = Append(@, e)]
            /\ UNCHANGED <<free, pkts_queued>>
  /\ UNCHANGED <<priv, snd, drv, core, notified, pkt>>
\* wifi_xmit_pkts(): a packet goes to the card; if the card has no port it stays at the head of
\* its queue and the round ends.
wifi_xmit_pkts(ok) ==
  /\ tx.pc = "xmit" /\ NextNode # 0
  /\ \/ /\ ok
        /\ ra_list' = [ra_list EXCEPT ![tx.ac][NextNode].buf_head = Tail(@)]
        /\ free' = free \cup {Head(ra_list[tx.ac][NextNode].buf_head)[1]}
        /\ pkts_queued' = [pkts_queued EXCEPT ![tx.ac] = @ - 1]
        /\ UNCHANGED tx
     \/ /\ ~ok
        /\ tx' = [NoTx EXCEPT !.left = "card"]
        /\ UNCHANGED lists
  /\ UNCHANGED <<priv, snd, drv, core, notified, pkt>>
-----------------------------------------------------------------------------
\* wifi_wmm_buf_pool_init(): all buffers are free.
Init ==
  /\ free = Bufs /\ pkt = 0
  /\ ra_list = [ac \in Acs |-> <<>>] /\ pkts_queued = [ac \in Acs |-> 0]
  /\ priv = [tx_pause |-> FALSE, media_connected |-> FALSE]
  /\ snd = Idle /\ drv = NoEvent /\ core = NoEvent
  /\ tx = NoTx
  /\ notified = FALSE

Sender ==
  \/ wifi_wmm_buf_get \/ wifi_wmm_get_alter_buf_from_txqueue \/ Retry \/ wifi_low_level_output
  \/ wlan_wmm_add_buf_txqueue_enh \/ send_wifi_driver_tx_data_event \/ SenderAdds

Transmitter == TakeAc \/ AcDone \/ \E ok \in BOOLEAN : wifi_driver_tx(ok) \/ wifi_xmit_pkts(ok)

Driver == wlan_ralist_del_enh \/ wlan_ralist_add_enh

Core == PauseClient

Firmware ==
  \/ \E pc \in {"assoc", "gone"}, ra \in Clients : Event(pc, ra)
  \/ \E pc \in {"pause", "resume"}, ra \in Clients : DataPause(pc, ra)
  \/ \E on \in BOOLEAN : PauseInterface(on) \/ BssActive(on)

Output == \/ \E ra \in Clients, ac \in Acs : low_level_output(ra, ac)
          \/ pkt + 1 \in BcastPkts /\ \E ac \in Acs : low_level_output(Bcast, ac)

Next == Output \/ Sender \/ Transmitter \/ Driver \/ Core \/ Firmware

Spec == Init /\ [][Next]_vars
-----------------------------------------------------------------------------
NodeType == [ra : RAs, tx_pause : BOOLEAN, buf_head : Seq(Bufs \X (1 .. MaxPkts))]

TypeOK ==
  /\ free \subseteq Bufs /\ pkt \in 0 .. MaxPkts
  /\ ra_list \in [Acs -> Seq(NodeType)] /\ pkts_queued \in [Acs -> 0 .. MAX_WMM_BUF_NUM]
  /\ priv \in [tx_pause : BOOLEAN, media_connected : BOOLEAN]
  /\ snd.pc \in {"idle", "get", "steal", "again", "out", "enqueue", "add", "added", "notify"}
  /\ snd.buf \in Bufs \cup {NoBuf} /\ snd.retry \in 0 .. retry_attempts /\ snd.i \in Acs
  /\ tx.pc \in {"idle", "round", "xmit"} /\ tx.left \in {"nothing", "card", "link"}
  /\ drv \in [pc : {"idle", "assoc", "gone", "add"}, ra : RAs, i : Acs]
  /\ core \in [pc : {"idle", "pause", "resume"}, ra : RAs, i : Acs]
  /\ notified \in BOOLEAN

\* The places <<node, position>> of a category's queues, and the buffer in one.
Places(ac) == UNION {{k} \X DOMAIN ra_list[ac][k].buf_head : k \in DOMAIN ra_list[ac]}
BufAt(ac, p) == ra_list[ac][p[1]].buf_head[p[2]][1]

\* Every buffer is in one place: free, in one queue, or in the sender's hands.  None is lost and
\* none is put back twice, whatever is stolen from a paused queue, dropped or requeued.
BuffersConserved ==
  LET All == UNION {{ac} \X Places(ac) : ac \in Acs}
  IN  /\ snd.buf \notin free
      /\ \A b \in Bufs : Cardinality({x \in All : BufAt(x[1], x[2]) = b})
                           = IF b \in free \/ b = snd.buf THEN 0 ELSE 1

\* pkts_queued, by which a category is skipped, counts the packets in its queues.
PacketsCounted == \A ac \in Acs : pkts_queued[ac] = Cardinality(Places(ac))

\* Per address and category packets leave, from the head of the queue, in the order they were
\* sent down, over refusals by the card and packets taken away.
QueuesInOrder ==
  \A ac \in Acs : \A k \in DOMAIN ra_list[ac] :
    LET q == ra_list[ac][k].buf_head
    IN  \A i, j \in DOMAIN q : i < j => q[i][2] < q[j][2]

\* A packet that may go is not forgotten: with nothing paused and the link up, wifi_driver_tx()
\* is at work or will be woken, unless its last round ended for want of a port or of a link
\* (wifi.c: no one wakes it when these come back).
NotForgotten ==
  \A ac \in Acs : \A k \in DOMAIN ra_list[ac] :
    /\ ra_list[ac][k].buf_head # <<>> /\ ~ra_list[ac][k].tx_pause
    /\ priv.media_connected /\ ~priv.tx_pause /\ tx.left = "nothing"
    => notified \/ tx.pc # "idle" \/ snd.pc = "notify" \/ core.pc = "resume"

=============================================================================
