----------------------------- MODULE RxReorder -----------------------------
(***************************************************************************)
(* The receive reorder table of one block-ack stream                       *)
(* (wifidriver/mlan_11n_rxreorder.c): packets of one transmitter and one   *)
(* traffic identifier arrive out of order, wait in a window of WinSize     *)
(* slots and are handed to the TCP/IP stack in order; a timer flushes what *)
(* waits too long.                                                         *)
(*                                                                         *)
(* Every handler is one step here, which is what the driver assumes: its   *)
(* moal_spin_lock() is empty, so the flush callback, in the timer task, is *)
(* not in fact kept apart from the receiving thread (README, section 4).   *)
(*                                                                         *)
(* t is the table entry (struct _RxReorderTbl) with what the current step  *)
(* handed to the stack (out) or freed (freed).  One operator per C         *)
(* function maps a value of t to the value the function leaves behind.  A  *)
(* packet is its sequence number.                                          *)
(***************************************************************************)
EXTENDS Integers, Sequences

CONSTANTS
  SeqMod,      \* MAX_TID_VALUE: sequence numbers are modulo this
  WinSize,     \* add_ba_param.rx_win_size: slots of the window
  Ssns,        \* starting sequence numbers the peer's ADDBA requests carry
  TimerFails   \* may the FreeRTOS timer refuse to start (command queue full)?

\* The default window is 32 and the modulus 4096.  A window of one slot is out:
\* end_win = start_win then, which the range test of the driver does not expect.
\* So is one of 64: the 64-bit bitmap would be shifted by its own width.
ASSUME RxReorderAssumption ==
  /\ SeqMod \in Nat /\ WinSize \in Nat
  /\ WinSize >= 2 /\ 2 * WinSize <= SeqMod
  /\ Ssns \subseteq 0..(SeqMod - 1)
  /\ TimerFails \in BOOLEAN

HalfMod == SeqMod \div 2     \* TWOPOW11
SeqNum == 0..(SeqMod - 1)
Slot == 0..(WinSize - 1)

NoPkt == -1                  \* a NULL slot
DEFAULT_SEQ_NUM == -1        \* 0xffff: no packet received yet

PktType == {"DATA", "AMSDU", "BAR"}

VARIABLES
  t,        \* the table entry
  arrived,  \* the packet the current step received: <<type, seq>>, or <<>>
  rx_seq,   \* priv->rx_seq[tid]: last sequence number received
  answer    \* our ADDBA response whose command response is awaited

vars == <<t, arrived, rx_seq, answer>>

StartWin == 0..SeqMod        \* SeqMod itself: last_seq + 1 is stored unmasked
Pkt == SeqNum \cup {NoPkt}
LastSeq == SeqNum \cup {DEFAULT_SEQ_NUM}
Window == [Slot -> Pkt]
Bitmap == SUBSET Slot
PktCount == 0..WinSize
Pkts == Seq(Pkt)             \* NoPkt in it: an empty slot was passed over

Table == [present         : BOOLEAN,    \* the entry is in priv->rx_reorder_tbl_ptr
          start_win       : StartWin,
          ptr             : Window,     \* rx_reorder_ptr[]
          bitmap          : Bitmap,
          check_start_win : BOOLEAN,
          pkt_count       : PktCount,
          last_seq        : LastSeq,
          force_no_drop   : BOOLEAN,
          amsdu           : BOOLEAN,
          timer_is_set    : BOOLEAN,
          armed           : BOOLEAN,    \* the FreeRTOS timer is running
          out             : Pkts,       \* handed to the stack by this step
          freed           : Pkts]       \* packets freed by this step

NoTable == [present |-> FALSE, start_win |-> 0, ptr |-> [i \in Slot |-> NoPkt],
            bitmap |-> {}, check_start_win |-> FALSE, pkt_count |-> 0,
            last_seq |-> DEFAULT_SEQ_NUM, force_no_drop |-> FALSE, amsdu |-> FALSE,
            timer_is_set |-> FALSE, armed |-> FALSE, out |-> <<>>, freed |-> <<>>]

Init ==
  /\ t = NoTable
  /\ arrived = <<>>
  /\ rx_seq = DEFAULT_SEQ_NUM
  /\ answer = "none"
-----------------------------------------------------------------------------
(* Arithmetic and the window *)

\* n & (MAX_TID_VALUE - 1U), for the n < 2 * MAX_TID_VALUE the driver forms
Mask(n) == IF n >= SeqMod THEN n - SeqMod ELSE n

Occupied(s) == {i \in Slot : s.ptr[i] # NoPkt}

\* wlan_11n_dispatch_pkt(): to the stack, an A-MSDU after deaggregation
wlan_11n_dispatch_pkt(s, pkt) == [s EXCEPT !.out = Append(@, pkt)]

\* A BAR carries no data.
Dispatch(s, type, seq) == IF type = "BAR" THEN s ELSE wlan_11n_dispatch_pkt(s, seq)

\* MLAN_STATUS_FAILURE: the caller frees the packet
Free(s, type, seq) == IF type = "BAR" THEN s ELSE [s EXCEPT !.freed = Append(@, seq)]

\* wlan_11n_find_last_seqnum(), of a window that is not empty
find_last_seqnum(s) == CHOOSE i \in Occupied(s) : \A j \in Occupied(s) : j <= i

\* The contents of the first n slots, in slot order
FirstSlots(s, n) == [i \in 1..n |-> s.ptr[i - 1]]

\* Rotate the slots and the bitmap n places down.
Rotate(s, n) ==
  [s EXCEPT !.ptr = [i \in Slot |-> IF i + n \in Slot THEN s.ptr[i + n] ELSE NoPkt],
            !.bitmap = {i \in Slot : i + n \in s.bitmap}]

\* Mutant: a window that moves across 0 empties no slot.
no_pkt_to_send_no_wrap(s, start_win) ==
  IF start_win < s.start_win THEN 0
  ELSE IF start_win - s.start_win < WinSize THEN start_win - s.start_win ELSE WinSize

\* Mutant: moving the window empties all of it.
no_pkt_to_send_all(s, start_win) == WinSize

\* Slots emptied when the window moves to start_win
no_pkt_to_send(s, start_win) ==
  IF start_win > s.start_win /\ start_win - s.start_win < WinSize
    THEN start_win - s.start_win ELSE WinSize

wlan_11n_dispatch_pkt_until_start_win(s, start_win) ==
  LET n == no_pkt_to_send(s, start_win) IN
    [Rotate(s, n) EXCEPT !.out = s.out \o FirstSlots(s, n), !.start_win = start_win]

\* The slot of the first hole, WinSize if there is none
FirstHole(s) ==
  CHOOSE i \in 0..WinSize : /\ i = WinSize \/ s.ptr[i] = NoPkt
                            /\ \A j \in Slot : j < i => s.ptr[j] # NoPkt

\* Mutant: the new start_win is not masked.
wlan_11n_scan_and_dispatch_unmasked(s) ==
  LET n == FirstHole(s) IN
    [Rotate(s, n) EXCEPT !.out = s.out \o FirstSlots(s, n), !.start_win = s.start_win + n]

wlan_11n_scan_and_dispatch(s) ==
  LET n == FirstHole(s) IN
    [Rotate(s, n) EXCEPT !.out = s.out \o FirstSlots(s, n),
                         !.start_win = Mask(s.start_win + n)]

\* The label "done": the flush timer runs iff something waits.  ok: the timer
\* accepts the start; timer_is_set is set whether it does or not.
UpdateTimer(s, ok) ==
  IF s.timer_is_set /\ s.bitmap = {}
    THEN [s EXCEPT !.timer_is_set = FALSE, !.armed = FALSE]
  ELSE IF ~s.timer_is_set /\ s.bitmap # {}
    THEN [s EXCEPT !.timer_is_set = TRUE, !.armed = ok]
  ELSE s
-----------------------------------------------------------------------------
(* mlan_11n_rxreorder_pkt() *)

end_win(s) == Mask(s.start_win + WinSize - 1)

\* The first packets of a stream are handed up unordered until one matches
\* start_win or half a window of them has come.
PassesThrough(s, seq) == /\ s.check_start_win /\ seq # s.start_win
                         /\ s.pkt_count + 1 < WinSize \div 2

PassThrough(s, type, seq) ==
  LET s1 == [s EXCEPT !.pkt_count = @ + 1] IN
    IF s.last_seq = seq THEN Free(s1, type, seq)
    ELSE Dispatch([s1 EXCEPT !.last_seq = seq], type, seq)

\* Then the window starts after the last packet passed through, when that one lay
\* in the window, or when seq lies between it and start_win.
FirstWindow(s, seq) ==
  LET l == s.last_seq
      e == end_win(s)
      inside == \/ e > s.start_win /\ l >= s.start_win /\ l < e
                \/ e < s.start_win /\ (l >= s.start_win \/ l < e)
                \/ seq < s.start_win /\ seq > l
  IN IF ~s.check_start_win THEN s
     ELSE IF seq = s.start_win THEN [s EXCEPT !.check_start_win = FALSE]
     ELSE [s EXCEPT !.check_start_win = FALSE, !.pkt_count = @ + 1,
                    !.start_win = IF l # DEFAULT_SEQ_NUM /\ inside THEN l + 1 ELSE @]

\* Behind the window: dropped, unless force_no_drop
TooOld(s, seq) ==
  IF s.start_win + HalfMod > SeqMod - 1
    THEN seq >= Mask(s.start_win + HalfMod) /\ seq < s.start_win
    ELSE seq < s.start_win \/ seq > s.start_win + HalfMod

Outside(s, seq) ==
  \/ end_win(s) < s.start_win /\ seq < s.start_win /\ seq > end_win(s)
  \/ end_win(s) > s.start_win /\ (seq > end_win(s) \/ seq < s.start_win)

\* The window whose last slot is seq
WindowEndingAt(seq) ==
  IF seq - WinSize + 1 >= 0 THEN seq - WinSize + 1 ELSE SeqMod - (WinSize - seq) + 1

MoveWindow(s, seq) ==
  IF Outside(s, seq) THEN wlan_11n_dispatch_pkt_until_start_win(s, WindowEndingAt(seq))
  ELSE s

SlotOf(s, seq) ==
  IF seq >= s.start_win THEN seq - s.start_win ELSE seq + SeqMod - s.start_win

Store(s, seq) == [s EXCEPT !.ptr[SlotOf(s, seq)] = seq,
                           !.bitmap = @ \cup {SlotOf(s, seq)}]

\* A BAR moves the window so that it starts at its sequence number.
PlaceBar(s, seq) ==
  wlan_11n_scan_and_dispatch(MoveWindow(s, Mask(seq + WinSize - 1)))

\* Mutant: no test for a duplicate.
PlacePkt_overwrite(s, seq) == wlan_11n_scan_and_dispatch(Store(MoveWindow(s, seq), seq))

PlacePkt(s, seq) ==
  LET s1 == MoveWindow(s, seq) IN
    IF s1.ptr[SlotOf(s1, seq)] # NoPkt THEN [s1 EXCEPT !.freed = Append(@, seq)]
    ELSE wlan_11n_scan_and_dispatch(Store(s1, seq))

Reorder(s, type, seq) ==
  IF s.force_no_drop \/ ~TooOld(s, seq)
    THEN LET s1 == [s EXCEPT !.force_no_drop = FALSE] IN
           IF type = "BAR" THEN PlaceBar(s1, seq) ELSE PlacePkt(s1, seq)
    ELSE Free(s, type, seq)

mlan_11n_rxreorder_pkt(s, type, seq, ok) ==
  IF ~s.present \/ (type = "AMSDU" /\ ~s.amsdu) THEN Dispatch(s, type, seq)
  ELSE IF PassesThrough(s, seq) THEN PassThrough(s, type, seq)
  ELSE UpdateTimer(Reorder(FirstWindow(s, seq), type, seq), ok)

\* Mutant: flush as far as the first packet that waits.
wlan_flush_data_first(s) ==
  LET s1 == [s EXCEPT !.timer_is_set = FALSE, !.armed = FALSE]
      first == CHOOSE i \in Occupied(s) : \A j \in Occupied(s) : i <= j IN
    IF Occupied(s) = {} THEN s1
    ELSE wlan_11n_dispatch_pkt_until_start_win(s1, Mask(s.start_win + first + 1))

\* Mutant: timer_is_set is not cleared, so the timer is never started again.
wlan_flush_data_set(s) ==
  LET s1 == [s EXCEPT !.armed = FALSE] IN
    IF Occupied(s) = {} THEN s1
    ELSE wlan_11n_dispatch_pkt_until_start_win(s1, Mask(s.start_win + find_last_seqnum(s) + 1))

\* wlan_flush_data(): the timer's callback
wlan_flush_data(s) ==
  LET s1 == [s EXCEPT !.timer_is_set = FALSE, !.armed = FALSE] IN
    IF Occupied(s) = {} THEN s1
    ELSE wlan_11n_dispatch_pkt_until_start_win(s1, Mask(s.start_win + find_last_seqnum(s) + 1))
-----------------------------------------------------------------------------
(* Setting the stream up and taking it down *)

\* wlan_11n_delete_rxreorder_tbl_entry(): what waits is handed up, or freed when
\* the driver is being reset.
wlan_11n_delete_rxreorder_tbl_entry(s, in_reset) ==
  IF ~s.present THEN s
  ELSE IF in_reset THEN [NoTable EXCEPT !.freed = FirstSlots(s, WinSize)]
  ELSE [NoTable EXCEPT !.out =
          wlan_11n_dispatch_pkt_until_start_win(s, Mask(s.start_win + WinSize)).out]

\* mem: the entry could be allocated.  amsdu: the new entry's field is not
\* initialized; wlan_ret_11n_addba_resp() sets it later.
wlan_11n_create_rxreorder_tbl(s, ssn, mem, amsdu) ==
  IF s.present THEN wlan_11n_dispatch_pkt_until_start_win(s, ssn)
  ELSE IF mem THEN [NoTable EXCEPT !.present = TRUE, !.start_win = ssn,
                                   !.last_seq = rx_seq, !.check_start_win = TRUE,
                                   !.amsdu = amsdu]
  ELSE s
-----------------------------------------------------------------------------
(* Actions *)

Fresh == [t EXCEPT !.out = <<>>, !.freed = <<>>]

TimerStart == IF TimerFails THEN BOOLEAN ELSE {TRUE}

\* wlan_ops_sta_process_rx_packet()
Receive(type, seq) ==
  /\ \E ok \in TimerStart : t' = mlan_11n_rxreorder_pkt(Fresh, type, seq, ok)
  /\ arrived' = <<type, seq>>
  /\ rx_seq' = IF type = "BAR" THEN rx_seq ELSE seq
  /\ UNCHANGED answer

Flush ==
  /\ t.armed
  /\ t' = wlan_flush_data(Fresh)
  /\ arrived' = <<>>
  /\ UNCHANGED <<rx_seq, answer>>

\* wlan_cmd_11n_addba_rspgen(): the connection manager's thread answers an ADDBA
\* request and then waits for the command response.
AddbaRequest(ssn) ==
  /\ answer = "none"
  /\ \/ answer' = "declined" /\ t' = Fresh
     \/ /\ answer' = "accepted"
        /\ \E mem, amsdu \in BOOLEAN :
             t' = wlan_11n_create_rxreorder_tbl(Fresh, ssn, mem, amsdu)
  /\ arrived' = <<>>
  /\ UNCHANGED rx_seq

\* do_wlan_ret_11n_addba_resp(): a command the firmware rejected changes nothing.
AddbaResponse ==
  /\ answer # "none" /\ answer' = "none"
  /\ \/ t' = Fresh
     \/ /\ answer = "accepted" /\ t.present
        /\ \E amsdu \in BOOLEAN : t' = [Fresh EXCEPT !.amsdu = amsdu]
     \/ \E in_reset \in BOOLEAN : t' = wlan_11n_delete_rxreorder_tbl_entry(Fresh, in_reset)
  /\ arrived' = <<>>
  /\ UNCHANGED rx_seq

\* mlan_11n_update_bastream_tbl(), wlan_cleanup_reorder_tbl()
Delba ==
  /\ t.present
  /\ \E in_reset \in BOOLEAN : t' = wlan_11n_delete_rxreorder_tbl_entry(Fresh, in_reset)
  /\ arrived' = <<>>
  /\ UNCHANGED <<rx_seq, answer>>

wlan_11n_cleanup_reorder_tbl ==
  /\ \E in_reset \in BOOLEAN : t' = wlan_11n_delete_rxreorder_tbl_entry(Fresh, in_reset)
  /\ rx_seq' = DEFAULT_SEQ_NUM
  /\ arrived' = <<>>
  /\ UNCHANGED answer

\* wlan_update_rxreorder_tbl(), when the host sleep handshake completes
HostSleepActivated ==
  /\ t.present
  /\ t' = [Fresh EXCEPT !.force_no_drop = TRUE]
  /\ arrived' = <<>>
  /\ UNCHANGED <<rx_seq, answer>>

Next ==
  \/ \E type \in PktType, seq \in SeqNum : Receive(type, seq)
  \/ Flush
  \/ \E ssn \in Ssns : AddbaRequest(ssn)
  \/ AddbaResponse
  \/ Delba
  \/ wlan_11n_cleanup_reorder_tbl
  \/ HostSleepActivated

Spec == Init /\ [][Next]_vars

\* The FreeRTOS timer task runs the callback of a timer that stays armed.
FairSpec == Spec /\ WF_vars(Flush)
-----------------------------------------------------------------------------
(* Properties *)

\* Type invariant: every number in the table is one the peer can send, and start_win
\* is masked on every path but the one that stores last_seq + 1.
TypeOK ==
  /\ t \in Table
  /\ arrived \in (PktType \X SeqNum) \cup {<<>>}
  /\ rx_seq \in LastSeq
  /\ answer \in {"none", "accepted", "declined"}

\* A slot holds no packet but the one whose number it stands for, and the bitmap,
\* which decides about the timer, names exactly the slots in use
\* (mlan_11n_rxreorder_pkt, wlan_11n_dispatch_pkt_until_start_win).
SlotsMatch(s) ==
  /\ \A i \in Slot : s.ptr[i] # NoPkt => s.ptr[i] = Mask(s.start_win + i)
  /\ s.bitmap = Occupied(s)

TableConsistent == SlotsMatch(t)

\* A packet that waits has a timer that will flush it, whatever BARs, flushes,
\* renegotiations and duplicates came before (the label "done").
BufferedArmed ==
  t.bitmap # {} => t.present /\ t.timer_is_set /\ (t.armed \/ TimerFails)

\* The packets of a sequence of slots
Packets(slots) == SelectSeq(slots, LAMBDA p : p # NoPkt)

Count(pkts, seq) == Len(SelectSeq(pkts, LAMBDA p : p = seq))

Arrivals(a, seq) == IF a # <<>> /\ a[1] # "BAR" /\ a[2] = seq THEN 1 ELSE 0

\* No packet is lost in the table, handed up twice or freed while in use: each one
\* that waited or arrived is afterwards in a slot, with the stack or freed, exactly
\* once.  Only a reset frees packets that waited.
Conserved == [][
  /\ \A seq \in SeqNum :
       Count(FirstSlots(t, WinSize), seq) + Arrivals(arrived', seq)
         = Count(FirstSlots(t', WinSize) \o t'.out \o t'.freed, seq)
  /\ t'.present => \A i \in DOMAIN t'.freed : arrived' # <<>> /\ t'.freed[i] = arrived'[2]]_vars

\* Distance ahead of the window's start
Ahead(seq, start_win) == IF seq >= start_win THEN seq - start_win
                         ELSE seq + SeqMod - start_win

\* The stream is set up and the step was a packet or the flush timer: then what is
\* handed up goes up in sequence order, and the window has passed it, so that no
\* earlier packet can follow it and no copy of it be taken for new.
HandedUpInOrder(s, s1) ==
  LET out == Packets(s1.out) IN
    /\ \A i, j \in DOMAIN out : i < j =>
         Ahead(out[i], s.start_win) < Ahead(out[j], s.start_win)
    /\ \A i \in DOMAIN out : Ahead(out[i], s1.start_win) >= WinSize

Ordering(s, s1, a) ==
  /\ s.present /\ ~s.check_start_win /\ s1.present
  /\ a # <<>> => a[1] # "AMSDU" \/ s.amsdu

\* In-order delivery, as far as the driver achieves it: while the window does not
\* move across sequence number 0, and on every flush
\* (wlan_11n_dispatch_pkt_until_start_win, wlan_11n_scan_and_dispatch).
InOrderBetweenWraps == [][
  Ordering(t, t', arrived') /\ (Flush \/ (arrived' # <<>> /\ t'.start_win >= t.start_win))
    => HandedUpInOrder(t, t')]_vars

\* Every packet that waits leaves the table, because the whole table empties again
\* and again: the timer is not restarted while it runs, so traffic cannot postpone
\* the flush (mlan_11n_rxreorder_timer_restart, wlan_flush_data).
BufferedLeaves == []<>(Occupied(t) = {})
=============================================================================
