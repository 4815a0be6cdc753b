-------------------------- MODULE RxReorderProofs --------------------------
(***************************************************************************)
(* The receive reorder table keeps every packet in the slot of its number  *)
(* and under a running timer, for every sequence modulus and every window  *)
(* of at least two slots and at most half the modulus.                     *)
(***************************************************************************)
EXTENDS RxReorder, TLAPS, WellFoundedInduction

-----------------------------------------------------------------------------
(* Smallest and largest elements *)

\* A set of naturals that is not empty has a least element.
LEMMA LeastElement ==
  ASSUME NEW T, T \subseteq Nat, T # {}
  PROVE  \E x \in T : \A y \in T : x <= y
<1>1. \E x \in T : \A y \in T : ~(<<y, x>> \in OpToRel(<, Nat))
  BY NatLessThanWellFounded, WFMin
<1>2. PICK x \in T : \A y \in T : ~(<<y, x>> \in OpToRel(<, Nat))
  BY <1>1
<1>3. ASSUME NEW y \in T PROVE x <= y
  <2>1. ~(<<y, x>> \in OpToRel(<, Nat))
    BY <1>2
  <2>2. ~(y < x)
    BY <2>1, T \subseteq Nat DEF OpToRel
  <2> QED
    BY <2>2, T \subseteq Nat
<1> QED
  BY <1>3

\* So has a greatest element a set of naturals with an upper bound.
LEMMA GreatestElement ==
  ASSUME NEW T, NEW b \in Nat, T \subseteq 0..b, T # {}
  PROVE  \E x \in T : \A y \in T : y <= x
<1> DEFINE D == {b - x : x \in T}
<1>1. D \subseteq Nat
  OBVIOUS
<1>a. D # {}
  <2>1. PICK x \in T : TRUE
    OBVIOUS
  <2>2. b - x \in D
    OBVIOUS
  <2> QED
    BY <2>2
<1>2. PICK d \in D : \A y \in D : d <= y
  BY <1>1, <1>a, LeastElement
<1>3. PICK x \in T : d = b - x
  OBVIOUS
<1>4. ASSUME NEW y \in T PROVE y <= x
  <2>1. b - y \in D
    OBVIOUS
  <2>2. d <= b - y
    BY <1>2, <2>1
  <2> QED
    BY <1>3, <2>2
<1> QED
  BY <1>4
-----------------------------------------------------------------------------
(* Moving the window *)

\* What the rest of the entry is to the window
SameFlags(r, s) ==
  /\ r.present = s.present /\ r.check_start_win = s.check_start_win
  /\ r.timer_is_set = s.timer_is_set /\ r.armed = s.armed
  /\ r.pkt_count = s.pkt_count

\* Rotating n places down while start_win moves n places up, modulo SeqMod, or
\* emptying the window altogether, keeps every packet in the slot of its number.
LEMMA Shifted ==
  ASSUME NEW s \in Table, SlotsMatch(s),
         NEW n \in 0..WinSize, NEW w \in StartWin, NEW o \in Pkts,
         n = WinSize \/ w = s.start_win + n \/ w = Mask(s.start_win + n)
  PROVE  LET r == [Rotate(s, n) EXCEPT !.out = o, !.start_win = w] IN
           /\ r \in Table /\ SlotsMatch(r) /\ SameFlags(r, s)
           /\ r.start_win = w
           /\ \A i \in Slot : i \in r.bitmap <=> i + n \in s.bitmap
<1> USE RxReorderAssumption
<1> DEFINE p == [i \in Slot |-> IF i + n \in Slot THEN s.ptr[i + n] ELSE NoPkt]
           b == {i \in Slot : i + n \in s.bitmap}
           q == Rotate(s, n)
           r == [q EXCEPT !.out = o, !.start_win = w]
<1>1. s.ptr \in Window /\ s.bitmap \in Bitmap /\ s.start_win \in StartWin
  BY DEF Table
<1>2. p \in Window
  <2>1. ASSUME NEW i \in Slot, i + n \in Slot PROVE s.ptr[i + n] \in Pkt
    BY <1>1, <2>1 DEF Window
  <2> QED
    BY <2>1 DEF Window, Pkt
<1>3. b \in Bitmap
  BY DEF Bitmap
<1>4. q \in Table /\ q.ptr = p /\ q.bitmap = b /\ SameFlags(q, s)
  <2> HIDE DEF p, b
  <2>1. q = [s EXCEPT !.ptr = p, !.bitmap = b]
    BY DEF Rotate, p, b
  <2> QED
    BY <2>1, <1>2, <1>3 DEF Table, SameFlags
<1>5. r \in Table /\ r.ptr = p /\ r.bitmap = b /\ SameFlags(r, s) /\ r.start_win = w
  <2> HIDE DEF p, b, q
  <2> QED
    BY <1>4 DEF Table, SameFlags
<1>6. ASSUME NEW i \in Slot, p[i] # NoPkt PROVE p[i] = Mask(w + i)
  <2>1. i + n \in Slot /\ p[i] = s.ptr[i + n]
    BY <1>6
  <2>2. s.ptr[i + n] = Mask(s.start_win + i + n)
    <3>1. s.ptr[i + n] = Mask(s.start_win + (i + n))
      BY <1>6, <2>1 DEF SlotsMatch
    <3> QED
      BY <3>1, <1>1 DEF Slot, StartWin
  <2>3. n < WinSize
    BY <2>1 DEF Slot
  <2>4. Mask(s.start_win + i + n) = Mask(w + i)
    BY <1>1, <2>1, <2>3 DEF Mask, StartWin, Slot
  <2> QED
    BY <2>1, <2>2, <2>4
<1>7. b = {i \in Slot : p[i] # NoPkt}
  <2>1. s.bitmap = {i \in Slot : s.ptr[i] # NoPkt}
    BY DEF SlotsMatch, Occupied
  <2> QED
    BY <2>1
<1>8. SlotsMatch(r)
  <2> HIDE DEF p, b, r
  <2> QED
    BY <1>5, <1>6, <1>7 DEF SlotsMatch, Occupied
<1> HIDE DEF p, q, r
<1> QED
  BY <1>5, <1>8 DEF b, r, q

\* The contents of slots, appended to what was handed up
LEMMA Appended ==
  ASSUME NEW s \in Table, NEW n \in 0..WinSize
  PROVE  FirstSlots(s, n) \in Pkts /\ s.out \o FirstSlots(s, n) \in Pkts
<1> USE RxReorderAssumption
<1>1. \A i \in 1..n : s.ptr[i - 1] \in Pkt
  <2>1. s.ptr \in Window
    BY DEF Table
  <2>2. \A i \in 1..n : i - 1 \in Slot
    BY DEF Slot
  <2> QED
    BY <2>1, <2>2 DEF Window
<1>2. FirstSlots(s, n) \in Seq(Pkt)
  BY <1>1 DEF FirstSlots
<1>3. s.out \in Seq(Pkt)
  BY DEF Table, Pkts
<1> QED
  BY <1>2, <1>3 DEF Pkts

\* wlan_11n_dispatch_pkt_until_start_win(), for every start_win
LEMMA UntilKeepsSlots ==
  ASSUME NEW s \in Table, SlotsMatch(s), NEW w \in SeqNum
  PROVE  LET r == wlan_11n_dispatch_pkt_until_start_win(s, w) IN
           /\ r \in Table /\ SlotsMatch(r) /\ SameFlags(r, s)
           /\ r.start_win = w
           /\ s.bitmap = {} => r.bitmap = {}
           /\ \A i \in Slot : i \in r.bitmap <=> i + no_pkt_to_send(s, w) \in s.bitmap
<1> USE RxReorderAssumption
<1> DEFINE n == no_pkt_to_send(s, w)
           o == s.out \o FirstSlots(s, n)
           r == [Rotate(s, n) EXCEPT !.out = o, !.start_win = w]
<1>1. s.start_win \in 0..SeqMod /\ w \in StartWin /\ w \in Int
  BY DEF Table, StartWin, SeqNum
<1>2. n \in 0..WinSize /\ (n = WinSize \/ w = s.start_win + n)
  BY <1>1 DEF no_pkt_to_send
<1>3. o \in Pkts
  BY <1>2, Appended
<1>4. /\ r \in Table /\ SlotsMatch(r) /\ SameFlags(r, s)
      /\ r.start_win = w
      /\ \A i \in Slot : i \in r.bitmap <=> i + n \in s.bitmap
  <2> HIDE DEF n, o
  <2> QED
    BY <1>1, <1>2, <1>3, Shifted
<1>5. r = wlan_11n_dispatch_pkt_until_start_win(s, w)
  BY DEF wlan_11n_dispatch_pkt_until_start_win
<1>6. s.bitmap = {} => r.bitmap = {}
  <2> HIDE DEF r, n
  <2>1. r.bitmap \subseteq Slot
    BY <1>4 DEF Table, Bitmap
  <2> QED
    BY <1>4, <2>1
<1> HIDE DEF r
<1> QED
  BY <1>4, <1>5, <1>6

\* The loop of wlan_11n_scan_and_dispatch() stops in the window or at its end.
LEMMA HoleExists ==
  ASSUME NEW s \in Table
  PROVE  FirstHole(s) \in 0..WinSize
<1> USE RxReorderAssumption
<1> DEFINE T == {i \in 0..WinSize : i = WinSize \/ s.ptr[i] = NoPkt}
<1>1. T \subseteq Nat /\ WinSize \in T
  OBVIOUS
<1>2. PICK x \in T : \A y \in T : x <= y
  BY <1>1, LeastElement
<1>3. ASSUME NEW j \in Slot, j < x PROVE s.ptr[j] # NoPkt
  <2>1. j \notin T
    BY <1>2, <1>3 DEF Slot
  <2> QED
    BY <2>1 DEF Slot
<1>4. \E i \in 0..WinSize : /\ i = WinSize \/ s.ptr[i] = NoPkt
                            /\ \A j \in Slot : j < i => s.ptr[j] # NoPkt
  BY <1>2, <1>3
<1> QED
  BY <1>4 DEF FirstHole

\* wlan_11n_scan_and_dispatch()
LEMMA ScanKeepsSlots ==
  ASSUME NEW s \in Table, SlotsMatch(s)
  PROVE  LET r == wlan_11n_scan_and_dispatch(s) IN
           r \in Table /\ SlotsMatch(r) /\ SameFlags(r, s)
<1> USE RxReorderAssumption
<1> DEFINE n == FirstHole(s)
           w == Mask(s.start_win + n)
           o == s.out \o FirstSlots(s, n)
           r == [Rotate(s, n) EXCEPT !.out = o, !.start_win = w]
<1>1. s.start_win \in 0..SeqMod
  BY DEF Table, StartWin
<1>2. n \in 0..WinSize
  BY HoleExists
<1>3. w \in StartWin
  <2> HIDE DEF n
  <2> QED
    BY <1>1, <1>2 DEF Mask, StartWin
<1>4. o \in Pkts
  BY <1>2, Appended
<1>5. r \in Table /\ SlotsMatch(r) /\ SameFlags(r, s)
  <2>1. w = Mask(s.start_win + n)
    OBVIOUS
  <2> HIDE DEF n, o, w
  <2> QED
    BY <1>2, <1>3, <1>4, <2>1, Shifted
<1> QED
  BY <1>5 DEF wlan_11n_scan_and_dispatch
-----------------------------------------------------------------------------
(* Placing a packet *)

\* Once the window has moved, the packet's slot exists and stands for its number:
\* rx_reorder_ptr[] is never indexed beyond its end.
LEMMA MoveMakesRoom ==
  ASSUME NEW s \in Table, SlotsMatch(s), NEW seq \in SeqNum
  PROVE  LET r == MoveWindow(s, seq) IN
           /\ r \in Table /\ SlotsMatch(r) /\ SameFlags(r, s)
           /\ SlotOf(r, seq) \in Slot
           /\ Mask(r.start_win + SlotOf(r, seq)) = seq
<1> USE RxReorderAssumption
<1> DEFINE r == MoveWindow(s, seq)
           w == WindowEndingAt(seq)
<1>1. s.start_win \in 0..SeqMod /\ seq \in 0..(SeqMod - 1)
  BY DEF Table, StartWin, SeqNum
<1>2. CASE Outside(s, seq)
  <2>1. w \in SeqNum
    BY <1>1 DEF WindowEndingAt, SeqNum
  <2>2. r = wlan_11n_dispatch_pkt_until_start_win(s, w)
    BY <1>2 DEF MoveWindow
  <2>3. r \in Table /\ SlotsMatch(r) /\ SameFlags(r, s) /\ r.start_win = w
    <3> HIDE DEF r, w
    <3> QED
      BY <2>1, <2>2, UntilKeepsSlots
  <2>4. SlotOf(r, seq) = WinSize - 1
    <3> HIDE DEF r
    <3> QED
      BY <2>3, <1>1 DEF SlotOf, WindowEndingAt
  <2>5. Mask(w + (WinSize - 1)) = seq
    BY <1>1 DEF Mask, WindowEndingAt
  <2> HIDE DEF r, w
  <2> QED
    BY <2>3, <2>4, <2>5 DEF Slot, r
<1>3. CASE ~Outside(s, seq)
  <2>1. r = s
    BY <1>3 DEF MoveWindow
  <2>2. SlotOf(s, seq) \in Slot /\ Mask(s.start_win + SlotOf(s, seq)) = seq
    BY <1>1, <1>3 DEF Outside, end_win, Mask, SlotOf, Slot
  <2> QED
    BY <2>1, <2>2 DEF SameFlags
<1> QED
  BY <1>2, <1>3

\* PlacePkt: a packet is stored in its own slot, or freed as a duplicate.
LEMMA PlacePktKeepsSlots ==
  ASSUME NEW s \in Table, SlotsMatch(s), NEW seq \in SeqNum
  PROVE  LET r == PlacePkt(s, seq) IN
           r \in Table /\ SlotsMatch(r) /\ SameFlags(r, s)
<1> DEFINE m == MoveWindow(s, seq)
           k == SlotOf(m, seq)
<1>1. /\ m \in Table /\ SlotsMatch(m) /\ SameFlags(m, s)
      /\ k \in Slot /\ Mask(m.start_win + k) = seq
  BY MoveMakesRoom
<1>2. PlacePkt(s, seq) = IF m.ptr[k] # NoPkt THEN [m EXCEPT !.freed = Append(@, seq)]
                         ELSE wlan_11n_scan_and_dispatch(Store(m, seq))
  BY DEF PlacePkt
<1> HIDE DEF m
<1>3. CASE m.ptr[k] # NoPkt
  <2> DEFINE d == [m EXCEPT !.freed = Append(@, seq)]
  <2>1. Append(m.freed, seq) \in Pkts
    BY <1>1 DEF Table, Pkts, Pkt
  <2>2. /\ d \in Table /\ SameFlags(d, m)
        /\ d.ptr = m.ptr /\ d.bitmap = m.bitmap /\ d.start_win = m.start_win
    BY <1>1, <2>1 DEF Table, SameFlags
  <2>3. SlotsMatch(d)
    <3> HIDE DEF d
    <3> QED
      BY <1>1, <2>2 DEF SlotsMatch, Occupied
  <2>4. PlacePkt(s, seq) = d
    BY <1>2, <1>3
  <2> HIDE DEF d
  <2> QED
    BY <1>1, <2>2, <2>3, <2>4 DEF SameFlags
<1>4. CASE m.ptr[k] = NoPkt
  <2> DEFINE p == [m.ptr EXCEPT ![k] = seq]
             b == m.bitmap \cup {k}
             d == [m EXCEPT !.ptr = p, !.bitmap = b]
  <2>1. d = Store(m, seq)
    <3>1. m.ptr \in Window
      BY <1>1 DEF Table
    <3> QED
      BY <1>1, <3>1 DEF Store, Table
  <2>2. p \in Window /\ b \in Bitmap
    <3>1. m.ptr \in [Slot -> Pkt] /\ m.bitmap \subseteq Slot /\ seq \in Pkt
      BY <1>1 DEF Table, Window, Bitmap, Pkt
    <3> HIDE DEF k
    <3> QED
      BY <1>1, <3>1 DEF Window, Bitmap
  <2>3. /\ d \in Table /\ SameFlags(d, m)
        /\ d.ptr = p /\ d.bitmap = b /\ d.start_win = m.start_win
    <3> HIDE DEF p, b
    <3> QED
      BY <1>1, <2>2 DEF Table, SameFlags
  <2>4. SlotsMatch(d)
    <3>1. m.ptr \in [Slot -> Pkt] /\ seq # NoPkt
      BY <1>1, RxReorderAssumption DEF Table, Window, SeqNum, NoPkt
    <3>2. \A i \in Slot : p[i] = IF i = k THEN seq ELSE m.ptr[i]
      BY <3>1
    <3>3. \A i \in Slot : p[i] # NoPkt => p[i] = Mask(m.start_win + i)
      <4> HIDE DEF k, p
      <4> QED
        BY <1>1, <3>2 DEF SlotsMatch
    <3>4. b = {i \in Slot : p[i] # NoPkt}
      <4>1. m.bitmap = {i \in Slot : m.ptr[i] # NoPkt}
        BY <1>1 DEF SlotsMatch, Occupied
      <4> HIDE DEF k, p
      <4> QED
        BY <1>1, <3>1, <3>2, <4>1
    <3> HIDE DEF d, p, b
    <3> QED
      BY <2>3, <3>3, <3>4 DEF SlotsMatch, Occupied
  <2>5. PlacePkt(s, seq) = wlan_11n_scan_and_dispatch(d)
    BY <1>2, <1>4, <2>1
  <2> HIDE DEF d
  <2>6. LET r == wlan_11n_scan_and_dispatch(d) IN
          r \in Table /\ SlotsMatch(r) /\ SameFlags(r, d)
    BY <2>3, <2>4, ScanKeepsSlots
  <2> QED
    BY <1>1, <2>3, <2>5, <2>6 DEF SameFlags
<1> QED
  BY <1>3, <1>4

\* PlaceBar
LEMMA PlaceBarKeepsSlots ==
  ASSUME NEW s \in Table, SlotsMatch(s), NEW seq \in SeqNum
  PROVE  LET r == PlaceBar(s, seq) IN
           r \in Table /\ SlotsMatch(r) /\ SameFlags(r, s)
<1> DEFINE q == Mask(seq + WinSize - 1)
           m == MoveWindow(s, q)
<1>1. q \in SeqNum
  BY RxReorderAssumption DEF Mask, SeqNum
<1>2. m \in Table /\ SlotsMatch(m) /\ SameFlags(m, s)
  <2> HIDE DEF q
  <2> QED
    BY <1>1, MoveMakesRoom
<1>3. PlaceBar(s, seq) = wlan_11n_scan_and_dispatch(m)
  BY DEF PlaceBar
<1> HIDE DEF m
<1>4. LET r == wlan_11n_scan_and_dispatch(m) IN
        r \in Table /\ SlotsMatch(r) /\ SameFlags(r, m)
  BY <1>2, ScanKeepsSlots
<1> QED
  BY <1>2, <1>3, <1>4 DEF SameFlags

\* A packet handed up or freed on the spot leaves the window alone.
LEMMA DirectKeepsSlots ==
  ASSUME NEW s \in Table, NEW type \in PktType, NEW seq \in SeqNum
  PROVE  \A r \in {Dispatch(s, type, seq), Free(s, type, seq)} :
           /\ r \in Table /\ SameFlags(r, s)
           /\ r.ptr = s.ptr /\ r.bitmap = s.bitmap /\ r.start_win = s.start_win
<1>1. Append(s.out, seq) \in Pkts /\ Append(s.freed, seq) \in Pkts
  BY DEF Table, Pkts, Pkt
<1>2. LET r == [s EXCEPT !.out = Append(@, seq)] IN
        /\ r \in Table /\ SameFlags(r, s)
        /\ r.ptr = s.ptr /\ r.bitmap = s.bitmap /\ r.start_win = s.start_win
  BY <1>1 DEF Table, SameFlags
<1>3. LET r == [s EXCEPT !.freed = Append(@, seq)] IN
        /\ r \in Table /\ SameFlags(r, s)
        /\ r.ptr = s.ptr /\ r.bitmap = s.bitmap /\ r.start_win = s.start_win
  BY <1>1 DEF Table, SameFlags
<1>4. SameFlags(s, s)
  BY DEF SameFlags
<1> QED
  BY <1>2, <1>3, <1>4 DEF Dispatch, Free, wlan_11n_dispatch_pkt
-----------------------------------------------------------------------------
(* The inductive invariant *)

\* TableConsistent and BufferedArmed are inductive together with two facts about the
\* entry: nothing waits before the first window is fixed, so that FirstWindow may
\* move start_win, and timer_is_set means a timer that was started.
Sound(s) ==
  /\ SlotsMatch(s)
  /\ s.bitmap # {} => s.present /\ s.timer_is_set
  /\ s.timer_is_set => s.armed \/ TimerFails
  /\ s.check_start_win => s.bitmap = {} /\ s.pkt_count < WinSize

SoundInv == TypeOK /\ Sound(t)

\* A step that changes neither the window nor the flags keeps Sound.
LEMMA SoundSame ==
  ASSUME NEW s, NEW r, Sound(s), SameFlags(r, s),
         r.ptr = s.ptr, r.bitmap = s.bitmap, r.start_win = s.start_win
  PROVE  Sound(r)
BY DEF Sound, SameFlags, SlotsMatch, Occupied

\* Reorder, on a stream whose first window is fixed
LEMMA ReorderKeepsSlots ==
  ASSUME NEW s \in Table, SlotsMatch(s), NEW type \in PktType, NEW seq \in SeqNum
  PROVE  LET r == Reorder(s, type, seq) IN
           r \in Table /\ SlotsMatch(r) /\ SameFlags(r, s)
<1> DEFINE d == [s EXCEPT !.force_no_drop = FALSE]
           r == Reorder(s, type, seq)
<1>1. d \in Table /\ SlotsMatch(d) /\ SameFlags(d, s)
  <2>1. /\ d \in Table /\ SameFlags(d, s)
        /\ d.ptr = s.ptr /\ d.bitmap = s.bitmap /\ d.start_win = s.start_win
    BY DEF Table, SameFlags
  <2> HIDE DEF d
  <2> QED
    BY <2>1 DEF SlotsMatch, Occupied
<1>2. \/ r = PlaceBar(d, seq) \/ r = PlacePkt(d, seq) \/ r = Free(s, type, seq)
  BY DEF Reorder
<1> HIDE DEF d, r
<1>3. CASE r = PlaceBar(d, seq)
  BY <1>1, <1>3, PlaceBarKeepsSlots DEF SameFlags, r
<1>4. CASE r = PlacePkt(d, seq)
  BY <1>1, <1>4, PlacePktKeepsSlots DEF SameFlags, r
<1>5. CASE r = Free(s, type, seq)
  <2>1. /\ r \in Table /\ SameFlags(r, s)
        /\ r.ptr = s.ptr /\ r.bitmap = s.bitmap /\ r.start_win = s.start_win
    BY <1>5, DirectKeepsSlots
  <2>2. SlotsMatch(r)
    BY <2>1 DEF SlotsMatch, Occupied
  <2> QED
    BY <2>1, <2>2 DEF r
<1> QED
  BY <1>2, <1>3, <1>4, <1>5

\* FirstWindow: start_win may move because nothing waits yet.
LEMMA FirstWindowSound ==
  ASSUME NEW s \in Table, Sound(s), s.present, NEW seq \in SeqNum, ~PassesThrough(s, seq)
  PROVE  LET r == FirstWindow(s, seq) IN
           /\ r \in Table /\ SlotsMatch(r) /\ ~r.check_start_win /\ r.present
           /\ r.timer_is_set = s.timer_is_set /\ r.armed = s.armed
<1> USE RxReorderAssumption
<1> DEFINE l == s.last_seq
           e == end_win(s)
           inside == \/ e > s.start_win /\ l >= s.start_win /\ l < e
                     \/ e < s.start_win /\ (l >= s.start_win \/ l < e)
                     \/ seq < s.start_win /\ seq > l
           w == IF l # DEFAULT_SEQ_NUM /\ inside THEN l + 1 ELSE s.start_win
           r == FirstWindow(s, seq)
<1>1. CASE ~s.check_start_win
  <2>1. r = s
    BY <1>1 DEF FirstWindow
  <2> QED
    BY <1>1, <2>1 DEF Sound
<1>2. CASE s.check_start_win /\ seq = s.start_win
  <2>1. r = [s EXCEPT !.check_start_win = FALSE]
    BY <1>2 DEF FirstWindow
  <2>2. /\ r \in Table /\ ~r.check_start_win /\ r.present
        /\ r.timer_is_set = s.timer_is_set /\ r.armed = s.armed
        /\ r.ptr = s.ptr /\ r.bitmap = s.bitmap /\ r.start_win = s.start_win
    BY <2>1 DEF Table
  <2> HIDE DEF r
  <2>3. SlotsMatch(r)
    BY <2>2 DEF Sound, SlotsMatch, Occupied
  <2> QED
    BY <2>2, <2>3 DEF r
<1>3. CASE s.check_start_win /\ seq # s.start_win
  <2> DEFINE c == s.pkt_count + 1
             d == [s EXCEPT !.check_start_win = FALSE, !.pkt_count = c, !.start_win = w]
  <2>1. r = d
    BY <1>3 DEF FirstWindow, Table
  <2>2. w \in StartWin
    <3>1. l \in 0..(SeqMod - 1) \cup {DEFAULT_SEQ_NUM} /\ s.start_win \in StartWin
      BY DEF Table, LastSeq, SeqNum
    <3> HIDE DEF l, inside
    <3> QED
      BY <3>1 DEF StartWin
  <2>3. c \in PktCount
    BY <1>3 DEF Sound, Table, PktCount
  <2>4. /\ d \in Table /\ ~d.check_start_win /\ d.present
        /\ d.timer_is_set = s.timer_is_set /\ d.armed = s.armed
        /\ d.ptr = s.ptr /\ d.bitmap = s.bitmap
    <3> HIDE DEF w, c
    <3> QED
      BY <2>2, <2>3 DEF Table
  <2>5. s.bitmap = {} /\ s.bitmap = Occupied(s)
    BY <1>3 DEF Sound, SlotsMatch
  <2>6. SlotsMatch(d)
    <3> HIDE DEF d
    <3> QED
      BY <2>4, <2>5 DEF SlotsMatch, Occupied
  <2> HIDE DEF d
  <2> QED
    BY <2>1, <2>4, <2>6
<1> QED
  BY <1>1, <1>2, <1>3

\* UpdateTimer: whatever the window has become, a packet that waits has its timer.
LEMMA TimerSound ==
  ASSUME NEW s \in Table, SlotsMatch(s), s.present, ~s.check_start_win,
         s.timer_is_set => s.armed \/ TimerFails,
         NEW ok \in TimerStart
  PROVE  UpdateTimer(s, ok) \in Table /\ Sound(UpdateTimer(s, ok))
<1> DEFINE r == UpdateTimer(s, ok)
<1>1. ok \in BOOLEAN /\ (ok \/ TimerFails)
  BY RxReorderAssumption DEF TimerStart
<1>2. /\ r \in Table /\ r.present /\ ~r.check_start_win
      /\ r.ptr = s.ptr /\ r.bitmap = s.bitmap /\ r.start_win = s.start_win
      /\ r.bitmap # {} => r.timer_is_set
      /\ r.timer_is_set => r.armed \/ TimerFails
  <2>1. CASE s.timer_is_set /\ s.bitmap = {}
    <3>1. r = [s EXCEPT !.timer_is_set = FALSE, !.armed = FALSE]
      BY <2>1 DEF UpdateTimer
    <3> QED
      BY <2>1, <3>1 DEF Table
  <2>2. CASE ~s.timer_is_set /\ s.bitmap # {}
    <3>1. r = [s EXCEPT !.timer_is_set = TRUE, !.armed = ok]
      BY <2>2 DEF UpdateTimer
    <3>2. [s EXCEPT !.timer_is_set = TRUE, !.armed = ok] \in Table
      BY <1>1 DEF Table
    <3>3. /\ r.present = s.present /\ r.check_start_win = s.check_start_win
          /\ r.ptr = s.ptr /\ r.bitmap = s.bitmap /\ r.start_win = s.start_win
          /\ r.timer_is_set = TRUE /\ r.armed = ok
      BY <3>1 DEF Table
    <3> QED
      BY <1>1, <3>1, <3>2, <3>3
  <2>3. CASE (s.timer_is_set /\ s.bitmap # {}) \/ (~s.timer_is_set /\ s.bitmap = {})
    <3>1. r = s
      BY <2>3 DEF UpdateTimer
    <3> QED
      BY <2>3, <3>1
  <2> QED
    BY <2>1, <2>2, <2>3
<1> HIDE DEF r
<1>3. SlotsMatch(r)
  BY <1>2 DEF SlotsMatch, Occupied
<1> QED
  BY <1>2, <1>3 DEF Sound, r

\* mlan_11n_rxreorder_pkt()
LEMMA RxPktSound ==
  ASSUME NEW s \in Table, Sound(s), NEW type \in PktType, NEW seq \in SeqNum,
         NEW ok \in TimerStart
  PROVE  LET r == mlan_11n_rxreorder_pkt(s, type, seq, ok) IN r \in Table /\ Sound(r)
<1> DEFINE r == mlan_11n_rxreorder_pkt(s, type, seq, ok)
<1>1. CASE ~s.present \/ (type = "AMSDU" /\ ~s.amsdu)
  <2>1. r = Dispatch(s, type, seq)
    BY <1>1 DEF mlan_11n_rxreorder_pkt
  <2> HIDE DEF r
  <2>2. /\ r \in Table /\ SameFlags(r, s)
        /\ r.ptr = s.ptr /\ r.bitmap = s.bitmap /\ r.start_win = s.start_win
    BY <2>1, DirectKeepsSlots
  <2> QED
    BY <2>2, SoundSame DEF r
<1>2. CASE ~(~s.present \/ (type = "AMSDU" /\ ~s.amsdu)) /\ PassesThrough(s, seq)
  <2> DEFINE c == s.pkt_count + 1
             d == [s EXCEPT !.pkt_count = c]
             f == [d EXCEPT !.last_seq = seq]
  <2>1. r = PassThrough(s, type, seq)
    BY <1>2 DEF mlan_11n_rxreorder_pkt
  <2>2. r = Free(d, type, seq) \/ r = Dispatch(f, type, seq)
    BY <2>1 DEF PassThrough, Table
  <2>3. c \in PktCount /\ c < WinSize
    BY <1>2, RxReorderAssumption DEF PassesThrough, Table, PktCount
  <2>4. d \in Table /\ Sound(d)
    <3>1. /\ d \in Table /\ d.pkt_count = c /\ d.present = s.present
          /\ d.check_start_win = s.check_start_win
          /\ d.timer_is_set = s.timer_is_set /\ d.armed = s.armed
          /\ d.ptr = s.ptr /\ d.bitmap = s.bitmap /\ d.start_win = s.start_win
      <4> HIDE DEF c
      <4> QED
        BY <2>3 DEF Table
    <3> HIDE DEF c, d
    <3> QED
      BY <3>1, <2>3 DEF Sound, SlotsMatch, Occupied
  <2>5. f \in Table /\ Sound(f)
    <3> HIDE DEF c, d
    <3>1. seq \in LastSeq
      BY DEF LastSeq
    <3>2. /\ f \in Table /\ SameFlags(f, d)
          /\ f.ptr = d.ptr /\ f.bitmap = d.bitmap /\ f.start_win = d.start_win
      BY <2>4, <3>1 DEF Table, SameFlags
    <3> HIDE DEF f
    <3> QED
      BY <2>4, <3>2, SoundSame
  <2> HIDE DEF r, d, f
  <2>6. CASE r = Free(d, type, seq)
    <3>1. /\ r \in Table /\ SameFlags(r, d)
          /\ r.ptr = d.ptr /\ r.bitmap = d.bitmap /\ r.start_win = d.start_win
      BY <2>4, <2>6, DirectKeepsSlots
    <3> QED
      BY <2>4, <3>1, SoundSame DEF r
  <2>7. CASE r = Dispatch(f, type, seq)
    <3>1. /\ r \in Table /\ SameFlags(r, f)
          /\ r.ptr = f.ptr /\ r.bitmap = f.bitmap /\ r.start_win = f.start_win
      BY <2>5, <2>7, DirectKeepsSlots
    <3> QED
      BY <2>5, <3>1, SoundSame DEF r
  <2> QED
    BY <2>2, <2>6, <2>7
<1>3. CASE ~(~s.present \/ (type = "AMSDU" /\ ~s.amsdu)) /\ ~PassesThrough(s, seq)
  <2> DEFINE f == FirstWindow(s, seq)
             d == Reorder(f, type, seq)
  <2>1. r = UpdateTimer(d, ok)
    BY <1>3 DEF mlan_11n_rxreorder_pkt
  <2>2. /\ f \in Table /\ SlotsMatch(f) /\ ~f.check_start_win /\ f.present
        /\ f.timer_is_set = s.timer_is_set /\ f.armed = s.armed
    BY <1>3, FirstWindowSound
  <2> HIDE DEF f
  <2>3. d \in Table /\ SlotsMatch(d) /\ SameFlags(d, f)
    BY <2>2, ReorderKeepsSlots
  <2> HIDE DEF d
  <2>4. /\ d.present /\ ~d.check_start_win
        /\ d.timer_is_set => d.armed \/ TimerFails
    BY <2>2, <2>3 DEF SameFlags, Sound
  <2>5. UpdateTimer(d, ok) \in Table /\ Sound(UpdateTimer(d, ok))
    BY <2>3, <2>4, TimerSound
  <2> HIDE DEF r
  <2> QED
    BY <2>1, <2>5 DEF r
<1> QED
  BY <1>1, <1>2, <1>3
-----------------------------------------------------------------------------
(* The flush timer, and setting the stream up and taking it down *)

\* wlan_flush_data() empties the window: the slots behind the last packet are empty.
LEMMA FlushSound ==
  ASSUME NEW s \in Table, Sound(s)
  PROVE  wlan_flush_data(s) \in Table /\ Sound(wlan_flush_data(s))
<1> USE RxReorderAssumption
<1> DEFINE d == [s EXCEPT !.timer_is_set = FALSE, !.armed = FALSE]
           k == find_last_seqnum(s)
           w == Mask(s.start_win + k + 1)
           u == wlan_11n_dispatch_pkt_until_start_win(d, w)
           r == wlan_flush_data(s)
<1>1. /\ d \in Table /\ d.present = s.present /\ d.check_start_win = s.check_start_win
      /\ d.pkt_count = s.pkt_count /\ ~d.timer_is_set
      /\ d.ptr = s.ptr /\ d.bitmap = s.bitmap /\ d.start_win = s.start_win
  BY DEF Table
<1>2. r = IF Occupied(s) = {} THEN d ELSE u
  BY DEF wlan_flush_data
<1> HIDE DEF d, r
<1>3. SlotsMatch(d) /\ s.bitmap = Occupied(s) /\ d.bitmap = Occupied(s)
  BY <1>1 DEF Sound, SlotsMatch, Occupied
<1>4. CASE Occupied(s) = {}
  <2>1. r = d
    BY <1>2, <1>4
  <2> QED
    BY <1>1, <1>3, <1>4, <2>1 DEF Sound, r
<1>5. CASE Occupied(s) # {}
  <2>1. \E x \in Occupied(s) : \A y \in Occupied(s) : y <= x
    <3>1. Occupied(s) \subseteq 0..WinSize
      BY DEF Occupied, Slot
    <3> QED
      BY <1>5, <3>1, GreatestElement
  <2>2. k \in Occupied(s) /\ \A y \in Occupied(s) : y <= k
    BY <2>1 DEF find_last_seqnum
  <2>3. k \in 0..(WinSize - 1) /\ s.start_win \in 0..SeqMod
    BY <2>2 DEF Occupied, Slot, Table, StartWin
  <2> HIDE DEF k
  <2>4. w \in SeqNum
    BY <2>3 DEF Mask, SeqNum
  <2>5. \A i \in Slot : i + no_pkt_to_send(d, w) \notin d.bitmap
    <3>1. no_pkt_to_send(d, w) > k
      BY <1>1, <2>3 DEF no_pkt_to_send, Mask
    <3>2. no_pkt_to_send(d, w) \in Int
      BY <1>1, <2>3, <2>4 DEF no_pkt_to_send, SeqNum
    <3>3. \A y \in d.bitmap : y <= k /\ y \in Int
      BY <1>3, <2>2 DEF Occupied, Slot
    <3> HIDE DEF w
    <3> QED
      BY <2>3, <3>1, <3>2, <3>3 DEF Slot
  <2> HIDE DEF w
  <2>6. /\ u \in Table /\ SlotsMatch(u) /\ SameFlags(u, d)
        /\ \A i \in Slot : i \in u.bitmap <=> i + no_pkt_to_send(d, w) \in d.bitmap
    BY <1>1, <1>3, <2>4, UntilKeepsSlots
  <2> HIDE DEF u
  <2>7. u.bitmap = {}
    <3>1. u.bitmap \subseteq Slot
      BY <2>6 DEF Table, Bitmap
    <3> QED
      BY <2>5, <2>6, <3>1
  <2>8. Sound(u)
    BY <1>1, <2>6, <2>7 DEF Sound, SameFlags
  <2>9. r = u
    BY <1>2, <1>5
  <2> QED
    BY <2>6, <2>8, <2>9 DEF r
<1> QED
  BY <1>4, <1>5

\* The state without an entry
LEMMA NoTableSound == NoTable \in Table /\ Sound(NoTable)
<1> USE RxReorderAssumption
<1>1. NoTable \in Table
  <2>1. [i \in Slot |-> NoPkt] \in Window /\ {} \in Bitmap /\ 0 \in PktCount
        /\ DEFAULT_SEQ_NUM \in LastSeq /\ 0 \in StartWin
    BY DEF Window, Pkt, Bitmap, PktCount, LastSeq, StartWin
  <2>2. <<>> \in Pkts
    BY DEF Pkts
  <2> QED
    BY <2>1, <2>2 DEF NoTable, Table
<1>2. Sound(NoTable)
  BY DEF Sound, SlotsMatch, Occupied, NoTable
<1> QED
  BY <1>1, <1>2

\* What a step without an entry hands up or frees does not matter.
LEMMA DeleteSound ==
  ASSUME NEW s \in Table, Sound(s), NEW in_reset \in BOOLEAN
  PROVE  LET r == wlan_11n_delete_rxreorder_tbl_entry(s, in_reset) IN
           r \in Table /\ Sound(r)
<1> USE RxReorderAssumption
<1> DEFINE r == wlan_11n_delete_rxreorder_tbl_entry(s, in_reset)
           w == Mask(s.start_win + WinSize)
           u == wlan_11n_dispatch_pkt_until_start_win(s, w)
           x == [NoTable EXCEPT !.freed = FirstSlots(s, WinSize)]
           y == [NoTable EXCEPT !.out = u.out]
<1>1. r = s \/ r = x \/ r = y
  BY DEF wlan_11n_delete_rxreorder_tbl_entry
<1>2. x \in Table /\ Sound(x)
  <2>1. FirstSlots(s, WinSize) \in Pkts
    BY Appended
  <2>2. /\ x \in Table /\ SameFlags(x, NoTable)
        /\ x.ptr = NoTable.ptr /\ x.bitmap = NoTable.bitmap
        /\ x.start_win = NoTable.start_win
    <3> DEFINE f == FirstSlots(s, WinSize)
               n == NoTable
    <3>1. f \in Pkts /\ n \in Table
      BY <2>1, NoTableSound
    <3> HIDE DEF f, n
    <3>2. LET z == [n EXCEPT !.freed = f] IN
            /\ z \in Table /\ SameFlags(z, n)
            /\ z.ptr = n.ptr /\ z.bitmap = n.bitmap /\ z.start_win = n.start_win
      BY <3>1 DEF Table, SameFlags
    <3> QED
      BY <3>2 DEF f, n
  <2> HIDE DEF x
  <2> QED
    BY <2>2, NoTableSound, SoundSame
<1>3. y \in Table /\ Sound(y)
  <2>1. w \in SeqNum
    <3>1. s.start_win \in 0..SeqMod
      BY DEF Table, StartWin
    <3> QED
      BY <3>1 DEF Mask, SeqNum
  <2> HIDE DEF w
  <2>2. u \in Table
    BY <2>1, UntilKeepsSlots DEF Sound
  <2>3. /\ y \in Table /\ SameFlags(y, NoTable)
        /\ y.ptr = NoTable.ptr /\ y.bitmap = NoTable.bitmap
        /\ y.start_win = NoTable.start_win
    <3> DEFINE f == u.out
               n == NoTable
    <3>1. f \in Pkts /\ n \in Table
      <4> HIDE DEF u
      <4> QED
        BY <2>2, NoTableSound DEF Table
    <3> HIDE DEF f, n
    <3>2. LET z == [n EXCEPT !.out = f] IN
            /\ z \in Table /\ SameFlags(z, n)
            /\ z.ptr = n.ptr /\ z.bitmap = n.bitmap /\ z.start_win = n.start_win
      BY <3>1 DEF Table, SameFlags
    <3> QED
      BY <3>2 DEF f, n
  <2> HIDE DEF y
  <2> QED
    BY <2>3, NoTableSound, SoundSame
<1> HIDE DEF r, x, y
<1> QED
  BY <1>1, <1>2, <1>3 DEF r

\* wlan_11n_create_rxreorder_tbl(), for a new stream and for one negotiated again
LEMMA CreateSound ==
  ASSUME NEW s \in Table, Sound(s), rx_seq \in LastSeq, NEW ssn \in SeqNum,
         NEW mem \in BOOLEAN, NEW amsdu \in BOOLEAN
  PROVE  LET r == wlan_11n_create_rxreorder_tbl(s, ssn, mem, amsdu) IN
           r \in Table /\ Sound(r)
<1> USE RxReorderAssumption
<1> DEFINE r == wlan_11n_create_rxreorder_tbl(s, ssn, mem, amsdu)
           u == wlan_11n_dispatch_pkt_until_start_win(s, ssn)
           x == [NoTable EXCEPT !.present = TRUE, !.start_win = ssn,
                                !.last_seq = rx_seq, !.check_start_win = TRUE,
                                !.amsdu = amsdu]
<1>1. r = s \/ r = u \/ r = x
  BY DEF wlan_11n_create_rxreorder_tbl
<1>2. u \in Table /\ Sound(u)
  <2>1. /\ u \in Table /\ SlotsMatch(u) /\ SameFlags(u, s)
        /\ s.bitmap = {} => u.bitmap = {}
    BY UntilKeepsSlots DEF Sound
  <2> HIDE DEF u
  <2> QED
    BY <2>1 DEF Sound, SameFlags
<1>3. x \in Table /\ Sound(x)
  <2>1. ssn \in StartWin
    BY DEF SeqNum, StartWin
  <2>2. /\ x \in Table /\ x.ptr = NoTable.ptr /\ x.bitmap = NoTable.bitmap
        /\ x.timer_is_set = NoTable.timer_is_set /\ x.pkt_count = NoTable.pkt_count
    <3> DEFINE n == NoTable
    <3>1. n \in Table
      BY NoTableSound
    <3> HIDE DEF n
    <3>2. LET z == [n EXCEPT !.present = TRUE, !.start_win = ssn, !.last_seq = rx_seq,
                             !.check_start_win = TRUE, !.amsdu = amsdu] IN
            /\ z \in Table /\ z.ptr = n.ptr /\ z.bitmap = n.bitmap
            /\ z.timer_is_set = n.timer_is_set /\ z.pkt_count = n.pkt_count
      BY <2>1, <3>1 DEF Table
    <3> QED
      BY <3>2 DEF n
  <2> HIDE DEF x
  <2>3. Sound(x)
    BY <2>2 DEF Sound, SlotsMatch, Occupied, NoTable
  <2> QED
    BY <2>2, <2>3
<1> HIDE DEF r, u, x
<1> QED
  BY <1>1, <1>2, <1>3 DEF r
-----------------------------------------------------------------------------
(* The theorems *)

\* Clearing the record of the last step
LEMMA FreshSound ==
  ASSUME SoundInv
  PROVE  Fresh \in Table /\ Sound(Fresh) /\ SameFlags(Fresh, t)
<1>1. t \in Table /\ Sound(t)
  BY DEF SoundInv, TypeOK
<1>2. <<>> \in Pkts
  BY DEF Pkts
<1>3. /\ Fresh \in Table /\ SameFlags(Fresh, t)
      /\ Fresh.ptr = t.ptr /\ Fresh.bitmap = t.bitmap /\ Fresh.start_win = t.start_win
  BY <1>1, <1>2 DEF Fresh, Table, SameFlags
<1> QED
  BY <1>1, <1>3, SoundSame

\* Every action keeps the inductive invariant.
LEMMA SoundStep == SoundInv /\ [Next]_vars => SoundInv'
<1> SUFFICES ASSUME SoundInv, [Next]_vars PROVE SoundInv'
  OBVIOUS
<1> USE RxReorderAssumption
<1>0. /\ t \in Table /\ Sound(t) /\ rx_seq \in LastSeq
      /\ answer \in {"none", "accepted", "declined"}
      /\ Fresh \in Table /\ Sound(Fresh)
  BY FreshSound DEF SoundInv, TypeOK
<1>a. <<>> \in (PktType \X SeqNum) \cup {<<>>}
  OBVIOUS
<1>1. ASSUME NEW type \in PktType, NEW seq \in SeqNum, Receive(type, seq) PROVE SoundInv'
  <2>1. PICK ok \in TimerStart : t' = mlan_11n_rxreorder_pkt(Fresh, type, seq, ok)
    BY <1>1 DEF Receive
  <2>2. t' \in Table /\ Sound(t')
    BY <1>0, <2>1, RxPktSound
  <2>3. rx_seq' \in LastSeq
    BY <1>0, <1>1 DEF Receive, LastSeq
  <2>4. arrived' = <<type, seq>> /\ answer' = answer
    BY <1>1 DEF Receive
  <2> QED
    BY <1>0, <2>2, <2>3, <2>4 DEF SoundInv, TypeOK, Sound, SlotsMatch, Occupied
<1>2. CASE Flush
  <2>1. t' \in Table /\ Sound(t')
    BY <1>0, <1>2, FlushSound DEF Flush
  <2> QED
    BY <1>0, <1>a, <1>2, <2>1 DEF Flush, SoundInv, TypeOK, Sound, SlotsMatch, Occupied
<1>3. ASSUME NEW ssn \in Ssns, AddbaRequest(ssn) PROVE SoundInv'
  <2>1. ssn \in SeqNum
    BY DEF SeqNum
  <2>2. t' \in Table /\ Sound(t')
    <3>1. CASE t' = Fresh
      BY <1>0, <3>1
    <3>2. CASE \E mem, amsdu \in BOOLEAN :
                 t' = wlan_11n_create_rxreorder_tbl(Fresh, ssn, mem, amsdu)
      BY <1>0, <2>1, <3>2, CreateSound
    <3> QED
      BY <1>3, <3>1, <3>2 DEF AddbaRequest
  <2>3. answer' \in {"none", "accepted", "declined"} /\ arrived' = <<>> /\ rx_seq' = rx_seq
    BY <1>3 DEF AddbaRequest
  <2> QED
    BY <1>0, <1>a, <2>2, <2>3 DEF SoundInv, TypeOK, Sound, SlotsMatch, Occupied
<1>4. CASE AddbaResponse
  <2>1. t' \in Table /\ Sound(t')
    <3>1. CASE t' = Fresh
      BY <1>0, <3>1
    <3>2. ASSUME NEW amsdu \in BOOLEAN, t' = [Fresh EXCEPT !.amsdu = amsdu]
          PROVE  t' \in Table /\ Sound(t')
      <4> DEFINE f == Fresh
                 r == [f EXCEPT !.amsdu = amsdu]
      <4> HIDE DEF f
      <4>1. f \in Table /\ Sound(f) /\ t' = r
        BY <1>0, <3>2 DEF f
      <4>2. /\ r \in Table /\ SameFlags(r, f)
            /\ r.ptr = f.ptr /\ r.bitmap = f.bitmap /\ r.start_win = f.start_win
        BY <4>1 DEF Table, SameFlags
      <4> HIDE DEF r
      <4>3. Sound(r)
        BY <4>1, <4>2, SoundSame
      <4> QED
        BY <4>1, <4>2, <4>3
    <3>3. CASE \E in_reset \in BOOLEAN :
                 t' = wlan_11n_delete_rxreorder_tbl_entry(Fresh, in_reset)
      BY <1>0, <3>3, DeleteSound
    <3> QED
      BY <1>4, <3>1, <3>2, <3>3 DEF AddbaResponse
  <2>2. answer' = "none" /\ arrived' = <<>> /\ rx_seq' = rx_seq
    BY <1>4 DEF AddbaResponse
  <2> QED
    BY <1>0, <1>a, <2>1, <2>2 DEF SoundInv, TypeOK, Sound, SlotsMatch, Occupied
<1>5. CASE Delba
  <2>1. t' \in Table /\ Sound(t')
    BY <1>0, <1>5, DeleteSound DEF Delba
  <2> QED
    BY <1>0, <1>a, <1>5, <2>1 DEF Delba, SoundInv, TypeOK, Sound, SlotsMatch, Occupied
<1>6. CASE wlan_11n_cleanup_reorder_tbl
  <2>1. t' \in Table /\ Sound(t')
    BY <1>0, <1>6, DeleteSound DEF wlan_11n_cleanup_reorder_tbl
  <2>2. rx_seq' \in LastSeq /\ arrived' = <<>> /\ answer' = answer
    BY <1>6 DEF wlan_11n_cleanup_reorder_tbl, LastSeq
  <2> QED
    BY <1>0, <1>a, <2>1, <2>2 DEF SoundInv, TypeOK, Sound, SlotsMatch, Occupied
<1>7. CASE HostSleepActivated
  <2> DEFINE f == Fresh
             r == [f EXCEPT !.force_no_drop = TRUE]
  <2> HIDE DEF f
  <2>1. f \in Table /\ Sound(f) /\ t' = r
    BY <1>0, <1>7 DEF f, HostSleepActivated
  <2>2. /\ r \in Table /\ SameFlags(r, f)
        /\ r.ptr = f.ptr /\ r.bitmap = f.bitmap /\ r.start_win = f.start_win
    BY <2>1 DEF Table, SameFlags
  <2> HIDE DEF r
  <2>3. Sound(r)
    BY <2>1, <2>2, SoundSame
  <2>4. t' \in Table /\ Sound(t')
    BY <2>1, <2>2, <2>3
  <2>5. arrived' = <<>> /\ rx_seq' = rx_seq /\ answer' = answer
    BY <1>7 DEF HostSleepActivated
  <2> QED
    BY <1>0, <1>a, <2>4, <2>5 DEF SoundInv, TypeOK, Sound, SlotsMatch, Occupied
<1>8. CASE UNCHANGED vars
  BY <1>8 DEF vars, SoundInv, TypeOK, Sound, SlotsMatch, Occupied
<1> QED
  BY <1>1, <1>2, <1>3, <1>4, <1>5, <1>6, <1>7, <1>8 DEF Next

\* The inductive invariant holds in every reachable state of the table.
LEMMA SoundAlways == Spec => []SoundInv
<1>1. Init => SoundInv
  BY NoTableSound DEF Init, SoundInv, TypeOK, LastSeq
<1> QED
  BY <1>1, SoundStep, PTL DEF Spec

\* For every modulus and window: each packet sits in the slot of its own sequence
\* number and the bitmap names exactly the slots in use, through duplicates, BARs,
\* wrap-around, flushes, renegotiation and packets let through after host sleep
\* (mlan_11n_rxreorder.c).
THEOREM SlotsAlwaysMatch == Spec => []TableConsistent
<1>1. SoundInv => TableConsistent
  BY DEF SoundInv, Sound, TableConsistent
<1> QED
  BY <1>1, SoundAlways, PTL

\* For every modulus and window: while a packet waits the flush timer is set, and it
\* runs unless FreeRTOS refused to start it (UpdateTimer, wlan_flush_data).
THEOREM WaitingIsTimed == Spec => []BufferedArmed
<1>1. SoundInv => BufferedArmed
  BY DEF SoundInv, Sound, BufferedArmed
<1> QED
  BY <1>1, SoundAlways, PTL

\* Types, for every modulus and window: no sequence number, counter or slot index of
\* the table leaves its range.
THEOREM ReorderTypes == Spec => []TypeOK
<1>1. SoundInv => TypeOK
  BY DEF SoundInv
<1> QED
  BY <1>1, SoundAlways, PTL
=============================================================================
