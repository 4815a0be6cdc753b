----------------------------- MODULE WmmProofs -----------------------------
(***************************************************************************)
(* Proofs about the WMM transmit queues, for any number of buffers,        *)
(* categories and clients: no buffer is lost or doubled, the counts are    *)
(* exact, queues keep their order and no packet is forgotten.              *)
(*                                                                         *)
(* The lists of nodes are treated as values first (what a pop, a push and  *)
(* a removal do to the buffers in them), the steps of the threads after    *)
(* that.                                                                   *)
(***************************************************************************)
EXTENDS Wmm, FiniteSetTheorems, FunctionTheorems, SequenceTheorems, WellFoundedInduction,
        NaturalsInduction, TLAPS

Entry == Bufs \X (1 .. MaxPkts)
Lists == [Acs -> Seq(NodeType)]

\* The queue of the node at k, and the buffers of a category.
Q(L, a, k) == L[a][k].buf_head
Holds(L, a, b) == \E k \in DOMAIN L[a] : \E i \in DOMAIN Q(L, a, k) : Q(L, a, k)[i][1] = b
BufsOf(L, a) == {b \in Bufs : Holds(L, a, b)}

\* No buffer is twice in the lists.
Distinct(L) ==
  \A a, b \in Acs : \A k \in DOMAIN L[a], l \in DOMAIN L[b] :
    \A i \in DOMAIN Q(L, a, k), j \in DOMAIN Q(L, b, l) :
      Q(L, a, k)[i][1] = Q(L, b, l)[j][1] => a = b /\ k = l /\ i = j

Ordered(L) ==
  \A a \in Acs : \A k \in DOMAIN L[a] : \A i, j \in DOMAIN Q(L, a, k) :
    i < j => Q(L, a, k)[i][2] < Q(L, a, k)[j][2]

\* Packets numbered n at most.
Below(L, n) == \A a \in Acs : \A k \in DOMAIN L[a] : \A i \in DOMAIN Q(L, a, k) : Q(L, a, k)[i][2] <= n
-----------------------------------------------------------------------------
SndPc == {"idle", "get", "steal", "again", "out", "enqueue", "add", "added", "notify"}
SndType == [pc : SndPc, ra : RAs, ac : Acs, buf : Bufs \cup {NoBuf}, retry : 0 .. retry_attempts,
            i : Acs]
TxType == [pc : {"idle", "round", "xmit"}, ac : Acs, left : {"nothing", "card", "link"}]
DrvType == [pc : {"idle", "assoc", "gone", "add"}, ra : RAs, i : Acs]
CoreType == [pc : {"idle", "pause", "resume"}, ra : RAs, i : Acs]

TypeInv ==
  /\ free \subseteq Bufs /\ pkt \in 0 .. MaxPkts /\ ra_list \in Lists
  /\ pkts_queued \in [Acs -> Int] /\ priv \in [tx_pause : BOOLEAN, media_connected : BOOLEAN]
  /\ snd \in SndType /\ tx \in TxType /\ drv \in DrvType /\ core \in CoreType
  /\ notified \in BOOLEAN

\* Where the sender has a buffer, and attempts left.
SndInv ==
  /\ snd.buf # NoBuf <=> snd.pc \in {"out", "enqueue", "add", "added"}
  /\ snd.pc \in {"get", "steal", "again"} => snd.retry >= 1
  /\ snd.pc # "idle" => pkt >= 1

\* A buffer is in a queue exactly when it is neither free nor the sender's.
BufInv ==
  /\ Distinct(ra_list) /\ snd.buf \notin free
  /\ \A b \in Bufs : (\E a \in Acs : b \in BufsOf(ra_list, a)) <=> b \notin free /\ b # snd.buf

CountInv == \A a \in Acs : pkts_queued[a] = Cardinality(BufsOf(ra_list, a))

\* The packet in the sender's hands is newer than those queued.
OrderInv ==
  Ordered(ra_list) /\ Below(ra_list, IF snd.pc \in {"idle", "notify"} THEN pkt ELSE pkt - 1)

\* A queue that may be sent has its category still ahead of wifi_driver_tx()'s round, or a
\* notification is there or will come; whether the link is up does not matter.
Sendable(a, k) == ra_list[a][k].buf_head # <<>> /\ ~ra_list[a][k].tx_pause
Coming == notified \/ snd.pc = "notify" \/ core.pc = "resume"
Ahead(a) == tx.pc # "idle" /\ a <= tx.ac
RoundInv ==
  \A a \in Acs : \A k \in DOMAIN ra_list[a] :
    Sendable(a, k) /\ ~priv.tx_pause /\ tx.left = "nothing" => Coming \/ Ahead(a)

WmmInv == TypeInv /\ SndInv /\ BufInv /\ CountInv /\ OrderInv /\ RoundInv
-----------------------------------------------------------------------------
(* Sequences and first elements *)

\* A set of numbers that has a member has a smallest one.
LEMMA Smallest ==
  ASSUME NEW S \in SUBSET Nat, S # {}
  PROVE  \E x \in S : \A y \in S : x <= y
<1>1. PICK x \in S : \A y \in S : ~(<<y, x>> \in OpToRel(<, Nat))
  BY NatLessThanWellFounded, WFMin
<1>2. \A y \in S : ~(y < x)
  BY <1>1 DEF OpToRel
<1> QED
  BY <1>2

LEMMA MinIn ==
  ASSUME NEW S \in SUBSET Nat, S # {}
  PROVE  Min(S) \in S
BY Smallest DEF Min

\* RemoveAt() moves what follows down by one.
LEMMA RemoveAtIs ==
  ASSUME NEW S, NEW s \in Seq(S), NEW k \in 1 .. Len(s)
  PROVE  /\ RemoveAt(s, k) \in Seq(S) /\ Len(RemoveAt(s, k)) = Len(s) - 1
         /\ \A j \in 1 .. Len(s) - 1 : RemoveAt(s, k)[j] = IF j < k THEN s[j] ELSE s[j + 1]
<1>1. PICK n \in Nat : n = Len(s)
  OBVIOUS
<1>2. PICK a, b : a = SubSeq(s, 1, k - 1) /\ b = SubSeq(s, k + 1, n)
  OBVIOUS
<1>3. a \in Seq(S) /\ Len(a) = k - 1 /\ \A j \in 1 .. k - 1 : a[j] = s[j]
  BY <1>1, <1>2
<1>4. b \in Seq(S) /\ Len(b) = n - k /\ \A j \in 1 .. n - k : b[j] = s[k + j]
  BY <1>1, <1>2
<1>5. RemoveAt(s, k) = a \o b
  BY <1>1, <1>2 DEF RemoveAt
<1>6. /\ a \o b \in Seq(S) /\ Len(a \o b) = Len(a) + Len(b)
      /\ \A j \in 1 .. Len(a) + Len(b) :
           (a \o b)[j] = IF j <= Len(a) THEN a[j] ELSE b[j - Len(a)]
  BY <1>3, <1>4, ConcatProperties
<1>7. \A j \in 1 .. n - 1 : (a \o b)[j] = IF j < k THEN s[j] ELSE s[j + 1]
  <2>1. ASSUME NEW j \in 1 .. n - 1 PROVE (a \o b)[j] = IF j < k THEN s[j] ELSE s[j + 1]
    <3>1. (a \o b)[j] = IF j <= k - 1 THEN a[j] ELSE b[j - (k - 1)]
      BY <1>1, <1>3, <1>4, <1>6
    <3>2. CASE j < k
      BY <1>1, <1>3, <3>1, <3>2
    <3>3. CASE ~(j < k)
      <4>1. j - (k - 1) \in 1 .. n - k /\ k + (j - (k - 1)) = j + 1
        BY <1>1, <3>3
      <4>2. b[j - (k - 1)] = s[j + 1]
        BY <1>4, <4>1
      <4> QED
        BY <1>1, <3>1, <3>3, <4>2
    <3> QED
      BY <3>2, <3>3
  <2> QED
    BY <2>1
<1>8. Len(a \o b) = n - 1
  BY <1>1, <1>3, <1>4, <1>6
<1> QED
  BY <1>1, <1>5, <1>6, <1>7, <1>8

LEMMA TailIs ==
  ASSUME NEW S, NEW s \in Seq(S), s # <<>>
  PROVE  /\ Tail(s) \in Seq(S) /\ Head(s) = s[1] /\ 1 \in DOMAIN s
         /\ \A i : i \in DOMAIN Tail(s) <=> i \in Nat \ {0} /\ i + 1 \in DOMAIN s
         /\ \A i \in DOMAIN Tail(s) : Tail(s)[i] = s[i + 1]
OBVIOUS

LEMMA AppendIs ==
  ASSUME NEW S, NEW s \in Seq(S), NEW e \in S
  PROVE  /\ Append(s, e) \in Seq(S) /\ DOMAIN Append(s, e) = DOMAIN s \cup {Len(s) + 1}
         /\ Len(s) + 1 \notin DOMAIN s /\ \A i \in DOMAIN s : i < Len(s) + 1 /\ Append(s, e)[i] = s[i]
         /\ Append(s, e)[Len(s) + 1] = e
<1>1. /\ Append(s, e) \in Seq(S) /\ DOMAIN Append(s, e) = 1 .. Len(s) + 1
      /\ DOMAIN s = 1 .. Len(s) /\ Len(s) \in Nat
      /\ \A i \in 1 .. Len(s) : Append(s, e)[i] = s[i]
      /\ Append(s, e)[Len(s) + 1] = e
  OBVIOUS
<1>2. 1 .. Len(s) + 1 = 1 .. Len(s) \cup {Len(s) + 1}
  BY <1>1
<1> QED
  BY <1>1, <1>2
-----------------------------------------------------------------------------
(* The lists of nodes as values *)

LEMMA NodeIs ==
  ASSUME NEW L \in Lists, NEW a \in Acs, NEW k \in DOMAIN L[a]
  PROVE  /\ L[a] \in Seq(NodeType) /\ L[a][k] \in NodeType /\ Q(L, a, k) \in Seq(Entry)
         /\ DOMAIN L[a] = 1 .. Len(L[a]) /\ Len(L[a]) \in Nat
         /\ \A i \in DOMAIN Q(L, a, k) : /\ Q(L, a, k)[i] \in Entry
                                         /\ Q(L, a, k)[i][1] \in Bufs /\ Q(L, a, k)[i][2] \in Nat
<1>1. L[a] \in Seq(NodeType) /\ L[a][k] \in NodeType
  BY DEF Lists
<1>2. Q(L, a, k) \in Seq(Entry)
  BY <1>1 DEF NodeType, Q, Entry
<1>3. \A i \in DOMAIN Q(L, a, k) : Q(L, a, k)[i] \in Entry
  BY <1>2
<1>4. \A e \in Entry : e[1] \in Bufs /\ e[2] \in Nat
  BY WmmAssumption DEF Entry
<1> QED
  BY <1>1, <1>2, <1>3, <1>4

\* A list whose elements are found again in another, at places shifted node by node.
Embeds(L, M, f, g) ==
  /\ \A a \in Acs : \A k \in DOMAIN M[a] : \A i \in DOMAIN Q(M, a, k) :
       /\ f[a][k] \in DOMAIN L[a] /\ g[a][k] \in Nat
       /\ i + g[a][k] \in DOMAIN Q(L, a, f[a][k])
       /\ Q(M, a, k)[i] = Q(L, a, f[a][k])[i + g[a][k]]
  /\ \A a \in Acs : \A k, l \in DOMAIN M[a] : f[a][k] = f[a][l] => k = l

LEMMA EmbedKeeps ==
  ASSUME NEW L \in Lists, NEW M \in Lists, NEW f, NEW g, Embeds(L, M, f, g)
  PROVE  /\ Distinct(L) => Distinct(M)
         /\ Ordered(L) => Ordered(M)
         /\ \A n : Below(L, n) => Below(M, n)
         /\ \A a \in Acs : BufsOf(M, a) \subseteq BufsOf(L, a)
<1>1. ASSUME Distinct(L) PROVE Distinct(M)
  <2>1. ASSUME NEW a \in Acs, NEW b \in Acs, NEW k \in DOMAIN M[a], NEW l \in DOMAIN M[b],
               NEW i \in DOMAIN Q(M, a, k), NEW j \in DOMAIN Q(M, b, l),
               Q(M, a, k)[i][1] = Q(M, b, l)[j][1]
        PROVE  a = b /\ k = l /\ i = j
    <3>1. /\ f[a][k] \in DOMAIN L[a] /\ g[a][k] \in Nat /\ i + g[a][k] \in DOMAIN Q(L, a, f[a][k])
          /\ Q(M, a, k)[i] = Q(L, a, f[a][k])[i + g[a][k]]
      BY DEF Embeds
    <3>2. /\ f[b][l] \in DOMAIN L[b] /\ g[b][l] \in Nat /\ j + g[b][l] \in DOMAIN Q(L, b, f[b][l])
          /\ Q(M, b, l)[j] = Q(L, b, f[b][l])[j + g[b][l]]
      BY DEF Embeds
    <3>3. a = b /\ f[a][k] = f[b][l] /\ i + g[a][k] = j + g[b][l]
      BY <1>1, <2>1, <3>1, <3>2 DEF Distinct
    <3>4. a = b /\ k = l
      BY <3>3 DEF Embeds
    <3>5. i \in Nat /\ j \in Nat
      BY NodeIs
    <3> QED
      BY <3>1, <3>3, <3>4, <3>5
  <2> QED
    BY <2>1 DEF Distinct
<1>2. ASSUME Ordered(L) PROVE Ordered(M)
  <2>1. ASSUME NEW a \in Acs, NEW k \in DOMAIN M[a],
               NEW i \in DOMAIN Q(M, a, k), NEW j \in DOMAIN Q(M, a, k), i < j
        PROVE  Q(M, a, k)[i][2] < Q(M, a, k)[j][2]
    <3>1. /\ f[a][k] \in DOMAIN L[a] /\ g[a][k] \in Nat /\ i + g[a][k] \in DOMAIN Q(L, a, f[a][k])
          /\ Q(M, a, k)[i] = Q(L, a, f[a][k])[i + g[a][k]]
          /\ j + g[a][k] \in DOMAIN Q(L, a, f[a][k])
          /\ Q(M, a, k)[j] = Q(L, a, f[a][k])[j + g[a][k]]
      BY DEF Embeds
    <3>2. i \in Nat /\ j \in Nat
      BY NodeIs
    <3>3. i + g[a][k] < j + g[a][k]
      BY <2>1, <3>1, <3>2
    <3> QED
      BY <1>2, <3>1, <3>3 DEF Ordered
  <2> QED
    BY <2>1 DEF Ordered
<1>3. ASSUME NEW n, Below(L, n) PROVE Below(M, n)
  BY <1>3 DEF Below, Embeds
<1>4. ASSUME NEW a \in Acs PROVE BufsOf(M, a) \subseteq BufsOf(L, a)
  BY DEF BufsOf, Holds, Embeds
<1> QED
  BY <1>1, <1>2, <1>3, <1>4

\* The same queues, but for nodes without packets.
SameQueues(L, M) ==
  \A a \in Acs :
    /\ \A k \in DOMAIN M[a] : Q(M, a, k) # <<>> => k \in DOMAIN L[a] /\ Q(L, a, k) = Q(M, a, k)
    /\ \A k \in DOMAIN L[a] : k \in DOMAIN M[a] /\ Q(M, a, k) = Q(L, a, k)

LEMMA SameKeeps ==
  ASSUME NEW L \in Lists, NEW M \in Lists, SameQueues(L, M), Distinct(L), Ordered(L)
  PROVE  /\ Distinct(M) /\ Ordered(M) /\ \A n : Below(L, n) => Below(M, n)
         /\ \A a \in Acs : BufsOf(M, a) = BufsOf(L, a)
<1>1. PICK f : f = [a \in Acs |-> [k \in Nat |-> k]]
  OBVIOUS
<1>2. PICK g : g = [a \in Acs |-> [k \in Nat |-> 0]]
  OBVIOUS
<1>3. \A a \in Acs : \A k \in DOMAIN M[a] : k \in Nat /\ f[a][k] = k /\ g[a][k] = 0
  BY <1>1, <1>2, NodeIs
<1>4. ASSUME NEW a \in Acs, NEW k \in DOMAIN M[a], NEW i \in DOMAIN Q(M, a, k)
      PROVE  /\ f[a][k] \in DOMAIN L[a] /\ g[a][k] \in Nat
             /\ i + g[a][k] \in DOMAIN Q(L, a, f[a][k])
             /\ Q(M, a, k)[i] = Q(L, a, f[a][k])[i + g[a][k]]
  <2>1. Q(M, a, k) # <<>> /\ i + 0 = i
    BY NodeIs
  <2>2. k \in DOMAIN L[a] /\ Q(L, a, k) = Q(M, a, k)
    BY <2>1 DEF SameQueues
  <2> QED
    BY <1>3, <2>1, <2>2
<1>5. \A a \in Acs : \A k, l \in DOMAIN M[a] : f[a][k] = f[a][l] => k = l
  BY <1>3
<1>6. /\ Distinct(M) /\ Ordered(M) /\ \A n : Below(L, n) => Below(M, n)
      /\ \A a \in Acs : BufsOf(M, a) \subseteq BufsOf(L, a)
  <2>1. Embeds(L, M, f, g)
    BY <1>4, <1>5 DEF Embeds
  <2> QED
    BY <2>1, EmbedKeeps
<1>7. \A a \in Acs : BufsOf(L, a) \subseteq BufsOf(M, a)
  BY DEF BufsOf, Holds, SameQueues
<1> QED
  BY <1>6, <1>7

\* Another queue for one node.
SetQ(L, a, k, q) == [L EXCEPT ![a][k].buf_head = q]

LEMMA SetQueue ==
  ASSUME NEW L \in Lists, NEW a0 \in Acs, NEW k0 \in DOMAIN L[a0], NEW q \in Seq(Entry), NEW M,
         M = SetQ(L, a0, k0, q)
  PROVE  /\ M \in Lists
         /\ \A a \in Acs : DOMAIN M[a] = DOMAIN L[a]
         /\ \A a \in Acs : \A k \in DOMAIN L[a] :
              /\ Q(M, a, k) = IF a = a0 /\ k = k0 THEN q ELSE Q(L, a, k)
              /\ M[a][k].tx_pause = L[a][k].tx_pause
<1>1. L[a0] \in Seq(NodeType) /\ L[a0][k0] \in NodeType
  BY NodeIs
<1>2. PICK nd : nd = [L[a0][k0] EXCEPT !.buf_head = q]
  OBVIOUS
<1>3. nd \in NodeType /\ nd.buf_head = q /\ nd.tx_pause = L[a0][k0].tx_pause
  BY <1>1, <1>2 DEF NodeType, Entry
<1>4. PICK s : s = [L[a0] EXCEPT ![k0] = nd]
  OBVIOUS
<1>5. s \in Seq(NodeType) /\ DOMAIN s = DOMAIN L[a0]
      /\ \A k \in DOMAIN L[a0] : s[k] = IF k = k0 THEN nd ELSE L[a0][k]
  BY <1>1, <1>3, <1>4
<1>6. M = [L EXCEPT ![a0] = s]
  BY <1>2, <1>4 DEF SetQ
<1>7. M \in Lists /\ \A a \in Acs : M[a] = IF a = a0 THEN s ELSE L[a]
  BY <1>5, <1>6 DEF Lists
<1>8. \A a \in Acs : DOMAIN M[a] = DOMAIN L[a]
  BY <1>5, <1>7
<1>9. ASSUME NEW a \in Acs, NEW k \in DOMAIN L[a]
      PROVE  /\ Q(M, a, k) = IF a = a0 /\ k = k0 THEN q ELSE Q(L, a, k)
             /\ M[a][k].tx_pause = L[a][k].tx_pause
  BY <1>3, <1>5, <1>7 DEF Q
<1> QED
  BY <1>7, <1>8, <1>9

\* The head of one queue is taken.
LEMMA PopIs ==
  ASSUME NEW L \in Lists, NEW a0 \in Acs, NEW k0 \in DOMAIN L[a0], Q(L, a0, k0) # <<>>, NEW M,
         M = SetQ(L, a0, k0, Tail(Q(L, a0, k0))), Distinct(L), Ordered(L), NEW h,
         h = Head(Q(L, a0, k0))[1]
  PROVE  /\ M \in Lists /\ Distinct(M) /\ Ordered(M) /\ \A n : Below(L, n) => Below(M, n)
         /\ h \in BufsOf(L, a0) /\ BufsOf(M, a0) = BufsOf(L, a0) \ {h}
         /\ \A a \in Acs \ {a0} : BufsOf(M, a) = BufsOf(L, a)
<1>1. PICK q : q = Q(L, a0, k0)
  OBVIOUS
<1>2. q \in Seq(Entry) /\ q # <<>>
  BY <1>1, NodeIs
<1>3. /\ Tail(q) \in Seq(Entry) /\ Head(q) = q[1] /\ 1 \in DOMAIN q
      /\ \A i : i \in DOMAIN Tail(q) <=> i \in Nat \ {0} /\ i + 1 \in DOMAIN q
      /\ \A i \in DOMAIN Tail(q) : Tail(q)[i] = q[i + 1]
  BY <1>2, TailIs
<1>4. /\ M \in Lists /\ \A a \in Acs : DOMAIN M[a] = DOMAIN L[a]
      /\ \A a \in Acs : \A k \in DOMAIN L[a] :
           Q(M, a, k) = IF a = a0 /\ k = k0 THEN Tail(q) ELSE Q(L, a, k)
  <2>1. PICK r \in Seq(Entry) : r = Tail(q)
    BY <1>3
  <2>2. M = SetQ(L, a0, k0, r)
    BY <1>1, <2>1
  <2>3. /\ M \in Lists
        /\ \A a \in Acs : DOMAIN M[a] = DOMAIN L[a]
        /\ \A a \in Acs : \A k \in DOMAIN L[a] :
             /\ Q(M, a, k) = IF a = a0 /\ k = k0 THEN r ELSE Q(L, a, k)
             /\ M[a][k].tx_pause = L[a][k].tx_pause
    BY <2>2, SetQueue
  <2> QED
    BY <2>1, <2>3
<1>5. PICK f : f = [a \in Acs |-> [k \in Nat |-> k]]
  OBVIOUS
<1>6. PICK g : g = [a \in Acs |-> [k \in Nat |-> IF a = a0 /\ k = k0 THEN 1 ELSE 0]]
  OBVIOUS
<1>7. \A a \in Acs : \A k \in DOMAIN M[a] :
        k \in Nat /\ f[a][k] = k /\ g[a][k] = IF a = a0 /\ k = k0 THEN 1 ELSE 0
  BY <1>4, <1>5, <1>6, NodeIs
<1>8. ASSUME NEW a \in Acs, NEW k \in DOMAIN M[a], NEW i \in DOMAIN Q(M, a, k)
      PROVE  /\ f[a][k] \in DOMAIN L[a] /\ g[a][k] \in Nat
             /\ i + g[a][k] \in DOMAIN Q(L, a, f[a][k])
             /\ Q(M, a, k)[i] = Q(L, a, f[a][k])[i + g[a][k]]
  <2>1. CASE a = a0 /\ k = k0
    <3>1. Q(M, a, k) = Tail(q) /\ f[a][k] = k /\ g[a][k] = 1 /\ k \in DOMAIN L[a]
      BY <1>4, <1>7, <2>1
    <3>2. i + 1 \in DOMAIN q /\ Tail(q)[i] = q[i + 1]
      BY <1>3, <3>1
    <3> QED
      BY <1>1, <2>1, <3>1, <3>2
  <2>2. CASE ~(a = a0 /\ k = k0)
    <3>1. i + 0 = i
      BY <1>4, NodeIs
    <3> QED
      BY <1>4, <1>7, <2>2, <3>1
  <2> QED
    BY <2>1, <2>2
<1>9. Embeds(L, M, f, g)
  BY <1>7, <1>8 DEF Embeds
<1>10. /\ Distinct(M) /\ Ordered(M) /\ \A n : Below(L, n) => Below(M, n)
       /\ \A a \in Acs : BufsOf(M, a) \subseteq BufsOf(L, a)
  BY <1>4, <1>9, EmbedKeeps
<1>11. h \in BufsOf(L, a0)
  BY <1>1, <1>3, NodeIs DEF BufsOf, Holds
<1>12. h \notin BufsOf(M, a0)
  <2>1. ASSUME NEW k \in DOMAIN M[a0], NEW i \in DOMAIN Q(M, a0, k), Q(M, a0, k)[i][1] = h
        PROVE  FALSE
    <3>1. /\ f[a0][k] = k /\ k \in DOMAIN L[a0] /\ i + g[a0][k] \in DOMAIN Q(L, a0, k)
          /\ Q(L, a0, k)[i + g[a0][k]][1] = q[1][1]
      BY <1>3, <1>1, <1>7, <1>8, <2>1
    <3>2. k = k0 /\ i + g[a0][k] = 1
      BY <1>1, <1>3, <3>1 DEF Distinct
    <3>3. i \in Nat \ {0} /\ g[a0][k] = 1
      BY <1>3, <1>4, <1>7, <3>1, <3>2
    <3> QED
      BY <3>2, <3>3
  <2> QED
    BY <2>1 DEF BufsOf, Holds
<1>13. ASSUME NEW a \in Acs, NEW b \in BufsOf(L, a), b # h PROVE b \in BufsOf(M, a)
  <2>1. PICK k \in DOMAIN L[a] : \E i \in DOMAIN Q(L, a, k) : Q(L, a, k)[i][1] = b
    BY DEF BufsOf, Holds
  <2>2. PICK i \in DOMAIN Q(L, a, k) : Q(L, a, k)[i][1] = b
    BY <2>1
  <2>3. CASE a = a0 /\ k = k0
    <3>1. i # 1 /\ i \in Nat \ {0} /\ i \in DOMAIN q
      BY <1>1, <1>2, <1>3, <1>13, <2>2, <2>3
    <3>2. i - 1 \in Nat \ {0} /\ i - 1 + 1 = i
      BY <3>1
    <3>3. i - 1 \in DOMAIN Tail(q) /\ Tail(q)[i - 1] = q[i]
      BY <1>3, <3>1, <3>2
    <3> QED
      BY <1>1, <1>4, <2>2, <2>3, <3>3 DEF BufsOf, Holds
  <2>4. CASE ~(a = a0 /\ k = k0)
    BY <1>4, <2>2, <2>4 DEF BufsOf, Holds
  <2> QED
    BY <2>3, <2>4
<1>14. \A a \in Acs \ {a0} : h \notin BufsOf(L, a)
  BY <1>1, <1>3 DEF BufsOf, Holds, Distinct
<1>15. BufsOf(M, a0) = BufsOf(L, a0) \ {h}
  BY <1>10, <1>12, <1>13
<1>16. \A a \in Acs \ {a0} : BufsOf(M, a) = BufsOf(L, a)
  BY <1>10, <1>13, <1>14
<1> QED
  BY <1>4, <1>10, <1>11, <1>15, <1>16

\* An entry goes to the end of one queue.
LEMMA PushIs ==
  ASSUME NEW L \in Lists, NEW a0 \in Acs, NEW k0 \in DOMAIN L[a0], NEW e \in Entry, NEW b, NEW n,
         b = e[1], n = e[2], NEW q, q = Q(L, a0, k0), NEW M, M = SetQ(L, a0, k0, Append(q, e)),
         Distinct(L), Ordered(L), Below(L, n - 1), \A a \in Acs : b \notin BufsOf(L, a)
  PROVE  /\ M \in Lists /\ Distinct(M) /\ Ordered(M) /\ Below(M, n)
         /\ BufsOf(M, a0) = BufsOf(L, a0) \cup {b}
         /\ \A a \in Acs \ {a0} : BufsOf(M, a) = BufsOf(L, a)
<1>1. q = Q(L, a0, k0)
  OBVIOUS
<1>2. q \in Seq(Entry)
  BY NodeIs
<1>3. b \in Bufs /\ n \in Nat /\ e[1] = b /\ e[2] = n
  <2>1. \A x \in Entry : x[1] \in Bufs /\ x[2] \in Nat
    BY WmmAssumption DEF Entry
  <2> QED
    BY <2>1
<1>4. PICK z : z = Len(q) + 1
  OBVIOUS
<1>5. PICK r \in Seq(Entry) : r = Append(q, e)
  BY <1>2, AppendProperties
<1>6. /\ r \in Seq(Entry) /\ DOMAIN r = DOMAIN q \cup {z} /\ z \notin DOMAIN q
      /\ \A i \in DOMAIN q : i < z /\ r[i] = q[i]
      /\ r[z] = e
  BY <1>2, <1>4, <1>5, AppendIs
<1>7. /\ M \in Lists /\ \A a \in Acs : DOMAIN M[a] = DOMAIN L[a]
      /\ \A a \in Acs : \A k \in DOMAIN L[a] :
           Q(M, a, k) = IF a = a0 /\ k = k0 THEN r ELSE Q(L, a, k)
  <2>1. M = SetQ(L, a0, k0, r)
    BY <1>5
  <2>2. /\ M \in Lists
        /\ \A a \in Acs : DOMAIN M[a] = DOMAIN L[a]
        /\ \A a \in Acs : \A k \in DOMAIN L[a] :
             /\ Q(M, a, k) = IF a = a0 /\ k = k0 THEN r ELSE Q(L, a, k)
             /\ M[a][k].tx_pause = L[a][k].tx_pause
    BY <2>1, SetQueue
  <2> QED
    BY <2>2
\* A place of M is the new one, or one of L.
<1>8. ASSUME NEW a \in Acs, NEW k \in DOMAIN M[a], NEW i \in DOMAIN Q(M, a, k)
      PROVE  /\ k \in DOMAIN L[a]
             /\ \/ a = a0 /\ k = k0 /\ i = z /\ Q(M, a, k)[i] = e
                \/ /\ i \in DOMAIN Q(L, a, k) /\ Q(M, a, k)[i] = Q(L, a, k)[i]
                   /\ Q(L, a, k)[i][1] # b
  <2>1. k \in DOMAIN L[a]
    BY <1>7
  <2>2. CASE a = a0 /\ k = k0 /\ i = z
    BY <1>6, <1>7, <2>1, <2>2
  <2>3. CASE ~(a = a0 /\ k = k0 /\ i = z)
    <3>1. i \in DOMAIN Q(L, a, k) /\ Q(M, a, k)[i] = Q(L, a, k)[i]
      BY <1>1, <1>6, <1>7, <2>1, <2>3
    <3>2. b \notin BufsOf(L, a)
      OBVIOUS
    <3> QED
      BY <1>3, <2>1, <3>1, <3>2 DEF BufsOf, Holds
  <2> QED
    BY <2>1, <2>2, <2>3
<1>9. Distinct(M)
  <2>1. ASSUME NEW a \in Acs, NEW c \in Acs, NEW k \in DOMAIN M[a], NEW l \in DOMAIN M[c],
               NEW i \in DOMAIN Q(M, a, k), NEW j \in DOMAIN Q(M, c, l),
               Q(M, a, k)[i][1] = Q(M, c, l)[j][1]
        PROVE  a = c /\ k = l /\ i = j
    <3>1. CASE a = a0 /\ k = k0 /\ i = z /\ Q(M, a, k)[i] = e
      BY <1>3, <1>8, <2>1, <3>1
    <3>2. CASE c = a0 /\ l = k0 /\ j = z /\ Q(M, c, l)[j] = e
      BY <1>3, <1>8, <2>1, <3>2
    <3>3. CASE /\ i \in DOMAIN Q(L, a, k) /\ Q(M, a, k)[i] = Q(L, a, k)[i]
               /\ j \in DOMAIN Q(L, c, l) /\ Q(M, c, l)[j] = Q(L, c, l)[j]
      <4>1. k \in DOMAIN L[a] /\ l \in DOMAIN L[c] /\ Q(L, a, k)[i][1] = Q(L, c, l)[j][1]
        BY <1>8, <2>1, <3>3
      <4> QED
        BY <3>3, <4>1 DEF Distinct
    <3> QED
      BY <1>8, <3>1, <3>2, <3>3
  <2> QED
    BY <2>1 DEF Distinct
<1>10. Ordered(M)
  <2>1. ASSUME NEW a \in Acs, NEW k \in DOMAIN M[a],
               NEW i \in DOMAIN Q(M, a, k), NEW j \in DOMAIN Q(M, a, k), i < j
        PROVE  Q(M, a, k)[i][2] < Q(M, a, k)[j][2]
    <3>1. CASE a = a0 /\ k = k0
      <4>1. Q(M, a, k) = r
        BY <1>7, <3>1
      <4>2. i # z
        <5>1. z \in Nat /\ \A x \in DOMAIN q : x < z
          BY <1>2, <1>4, <1>6
        <5>2. j \in DOMAIN r /\ j \in Nat
          <6>1. j \in DOMAIN r
            BY <4>1
          <6> QED
            BY <6>1
        <5> QED
          BY <1>6, <2>1, <5>1, <5>2
      <4>3. i \in DOMAIN q /\ r[i] = q[i] /\ q[i][2] \in Nat /\ q[i][2] <= n - 1
        BY <1>1, <1>6, <3>1, <4>1, <4>2, NodeIs DEF Below
      <4>4. CASE j = z
        BY <1>3, <1>6, <4>1, <4>3, <4>4
      <4>5. CASE j # z
        <5>1. j \in DOMAIN q /\ r[j] = q[j]
          BY <1>6, <4>1, <4>5
        <5>2. q[i][2] < q[j][2]
          BY <1>1, <2>1, <4>3, <5>1 DEF Ordered
        <5> QED
          BY <4>1, <4>3, <5>1, <5>2
      <4> QED
        BY <4>4, <4>5
    <3>2. CASE ~(a = a0 /\ k = k0)
      BY <1>7, <2>1, <3>2 DEF Ordered
    <3> QED
      BY <3>1, <3>2
  <2> QED
    BY <2>1 DEF Ordered
<1>11. Below(M, n)
  <2>1. ASSUME NEW a \in Acs, NEW k \in DOMAIN M[a], NEW i \in DOMAIN Q(M, a, k)
        PROVE  Q(M, a, k)[i][2] <= n
    <3>1. CASE Q(M, a, k)[i] = e
      BY <1>3, <3>1
    <3>2. CASE /\ k \in DOMAIN L[a] /\ i \in DOMAIN Q(L, a, k)
               /\ Q(M, a, k)[i] = Q(L, a, k)[i]
      <4>1. Q(L, a, k)[i][2] \in Nat /\ Q(L, a, k)[i][2] <= n - 1
        BY <3>2, NodeIs DEF Below
      <4> QED
        BY <1>3, <3>2, <4>1
    <3> QED
      BY <1>8, <3>1, <3>2
  <2> QED
    BY <2>1 DEF Below
<1>12. \A a \in Acs : BufsOf(M, a) \subseteq BufsOf(L, a) \cup {b}
  <2>1. ASSUME NEW a \in Acs, NEW c \in BufsOf(M, a), c # b PROVE c \in BufsOf(L, a)
    <3>1. PICK k \in DOMAIN M[a] : \E i \in DOMAIN Q(M, a, k) : Q(M, a, k)[i][1] = c
      BY DEF BufsOf, Holds
    <3>2. PICK i \in DOMAIN Q(M, a, k) : Q(M, a, k)[i][1] = c
      BY <3>1
    <3>3. k \in DOMAIN L[a] /\ i \in DOMAIN Q(L, a, k) /\ Q(L, a, k)[i][1] = c
      BY <1>3, <1>8, <2>1, <3>2
    <3> QED
      BY <3>3 DEF BufsOf, Holds
  <2> QED
    BY <2>1
<1>13. \A a \in Acs \ {a0} : b \notin BufsOf(M, a)
  <2>1. ASSUME NEW a \in Acs, a # a0, NEW k \in DOMAIN M[a], NEW i \in DOMAIN Q(M, a, k)
        PROVE  Q(M, a, k)[i][1] # b
    BY <1>8, <2>1
  <2> QED
    BY <2>1 DEF BufsOf, Holds
<1>14. ASSUME NEW a \in Acs, NEW c \in BufsOf(L, a) PROVE c \in BufsOf(M, a)
  <2>1. PICK k \in DOMAIN L[a] : \E i \in DOMAIN Q(L, a, k) : Q(L, a, k)[i][1] = c
    BY DEF BufsOf, Holds
  <2>2. PICK i \in DOMAIN Q(L, a, k) : Q(L, a, k)[i][1] = c
    BY <2>1
  <2>3. i \in DOMAIN Q(M, a, k) /\ Q(M, a, k)[i] = Q(L, a, k)[i] /\ k \in DOMAIN M[a]
    BY <1>1, <1>6, <1>7, <2>2
  <2> QED
    BY <2>2, <2>3 DEF BufsOf, Holds
<1>15. b \in BufsOf(M, a0)
  <2>1. k0 \in DOMAIN M[a0] /\ z \in DOMAIN Q(M, a0, k0) /\ Q(M, a0, k0)[z][1] = b
    BY <1>3, <1>6, <1>7
  <2> QED
    BY <1>3, <2>1 DEF BufsOf, Holds
<1>16. BufsOf(M, a0) = BufsOf(L, a0) \cup {b}
  BY <1>12, <1>14, <1>15
<1>17. \A a \in Acs \ {a0} : BufsOf(M, a) = BufsOf(L, a)
  <2>1. ASSUME NEW a \in Acs, a # a0 PROVE BufsOf(M, a) = BufsOf(L, a)
    <3>1. b \notin BufsOf(M, a) /\ BufsOf(M, a) \subseteq BufsOf(L, a) \cup {b}
      BY <1>12, <1>13, <2>1
    <3>2. BufsOf(L, a) \subseteq BufsOf(M, a)
      BY <1>14
    <3> QED
      BY <3>1, <3>2
  <2> QED
    BY <2>1
<1> QED
  BY <1>7, <1>9, <1>10, <1>11, <1>16, <1>17

\* What a node's removal frees.
Freed(L, a, k) == {e[1] : e \in ToSet(Q(L, a, k))}

LEMMA FreedIs ==
  ASSUME NEW L \in Lists, NEW a \in Acs, NEW k \in DOMAIN L[a], Distinct(L)
  PROVE  /\ \A b : b \in Freed(L, a, k) <=> \E i \in DOMAIN Q(L, a, k) : Q(L, a, k)[i][1] = b
         /\ IsFiniteSet(Freed(L, a, k)) /\ Cardinality(Freed(L, a, k)) = Len(Q(L, a, k))
<1>1. PICK q \in Seq(Entry) : q = Q(L, a, k)
  BY NodeIs
<1>2. Freed(L, a, k) = {e[1] : e \in {q[i] : i \in DOMAIN q}}
  BY <1>1 DEF Freed, ToSet
<1>3. PICK D : D = Freed(L, a, k)
  OBVIOUS
<1>4. \A b : b \in D <=> \E i \in DOMAIN q : q[i][1] = b
  BY <1>2, <1>3
<1>5. \A i, j \in DOMAIN q : q[i][1] = q[j][1] => i = j
  BY <1>1 DEF Distinct
<1>6. DOMAIN q = 1 .. Len(q) /\ Len(q) \in Nat
  BY <1>1
<1>7. PICK f : f = [i \in 1 .. Len(q) |-> q[i][1]]
  OBVIOUS
<1>8. f \in [1 .. Len(q) -> D]
  BY <1>4, <1>6, <1>7
<1>9. f \in Bijection(1 .. Len(q), D)
  <2>1. f \in Injection(1 .. Len(q), D)
    BY <1>5, <1>6, <1>7, <1>8 DEF Injection, IsInjective
  <2>2. f \in Surjection(1 .. Len(q), D)
    BY <1>4, <1>6, <1>7, <1>8 DEF Surjection
  <2> QED
    BY <2>1, <2>2 DEF Bijection
<1>10. IsFiniteSet(1 .. Len(q)) /\ Cardinality(1 .. Len(q)) = Len(q)
  <2>1. IF 1 > Len(q) THEN 0 = Len(q) ELSE Len(q) - 1 + 1 = Len(q)
    BY <1>6
  <2> QED
    BY <1>6, <2>1, FS_Interval
<1>11. IsFiniteSet(D) /\ Cardinality(D) = Len(q)
  <2>1. ExistsBijection(1 .. Len(q), D)
    BY <1>9 DEF ExistsBijection
  <2> QED
    BY <1>10, <2>1, FS_Bijection
<1> QED
  BY <1>1, <1>3, <1>4, <1>11

\* The nodes that stay are as they were.
OldNodes(L, M) == \A a \in Acs : \A k \in DOMAIN M[a] : \E l \in DOMAIN L[a] : M[a][k] = L[a][l]

\* A node goes, with its queue.
DelAt(L, a, k) == [L EXCEPT ![a] = RemoveAt(@, k)]

LEMMA DelIs ==
  ASSUME NEW L \in Lists, NEW a0 \in Acs, NEW k0 \in DOMAIN L[a0], NEW M,
         M = DelAt(L, a0, k0), Distinct(L), Ordered(L)
  PROVE  /\ M \in Lists /\ Distinct(M) /\ Ordered(M) /\ \A n : Below(L, n) => Below(M, n)
         /\ Freed(L, a0, k0) \subseteq BufsOf(L, a0)
         /\ BufsOf(M, a0) = BufsOf(L, a0) \ Freed(L, a0, k0)
         /\ \A a \in Acs \ {a0} : BufsOf(M, a) = BufsOf(L, a)
         /\ OldNodes(L, M)
<1>1. PICK s \in Seq(NodeType) : s = L[a0]
  BY DEF Lists
<1>2. DOMAIN s = 1 .. Len(s) /\ Len(s) \in Nat /\ k0 \in 1 .. Len(s)
  BY <1>1
<1>3. PICK r : r = RemoveAt(s, k0)
  OBVIOUS
<1>4. /\ r \in Seq(NodeType) /\ Len(r) = Len(s) - 1
      /\ \A j \in 1 .. Len(s) - 1 : r[j] = IF j < k0 THEN s[j] ELSE s[j + 1]
  BY <1>2, <1>3, RemoveAtIs
<1>5. DOMAIN r = 1 .. Len(s) - 1
  BY <1>4
<1>6. M \in Lists /\ \A a \in Acs : M[a] = IF a = a0 THEN r ELSE L[a]
  BY <1>1, <1>3, <1>4 DEF Lists, DelAt
<1>7. PICK f : f = [a \in Acs |-> [k \in Nat |-> IF a = a0 /\ k >= k0 THEN k + 1 ELSE k]]
  OBVIOUS
<1>8. PICK g : g = [a \in Acs |-> [k \in Nat |-> 0]]
  OBVIOUS
<1>9. \A a \in Acs : \A k \in DOMAIN M[a] :
        k \in Nat /\ f[a][k] = (IF a = a0 /\ k >= k0 THEN k + 1 ELSE k) /\ g[a][k] = 0
  <2>1. ASSUME NEW a \in Acs, NEW k \in DOMAIN M[a] PROVE k \in Nat
    <3>1. M[a] \in Seq(NodeType)
      BY <1>6 DEF Lists
    <3> QED
      BY <3>1
  <2> QED
    BY <1>7, <1>8, <2>1
<1>10. ASSUME NEW a \in Acs, NEW k \in DOMAIN M[a]
       PROVE  f[a][k] \in DOMAIN L[a] /\ M[a][k] = L[a][f[a][k]]
  <2>1. CASE a = a0
    <3>1. k \in 1 .. Len(s) - 1 /\ M[a] = r
      BY <1>5, <1>6, <2>1
    <3>2. r[k] = IF k < k0 THEN s[k] ELSE s[k + 1]
      BY <1>4, <3>1
    <3>3. f[a][k] = IF k < k0 THEN k ELSE k + 1
      BY <1>2, <1>9, <2>1, <3>1
    <3>4. f[a][k] \in 1 .. Len(s)
      BY <1>2, <3>1, <3>3
    <3> QED
      BY <1>1, <1>2, <2>1, <3>1, <3>2, <3>3, <3>4
  <2>2. CASE a # a0
    BY <1>6, <1>9, <2>2
  <2> QED
    BY <2>1, <2>2
<1>11. ASSUME NEW a \in Acs, NEW k \in DOMAIN M[a], NEW i \in DOMAIN Q(M, a, k)
       PROVE  /\ f[a][k] \in DOMAIN L[a] /\ g[a][k] \in Nat
              /\ i + g[a][k] \in DOMAIN Q(L, a, f[a][k])
              /\ Q(M, a, k)[i] = Q(L, a, f[a][k])[i + g[a][k]]
  <2>1. i + 0 = i
    <3>1. M \in Lists
      BY <1>6
    <3>2. Q(M, a, k) \in Seq(Entry)
      BY <3>1, NodeIs
    <3> QED
      BY <3>2
  <2>2. Q(M, a, k) = Q(L, a, f[a][k])
    BY <1>10 DEF Q
  <2> QED
    BY <1>9, <1>10, <2>1, <2>2
<1>12. ASSUME NEW a \in Acs, NEW k \in DOMAIN M[a], NEW l \in DOMAIN M[a], f[a][k] = f[a][l]
       PROVE  k = l
  <2>1. k \in Nat /\ l \in Nat /\ k0 \in Nat
    BY <1>2, <1>9
  <2>2. f[a][k] = (IF a = a0 /\ k >= k0 THEN k + 1 ELSE k)
        /\ f[a][l] = (IF a = a0 /\ l >= k0 THEN l + 1 ELSE l)
    BY <1>9
  <2>3. CASE a = a0
    <3>1. f[a][k] = (IF k >= k0 THEN k + 1 ELSE k) /\ f[a][l] = (IF l >= k0 THEN l + 1 ELSE l)
      BY <2>2, <2>3
    <3>2. (IF k >= k0 THEN k + 1 ELSE k) = (IF l >= k0 THEN l + 1 ELSE l)
      BY <1>12, <3>1
    <3> QED
      BY <2>1, <3>2
  <2>4. CASE a # a0
    BY <1>12, <2>2, <2>4
  <2> QED
    BY <2>3, <2>4
<1>13. Embeds(L, M, f, g)
  BY <1>11, <1>12 DEF Embeds
<1>14. /\ Distinct(M) /\ Ordered(M) /\ \A n : Below(L, n) => Below(M, n)
       /\ \A a \in Acs : BufsOf(M, a) \subseteq BufsOf(L, a)
  BY <1>6, <1>13, EmbedKeeps
<1>15. \A b : b \in Freed(L, a0, k0) <=> \E i \in DOMAIN Q(L, a0, k0) : Q(L, a0, k0)[i][1] = b
  BY FreedIs
<1>16. Freed(L, a0, k0) \subseteq BufsOf(L, a0)
  BY <1>15, NodeIs DEF BufsOf, Holds
<1>17. ASSUME NEW b \in BufsOf(M, a0), b \in Freed(L, a0, k0) PROVE FALSE
  <2>1. PICK k \in DOMAIN M[a0] : \E i \in DOMAIN Q(M, a0, k) : Q(M, a0, k)[i][1] = b
    BY DEF BufsOf, Holds
  <2>2. PICK i \in DOMAIN Q(M, a0, k) : Q(M, a0, k)[i][1] = b
    BY <2>1
  <2>3. PICK j \in DOMAIN Q(L, a0, k0) : Q(L, a0, k0)[j][1] = b
    BY <1>15, <1>17
  <2>4. /\ f[a0][k] \in DOMAIN L[a0] /\ Q(M, a0, k) = Q(L, a0, f[a0][k])
    BY <1>10 DEF Q
  <2>5. f[a0][k] = k0
    BY <2>2, <2>3, <2>4 DEF Distinct
  <2>6. k \in Nat /\ f[a0][k] = (IF k >= k0 THEN k + 1 ELSE k) /\ k0 \in Nat
    BY <1>2, <1>9
  <2> QED
    BY <2>5, <2>6
<1>18. ASSUME NEW b \in BufsOf(L, a0), b \notin Freed(L, a0, k0) PROVE b \in BufsOf(M, a0)
  <2>1. PICK l \in DOMAIN L[a0] : \E i \in DOMAIN Q(L, a0, l) : Q(L, a0, l)[i][1] = b
    BY DEF BufsOf, Holds
  <2>2. l # k0
    BY <1>15, <1>18, <2>1
  <2>3. PICK k : k = IF l < k0 THEN l ELSE l - 1
    OBVIOUS
  <2>4. l \in 1 .. Len(s) /\ k \in 1 .. Len(s) - 1 /\ l = IF k < k0 THEN k ELSE k + 1
    BY <1>1, <1>2, <2>2, <2>3
  <2>5. k \in DOMAIN M[a0] /\ M[a0][k] = L[a0][l]
    BY <1>1, <1>4, <1>5, <1>6, <2>4
  <2>6. Q(M, a0, k) = Q(L, a0, l)
    BY <2>5 DEF Q
  <2> QED
    BY <2>1, <2>5, <2>6 DEF BufsOf, Holds
<1>19. \A a \in Acs \ {a0} : BufsOf(M, a) = BufsOf(L, a)
  BY <1>6 DEF BufsOf, Holds, Q
<1>20. BufsOf(M, a0) = BufsOf(L, a0) \ Freed(L, a0, k0)
  BY <1>14, <1>17, <1>18
<1>21. OldNodes(L, M)
  BY <1>10 DEF OldNodes
<1> QED
  BY <1>6, <1>14, <1>16, <1>19, <1>20, <1>21

\* A node without packets at the end of a list.
AddAt(L, a, ra) == [L EXCEPT ![a] = Append(@, [ra |-> ra, tx_pause |-> FALSE, buf_head |-> <<>>])]

LEMMA AddIs ==
  ASSUME NEW L \in Lists, NEW a0 \in Acs, NEW ra \in RAs, NEW M,
         M = AddAt(L, a0, ra)
  PROVE  /\ M \in Lists /\ SameQueues(L, M)
         /\ \A a \in Acs : \A k \in DOMAIN M[a] : Q(M, a, k) # <<>> => M[a][k] = L[a][k]
<1>1. PICK s \in Seq(NodeType) : s = L[a0]
  BY DEF Lists
<1>2. PICK nd : nd = [ra |-> ra, tx_pause |-> FALSE, buf_head |-> <<>>]
  OBVIOUS
<1>3. nd \in NodeType /\ nd.buf_head = <<>>
  BY <1>2 DEF NodeType
<1>4. /\ Append(s, nd) \in Seq(NodeType) /\ DOMAIN Append(s, nd) = DOMAIN s \cup {Len(s) + 1}
      /\ \A i \in DOMAIN s : Append(s, nd)[i] = s[i]
      /\ Append(s, nd)[Len(s) + 1] = nd
  BY <1>1, <1>3, AppendIs
<1>5. M \in Lists /\ \A a \in Acs : M[a] = IF a = a0 THEN Append(s, nd) ELSE L[a]
  BY <1>1, <1>2, <1>4 DEF Lists, AddAt
<1>6. ASSUME NEW a \in Acs, NEW k \in DOMAIN M[a]
      PROVE  (k \in DOMAIN L[a] /\ M[a][k] = L[a][k]) \/ Q(M, a, k) = <<>>
  BY <1>1, <1>3, <1>4, <1>5 DEF Q
<1>7. ASSUME NEW a \in Acs, NEW k \in DOMAIN L[a]
      PROVE  k \in DOMAIN M[a] /\ M[a][k] = L[a][k]
  BY <1>1, <1>4, <1>5
<1>8. SameQueues(L, M)
  BY <1>6, <1>7 DEF SameQueues, Q
<1> QED
  BY <1>5, <1>6, <1>8

\* Another tx_pause for one node.
SetP(L, a, k, v) == [L EXCEPT ![a][k].tx_pause = v]

LEMMA PauseIs ==
  ASSUME NEW L \in Lists, NEW a0 \in Acs, NEW k0 \in DOMAIN L[a0], NEW v \in BOOLEAN, NEW M,
         M = SetP(L, a0, k0, v)
  PROVE  /\ M \in Lists /\ SameQueues(L, M)
         /\ \A a \in Acs : \A k \in DOMAIN M[a] : k \in DOMAIN L[a]
              /\ M[a][k].tx_pause = IF a = a0 /\ k = k0 THEN v ELSE L[a][k].tx_pause
<1>1. L[a0] \in Seq(NodeType) /\ L[a0][k0] \in NodeType
  BY NodeIs
<1>2. PICK nd : nd = [L[a0][k0] EXCEPT !.tx_pause = v]
  OBVIOUS
<1>3. nd \in NodeType /\ nd.buf_head = L[a0][k0].buf_head /\ nd.tx_pause = v
  BY <1>1, <1>2 DEF NodeType
<1>4. PICK s : s = [L[a0] EXCEPT ![k0] = nd]
  OBVIOUS
<1>5. s \in Seq(NodeType) /\ DOMAIN s = DOMAIN L[a0]
      /\ \A k \in DOMAIN L[a0] : s[k] = IF k = k0 THEN nd ELSE L[a0][k]
  BY <1>1, <1>3, <1>4
<1>6. M = [L EXCEPT ![a0] = s]
  BY <1>2, <1>4 DEF SetP
<1>7. M \in Lists /\ \A a \in Acs : M[a] = IF a = a0 THEN s ELSE L[a]
  BY <1>5, <1>6 DEF Lists
<1>8. \A a \in Acs : DOMAIN M[a] = DOMAIN L[a]
  BY <1>5, <1>7
<1>9. ASSUME NEW a \in Acs, NEW k \in DOMAIN L[a]
      PROVE  /\ Q(M, a, k) = Q(L, a, k)
             /\ M[a][k].tx_pause = IF a = a0 /\ k = k0 THEN v ELSE L[a][k].tx_pause
  BY <1>3, <1>5, <1>7 DEF Q
<1>10. SameQueues(L, M)
  BY <1>8, <1>9 DEF SameQueues
<1> QED
  BY <1>7, <1>8, <1>9, <1>10
-----------------------------------------------------------------------------
(* Which node is found *)

LEMMA NodeFound ==
  ASSUME TypeInv, NEW a \in Acs, NEW ra
  PROVE  wlan_wmm_get_ralist_node(a, ra) # 0 => wlan_wmm_get_ralist_node(a, ra) \in DOMAIN ra_list[a]
<1>1. PICK l \in Seq(NodeType) : l = ra_list[a]
  BY DEF TypeInv, Lists
<1>2. DOMAIN l = 1 .. Len(l)
  BY <1>1
<1>3. PICK S \in SUBSET (1 .. Len(l)) : S = {i \in 1 .. Len(l) : l[i].ra = ra}
  OBVIOUS
<1>4. S \in SUBSET Nat
  BY <1>1
<1>5. wlan_wmm_get_ralist_node(a, ra) = IF S # {} THEN Min(S) ELSE 0
  BY <1>1, <1>3 DEF wlan_wmm_get_ralist_node, SelectInSeq
<1> QED
  BY <1>1, <1>2, <1>4, <1>5, MinIn

LEMMA NextNodeIs ==
  ASSUME TypeInv
  PROVE  /\ NextNode # 0 => /\ NextNode \in DOMAIN ra_list[tx.ac]
                            /\ Q(ra_list, tx.ac, NextNode) # <<>>
         /\ NextNode = 0 => \A k \in DOMAIN ra_list[tx.ac] : ~Sendable(tx.ac, k)
<1>0. tx.ac \in Acs
  BY DEF TypeInv, TxType
<1>1. PICK l \in Seq(NodeType) : l = ra_list[tx.ac]
  BY <1>0 DEF TypeInv, Lists
<1>2. DOMAIN l = 1 .. Len(l)
  BY <1>1
<1>3. PICK S \in SUBSET (1 .. Len(l)) :
        S = {i \in 1 .. Len(l) : ~l[i].tx_pause /\ l[i].buf_head # <<>>}
  OBVIOUS
<1>4. S \in SUBSET Nat
  BY <1>1
<1>5. NextNode = IF S # {} THEN Min(S) ELSE 0
  BY <1>1, <1>3 DEF NextNode, SelectInSeq
<1>6. S # {} => Min(S) \in S
  BY <1>4, MinIn
<1>7. 0 \notin S
  BY <1>1
<1>8. NextNode # 0 => NextNode \in S
  BY <1>5, <1>6
<1>9. NextNode = 0 => S = {}
  BY <1>5, <1>6, <1>7
<1> QED
  BY <1>1, <1>2, <1>3, <1>8, <1>9 DEF Q, Sendable

\* The node a packet is stolen from.
Victim == SelectInSeq(ra_list[snd.i], Stealable)

LEMMA VictimIs ==
  ASSUME TypeInv
  PROVE  Victim # 0 => Victim \in DOMAIN ra_list[snd.i] /\ Q(ra_list, snd.i, Victim) # <<>>
<1>0. snd.i \in Acs
  BY DEF TypeInv, SndType
<1>1. PICK l \in Seq(NodeType) : l = ra_list[snd.i]
  BY <1>0 DEF TypeInv, Lists
<1>2. DOMAIN l = 1 .. Len(l)
  BY <1>1
<1>3. PICK S \in SUBSET (1 .. Len(l)) : S = {i \in 1 .. Len(l) : Stealable(l[i])}
  OBVIOUS
<1>4. S \in SUBSET Nat
  BY <1>1
<1>5. Victim = IF S # {} THEN Min(S) ELSE 0
  BY <1>1, <1>3 DEF Victim, SelectInSeq
<1>6. S # {} => Min(S) \in S
  BY <1>4, MinIn
<1>7. Victim # 0 => Victim \in S
  BY <1>5, <1>6
<1> QED
  BY <1>1, <1>2, <1>3, <1>7 DEF Q, Stealable
-----------------------------------------------------------------------------
(* The threads' records *)

SndIs(pc, ra, ac, buf, retry, i) ==
  [pc |-> pc, ra |-> ra, ac |-> ac, buf |-> buf, retry |-> retry, i |-> i]

LEMMA SndFields ==
  ASSUME NEW pc, NEW ra, NEW ac, NEW buf, NEW retry, NEW i, NEW r, r = SndIs(pc, ra, ac, buf, retry, i)
  PROVE  r.pc = pc /\ r.ra = ra /\ r.ac = ac /\ r.buf = buf /\ r.retry = retry /\ r.i = i
BY DEF SndIs

LEMMA SndIsType ==
  ASSUME NEW pc \in SndPc, NEW ra \in RAs, NEW ac \in Acs, NEW buf \in Bufs \cup {NoBuf},
         NEW retry \in 0 .. retry_attempts, NEW i \in Acs
  PROVE  SndIs(pc, ra, ac, buf, retry, i) \in SndType
BY DEF SndIs, SndType

LEMMA SndNow ==
  ASSUME TypeInv
  PROVE  /\ snd = SndIs(snd.pc, snd.ra, snd.ac, snd.buf, snd.retry, snd.i)
         /\ snd.pc \in SndPc /\ snd.ra \in RAs /\ snd.ac \in Acs /\ snd.buf \in Bufs \cup {NoBuf}
         /\ snd.retry \in 0 .. retry_attempts /\ snd.i \in Acs
BY DEF TypeInv, SndType, SndIs

\* Category 0 exists, NoBuf is no buffer, and the numbers are numbers.
LEMMA Numbers ==
  /\ 0 \in Acs /\ MAX_AC_QUEUES - 1 \in Acs /\ Acs \subseteq Nat
  /\ \A i \in Acs : i # MAX_AC_QUEUES - 1 => i + 1 \in Acs
  /\ \A i \in Acs : i # 0 => i - 1 \in Acs
  /\ NoBuf \notin Bufs /\ Bufs \subseteq Nat /\ Bcast \in RAs /\ MaxPkts \in Nat
  /\ retry_attempts \in Nat \ {0}
<1> USE WmmAssumption DEF Acs, Bufs, NoBuf, RAs
<1>1. 0 \in Acs /\ MAX_AC_QUEUES - 1 \in Acs /\ Acs \subseteq Nat
  OBVIOUS
<1>2. \A i \in Acs : i # MAX_AC_QUEUES - 1 => i + 1 \in Acs
  OBVIOUS
<1>3. \A i \in Acs : i # 0 => i - 1 \in Acs
  OBVIOUS
<1>4. NoBuf \notin Bufs /\ Bufs \subseteq Nat
  OBVIOUS
<1> QED
  BY <1>1, <1>2, <1>3, <1>4

LEMMA IdleIs ==
  /\ Idle = SndIs("idle", Bcast, 0, NoBuf, 0, 0) /\ Idle \in SndType
  /\ Idle.pc = "idle" /\ Idle.buf = NoBuf
<1>1. Idle = SndIs("idle", Bcast, 0, NoBuf, 0, 0)
  BY DEF Idle, SndIs
<1>2. Idle \in SndType
  <2>1. "idle" \in SndPc /\ 0 \in 0 .. retry_attempts
    BY Numbers DEF SndPc
  <2> QED
    BY <1>1, <2>1, SndIsType, Numbers
<1> QED
  BY <1>1, <1>2 DEF Idle
-----------------------------------------------------------------------------
(* What keeps the invariant of the lists *)

ListInv == BufInv /\ CountInv /\ Ordered(ra_list)

\* Free, or in the sender's hands.
Spare(b) == b \in free \/ b = snd.buf

LEMMA FiniteBufs ==
  ASSUME NEW L, NEW a
  PROVE  /\ IsFiniteSet(BufsOf(L, a)) /\ Cardinality(BufsOf(L, a)) \in 0 .. MAX_WMM_BUF_NUM
         /\ IsFiniteSet(Bufs)
<1>1. IsFiniteSet(Bufs) /\ Cardinality(Bufs) = MAX_WMM_BUF_NUM
  <2>1. IF 1 > MAX_WMM_BUF_NUM THEN FALSE ELSE MAX_WMM_BUF_NUM - 1 + 1 = MAX_WMM_BUF_NUM
    BY WmmAssumption
  <2> QED
    BY <2>1, WmmAssumption, FS_Interval DEF Bufs
<1>2. BufsOf(L, a) \subseteq Bufs
  BY DEF BufsOf
<1>3. IsFiniteSet(BufsOf(L, a)) /\ Cardinality(BufsOf(L, a)) <= Cardinality(Bufs)
  BY <1>1, <1>2, FS_Subset
<1>4. Cardinality(BufsOf(L, a)) \in Nat
  BY <1>3, FS_CardinalityType
<1> QED
  BY <1>1, <1>3, <1>4, WmmAssumption

LEMMA BelowMore ==
  ASSUME NEW L \in Lists, NEW m \in Int, NEW n \in Int, m <= n, Below(L, m)
  PROVE  Below(L, n)
<1>1. ASSUME NEW a \in Acs, NEW k \in DOMAIN L[a], NEW i \in DOMAIN Q(L, a, k)
      PROVE  Q(L, a, k)[i][2] <= n
  <2>1. Q(L, a, k)[i][2] \in Nat /\ Q(L, a, k)[i][2] <= m
    BY NodeIs DEF Below
  <2> QED
    BY <2>1
<1> QED
  BY <1>1 DEF Below

\* The queues stay.
LEMMA SameListInv ==
  ASSUME TypeInv, ListInv, ra_list' \in Lists, SameQueues(ra_list, ra_list'),
         pkts_queued' = pkts_queued, snd'.buf \notin free', \A b \in Bufs : Spare(b)' <=> Spare(b)
  PROVE  ListInv' /\ \A n : Below(ra_list, n) => Below(ra_list', n)
<1>1. PICK L \in Lists : L = ra_list
  BY DEF TypeInv
<1>2. PICK M \in Lists : M = ra_list'
  OBVIOUS
<1>3. Distinct(L) /\ Ordered(L) /\ SameQueues(L, M)
  BY <1>1, <1>2 DEF ListInv, BufInv
<1>4. /\ Distinct(M) /\ Ordered(M) /\ \A n : Below(L, n) => Below(M, n)
      /\ \A a \in Acs : BufsOf(M, a) = BufsOf(L, a)
  BY <1>3, SameKeeps
<1>5. CountInv'
  BY <1>1, <1>2, <1>4 DEF ListInv, CountInv
<1>6. BufInv'
  <2>1. \A b \in Bufs : (\E a \in Acs : b \in BufsOf(M, a)) <=> ~Spare(b)
    BY <1>1, <1>4 DEF ListInv, BufInv, Spare
  <2>2. \A b \in Bufs : (\E a \in Acs : b \in BufsOf(M, a)) <=> ~Spare(b)'
    BY <2>1
  <2> QED
    BY <1>2, <1>4, <2>2 DEF BufInv, Spare
<1> QED
  BY <1>1, <1>2, <1>4, <1>5, <1>6 DEF ListInv

LEMMA QueuesStay ==
  ASSUME NEW L PROVE SameQueues(L, L)
BY DEF SameQueues

LEMMA CountWithout ==
  ASSUME NEW S, NEW D, IsFiniteSet(S), D \subseteq S
  PROVE  Cardinality(S \ D) = Cardinality(S) - Cardinality(D)
<1>1. S \cap D = D
  OBVIOUS
<1> QED
  BY <1>1, FS_Difference

\* Buffers leave one category and are spare then.
LEMMA LoseListInv ==
  ASSUME TypeInv, ListInv, ra_list' \in Lists, Distinct(ra_list'), Ordered(ra_list'), NEW a0 \in Acs,
         NEW D, D \subseteq BufsOf(ra_list, a0), BufsOf(ra_list', a0) = BufsOf(ra_list, a0) \ D,
         \A a \in Acs \ {a0} : BufsOf(ra_list', a) = BufsOf(ra_list, a),
         pkts_queued' = [pkts_queued EXCEPT ![a0] = @ - Cardinality(D)], Cardinality(D) \in Int,
         snd'.buf \notin free', \A b \in Bufs : Spare(b)' <=> Spare(b) \/ b \in D
  PROVE  ListInv' /\ pkts_queued' \in [Acs -> Int]
<1>1. PICK L \in Lists : L = ra_list
  BY DEF TypeInv
<1>2. PICK M \in Lists : M = ra_list'
  OBVIOUS
<1>3. PICK A : A = BufsOf(L, a0)
  OBVIOUS
<1>4. PICK c \in Int : c = Cardinality(D)
  OBVIOUS
<1>5. pkts_queued' \in [Acs -> Int] /\ pkts_queued'[a0] = pkts_queued[a0] - c
      /\ \A a \in Acs \ {a0} : pkts_queued'[a] = pkts_queued[a]
  BY <1>4 DEF TypeInv
<1>6. CountInv'
  <2>1. pkts_queued[a0] = Cardinality(A) /\ IsFiniteSet(A) /\ D \subseteq A
    BY <1>1, <1>3, FiniteBufs DEF ListInv, CountInv
  <2>2. Cardinality(A \ D) = Cardinality(A) - c
    BY <1>4, <2>1, CountWithout
  <2>3. \A a \in Acs \ {a0} : pkts_queued'[a] = Cardinality(BufsOf(M, a))
    BY <1>1, <1>2, <1>5 DEF ListInv, CountInv
  <2>4. pkts_queued'[a0] = Cardinality(BufsOf(M, a0))
    <3>1. BufsOf(M, a0) = A \ D
      BY <1>1, <1>2, <1>3
    <3> QED
      BY <1>5, <2>1, <2>2, <3>1
  <2> QED
    BY <1>2, <2>3, <2>4 DEF CountInv
<1>7. BufInv'
  <2>1. \A b \in Bufs : (\E a \in Acs : b \in BufsOf(L, a)) <=> ~Spare(b)
    BY <1>1 DEF ListInv, BufInv, Spare
  <2>2. Distinct(L)
    BY <1>1 DEF ListInv, BufInv
  <2>3. \A a \in Acs \ {a0} : \A b \in D : b \notin BufsOf(L, a)
    <3>1. ASSUME NEW a \in Acs, a # a0, NEW b \in D, b \in BufsOf(L, a) PROVE FALSE
      <4>1. b \in BufsOf(L, a0)
        BY <1>1
      <4> QED
        BY <2>2, <3>1, <4>1 DEF Distinct, BufsOf, Holds
    <3> QED
      BY <3>1
  <2>4. /\ BufsOf(M, a0) = BufsOf(L, a0) \ D
        /\ \A a \in Acs \ {a0} : BufsOf(M, a) = BufsOf(L, a)
    BY <1>1, <1>2
  <2>5. \A b \in Bufs : (\E a \in Acs : b \in BufsOf(M, a)) <=> ~Spare(b) /\ b \notin D
    BY <2>1, <2>3, <2>4
  <2>6. \A b \in Bufs : (\E a \in Acs : b \in BufsOf(M, a)) <=> ~Spare(b)'
    BY <2>5
  <2> QED
    BY <1>2, <2>6 DEF BufInv, Spare
<1> QED
  BY <1>5, <1>6, <1>7 DEF ListInv

\* A packet is taken from the head of a queue; its buffer is spare then.
LEMMA PopListInv ==
  ASSUME TypeInv, ListInv, NEW a0 \in Acs, NEW k0 \in DOMAIN ra_list[a0],
         Q(ra_list, a0, k0) # <<>>,
         ra_list' = SetQ(ra_list, a0, k0, Tail(Q(ra_list, a0, k0))),
         pkts_queued' = [pkts_queued EXCEPT ![a0] = @ - 1],
         NEW h, h = Head(Q(ra_list, a0, k0))[1],
         snd'.buf \notin free', \A b \in Bufs : Spare(b)' <=> Spare(b) \/ b = h
  PROVE  /\ ListInv' /\ \A n : Below(ra_list, n) => Below(ra_list', n)
         /\ ra_list' \in Lists /\ pkts_queued' \in [Acs -> Int]
<1>1. PICK L \in Lists : L = ra_list
  BY DEF TypeInv
<1>2. PICK M : M = ra_list'
  OBVIOUS
<1>3. Distinct(L) /\ Ordered(L) /\ k0 \in DOMAIN L[a0] /\ Q(L, a0, k0) # <<>>
  BY <1>1 DEF ListInv, BufInv
<1>4. M = SetQ(L, a0, k0, Tail(Q(L, a0, k0))) /\ h = Head(Q(L, a0, k0))[1]
  BY <1>1, <1>2
<1>5. /\ M \in Lists /\ Distinct(M) /\ Ordered(M) /\ \A n : Below(L, n) => Below(M, n)
      /\ h \in BufsOf(L, a0) /\ BufsOf(M, a0) = BufsOf(L, a0) \ {h}
      /\ \A a \in Acs \ {a0} : BufsOf(M, a) = BufsOf(L, a)
  BY <1>3, <1>4, PopIs
<1>6. PICK D : D = {h}
  OBVIOUS
<1>7. Cardinality(D) = 1
  BY <1>6, FS_Singleton
<1>8. ListInv' /\ pkts_queued' \in [Acs -> Int]
  <2>1. /\ ra_list' \in Lists /\ Distinct(ra_list') /\ Ordered(ra_list')
        /\ D \subseteq BufsOf(ra_list, a0) /\ BufsOf(ra_list', a0) = BufsOf(ra_list, a0) \ D
        /\ \A a \in Acs \ {a0} : BufsOf(ra_list', a) = BufsOf(ra_list, a)
    BY <1>1, <1>2, <1>5, <1>6
  <2>2. /\ pkts_queued' = [pkts_queued EXCEPT ![a0] = @ - Cardinality(D)] /\ Cardinality(D) \in Int
    BY <1>7
  <2>3. \A b \in Bufs : Spare(b)' <=> Spare(b) \/ b \in D
    BY <1>6
  <2> QED
    BY <2>1, <2>2, <2>3, LoseListInv
<1> QED
  BY <1>1, <1>2, <1>5, <1>8

\* A node goes; the buffers of its queue are spare then.
LEMMA DelListInv ==
  ASSUME TypeInv, ListInv, NEW a0 \in Acs, NEW k0 \in DOMAIN ra_list[a0],
         ra_list' = DelAt(ra_list, a0, k0),
         pkts_queued' = [pkts_queued EXCEPT ![a0] = @ - Len(Q(ra_list, a0, k0))],
         snd'.buf \notin free',
         \A b \in Bufs : Spare(b)' <=> Spare(b) \/ b \in Freed(ra_list, a0, k0)
  PROVE  /\ ListInv' /\ \A n : Below(ra_list, n) => Below(ra_list', n)
         /\ ra_list' \in Lists /\ pkts_queued' \in [Acs -> Int]
         /\ OldNodes(ra_list, ra_list')
<1>1. PICK L \in Lists : L = ra_list
  BY DEF TypeInv
<1>2. PICK M : M = ra_list'
  OBVIOUS
<1>3. Distinct(L) /\ Ordered(L) /\ k0 \in DOMAIN L[a0]
  BY <1>1 DEF ListInv, BufInv
<1>4. M = DelAt(L, a0, k0)
  BY <1>1, <1>2
<1>5. PICK D : D = Freed(L, a0, k0)
  OBVIOUS
<1>6. /\ M \in Lists /\ Distinct(M) /\ Ordered(M) /\ \A n : Below(L, n) => Below(M, n)
      /\ D \subseteq BufsOf(L, a0) /\ BufsOf(M, a0) = BufsOf(L, a0) \ D
      /\ \A a \in Acs \ {a0} : BufsOf(M, a) = BufsOf(L, a)
      /\ OldNodes(L, M)
  BY <1>3, <1>4, <1>5, DelIs
<1>7. Cardinality(D) = Len(Q(L, a0, k0)) /\ Len(Q(L, a0, k0)) \in Nat
  <2>1. Q(L, a0, k0) \in Seq(Entry)
    BY <1>3, NodeIs
  <2> QED
    BY <1>3, <1>5, <2>1, FreedIs
<1>8. ListInv' /\ pkts_queued' \in [Acs -> Int]
  <2>1. /\ ra_list' \in Lists /\ Distinct(ra_list') /\ Ordered(ra_list')
        /\ D \subseteq BufsOf(ra_list, a0) /\ BufsOf(ra_list', a0) = BufsOf(ra_list, a0) \ D
        /\ \A a \in Acs \ {a0} : BufsOf(ra_list', a) = BufsOf(ra_list, a)
    BY <1>1, <1>2, <1>6
  <2>2. /\ pkts_queued' = [pkts_queued EXCEPT ![a0] = @ - Cardinality(D)] /\ Cardinality(D) \in Int
    BY <1>1, <1>7
  <2>3. \A b \in Bufs : Spare(b)' <=> Spare(b) \/ b \in D
    BY <1>1, <1>5
  <2> QED
    BY <2>1, <2>2, <2>3, LoseListInv
<1> QED
  BY <1>1, <1>2, <1>6, <1>8

\* The sender's packet, newer than all queued, goes to the end of a queue.
LEMMA PushListInv ==
  ASSUME TypeInv, ListInv, NEW a0 \in Acs, NEW k0 \in DOMAIN ra_list[a0],
         snd.buf \in Bufs, pkt \in 1 .. MaxPkts, Below(ra_list, pkt - 1),
         ra_list' = SetQ(ra_list, a0, k0, Append(Q(ra_list, a0, k0), <<snd.buf, pkt>>)),
         pkts_queued' = [pkts_queued EXCEPT ![a0] = @ + 1],
         free' = free, snd'.buf = NoBuf
  PROVE  /\ ListInv' /\ Below(ra_list', pkt)
         /\ ra_list' \in Lists /\ pkts_queued' \in [Acs -> Int]
<1>1. PICK L \in Lists : L = ra_list
  BY DEF TypeInv
<1>2. PICK M : M = ra_list'
  OBVIOUS
<1>3. PICK e \in Entry : e = <<snd.buf, pkt>>
  BY DEF Entry
<1>4. PICK b \in Bufs : b = snd.buf
  OBVIOUS
<1>5. PICK n \in Nat : n = pkt
  BY DEF TypeInv
<1>6. PICK q : q = Q(L, a0, k0)
  OBVIOUS
<1>7. b = e[1] /\ n = e[2]
  BY <1>3, <1>4, <1>5
<1>8. M = SetQ(L, a0, k0, Append(q, e))
  BY <1>1, <1>2, <1>3, <1>6
<1>9. \A a \in Acs : b \notin BufsOf(L, a)
  BY <1>1, <1>4 DEF ListInv, BufInv
<1>10. Distinct(L) /\ Ordered(L) /\ k0 \in DOMAIN L[a0] /\ Below(L, n - 1)
  BY <1>1, <1>5 DEF ListInv, BufInv
<1>11. /\ M \in Lists /\ Distinct(M) /\ Ordered(M) /\ Below(M, n)
       /\ BufsOf(M, a0) = BufsOf(L, a0) \cup {b}
       /\ \A a \in Acs \ {a0} : BufsOf(M, a) = BufsOf(L, a)
  BY <1>6, <1>7, <1>8, <1>9, <1>10, PushIs
<1>12. pkts_queued' \in [Acs -> Int] /\ pkts_queued'[a0] = pkts_queued[a0] + 1
       /\ \A a \in Acs \ {a0} : pkts_queued'[a] = pkts_queued[a]
  BY DEF TypeInv
<1>13. CountInv'
  <2>1. PICK A : A = BufsOf(L, a0)
    OBVIOUS
  <2>2. pkts_queued[a0] = Cardinality(A) /\ IsFiniteSet(A) /\ b \notin A
    BY <1>1, <1>9, <2>1, FiniteBufs DEF ListInv, CountInv
  <2>3. Cardinality(A \cup {b}) = Cardinality(A) + 1
    BY <2>2, FS_AddElement
  <2>4. \A a \in Acs \ {a0} : pkts_queued'[a] = Cardinality(BufsOf(M, a))
    BY <1>1, <1>11, <1>12 DEF ListInv, CountInv
  <2>5. pkts_queued'[a0] = Cardinality(BufsOf(M, a0))
    <3>1. BufsOf(M, a0) = A \cup {b}
      BY <1>11, <2>1
    <3> QED
      BY <1>12, <2>2, <2>3, <3>1
  <2> QED
    BY <1>2, <2>4, <2>5 DEF CountInv
<1>14. BufInv'
  <2>1. \A c \in Bufs : (\E a \in Acs : c \in BufsOf(L, a)) <=> c \notin free /\ c # b
    BY <1>1, <1>4 DEF ListInv, BufInv
  <2>2. \A c \in Bufs : (\E a \in Acs : c \in BufsOf(M, a)) <=> c \notin free
    <3>1. b \notin free
      BY <1>4 DEF ListInv, BufInv
    <3> QED
      BY <1>11, <2>1, <3>1
  <2>3. NoBuf \notin free /\ NoBuf \notin Bufs
    BY Numbers DEF TypeInv
  <2> QED
    BY <1>2, <1>11, <2>2, <2>3 DEF BufInv
<1> QED
  BY <1>2, <1>5, <1>11, <1>12, <1>13, <1>14 DEF ListInv
-----------------------------------------------------------------------------
(* What keeps the order and the round *)

LEMMA OrderKept ==
  ASSUME TypeInv, OrderInv, ra_list' \in Lists, Ordered(ra_list'),
         \A n : Below(ra_list, n) => Below(ra_list', n), pkt' = pkt,
         snd'.pc \in {"idle", "notify"} \/ snd.pc \notin {"idle", "notify"}
  PROVE  OrderInv'
<1>1. PICK M \in Lists : M = ra_list'
  OBVIOUS
<1>2. pkt \in Int /\ pkt - 1 \in Int /\ pkt - 1 <= pkt
  BY Numbers DEF TypeInv
<1>3. CASE snd.pc \in {"idle", "notify"}
  <2>1. Below(M, pkt) /\ snd'.pc \in {"idle", "notify"}
    BY <1>1, <1>3 DEF OrderInv
  <2> QED
    BY <1>1, <2>1 DEF OrderInv
<1>4. CASE snd.pc \notin {"idle", "notify"}
  <2>1. Below(M, pkt - 1)
    BY <1>1, <1>4 DEF OrderInv
  <2>2. Below(M, pkt)
    BY <1>2, <2>1, BelowMore
  <2> QED
    BY <1>1, <2>1, <2>2 DEF OrderInv
<1> QED
  BY <1>3, <1>4

\* A category has a queue that may be sent.
MaySend(L, a) == \E k \in DOMAIN L[a] : L[a][k].buf_head # <<>> /\ ~L[a][k].tx_pause

LEMMA RoundIs ==
  RoundInv <=> \A a \in Acs : MaySend(ra_list, a) /\ ~priv.tx_pause /\ tx.left = "nothing"
                                => Coming \/ Ahead(a)
BY DEF RoundInv, MaySend, Sendable

LEMMA RoundKept ==
  ASSUME RoundInv, tx' = tx, ~priv'.tx_pause => ~priv.tx_pause \/ Coming', Coming => Coming',
         \A a \in Acs : MaySend(ra_list', a) => MaySend(ra_list, a) \/ Coming'
  PROVE  RoundInv'
<1>1. ASSUME NEW a \in Acs, MaySend(ra_list', a), ~priv'.tx_pause, tx'.left = "nothing", ~Coming'
      PROVE  Ahead(a)'
  <2>1. MaySend(ra_list, a) /\ ~priv.tx_pause /\ tx.left = "nothing" /\ ~Coming
    BY <1>1
  <2>2. Ahead(a)
    BY <2>1, RoundIs
  <2> QED
    BY <2>2 DEF Ahead
<1> QED
  BY <1>1 DEF RoundInv, MaySend, Sendable

LEMMA PopSends ==
  ASSUME NEW L \in Lists, NEW a0 \in Acs, NEW k0 \in DOMAIN L[a0], Q(L, a0, k0) # <<>>, NEW M,
         M = SetQ(L, a0, k0, Tail(Q(L, a0, k0)))
  PROVE  \A a \in Acs : MaySend(M, a) => MaySend(L, a)
<1>1. Q(L, a0, k0) \in Seq(Entry)
  BY NodeIs
<1>2. PICK r \in Seq(Entry) : r = Tail(Q(L, a0, k0))
  BY <1>1, TailIs
<1>3. M = SetQ(L, a0, k0, r)
  BY <1>2
<1>4. /\ \A a \in Acs : DOMAIN M[a] = DOMAIN L[a]
      /\ \A a \in Acs : \A k \in DOMAIN L[a] :
           /\ Q(M, a, k) = IF a = a0 /\ k = k0 THEN r ELSE Q(L, a, k)
           /\ M[a][k].tx_pause = L[a][k].tx_pause
  BY <1>3, SetQueue
<1>5. ASSUME NEW a \in Acs, NEW k \in DOMAIN M[a], Q(M, a, k) # <<>>, ~M[a][k].tx_pause
      PROVE  k \in DOMAIN L[a] /\ Q(L, a, k) # <<>> /\ ~L[a][k].tx_pause
  BY <1>4, <1>5
<1> QED
  BY <1>5 DEF MaySend, Q

LEMMA AddSends ==
  ASSUME NEW L \in Lists, NEW a0 \in Acs, NEW ra \in RAs, NEW M, M = AddAt(L, a0, ra)
  PROVE  M \in Lists /\ SameQueues(L, M) /\ \A a \in Acs : MaySend(M, a) => MaySend(L, a)
<1>1. /\ M \in Lists /\ SameQueues(L, M)
      /\ \A a \in Acs : \A k \in DOMAIN M[a] : Q(M, a, k) # <<>> => M[a][k] = L[a][k]
  BY AddIs
<1>2. ASSUME NEW a \in Acs, NEW k \in DOMAIN M[a], Q(M, a, k) # <<>>, ~M[a][k].tx_pause
      PROVE  k \in DOMAIN L[a] /\ Q(L, a, k) # <<>> /\ ~L[a][k].tx_pause
  <2>1. k \in DOMAIN L[a] /\ Q(L, a, k) = Q(M, a, k)
    BY <1>1, <1>2 DEF SameQueues
  <2> QED
    BY <1>1, <1>2, <2>1
<1> QED
  BY <1>1, <1>2 DEF MaySend, Q

LEMMA OldSends ==
  ASSUME NEW L, NEW M, OldNodes(L, M)
  PROVE  \A a \in Acs : MaySend(M, a) => MaySend(L, a)
BY DEF OldNodes, MaySend
-----------------------------------------------------------------------------
(* One lemma for the steps of a thread that leave the queues as they are *)

LEMMA Parts == WmmInv <=> TypeInv /\ SndInv /\ ListInv /\ OrderInv /\ RoundInv
BY DEF WmmInv, ListInv, OrderInv

\* The sender moves on, or gives up its packet.
LEMMA SenderStep ==
  ASSUME WmmInv, NEW pc \in SndPc, NEW ra \in RAs, NEW ac \in Acs, NEW buf \in Bufs \cup {NoBuf},
         NEW retry \in 0 .. retry_attempts, NEW i \in Acs,
         snd' = SndIs(pc, ra, ac, buf, retry, i), free' \subseteq Bufs,
         ra_list' \in Lists, SameQueues(ra_list, ra_list'),
         \A a \in Acs : MaySend(ra_list', a) => MaySend(ra_list, a),
         pkts_queued' = pkts_queued, UNCHANGED <<priv, tx, drv, core, pkt>>,
         notified' \in BOOLEAN, notified => notified',
         buf # NoBuf <=> pc \in {"out", "enqueue", "add", "added"},
         pc \in {"get", "steal", "again"} => retry >= 1, snd.pc # "idle",
         buf \notin free', \A b \in Bufs : b \in free' \/ b = buf <=> b \in free \/ b = snd.buf,
         snd.pc = "notify" => notified' /\ pc = "idle"
  PROVE  WmmInv'
<1>1. snd'.pc = pc /\ snd'.buf = buf /\ snd'.retry = retry
  BY SndFields
<1>2. TypeInv /\ SndInv /\ ListInv /\ OrderInv /\ RoundInv
  BY Parts
<1>3. TypeInv'
  <2>1. snd' \in SndType
    BY SndIsType
  <2> QED
    BY <1>2, <2>1 DEF TypeInv
<1>4. SndInv'
  BY <1>1, <1>2 DEF SndInv
<1>5. ListInv' /\ \A n : Below(ra_list, n) => Below(ra_list', n)
  <2>1. snd'.buf \notin free' /\ \A b \in Bufs : Spare(b)' <=> Spare(b)
    BY <1>1 DEF Spare
  <2> QED
    BY <1>2, <2>1, SameListInv
<1>6. OrderInv'
  <2>1. snd'.pc \in {"idle", "notify"} \/ snd.pc \notin {"idle", "notify"}
    BY <1>1
  <2>2. Ordered(ra_list') /\ pkt' = pkt
    BY <1>5 DEF ListInv
  <2> QED
    BY <1>2, <1>5, <2>1, <2>2, OrderKept
<1>7. RoundInv'
  <2>1. Coming => Coming'
    BY <1>1 DEF Coming
  <2> QED
    BY <1>2, <2>1, RoundKept
<1> QED
  BY <1>3, <1>4, <1>5, <1>6, <1>7 DEF WmmInv, ListInv

\* The driver, the core thread or the firmware takes a step.
LEMMA DriverStep ==
  ASSUME WmmInv, UNCHANGED <<free, pkts_queued, snd, tx, pkt>>, drv' \in DrvType, core' \in CoreType,
         priv' \in [tx_pause : BOOLEAN, media_connected : BOOLEAN], notified' \in BOOLEAN,
         ra_list' \in Lists, SameQueues(ra_list, ra_list'), Coming => Coming',
         \A a \in Acs : MaySend(ra_list', a) => MaySend(ra_list, a) \/ Coming',
         ~priv'.tx_pause => ~priv.tx_pause \/ Coming'
  PROVE  WmmInv'
<1>1. TypeInv /\ SndInv /\ ListInv /\ OrderInv /\ RoundInv
  BY Parts
<1>2. TypeInv'
  BY <1>1 DEF TypeInv
<1>3. SndInv'
  BY <1>1 DEF SndInv
<1>4. ListInv' /\ \A n : Below(ra_list, n) => Below(ra_list', n)
  <2>1. snd'.buf \notin free' /\ \A b \in Bufs : Spare(b)' <=> Spare(b)
    BY <1>1 DEF Spare, ListInv, BufInv
  <2> QED
    BY <1>1, <2>1, SameListInv
<1>5. OrderInv'
  <2>1. snd'.pc \in {"idle", "notify"} \/ snd.pc \notin {"idle", "notify"}
    OBVIOUS
  <2>2. Ordered(ra_list') /\ pkt' = pkt
    BY <1>4 DEF ListInv
  <2> QED
    BY <1>1, <1>4, <2>1, <2>2, OrderKept
<1>6. RoundInv'
  BY <1>1, RoundKept
<1> QED
  BY <1>2, <1>3, <1>4, <1>5, <1>6 DEF WmmInv, ListInv

\* wifi_driver_tx() takes a step that leaves the lists alone.
LEMMA TxStep ==
  ASSUME WmmInv, UNCHANGED <<lists, priv, snd, drv, core, pkt>>, tx' \in TxType, notified' \in BOOLEAN,
         \A a \in Acs : MaySend(ra_list, a) /\ ~priv.tx_pause /\ tx'.left = "nothing"
                          => Coming' \/ Ahead(a)'
  PROVE  WmmInv'
<1>1. TypeInv /\ SndInv /\ BufInv /\ CountInv /\ OrderInv
  BY DEF WmmInv
<1>2. UNCHANGED <<free, ra_list, pkts_queued>>
  BY DEF lists
<1>3. TypeInv'
  BY <1>1, <1>2 DEF TypeInv
<1>4. SndInv' /\ BufInv' /\ CountInv' /\ OrderInv'
  BY <1>1, <1>2 DEF SndInv, BufInv, CountInv, OrderInv
<1>5. RoundInv'
  BY <1>2 DEF RoundInv, MaySend, Sendable
<1> QED
  BY <1>3, <1>4, <1>5 DEF WmmInv
-----------------------------------------------------------------------------
(* The sender's steps *)

LEMMA Sends ==
  ASSUME TypeInv
  PROVE  SameQueues(ra_list, ra_list) /\ \A a \in Acs : MaySend(ra_list, a) => MaySend(ra_list, a)
BY QueuesStay

LEMMA LowLevelOutputKeeps ==
  ASSUME WmmInv, NEW ra \in RAs, NEW ac \in Acs, low_level_output(ra, ac)
  PROVE  WmmInv'
<1>1. TypeInv /\ SndInv /\ ListInv /\ OrderInv /\ RoundInv
  BY Parts
<1>2. snd' = SndIs("get", ra, ac, NoBuf, retry_attempts, 0)
  BY DEF low_level_output, Idle, SndIs
<1>3. snd'.pc = "get" /\ snd'.buf = NoBuf /\ snd'.retry = retry_attempts
  BY <1>2, SndFields
<1>4. /\ snd.pc = "idle" /\ pkt < MaxPkts /\ pkt' = pkt + 1
      /\ UNCHANGED <<free, ra_list, pkts_queued, priv, tx, drv, core, notified>>
  BY DEF low_level_output, lists
<1>5. snd.buf = NoBuf
  BY <1>1, <1>4 DEF SndInv
<1>6. TypeInv'
  <2>1. snd' \in SndType
    <3>1. "get" \in SndPc /\ retry_attempts \in 0 .. retry_attempts
      BY Numbers DEF SndPc
    <3> QED
      BY <1>2, <3>1, Numbers, SndIsType
  <2>2. pkt' \in 0 .. MaxPkts
    BY <1>1, <1>4, Numbers DEF TypeInv
  <2> QED
    BY <1>1, <1>4, <2>1, <2>2 DEF TypeInv
<1>7. SndInv'
  <2>1. pkt' >= 1 /\ retry_attempts >= 1
    BY <1>1, <1>4, Numbers DEF TypeInv
  <2> QED
    BY <1>3, <2>1 DEF SndInv
<1>8. BufInv' /\ CountInv'
  BY <1>1, <1>3, <1>4, <1>5 DEF ListInv, BufInv, CountInv
<1>9. OrderInv'
  <2>1. pkt' - 1 = pkt
    BY <1>1, <1>4, Numbers DEF TypeInv
  <2> QED
    BY <1>1, <1>3, <1>4, <2>1 DEF OrderInv
<1>10. RoundInv'
  <2>1. Coming => Coming'
    BY <1>4 DEF Coming
  <2> QED
    BY <1>1, <1>4, <2>1, RoundKept
<1> QED
  BY <1>6, <1>7, <1>8, <1>9, <1>10 DEF WmmInv

LEMMA BufGetKeeps ==
  ASSUME WmmInv, wifi_wmm_buf_get
  PROVE  WmmInv'
<1>1. TypeInv /\ SndInv /\ BufInv
  BY DEF WmmInv
<1>2. /\ snd.pc = "get" /\ snd.buf = NoBuf /\ snd.retry >= 1
      /\ UNCHANGED <<ra_list, pkts_queued, priv, tx, drv, core, notified, pkt>>
  BY <1>1 DEF wifi_wmm_buf_get, SndInv
<1>3. /\ snd = SndIs("get", snd.ra, snd.ac, NoBuf, snd.retry, snd.i)
      /\ snd.ra \in RAs /\ snd.ac \in Acs /\ snd.retry \in 0 .. retry_attempts
      /\ ra_list \in Lists /\ notified \in BOOLEAN /\ free \subseteq Bufs
  BY <1>1, <1>2, SndNow DEF TypeInv
<1>4. CASE free = {}
  <2>1. snd' = [snd EXCEPT !.pc = "steal", !.i = 0] /\ free' = free
    BY <1>4 DEF wifi_wmm_buf_get
  <2>2. snd' = SndIs("steal", snd.ra, snd.ac, snd.buf, snd.retry, 0)
    BY <1>1, <2>1 DEF TypeInv, SndType, SndIs
  <2>3. "steal" \in SndPc
    BY DEF SndPc
  <2> QED
    BY <1>1, <1>2, <1>3, <1>4, <2>1, <2>2, <2>3, Sends, Numbers, SenderStep
<1>5. CASE free # {}
  <2>1. PICK b : b = CHOOSE x \in free : \A y \in free : x <= y
    OBVIOUS
  <2>2. free' = free \ {b} /\ snd' = [snd EXCEPT !.pc = "out", !.buf = b, !.retry = 0, !.i = 0]
    BY <1>5, <2>1 DEF wifi_wmm_buf_get
  <2>3. b \in free
    <3>1. \E x \in free : \A y \in free : x <= y
      BY <1>3, <1>5, Smallest, Numbers
    <3> QED
      BY <2>1, <3>1
  <2>4. b \in Bufs /\ b # NoBuf
    BY <1>3, <2>3, Numbers
  <2>5. snd' = SndIs("out", snd.ra, snd.ac, b, 0, 0)
    BY <1>3, <2>2 DEF SndIs
  <2>6. "out" \in SndPc /\ 0 \in 0 .. retry_attempts
    BY Numbers DEF SndPc
  <2>7. /\ free' \subseteq Bufs /\ b \notin free'
        /\ \A x \in Bufs : x \in free' \/ x = b <=> x \in free \/ x = snd.buf
    BY <1>2, <1>3, <2>2, <2>3, Numbers
  <2> QED
    BY <1>1, <1>2, <1>3, <2>4, <2>5, <2>6, <2>7, Sends, Numbers, SenderStep
<1> QED
  BY <1>4, <1>5

LEMMA RetryKeeps ==
  ASSUME WmmInv, Retry
  PROVE  WmmInv'
<1>1. TypeInv /\ SndInv /\ BufInv
  BY DEF WmmInv
<1>2. /\ snd.pc = "again" /\ snd.buf = NoBuf /\ snd.retry >= 1
      /\ UNCHANGED <<free, ra_list, pkts_queued, priv, tx, drv, core, pkt>>
  BY <1>1 DEF Retry, SndInv, lists
<1>3. /\ snd = SndIs("again", snd.ra, snd.ac, NoBuf, snd.retry, snd.i)
      /\ snd.ra \in RAs /\ snd.ac \in Acs /\ snd.retry \in 0 .. retry_attempts /\ snd.i \in Acs
      /\ ra_list \in Lists /\ notified \in BOOLEAN /\ free \subseteq Bufs /\ NoBuf \notin free
  BY <1>1, <1>2, SndNow DEF TypeInv, BufInv
<1>4. notified' \in BOOLEAN /\ (notified => notified')
  BY <1>3 DEF Retry
<1>5. CASE snd' = Idle
  <2>1. snd' = SndIs("idle", Bcast, 0, NoBuf, 0, 0)
    BY <1>5, IdleIs
  <2>2. "idle" \in SndPc /\ 0 \in 0 .. retry_attempts
    BY Numbers DEF SndPc
  <2> QED
    BY <1>1, <1>2, <1>3, <1>4, <2>1, <2>2, Sends, Numbers, SenderStep
<1>6. CASE snd.retry # 1 /\ snd' = [snd EXCEPT !.pc = "get", !.retry = @ - 1]
  <2>1. snd' = SndIs("get", snd.ra, snd.ac, snd.buf, snd.retry - 1, snd.i)
    BY <1>1, <1>6 DEF TypeInv, SndType, SndIs
  <2>2. "get" \in SndPc /\ snd.retry - 1 \in 0 .. retry_attempts /\ snd.retry - 1 >= 1
    BY <1>2, <1>3, <1>6, Numbers DEF SndPc
  <2> QED
    BY <1>1, <1>2, <1>3, <1>4, <2>1, <2>2, Sends, Numbers, SenderStep
<1> QED
  BY <1>5, <1>6 DEF Retry

LEMMA WifiOutputKeeps ==
  ASSUME WmmInv, wifi_low_level_output
  PROVE  WmmInv'
<1>1. TypeInv /\ SndInv /\ BufInv
  BY DEF WmmInv
<1>2. /\ snd.pc = "out" /\ snd.buf # NoBuf
      /\ UNCHANGED <<ra_list, pkts_queued, priv, tx, drv, core, notified, pkt>>
  BY <1>1 DEF wifi_low_level_output, SndInv
<1>3. /\ snd = SndIs("out", snd.ra, snd.ac, snd.buf, snd.retry, snd.i)
      /\ snd.ra \in RAs /\ snd.ac \in Acs /\ snd.retry \in 0 .. retry_attempts /\ snd.i \in Acs
      /\ ra_list \in Lists /\ notified \in BOOLEAN /\ free \subseteq Bufs /\ snd.buf \in Bufs
      /\ snd.buf \notin free
  BY <1>1, <1>2, SndNow DEF TypeInv, BufInv
<1>4. CASE priv.media_connected
  <2>1. snd' = [snd EXCEPT !.pc = "enqueue"] /\ free' = free
    BY <1>4 DEF wifi_low_level_output
  <2>2. snd' = SndIs("enqueue", snd.ra, snd.ac, snd.buf, snd.retry, snd.i)
    BY <1>3, <2>1 DEF SndIs
  <2>3. "enqueue" \in SndPc
    BY DEF SndPc
  <2> QED
    BY <1>1, <1>2, <1>3, <2>1, <2>2, <2>3, Sends, Numbers, SenderStep
<1>5. CASE ~priv.media_connected
  <2>1. snd' = Idle /\ free' = free \cup {snd.buf}
    BY <1>5 DEF wifi_low_level_output
  <2>2. snd' = SndIs("idle", Bcast, 0, NoBuf, 0, 0)
    BY <2>1, IdleIs
  <2>3. "idle" \in SndPc /\ 0 \in 0 .. retry_attempts
    BY Numbers DEF SndPc
  <2>4. /\ free' \subseteq Bufs /\ NoBuf \notin free'
        /\ \A x \in Bufs : x \in free' \/ x = NoBuf <=> x \in free \/ x = snd.buf
    BY <1>3, <2>1, Numbers
  <2> QED
    BY <1>1, <1>2, <1>3, <2>2, <2>3, <2>4, Sends, Numbers, SenderStep
<1> QED
  BY <1>4, <1>5

LEMMA NotifyKeeps ==
  ASSUME WmmInv, send_wifi_driver_tx_data_event
  PROVE  WmmInv'
<1>1. TypeInv /\ SndInv /\ BufInv
  BY DEF WmmInv
<1>2. /\ snd.pc = "notify" /\ snd.buf = NoBuf /\ notified' = TRUE
      /\ UNCHANGED <<free, ra_list, pkts_queued, priv, tx, drv, core, pkt>>
  BY <1>1 DEF send_wifi_driver_tx_data_event, SndInv, lists
<1>3. ra_list \in Lists /\ free \subseteq Bufs /\ NoBuf \notin free
  BY <1>1, <1>2 DEF TypeInv, BufInv
<1>4. snd' = SndIs("idle", Bcast, 0, NoBuf, 0, 0)
  BY IdleIs DEF send_wifi_driver_tx_data_event
<1>5. "idle" \in SndPc /\ 0 \in 0 .. retry_attempts
  BY Numbers DEF SndPc
<1> QED
  BY <1>1, <1>2, <1>3, <1>4, <1>5, Sends, Numbers, SenderStep

LEMMA HeadIs ==
  ASSUME NEW L \in Lists, NEW a \in Acs, NEW k \in DOMAIN L[a], Q(L, a, k) # <<>>
  PROVE  Head(Q(L, a, k))[1] \in Bufs /\ Head(Q(L, a, k))[1] \in BufsOf(L, a)
<1>1. PICK q \in Seq(Entry) : q = Q(L, a, k)
  BY NodeIs
<1>2. Head(q) = q[1] /\ 1 \in DOMAIN q
  BY <1>1, TailIs
<1>3. q[1][1] \in Bufs
  BY <1>1, <1>2, NodeIs
<1> QED
  BY <1>1, <1>2, <1>3 DEF BufsOf, Holds

LEMMA StealKeeps ==
  ASSUME WmmInv, wifi_wmm_get_alter_buf_from_txqueue
  PROVE  WmmInv'
<1>1. TypeInv /\ SndInv /\ ListInv /\ OrderInv /\ RoundInv
  BY Parts
<1>2. /\ snd.pc = "steal" /\ snd.buf = NoBuf /\ snd.retry >= 1
      /\ UNCHANGED <<free, priv, tx, drv, core, notified, pkt>>
  BY <1>1 DEF wifi_wmm_get_alter_buf_from_txqueue, SndInv
<1>3. /\ snd = SndIs("steal", snd.ra, snd.ac, NoBuf, snd.retry, snd.i)
      /\ snd.ra \in RAs /\ snd.ac \in Acs /\ snd.retry \in 0 .. retry_attempts /\ snd.i \in Acs
      /\ ra_list \in Lists /\ notified \in BOOLEAN /\ free \subseteq Bufs /\ NoBuf \notin free
  BY <1>1, <1>2, SndNow DEF TypeInv, ListInv, BufInv
<1>4. PICK k : k = IF pkts_queued[snd.i] = 0 THEN 0 ELSE Victim
  OBVIOUS
<1>5. CASE k = 0
  <2>1. /\ snd' = IF snd.i = MAX_AC_QUEUES - 1 THEN [snd EXCEPT !.pc = "again", !.i = 0]
                  ELSE [snd EXCEPT !.i = @ + 1]
        /\ UNCHANGED <<ra_list, pkts_queued>>
    BY <1>4, <1>5 DEF wifi_wmm_get_alter_buf_from_txqueue, Victim
  <2>2. "again" \in SndPc /\ "steal" \in SndPc
    BY DEF SndPc
  <2>3. CASE snd.i = MAX_AC_QUEUES - 1
    <3>1. snd' = SndIs("again", snd.ra, snd.ac, snd.buf, snd.retry, 0)
      BY <1>1, <2>1, <2>3 DEF TypeInv, SndType, SndIs
    <3> QED
      BY <1>1, <1>2, <1>3, <2>1, <2>2, <3>1, Sends, Numbers, SenderStep
  <2>4. CASE snd.i # MAX_AC_QUEUES - 1
    <3>1. snd' = SndIs(snd.pc, snd.ra, snd.ac, snd.buf, snd.retry, snd.i + 1)
      BY <1>1, <2>1, <2>4 DEF TypeInv, SndType, SndIs
    <3>2. snd.i + 1 \in Acs
      BY <1>3, <2>4, Numbers
    <3> QED
      BY <1>1, <1>2, <1>3, <2>1, <2>2, <3>1, <3>2, Sends, Numbers, SenderStep
  <2> QED
    BY <2>3, <2>4
<1>6. CASE k # 0
  <2>1. k \in DOMAIN ra_list[snd.i] /\ Q(ra_list, snd.i, k) # <<>>
    BY <1>1, <1>4, <1>6, VictimIs
  <2>2. PICK h : h = Head(Q(ra_list, snd.i, k))[1]
    OBVIOUS
  <2>3. h \in Bufs /\ h \in BufsOf(ra_list, snd.i) /\ h # NoBuf
    BY <1>3, <2>1, <2>2, HeadIs, Numbers
  <2>4. /\ ra_list' = SetQ(ra_list, snd.i, k, Tail(Q(ra_list, snd.i, k)))
        /\ pkts_queued' = [pkts_queued EXCEPT ![snd.i] = @ - 1]
        /\ snd' = [snd EXCEPT !.pc = "out", !.buf = h, !.retry = 0, !.i = 0]
    BY <1>4, <1>6, <2>2 DEF wifi_wmm_get_alter_buf_from_txqueue, Victim, SetQ, Q
  <2>5. snd' = SndIs("out", snd.ra, snd.ac, h, 0, 0)
    BY <1>1, <2>4 DEF TypeInv, SndType, SndIs
  <2>6. snd'.pc = "out" /\ snd'.buf = h
    BY <2>5, SndFields
  <2>7. snd'.buf \notin free' /\ \A b \in Bufs : Spare(b)' <=> Spare(b) \/ b = h
    <3>1. h \notin free
      BY <1>1, <1>3, <2>3 DEF ListInv, BufInv
    <3> QED
      BY <1>2, <2>6, <3>1, Numbers DEF Spare
  <2>8. /\ ListInv' /\ \A n : Below(ra_list, n) => Below(ra_list', n)
        /\ ra_list' \in Lists /\ pkts_queued' \in [Acs -> Int]
    BY <1>1, <1>3, <2>1, <2>2, <2>4, <2>7, PopListInv
  <2>9. TypeInv'
    <3>1. "out" \in SndPc /\ 0 \in 0 .. retry_attempts
      BY Numbers DEF SndPc
    <3>2. snd' \in SndType
      BY <1>3, <2>3, <2>5, <3>1, Numbers, SndIsType
    <3> QED
      BY <1>1, <1>2, <2>8, <3>2 DEF TypeInv
  <2>10. SndInv'
    BY <1>1, <1>2, <2>3, <2>6 DEF SndInv
  <2>11. OrderInv'
    <3>1. Ordered(ra_list') /\ snd.pc \notin {"idle", "notify"} /\ pkt' = pkt
      BY <1>2, <2>8 DEF ListInv
    <3> QED
      BY <1>1, <2>8, <3>1, OrderKept
  <2>12. RoundInv'
    <3>1. \A a \in Acs : MaySend(ra_list', a) => MaySend(ra_list, a)
      BY <1>3, <2>1, <2>4, PopSends
    <3>2. Coming => Coming'
      BY <1>2 DEF Coming
    <3> QED
      BY <1>1, <1>2, <3>1, <3>2, RoundKept
  <2> QED
    BY <2>8, <2>9, <2>10, <2>11, <2>12 DEF WmmInv, ListInv
<1> QED
  BY <1>5, <1>6

LEMMA EnqueueKeeps ==
  ASSUME WmmInv, wlan_wmm_add_buf_txqueue_enh
  PROVE  WmmInv'
<1>1. TypeInv /\ SndInv /\ ListInv /\ OrderInv /\ RoundInv
  BY Parts
<1>2. /\ snd.pc \in {"enqueue", "added"} /\ snd.buf # NoBuf /\ pkt >= 1
      /\ UNCHANGED <<priv, tx, drv, core, notified, pkt>>
  BY <1>1 DEF wlan_wmm_add_buf_txqueue_enh, SndInv
<1>3. /\ snd.pc \in SndPc
      /\ snd.ra \in RAs /\ snd.ac \in Acs /\ snd.retry \in 0 .. retry_attempts /\ snd.i \in Acs
      /\ ra_list \in Lists /\ notified \in BOOLEAN /\ free \subseteq Bufs /\ snd.buf \in Bufs
      /\ snd.buf \notin free
  BY <1>1, <1>2, SndNow DEF TypeInv, ListInv, BufInv
<1>4. PICK k : k = wlan_wmm_get_ralist_node(snd.ac, snd.ra)
  OBVIOUS
<1>5. CASE /\ k # 0 /\ ra_list' = AppendTo(snd.ac, k, <<snd.buf, pkt>>)
           /\ pkts_queued' = [pkts_queued EXCEPT ![snd.ac] = @ + 1]
           /\ snd' = [snd EXCEPT !.pc = "notify", !.buf = NoBuf]
           /\ free' = free
  <2>1. k \in DOMAIN ra_list[snd.ac]
    BY <1>1, <1>3, <1>4, <1>5, NodeFound
  <2>2. ra_list' = SetQ(ra_list, snd.ac, k, Append(Q(ra_list, snd.ac, k), <<snd.buf, pkt>>))
    BY <1>5 DEF AppendTo, SetQ, Q
  <2>3. snd' = SndIs("notify", snd.ra, snd.ac, NoBuf, snd.retry, snd.i)
    BY <1>1, <1>5 DEF TypeInv, SndType, SndIs
  <2>4. snd'.pc = "notify" /\ snd'.buf = NoBuf
    BY <2>3, SndFields
  <2>5. pkt \in 1 .. MaxPkts /\ Below(ra_list, pkt - 1)
    <3>1. pkt \in 1 .. MaxPkts
      BY <1>1, <1>2, Numbers DEF TypeInv
    <3>2. Below(ra_list, pkt - 1)
      BY <1>1, <1>2 DEF OrderInv
    <3> QED
      BY <3>1, <3>2
  <2>6. /\ ListInv' /\ Below(ra_list', pkt)
        /\ ra_list' \in Lists /\ pkts_queued' \in [Acs -> Int]
    BY <1>1, <1>3, <1>5, <2>1, <2>2, <2>4, <2>5, PushListInv
  <2>7. TypeInv'
    <3>1. "notify" \in SndPc
      BY DEF SndPc
    <3>2. snd' \in SndType
      BY <1>3, <2>3, <3>1, SndIsType
    <3> QED
      BY <1>1, <1>2, <1>5, <2>6, <3>2 DEF TypeInv
  <2>8. SndInv'
    BY <1>2, <2>4 DEF SndInv
  <2>9. OrderInv'
    BY <1>2, <2>4, <2>6 DEF OrderInv, ListInv
  <2>10. RoundInv'
    BY <2>4 DEF RoundInv, Coming
  <2> QED
    BY <2>6, <2>7, <2>8, <2>9, <2>10 DEF WmmInv, ListInv
<1>6. CASE snd' = [snd EXCEPT !.pc = "add", !.i = 0] /\ UNCHANGED <<free, ra_list, pkts_queued>>
  <2>1. snd' = SndIs("add", snd.ra, snd.ac, snd.buf, snd.retry, 0)
    BY <1>1, <1>6 DEF TypeInv, SndType, SndIs
  <2>2. "add" \in SndPc
    BY DEF SndPc
  <2> QED
    BY <1>1, <1>2, <1>3, <1>6, <2>1, <2>2, Sends, Numbers, SenderStep
<1>7. CASE free' = free \cup {snd.buf} /\ snd' = Idle /\ UNCHANGED <<ra_list, pkts_queued>>
  <2>1. snd' = SndIs("idle", Bcast, 0, NoBuf, 0, 0)
    BY <1>7, IdleIs
  <2>2. "idle" \in SndPc /\ 0 \in 0 .. retry_attempts
    BY Numbers DEF SndPc
  <2>3. /\ free' \subseteq Bufs /\ NoBuf \notin free'
        /\ \A x \in Bufs : x \in free' \/ x = NoBuf <=> x \in free \/ x = snd.buf
    BY <1>3, <1>7, Numbers
  <2> QED
    BY <1>1, <1>2, <1>3, <1>7, <2>1, <2>2, <2>3, Sends, Numbers, SenderStep
<1> QED
  BY <1>4, <1>5, <1>6, <1>7 DEF wlan_wmm_add_buf_txqueue_enh

\* A step of wlan_ralist_add_enh(), whoever takes it.
LEMMA AddStepIs ==
  ASSUME TypeInv, NEW r, r.i \in Acs, r.ra \in RAs, NEW new, NEW done, AddStep(r, new, done)
  PROVE  /\ ra_list' \in Lists /\ SameQueues(ra_list, ra_list')
         /\ \A a \in Acs : MaySend(ra_list', a) => MaySend(ra_list, a)
         /\ new = done \/ (r.i # MAX_AC_QUEUES - 1 /\ new = [r EXCEPT !.i = @ + 1])
<1>1. PICK L \in Lists : L = ra_list
  BY DEF TypeInv
<1>2. ra_list' = ra_list \/ ra_list' = AddAt(ra_list, r.i, r.ra)
  BY DEF AddStep, Added, AddAt
<1>3. new = done \/ (r.i # MAX_AC_QUEUES - 1 /\ new = [r EXCEPT !.i = @ + 1])
  BY DEF AddStep
<1>4. CASE ra_list' = ra_list
  BY <1>1, <1>3, <1>4, QueuesStay
<1>5. CASE ra_list' = AddAt(ra_list, r.i, r.ra)
  <2>1. PICK M : M = ra_list'
    OBVIOUS
  <2>2. M = AddAt(L, r.i, r.ra)
    BY <1>1, <1>5, <2>1
  <2>3. M \in Lists /\ SameQueues(L, M) /\ \A a \in Acs : MaySend(M, a) => MaySend(L, a)
    BY <2>2, AddSends
  <2> QED
    BY <1>1, <1>3, <2>1, <2>3
<1> QED
  BY <1>2, <1>4, <1>5

LEMMA SenderAddsKeeps ==
  ASSUME WmmInv, SenderAdds
  PROVE  WmmInv'
<1>1. TypeInv /\ SndInv /\ ListInv
  BY Parts
<1>2. /\ snd.pc = "add" /\ snd.buf # NoBuf
      /\ UNCHANGED <<free, pkts_queued, priv, tx, drv, core, notified, pkt>>
  BY <1>1 DEF SenderAdds, SndInv
<1>3. /\ snd.pc \in SndPc
      /\ snd.ra \in RAs /\ snd.ac \in Acs /\ snd.retry \in 0 .. retry_attempts /\ snd.i \in Acs
      /\ notified \in BOOLEAN /\ free \subseteq Bufs /\ snd.buf \in Bufs /\ snd.buf \notin free
  BY <1>1, <1>2, SndNow DEF TypeInv, ListInv, BufInv
<1>4. PICK done : done = [snd EXCEPT !.pc = "added", !.i = 0]
  OBVIOUS
<1>5. AddStep(snd, snd', done)
  BY <1>4 DEF SenderAdds
<1>6. /\ ra_list' \in Lists /\ SameQueues(ra_list, ra_list')
      /\ \A a \in Acs : MaySend(ra_list', a) => MaySend(ra_list, a)
      /\ snd' = done \/ (snd.i # MAX_AC_QUEUES - 1 /\ snd' = [snd EXCEPT !.i = @ + 1])
  BY <1>1, <1>3, <1>5, AddStepIs
<1>7. CASE snd' = done
  <2>1. snd' = SndIs("added", snd.ra, snd.ac, snd.buf, snd.retry, 0)
    BY <1>1, <1>4, <1>7 DEF TypeInv, SndType, SndIs
  <2>2. "added" \in SndPc
    BY DEF SndPc
  <2> QED
    BY <1>1, <1>2, <1>3, <1>6, <2>1, <2>2, Numbers, SenderStep
<1>8. CASE snd.i # MAX_AC_QUEUES - 1 /\ snd' = [snd EXCEPT !.i = @ + 1]
  <2>1. snd' = SndIs(snd.pc, snd.ra, snd.ac, snd.buf, snd.retry, snd.i + 1)
    BY <1>1, <1>8 DEF TypeInv, SndType, SndIs
  <2>2. snd.i + 1 \in Acs
    BY <1>3, <1>8, Numbers
  <2> QED
    BY <1>1, <1>2, <1>3, <1>6, <2>1, <2>2, Numbers, SenderStep
<1> QED
  BY <1>6, <1>7, <1>8
-----------------------------------------------------------------------------
(* The driver's and the firmware's steps *)

LEMMA DrvNow ==
  ASSUME TypeInv
  PROVE  /\ drv.ra \in RAs /\ drv.i \in Acs /\ NoEvent \in DrvType
         /\ drv.i # MAX_AC_QUEUES - 1 =>
              [drv EXCEPT !.i = @ + 1] \in DrvType /\ [drv EXCEPT !.i = @ + 1].pc = drv.pc
         /\ [drv EXCEPT !.pc = "add", !.i = 0] \in DrvType
         /\ [drv EXCEPT !.pc = "add", !.i = 0].pc = "add" /\ NoEvent.pc = "idle"
<1>1. drv \in DrvType
  BY DEF TypeInv
<1>2. drv.ra \in RAs /\ drv.i \in Acs
  BY <1>1 DEF DrvType
<1>3. NoEvent \in DrvType /\ NoEvent.pc = "idle"
  BY Numbers DEF NoEvent, DrvType
<1>4. ASSUME drv.i # MAX_AC_QUEUES - 1
      PROVE  [drv EXCEPT !.i = @ + 1] \in DrvType /\ [drv EXCEPT !.i = @ + 1].pc = drv.pc
  <2>1. PICK j \in Acs : j = drv.i + 1
    BY <1>2, <1>4, Numbers
  <2>2. [drv EXCEPT !.i = j] \in DrvType /\ [drv EXCEPT !.i = j].pc = drv.pc
    BY <1>1 DEF DrvType
  <2> QED
    BY <2>1, <2>2
<1>5. [drv EXCEPT !.pc = "add", !.i = 0] \in DrvType /\ [drv EXCEPT !.pc = "add", !.i = 0].pc = "add"
  BY <1>1, Numbers DEF DrvType
<1> QED
  BY <1>2, <1>3, <1>4, <1>5

LEMMA CoreNow ==
  ASSUME TypeInv
  PROVE  /\ core.ra \in RAs /\ core.i \in Acs /\ NoEvent \in CoreType /\ NoEvent.pc = "idle"
         /\ core.i # MAX_AC_QUEUES - 1 =>
              [core EXCEPT !.i = @ + 1] \in CoreType /\ [core EXCEPT !.i = @ + 1].pc = core.pc
<1>1. core \in CoreType
  BY DEF TypeInv
<1>2. core.ra \in RAs /\ core.i \in Acs
  BY <1>1 DEF CoreType
<1>3. NoEvent \in CoreType /\ NoEvent.pc = "idle"
  BY Numbers DEF NoEvent, CoreType
<1>4. ASSUME core.i # MAX_AC_QUEUES - 1
      PROVE  [core EXCEPT !.i = @ + 1] \in CoreType /\ [core EXCEPT !.i = @ + 1].pc = core.pc
  <2>1. PICK j \in Acs : j = core.i + 1
    BY <1>2, <1>4, Numbers
  <2>2. [core EXCEPT !.i = j] \in CoreType /\ [core EXCEPT !.i = j].pc = core.pc
    BY <1>1 DEF CoreType
  <2> QED
    BY <2>1, <2>2
<1> QED
  BY <1>2, <1>3, <1>4

LEMMA DriverAddsKeeps ==
  ASSUME WmmInv, wlan_ralist_add_enh
  PROVE  WmmInv'
<1>1. TypeInv
  BY DEF WmmInv
<1>2. drv.pc = "add" /\ UNCHANGED <<free, pkts_queued, priv, snd, tx, core, notified, pkt>>
      /\ AddStep(drv, drv', NoEvent)
  BY DEF wlan_ralist_add_enh
<1>3. /\ ra_list' \in Lists /\ SameQueues(ra_list, ra_list')
      /\ \A a \in Acs : MaySend(ra_list', a) => MaySend(ra_list, a)
      /\ drv' = NoEvent \/ (drv.i # MAX_AC_QUEUES - 1 /\ drv' = [drv EXCEPT !.i = @ + 1])
  BY <1>1, <1>2, DrvNow, AddStepIs
<1>4. drv' \in DrvType
  BY <1>1, <1>3, DrvNow
<1>5. Coming => Coming'
  BY <1>2 DEF Coming
<1>6. priv' \in [tx_pause : BOOLEAN, media_connected : BOOLEAN] /\ notified' \in BOOLEAN
      /\ core' \in CoreType
  BY <1>1, <1>2 DEF TypeInv
<1> QED
  BY <1>2, <1>3, <1>4, <1>5, <1>6, DriverStep

LEMMA EventKeeps ==
  ASSUME WmmInv, NEW pc \in {"assoc", "gone"}, NEW ra \in Clients, Event(pc, ra)
  PROVE  WmmInv'
<1>1. TypeInv
  BY DEF WmmInv
<1>2. /\ drv.pc = "idle" /\ drv' = [pc |-> pc, ra |-> ra, i |-> 0]
      /\ UNCHANGED <<free, ra_list, pkts_queued, priv, snd, tx, core, notified, pkt>>
  BY DEF Event, lists
<1>3. drv' \in DrvType
  BY <1>2, Numbers DEF DrvType, RAs
<1>4. Coming => Coming'
  BY <1>2 DEF Coming
<1>5. /\ priv' \in [tx_pause : BOOLEAN, media_connected : BOOLEAN] /\ notified' \in BOOLEAN
      /\ ra_list' \in Lists /\ core' \in CoreType
  BY <1>1, <1>2 DEF TypeInv
<1> QED
  BY <1>1, <1>2, <1>3, <1>4, <1>5, Sends, DriverStep

LEMMA DataPauseKeeps ==
  ASSUME WmmInv, NEW pc \in {"pause", "resume"}, NEW ra \in Clients, DataPause(pc, ra)
  PROVE  WmmInv'
<1>1. TypeInv
  BY DEF WmmInv
<1>2. /\ core.pc = "idle" /\ core' = [pc |-> pc, ra |-> ra, i |-> 0]
      /\ UNCHANGED <<free, ra_list, pkts_queued, priv, snd, tx, drv, notified, pkt>>
  BY DEF DataPause, lists
<1>3. core' \in CoreType
  BY <1>2, Numbers DEF CoreType, RAs
<1>4. Coming => Coming'
  BY <1>2 DEF Coming
<1>5. /\ priv' \in [tx_pause : BOOLEAN, media_connected : BOOLEAN] /\ notified' \in BOOLEAN
      /\ ra_list' \in Lists /\ drv' \in DrvType
  BY <1>1, <1>2 DEF TypeInv
<1> QED
  BY <1>1, <1>2, <1>3, <1>4, <1>5, Sends, DriverStep

LEMMA PauseInterfaceKeeps ==
  ASSUME WmmInv, NEW on \in BOOLEAN, PauseInterface(on)
  PROVE  WmmInv'
<1>1. TypeInv
  BY DEF WmmInv
<1>2. /\ priv' = [priv EXCEPT !.tx_pause = on] /\ notified' = (notified \/ ~on)
      /\ UNCHANGED <<free, ra_list, pkts_queued, snd, tx, drv, core, pkt>>
  BY DEF PauseInterface, lists
<1>3. priv' \in [tx_pause : BOOLEAN, media_connected : BOOLEAN] /\ priv'.tx_pause = on
  BY <1>1, <1>2 DEF TypeInv
<1>4. notified' \in BOOLEAN /\ (Coming => Coming') /\ (~on => Coming')
  BY <1>1, <1>2 DEF Coming, TypeInv
<1>5. drv' \in DrvType /\ core' \in CoreType /\ ra_list' \in Lists
  BY <1>1, <1>2 DEF TypeInv
<1> QED
  BY <1>1, <1>2, <1>3, <1>4, <1>5, Sends, DriverStep

LEMMA BssActiveKeeps ==
  ASSUME WmmInv, NEW on \in BOOLEAN, BssActive(on)
  PROVE  WmmInv'
<1>1. TypeInv
  BY DEF WmmInv
<1>2. /\ priv' = [priv EXCEPT !.media_connected = on]
      /\ UNCHANGED <<free, ra_list, pkts_queued, snd, tx, drv, core, notified, pkt>>
  BY DEF BssActive, lists
<1>3. priv' \in [tx_pause : BOOLEAN, media_connected : BOOLEAN] /\ priv'.tx_pause = priv.tx_pause
  BY <1>1, <1>2 DEF TypeInv
<1>4. Coming => Coming'
  BY <1>2 DEF Coming
<1>5. drv' \in DrvType /\ core' \in CoreType /\ ra_list' \in Lists /\ notified' \in BOOLEAN
  BY <1>1, <1>2 DEF TypeInv
<1> QED
  BY <1>1, <1>2, <1>3, <1>4, <1>5, Sends, DriverStep

LEMMA PauseClientKeeps ==
  ASSUME WmmInv, PauseClient
  PROVE  WmmInv'
<1>1. TypeInv /\ drv \in DrvType
  BY DEF WmmInv, TypeInv
<1>2. /\ core.pc \in {"pause", "resume"} /\ UNCHANGED <<free, pkts_queued, priv, snd, tx, drv, pkt>>
      /\ core' = IF core.i < MAX_AC_QUEUES - 1 THEN [core EXCEPT !.i = @ + 1] ELSE NoEvent
      /\ notified' = (notified \/ (core.i = MAX_AC_QUEUES - 1 /\ core.pc = "resume"))
  BY DEF PauseClient
<1>3. core.i \in Acs /\ (core.i < MAX_AC_QUEUES - 1 <=> core.i # MAX_AC_QUEUES - 1)
  BY <1>1, CoreNow, WmmAssumption DEF Acs
<1>4. core' \in CoreType /\ (core.i # MAX_AC_QUEUES - 1 => core'.pc = core.pc)
  BY <1>1, <1>2, <1>3, CoreNow
<1>5. /\ notified' \in BOOLEAN /\ priv' \in [tx_pause : BOOLEAN, media_connected : BOOLEAN]
      /\ core.pc = "resume" => Coming'
      /\ Coming => Coming'
  <2>1. notified' \in BOOLEAN /\ (notified => notified')
        /\ (core.i = MAX_AC_QUEUES - 1 /\ core.pc = "resume" => notified')
    BY <1>1, <1>2 DEF TypeInv
  <2>2. priv' \in [tx_pause : BOOLEAN, media_connected : BOOLEAN]
    BY <1>1, <1>2 DEF TypeInv
  <2>3. core.pc = "resume" => Coming'
    BY <1>4, <2>1 DEF Coming
  <2>4. Coming => Coming'
    BY <1>2, <2>1, <2>3 DEF Coming
  <2> QED
    BY <2>1, <2>2, <2>3, <2>4
<1>6. PICK L \in Lists : L = ra_list
  BY <1>1 DEF TypeInv
<1>7. PICK k : k = wlan_wmm_get_ralist_node(core.i, core.ra)
  OBVIOUS
<1>8. /\ ra_list' \in Lists /\ SameQueues(ra_list, ra_list')
      /\ \A a \in Acs : MaySend(ra_list', a) => MaySend(ra_list, a) \/ core.pc = "resume"
  <2>1. CASE k = 0
    <3>1. ra_list' = ra_list
      BY <1>7, <2>1 DEF PauseClient
    <3> QED
      BY <1>6, <3>1, QueuesStay
  <2>2. CASE k # 0
    <3>1. k \in DOMAIN L[core.i]
      BY <1>1, <1>3, <1>6, <1>7, <2>2, NodeFound
    <3>2. PICK v \in BOOLEAN : v = (core.pc = "pause")
      OBVIOUS
    <3>3. PICK M : M = ra_list'
      OBVIOUS
    <3>4. M = SetP(L, core.i, k, v)
      BY <1>6, <1>7, <2>2, <3>2, <3>3 DEF PauseClient, SetP
    <3>5. /\ M \in Lists /\ SameQueues(L, M)
          /\ \A a \in Acs : \A j \in DOMAIN M[a] : j \in DOMAIN L[a]
               /\ M[a][j].tx_pause = IF a = core.i /\ j = k THEN v ELSE L[a][j].tx_pause
      BY <1>3, <3>1, <3>4, PauseIs
    <3>6. ASSUME NEW a \in Acs, MaySend(M, a), core.pc # "resume" PROVE MaySend(L, a)
      <4>1. PICK j \in DOMAIN M[a] : Q(M, a, j) # <<>> /\ ~M[a][j].tx_pause
        BY <3>6 DEF MaySend, Q
      <4>2. v = TRUE
        BY <1>2, <3>2, <3>6
      <4>3. j \in DOMAIN L[a] /\ ~L[a][j].tx_pause
        BY <3>5, <4>1, <4>2
      <4>4. Q(L, a, j) # <<>>
        BY <3>5, <4>1 DEF SameQueues
      <4> QED
        BY <4>3, <4>4 DEF MaySend, Q
    <3> QED
      BY <1>6, <3>3, <3>5, <3>6
  <2> QED
    BY <2>1, <2>2
<1> QED
  BY <1>1, <1>2, <1>4, <1>5, <1>8, DriverStep

LEMMA DelKeeps ==
  ASSUME WmmInv, wlan_ralist_del_enh
  PROVE  WmmInv'
<1>1. TypeInv /\ SndInv /\ ListInv /\ OrderInv /\ RoundInv
  BY Parts
<1>2. /\ drv.pc \in {"assoc", "gone"} /\ UNCHANGED <<priv, snd, tx, core, notified, pkt>>
      /\ drv' = IF drv.i < MAX_AC_QUEUES - 1 THEN [drv EXCEPT !.i = @ + 1]
                ELSE IF drv.pc = "assoc" THEN [drv EXCEPT !.pc = "add", !.i = 0] ELSE NoEvent
  BY DEF wlan_ralist_del_enh
<1>3. drv.i \in Acs /\ (drv.i < MAX_AC_QUEUES - 1 <=> drv.i # MAX_AC_QUEUES - 1)
  BY <1>1, DrvNow, WmmAssumption DEF Acs
<1>4. drv' \in DrvType
  BY <1>1, <1>2, <1>3, DrvNow
<1>5. Coming => Coming'
  BY <1>2 DEF Coming
<1>6. PICK k : k = wlan_wmm_get_ralist_node(drv.i, drv.ra)
  OBVIOUS
<1>7. CASE k = 0
  <2>1. UNCHANGED <<free, ra_list, pkts_queued>>
    BY <1>6, <1>7 DEF wlan_ralist_del_enh
  <2>2. /\ priv' \in [tx_pause : BOOLEAN, media_connected : BOOLEAN] /\ notified' \in BOOLEAN
        /\ ra_list' \in Lists /\ core' \in CoreType
    BY <1>1, <1>2, <2>1 DEF TypeInv
  <2> QED
    BY <1>1, <1>2, <1>4, <1>5, <2>1, <2>2, Sends, DriverStep
<1>8. CASE k # 0
  <2>1. k \in DOMAIN ra_list[drv.i] /\ ra_list \in Lists
    BY <1>1, <1>3, <1>6, <1>8, NodeFound DEF TypeInv
  <2>2. PICK D : D = Freed(ra_list, drv.i, k)
    OBVIOUS
  <2>3. /\ ra_list' = DelAt(ra_list, drv.i, k) /\ free' = free \cup D
        /\ pkts_queued' = [pkts_queued EXCEPT ![drv.i] = @ - Len(Q(ra_list, drv.i, k))]
    BY <1>6, <1>8, <2>2 DEF wlan_ralist_del_enh, DelAt, Freed, Q
  <2>4. D \subseteq BufsOf(ra_list, drv.i) /\ D \subseteq Bufs
    <3>1. PICK L \in Lists : L = ra_list
      BY <2>1
    <3>2. k \in DOMAIN L[drv.i] /\ Distinct(L) /\ Ordered(L) /\ D = Freed(L, drv.i, k)
      BY <1>1, <2>1, <2>2, <3>1 DEF ListInv, BufInv
    <3>3. PICK M : M = DelAt(L, drv.i, k)
      OBVIOUS
    <3>4. D \subseteq BufsOf(L, drv.i)
      BY <1>3, <3>2, <3>3, DelIs
    <3> QED
      BY <3>1, <3>4 DEF BufsOf
  <2>5. snd'.buf \notin free'
    <3>1. snd.buf \notin free /\ snd.buf \notin D
      BY <1>1, <1>3, <2>4 DEF ListInv, BufInv
    <3> QED
      BY <1>2, <2>3, <3>1
  <2>6. \A b \in Bufs : Spare(b)' <=> Spare(b) \/ b \in Freed(ra_list, drv.i, k)
    BY <1>2, <2>2, <2>3 DEF Spare
  <2>7. /\ ListInv' /\ \A n : Below(ra_list, n) => Below(ra_list', n)
        /\ ra_list' \in Lists /\ pkts_queued' \in [Acs -> Int]
        /\ OldNodes(ra_list, ra_list')
    BY <1>1, <1>3, <2>1, <2>3, <2>5, <2>6, DelListInv
  <2>8. TypeInv'
    <3>1. free' \subseteq Bufs
      BY <1>1, <2>3, <2>4 DEF TypeInv
    <3> QED
      BY <1>1, <1>2, <1>4, <2>7, <3>1 DEF TypeInv
  <2>9. SndInv'
    BY <1>1, <1>2 DEF SndInv
  <2>10. OrderInv'
    <3>1. Ordered(ra_list') /\ pkt' = pkt
          /\ (snd'.pc \in {"idle", "notify"} \/ snd.pc \notin {"idle", "notify"})
      BY <1>2, <2>7 DEF ListInv
    <3> QED
      BY <1>1, <2>7, <3>1, OrderKept
  <2>11. RoundInv'
    <3>1. \A a \in Acs : MaySend(ra_list', a) => MaySend(ra_list, a)
      BY <2>7, OldSends
    <3> QED
      BY <1>1, <1>2, <1>5, <3>1, RoundKept
  <2> QED
    BY <2>7, <2>8, <2>9, <2>10, <2>11 DEF WmmInv, ListInv
<1> QED
  BY <1>7, <1>8
-----------------------------------------------------------------------------
(* The steps of wifi_driver_tx() *)

\* What may be sent is a buffer in a queue.
LEMMA SendsBuffer ==
  ASSUME NEW L \in Lists, NEW a \in Acs, MaySend(L, a)
  PROVE  BufsOf(L, a) # {}
<1>1. PICK k \in DOMAIN L[a] : Q(L, a, k) # <<>>
  BY DEF MaySend, Q
<1> QED
  BY <1>1, HeadIs

LEMMA DriverTxKeeps ==
  ASSUME WmmInv, NEW awake \in BOOLEAN, wifi_driver_tx(awake)
  PROVE  WmmInv'
<1>1. TypeInv /\ BufInv
  BY DEF WmmInv
<1>2. notified' = FALSE /\ UNCHANGED <<lists, priv, snd, drv, core, pkt>>
  BY DEF wifi_driver_tx
<1>3. tx \in TxType
  BY <1>1 DEF TypeInv
<1>4. CASE tx' = [tx EXCEPT !.left = "card"] \/ tx' = [tx EXCEPT !.left = "link"]
  <2>1. tx' \in TxType /\ tx'.left # "nothing"
    BY <1>3, <1>4 DEF TxType
  <2> QED
    BY <1>2, <2>1, TxStep
<1>5. CASE tx' = NoTx /\ (free = Bufs \/ priv.tx_pause)
  <2>1. tx' \in TxType
    BY <1>5, Numbers DEF NoTx, TxType
  <2>2. ASSUME NEW a \in Acs, MaySend(ra_list, a), ~priv.tx_pause PROVE FALSE
    <3>1. BufsOf(ra_list, a) # {} /\ free = Bufs
      BY <1>1, <1>5, <2>2, SendsBuffer DEF TypeInv
    <3>2. PICK b \in Bufs : b \in BufsOf(ra_list, a)
      BY <3>1 DEF BufsOf
    <3>3. b \notin free
      BY <1>1, <3>2 DEF BufInv
    <3> QED
      BY <3>1, <3>3
  <2> QED
    BY <1>2, <2>1, <2>2, TxStep
<1>6. CASE tx' = [pc |-> "round", ac |-> MAX_AC_QUEUES - 1, left |-> "nothing"]
  <2>1. tx' \in TxType
    BY <1>6, Numbers DEF TxType
  <2>2. \A a \in Acs : Ahead(a)'
    <3>1. tx'.pc # "idle" /\ tx'.ac = MAX_AC_QUEUES - 1
      BY <1>6
    <3>2. \A a \in Acs : a <= MAX_AC_QUEUES - 1
      BY WmmAssumption DEF Acs
    <3> QED
      BY <3>1, <3>2 DEF Ahead
  <2> QED
    BY <1>2, <2>1, <2>2, TxStep
<1> QED
  BY <1>4, <1>5, <1>6 DEF wifi_driver_tx

\* wifi_driver_tx() leaves a category in which nothing may be sent.
LEMMA NextAcKeeps ==
  ASSUME WmmInv, tx.pc # "idle", tx' = NextAc, ~MaySend(ra_list, tx.ac),
         UNCHANGED <<lists, priv, snd, drv, core, notified, pkt>>
  PROVE  WmmInv'
<1>1. TypeInv /\ RoundInv
  BY DEF WmmInv
<1>2. tx \in TxType /\ tx.ac \in Acs /\ notified' \in BOOLEAN
  BY <1>1 DEF TypeInv, TxType
<1>3. Coming => Coming'
  BY DEF Coming
<1>4. CASE tx.ac = 0
  <2>1. tx' = [NoTx EXCEPT !.left = tx.left]
    BY <1>4 DEF NextAc
  <2>2. tx' \in TxType /\ tx'.left = tx.left
    BY <1>2, <2>1, Numbers DEF NoTx, TxType
  <2>3. ASSUME NEW a \in Acs, MaySend(ra_list, a), ~priv.tx_pause, tx'.left = "nothing", ~Coming'
        PROVE  FALSE
    <3>1. Ahead(a)
      BY <1>1, <1>3, <2>2, <2>3, RoundIs
    <3>2. a = 0
      BY <1>4, <3>1, Numbers DEF Ahead
    <3> QED
      BY <1>4, <2>3, <3>2
  <2> QED
    BY <1>2, <2>2, <2>3, TxStep
<1>5. CASE tx.ac # 0
  <2>1. tx' = [tx EXCEPT !.pc = "round", !.ac = @ - 1]
    BY <1>5 DEF NextAc
  <2>2. tx.ac - 1 \in Acs
    BY <1>2, <1>5, Numbers
  <2>3. tx' \in TxType /\ tx'.left = tx.left /\ tx'.pc = "round" /\ tx'.ac = tx.ac - 1
    BY <1>2, <2>1, <2>2 DEF TxType
  <2>4. ASSUME NEW a \in Acs, MaySend(ra_list, a), ~priv.tx_pause, tx'.left = "nothing", ~Coming'
        PROVE  Ahead(a)'
    <3>1. Ahead(a)
      BY <1>1, <1>3, <2>3, <2>4, RoundIs
    <3>2. a <= tx.ac /\ a # tx.ac
      BY <2>4, <3>1 DEF Ahead
    <3>3. a \in Nat /\ tx.ac \in Nat
      BY <1>2, Numbers
    <3>4. a <= tx.ac - 1
      BY <3>2, <3>3
    <3> QED
      BY <2>3, <3>4 DEF Ahead
  <2> QED
    BY <1>2, <2>3, <2>4, TxStep
<1> QED
  BY <1>4, <1>5

LEMMA TakeAcKeeps ==
  ASSUME WmmInv, TakeAc
  PROVE  WmmInv'
<1>1. TypeInv /\ CountInv /\ RoundInv
  BY DEF WmmInv
<1>2. tx.pc = "round" /\ UNCHANGED <<lists, priv, snd, drv, core, notified, pkt>>
  BY DEF TakeAc
<1>3. tx \in TxType /\ tx.ac \in Acs /\ notified' \in BOOLEAN
  BY <1>1, <1>2 DEF TypeInv, TxType
<1>4. CASE pkts_queued[tx.ac] = 0
  <2>1. PICK S : S = BufsOf(ra_list, tx.ac)
    OBVIOUS
  <2>2. IsFiniteSet(S) /\ Cardinality(S) = 0
    BY <1>1, <1>3, <1>4, <2>1, FiniteBufs DEF CountInv
  <2>3. S = {}
    BY <2>2, FS_EmptySet
  <2>4. ~MaySend(ra_list, tx.ac)
    BY <1>1, <1>3, <2>1, <2>3, SendsBuffer DEF TypeInv
  <2>5. tx' = NextAc
    BY <1>4 DEF TakeAc
  <2> QED
    BY <1>2, <2>4, <2>5, NextAcKeeps
<1>5. CASE pkts_queued[tx.ac] # 0
  <2>1. tx' = [tx EXCEPT !.pc = "xmit"]
    BY <1>5 DEF TakeAc
  <2>2. tx' \in TxType /\ tx'.left = tx.left /\ tx'.pc = "xmit" /\ tx'.ac = tx.ac
    BY <1>3, <2>1 DEF TxType
  <2>3. Coming => Coming'
    BY <1>2 DEF Coming
  <2>4. ASSUME NEW a \in Acs, MaySend(ra_list, a), ~priv.tx_pause, tx'.left = "nothing"
        PROVE  Coming' \/ Ahead(a)'
    <3>1. Coming \/ Ahead(a)
      BY <1>1, <2>2, <2>4, RoundIs
    <3>2. Ahead(a) => Ahead(a)'
      BY <2>2 DEF Ahead
    <3> QED
      BY <2>3, <3>1, <3>2
  <2> QED
    BY <1>2, <1>3, <2>2, <2>4, TxStep
<1> QED
  BY <1>4, <1>5

LEMMA AcDoneKeeps ==
  ASSUME WmmInv, AcDone
  PROVE  WmmInv'
<1>1. TypeInv
  BY DEF WmmInv
<1>2. tx.pc = "xmit" /\ NextNode = 0 /\ tx' = NextAc
      /\ UNCHANGED <<lists, priv, snd, drv, core, notified, pkt>>
  BY DEF AcDone
<1>3. ~MaySend(ra_list, tx.ac)
  BY <1>1, <1>2, NextNodeIs DEF MaySend, Sendable
<1> QED
  BY <1>2, <1>3, NextAcKeeps

LEMMA XmitKeeps ==
  ASSUME WmmInv, NEW ok \in BOOLEAN, wifi_xmit_pkts(ok)
  PROVE  WmmInv'
<1>1. TypeInv /\ SndInv /\ ListInv /\ OrderInv /\ RoundInv
  BY Parts
<1>2. tx.pc = "xmit" /\ NextNode # 0 /\ UNCHANGED <<priv, snd, drv, core, notified, pkt>>
  BY DEF wifi_xmit_pkts
<1>3. tx \in TxType /\ tx.ac \in Acs /\ notified' \in BOOLEAN
  BY <1>1, <1>2 DEF TypeInv, TxType
<1>4. CASE ~ok
  <2>1. tx' = [NoTx EXCEPT !.left = "card"] /\ UNCHANGED lists
    BY <1>4 DEF wifi_xmit_pkts
  <2>2. tx' \in TxType /\ tx'.left # "nothing"
    BY <2>1, Numbers DEF NoTx, TxType
  <2> QED
    BY <1>2, <1>3, <2>1, <2>2, TxStep
<1>5. CASE ok
  <2>1. PICK k : k = NextNode
    OBVIOUS
  <2>2. k \in DOMAIN ra_list[tx.ac] /\ Q(ra_list, tx.ac, k) # <<>> /\ ra_list \in Lists
    BY <1>1, <1>2, <2>1, NextNodeIs DEF TypeInv
  <2>3. PICK h : h = Head(Q(ra_list, tx.ac, k))[1]
    OBVIOUS
  <2>4. h \in Bufs /\ h \in BufsOf(ra_list, tx.ac)
    BY <1>3, <2>2, <2>3, HeadIs
  <2>5. /\ ra_list' = SetQ(ra_list, tx.ac, k, Tail(Q(ra_list, tx.ac, k)))
        /\ free' = free \cup {h} /\ tx' = tx
        /\ pkts_queued' = [pkts_queued EXCEPT ![tx.ac] = @ - 1]
    BY <1>5, <2>1, <2>3 DEF wifi_xmit_pkts, SetQ, Q
  <2>6. snd'.buf \notin free' /\ \A b \in Bufs : Spare(b)' <=> Spare(b) \/ b = h
    <3>1. snd.buf \notin free /\ snd.buf # h
      BY <1>1, <1>3, <2>4 DEF ListInv, BufInv
    <3> QED
      BY <1>2, <2>5, <3>1 DEF Spare
  <2>7. /\ ListInv' /\ \A n : Below(ra_list, n) => Below(ra_list', n)
        /\ ra_list' \in Lists /\ pkts_queued' \in [Acs -> Int]
    BY <1>1, <1>3, <2>2, <2>3, <2>5, <2>6, PopListInv
  <2>8. TypeInv'
    <3>1. free' \subseteq Bufs
      BY <1>1, <2>4, <2>5 DEF TypeInv
    <3> QED
      BY <1>1, <1>2, <2>5, <2>7, <3>1 DEF TypeInv
  <2>9. SndInv'
    BY <1>1, <1>2 DEF SndInv
  <2>10. OrderInv'
    <3>1. Ordered(ra_list') /\ pkt' = pkt
          /\ (snd'.pc \in {"idle", "notify"} \/ snd.pc \notin {"idle", "notify"})
      BY <1>2, <2>7 DEF ListInv
    <3> QED
      BY <1>1, <2>7, <3>1, OrderKept
  <2>11. RoundInv'
    <3>1. \A a \in Acs : MaySend(ra_list', a) => MaySend(ra_list, a)
      BY <1>3, <2>2, <2>5, PopSends
    <3>2. Coming => Coming'
      BY <1>2 DEF Coming
    <3> QED
      BY <1>1, <1>2, <2>5, <3>1, <3>2, RoundKept
  <2> QED
    BY <2>7, <2>8, <2>9, <2>10, <2>11 DEF WmmInv, ListInv
<1> QED
  BY <1>4, <1>5
-----------------------------------------------------------------------------
(* The invariant *)

LEMMA WmmInit ==
  ASSUME Init PROVE WmmInv
<1>1. /\ free = Bufs /\ pkt = 0 /\ snd = Idle /\ drv = NoEvent /\ core = NoEvent
      /\ tx = NoTx /\ notified = FALSE
      /\ ra_list = [ac \in Acs |-> <<>>] /\ pkts_queued = [ac \in Acs |-> 0]
      /\ priv = [tx_pause |-> FALSE, media_connected |-> FALSE]
  BY DEF Init
<1>2. ra_list \in Lists /\ \A a \in Acs : DOMAIN ra_list[a] = {}
  BY <1>1 DEF Lists
<1>3. TypeInv
  <2>1. snd \in SndType
    BY <1>1, IdleIs
  <2>2. tx \in TxType /\ drv \in DrvType /\ core \in CoreType
    BY <1>1, Numbers DEF NoTx, TxType, NoEvent, DrvType, CoreType
  <2>3. pkt \in 0 .. MaxPkts /\ pkts_queued \in [Acs -> Int]
    BY <1>1, Numbers
  <2> QED
    BY <1>1, <1>2, <2>1, <2>2, <2>3 DEF TypeInv
<1>4. SndInv
  BY <1>1, IdleIs DEF SndInv
<1>5. \A a \in Acs : BufsOf(ra_list, a) = {}
  BY <1>2 DEF BufsOf, Holds
<1>6. BufInv
  BY <1>1, <1>2, <1>5, IdleIs, Numbers DEF BufInv, Distinct
<1>7. CountInv
  BY <1>1, <1>5, FS_EmptySet DEF CountInv
<1>8. OrderInv
  BY <1>2 DEF OrderInv, Ordered, Below
<1>9. RoundInv
  BY <1>2 DEF RoundInv
<1> QED
  BY <1>3, <1>4, <1>6, <1>7, <1>8, <1>9 DEF WmmInv

LEMMA WmmStep ==
  ASSUME WmmInv, [Next]_vars PROVE WmmInv'
<1>1. CASE UNCHANGED vars
  <2>1. UNCHANGED <<free, ra_list, pkts_queued, priv, snd, tx, drv, core, notified, pkt>>
    BY <1>1 DEF vars
  <2>2. TypeInv' /\ SndInv' /\ BufInv' /\ CountInv' /\ OrderInv'
    BY <2>1 DEF WmmInv, TypeInv, SndInv, BufInv, CountInv, OrderInv
  <2>3. RoundInv'
    BY <2>1 DEF WmmInv, RoundInv, Sendable, Coming, Ahead
  <2> QED
    BY <2>2, <2>3 DEF WmmInv
<1>2. CASE Output
  <2>1. Clients \subseteq RAs /\ Bcast \in RAs
    BY DEF RAs
  <2> QED
    BY <1>2, <2>1, LowLevelOutputKeeps DEF Output
<1>3. CASE Sender
  BY <1>3, BufGetKeeps, StealKeeps, RetryKeeps, WifiOutputKeeps, EnqueueKeeps, NotifyKeeps,
     SenderAddsKeeps DEF Sender
<1>4. CASE Transmitter
  BY <1>4, TakeAcKeeps, AcDoneKeeps, DriverTxKeeps, XmitKeeps DEF Transmitter
<1>5. CASE Driver
  BY <1>5, DelKeeps, DriverAddsKeeps DEF Driver
<1>6. CASE Core
  BY <1>6, PauseClientKeeps DEF Core
<1>7. CASE Firmware
  BY <1>7, EventKeeps, DataPauseKeeps, PauseInterfaceKeeps, BssActiveKeeps DEF Firmware
<1> QED
  BY <1>1, <1>2, <1>3, <1>4, <1>5, <1>6, <1>7 DEF Next

\* The inductive invariant: types, the sender's buffer, every buffer in one place, the counts,
\* the order of the packets and the round of wifi_driver_tx().
THEOREM WmmInvInvariant == Spec => []WmmInv
BY WmmInit, WmmStep, PTL DEF Spec
-----------------------------------------------------------------------------
(* What the invariant says *)

\* The places of a category and the buffers in them.
LEMMA PlacesAre ==
  ASSUME TypeInv, NEW a \in Acs
  PROVE  /\ \A p \in Places(a) : /\ p = <<p[1], p[2]>> /\ p[1] \in DOMAIN ra_list[a]
                                 /\ p[2] \in DOMAIN Q(ra_list, a, p[1])
                                 /\ BufAt(a, p) = Q(ra_list, a, p[1])[p[2]][1]
         /\ \A k \in DOMAIN ra_list[a] : \A i \in DOMAIN Q(ra_list, a, k) : <<k, i>> \in Places(a)
         /\ {BufAt(a, p) : p \in Places(a)} = BufsOf(ra_list, a)
<1>1. \A p \in Places(a) : /\ p = <<p[1], p[2]>> /\ p[1] \in DOMAIN ra_list[a]
                           /\ p[2] \in DOMAIN Q(ra_list, a, p[1])
  BY DEF Places, Q
<1>2. \A p : BufAt(a, p) = Q(ra_list, a, p[1])[p[2]][1]
  BY DEF BufAt, Q
<1>3. \A k \in DOMAIN ra_list[a] : \A i \in DOMAIN Q(ra_list, a, k) : <<k, i>> \in Places(a)
  BY DEF Places, Q
<1>4. ASSUME NEW p \in Places(a) PROVE BufAt(a, p) \in BufsOf(ra_list, a)
  <2>1. BufAt(a, p) \in Bufs
    BY <1>1, <1>2, NodeIs DEF TypeInv
  <2> QED
    BY <1>1, <1>2, <2>1 DEF BufsOf, Holds
<1>5. ASSUME NEW b \in BufsOf(ra_list, a) PROVE \E p \in Places(a) : BufAt(a, p) = b
  <2>1. PICK k \in DOMAIN ra_list[a] :
          \E i \in DOMAIN Q(ra_list, a, k) : Q(ra_list, a, k)[i][1] = b
    BY DEF BufsOf, Holds
  <2>2. PICK i \in DOMAIN Q(ra_list, a, k) : Q(ra_list, a, k)[i][1] = b
    BY <2>1
  <2>3. PICK p : p = <<k, i>>
    OBVIOUS
  <2>4. p \in Places(a) /\ p[1] = k /\ p[2] = i
    BY <1>3, <2>3
  <2> QED
    BY <1>2, <2>2, <2>4
<1> QED
  BY <1>1, <1>2, <1>3, <1>4, <1>5

LEMMA PlacesDiffer ==
  ASSUME TypeInv, Distinct(ra_list), NEW a \in Acs, NEW b \in Acs,
         NEW p \in Places(a), NEW q \in Places(b), BufAt(a, p) = BufAt(b, q)
  PROVE  a = b /\ p = q
<1>1. /\ p = <<p[1], p[2]>> /\ p[1] \in DOMAIN ra_list[a] /\ p[2] \in DOMAIN Q(ra_list, a, p[1])
      /\ BufAt(a, p) = Q(ra_list, a, p[1])[p[2]][1]
  BY PlacesAre
<1>2. /\ q = <<q[1], q[2]>> /\ q[1] \in DOMAIN ra_list[b] /\ q[2] \in DOMAIN Q(ra_list, b, q[1])
      /\ BufAt(b, q) = Q(ra_list, b, q[1])[q[2]][1]
  BY PlacesAre
<1>3. a = b /\ p[1] = q[1] /\ p[2] = q[2]
  <2>1. PICK k \in DOMAIN ra_list[a] : k = p[1]
    BY <1>1
  <2>2. PICK l \in DOMAIN ra_list[b] : l = q[1]
    BY <1>2
  <2>3. PICK i \in DOMAIN Q(ra_list, a, k) : i = p[2]
    BY <1>1, <2>1
  <2>4. PICK j \in DOMAIN Q(ra_list, b, l) : j = q[2]
    BY <1>2, <2>2
  <2>5. Q(ra_list, a, k)[i][1] = Q(ra_list, b, l)[j][1]
    BY <1>1, <1>2, <2>1, <2>2, <2>3, <2>4
  <2>6. a = b /\ k = l /\ i = j
    BY <2>5 DEF Distinct
  <2> QED
    BY <2>1, <2>2, <2>3, <2>4, <2>6
<1> QED
  BY <1>1, <1>2, <1>3

LEMMA PlacesCount ==
  ASSUME TypeInv, Distinct(ra_list), NEW a \in Acs
  PROVE  Cardinality(Places(a)) = Cardinality(BufsOf(ra_list, a))
<1>1. PICK P : P = Places(a)
  OBVIOUS
<1>2. PICK B : B = BufsOf(ra_list, a)
  OBVIOUS
<1>3. PICK f : f = [p \in P |-> BufAt(a, p)]
  OBVIOUS
<1>4. {BufAt(a, p) : p \in P} = B
  BY <1>1, <1>2, PlacesAre
<1>5. f \in [P -> B] /\ \A b \in B : \E p \in P : f[p] = b
  BY <1>3, <1>4
<1>6. \A p, q \in P : f[p] = f[q] => p = q
  BY <1>1, <1>3, PlacesDiffer
<1>7. f \in Bijection(P, B)
  BY <1>5, <1>6 DEF Bijection, Injection, Surjection, IsInjective
<1>8. IsFiniteSet(B)
  BY <1>2, FiniteBufs
<1>9. ExistsBijection(B, P)
  BY <1>7, Fun_ExistsBijSymmetric DEF ExistsBijection
<1> QED
  BY <1>1, <1>2, <1>8, <1>9, FS_Bijection

\* Types: the pool holds buffers of the driver only, and a category counts no more packets than
\* there are buffers, however the sender, the driver and wifi_driver_tx() are interleaved.
THEOREM TypeCorrect == Spec => []TypeOK
<1>1. ASSUME WmmInv PROVE TypeOK
  <2>1. TypeInv /\ CountInv
    BY <1>1 DEF WmmInv
  <2>2. pkts_queued \in [Acs -> 0 .. MAX_WMM_BUF_NUM]
    <3>1. \A a \in Acs : pkts_queued[a] \in 0 .. MAX_WMM_BUF_NUM
      BY <2>1, FiniteBufs DEF CountInv
    <3> QED
      BY <2>1, <3>1 DEF TypeInv
  <2> QED
    BY <2>1, <2>2 DEF TypeInv, TypeOK, SndType, SndPc, TxType, DrvType, CoreType, Lists
<1> QED
  BY <1>1, WmmInvInvariant, PTL

\* No buffer is lost and none is in two places: each is free, in one queue or the sender's, over
\* stealing, dropping, refusals by the card and clients that go with packets queued.
THEOREM NoBufferLost == Spec => []BuffersConserved
<1>1. ASSUME WmmInv PROVE BuffersConserved
  <2>1. TypeInv /\ BufInv /\ Distinct(ra_list)
    BY <1>1 DEF WmmInv, BufInv
  <2>2. PICK All : All = UNION {{ac} \X Places(ac) : ac \in Acs}
    OBVIOUS
  <2>3. \A x \in All : x = <<x[1], x[2]>> /\ x[1] \in Acs /\ x[2] \in Places(x[1])
    BY <2>2
  <2>4. \A ac \in Acs : {BufAt(ac, p) : p \in Places(ac)} = BufsOf(ra_list, ac)
    BY <2>1, PlacesAre
  <2>5. ASSUME NEW b \in Bufs
        PROVE  Cardinality({x \in All : BufAt(x[1], x[2]) = b})
                 = IF b \in free \/ b = snd.buf THEN 0 ELSE 1
    <3>1. PICK S : S = {x \in All : BufAt(x[1], x[2]) = b}
      OBVIOUS
    <3>2. CASE b \in free \/ b = snd.buf
      <4>1. \A ac \in Acs : b \notin BufsOf(ra_list, ac)
        BY <2>1, <3>2 DEF BufInv
      <4>2. S = {}
        BY <2>3, <2>4, <3>1, <4>1
      <4> QED
        BY <3>1, <3>2, <4>2, FS_EmptySet
    <3>3. CASE ~(b \in free \/ b = snd.buf)
      <4>1. PICK ac \in Acs : b \in BufsOf(ra_list, ac)
        BY <2>1, <3>3 DEF BufInv
      <4>2. PICK p \in Places(ac) : BufAt(ac, p) = b
        BY <2>4, <4>1
      <4>3. PICK y : y = <<ac, p>>
        OBVIOUS
      <4>4. y \in All /\ y[1] = ac /\ y[2] = p
        BY <2>2, <4>3
      <4>5. \A x \in S : x = y
        BY <2>1, <2>3, <3>1, <4>2, <4>3, PlacesDiffer
      <4>6. S = {y}
        BY <3>1, <4>2, <4>4, <4>5
      <4> QED
        BY <3>1, <3>3, <4>6, FS_Singleton
    <3> QED
      BY <3>2, <3>3
  <2> QED
    BY <2>1, <2>2, <2>5 DEF BuffersConserved, BufInv
<1> QED
  BY <1>1, WmmInvInvariant, PTL

\* pkts_queued of a category is the number of packets in its queues.
THEOREM CountsExact == Spec => []PacketsCounted
<1>1. ASSUME WmmInv PROVE PacketsCounted
  <2>1. TypeInv /\ CountInv /\ Distinct(ra_list)
    BY <1>1 DEF WmmInv, BufInv
  <2> QED
    BY <2>1, PlacesCount DEF PacketsCounted, CountInv
<1> QED
  BY <1>1, WmmInvInvariant, PTL

\* Packets to one address in one category are queued, and so leave, in the order lwIP sent them.
THEOREM InOrder == Spec => []QueuesInOrder
<1>1. ASSUME WmmInv PROVE QueuesInOrder
  BY <1>1 DEF WmmInv, OrderInv, Ordered, QueuesInOrder, Q
<1> QED
  BY <1>1, WmmInvInvariant, PTL

\* No packet that may go is forgotten while wifi_driver_tx() sleeps without a notification, unless
\* its last round ended for want of a port or of a link.
THEOREM NoneForgotten == Spec => []NotForgotten
<1>1. ASSUME WmmInv PROVE NotForgotten
  BY <1>1 DEF WmmInv, RoundInv, Sendable, Coming, Ahead, NotForgotten
<1> QED
  BY <1>1, WmmInvInvariant, PTL
=============================================================================
