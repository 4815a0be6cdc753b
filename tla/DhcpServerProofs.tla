-------------------------- MODULE DhcpServerProofs --------------------------
(***************************************************************************)
(* Proofs about the DHCP server, for any clients, table and subnet: the    *)
(* sockets outlive the message that uses them, the table is respected, and *)
(* the server implements the pool of addresses.                            *)
(*                                                                         *)
(* The argument: no client and no address is in the table twice, so a look *)
(* up has one answer; an acknowledgement that is being prepared fits the   *)
(* table (JobInv), and what clients were told does (ToldInv), as long as a *)
(* message names one address.  Only a full table leaves a client without   *)
(* an entry, and then it stays full.                                       *)
(***************************************************************************)
EXTENDS DhcpServer, FiniteSetTheorems, TLAPS

Entry == [mac : Clients, ip : Subnet]
Known(m) == \E i \in DOMAIN mapping : mapping[i].mac = m
HostAddr == Subnet \ {MyIp, 0, Size - 1}

\* The table has no client and no address twice, and only addresses that may be given out.
TableInv ==
  /\ mapping \in Seq(Entry) /\ Len(mapping) <= MAC_IP_CACHE_SIZE
  /\ \A i, j \in DOMAIN mapping :
       mapping[i].mac = mapping[j].mac \/ mapping[i].ip = mapping[j].ip => i = j
  /\ \A i \in DOMAIN mapping : mapping[i].ip \in HostAddr

\* ac_lookup_mac() in the table q.
LookupIn(q, m) ==
  LET Is(i) == q[i].mac = m
  IN IF \E i \in DOMAIN q : Is(i)
       THEN q[CHOOSE i \in DOMAIN q : Is(i) /\ \A j \in 1 .. i - 1 : ~Is(j)].ip
       ELSE NoAddr

\* An address may be acknowledged to a client: it has it in the table q, or the table is full
\* and nobody has it.
FitsIn(q, m, a) ==
  /\ a \in HostAddr
  /\ IF \E i \in DOMAIN q : q[i].mac = m THEN LookupIn(q, m) = a
     ELSE ~(Len(q) < MAC_IP_CACHE_SIZE) /\ ~\E i \in DOMAIN q : q[i].ip = a
Fits(m, a) == FitsIn(mapping, m, a)

JobType == [mac : Clients, ciaddr : Addr, opts : Seq(Option),
            client_ip : Addr, need_ip : BOOLEAN, got_ip : BOOLEAN,
            response : {"NONE", "OFFER", "ACK", "NAK"}, one : BOOLEAN]

JobInv ==
  /\ job \in JobType
  /\ job.one /\ job.got_ip => Fits(job.mac, job.client_ip)
  /\ job.response = "ACK" => job.need_ip /\ job.got_ip
  /\ pc = "yiaddr" => job.response = "OFFER" /\ ~Known(job.mac)

\* Who was told an address after naming only one is in the table with it, or the table is full.
ToldInv ==
  /\ told \in [Clients -> Addr] /\ several \subseteq Clients
  /\ \A m \in Clients \ several : told[m] # NoAddr => Fits(m, told[m])

\* What the server has promised, as the pool sees it.
Promised == [m \in Clients |-> IF m \in several THEN NoAddr ELSE told[m]]

\* The socket a message came by is open as long as the thread holds the mutex.
LifeInv ==
  /\ ~running => pc = "none" /\ sock # "open" /\ app = "idle" /\ mutex # "thread"
  /\ mutex = "none" => sock # "open"
  /\ app = "sleep" => mutex = "none"
  /\ pc \in {"option", "yiaddr", "respond"} => sock = "open"
  /\ pc \in {"loop", "option", "yiaddr", "respond"} /\ sock = "open" => mutex = "thread"

LifeType ==
  /\ current_ip \in Subnet
  /\ pc \in {"none", "new", "lock", "loop", "option", "yiaddr", "respond", "complete"}
  /\ sock \in {"closed", "open", "leaked"} /\ ctrl \in {"closed", "bound", "leaked"}
  /\ halt \in BOOLEAN /\ mutex \in {"none", "free", "thread"}
  /\ running \in BOOLEAN /\ app \in {"idle", "free", "sleep"}

NetInv == TableInv /\ JobInv /\ ToldInv

DhcpInv == LifeType /\ LifeInv /\ NetInv
-----------------------------------------------------------------------------
(* The table *)

LEMMA Constants ==
  /\ NoAddr \notin Subnet /\ NoAddr # Outside /\ NoAddr \notin HostAddr
  /\ HostAddr \subseteq Subnet
  /\ Subnet \subseteq Addr /\ Outside \in Addr /\ NoAddr \in Addr /\ Outside \notin Subnet
  /\ 0 \in Subnet
BY DhcpServerAssumption DEF NoAddr, Subnet, Outside, HostAddr, Addr

LEMMA LookupOne ==
  ASSUME NEW q \in Seq(Entry), NEW i \in DOMAIN q,
         \A j \in DOMAIN q : q[j].mac = q[i].mac => j = i
  PROVE  LookupIn(q, q[i].mac) = q[i].ip
<1> DEFINE m == q[i].mac
           First(k) == q[k].mac = m /\ \A j \in 1 .. k - 1 : ~(q[j].mac = m)
           c == CHOOSE k \in DOMAIN q : First(k)
<1>1. First(i)
  OBVIOUS
<1>2. c \in DOMAIN q /\ First(c)
  BY <1>1
<1>3. c = i
  BY <1>2
<1>4. LookupIn(q, m) = q[c].ip
  BY DEF LookupIn
<1> QED
  BY <1>3, <1>4

LEMMA LookupIs ==
  /\ \A m : ac_lookup_mac(m) = LookupIn(mapping, m)
  /\ \A m : ac_lookup_mac(m)' = LookupIn(mapping', m)
BY DEF ac_lookup_mac, LookupIn

LEMMA FitsIs ==
  ASSUME NEW m, NEW a
  PROVE  /\ Fits(m, a) <=> /\ a \in HostAddr
                           /\ IF Known(m) THEN ac_lookup_mac(m) = a
                              ELSE ~ac_not_full /\ ~ac_lookup_ip(a)
         /\ Fits(m, a)' <=> /\ a \in HostAddr
                            /\ IF Known(m)' THEN ac_lookup_mac(m)' = a
                               ELSE ~ac_not_full' /\ ~ac_lookup_ip(a)'
BY LookupIs DEF Fits, FitsIn, Known, ac_not_full, ac_lookup_ip

LEMMA LookupEntry ==
  ASSUME TableInv, NEW i \in DOMAIN mapping
  PROVE  ac_lookup_mac(mapping[i].mac) = mapping[i].ip
BY LookupOne, LookupIs DEF TableInv

LEMMA LookupUnknown ==
  ASSUME NEW m, ~Known(m)
  PROVE  ac_lookup_mac(m) = NoAddr
BY DEF Known, ac_lookup_mac

LEMMA LookupKnown ==
  ASSUME TableInv, NEW m
  PROVE  /\ Known(m) <=> ac_lookup_mac(m) # NoAddr
         /\ Known(m) => ac_lookup_mac(m) \in HostAddr /\ ac_lookup_ip(ac_lookup_mac(m))
<1>1. CASE Known(m)
  <2>1. PICK i \in DOMAIN mapping : mapping[i].mac = m
    BY <1>1 DEF Known
  <2>2. ac_lookup_mac(m) = mapping[i].ip
    BY <2>1, LookupEntry
  <2> QED
    BY <1>1, <2>1, <2>2, Constants DEF TableInv, ac_lookup_ip
<1>2. CASE ~Known(m)
  BY <1>2, LookupUnknown
<1> QED
  BY <1>1, <1>2

\* Two clients are not found with one address.
LEMMA LookupInjective ==
  ASSUME TableInv, NEW m, NEW n, Known(m), Known(n), ac_lookup_mac(m) = ac_lookup_mac(n)
  PROVE  m = n
<1>1. PICK i \in DOMAIN mapping : mapping[i].mac = m
  BY DEF Known
<1>2. PICK j \in DOMAIN mapping : mapping[j].mac = n
  BY DEF Known
<1>3. mapping[i].ip = mapping[j].ip
  BY <1>1, <1>2, LookupEntry
<1> QED
  BY <1>1, <1>2, <1>3 DEF TableInv

Table == [m \in Clients |-> ac_lookup_mac(m)]

LEMMA SameTable ==
  ASSUME mapping' = mapping
  PROVE  /\ TableInv => TableInv'
         /\ \A x, b : Fits(x, b) <=> Fits(x, b)'
         /\ \A x : Known(x) <=> Known(x)'
         /\ Table' = Table
BY DEF TableInv, Fits, Known, Table, ac_lookup_mac

\* What ac_add() of a new client and a valid address does, full table or not.
LEMMA AddStep ==
  ASSUME TableInv, NEW m \in Clients, NEW a \in Subnet, ~Known(m), ac_valid_ip(a), ac_add(m, a)
  PROVE  /\ TableInv'
         /\ Fits(m, a)'
         /\ \A x, b : Fits(x, b) => Fits(x, b)'
         /\ ~ac_not_full => mapping' = mapping
         /\ ac_not_full => Table' = [Table EXCEPT ![m] = a]
<1>0. a \in HostAddr /\ ~ac_lookup_ip(a)
  BY DEF ac_valid_ip, HostAddr
<1>1. CASE ~ac_not_full
  <2>1. mapping' = mapping
    BY <1>1 DEF ac_add
  <2>2. Fits(m, a)
    BY <1>0, <1>1, FitsIs
  <2> QED
    BY <1>1, <2>1, <2>2, SameTable
<1>2. CASE ac_not_full
  <2> DEFINE e == [mac |-> m, ip |-> a]
             n == Len(mapping)
  <2>1. mapping' = Append(mapping, e) /\ mapping \in Seq(Entry) /\ e \in Entry /\ n \in Nat
    BY <1>2 DEF ac_add, TableInv, Entry
  <2>2. /\ mapping' \in Seq(Entry) /\ Len(mapping') = n + 1
        /\ DOMAIN mapping' = DOMAIN mapping \cup {n + 1} /\ n + 1 \notin DOMAIN mapping
        /\ mapping'[n + 1] = e /\ \A i \in DOMAIN mapping : mapping'[i] = mapping[i]
    BY <2>1
  <2>3. \A i \in DOMAIN mapping : mapping[i].mac # m /\ mapping[i].ip # a
    BY <1>0 DEF Known, ac_lookup_ip
  <2>4. TableInv'
    <3>1. Len(mapping') <= MAC_IP_CACHE_SIZE
      BY <1>2, <2>1, <2>2, DhcpServerAssumption DEF ac_not_full
    <3>2. \A i \in DOMAIN mapping' : mapping'[i].ip \in HostAddr
      BY <1>0, <2>2 DEF TableInv
    <3>3. \A i, j \in DOMAIN mapping' :
            mapping'[i].mac = mapping'[j].mac \/ mapping'[i].ip = mapping'[j].ip => i = j
      BY <2>2, <2>3 DEF TableInv
    <3> QED
      BY <2>2, <3>1, <3>2, <3>3 DEF TableInv
  <2>5. \A x : Known(x)' <=> Known(x) \/ x = m
    BY <2>2 DEF Known
  <2>6. ac_lookup_mac(m)' = a
    <3>1. \A j \in DOMAIN mapping' : mapping'[j].mac = mapping'[n + 1].mac => j = n + 1
      BY <2>2, <2>3
    <3>2. LookupIn(mapping', mapping'[n + 1].mac) = mapping'[n + 1].ip
      BY <2>2, <3>1, LookupOne
    <3> QED
      BY <2>2, <3>2, LookupIs
  <2>7. ASSUME NEW x, Known(x) PROVE ac_lookup_mac(x)' = ac_lookup_mac(x)
    <3>1. PICK i \in DOMAIN mapping : mapping[i].mac = x
      BY <2>7 DEF Known
    <3>2. i \in DOMAIN mapping' /\ mapping'[i] = mapping[i]
      BY <2>2
    <3>3. \A j \in DOMAIN mapping' : mapping'[j].mac = mapping'[i].mac => j = i
      BY <2>4, <3>2 DEF TableInv
    <3>4. LookupIn(mapping', mapping'[i].mac) = mapping'[i].ip
      BY <2>2, <3>2, <3>3, LookupOne
    <3>5. ac_lookup_mac(x) = mapping[i].ip
      BY <3>1, LookupEntry
    <3> QED
      BY <3>1, <3>2, <3>4, <3>5, LookupIs
  <2>8. ASSUME NEW x, ~Known(x), x # m PROVE ac_lookup_mac(x)' = ac_lookup_mac(x)
    <3>1. ~(\E i \in DOMAIN mapping' : mapping'[i].mac = x)
      BY <2>2, <2>8 DEF Known
    <3>2. LookupIn(mapping', x) = NoAddr
      BY <3>1 DEF LookupIn
    <3> QED
      BY <2>8, <3>2, LookupIs, LookupUnknown
  <2>9. Fits(m, a)'
    BY <1>0, <2>5, <2>6, FitsIs
  <2>10. ASSUME NEW x, NEW b, Fits(x, b) PROVE Fits(x, b)'
    <3>1. Known(x) /\ ac_lookup_mac(x) = b /\ b \in HostAddr
      BY <1>2, <2>10, FitsIs
    <3>2. Known(x)' /\ ac_lookup_mac(x)' = b
      BY <2>5, <2>7, <3>1
    <3> QED
      BY <3>1, <3>2, FitsIs
  <2>11. Table' = [Table EXCEPT ![m] = a]
    BY <2>6, <2>7, <2>8 DEF Table
  <2> QED
    BY <1>2, <2>4, <2>9, <2>10, <2>11
<1> QED
  BY <1>1, <1>2
LEMMA PoolCardinality == \A S : Pool!Cardinality(S) = Cardinality(S)
BY Zenon DEF Pool!Cardinality, Cardinality

\* As many clients are bound as the table has entries.
LEMMA BoundSize ==
  ASSUME TableInv
  PROVE  Cardinality(Pool!Bound) = Len(mapping)
<1> DEFINE n == Len(mapping)
           f == [i \in 1 .. n |-> mapping[i].mac]
<1>1. n \in Nat /\ DOMAIN mapping = 1 .. n
  BY DEF TableInv
<1>2. Pool!Bound = {m \in Clients : Known(m)}
  BY LookupKnown DEF Pool!Bound
<1>3. f \in Bijection(1 .. n, Pool!Bound)
  <2>1. f \in [1 .. n -> Pool!Bound]
    <3>1. ASSUME NEW i \in 1 .. n PROVE mapping[i].mac \in Clients /\ Known(mapping[i].mac)
      <4>1. i \in DOMAIN mapping /\ mapping[i] \in Entry
        BY <1>1, <3>1 DEF TableInv
      <4> QED
        BY <4>1 DEF Entry, Known
    <3> QED
      BY <1>2, <3>1
  <2>2. IsInjective(f)
    BY <1>1 DEF TableInv, IsInjective
  <2>3. \A t \in Pool!Bound : \E i \in 1 .. n : f[i] = t
    BY <1>1, <1>2 DEF Known
  <2> QED
    BY <2>1, <2>2, <2>3 DEF Bijection, Injection, Surjection
<1>4. IsFiniteSet(1 .. n) /\ Cardinality(1 .. n) = n
  <2>1. 1 \in Int /\ n \in Int /\ (1 > n => n = 0) /\ n - 1 + 1 = n
    BY <1>1
  <2> HIDE DEF n
  <2> QED
    BY <2>1, FS_Interval
<1> QED
  BY <1>3, <1>4, FS_Bijection DEF ExistsBijection
-----------------------------------------------------------------------------
(* One message: the table and what is told, and the pool's step it is *)

LEMMA PoolVars ==
  /\ Pool!vars = <<Table, Promised>> /\ Pool!vars' = <<Table', Promised'>>
  /\ UNCHANGED <<told, several>> => Promised' = Promised
BY DEF Pool!vars, Table, Promised

LEMMA ToldFits ==
  ASSUME ToldInv, UNCHANGED <<told, several>>, \A x, b : Fits(x, b) => Fits(x, b)'
  PROVE  ToldInv'
BY DEF ToldInv

\* A step that leaves the network part alone.
LEMMA NetUnchanged ==
  ASSUME NetInv, UNCHANGED net, pc' = "yiaddr" => pc = "yiaddr"
  PROVE  NetInv' /\ UNCHANGED Pool!vars
<1>1. mapping' = mapping /\ job' = job /\ told' = told /\ several' = several
  BY DEF net
<1>2. TableInv' /\ ToldInv'
  BY <1>1, SameTable, ToldFits DEF NetInv
<1>3. JobInv'
  BY <1>1, SameTable DEF NetInv, JobInv
<1> QED
  BY <1>1, <1>2, <1>3, SameTable, PoolVars DEF NetInv

LEMMA NoJobFits ==
  /\ NoJob \in JobType
  /\ NoJob.client_ip = NoAddr /\ ~NoJob.got_ip /\ NoJob.response = "NONE"
BY DhcpServerAssumption, Constants DEF NoJob, JobType

LEMMA MessageType ==
  ASSUME NEW m \in Messages
  PROVE  m.mac \in Clients /\ m.ciaddr \in Addr /\ m.opts \in Seq(Option)
BY DhcpServerAssumption DEF Messages, Addr

LEMMA ReceiveStep ==
  ASSUME NetInv, NEW m \in Messages, Receive(m)
  PROVE  NetInv' /\ UNCHANGED Pool!vars
<1>1. mapping' = mapping /\ told' = told /\ several' = several /\ pc' = "option"
  BY DEF Receive
<1>2. TableInv' /\ ToldInv'
  BY <1>1, SameTable, ToldFits DEF NetInv
<1>3. job' \in JobType /\ ~job'.got_ip /\ job'.response = "NONE"
  BY NoJobFits, MessageType DEF Receive, JobType
<1>4. JobInv'
  BY <1>1, <1>3 DEF JobInv
<1> QED
  BY <1>1, <1>2, <1>4, SameTable, PoolVars DEF NetInv

\* The search begins for a client that is not in the table.
LEMMA EndOptionsStep ==
  ASSUME NetInv, EndOptions
  PROVE  NetInv' /\ UNCHANGED Pool!vars
<1>1. mapping' = mapping /\ told' = told /\ several' = several
  BY DEF EndOptions
<1>2. TableInv' /\ ToldInv'
  BY <1>1, SameTable, ToldFits DEF NetInv
<1>3. JobInv'
  <2>1. CASE job.response = "NONE"
    <3>1. job' = NoJob /\ pc' = "loop"
      BY <2>1 DEF EndOptions
    <3> QED
      BY <3>1, NoJobFits DEF JobInv
  <2>2. CASE job.response # "NONE"
    <3>1. job' = job
      BY <2>2 DEF EndOptions
    <3>2. pc' = "yiaddr" => job.response = "OFFER" /\ ~Known(job.mac)
      BY LookupKnown DEF EndOptions, NetInv
    <3> QED
      BY <1>1, <3>1, <3>2, SameTable DEF NetInv, JobInv
  <2> QED
    BY <2>1, <2>2
<1> QED
  BY <1>1, <1>2, <1>3, SameTable, PoolVars DEF NetInv

\* An entry added is a binding of the pool.
LEMMA BindStep ==
  ASSUME TableInv, NEW m \in Clients, NEW a \in Subnet, ~Known(m), ac_valid_ip(a), ac_add(m, a),
         told' = told, several' = several
  PROVE  [Pool!Next]_(Pool!vars)
<1>1. CASE ~ac_not_full
  BY <1>1, AddStep, SameTable, PoolVars
<1>2. CASE ac_not_full
  <2>1. Table' = [Table EXCEPT ![m] = a]
    BY <1>2, AddStep
  <2>2. m \notin Pool!Bound
    BY LookupUnknown DEF Pool!Bound
  <2>3. ~Pool!Taken(a)
    <3> SUFFICES ASSUME NEW x \in Clients, ac_lookup_mac(x) = a PROVE FALSE
      BY DEF Pool!Taken
    <3>1. Known(x) /\ ac_lookup_ip(a)
      BY LookupKnown, Constants
    <3> QED
      BY <3>1 DEF ac_valid_ip
  <2>4. Cardinality(Pool!Bound) < MAC_IP_CACHE_SIZE
    BY <1>2, BoundSize DEF ac_not_full
  <2>5. a \in Subnet \ {MyIp, 0, Size - 1}
    BY DEF ac_valid_ip
  <2>6. Pool!Bind(m, a)
    <3>1. [x \in Clients |-> ac_lookup_mac(x)'] = [[x \in Clients |-> ac_lookup_mac(x)] EXCEPT ![m] = a]
      BY <2>1 DEF Table
    <3> QED
      BY <2>2, <2>3, <2>4, <3>1, PoolCardinality DEF Pool!Bind
  <2> QED
    BY <2>5, <2>6 DEF Pool!Next
<1> QED
  BY <1>1, <1>2

LEMMA YiaddrStep ==
  ASSUME NetInv, current_ip \in Subnet, next_yiaddr
  PROVE  NetInv' /\ [Pool!Next]_(Pool!vars)
<1>1. /\ pc = "yiaddr" /\ job' = job /\ told' = told /\ several' = several /\ job.mac \in Clients
      /\ job.response = "OFFER" /\ ~Known(job.mac)
  BY DEF next_yiaddr, NetInv, JobInv, JobType
<1>2. CASE ac_valid_ip(current_ip)
  <2>1. ac_add(job.mac, current_ip) /\ pc' = "respond"
    BY <1>2 DEF next_yiaddr
  <2>2. TableInv' /\ \A x, b : Fits(x, b) => Fits(x, b)'
    BY <1>1, <1>2, <2>1, AddStep DEF NetInv
  <2>3. JobInv'
    BY <1>1, <2>1, <2>2 DEF NetInv, JobInv
  <2>4. ToldInv'
    BY <1>1, <2>2, ToldFits DEF NetInv
  <2> QED
    BY <1>1, <1>2, <2>1, <2>2, <2>3, <2>4, BindStep DEF NetInv
<1>3. CASE ~ac_valid_ip(current_ip)
  <2>1. mapping' = mapping /\ pc' = pc
    BY <1>3 DEF next_yiaddr
  <2>2. TableInv' /\ ToldInv'
    BY <1>1, <2>1, SameTable, ToldFits DEF NetInv
  <2>3. JobInv'
    BY <1>1, <2>1, SameTable DEF NetInv, JobInv
  <2> QED
    BY <1>1, <2>1, <2>2, <2>3, SameTable, PoolVars DEF NetInv
<1> QED
  BY <1>2, <1>3

\* One option.  As long as the message names one address, what was granted for it before is
\* still what would be acknowledged.
LEMMA OptionStep ==
  ASSUME NetInv, ProcessOption
  PROVE  NetInv' /\ [Pool!Next]_(Pool!vars)
<1> DEFINE o == Head(job.opts)
           need == job.need_ip \/ o.type = "REQUEST"
           client_ip == IF o.type = "REQUESTED_IP" THEN o.ip
                        ELSE IF o.type = "REQUEST" /\ job.ciaddr # NoAddr THEN job.ciaddr
                        ELSE job.client_ip
           known == ac_lookup_mac(job.mac)
           check == client_ip \in Subnet
           grant == check /\ known = NoAddr /\ ac_valid_ip(client_ip)
           got == IF check /\ known # NoAddr THEN known = client_ip ELSE job.got_ip \/ grant
           response == IF need THEN IF got THEN "ACK" ELSE "NAK"
                       ELSE IF o.type = "DISCOVER" THEN "OFFER" ELSE job.response
           one == job.one /\ job.client_ip \in {NoAddr, client_ip}
<1>1. /\ pc = "option" /\ pc' = pc /\ told' = told /\ several' = several /\ job.opts # <<>>
      /\ IF grant THEN ac_add(job.mac, client_ip) ELSE mapping' = mapping
      /\ job' = [job EXCEPT !.opts = Tail(@), !.client_ip = client_ip,
                            !.need_ip = need, !.got_ip = got, !.response = response, !.one = one]
  BY DEF ProcessOption
<1>2. job \in JobType /\ job.mac \in Clients /\ TableInv /\ ToldInv
  BY DEF NetInv, JobInv, JobType
<1>3. o \in Option /\ Tail(job.opts) \in Seq(Option)
  BY <1>1, <1>2 DEF JobType
<1>4. client_ip \in Addr
  <2>1. o.ip \in Addr
    BY <1>3, Constants DEF Option, Addr
  <2>2. job.ciaddr \in Addr /\ job.client_ip \in Addr
    BY <1>2 DEF JobType
  <2> QED
    BY <2>1, <2>2
<1>5. need \in BOOLEAN /\ got \in BOOLEAN /\ one \in BOOLEAN
      /\ response \in {"NONE", "OFFER", "ACK", "NAK"} /\ (response = "ACK" => need /\ got)
  <2>1. need \in BOOLEAN /\ got \in BOOLEAN /\ one \in BOOLEAN
    BY <1>2 DEF JobType
  <2>2. job.response \in {"NONE", "OFFER", "ACK", "NAK"} /\ (job.response = "ACK" => job.need_ip)
    BY <1>2 DEF JobType, NetInv, JobInv
  <2> QED
    BY <2>1, <2>2
<1>6. /\ job' \in JobType /\ job'.mac = job.mac /\ job'.client_ip = client_ip
      /\ job'.need_ip = need /\ job'.got_ip = got /\ job'.response = response /\ job'.one = one
  <2> HIDE DEF o, need, client_ip, got, response, one
  <2> QED
    BY <1>1, <1>2, <1>3, <1>4, <1>5 DEF JobType
<1>7. one /\ job.got_ip => Fits(job.mac, client_ip)
  <2> SUFFICES ASSUME one, job.got_ip PROVE Fits(job.mac, client_ip)
    OBVIOUS
  <2>1. Fits(job.mac, job.client_ip)
    BY DEF NetInv, JobInv
  <2>2. job.client_ip # NoAddr
    BY <2>1, Constants, FitsIs
  <2> QED
    BY <2>1, <2>2
<1>8. known = NoAddr <=> ~Known(job.mac)
  BY <1>2, LookupKnown
<1>9. /\ TableInv' /\ [Pool!Next]_(Pool!vars)
      /\ \A x, b : Fits(x, b) => Fits(x, b)'
      /\ one /\ got => FitsIn(mapping', job.mac, client_ip)
  <2>1. CASE grant
    <3> HIDE DEF client_ip, known, one
    <3>1. client_ip \in Subnet /\ ~Known(job.mac) /\ ac_valid_ip(client_ip)
          /\ ac_add(job.mac, client_ip)
      BY <1>1, <1>8, <2>1
    <3> QED
      BY <1>1, <1>2, <3>1, AddStep, BindStep DEF Fits
  <2>2. CASE ~grant
    <3>1. mapping' = mapping
      BY <1>1, <2>2
    <3>2. one /\ got => Fits(job.mac, client_ip)
      <4>1. CASE check /\ known # NoAddr
        <5> HIDE DEF client_ip, one
        <5>1. got => known = client_ip
          BY <4>1
        <5>2. Known(job.mac) /\ known \in HostAddr
          BY <1>2, <1>8, <4>1, LookupKnown
        <5> QED
          BY <5>1, <5>2, FitsIs
      <4>2. CASE ~(check /\ known # NoAddr)
        BY <1>7, <2>2, <4>2
      <4> QED
        BY <4>1, <4>2
    <3> HIDE DEF got, client_ip, one
    <3> QED
      BY <1>1, <1>2, <3>1, <3>2, SameTable, PoolVars DEF Fits
  <2> QED
    BY <2>1, <2>2
<1>10. JobInv'
  <2> HIDE DEF o, need, client_ip, got, response, one
  <2>1. (job.one /\ job.got_ip => Fits(job.mac, job.client_ip))'
    BY <1>6, <1>9 DEF Fits
  <2> QED
    BY <1>1, <1>5, <1>6, <2>1 DEF JobInv
<1>11. ToldInv'
  BY <1>1, <1>2, <1>9, ToldFits
<1> QED
  BY <1>9, <1>10, <1>11 DEF NetInv

\* An acknowledgement tells a client that named one address the one it is bound to, or one
\* that nobody is; to a client that named several it is no promise.
LEMMA ResponseStep ==
  ASSUME NetInv, NEW sent \in BOOLEAN, make_response(sent)
  PROVE  NetInv' /\ [Pool!Next]_(Pool!vars)
<1>1. mapping' = mapping /\ job' = NoJob /\ pc' = "loop" /\ job.mac \in Clients
      /\ TableInv /\ ToldInv
  BY DEF make_response, NetInv, JobInv, JobType
<1>2. TableInv' /\ Table' = Table
  BY <1>1, SameTable
<1>3. JobInv'
  BY <1>1, NoJobFits DEF JobInv
<1>4. CASE ~(sent /\ job.response = "ACK")
  <2>1. told' = told /\ several' = several
    BY <1>4 DEF make_response
  <2> QED
    BY <1>1, <1>2, <1>3, <2>1, SameTable, ToldFits, PoolVars DEF NetInv
<1>5. CASE sent /\ job.response = "ACK"
  <2>0. PICK m \in Clients, a \in Addr : m = job.mac /\ a = job.client_ip
    BY DEF NetInv, JobInv, JobType
  <2>1. /\ told' = [told EXCEPT ![m] = a]
        /\ several' = IF job.one THEN several \ {m} ELSE several \cup {m}
        /\ told \in [Clients -> Addr] /\ several \subseteq Clients
    BY <1>1, <1>5, <2>0 DEF make_response, ToldInv
  <2>2. job.one => Fits(m, a)
    BY <1>5, <2>0 DEF NetInv, JobInv
  <2>3. ToldInv'
    <3>1. told' \in [Clients -> Addr] /\ several' \subseteq Clients
      BY <2>1
    <3>2. \A x \in Clients \ several' : told'[x] # NoAddr => FitsIn(mapping', x, told'[x])
      BY <1>1, <2>1, <2>2 DEF ToldInv, Fits
    <3> QED
      BY <3>1, <3>2 DEF ToldInv, Fits
  <2>4. CASE ~job.one
    <3>1. Promised' = [Promised EXCEPT ![m] = NoAddr]
      BY <2>1, <2>4 DEF Promised
    <3>2. Pool!Unpromised(m)
      BY <1>2, <3>1 DEF Pool!Unpromised, Table, Promised
    <3> QED
      BY <1>2, <1>3, <2>3, <3>2 DEF Pool!Next, NetInv
  <2>5. ASSUME job.one
        PROVE  /\ Promised' = [Promised EXCEPT ![m] = a]
               /\ a \in HostAddr
               /\ IF Known(m) THEN ac_lookup_mac(m) = a ELSE ~ac_not_full /\ ~ac_lookup_ip(a)
    <3>1. Promised' = [Promised EXCEPT ![m] = a]
      BY <2>1, <2>5 DEF Promised
    <3> QED
      BY <2>2, <2>5, <3>1, FitsIs
  <2>6. CASE job.one /\ Known(m)
    <3>1. m \in Pool!Bound
      BY <1>1, <2>6, LookupKnown DEF Pool!Bound
    <3>2. Pool!Tell(m)
      BY <1>2, <2>5, <2>6, <3>1 DEF Pool!Tell, Table, Promised
    <3> QED
      BY <1>2, <1>3, <2>3, <3>2 DEF Pool!Next, NetInv
  <2>7. CASE job.one /\ ~Known(m)
    <3>1. m \notin Pool!Bound
      BY <2>7, LookupUnknown DEF Pool!Bound
    <3>2. ~Pool!Taken(a)
      <4> SUFFICES ASSUME NEW x \in Clients, ac_lookup_mac(x) = a PROVE FALSE
        BY DEF Pool!Taken
      <4>1. Known(x) /\ ac_lookup_ip(a)
        BY <1>1, <2>5, <2>7, LookupKnown, Constants
      <4> QED
        BY <2>5, <2>7, <4>1
    <3>3. Pool!Cardinality(Pool!Bound) >= MAC_IP_CACHE_SIZE
      <4>1. Len(mapping) \in Nat /\ ~(Len(mapping) < MAC_IP_CACHE_SIZE)
        BY <1>1, <2>5, <2>7 DEF ac_not_full, TableInv
      <4> QED
        BY <1>1, <4>1, BoundSize, PoolCardinality, DhcpServerAssumption
    <3>4. Pool!TellUnbound(m, a)
      BY <1>2, <2>5, <2>7, <3>1, <3>2, <3>3 DEF Pool!TellUnbound, Table, Promised
    <3>5. a \in Subnet \ {MyIp, 0, Size - 1}
      BY <2>5, <2>7 DEF HostAddr
    <3> QED
      BY <1>2, <1>3, <2>3, <3>4, <3>5 DEF Pool!Next, NetInv
  <2> QED
    BY <2>4, <2>6, <2>7
<1> QED
  BY <1>4, <1>5

LEMMA EmptyTable ==
  /\ mapping = <<>> => TableInv /\ Table = Pool!Nothing
  /\ mapping' = <<>> => TableInv' /\ Table' = Pool!Nothing
<1>1. <<>> \in Seq(Entry) /\ DOMAIN <<>> = {} /\ Len(<<>>) = 0
  OBVIOUS
<1>2. \A m : LookupIn(<<>>, m) = NoAddr
  BY <1>1 DEF LookupIn
<1>3. ASSUME mapping = <<>> PROVE TableInv /\ Table = Pool!Nothing
  BY <1>1, <1>2, <1>3, LookupIs, DhcpServerAssumption DEF TableInv, Table, Pool!Nothing
<1>4. ASSUME mapping' = <<>> PROVE TableInv' /\ Table' = Pool!Nothing
  BY <1>1, <1>2, <1>4, LookupIs, DhcpServerAssumption DEF TableInv, Table, Pool!Nothing
<1> QED
  BY <1>3, <1>4

\* Starting the server, also when it fails, starts the pool again.
LEMMA ClearedStep ==
  ASSUME Cleared, pc' # "yiaddr"
  PROVE  NetInv' /\ [Pool!Next]_(Pool!vars)
<1>1. mapping' = <<>> /\ job' = NoJob /\ told' = [m \in Clients |-> NoAddr] /\ several' = {}
  BY DEF Cleared
<1>2. TableInv' /\ Table' = Pool!Nothing
  BY <1>1, EmptyTable
<1>3. JobInv'
  BY <1>1, NoJobFits DEF JobInv
<1>4. ToldInv'
  BY <1>1, Constants DEF ToldInv
<1>5. Pool!Restart
  BY <1>1, <1>2 DEF Pool!Restart, Pool!Nothing, Table
<1> QED
  BY <1>2, <1>3, <1>4, <1>5 DEF NetInv, Pool!Next

\* Every step keeps the invariant of the network part and is a step of the pool or none.
LEMMA NetStep ==
  ASSUME NetInv, LifeType, LifeInv, [Next]_vars
  PROVE  NetInv' /\ [Pool!Next]_(Pool!vars)
<1>1. CASE \E m \in Messages : Receive(m)
  BY <1>1, ReceiveStep
<1>2. CASE Handle
  BY <1>2, OptionStep, EndOptionsStep, YiaddrStep, ResponseStep DEF Handle, LifeType
<1>3. CASE BindCtrl \/ BindFails \/ TakeMutex \/ Halted \/ SelectFails
  BY <1>3, NetUnchanged DEF BindCtrl, BindFails, TakeMutex, Halted, SelectFails, Done
<1>4. CASE dhcp_server_start \/ StartFails
  BY <1>4, ClearedStep DEF dhcp_server_start, StartFails, LifeInv
<1>5. CASE (\E sent \in BOOLEAN : dhcp_send_halt(sent)) \/ dhcp_free_allocations \/ HaltTimeout
           \/ DeleteThread
  BY <1>5, NetUnchanged DEF dhcp_send_halt, dhcp_free_allocations, HaltTimeout, DeleteThread
<1>6. CASE UNCHANGED vars
  BY <1>6, NetUnchanged DEF vars, net
<1> QED
  BY <1>1, <1>2, <1>3, <1>4, <1>5, <1>6 DEF Next, Thread, Application
-----------------------------------------------------------------------------
(* The thread *)

LEMMA NextIpType == \A a \in Subnet : NextIp(a) \in Subnet
BY DhcpServerAssumption DEF Subnet, NextIp

(* Types *)
LEMMA LifeTypeStep ==
  ASSUME LifeType, [Next]_vars
  PROVE  LifeType'
<1>1. ASSUME NEW m \in Messages, Receive(m) PROVE LifeType'
  BY <1>1 DEF Receive, life, LifeType
<1>2. CASE ProcessOption
  BY <1>2 DEF ProcessOption, life, LifeType
<1>3. CASE EndOptions
  BY <1>3, NextIpType DEF EndOptions, life, LifeType
<1>4. CASE next_yiaddr
  BY <1>4, NextIpType DEF next_yiaddr, life, LifeType
<1>5. ASSUME NEW sent \in BOOLEAN, make_response(sent) PROVE LifeType'
  BY <1>5 DEF make_response, life, LifeType
<1>6. CASE BindCtrl
  BY <1>6 DEF BindCtrl, net, LifeType
<1>7. CASE BindFails
  BY <1>7 DEF BindFails, dhcp_clean_sockets, net, LifeType
<1>8. CASE TakeMutex
  BY <1>8 DEF TakeMutex, net, LifeType
<1>9. CASE Halted
  BY <1>9 DEF Halted, Done, dhcp_clean_sockets, net, LifeType
<1>10. CASE SelectFails
  BY <1>10 DEF SelectFails, Done, dhcp_clean_sockets, net, LifeType
<1>11. CASE dhcp_server_start
  BY <1>11, Constants DEF dhcp_server_start, Cleared, LifeType
<1>12. CASE StartFails
  BY <1>12, Constants DEF StartFails, Cleared, LifeType
<1>13. ASSUME NEW sent \in BOOLEAN, dhcp_send_halt(sent) PROVE LifeType'
  BY <1>13 DEF dhcp_send_halt, net, LifeType
<1>14. CASE dhcp_free_allocations
  BY <1>14 DEF dhcp_free_allocations, dhcp_clean_sockets, net, LifeType
<1>15. CASE HaltTimeout
  BY <1>15 DEF HaltTimeout, net, LifeType
<1>16. CASE DeleteThread
  BY <1>16 DEF DeleteThread, net, LifeType
<1>17. CASE UNCHANGED vars
  BY <1>17 DEF vars, LifeType
<1> QED
  BY <1>1, <1>2, <1>3, <1>4, <1>5, <1>6, <1>7, <1>8, <1>9,
     <1>10, <1>11, <1>12, <1>13, <1>14, <1>15, <1>16, <1>17
     DEF Next, Thread, Handle, Application

(* Sockets and mutex *)
LEMMA LifeStep ==
  ASSUME LifeType, LifeInv, [Next]_vars
  PROVE  LifeInv'
<1>1. ASSUME NEW m \in Messages, Receive(m) PROVE LifeInv'
  BY <1>1 DEF Receive, life, LifeType, LifeInv
<1>2. CASE ProcessOption
  BY <1>2 DEF ProcessOption, life, LifeType, LifeInv
<1>3. CASE EndOptions
  BY <1>3, NextIpType DEF EndOptions, life, LifeType, LifeInv
<1>4. CASE next_yiaddr
  BY <1>4, NextIpType DEF next_yiaddr, life, LifeType, LifeInv
<1>5. ASSUME NEW sent \in BOOLEAN, make_response(sent) PROVE LifeInv'
  BY <1>5 DEF make_response, life, LifeType, LifeInv
<1>6. CASE BindCtrl
  BY <1>6 DEF BindCtrl, net, LifeType, LifeInv
<1>7. CASE BindFails
  BY <1>7 DEF BindFails, dhcp_clean_sockets, net, LifeType, LifeInv
<1>8. CASE TakeMutex
  BY <1>8 DEF TakeMutex, net, LifeType, LifeInv
<1>9. CASE Halted
  BY <1>9 DEF Halted, Done, dhcp_clean_sockets, net, LifeType, LifeInv
<1>10. CASE SelectFails
  BY <1>10 DEF SelectFails, Done, dhcp_clean_sockets, net, LifeType, LifeInv
<1>11. CASE dhcp_server_start
  BY <1>11, Constants DEF dhcp_server_start, Cleared, LifeType, LifeInv
<1>12. CASE StartFails
  BY <1>12, Constants DEF StartFails, Cleared, LifeType, LifeInv
<1>13. ASSUME NEW sent \in BOOLEAN, dhcp_send_halt(sent) PROVE LifeInv'
  BY <1>13 DEF dhcp_send_halt, net, LifeType, LifeInv
<1>14. CASE dhcp_free_allocations
  BY <1>14 DEF dhcp_free_allocations, dhcp_clean_sockets, net, LifeType, LifeInv
<1>15. CASE HaltTimeout
  BY <1>15 DEF HaltTimeout, net, LifeType, LifeInv
<1>16. CASE DeleteThread
  BY <1>16 DEF DeleteThread, net, LifeType, LifeInv
<1>17. CASE UNCHANGED vars
  BY <1>17 DEF vars, LifeType, LifeInv
<1> QED
  BY <1>1, <1>2, <1>3, <1>4, <1>5, <1>6, <1>7, <1>8, <1>9,
     <1>10, <1>11, <1>12, <1>13, <1>14, <1>15, <1>16, <1>17
     DEF Next, Thread, Handle, Application

-----------------------------------------------------------------------------
LEMMA InitInv == Init => DhcpInv
<1> SUFFICES ASSUME Init PROVE DhcpInv
  OBVIOUS
<1>1. TableInv
  BY EmptyTable DEF Init
<1>2. JobInv
  <2>1. job = NoJob /\ pc = "none"
    BY DEF Init
  <2> QED
    BY <2>1, NoJobFits DEF JobInv
<1>3. ToldInv
  BY Constants DEF Init, ToldInv
<1>4. LifeType /\ LifeInv
  BY Constants DEF Init, LifeType, LifeInv
<1> QED
  BY <1>1, <1>2, <1>3, <1>4 DEF DhcpInv, NetInv

LEMMA DhcpInvInvariant == Spec => []DhcpInv
<1>1. DhcpInv /\ [Next]_vars => DhcpInv'
  BY LifeTypeStep, LifeStep, NetStep DEF DhcpInv
<1> QED
  BY InitInv, <1>1, PTL DEF Spec

\* Every variable keeps its type; ac_add() keeps within the table.
THEOREM DhcpTypes == Spec => []TypeOK
<1>1. DhcpInv => TypeOK
  BY DEF DhcpInv, NetInv, TableInv, JobInv, JobType, ToldInv, LifeType, TypeOK, Entry
<1> QED
  BY <1>1, DhcpInvInvariant, PTL

\* For any number of clients, entries, addresses and options: the address of a client in the
\* table is acknowledged to that client only, and no other address to it; only a client that
\* names several addresses in one message, for which got_ip is set too early, is excepted.
THEOREM TableAlwaysRespected == Spec => []TableRespected
<1>1. DhcpInv => TableRespected
  <2> SUFFICES ASSUME DhcpInv, NEW i \in DOMAIN mapping, NEW m \in Clients \ several, told[m] # NoAddr
               PROVE  (told[m] = mapping[i].ip) <=> (m = mapping[i].mac)
    BY DEF TableRespected
  <2>1. TableInv /\ Fits(m, told[m])
    BY DEF DhcpInv, NetInv, ToldInv
  <2>2. ac_lookup_mac(mapping[i].mac) = mapping[i].ip /\ Known(mapping[i].mac)
    BY <2>1, LookupEntry DEF Known
  <2>3. CASE Known(m)
    BY <2>1, <2>2, <2>3, FitsIs, LookupInjective
  <2>4. CASE ~Known(m)
    BY <2>1, <2>2, <2>4, FitsIs DEF ac_lookup_ip
  <2> QED
    BY <2>3, <2>4
<1> QED
  BY <1>1, DhcpInvInvariant, PTL

\* dhcp_free_allocations() closes no socket under a message that is being handled.
THEOREM SocketsAlwaysKept == Spec => []SocketKept
<1>1. DhcpInv => SocketKept
  BY DEF DhcpInv, LifeInv, SocketKept
<1> QED
  BY <1>1, DhcpInvInvariant, PTL

\* The server implements the pool of addresses: every step of process_dhcp_message(),
\* next_yiaddr(), make_response() and of starting and stopping maps to a step of the pool or
\* to none; the answer to a message with several addresses is a step that promises nothing.
THEOREM ServerImplementsPool == Spec => ImplementsPool
<1>1. Init => Pool!Init
  <2> SUFFICES ASSUME Init PROVE Pool!Init
    OBVIOUS
  <2>1. Table = Pool!Nothing
    BY EmptyTable DEF Init
  <2> QED
    BY <2>1 DEF Init, Pool!Init, Pool!Nothing, Table
<1>2. DhcpInv /\ [Next]_vars => [Pool!Next]_(Pool!vars)
  BY NetStep DEF DhcpInv
<1> QED
  BY <1>1, <1>2, DhcpInvInvariant, PTL DEF Spec, ImplementsPool, Pool!Spec
=============================================================================
