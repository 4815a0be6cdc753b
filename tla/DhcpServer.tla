----------------------------- MODULE DhcpServer -----------------------------
(***************************************************************************)
(* The DHCP server of the micro access point (dhcpd/dhcp-server.c,         *)
(* dhcp-server-main.c): its table of clients, the handling of one message, *)
(* option by option, and the start and stop of its thread by another one.  *)
(*                                                                         *)
(* An address is its host part, 0 .. Size - 1, in the subnet of the        *)
(* server; Outside stands for every other address and NoAddr for 0.0.0.0.  *)
(* A message is the client's MAC address, ciaddr and the sequence of its   *)
(* options, in any order and number: it may name several addresses.        *)
(* Messages with a bad header are dropped by process_dhcp_message() before *)
(* anything changes.                                                       *)
(* The lease time is not enforced by the server, it is only sent.          *)
(***************************************************************************)
EXTENDS Integers, Sequences, FiniteSets

CONSTANTS
  Clients,            \* MAC addresses
  Size,               \* addresses in the subnet, a power of two
  MyIp,               \* dhcps.my_ip
  MAC_IP_CACHE_SIZE,  \* entries of dhcps.ip_mac_mapping
  Requested,          \* the addresses clients put into ciaddr
  OptionLists         \* the options of the messages clients send

Subnet == 0 .. Size - 1
Outside == Size
NoAddr == -1

\* The message types and the address asked for; every other option is "OTHER".
Option == [type : {"DISCOVER", "REQUEST", "OTHER"}, ip : {NoAddr}]
     \cup [type : {"REQUESTED_IP"}, ip : Subnet \cup {Outside}]

ASSUME DhcpServerAssumption ==
  /\ IsFiniteSet(Clients) /\ Clients # {}
  /\ Size \in Nat /\ Size >= 4
  /\ MyIp \in 1 .. Size - 2
  /\ MAC_IP_CACHE_SIZE \in Nat \ {0}
  /\ Requested \subseteq Subnet \cup {Outside}
  /\ OptionLists \subseteq Seq(Option)

Messages == [mac : Clients, ciaddr : Requested \cup {NoAddr}, opts : OptionLists]

VARIABLES
  mapping,     \* dhcps.ip_mac_mapping, of length dhcps.count_clients
  current_ip,  \* dhcps.current_ip
  job,         \* the message in dhcps.msg and the locals of process_dhcp_message()
  pc,          \* where the thread dhcp_server() is; "none" when there is none
  sock,        \* dhcps.sock; "leaked" when open and no longer known
  ctrl,        \* the control socket; "leaked" when left behind by a deleted thread
  halt,        \* HALT waits in the control socket
  mutex,       \* dhcpd_mutex: "none" (deleted), "free", or held by the "thread"
  running,     \* dhcpd_running
  app,         \* where the thread that calls dhcp_server_stop() is
  told,        \* history: the address last acknowledged to each client
  several      \* history: the clients for which that answered a message with several addresses

net == <<mapping, current_ip, job, told, several>>
life == <<sock, ctrl, halt, mutex, running, app>>
vars == <<mapping, current_ip, job, pc, sock, ctrl, halt, mutex, running, app, told, several>>
-----------------------------------------------------------------------------
(* The table of clients *)

ac_not_full == Len(mapping) < MAC_IP_CACHE_SIZE

\* Mutant: the entry is added without looking whether the table is full.
ac_add_unchecked(m, a) == mapping' = Append(mapping, [mac |-> m, ip |-> a])

ac_add(m, a) ==
  mapping' = IF ac_not_full THEN Append(mapping, [mac |-> m, ip |-> a]) ELSE mapping

ac_lookup_mac(m) ==
  LET Is(i) == mapping[i].mac = m
  IN IF \E i \in DOMAIN mapping : Is(i)
       THEN mapping[CHOOSE i \in DOMAIN mapping : Is(i) /\ \A j \in 1 .. i - 1 : ~Is(j)].ip
       ELSE NoAddr

ac_lookup_ip(a) == \E i \in DOMAIN mapping : mapping[i].ip = a

\* Mutant: addresses in use are not refused.
ac_valid_ip_no_lookup(a) == a \notin {MyIp, 0, Size - 1}

\* Not the server's, the network's or the broadcast address, and not in use.
ac_valid_ip(a) == a \notin {MyIp, 0, Size - 1} /\ ~ac_lookup_ip(a)

\* Mutant: the search starts over instead of going on.
NextIp_restart(a) == (MyIp + 1) % Size

\* The next address of the subnet, after the last one its first.
NextIp(a) == (a + 1) % Size
-----------------------------------------------------------------------------
(* One message *)

\* one is history: the message has named one address so far, or none.
NoJob == [mac |-> CHOOSE m \in Clients : TRUE, ciaddr |-> NoAddr, opts |-> <<>>,
          client_ip |-> NoAddr, need_ip |-> FALSE, got_ip |-> FALSE, response |-> "NONE",
          one |-> TRUE]

\* The thread reads a message.  dhcps.client_ip outlives the message, but is only read
\* after this message set it: NoAddr here is "got_client_ip is 0".
Receive(m) ==
  /\ pc = "loop" /\ sock = "open" /\ ~halt
  /\ job' = [NoJob EXCEPT !.mac = m.mac, !.ciaddr = m.ciaddr, !.opts = m.opts]
  /\ pc' = "option"
  /\ UNCHANGED <<mapping, current_ip, told, several, life>>

\* One round of the loop over the options of process_dhcp_message().  got_ip stays set when a
\* later address of the message is outside the subnet, or not valid for a client without entry.
ProcessOption ==
  /\ pc = "option" /\ job.opts # <<>>
  /\ LET o == Head(job.opts)
         need == job.need_ip \/ o.type = "REQUEST"
         client_ip == IF o.type = "REQUESTED_IP" THEN o.ip
                      ELSE IF o.type = "REQUEST" /\ job.ciaddr # NoAddr THEN job.ciaddr
                      ELSE job.client_ip
         known == ac_lookup_mac(job.mac)
         check == client_ip \in Subnet
         grant == check /\ known = NoAddr /\ ac_valid_ip(client_ip)
         got == IF check /\ known # NoAddr THEN known = client_ip ELSE job.got_ip \/ grant
     IN /\ IF grant THEN ac_add(job.mac, client_ip) ELSE UNCHANGED mapping
        /\ job' = [job EXCEPT !.opts = Tail(@), !.client_ip = client_ip,
                              !.need_ip = need, !.got_ip = got,
                              !.response = IF need THEN IF got THEN "ACK" ELSE "NAK"
                                           ELSE IF o.type = "DISCOVER" THEN "OFFER" ELSE @,
                              !.one = @ /\ job.client_ip \in {NoAddr, client_ip}]
  /\ UNCHANGED <<current_ip, pc, told, several, life>>

\* No option is left: the message is ignored, or make_response() begins.  An offer to a
\* client not in the table begins the search of next_yiaddr().
EndOptions ==
  /\ pc = "option" /\ job.opts = <<>>
  /\ LET search == job.response = "OFFER" /\ ac_lookup_mac(job.mac) = NoAddr
     IN /\ pc' = IF job.response = "NONE" THEN "loop" ELSE IF search THEN "yiaddr" ELSE "respond"
        /\ current_ip' = IF search THEN NextIp(current_ip) ELSE current_ip
        /\ job' = IF job.response = "NONE" THEN NoJob ELSE job
  /\ UNCHANGED <<mapping, told, several, life>>

\* The loop of next_yiaddr(), and the entry it adds.
next_yiaddr ==
  /\ pc = "yiaddr"
  /\ IF ac_valid_ip(current_ip)
       THEN ac_add(job.mac, current_ip) /\ pc' = "respond" /\ UNCHANGED current_ip
       ELSE current_ip' = NextIp(current_ip) /\ UNCHANGED <<mapping, pc>>
  /\ UNCHANGED <<job, told, several, life>>

\* Mutant: the acknowledgement carries the address found last, not the one asked for.
make_response_current(sent) ==
  /\ pc = "respond"
  /\ told' = IF sent /\ job.response = "ACK" THEN [told EXCEPT ![job.mac] = current_ip] ELSE told
  /\ several' = IF sent /\ job.response = "ACK" /\ job.one THEN several \ {job.mac} ELSE several
  /\ pc' = "loop" /\ job' = NoJob
  /\ UNCHANGED <<mapping, current_ip, life>>

\* make_response() and dhcp_send_response(); the result of sending is not looked at.
make_response(sent) ==
  /\ pc = "respond"
  /\ IF sent /\ job.response = "ACK"
       THEN /\ told' = [told EXCEPT ![job.mac] = job.client_ip]
            /\ several' = IF job.one THEN several \ {job.mac} ELSE several \cup {job.mac}
       ELSE UNCHANGED <<told, several>>
  /\ pc' = "loop" /\ job' = NoJob
  /\ UNCHANGED <<mapping, current_ip, life>>
-----------------------------------------------------------------------------
(* The thread *)

dhcp_clean_sockets ==
  /\ sock' = IF sock = "open" THEN "closed" ELSE sock
  /\ ctrl' = IF ctrl = "bound" THEN "closed" ELSE ctrl
  /\ halt' = FALSE

\* The control socket is bound, unless one left behind still holds its port.
BindCtrl ==
  /\ pc = "new" /\ ctrl = "closed"
  /\ ctrl' = "bound" /\ pc' = "lock"
  /\ UNCHANGED <<net, sock, halt, mutex, running, app>>

\* It cannot be created or bound.  The mutex put on one of these paths is not held.
BindFails ==
  /\ pc = "new"
  /\ dhcp_clean_sockets
  /\ pc' = "complete"
  /\ UNCHANGED <<net, mutex, running, app>>

\* The mutex is waited for without limit, but a deleted one is not an error.
TakeMutex ==
  /\ pc = "lock" /\ mutex # "thread"
  /\ mutex' = IF mutex = "free" THEN "thread" ELSE mutex
  /\ pc' = "loop"
  /\ UNCHANGED <<net, sock, ctrl, halt, running, app>>

\* HALT was read, or select() failed: the end of dhcp_server().
Done ==
  /\ pc = "loop"
  /\ dhcp_clean_sockets
  /\ mutex' = IF mutex = "thread" THEN "free" ELSE mutex
  /\ pc' = "complete"
  /\ UNCHANGED <<net, running, app>>

Halted == halt /\ ctrl = "bound" /\ Done
SelectFails == ~halt /\ Done
-----------------------------------------------------------------------------
(* Start and stop, by a thread of the application or wlan_stop() *)

\* memset() of dhcps.
Cleared ==
  /\ mapping' = <<>> /\ current_ip' = 0 /\ job' = NoJob
  /\ told' = [m \in Clients |-> NoAddr] /\ several' = {}

\* dhcp_server_start(): all is well.
dhcp_server_start ==
  /\ app = "idle" /\ ~running /\ sock = "closed"
  /\ Cleared
  /\ sock' = "open" /\ mutex' = "free" /\ pc' = "new" /\ running' = TRUE
  /\ UNCHANGED <<ctrl, halt, app>>

\* A step of dhcp_server_init(), or the creation of the thread, fails.  When it is the
\* DNS server, the socket stays open and is forgotten; so is one forgotten before.
StartFails ==
  /\ app = "idle" /\ ~running
  /\ Cleared
  /\ \/ UNCHANGED sock
     \/ sock = "closed" /\ sock' = "leaked"
  /\ mutex' = "none"
  /\ UNCHANGED <<pc, ctrl, halt, running, app>>

\* send_ctrl_msg(): a datagram to the control socket, lost when it is not bound yet.
\* It fails, and the server is left as it is, or the mutex is waited for.
dhcp_send_halt(sent) ==
  /\ app = "idle" /\ running
  /\ halt' = (halt \/ (sent /\ ctrl = "bound"))
  /\ app' = IF sent THEN "free" ELSE "idle"
  /\ UNCHANGED <<net, pc, sock, ctrl, mutex, running>>

\* Mutant: the sockets are closed without waiting for the thread.
dhcp_free_allocations_unlocked ==
  /\ app = "free"
  /\ dhcp_clean_sockets
  /\ mutex' = "none" /\ app' = "sleep"
  /\ UNCHANGED <<net, pc, running>>

\* dhcp_free_allocations(), when it gets the mutex.
dhcp_free_allocations ==
  /\ app = "free" /\ mutex = "free"
  /\ dhcp_clean_sockets
  /\ mutex' = "none" /\ app' = "sleep"
  /\ UNCHANGED <<net, pc, running>>

\* The mutex is not had within 10 s: dhcp_server_stop() gives up, dhcpd_running stays set.
HaltTimeout ==
  /\ app = "free" /\ mutex = "thread"
  /\ app' = "idle"
  /\ UNCHANGED <<net, pc, sock, ctrl, halt, mutex, running>>

\* The rest of dhcp_server_stop(), after its 50 ms.
DeleteThread ==
  /\ app = "sleep"
  /\ pc' = "none" /\ running' = FALSE /\ app' = "idle" /\ halt' = FALSE
  /\ ctrl' = IF ctrl = "bound" THEN "leaked" ELSE ctrl
  /\ UNCHANGED <<net, sock, mutex>>
-----------------------------------------------------------------------------
Init ==
  /\ mapping = <<>> /\ current_ip = 0 /\ job = NoJob
  /\ told = [m \in Clients |-> NoAddr] /\ several = {}
  /\ pc = "none" /\ sock = "closed" /\ ctrl = "closed" /\ halt = FALSE
  /\ mutex = "none" /\ running = FALSE /\ app = "idle"

Handle == ProcessOption \/ EndOptions \/ next_yiaddr \/ \E sent \in BOOLEAN : make_response(sent)

Thread ==
  \/ BindCtrl \/ BindFails \/ TakeMutex \/ Halted \/ SelectFails
  \/ \E m \in Messages : Receive(m)
  \/ Handle

Application ==
  \/ dhcp_server_start \/ StartFails
  \/ \E sent \in BOOLEAN : dhcp_send_halt(sent)
  \/ dhcp_free_allocations \/ HaltTimeout \/ DeleteThread

Next == Thread \/ Application

\* The thread that handles a message does nothing else and is not stopped.
Spec == Init /\ [][Next]_vars /\ WF_vars(Handle)
-----------------------------------------------------------------------------
Addr == Subnet \cup {Outside, NoAddr}

TypeOK ==
  /\ mapping \in Seq([mac : Clients, ip : Subnet]) /\ Len(mapping) <= MAC_IP_CACHE_SIZE
  /\ current_ip \in Subnet
  /\ job \in [mac : Clients, ciaddr : Addr, opts : Seq(Option),
              client_ip : Addr, need_ip : BOOLEAN, got_ip : BOOLEAN,
              response : {"NONE", "OFFER", "ACK", "NAK"}, one : BOOLEAN]
  /\ pc \in {"none", "new", "lock", "loop", "option", "yiaddr", "respond", "complete"}
  /\ sock \in {"closed", "open", "leaked"} /\ ctrl \in {"closed", "bound", "leaked"}
  /\ halt \in BOOLEAN /\ mutex \in {"none", "free", "thread"}
  /\ running \in BOOLEAN /\ app \in {"idle", "free", "sleep"}
  /\ told \in [Clients -> Addr] /\ several \subseteq Clients

\* A client in the table is not acknowledged any other address than its own, and its address
\* is not acknowledged to anybody else: ac_valid_ip() and the two look-ups of
\* process_dhcp_message() ("if yes, it allows the device to continue with the requested
\* IP address"), whatever the other clients send, whatever was offered in between and once
\* the table is full.  A client whose message named several addresses is excepted: got_ip,
\* set for the first, then acknowledges the last.
TableRespected ==
  \A i \in DOMAIN mapping, m \in Clients \ several :
    told[m] # NoAddr => ((told[m] = mapping[i].ip) <=> (m = mapping[i].mac))

\* The sockets are open, and the mutex is held, as long as the thread handles a message:
\* dhcp_free_allocations() waits for the mutex before it closes what the thread uses.
SocketKept ==
  pc \in {"option", "yiaddr", "respond"} => sock = "open" /\ mutex = "thread" /\ app # "sleep"

\* process_dhcp_message() ends, whatever is in the table: the loop of next_yiaddr() has no
\* other bound than an address that is free, and goes on for ever only when none is (a subnet
\* with no more hosts than the table has entries).
MessageHandled ==
  (pc = "option") ~> (\/ pc \in {"loop", "complete", "none"}
                      \/ \A a \in Subnet : ~ac_valid_ip(a))

\* The server implements the pool of addresses: what is bound is what is in its table, and
\* what it promises is what it acknowledges to a client that names one address.
Pool == INSTANCE AddressPool WITH
          Hosts <- Subnet \ {MyIp, 0, Size - 1},
          Capacity <- MAC_IP_CACHE_SIZE,
          binding <- [m \in Clients |-> ac_lookup_mac(m)],
          told <- [m \in Clients |-> IF m \in several THEN NoAddr ELSE told[m]]

\* Every step of process_dhcp_message(), next_yiaddr() and make_response() is one the pool
\* allows: a client once bound keeps its address for the life of the server, which only
\* dhcp_server_init() clears.
ImplementsPool == Pool!Spec
=============================================================================
