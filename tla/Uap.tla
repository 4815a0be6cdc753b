-------------------------------- MODULE Uap --------------------------------
(***************************************************************************)
(* The micro-AP side of the connection manager (wlcmgr/wlan.c) and its     *)
(* life cycle: the list of network profiles, the calls that start and stop *)
(* a network, uap_state_machine() in the thread cm_main, the commands it   *)
(* sends to the firmware under the command lock, and wlan_start() and      *)
(* wlan_stop(), which tear the thread down under whatever it is doing,     *)
(* once no scan or connection of the station has scan_lock.                *)
(*                                                                         *)
(* A profile is its slot in wlan.networks and its kind; names are unique,  *)
(* so a call by name is a call by slot.  A station's profile is to this    *)
(* side like an empty slot.  All commands that start a network are one,    *)
(* the last.  Messages for the station and events of clients change        *)
(* nothing here.  No other thread completes a command between cm_main's    *)
(* release of the command lock and its reading of cmd_resp_status.         *)
(***************************************************************************)
EXTENDS Integers, Sequences

CONSTANTS
  WLAN_MAX_KNOWN_NETWORKS,  \* slots
  MAX_EVENTS,               \* length of the queue wlan.events
  Kinds                     \* profiles that are added: "static", "dhcp" by their address

ASSUME UapAssumption ==
  /\ WLAN_MAX_KNOWN_NETWORKS \in Nat \ {0} /\ MAX_EVENTS \in Nat \ {0}
  /\ Kinds \subseteq {"static", "dhcp"}

Slots == 1 .. WLAN_MAX_KNOWN_NETWORKS
NoSlot == 0
Start(i) == <<"START", i>>
Msgs == {Start(i) : i \in Slots}
          \cup {<<e, NoSlot>> : e \in {"STOP", "UAP_STARTED", "UAP_STOPPED", "NET_ADDR_CONFIG"}}
Event(e) == <<e, NoSlot>>

VARIABLES
  networks,             \* the kind of each slot, or "empty"
  uap_state,
  cur_uap_network_idx,
  events,               \* the queue: whether it exists, what is in it, and (history)
                        \* whether an event was dropped because it was full
  running,              \* wlan.running
  cm,                   \* where cm_main is
  command_lock,         \* "free" or who holds it; "dead" when a deleted thread does
  fw,                   \* the firmware: the access point is on; the command to answer
  netif_up,             \* the uAP interface is up
  stop,                 \* where wlan_stop() is
  scan_lock,            \* "free", or a scan or connection of the "station" has it, or "gone"
  report                \* history: the last start handled has had "none" yet; "made" otherwise

vars == <<networks, uap_state, cur_uap_network_idx, events, running, cm, command_lock, fw,
          netif_up, stop, scan_lock, report>>
life == <<running, stop, scan_lock>>

\* os_queue_send() with OS_NO_WAIT: on a full queue it fails and the message is gone.
Full == Len(events.q) >= MAX_EVENTS
\* Mutant: the queue is taken to have room.
Posted_unchecked(ev, m) ==
  IF ~ev.there THEN ev ELSE [ev EXCEPT !.q = Append(@, m)]
Posted(ev, m) ==
  IF ~ev.there THEN ev
  ELSE IF Len(ev.q) < MAX_EVENTS THEN [ev EXCEPT !.q = Append(@, m)] ELSE [ev EXCEPT !.lost = TRUE]

IsUap(i) == i \in Slots /\ networks[i] # "empty"
-----------------------------------------------------------------------------
(* The application's calls *)

wlan_add_network(kind) ==
  /\ events.there
  /\ \E pos \in Slots :
       /\ networks[pos] = "empty" /\ \A i \in 1 .. pos - 1 : networks[i] # "empty"
       /\ networks' = [networks EXCEPT ![pos] = kind]
  /\ UNCHANGED <<uap_state, cur_uap_network_idx, events, cm, command_lock, fw, netif_up, life, report>>

\* Refused only when the network is the current one and has its address.
wlan_remove_network(i) ==
  /\ running /\ networks[i] # "empty"
  /\ ~(cur_uap_network_idx = i /\ uap_state = "IP_UP")
  /\ networks' = [networks EXCEPT ![i] = "empty"]
  /\ UNCHANGED <<uap_state, cur_uap_network_idx, events, cm, command_lock, fw, netif_up, life, report>>

wlan_start_network(i) ==
  /\ events.there /\ ~Full
  /\ uap_state # "IP_UP" /\ IsUap(i)
  /\ events' = [events EXCEPT !.q = Append(@, Start(i))]
  /\ UNCHANGED <<networks, uap_state, cur_uap_network_idx, cm, command_lock, fw, netif_up, life, report>>

\* The interface goes down at once, whether or not the request then fits into the queue.
wlan_stop_network(i) ==
  /\ events.there /\ IsUap(i)
  /\ netif_up' = FALSE
  /\ events' = IF Full THEN events ELSE [events EXCEPT !.q = Append(@, Event("STOP"))]
  /\ UNCHANGED <<networks, uap_state, cur_uap_network_idx, cm, command_lock, fw, life, report>>
-----------------------------------------------------------------------------
(* cm_main *)

\* os_queue_recv(), when no stop was requested.
Received(m) == cm = "idle" /\ stop # "ack" /\ events.q # <<>> /\ Head(events.q) = m
Rest == [events EXCEPT !.q = Tail(@)]

\* CM_UAP_USER_REQUEST_START.  do_start() of a profile that has gone meanwhile does nothing.
RequestStart(i) ==
  /\ Received(Start(i))
  /\ events' = Rest
  /\ cur_uap_network_idx' = i
  /\ cm' = IF IsUap(i) THEN "start" ELSE "idle"
  /\ report' = IF IsUap(i) THEN "none" ELSE report
  /\ UNCHANGED <<networks, uap_state, command_lock, fw, netif_up, life>>

\* do_start() gives up before the command: the channel is not allowed, or the configuration failed.
StartRefused ==
  /\ cm = "start"
  /\ cm' = "idle" /\ report' = "made"  \* WLAN_REASON_UAP_START_FAILED
  /\ UNCHANGED <<networks, uap_state, cur_uap_network_idx, events, command_lock, fw, netif_up, life>>

RequestStop ==
  /\ Received(Event("STOP"))
  /\ events' = Rest
  /\ cm' = IF uap_state # "INITIALIZING" /\ IsUap(cur_uap_network_idx) THEN "stop" ELSE "idle"
  /\ UNCHANGED <<networks, uap_state, cur_uap_network_idx, command_lock, fw, netif_up, life, report>>

\* wifi_uap_prepare_and_send_cmd(): wifi_get_command_lock(), then the command is sent.
SendCommand ==
  /\ cm \in {"start", "stop"} /\ command_lock = "free"
  /\ command_lock' = "cm_main"
  /\ fw' = [fw EXCEPT !.cmd = cm]
  /\ cm' = IF cm = "start" THEN "start_wait" ELSE "stop_wait"
  /\ UNCHANGED <<networks, uap_state, cur_uap_network_idx, events, netif_up, life, report>>

\* Mutant: a start that the firmware refuses is not reported.
CommandDone_silent ==
  /\ command_lock' = "free"
  /\ \/ cm = "start_ok" /\ uap_state' = "CONFIGURED"
     \/ cm = "stop_ok" /\ uap_state' = "INITIALIZING"
     \/ cm \in {"start_fail", "stop_fail"} /\ UNCHANGED uap_state
  /\ cm' = "idle"
  /\ UNCHANGED <<networks, cur_uap_network_idx, events, fw, netif_up, life, report>>
\* do_start() and do_stop() after the response.
CommandDone ==
  /\ command_lock' = "free"
  /\ \/ cm = "start_ok" /\ uap_state' = "CONFIGURED" /\ UNCHANGED report
     \/ cm = "start_fail" /\ report' = "made" /\ UNCHANGED uap_state  \* WLAN_REASON_UAP_START_FAILED
     \/ cm = "stop_ok" /\ uap_state' = "INITIALIZING" /\ UNCHANGED report
     \/ cm = "stop_fail" /\ UNCHANGED <<uap_state, report>>
  /\ cm' = "idle"
  /\ UNCHANGED <<networks, cur_uap_network_idx, events, fw, netif_up, life>>

\* Mutant: WIFI_EVENT_UAP_STARTED is believed in every state.
EventStarted_unchecked ==
  /\ Received(Event("UAP_STARTED"))
  /\ uap_state' = "STARTED" /\ netif_up' = TRUE
  /\ events' = Posted(Rest, Event("NET_ADDR_CONFIG"))
  /\ UNCHANGED <<networks, cur_uap_network_idx, cm, command_lock, fw, life, report>>
\* WIFI_EVENT_UAP_STARTED.  Without a uAP profile there is no interface and
\* net_configure_address() fails; it posts WIFI_EVENT_UAP_NET_ADDR_CONFIG otherwise.
EventStarted ==
  /\ Received(Event("UAP_STARTED"))
  /\ \/ /\ uap_state = "CONFIGURED" /\ IsUap(cur_uap_network_idx)
        /\ uap_state' = "STARTED" /\ netif_up' = TRUE
        /\ events' = Posted(Rest, Event("NET_ADDR_CONFIG"))
        /\ UNCHANGED report
     \/ /\ uap_state = "CONFIGURED" /\ ~IsUap(cur_uap_network_idx)
        /\ report' = "made"  \* WLAN_REASON_ADDRESS_FAILED
        /\ events' = Rest /\ UNCHANGED <<uap_state, netif_up>>
     \/ /\ uap_state # "CONFIGURED"
        /\ events' = Rest /\ UNCHANGED <<uap_state, netif_up, report>>
  /\ UNCHANGED <<networks, cur_uap_network_idx, cm, command_lock, fw, life>>

\* WIFI_EVENT_UAP_NET_ADDR_CONFIG, whose reason is always success.  An empty slot reads as static.
EventAddrConfig ==
  /\ Received(Event("NET_ADDR_CONFIG"))
  /\ events' = Rest
  /\ IF uap_state = "STARTED"
     THEN LET static == networks[cur_uap_network_idx] # "dhcp"
          IN  /\ uap_state' = IF static THEN "IP_UP" ELSE "INITIALIZING"
              /\ report' = "made"  \* WLAN_REASON_UAP_SUCCESS, or WLAN_REASON_ADDRESS_FAILED
     ELSE UNCHANGED <<uap_state, report>>
  /\ UNCHANGED <<networks, cur_uap_network_idx, cm, command_lock, fw, netif_up, life>>

EventStopped ==
  /\ Received(Event("UAP_STOPPED"))
  /\ events' = Rest
  /\ report' = "made"  \* WLAN_REASON_UAP_STOPPED
  /\ UNCHANGED <<networks, uap_state, cur_uap_network_idx, cm, command_lock, fw, netif_up, life>>

\* A message, any message, wakes the thread after stop_request was set.
ThreadStops ==
  /\ cm = "idle" /\ stop = "ack" /\ events.q # <<>>
  /\ cm' = "stopped"
  /\ events' = Rest
  /\ UNCHANGED <<networks, uap_state, cur_uap_network_idx, command_lock, fw, netif_up, life, report>>
-----------------------------------------------------------------------------
(* The station's side, which shares scan_lock with wlan_stop() *)

\* wlan_scan(), wlan_connect() or wlan_reassociate() gets the lock.  Its caller has found
\* wlan.running set, before it began to wait.
ScanLockTaken ==
  /\ scan_lock = "free"
  /\ scan_lock' = "station"
  /\ UNCHANGED <<networks, uap_state, cur_uap_network_idx, events, running, cm, command_lock, fw,
                 netif_up, stop, report>>

\* cm_main puts it when the scan or the attempt has ended, wlan_reassociate() when the queue is
\* full.  Nothing says that either happens.
ScanLockPut ==
  /\ scan_lock = "station" /\ (cm = "idle" \/ Full)
  /\ scan_lock' = "free"
  /\ UNCHANGED <<networks, uap_state, cur_uap_network_idx, events, running, cm, command_lock, fw,
                 netif_up, stop, report>>

Station == ScanLockTaken \/ ScanLockPut
-----------------------------------------------------------------------------
(* Driver and firmware: the response, and the event that goes with a good one *)

BssResponse(ok) ==
  /\ fw.cmd # "none"
  /\ fw' = [on |-> IF ok THEN fw.cmd = "start" ELSE fw.on, cmd |-> "none"]
  /\ events' = IF ok THEN Posted(events, Event(IF fw.cmd = "start" THEN "UAP_STARTED" ELSE "UAP_STOPPED"))
               ELSE events
  /\ \/ /\ command_lock = "cm_main"
        /\ cm' = CASE cm = "start_wait" -> IF ok THEN "start_ok" ELSE "start_fail"
                   [] cm = "stop_wait" -> IF ok THEN "stop_ok" ELSE "stop_fail"
        /\ UNCHANGED <<command_lock, stop>>
     \/ /\ command_lock = "wlan_stop"
        /\ command_lock' = "free" /\ stop' = "delete"
        /\ UNCHANGED cm
     \/ /\ command_lock = "dead"
        /\ UNCHANGED <<cm, command_lock, stop>>
  /\ UNCHANGED <<networks, uap_state, cur_uap_network_idx, running, scan_lock, netif_up, report>>
-----------------------------------------------------------------------------
(* Life cycle *)

\* On failure (no memory for the queue, the thread or the semaphore) all but the settings is undone.
wlan_start(ok) ==
  /\ ~running /\ stop = "idle"
  /\ networks' = [i \in Slots |-> "empty"]
  /\ uap_state' = "INITIALIZING" /\ cur_uap_network_idx' = NoSlot
  /\ events' = [there |-> ok, q |-> <<>>, lost |-> FALSE]
  /\ cm' = IF ok THEN "idle" ELSE "gone"
  /\ running' = ok /\ scan_lock' = IF ok THEN "free" ELSE "gone"
  /\ report' = "made"
  /\ UNCHANGED <<command_lock, fw, netif_up, stop>>

\* wlan_stop(), in the steps that others can come between: running is cleared,
wlan_stop ==
  /\ running /\ stop = "idle"
  /\ running' = FALSE
  /\ stop' = "scan_lock"
  /\ UNCHANGED <<networks, uap_state, cur_uap_network_idx, events, scan_lock, cm, command_lock, fw, netif_up, report>>

\* os_semaphore_get(&wlan.scan_lock, OS_WAIT_FOREVER) returns, it is deleted and stop_request set,
StopRequested ==
  /\ stop = "scan_lock" /\ scan_lock = "free"
  /\ scan_lock' = "gone"
  /\ stop' = "ack"
  /\ UNCHANGED <<networks, uap_state, cur_uap_network_idx, events, running, cm, command_lock, fw, netif_up, report>>

\* the thread has stopped, or is not heard of for total_wait_time: it waits for a message or a command,
ThreadSilent ==
  cm \in {"start", "start_wait", "stop", "stop_wait"} \/ (cm = "idle" /\ events.q = <<>>)
\* Mutant: no limit to the wait.
StopAcknowledged_forever ==
  /\ stop = "ack" /\ cm = "stopped"
  /\ stop' = "unregister"
  /\ UNCHANGED <<networks, uap_state, cur_uap_network_idx, events, running, scan_lock, cm, command_lock, fw, netif_up, report>>
StopAcknowledged ==
  /\ stop = "ack" /\ (cm = "stopped" \/ ThreadSilent)
  /\ stop' = "unregister"
  /\ UNCHANGED <<networks, uap_state, cur_uap_network_idx, events, running, scan_lock, cm, command_lock, fw, netif_up, report>>

\* the queue is unregistered and deleted and the state is looked at,
StopUnregisters ==
  /\ stop = "unregister"
  /\ events' = [events EXCEPT !.there = FALSE, !.q = <<>>]
  /\ stop' = IF uap_state \in {"STARTED", "IP_UP"} THEN "uap_stop" ELSE "delete"
  /\ UNCHANGED <<networks, uap_state, cur_uap_network_idx, running, scan_lock, cm, command_lock, fw, netif_up, report>>

\* the access point is stopped,
StopsUap ==
  /\ stop = "uap_stop" /\ command_lock = "free"
  /\ command_lock' = "wlan_stop"
  /\ fw' = [fw EXCEPT !.cmd = "stop"]
  /\ stop' = "uap_wait"
  /\ UNCHANGED <<networks, uap_state, cur_uap_network_idx, events, running, scan_lock, cm, netif_up, report>>

\* and the thread deleted, with what it holds.
DeletesThread ==
  /\ stop = "delete"
  /\ cm' = "gone"
  /\ command_lock' = IF command_lock = "cm_main" THEN "dead" ELSE command_lock
  /\ netif_up' = FALSE
  /\ stop' = "idle"
  /\ UNCHANGED <<networks, uap_state, cur_uap_network_idx, events, running, scan_lock, fw, report>>
-----------------------------------------------------------------------------
Init ==
  /\ networks = [i \in Slots |-> "empty"]
  /\ uap_state = "INITIALIZING" /\ cur_uap_network_idx = NoSlot
  /\ events = [there |-> FALSE, q |-> <<>>, lost |-> FALSE]
  /\ running = FALSE /\ cm = "gone" /\ command_lock = "free"
  /\ fw = [on |-> FALSE, cmd |-> "none"]
  /\ netif_up = FALSE /\ stop = "idle" /\ scan_lock = "gone" /\ report = "made"

Application ==
  \/ \E kind \in Kinds : wlan_add_network(kind)
  \/ \E i \in Slots : wlan_remove_network(i) \/ wlan_start_network(i) \/ wlan_stop_network(i)

cm_main ==
  \/ \E i \in Slots : RequestStart(i)
  \/ RequestStop \/ StartRefused \/ SendCommand \/ CommandDone
  \/ EventStarted \/ EventAddrConfig \/ EventStopped \/ ThreadStops

StopStep == StopRequested \/ StopAcknowledged \/ StopUnregisters \/ StopsUap \/ DeletesThread

Firmware == \E ok \in BOOLEAN : BssResponse(ok)

Next == Application \/ cm_main \/ Station \/ Firmware \/ wlan_stop \/ StopStep
          \/ \E ok \in BOOLEAN : wlan_start(ok)

Spec == Init /\ [][Next]_vars

\* A call that has begun and a thread that can run do run; every command is answered (the
\* driver asserts that it is, within 20 s).  wlan_stop() gets scan_lock when that is free again
\* and again: who else waits for it took it once at most, as running is clear.
FairSpec == Spec /\ WF_vars(cm_main) /\ WF_vars(Firmware) /\ WF_vars(StopStep)
                 /\ SF_vars(StopRequested)
-----------------------------------------------------------------------------
TypeOK ==
  /\ networks \in [Slots -> Kinds \cup {"empty"}]
  /\ uap_state \in {"INITIALIZING", "CONFIGURED", "STARTED", "IP_UP"}
  /\ cur_uap_network_idx \in Slots \cup {NoSlot}
  /\ events \in [there : BOOLEAN, q : Seq(Msgs), lost : BOOLEAN] /\ Len(events.q) <= MAX_EVENTS
  /\ running \in BOOLEAN /\ netif_up \in BOOLEAN
  /\ cm \in {"gone", "idle", "stopped", "start", "start_wait", "start_ok", "start_fail",
             "stop", "stop_wait", "stop_ok", "stop_fail"}
  /\ command_lock \in {"free", "cm_main", "wlan_stop", "dead"}
  /\ fw \in [on : BOOLEAN, cmd : {"none", "start", "stop"}]
  /\ stop \in {"idle", "scan_lock", "ack", "unregister", "uap_stop", "uap_wait", "delete"}
  /\ scan_lock \in {"free", "station", "gone"}
  /\ report \in {"none", "made"}

\* Past INITIALIZING the access point is on in the firmware: an event that is late, from before
\* a stop, is not mistaken for the start that is under way (wlan.c, uap_state_machine()).
ApRuns == running /\ uap_state # "INITIALIZING" /\ cm # "stop_ok" => fw.on

Queued(e) == \E k \in DOMAIN events.q : events.q[k] = Event(e)

\* A start that was handled and has no report yet has one coming: the command is under way, or
\* the event that the state waits for is in the queue, unless a full queue lost it.
StartAnswered ==
  running /\ report = "none" /\ ~events.lost =>
    \/ cm # "idle"
    \/ uap_state = "INITIALIZING" /\ Queued("UAP_STOPPED")
    \/ uap_state = "CONFIGURED" /\ Queued("UAP_STARTED")
    \/ uap_state = "STARTED" /\ Queued("NET_ADDR_CONFIG")

\* wlan_stop() returns, whatever cm_main is doing and even when nothing wakes it, unless a scan
\* or connection keeps scan_lock for ever (wlan.c, wlan_stop(): "it must be completed").
WlanStopReturns ==
  []<>(scan_lock # "station") => ((stop # "idle") ~> (stop = "idle"))

\* wlan.c, wlan_stop(): it waits for a scan to end, "Otherwise deadlock situation might arrive as
\* both of them share command_lock semaphore".  The lock is not held by a thread that is gone.
CommandLockOwned == command_lock # "dead"

=============================================================================
