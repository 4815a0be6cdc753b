----------------------------- MODULE UapProofs -----------------------------
(***************************************************************************)
(* Proofs about the micro-AP side of the connection manager, for any       *)
(* number of profiles and any capacity of the queue.                       *)
(*                                                                         *)
(* The properties rest on who holds the command lock (LockInv), on what a  *)
(* service that runs has (LifeInv), and on what the responses under way    *)
(* say about the firmware (RunInv) and about the queue (ReportInv).        *)
(***************************************************************************)
EXTENDS Uap, TLAPS

Waiting == {"start_wait", "stop_wait"}
Busy == Waiting \cup {"start_ok", "start_fail", "stop_ok", "stop_fail"}
Starting == {"start", "start_wait", "start_ok", "start_fail"}

\* The command lock is cm_main's exactly from the command to do_start()'s or do_stop()'s end;
\* a command without an answer is that of the holder, or of one that was deleted.
LockInv ==
  /\ command_lock = "cm_main" <=> cm \in Busy
  /\ cm = "start_wait" => fw.cmd = "start"
  /\ cm = "stop_wait" => fw.cmd = "stop"
  /\ fw.cmd # "none" => cm \in Waiting \/ command_lock \in {"wlan_stop", "dead"}
  /\ command_lock = "wlan_stop" => stop = "uap_wait"

\* While the service runs no wlan_stop() is under way and the queue is there.
LifeInv ==
  /\ running => stop = "idle" /\ events.there
  /\ ~running /\ stop = "idle" => cm = "gone"

\* The state agrees with the firmware, the good response to a start included.  With a lost
\* lock no command is sent and the state stays where wlan_start() put it.
RunInv ==
  running =>
    /\ uap_state # "INITIALIZING" /\ cm # "stop_ok" => fw.on
    /\ cm = "start_ok" => fw.on
    /\ command_lock = "dead" => uap_state = "INITIALIZING"

\* The event that the state waits for is in the queue.
Awaited ==
  \/ uap_state = "INITIALIZING" /\ Queued("UAP_STOPPED")
  \/ uap_state = "CONFIGURED" /\ Queued("UAP_STARTED")
  \/ uap_state = "STARTED" /\ Queued("NET_ADDR_CONFIG")

\* A good response is in the queue before cm_main goes on; a start without a report is at
\* work or awaits an event, also while a stop is at work that may fail.
ReportInv ==
  running /\ ~events.lost =>
    /\ cm = "start_ok" => Queued("UAP_STARTED")
    /\ cm = "stop_ok" => Queued("UAP_STOPPED")
    /\ report = "none" => cm \in Starting \/ Awaited

UapInv == TypeOK /\ LockInv /\ LifeInv /\ RunInv /\ ReportInv
-----------------------------------------------------------------------------
(* The queue *)

LEMMA MsgsHold ==
  /\ \A i \in Slots : Start(i) \in Msgs
  /\ \A e \in {"STOP", "UAP_STARTED", "UAP_STOPPED", "NET_ADDR_CONFIG"} : Event(e) \in Msgs
BY DEF Msgs, Start, Event

EventType == {ev \in [there : BOOLEAN, q : Seq(Msgs), lost : BOOLEAN] : Len(ev.q) <= MAX_EVENTS}

LEMMA PostedType ==
  ASSUME NEW ev \in EventType, NEW m \in Msgs
  PROVE  /\ Posted(ev, m) \in EventType
         /\ Posted(ev, m).there = ev.there
<1>1. Append(ev.q, m) \in Seq(Msgs) /\ Len(Append(ev.q, m)) = Len(ev.q) + 1 /\ Len(ev.q) \in Nat
  BY DEF EventType
<1>2. ASSUME Len(ev.q) < MAX_EVENTS PROVE [ev EXCEPT !.q = Append(ev.q, m)] \in EventType
  BY <1>1, <1>2, UapAssumption DEF EventType
<1>3. [ev EXCEPT !.lost = TRUE] \in EventType
  BY DEF EventType
<1> QED
  BY <1>2, <1>3 DEF Posted, EventType

LEMMA SentType ==
  ASSUME events \in EventType, ~Full, NEW m \in Msgs
  PROVE  [events EXCEPT !.q = Append(@, m)] \in EventType
<1>1. Append(events.q, m) \in Seq(Msgs) /\ Len(Append(events.q, m)) = Len(events.q) + 1
      /\ Len(events.q) \in Nat
  BY DEF EventType
<1> QED
  BY <1>1, UapAssumption DEF EventType, Full

LEMMA RestType ==
  ASSUME events \in EventType, events.q # <<>>
  PROVE  /\ Rest \in EventType
         /\ Rest.there = events.there /\ Rest.lost = events.lost /\ Rest.q = Tail(events.q)
<1>1. Tail(events.q) \in Seq(Msgs) /\ Len(Tail(events.q)) = Len(events.q) - 1
      /\ Len(events.q) \in Nat
  BY DEF EventType
<1> QED
  BY <1>1, UapAssumption DEF Rest, EventType

In(q, m) == \E k \in DOMAIN q : q[k] = m

LEMMA AppendHas ==
  ASSUME NEW q \in Seq(Msgs), NEW m \in Msgs, NEW x
  PROVE  /\ In(Append(q, m), m)
         /\ In(q, x) => In(Append(q, m), x)
<1>1. Append(q, m)[Len(q) + 1] = m /\ Len(q) + 1 \in DOMAIN Append(q, m)
  OBVIOUS
<1>2. \A k \in DOMAIN q : k \in DOMAIN Append(q, m) /\ Append(q, m)[k] = q[k]
  OBVIOUS
<1> QED
  BY <1>1, <1>2 DEF In

LEMMA TailHas ==
  ASSUME NEW q \in Seq(Msgs), q # <<>>, NEW x, In(q, x), Head(q) # x
  PROVE  In(Tail(q), x)
<1>1. PICK k \in DOMAIN q : q[k] = x
  BY DEF In
<1>2. k # 1
  BY <1>1
<1>3. k - 1 \in DOMAIN Tail(q) /\ Tail(q)[k - 1] = q[k]
  BY <1>1, <1>2
<1> QED
  BY <1>1, <1>3 DEF In
-----------------------------------------------------------------------------

\* The station's side touches scan_lock only.
LEMMA StationLeaves ==
  ASSUME Station
  PROVE  /\ scan_lock' \in {"free", "station", "gone"}
         /\ UNCHANGED <<networks, uap_state, cur_uap_network_idx, events, running, cm,
                        command_lock, fw, netif_up, stop, report>>
BY DEF Station, ScanLockTaken, ScanLockPut

(* Types.  Of a response LockInv is needed: it goes to one who waits. *)
LEMMA TypeStep ==
  ASSUME TypeOK, LockInv, [Next]_vars
  PROVE  TypeOK'
<1> events \in EventType
  BY DEF TypeOK, EventType
<1>1. ASSUME NEW kind \in Kinds, wlan_add_network(kind) PROVE TypeOK'
  BY <1>1 DEF wlan_add_network, IsUap, life, TypeOK
<1>2. ASSUME NEW i \in Slots, wlan_remove_network(i) PROVE TypeOK'
  BY <1>2 DEF wlan_remove_network, IsUap, life, TypeOK
<1>3. ASSUME NEW i \in Slots, wlan_start_network(i) PROVE TypeOK'
  <2>1. events' \in EventType
    BY <1>3, SentType, MsgsHold DEF wlan_start_network
  <2> QED
    BY <1>3, <2>1 DEF wlan_start_network, life, TypeOK, EventType
<1>4. ASSUME NEW i \in Slots, wlan_stop_network(i) PROVE TypeOK'
  <2>1. events' \in EventType
    BY <1>4, SentType, MsgsHold DEF wlan_stop_network
  <2>2. netif_up' \in BOOLEAN
    BY <1>4, Zenon DEF wlan_stop_network, TypeOK
  <2> QED
    BY <1>4, <2>1, <2>2 DEF wlan_stop_network, life, TypeOK, EventType
<1>5. ASSUME NEW i \in Slots, RequestStart(i) PROVE TypeOK'
  <2>1. events' \in EventType
    BY <1>5, RestType DEF RequestStart, Received
  <2> QED
    BY <1>5, <2>1 DEF RequestStart, life, TypeOK, EventType
<1>6. CASE RequestStop
  <2>1. events' \in EventType
    BY <1>6, RestType DEF RequestStop, Received
  <2> QED
    BY <1>6, <2>1 DEF RequestStop, life, TypeOK, EventType
<1>7. CASE StartRefused
  BY <1>7 DEF StartRefused, life, TypeOK
<1>8. CASE SendCommand
  BY <1>8 DEF SendCommand, life, TypeOK
<1>9. CASE CommandDone
  BY <1>9 DEF CommandDone, life, TypeOK
<1>10. CASE EventStarted
  <2>1. events' \in EventType
    BY <1>10, RestType, PostedType, MsgsHold DEF EventStarted, Received
  <2>2. netif_up' \in BOOLEAN
    BY <1>10, Zenon DEF EventStarted, TypeOK
  <2> QED
    BY <1>10, <2>1, <2>2 DEF EventStarted, life, TypeOK, EventType
<1>11. CASE EventAddrConfig
  <2>1. events' \in EventType
    BY <1>11, RestType DEF EventAddrConfig, Received
  <2> QED
    BY <1>11, <2>1 DEF EventAddrConfig, life, TypeOK, EventType
<1>12. CASE EventStopped
  <2>1. events' \in EventType
    BY <1>12, RestType DEF EventStopped, Received
  <2> QED
    BY <1>12, <2>1 DEF EventStopped, life, TypeOK, EventType
<1>13. CASE ThreadStops
  <2>1. events' \in EventType
    BY <1>13, RestType DEF ThreadStops
  <2> QED
    BY <1>13, <2>1 DEF ThreadStops, life, TypeOK, EventType
<1>14. ASSUME NEW ok \in BOOLEAN, BssResponse(ok) PROVE TypeOK'
  <2>1. events' \in EventType
    BY <1>14, PostedType, MsgsHold DEF BssResponse
  <2>2. fw' \in [on : BOOLEAN, cmd : {"none", "start", "stop"}]
    <3>1. (IF ok THEN fw.cmd = "start" ELSE fw.on) \in BOOLEAN
      BY DEF TypeOK
    <3> QED
      BY <1>14, <3>1 DEF BssResponse
  <2>3. cm' \in Busy \/ cm' = cm
    BY <1>14 DEF BssResponse, LockInv, Waiting, Busy
  <2> QED
    BY <1>14, <2>1, <2>2, <2>3 DEF BssResponse, Busy, Waiting, TypeOK, EventType
<1>15. CASE wlan_stop
  <2>1. running' \in BOOLEAN
    BY <1>15, Zenon DEF wlan_stop
  <2> QED
    BY <1>15, <2>1 DEF wlan_stop, TypeOK
<1>16. CASE StopRequested
  BY <1>16 DEF StopRequested, TypeOK
<1>17. CASE StopAcknowledged
  BY <1>17 DEF StopAcknowledged, TypeOK
<1>18. CASE StopUnregisters
  <2>1. events' \in EventType
    <3>1. <<>> \in Seq(Msgs) /\ Len(<<>>) <= MAX_EVENTS
      BY UapAssumption
    <3> QED
      BY <1>18, <3>1 DEF StopUnregisters, EventType
  <2>2. /\ stop' \in {"uap_stop", "delete"}
        /\ UNCHANGED <<networks, uap_state, cur_uap_network_idx, running, cm, command_lock, fw,
                       netif_up, scan_lock, report>>
    BY <1>18 DEF StopUnregisters
  <2> QED
    BY <2>1, <2>2 DEF TypeOK, EventType
<1>19. CASE StopsUap
  <2>1. fw' \in [on : BOOLEAN, cmd : {"none", "start", "stop"}]
    BY <1>19 DEF StopsUap, TypeOK
  <2> QED
    BY <1>19, <2>1 DEF StopsUap, TypeOK
<1>20. CASE DeletesThread
  <2>1. netif_up' \in BOOLEAN
    BY <1>20, Zenon DEF DeletesThread
  <2> QED
    BY <1>20, <2>1 DEF DeletesThread, TypeOK
<1>21. ASSUME NEW ok \in BOOLEAN, wlan_start(ok) PROVE TypeOK'
  <2>1. events' \in EventType
    BY <1>21, UapAssumption DEF wlan_start, EventType
  <2> QED
    BY <1>21, <2>1 DEF wlan_start, TypeOK, EventType
<1>22. CASE UNCHANGED vars
  BY <1>22 DEF vars, TypeOK
<1>23. CASE Station
  BY <1>23, StationLeaves DEF TypeOK
<1> QED
  BY <1>1, <1>2, <1>3, <1>4, <1>5, <1>6, <1>7, <1>8, <1>9, <1>10, <1>11, <1>12, <1>13, <1>14, <1>15, <1>16, <1>17, <1>18, <1>19, <1>20, <1>21, <1>22, <1>23
     DEF Next, Application, cm_main, StopStep, Firmware

(* The lock and the service *)
LEMMA LockStep ==
  ASSUME TypeOK, LockInv, LifeInv, [Next]_vars
  PROVE  LockInv' /\ LifeInv'
<1>1. ASSUME NEW kind \in Kinds, wlan_add_network(kind) PROVE LockInv' /\ LifeInv'
  BY <1>1 DEF wlan_add_network, IsUap, life, TypeOK, LockInv, LifeInv, Busy, Waiting
<1>2. ASSUME NEW i \in Slots, wlan_remove_network(i) PROVE LockInv' /\ LifeInv'
  BY <1>2 DEF wlan_remove_network, IsUap, life, TypeOK, LockInv, LifeInv, Busy, Waiting
<1>3. ASSUME NEW i \in Slots, wlan_start_network(i) PROVE LockInv' /\ LifeInv'
  BY <1>3 DEF wlan_start_network, IsUap, life, TypeOK, LockInv, LifeInv, Busy, Waiting
<1>4. ASSUME NEW i \in Slots, wlan_stop_network(i) PROVE LockInv' /\ LifeInv'
  BY <1>4 DEF wlan_stop_network, IsUap, life, TypeOK, LockInv, LifeInv, Busy, Waiting
<1>5. ASSUME NEW i \in Slots, RequestStart(i) PROVE LockInv' /\ LifeInv'
  BY <1>5 DEF RequestStart, Received, Rest, life, TypeOK, LockInv, LifeInv, Busy, Waiting
<1>6. CASE RequestStop
  BY <1>6 DEF RequestStop, Received, Rest, life, TypeOK, LockInv, LifeInv, Busy, Waiting
<1>7. CASE StartRefused
  BY <1>7 DEF StartRefused, life, TypeOK, LockInv, LifeInv, Busy, Waiting
<1>8. CASE SendCommand
  BY <1>8 DEF SendCommand, life, TypeOK, LockInv, LifeInv, Busy, Waiting
<1>9. CASE CommandDone
  BY <1>9 DEF CommandDone, life, TypeOK, LockInv, LifeInv, Busy, Waiting
<1>10. CASE EventStarted
  BY <1>10 DEF EventStarted, Received, Rest, life, Posted, TypeOK, LockInv, LifeInv, Busy, Waiting
<1>11. CASE EventAddrConfig
  BY <1>11 DEF EventAddrConfig, Received, Rest, life, TypeOK, LockInv, LifeInv, Busy, Waiting
<1>12. CASE EventStopped
  BY <1>12 DEF EventStopped, Received, Rest, life, TypeOK, LockInv, LifeInv, Busy, Waiting
<1>13. CASE ThreadStops
  BY <1>13 DEF ThreadStops, Rest, life, TypeOK, LockInv, LifeInv, Busy, Waiting
<1>14. ASSUME NEW ok \in BOOLEAN, BssResponse(ok) PROVE LockInv' /\ LifeInv'
  BY <1>14 DEF BssResponse, Posted, TypeOK, LockInv, LifeInv, Busy, Waiting
<1>15. CASE wlan_stop
  BY <1>15 DEF wlan_stop, TypeOK, LockInv, LifeInv, Busy, Waiting
<1>16. CASE StopRequested
  BY <1>16 DEF StopRequested, TypeOK, LockInv, LifeInv, Busy, Waiting
<1>17. CASE StopAcknowledged
  BY <1>17 DEF StopAcknowledged, TypeOK, LockInv, LifeInv, Busy, Waiting
<1>18. CASE StopUnregisters
  BY <1>18 DEF StopUnregisters, TypeOK, LockInv, LifeInv, Busy, Waiting
<1>19. CASE StopsUap
  BY <1>19 DEF StopsUap, TypeOK, LockInv, LifeInv, Busy, Waiting
<1>20. CASE DeletesThread
  BY <1>20 DEF DeletesThread, TypeOK, LockInv, LifeInv, Busy, Waiting
<1>21. ASSUME NEW ok \in BOOLEAN, wlan_start(ok) PROVE LockInv' /\ LifeInv'
  BY <1>21 DEF wlan_start, TypeOK, LockInv, LifeInv, Busy, Waiting
<1>22. CASE UNCHANGED vars
  BY <1>22 DEF vars, TypeOK, LockInv, LifeInv, Busy, Waiting
<1>23. CASE Station
  BY <1>23, StationLeaves DEF TypeOK, LockInv, LifeInv, Busy, Waiting
<1> QED
  BY <1>1, <1>2, <1>3, <1>4, <1>5, <1>6, <1>7, <1>8, <1>9, <1>10, <1>11, <1>12, <1>13, <1>14, <1>15, <1>16, <1>17, <1>18, <1>19, <1>20, <1>21, <1>22, <1>23
     DEF Next, Application, cm_main, StopStep, Firmware

(* State and firmware *)
LEMMA RunStep ==
  ASSUME TypeOK, LockInv, LifeInv, RunInv, [Next]_vars
  PROVE  RunInv'
<1>1. ASSUME NEW kind \in Kinds, wlan_add_network(kind) PROVE RunInv'
  BY <1>1 DEF wlan_add_network, IsUap, life, TypeOK, LockInv, LifeInv, Busy, Waiting, RunInv
<1>2. ASSUME NEW i \in Slots, wlan_remove_network(i) PROVE RunInv'
  BY <1>2 DEF wlan_remove_network, IsUap, life, TypeOK, LockInv, LifeInv, Busy, Waiting, RunInv
<1>3. ASSUME NEW i \in Slots, wlan_start_network(i) PROVE RunInv'
  BY <1>3 DEF wlan_start_network, IsUap, life, TypeOK, LockInv, LifeInv, Busy, Waiting, RunInv
<1>4. ASSUME NEW i \in Slots, wlan_stop_network(i) PROVE RunInv'
  BY <1>4 DEF wlan_stop_network, IsUap, life, TypeOK, LockInv, LifeInv, Busy, Waiting, RunInv
<1>5. ASSUME NEW i \in Slots, RequestStart(i) PROVE RunInv'
  BY <1>5 DEF RequestStart, Received, Rest, life, TypeOK, LockInv, LifeInv, Busy, Waiting, RunInv
<1>6. CASE RequestStop
  BY <1>6 DEF RequestStop, Received, Rest, life, TypeOK, LockInv, LifeInv, Busy, Waiting, RunInv
<1>7. CASE StartRefused
  BY <1>7 DEF StartRefused, life, TypeOK, LockInv, LifeInv, Busy, Waiting, RunInv
<1>8. CASE SendCommand
  BY <1>8 DEF SendCommand, life, TypeOK, LockInv, LifeInv, Busy, Waiting, RunInv
<1>9. CASE CommandDone
  BY <1>9 DEF CommandDone, life, TypeOK, LockInv, LifeInv, Busy, Waiting, RunInv
<1>10. CASE EventStarted
  BY <1>10 DEF EventStarted, Received, Rest, life, Posted, TypeOK, LockInv, LifeInv, Busy, Waiting, RunInv
<1>11. CASE EventAddrConfig
  BY <1>11 DEF EventAddrConfig, Received, Rest, life, TypeOK, LockInv, LifeInv, Busy, Waiting, RunInv
<1>12. CASE EventStopped
  BY <1>12 DEF EventStopped, Received, Rest, life, TypeOK, LockInv, LifeInv, Busy, Waiting, RunInv
<1>13. CASE ThreadStops
  BY <1>13 DEF ThreadStops, Rest, life, TypeOK, LockInv, LifeInv, Busy, Waiting, RunInv
<1>14. ASSUME NEW ok \in BOOLEAN, BssResponse(ok) PROVE RunInv'
  BY <1>14 DEF BssResponse, Posted, TypeOK, LockInv, LifeInv, Busy, Waiting, RunInv
<1>15. CASE wlan_stop
  BY <1>15 DEF wlan_stop, TypeOK, LockInv, LifeInv, Busy, Waiting, RunInv
<1>16. CASE StopRequested
  BY <1>16 DEF StopRequested, TypeOK, LockInv, LifeInv, Busy, Waiting, RunInv
<1>17. CASE StopAcknowledged
  BY <1>17 DEF StopAcknowledged, TypeOK, LockInv, LifeInv, Busy, Waiting, RunInv
<1>18. CASE StopUnregisters
  BY <1>18 DEF StopUnregisters, TypeOK, LockInv, LifeInv, Busy, Waiting, RunInv
<1>19. CASE StopsUap
  BY <1>19 DEF StopsUap, TypeOK, LockInv, LifeInv, Busy, Waiting, RunInv
<1>20. CASE DeletesThread
  BY <1>20 DEF DeletesThread, TypeOK, LockInv, LifeInv, Busy, Waiting, RunInv
<1>21. ASSUME NEW ok \in BOOLEAN, wlan_start(ok) PROVE RunInv'
  BY <1>21 DEF wlan_start, TypeOK, LockInv, LifeInv, Busy, Waiting, RunInv
<1>22. CASE UNCHANGED vars
  BY <1>22 DEF vars, TypeOK, LockInv, LifeInv, Busy, Waiting, RunInv
<1>23. CASE Station
  BY <1>23, StationLeaves DEF TypeOK, LockInv, LifeInv, Busy, Waiting, RunInv
<1> QED
  BY <1>1, <1>2, <1>3, <1>4, <1>5, <1>6, <1>7, <1>8, <1>9, <1>10, <1>11, <1>12, <1>13, <1>14, <1>15, <1>16, <1>17, <1>18, <1>19, <1>20, <1>21, <1>22, <1>23
     DEF Next, Application, cm_main, StopStep, Firmware

-----------------------------------------------------------------------------
(* Reports *)

LEMMA EventsDiffer ==
  /\ \A e, f : e # f => Event(e) # Event(f)
  /\ \A e, i : e # "START" => Event(e) # Start(i)
BY DEF Event, Start

LEMMA PostedHas ==
  ASSUME NEW ev \in EventType, NEW m \in Msgs, ~Posted(ev, m).lost
  PROVE  /\ ~ev.lost
         /\ ev.there => In(Posted(ev, m).q, m)
         /\ \A x : In(ev.q, x) => In(Posted(ev, m).q, x)
<1> ev.q \in Seq(Msgs)
  BY DEF EventType
<1>1. CASE ~ev.there
  BY <1>1 DEF Posted
<1>2. CASE ev.there /\ Len(ev.q) < MAX_EVENTS
  <2>1. Posted(ev, m).q = Append(ev.q, m) /\ Posted(ev, m).lost = ev.lost
    BY <1>2 DEF Posted, EventType
  <2> QED
    BY <2>1, AppendHas
<1>3. CASE ev.there /\ ~(Len(ev.q) < MAX_EVENTS)
  <2>1. Posted(ev, m).lost = TRUE
    BY <1>3 DEF Posted, EventType
  <2> QED
    BY <2>1
<1> QED
  BY <1>1, <1>2, <1>3

\* Where the queue only grows nothing awaited is lost.
LEMMA AwaitedKept ==
  ASSUME \A x : In(events.q, x) => In(events'.q, x), uap_state' = uap_state
  PROVE  /\ \A e : Queued(e) => Queued(e)'
         /\ Awaited => Awaited'
BY DEF Awaited, Queued, In

LEMMA ReportStep ==
  ASSUME TypeOK, LockInv, LifeInv, ReportInv, [Next]_vars
  PROVE  ReportInv'
<1> events \in EventType
  BY DEF TypeOK, EventType
<1> events.q \in Seq(Msgs)
  BY DEF EventType
<1> SUFFICES ASSUME running', ~events'.lost PROVE ReportInv'
  BY DEF ReportInv
<1>a. ASSUME running, UNCHANGED <<uap_state, cm, report>>,
             events'.lost = events.lost, \A x : In(events.q, x) => In(events'.q, x)
      PROVE  ReportInv'
  BY <1>a, AwaitedKept DEF ReportInv
<1>s. ASSUME NEW m \in Msgs, events' = [events EXCEPT !.q = Append(@, m)]
      PROVE  events'.lost = events.lost /\ \A x : In(events.q, x) => In(events'.q, x)
  <2>1. events'.q = Append(events.q, m) /\ events'.lost = events.lost
    BY <1>s DEF EventType
  <2> QED
    BY <2>1, AppendHas
<1>r. ASSUME events.q # <<>>, events' = Rest
      PROVE  /\ events'.lost = events.lost
             /\ \A e : Queued(e) /\ Head(events.q) # Event(e) => Queued(e)'
  <2>1. events'.q = Tail(events.q) /\ events'.lost = events.lost
    BY <1>r, RestType
  <2>2. ASSUME NEW e, Queued(e), Head(events.q) # Event(e) PROVE Queued(e)'
    <3>1. In(events.q, Event(e))
      BY <2>2 DEF Queued, In
    <3>2. In(Tail(events.q), Event(e))
      BY <1>r, <2>2, <3>1, TailHas
    <3> QED
      BY <2>1, <3>2 DEF Queued, In
  <2> QED
    BY <2>1, <2>2
<1>1. ASSUME NEW kind \in Kinds, wlan_add_network(kind) PROVE ReportInv'
  BY <1>1, <1>a DEF wlan_add_network, life
<1>2. ASSUME NEW i \in Slots, wlan_remove_network(i) PROVE ReportInv'
  BY <1>2, <1>a DEF wlan_remove_network, life
<1>3. ASSUME NEW i \in Slots, wlan_start_network(i) PROVE ReportInv'
  BY <1>3, <1>a, <1>s, MsgsHold DEF wlan_start_network, life
<1>4. ASSUME NEW i \in Slots, wlan_stop_network(i) PROVE ReportInv'
  BY <1>4, <1>a, <1>s, MsgsHold DEF wlan_stop_network, life
<1>5. ASSUME NEW i \in Slots, RequestStart(i) PROVE ReportInv'
  <2>1. \A e : e # "START" /\ Queued(e) => Queued(e)'
    BY <1>5, <1>r, EventsDiffer DEF RequestStart, Received
  <2>2. ~events.lost /\ running /\ cm = "idle" /\ cm' \in {"start", "idle"} /\ uap_state' = uap_state
    BY <1>5, <1>r DEF RequestStart, Received, life
  <2>3. Awaited => Awaited'
    BY <2>1, <2>2 DEF Awaited
  <2> QED
    BY <1>5, <2>2, <2>3 DEF RequestStart, ReportInv, Starting
<1>6. CASE RequestStop
  <2>1. \A e \in {"UAP_STARTED", "UAP_STOPPED", "NET_ADDR_CONFIG"} : Queued(e) => Queued(e)'
    BY <1>6, <1>r, EventsDiffer DEF RequestStop, Received
  <2>2. ~events.lost /\ running /\ cm = "idle" /\ cm' \in {"stop", "idle"} /\ uap_state' = uap_state
    BY <1>6, <1>r DEF RequestStop, Received, life
  <2>3. Awaited => Awaited'
    BY <2>1, <2>2 DEF Awaited
  <2> QED
    BY <1>6, <2>2, <2>3 DEF RequestStop, ReportInv, Starting
<1>7. CASE StartRefused
  BY <1>7 DEF StartRefused, ReportInv, life
<1>8. CASE SendCommand
  <2>1. Awaited => Awaited'
    BY <1>8, AwaitedKept DEF SendCommand
  <2> QED
    BY <1>8, <2>1 DEF SendCommand, ReportInv, Starting, life
<1>9. CASE CommandDone
  <2>1. running /\ ~events.lost /\ UNCHANGED events
    BY <1>9 DEF CommandDone, life
  <2>2. \A e : Queued(e) => Queued(e)'
    BY <2>1 DEF Queued
  <2>3. Awaited /\ uap_state' = uap_state => Awaited'
    BY <2>1, AwaitedKept
  <2>4. cm = "start_ok" \/ cm = "stop_ok" => Awaited'
    BY <1>9, <2>1, <2>2 DEF CommandDone, ReportInv, Awaited
  <2> QED
    BY <1>9, <2>1, <2>3, <2>4 DEF CommandDone, ReportInv, Starting
<1>10. CASE EventStarted
  <2>1. events.q # <<>> /\ Head(events.q) = Event("UAP_STARTED") /\ cm = "idle" /\ cm' = "idle"
        /\ running
    BY <1>10 DEF EventStarted, Received, life
  <2>2. CASE uap_state = "CONFIGURED" /\ IsUap(cur_uap_network_idx)
    <3>1. Rest \in EventType /\ Rest.there
      BY <2>1, RestType DEF LifeInv
    <3>2. In(events'.q, Event("NET_ADDR_CONFIG"))
      BY <1>10, <2>2, <3>1, PostedHas, MsgsHold DEF EventStarted
    <3>3. uap_state' = "STARTED"
      BY <1>10, <2>2 DEF EventStarted
    <3> QED
      BY <2>1, <3>2, <3>3 DEF ReportInv, Awaited, Queued, In
  <2>3. CASE uap_state = "CONFIGURED" /\ ~IsUap(cur_uap_network_idx)
    BY <1>10, <2>1, <2>3 DEF EventStarted, ReportInv
  <2>4. CASE uap_state # "CONFIGURED"
    <3>1. events' = Rest /\ UNCHANGED <<uap_state, report>>
      BY <1>10, <2>4 DEF EventStarted
    <3>2. ~events.lost /\ \A e \in {"UAP_STOPPED", "NET_ADDR_CONFIG"} : Queued(e) => Queued(e)'
      BY <2>1, <3>1, <1>r, EventsDiffer
    <3> QED
      BY <2>1, <2>4, <3>1, <3>2 DEF ReportInv, Awaited, Starting
  <2> QED
    BY <2>2, <2>3, <2>4
<1>11. CASE EventAddrConfig
  <2>1. events.q # <<>> /\ Head(events.q) = Event("NET_ADDR_CONFIG") /\ cm = "idle" /\ cm' = "idle"
        /\ running /\ events' = Rest
    BY <1>11 DEF EventAddrConfig, Received, life
  <2>2. CASE uap_state = "STARTED"
    <3>1. report' # "none"
      BY <1>11, <2>2 DEF EventAddrConfig
    <3> QED
      BY <2>1, <3>1 DEF ReportInv
  <2>3. CASE uap_state # "STARTED"
    <3>1. UNCHANGED <<uap_state, report>>
      BY <1>11, <2>3 DEF EventAddrConfig
    <3>2. ~events.lost /\ \A e \in {"UAP_STOPPED", "UAP_STARTED"} : Queued(e) => Queued(e)'
      BY <2>1, <1>r, EventsDiffer
    <3> QED
      BY <2>1, <2>3, <3>1, <3>2 DEF ReportInv, Awaited, Starting
  <2> QED
    BY <2>2, <2>3
<1>12. CASE EventStopped
  BY <1>12 DEF EventStopped, Received, ReportInv
<1>13. CASE ThreadStops
  BY <1>13 DEF ThreadStops, LifeInv, life
<1>14. ASSUME NEW ok \in BOOLEAN, BssResponse(ok) PROVE ReportInv'
  <2>1. running /\ events.there /\ UNCHANGED <<uap_state, report>>
    BY <1>14 DEF BssResponse, LifeInv
  <2>2. ~events.lost /\ \A x : In(events.q, x) => In(events'.q, x)
    BY <1>14, PostedHas, MsgsHold DEF BssResponse
  <2>3. /\ ok /\ fw.cmd = "start" => Queued("UAP_STARTED")'
        /\ ok /\ fw.cmd = "stop" => Queued("UAP_STOPPED")'
    <3>1. ASSUME NEW e \in {"UAP_STARTED", "UAP_STOPPED"}, events' = Posted(events, Event(e))
          PROVE  Queued(e)'
      <4>1. In(events'.q, Event(e))
        BY <2>1, <3>1, PostedHas, MsgsHold
      <4> QED
        BY <4>1 DEF Queued, In
    <3> QED
      BY <1>14, <3>1 DEF BssResponse
  <2>4. (Awaited => Awaited') /\ \A e : Queued(e) => Queued(e)'
    BY <2>1, <2>2, AwaitedKept
  <2>5. CASE command_lock = "cm_main"
    <3>1. cm \in Waiting
      BY <1>14, <2>5 DEF BssResponse, LockInv
    <3>2. CASE cm = "start_wait"
      <4>1. cm' = (IF ok THEN "start_ok" ELSE "start_fail") /\ fw.cmd = "start"
        BY <1>14, <2>5, <3>2 DEF BssResponse, LockInv
      <4>2. cm' = "start_ok" => Queued("UAP_STARTED")'
        BY <2>3, <4>1
      <4> QED
        BY <4>1, <4>2 DEF ReportInv, Starting
    <3>3. CASE cm = "stop_wait"
      BY <1>14, <2>1, <2>2, <2>3, <2>4, <2>5, <3>3 DEF BssResponse, LockInv, ReportInv, Starting
    <3> QED
      BY <3>1, <3>2, <3>3 DEF Waiting
  <2>6. CASE command_lock # "cm_main"
    <3>1. cm' = cm
      BY <1>14, <2>6 DEF BssResponse
    <3> QED
      BY <2>1, <2>2, <2>4, <3>1 DEF ReportInv
  <2> QED
    BY <2>5, <2>6
<1>15. CASE wlan_stop
  BY <1>15 DEF wlan_stop
<1>16. CASE StopStep
  BY <1>16 DEF StopStep, StopRequested, StopAcknowledged, StopUnregisters, StopsUap,
               DeletesThread, LifeInv
<1>17. ASSUME NEW ok \in BOOLEAN, wlan_start(ok) PROVE ReportInv'
  <2>1. report' = "made" /\ cm' \in {"idle", "gone"}
    BY <1>17 DEF wlan_start
  <2> QED
    BY <2>1 DEF ReportInv
<1>18. CASE UNCHANGED vars
  BY <1>18, <1>a DEF vars
<1>19. CASE Station
  BY <1>19, <1>a, StationLeaves
<1> QED
  BY <1>1, <1>2, <1>3, <1>4, <1>5, <1>6, <1>7, <1>8, <1>9, <1>10, <1>11, <1>12, <1>13,
     <1>14, <1>15, <1>16, <1>17, <1>18, <1>19
     DEF Next, Application, cm_main, Firmware
-----------------------------------------------------------------------------
LEMMA UapInvInvariant == Spec => []UapInv
<1>1. Init => UapInv
  <2> SUFFICES ASSUME Init PROVE UapInv
    OBVIOUS
  <2>1. <<>> \in Seq(Msgs) /\ Len(<<>>) <= MAX_EVENTS
    BY UapAssumption
  <2>2. TypeOK
    BY <2>1 DEF Init, TypeOK
  <2> QED
    BY <2>2 DEF Init, UapInv, LockInv, LifeInv, RunInv, ReportInv, Busy, Waiting
<1>2. UapInv /\ [Next]_vars => UapInv'
  BY TypeStep, LockStep, RunStep, ReportStep DEF UapInv
<1> QED
  BY <1>1, <1>2, PTL DEF Spec

\* Every variable keeps its type, and the queue its capacity (Posted() and send_user_request()
\* drop what does not fit).
THEOREM UapTypes == Spec => []TypeOK
BY UapInvInvariant, PTL DEF UapInv

\* A uap_state past INITIALIZING means an access point that runs in the firmware, whatever
\* events are late and whatever wlan_stop() has left behind.
THEOREM ApAlwaysRuns == Spec => []ApRuns
<1>1. UapInv => ApRuns
  BY DEF UapInv, RunInv, ApRuns
<1> QED
  BY <1>1, UapInvInvariant, PTL

\* A start that cm_main has handled is reported or has its report coming, unless the queue
\* overflowed.
THEOREM StartAlwaysAnswered == Spec => []StartAnswered
<1>1. UapInv => StartAnswered
  BY DEF UapInv, ReportInv, Awaited, StartAnswered, Starting
<1> QED
  BY <1>1, UapInvInvariant, PTL
=============================================================================
