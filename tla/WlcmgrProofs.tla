---------------------------- MODULE WlcmgrProofs ----------------------------
(***************************************************************************)
(* Proofs about the connection manager, for any number of threads and      *)
(* networks, any capacity of the queue and any limits.                     *)
(*                                                                         *)
(* Once a network is selected (cur_network_idx is an index), every handler *)
(* keeps the types and keeps a network selected: one lemma per function.   *)
(* Until then only requests, scans and the first event are queued, and the *)
(* station is idle or scans for a user (Unselected).                       *)
(***************************************************************************)
EXTENDS Wlcmgr, TLAPS

Selected == {s \in World : s.cur_network_idx \in Networks}

LEMMA Values ==
  /\ 0 \in LockCount /\ 1 \in LockCount
  /\ "INITIALIZING" \in StaState /\ "IDLE" \in StaState /\ "SCANNING" \in StaState
  /\ "SCANNING_USER" \in StaState /\ "ASSOCIATING" \in StaState /\ "ASSOCIATED" \in StaState
  /\ "REQUESTING_ADDRESS" \in StaState /\ "OBTAINING_ADDRESS" \in StaState
  /\ "CONNECTED" \in StaState
  /\ "down" \in LinkState /\ "associated" \in LinkState /\ "up" \in LinkState
  /\ 0 \in ScanCount /\ RescanLimit \in ScanCount
  /\ 0 \in ReassocCount /\ ReconnectLimit \in ReassocCount
  /\ \A n \in Networks : n \in NetworkIdx
  /\ \A u \in Users : u \in ScanCb
  /\ NoOne \in ScanCb
BY WlcmgrAssumption
   DEF LockCount, StaState, LinkState, ScanCount, ReassocCount, NetworkIdx, ScanCb

LEMMA Messages ==
  /\ \A n \in Networks : Msg("CONNECT", n) \in Message
  /\ \A u \in Users : Msg("SCAN", u) \in Message
  /\ \A e \in {"DISCONNECT", "SCAN_RESULT", "LINK_LOSS", "DISASSOCIATION", "STA_ADDR_CONFIG",
               "NET_INTERFACE_CONFIG"} : Msg(e, TRUE) \in Message
  /\ \A e \in {"ASSOCIATION", "AUTHENTICATION", "DHCP_CONFIG"}, b \in BOOLEAN :
        Msg(e, b) \in Message
BY DEF Msg, Message

LEMMA CountScan ==
  ASSUME NEW c \in ScanCount, c < RescanLimit
  PROVE  c + 1 \in ScanCount
BY WlcmgrAssumption DEF ScanCount

LEMMA CountReassoc ==
  ASSUME NEW c \in ReassocCount, c < ReconnectLimit
  PROVE  c + 1 \in ReassocCount
BY WlcmgrAssumption DEF ReassocCount

LEMMA PostType ==
  ASSUME NEW s \in World, NEW m \in Message
  PROVE  /\ Post(s, m) \in World
         /\ Post(s, m).cur_network_idx = s.cur_network_idx
<1>1. Append(s.events, m) \in EventQueue
  BY DEF World, EventQueue
<1> QED
  BY <1>1 DEF Post, World

LEMMA PostSelected ==
  ASSUME NEW s \in Selected, NEW m \in Message
  PROVE  Post(s, m) \in Selected
BY PostType DEF Selected

LEMMA ReportSelected ==
  ASSUME NEW s \in Selected, NEW r \in Reason
  PROVE  Report(s, r) \in Selected
<1>1. s.cb \cup {r} \in Reasons
  BY DEF Selected, World, Reasons
<1> QED
  BY <1>1 DEF Report, Selected, World

LEMMA PutSelected ==
  ASSUME NEW s \in Selected
  PROVE  PutScanLock(s) \in Selected
BY Values DEF PutScanLock, Selected, World

LEMMA DeauthSelected ==
  ASSUME NEW s \in Selected
  PROVE  wifi_deauthenticate(s) \in Selected
BY Values DEF wifi_deauthenticate, Selected, World

LEMMA DoScanSelected ==
  ASSUME NEW s \in Selected, NEW ok \in BOOLEAN, s.scan_count < RescanLimit
  PROVE  do_scan(s, ok) \in Selected
<1> DEFINE a == [s EXCEPT !.sta_state = "SCANNING"]
           b == [a EXCEPT !.scan_cfg = TRUE]
<1>1. a \in Selected /\ a.scan_count = s.scan_count
  BY Values DEF Selected, World
<1>2. b \in Selected /\ b.scan_count = s.scan_count
  <2> HIDE DEF a
  <2> QED BY <1>1 DEF Selected, World
<1>3. [b EXCEPT !.scan_count = b.scan_count + 1] \in Selected
  <2> HIDE DEF b
  <2>1. b.scan_count + 1 \in ScanCount
    BY <1>2, CountScan DEF Selected, World
  <2> QED BY <1>2, <2>1 DEF Selected, World
<1>4. Post(a, Msg("SCAN_RESULT", TRUE)) \in Selected
  BY <1>1, Messages, PostSelected
<1> QED
  BY <1>3, <1>4 DEF do_scan, wifi_send_scan_cmd

LEMMA DoHiddenScanSelected ==
  ASSUME NEW s \in Selected, NEW ok \in BOOLEAN
  PROVE  do_hidden_scan(s, ok) \in Selected
<1> DEFINE a == [s EXCEPT !.sta_state = "SCANNING"]
<1>1. a \in Selected
  BY Values DEF Selected, World
<1>2. [a EXCEPT !.scan_cfg = TRUE] \in Selected
  <2> HIDE DEF a
  <2> QED BY <1>1 DEF Selected, World
<1>3. Post(a, Msg("SCAN_RESULT", TRUE)) \in Selected
  BY <1>1, Messages, PostSelected
<1> QED
  BY <1>2, <1>3 DEF do_hidden_scan, wifi_send_scan_cmd

LEMMA DoConnectSelected ==
  ASSUME NEW s \in World, NEW n \in Networks, NEW ok \in BOOLEAN
  PROVE  do_connect(s, n, ok) \in Selected
<1> DEFINE a == [s EXCEPT !.cur_network_idx = n, !.scan_count = 0]
<1>1. a \in Selected /\ a.scan_count = 0
  BY Values DEF Selected, World
<1>2. 0 < RescanLimit
  BY WlcmgrAssumption
<1> QED
  BY <1>1, <1>2, DoScanSelected DEF do_connect

LEMMA DoConnectFailedSelected ==
  ASSUME NEW s \in Selected, NEW r \in Reason
  PROVE  do_connect_failed(s, r) \in Selected
<1> DEFINE a == [s EXCEPT !.sta_return_to = IF is_user_scanning(s) THEN "IDLE" ELSE @,
                          !.sta_state = "IDLE"]
<1>1. a \in Selected
  BY Values DEF Selected, World, is_user_scanning
<1> QED
  BY <1>1, ReportSelected DEF do_connect_failed

LEMMA RequestConnectSelected ==
  ASSUME NEW s \in Selected, NEW n \in Networks, NEW ok \in BOOLEAN
  PROVE  wlcm_request_connect(s, n, ok) \in Selected
<1> DEFINE t == IF ~s.roam_reassoc /\ s.sta_state \in AssociatingOrLater /\ n \notin UapNetworks
                THEN wifi_deauthenticate(s) ELSE s
<1>1. t \in Selected
  BY DeauthSelected
<1> HIDE DEF t
<1>2. do_connect(t, n, ok) \in Selected
  BY <1>1, DoConnectSelected DEF Selected
<1>3. (IF t.is_scan_lock THEN PutScanLock(t) ELSE t) \in Selected
  BY <1>1, PutSelected
<1>4. Report(IF t.is_scan_lock THEN PutScanLock(t) ELSE t, "CONNECT_FAILED") \in Selected
  BY <1>3, ReportSelected DEF Reason
<1> QED
  BY <1>2, <1>4 DEF wlcm_request_connect, t

LEMMA ReconnectSelected ==
  ASSUME NEW s \in Selected, NEW ok \in BOOLEAN
  PROVE  Reconnect(s, ok) \in Selected
<1> DEFINE a == [s EXCEPT !.reassoc_request = TRUE, !.reassoc_count = @ + 1]
           b == [s EXCEPT !.reassoc_request = FALSE, !.reassoc_count = 0]
<1>1. ASSUME s.reassoc_count < ReconnectLimit
      PROVE  wlcm_request_connect(a, s.cur_network_idx, ok) \in Selected
  <2>1. s.reassoc_count + 1 \in ReassocCount
    BY <1>1, CountReassoc DEF Selected, World
  <2>2. a \in Selected
    BY <2>1 DEF Selected, World
  <2> QED
    BY <2>2, RequestConnectSelected DEF Selected
<1>2. Post(Report(b, "CONNECT_FAILED"), Msg("DISCONNECT", TRUE)) \in Selected
  <2>1. b \in Selected
    BY Values DEF Selected, World
  <2>2. Report(b, "CONNECT_FAILED") \in Selected
    BY <2>1, ReportSelected DEF Reason
  <2> QED
    BY <2>2, Messages, PostSelected
<1> QED
  BY <1>1, <1>2 DEF Reconnect, wlcm_request_reconnect

LEMMA EndReassocSelected ==
  ASSUME NEW s \in Selected
  PROVE  EndReassoc(s) \in Selected
<1>1. [s EXCEPT !.reassoc_count = 0, !.reassoc_request = FALSE] \in Selected
  BY Values DEF Selected, World
<1> QED
  BY <1>1 DEF EndReassoc

LEMMA RequestScanSelected ==
  ASSUME NEW s \in Selected, NEW u \in Users, NEW ok \in BOOLEAN
  PROVE  wlcm_request_scan(s, u, ok) \in Selected
<1> DEFINE a == [s EXCEPT !.scan_cfg = TRUE]
           b == [a EXCEPT !.scan_cb = u]
           c == [b EXCEPT !.sta_return_to = s.sta_state]
           d == [c EXCEPT !.sta_state = "SCANNING_USER"]
<1>1. a \in Selected
  BY DEF Selected, World
<1>2. b \in Selected
  <2> HIDE DEF a
  <2> QED BY <1>1, Values DEF Selected, World
<1>3. c \in Selected
  <2> HIDE DEF b
  <2>1. s.sta_state \in StaState
    BY DEF Selected, World
  <2> QED BY <1>2, <2>1 DEF Selected, World
<1>4. d \in Selected
  <2> HIDE DEF c
  <2> QED BY <1>3, Values DEF Selected, World
<1>5. PutScanLock(s) \in Selected
  BY PutSelected
<1> QED
  BY <1>4, <1>5 DEF wlcm_request_scan, wifi_send_scan_cmd

LEMMA RequestDisconnectSelected ==
  ASSUME NEW s \in Selected, NEW found \in BOOLEAN
  PROVE  wlcm_request_disconnect(s, found) \in Selected
<1> DEFINE t == [s EXCEPT !.dhcp = FALSE, !.dhcp_timer = FALSE]
           idle == [wifi_deauthenticate(t) EXCEPT !.sta_state = "IDLE", !.sta_ipv4_state = "IDLE"]
           quit == IF is_user_scanning(t) /\ t.sta_return_to # "IDLE"
                   THEN IF t.sta_return_to \in AssociatingOrLater
                        THEN [idle EXCEPT !.sta_return_to = "IDLE"] ELSE t
                   ELSE IF t.sta_state \in AssociatingOrLater
                   THEN IF idle.is_scan_lock THEN PutScanLock(idle) ELSE idle
                   ELSE [t EXCEPT !.sta_state = "IDLE", !.sta_ipv4_state = "IDLE"]
           told == Report(quit, "USER_DISCONNECT")
           limit == [told EXCEPT !.scan_count = RescanLimit, !.reassoc_count = ReconnectLimit,
                                 !.reassoc_request = FALSE]
<1>1. t \in Selected
  BY DEF Selected, World
<1> HIDE DEF t
<1>2. idle \in Selected
  <2>1. wifi_deauthenticate(t) \in Selected
    BY <1>1, DeauthSelected
  <2> QED
    BY <2>1, Values DEF Selected, World
<1> HIDE DEF idle
<1>3. quit \in Selected
  <2>1. [idle EXCEPT !.sta_return_to = "IDLE"] \in Selected
    BY <1>2, Values DEF Selected, World
  <2>2. [t EXCEPT !.sta_state = "IDLE", !.sta_ipv4_state = "IDLE"] \in Selected
    BY <1>1, Values DEF Selected, World
  <2> QED
    BY <1>1, <1>2, <2>1, <2>2, PutSelected
<1> HIDE DEF quit
<1>4. told \in Selected
  BY <1>3, ReportSelected DEF Reason
<1> HIDE DEF told
<1>5. limit \in Selected
  BY <1>4, Values DEF Selected, World
<1> QED
  BY <1>1, <1>4, <1>5 DEF wlcm_request_disconnect, t, idle, quit, told

LEMMA StartAssociationSelected ==
  ASSUME NEW s \in Selected, NEW outcome
  PROVE  start_association(s, outcome) \in Selected
<1> DEFINE t == [s EXCEPT !.sta_state = "ASSOCIATING", !.roam_reassoc = FALSE]
<1>1. t \in Selected
  BY Values DEF Selected, World
<1> HIDE DEF t
<1>2. [t EXCEPT !.link = "associated"] \in Selected
  BY <1>1, Values DEF Selected, World
<1>3. [t EXCEPT !.link = "down"] \in Selected
  BY <1>1, Values DEF Selected, World
<1> QED
  BY <1>2, <1>3, Messages, PostSelected DEF start_association, t

LEMMA RescanOrGiveUpSelected ==
  ASSUME NEW s \in Selected, NEW ok \in BOOLEAN
  PROVE  RescanOrGiveUp(s, ok) \in Selected
<1>1. [s EXCEPT !.sta_state = "CONNECTED", !.roam_reassoc = FALSE] \in Selected
  BY Values DEF Selected, World
<1>2. ASSUME s.scan_count < RescanLimit
      PROVE  do_scan([s EXCEPT !.hidden_scan_on = FALSE], ok) \in Selected
  <2>1. /\ [s EXCEPT !.hidden_scan_on = FALSE] \in Selected
        /\ [s EXCEPT !.hidden_scan_on = FALSE].scan_count = s.scan_count
    BY DEF Selected, World
  <2> QED
    BY <1>2, <2>1, DoScanSelected
<1>3. Reconnect(do_connect_failed(s, "NETWORK_NOT_FOUND"), ok) \in Selected
  BY DoConnectFailedSelected, ReconnectSelected DEF Reason
<1> QED
  BY <1>1, <1>2, <1>3 DEF RescanOrGiveUp

LEMMA HandleScanResultsSelected ==
  ASSUME NEW s \in Selected, NEW o \in ScanOutcome, NEW ok \in BOOLEAN
  PROVE  handle_scan_results(s, o, ok) \in Selected
<1>1. [s EXCEPT !.lost = TRUE] \in Selected
  BY DEF Selected, World
<1>2. [s EXCEPT !.sta_state = "CONNECTED", !.roam_reassoc = FALSE] \in Selected
  BY Values DEF Selected, World
<1>3. start_association(s, o) \in Selected
  BY StartAssociationSelected
<1>4. do_hidden_scan([s EXCEPT !.hidden_scan_on = TRUE], ok) \in Selected
  <2>1. [s EXCEPT !.hidden_scan_on = TRUE] \in Selected
    BY DEF Selected, World
  <2> QED
    BY <2>1, DoHiddenScanSelected
<1>5. RescanOrGiveUp(do_connect_failed([s EXCEPT !.sta_state = "ASSOCIATING",
                                                 !.roam_reassoc = FALSE],
                                       "NETWORK_NOT_FOUND"), ok) \in Selected
  <2>1. [s EXCEPT !.sta_state = "ASSOCIATING", !.roam_reassoc = FALSE] \in Selected
    BY Values DEF Selected, World
  <2> QED
    BY <2>1, DoConnectFailedSelected, RescanOrGiveUpSelected DEF Reason
<1>6. RescanOrGiveUp([s EXCEPT !.sta_state = "ASSOCIATING"], ok) \in Selected
  <2>1. [s EXCEPT !.sta_state = "ASSOCIATING"] \in Selected
    BY Values DEF Selected, World
  <2> QED
    BY <2>1, RescanOrGiveUpSelected
<1>7. CASE o = "nomem" BY <1>1, <1>7 DEF handle_scan_results
<1>8. CASE o = "same" BY <1>2, <1>8 DEF handle_scan_results
<1>9. CASE o \in {"assoc_ok", "assoc_fail"} BY <1>3, <1>9 DEF handle_scan_results
<1>10. CASE o = "hidden" BY <1>4, <1>10 DEF handle_scan_results
<1>11. CASE o = "refused" BY <1>5, <1>11 DEF handle_scan_results
<1>12. CASE o = "none" BY <1>6, <1>12 DEF handle_scan_results
<1> QED
  BY <1>7, <1>8, <1>9, <1>10, <1>11, <1>12 DEF ScanOutcome

LEMMA ScanResultSelected ==
  ASSUME NEW s \in Selected, NEW o \in ScanOutcome, NEW ok \in BOOLEAN
  PROVE  wlcm_process_scan_result_event(s, o, ok) \in Selected
<1> DEFINE a == [s EXCEPT !.scan_cb = NoOne]
           b == [a EXCEPT !.sta_state = s.sta_return_to]
<1>1. a \in Selected /\ s.sta_return_to \in StaState
  BY Values DEF Selected, World
<1>2. b \in Selected
  <2> HIDE DEF a
  <2> QED BY <1>1 DEF Selected, World
<1>3. handle_scan_results(s, o, ok) \in Selected
  BY HandleScanResultsSelected
<1> HIDE DEF b
<1> QED
  BY <1>2, <1>3, PutSelected DEF wlcm_process_scan_result_event, report_scan_results, b

LEMMA AssociationSelected ==
  ASSUME NEW s \in Selected, NEW success \in BOOLEAN, NEW ok \in BOOLEAN
  PROVE  wlcm_process_association_event(s, success, ok) \in Selected
<1>1. [s EXCEPT !.sta_state = "ASSOCIATED", !.scan_count = 0] \in Selected
  BY Values DEF Selected, World
<1>2. s.scan_count < RescanLimit => do_scan(s, ok) \in Selected
  BY DoScanSelected
<1>3. Reconnect(do_connect_failed(s, "NETWORK_NOT_FOUND"), ok) \in Selected
  BY DoConnectFailedSelected, ReconnectSelected DEF Reason
<1> QED
  BY <1>1, <1>2, <1>3 DEF wlcm_process_association_event

LEMMA ConfigureAddressSelected ==
  ASSUME NEW s \in Selected
  PROVE  net_configure_address(s) \in Selected
<1>1. \A b \in BOOLEAN : [s EXCEPT !.dhcp = b, !.dhcp_timer = b \/ @] \in Selected
  BY DEF Selected, World
<1>2. (s.cur_network_idx \in DhcpNetworks) \in BOOLEAN
  OBVIOUS
<1> QED
  BY <1>1, <1>2, Messages, PostSelected DEF net_configure_address

LEMMA AuthenticationSelected ==
  ASSUME NEW s \in Selected, NEW success \in BOOLEAN, NEW mic \in BOOLEAN, NEW ok \in BOOLEAN
  PROVE  wlcm_process_authentication_event(s, success, mic, ok) \in Selected
<1> DEFINE won == net_configure_address(Report(s, "AUTH_SUCCESS"))
           paused == [s EXCEPT !.assoc_paused = @ \/ mic, !.assoc_timer = @ \/ mic]
           noip == IF is_state(s, "REQUESTING_ADDRESS") \/ is_state(s, "OBTAINING_ADDRESS")
                   THEN [paused EXCEPT !.dhcp = FALSE] ELSE paused
           left == IF is_state(s, "ASSOCIATED") THEN wifi_deauthenticate(noip) ELSE noip
           idle == [left EXCEPT !.sta_state = "IDLE", !.sta_ipv4_state = "IDLE"]
<1>1. won \in Selected
  BY ReportSelected, ConfigureAddressSelected DEF Reason
<1> HIDE DEF won
<1>2. [won EXCEPT !.sta_state = "REQUESTING_ADDRESS",
                  !.sta_ipv4_state = "REQUESTING_ADDRESS"] \in Selected
  BY <1>1, Values DEF Selected, World
<1>3. paused \in Selected
  <2>1. \A a, b \in BOOLEAN : [s EXCEPT !.assoc_paused = a, !.assoc_timer = b] \in Selected
    BY DEF Selected, World
  <2>2. (s.assoc_paused \/ mic) \in BOOLEAN /\ (s.assoc_timer \/ mic) \in BOOLEAN
    OBVIOUS
  <2> QED
    BY <2>1, <2>2
<1> HIDE DEF paused
<1>4. noip \in Selected
  <2>1. [paused EXCEPT !.dhcp = FALSE] \in Selected
    BY <1>3 DEF Selected, World
  <2> QED
    BY <1>3, <2>1
<1> HIDE DEF noip
<1>5. left \in Selected
  BY <1>4, DeauthSelected
<1> HIDE DEF left
<1>6. idle \in Selected
  BY <1>5, Values DEF Selected, World
<1> HIDE DEF idle
<1>7. Reconnect(do_connect_failed(idle, "NETWORK_AUTH_FAILED"), ok) \in Selected
  BY <1>6, DoConnectFailedSelected, ReconnectSelected DEF Reason
<1> QED
  BY <1>2, <1>7 DEF wlcm_process_authentication_event, won, idle, left, noip, paused

LEMMA LinkLossSelected ==
  ASSUME NEW s \in Selected, NEW ok \in BOOLEAN
  PROVE  wlcm_process_link_loss_event(s, ok) \in Selected
<1> DEFINE t == [s EXCEPT !.dhcp = FALSE]
           idle == [t EXCEPT !.sta_state = "IDLE", !.sta_ipv4_state = "IDLE"]
           off == [t EXCEPT !.dhcp_timer = FALSE]
<1>1. t \in Selected
  BY DEF Selected, World
<1> HIDE DEF t
<1>2. idle \in Selected
  BY <1>1, Values DEF Selected, World
<1>3. off \in Selected
  BY <1>1 DEF Selected, World
<1> HIDE DEF idle, off
<1>4. Reconnect(Report(idle, "LINK_LOST"), ok) \in Selected
  BY <1>2, ReportSelected, ReconnectSelected DEF Reason
<1>5. Reconnect(do_connect_failed(off, "NETWORK_NOT_FOUND"), ok) \in Selected
  BY <1>3, DoConnectFailedSelected, ReconnectSelected DEF Reason
<1> QED
  BY <1>4, <1>5 DEF wlcm_process_link_loss_event, t, idle, off

LEMMA DisassocSelected ==
  ASSUME NEW s \in Selected, NEW ok \in BOOLEAN
  PROVE  wlcm_process_disassoc_event(s, ok) \in Selected
<1>1. [s EXCEPT !.sta_state = "IDLE"] \in Selected
  BY Values DEF Selected, World
<1> QED
  BY <1>1, DoConnectFailedSelected, ReconnectSelected DEF Reason, wlcm_process_disassoc_event

LEMMA ConnectedSelected ==
  ASSUME NEW s \in Selected
  PROVE  Connected(s) \in Selected
<1>1. [s EXCEPT !.sta_state = "CONNECTED", !.sta_ipv4_state = "CONNECTED"] \in Selected
  BY Values DEF Selected, World
<1> QED
  BY <1>1, EndReassocSelected, ReportSelected DEF Connected, Reason

LEMMA StaAddrConfigSelected ==
  ASSUME NEW s \in Selected
  PROVE  wlcm_process_sta_addr_config_event(s) \in Selected
<1>1. [s EXCEPT !.sta_state = "OBTAINING_ADDRESS",
                !.sta_ipv4_state = "OBTAINING_ADDRESS"] \in Selected
  BY Values DEF Selected, World
<1> QED
  BY <1>1, ConnectedSelected DEF wlcm_process_sta_addr_config_event

LEMMA DhcpConfigSelected ==
  ASSUME NEW s \in Selected, NEW success \in BOOLEAN, NEW ok \in BOOLEAN
  PROVE  wlcm_process_net_dhcp_config(s, success, ok) \in Selected
<1>1. Reconnect(do_connect_failed(s, "ADDRESS_FAILED"), ok) \in Selected
  BY DoConnectFailedSelected, ReconnectSelected DEF Reason
<1>2. Connected([s EXCEPT !.dhcp_timer = FALSE]) \in Selected
  <2>1. [s EXCEPT !.dhcp_timer = FALSE] \in Selected
    BY DEF Selected, World
  <2> QED
    BY <2>1, ConnectedSelected
<1>3. Report(s, "ADDRESS_SUCCESS") \in Selected
  BY ReportSelected DEF Reason
<1> QED
  BY <1>1, <1>2, <1>3 DEF wlcm_process_net_dhcp_config

LEMMA NetIfConfigSelected ==
  ASSUME NEW s \in Selected
  PROVE  wlcm_process_net_if_config_event(s) \in Selected
<1>1. [s EXCEPT !.sta_state = "IDLE"] \in Selected
  BY Values DEF Selected, World
<1> QED
  BY <1>1 DEF wlcm_process_net_if_config_event
-----------------------------------------------------------------------------
(* Before the first connect request *)

Quiet == {"NET_INTERFACE_CONFIG", "CONNECT", "DISCONNECT", "SCAN", "SCAN_RESULT"}

Unselected == {s \in World : /\ s.cur_network_idx = -1
                             /\ s.sta_state \in {"INITIALIZING", "IDLE", "SCANNING_USER"}
                             /\ s.sta_return_to \in {"IDLE", "SCANNING_USER"}
                             /\ s.sta_ipv4_state = "INITIALIZING"
                             /\ s.link = "down" /\ ~s.dhcp /\ ~s.dhcp_timer
                             /\ \A i \in DOMAIN s.events : s.events[i].event \in Quiet}

\* The inductive invariant: a network is selected, or nothing can need one.
IndexInv ==
  /\ w \in Selected \cup Unselected
  /\ user \in [Users -> Call]
  /\ w \in Unselected =>
       \A u \in Users : /\ user[u].event # "REASSOCIATE"
                        /\ user[u].event = "send" => user[u].data.event # "REASSOCIATE"
  /\ calls \in 0..MaxCalls
  /\ losses \in 0..MaxLosses

LEMMA PostUnselected ==
  ASSUME NEW s \in Unselected, NEW m \in Message, m.event \in Quiet
  PROVE  Post(s, m) \in Unselected
<1>1. s \in World /\ s.events \in Seq(Message)
  BY DEF Unselected, World, EventQueue
<1>2. Append(s.events, m) \in EventQueue
  BY <1>1 DEF EventQueue
<1>3. \A i \in DOMAIN Append(s.events, m) : Append(s.events, m)[i].event \in Quiet
  BY <1>1 DEF Unselected
<1>4. [s EXCEPT !.events = Append(s.events, m)] \in Unselected
  BY <1>1, <1>2, <1>3 DEF Unselected, World
<1>5. [s EXCEPT !.lost = TRUE] \in Unselected
  BY <1>1 DEF Unselected, World
<1> QED
  BY <1>4, <1>5 DEF Post

LEMMA ReportUnselected ==
  ASSUME NEW s \in Unselected, NEW r \in Reason
  PROVE  Report(s, r) \in Unselected
<1>1. s.cb \cup {r} \in Reasons
  BY DEF Unselected, World, Reasons
<1> QED
  BY <1>1 DEF Report, Unselected, World

LEMMA PutUnselected ==
  ASSUME NEW s \in Unselected
  PROVE  PutScanLock(s) \in Unselected
BY Values DEF PutScanLock, Unselected, World

LEMMA RequestConnectUnselected ==
  ASSUME NEW s \in Unselected, NEW n \in Networks, NEW ok \in BOOLEAN
  PROVE  wlcm_request_connect(s, n, ok) \in Selected \cup Unselected
<1>1. s.sta_state \notin AssociatingOrLater
  BY DEF Unselected, AssociatingOrLater
<1>2. do_connect(s, n, ok) \in Selected
  BY DoConnectSelected DEF Unselected
<1>3. (IF s.is_scan_lock THEN PutScanLock(s) ELSE s) \in Unselected
  BY PutUnselected
<1>4. Report(IF s.is_scan_lock THEN PutScanLock(s) ELSE s, "CONNECT_FAILED") \in Unselected
  BY <1>3, ReportUnselected DEF Reason
<1> QED
  BY <1>1, <1>2, <1>4 DEF wlcm_request_connect

LEMMA RequestScanUnselected ==
  ASSUME NEW s \in Unselected, NEW u \in Users, NEW ok \in BOOLEAN
  PROVE  wlcm_request_scan(s, u, ok) \in Unselected
<1> DEFINE a == [s EXCEPT !.scan_cfg = TRUE]
           b == [a EXCEPT !.scan_cb = u]
           c == [b EXCEPT !.sta_return_to = s.sta_state]
           d == [c EXCEPT !.sta_state = "SCANNING_USER"]
<1>1. PutScanLock(s) \in Unselected
  BY PutUnselected
<1>2. ASSUME is_scanning_allowed(s)
      PROVE  d \in Unselected
  <2>1. s.sta_state \in {"IDLE", "SCANNING_USER"} /\ s.sta_state \in StaState
    BY <1>2 DEF is_scanning_allowed, is_state, is_user_scanning, Unselected, World
  <2>2. a \in Unselected
    BY DEF Unselected, World
  <2>3. b \in Unselected
    <3> HIDE DEF a
    <3> QED BY <2>2, Values DEF Unselected, World
  <2>4. c \in Unselected
    <3> HIDE DEF b
    <3> QED BY <2>1, <2>3 DEF Unselected, World
  <2> HIDE DEF c
  <2> QED
    BY <2>4, Values DEF Unselected, World
<1> QED
  BY <1>1, <1>2 DEF wlcm_request_scan, wifi_send_scan_cmd

LEMMA RequestDisconnectUnselected ==
  ASSUME NEW s \in Unselected, NEW found \in BOOLEAN
  PROVE  wlcm_request_disconnect(s, found) \in Unselected
<1> DEFINE t == [s EXCEPT !.dhcp = FALSE, !.dhcp_timer = FALSE]
           told == Report(t, "USER_DISCONNECT")
           limit == [told EXCEPT !.scan_count = RescanLimit, !.reassoc_count = ReconnectLimit,
                                 !.reassoc_request = FALSE]
<1>1. t \in Unselected /\ t.sta_state = s.sta_state /\ t.sta_return_to = s.sta_return_to
  BY DEF Unselected, World
<1> HIDE DEF t
<1>2. told \in Unselected
  BY <1>1, ReportUnselected DEF Reason
<1> HIDE DEF told
<1>3. limit \in Unselected
  BY <1>2, Values DEF Unselected, World
<1>4. CASE ~is_running(s) \/ is_state(s, "IDLE")
  BY <1>1, <1>4 DEF wlcm_request_disconnect, t
<1>5. CASE ~(~is_running(s) \/ is_state(s, "IDLE"))
  <2>1. /\ is_user_scanning(t)
        /\ t.sta_return_to # "IDLE"
        /\ t.sta_return_to \notin AssociatingOrLater
    BY <1>1, <1>5 DEF is_running, is_state, is_user_scanning, Unselected, AssociatingOrLater
  <2> QED
    BY <1>2, <1>3, <1>5, <2>1 DEF wlcm_request_disconnect, t, told
<1> QED
  BY <1>4, <1>5

LEMMA ScanResultUnselected ==
  ASSUME NEW s \in Unselected, NEW o \in ScanOutcome, NEW ok \in BOOLEAN
  PROVE  wlcm_process_scan_result_event(s, o, ok) \in Unselected
<1> DEFINE a == [s EXCEPT !.scan_cb = NoOne]
           b == [a EXCEPT !.sta_state = s.sta_return_to]
<1>1. a \in Unselected /\ s.sta_return_to \in {"IDLE", "SCANNING_USER"}
  BY Values DEF Unselected, World
<1>2. b \in Unselected
  <2> HIDE DEF a
  <2> QED BY <1>1, Values DEF Unselected, World
<1> HIDE DEF b
<1>3. s.sta_state \notin {"SCANNING", "CONNECTED"}
  BY DEF Unselected
<1> QED
  BY <1>2, <1>3, PutUnselected DEF wlcm_process_scan_result_event, report_scan_results, b

LEMMA NetIfConfigUnselected ==
  ASSUME NEW s \in Unselected
  PROVE  wlcm_process_net_if_config_event(s) \in Unselected
<1>1. [s EXCEPT !.sta_state = "IDLE"] \in Unselected
  BY Values DEF Unselected, World
<1> QED
  BY <1>1 DEF wlcm_process_net_if_config_event
-----------------------------------------------------------------------------
(* Induction *)

LEMMA Exclusive == Selected \cap Unselected = {}
BY WlcmgrAssumption DEF Selected, Unselected

LEMMA MessageData ==
  ASSUME NEW m \in Message
  PROVE  /\ m.event = "CONNECT" => m.data \in Networks
         /\ m.event = "SCAN" => m.data \in Users
         /\ m.event \in {"ASSOCIATION", "AUTHENTICATION", "DHCP_CONFIG"} => m.data \in BOOLEAN
BY DEF Message

LEMMA TakenTyped ==
  ASSUME w \in Selected \cup Unselected, NEW e, Received(e)
  PROVE  /\ Head(w.events) \in Message /\ Head(w.events).event = e
         /\ w \in Selected => Taken \in Selected
         /\ w \in Unselected => Taken \in Unselected /\ e \in Quiet
<1>1. w \in World /\ w.events \in Seq(Message) /\ w.events # <<>>
  BY DEF Selected, Unselected, World, EventQueue, Received
<1>2. Head(w.events) \in Message /\ Tail(w.events) \in EventQueue /\ {} \in Reasons
  BY <1>1 DEF EventQueue, Reasons
<1>3. w \in Selected => Taken \in Selected
  BY <1>2 DEF Taken, Selected, World
<1>4. ASSUME w \in Unselected PROVE Taken \in Unselected /\ e \in Quiet
  <2>1. \A i \in DOMAIN Tail(w.events) : Tail(w.events)[i] = w.events[i + 1]
                                         /\ i + 1 \in DOMAIN w.events
    BY <1>1
  <2>2. \A i \in DOMAIN Tail(w.events) : Tail(w.events)[i].event \in Quiet
    BY <1>4, <2>1 DEF Unselected
  <2>3. Head(w.events).event \in Quiet
    <3>1. Head(w.events) = w.events[1] /\ 1 \in DOMAIN w.events
      BY <1>1
    <3> QED BY <1>4, <3>1 DEF Unselected
  <2> QED
    BY <1>2, <1>4, <2>2, <2>3 DEF Taken, Unselected, World, Received
<1> QED
  BY <1>2, <1>3, <1>4 DEF Received

\* cb is a history of the step: clearing it keeps both sets.
LEMMA ClearCb ==
  ASSUME NEW s
  PROVE  /\ s \in Selected => [s EXCEPT !.cb = {}] \in Selected
         /\ s \in Unselected => [s EXCEPT !.cb = {}] \in Unselected
<1>1. {} \in Reasons
  BY DEF Reasons
<1> QED
  BY <1>1 DEF Selected, Unselected, World

LEMMA StepKeeps ==
  ASSUME IndexInv, w' \in Selected \cup Unselected, w \in Selected => w' \in Selected,
         UNCHANGED user, calls' \in 0..MaxCalls, losses' \in 0..MaxLosses
  PROVE  IndexInv'
BY Exclusive DEF IndexInv

LEMMA ScanOkType == ScanOk \subseteq BOOLEAN
BY DEF ScanOk

LEMMA CmMainStep ==
  ASSUME IndexInv, cm_main
  PROVE  IndexInv'
<1> USE ScanOkType
<1>w. w \in Selected \cup Unselected /\ calls \in 0..MaxCalls /\ losses \in 0..MaxLosses
  BY DEF IndexInv
<1>1. CASE HandleConnect
  <2> DEFINE t == [Taken EXCEPT !.pending_assoc = FALSE]
  <2>1. /\ Data \in Networks
        /\ w \in Selected => Taken \in Selected
        /\ w \in Unselected => Taken \in Unselected
    BY <1>w, <1>1, TakenTyped, MessageData DEF HandleConnect, Data
  <2>2. /\ w \in Selected => t \in Selected
        /\ w \in Unselected => t \in Unselected
    BY <2>1 DEF Selected, Unselected, World
  <2> HIDE DEF t
  <2>3. /\ w \in Selected => [t EXCEPT !.pausing = TRUE] \in Selected
        /\ w \in Unselected => [t EXCEPT !.pausing = TRUE] \in Unselected
    BY <2>2 DEF Selected, Unselected, World
  <2>4. \/ w' = [t EXCEPT !.pausing = TRUE]
        \/ \E ok \in BOOLEAN : w' = wlcm_request_connect(t, Data, ok)
    BY <1>1 DEF HandleConnect, t
  <2>5. /\ w' \in Selected \cup Unselected
        /\ w \in Selected => w' \in Selected
    BY <1>w, <2>1, <2>2, <2>3, <2>4, RequestConnectSelected, RequestConnectUnselected
  <2> QED
    BY <1>w, <1>1, <2>5, StepKeeps DEF HandleConnect
<1>2. CASE HoldConnect
  <2> DEFINE a == [w EXCEPT !.pausing = FALSE, !.pending_assoc = TRUE]
  <2>1. /\ w \in Selected => a \in Selected
        /\ w \in Unselected => a \in Unselected
    BY DEF Selected, Unselected, World
  <2> HIDE DEF a
  <2>2. w' = [a EXCEPT !.cb = {}]
    BY <1>2 DEF HoldConnect, a
  <2> QED
    BY <1>w, <1>2, <2>1, <2>2, ClearCb, StepKeeps DEF HoldConnect
<1>3. CASE HandleDisconnect
  <2>1. /\ w' \in Selected \cup Unselected
        /\ w \in Selected => w' \in Selected
    BY <1>w, <1>3, TakenTyped, RequestDisconnectSelected, RequestDisconnectUnselected
       DEF HandleDisconnect
  <2> QED
    BY <1>w, <1>3, <2>1, StepKeeps DEF HandleDisconnect
<1>4. CASE HandleScan
  <2>1. Data \in Users
    BY <1>w, <1>4, TakenTyped, MessageData DEF HandleScan, Data
  <2>2. /\ w' \in Selected \cup Unselected
        /\ w \in Selected => w' \in Selected
    BY <1>w, <1>4, <2>1, TakenTyped, RequestScanSelected, RequestScanUnselected DEF HandleScan
  <2> QED
    BY <1>w, <1>4, <2>2, StepKeeps DEF HandleScan
<1>5. CASE HandleScanResult
  <2>1. Possible(w) \subseteq ScanOutcome
    BY DEF Possible
  <2>2. /\ w' \in Selected \cup Unselected
        /\ w \in Selected => w' \in Selected
    BY <1>w, <1>5, <2>1, TakenTyped, ScanResultSelected, ScanResultUnselected
       DEF HandleScanResult
  <2> QED
    BY <1>w, <1>5, <2>2, Exclusive DEF HandleScanResult, IndexInv
<1>6. CASE HandleAssociation
  <2>1. w \in Selected /\ Data \in BOOLEAN /\ Taken \in Selected
    BY <1>w, <1>6, TakenTyped, MessageData DEF HandleAssociation, Data, Quiet
  <2> QED
    BY <1>w, <1>6, <2>1, AssociationSelected, StepKeeps DEF HandleAssociation
<1>7. CASE HandleAuthentication
  <2>1. w \in Selected /\ Data \in BOOLEAN /\ Taken \in Selected
    BY <1>w, <1>7, TakenTyped, MessageData DEF HandleAuthentication, Data, Quiet
  <2> QED
    BY <1>w, <1>7, <2>1, AuthenticationSelected, StepKeeps DEF HandleAuthentication
<1>8. CASE HandleLinkLoss
  <2>1. w \in Selected /\ Taken \in Selected
    BY <1>w, <1>8, TakenTyped DEF HandleLinkLoss, Quiet
  <2> QED
    BY <1>w, <1>8, <2>1, LinkLossSelected, StepKeeps DEF HandleLinkLoss
<1>9. CASE HandleDisassociation
  <2>1. w \in Selected /\ Taken \in Selected
    BY <1>w, <1>9, TakenTyped DEF HandleDisassociation, Quiet
  <2> QED
    BY <1>w, <1>9, <2>1, DisassocSelected, StepKeeps DEF HandleDisassociation
<1>10. CASE HandleStaAddrConfig
  <2>1. w \in Selected /\ Taken \in Selected
    BY <1>w, <1>10, TakenTyped DEF HandleStaAddrConfig, Quiet
  <2> QED
    BY <1>w, <1>10, <2>1, StaAddrConfigSelected, StepKeeps DEF HandleStaAddrConfig
<1>11. CASE HandleDhcpConfig
  <2>1. w \in Selected /\ Data \in BOOLEAN /\ Taken \in Selected
    BY <1>w, <1>11, TakenTyped, MessageData DEF HandleDhcpConfig, Data, Quiet
  <2> QED
    BY <1>w, <1>11, <2>1, DhcpConfigSelected, StepKeeps DEF HandleDhcpConfig
<1>12. CASE HandleNetInterfaceConfig
  <2>1. /\ w' \in Selected \cup Unselected
        /\ w \in Selected => w' \in Selected
    BY <1>w, <1>12, TakenTyped, NetIfConfigSelected, NetIfConfigUnselected
       DEF HandleNetInterfaceConfig
  <2> QED
    BY <1>w, <1>12, <2>1, StepKeeps DEF HandleNetInterfaceConfig
<1> QED
  BY <1>1, <1>2, <1>3, <1>4, <1>5, <1>6, <1>7, <1>8, <1>9, <1>10, <1>11, <1>12 DEF cm_main

LEMMA EnterKeeps ==
  ASSUME IndexInv, NEW u \in Users, NEW m \in Request, Idle(u), Enter(u, m),
         m.event = "REASSOCIATE" => w \in Selected,
         w' \in Selected \cup Unselected, w \in Selected => w' \in Selected,
         UNCHANGED losses
  PROVE  IndexInv'
<1>1. calls' \in 0..MaxCalls
  BY WlcmgrAssumption DEF IndexInv, Idle, Enter
<1>2. m \in Call /\ m.event # "send"
  BY DEF Call, Request
<1>3. user' \in [Users -> Call]
  BY <1>2 DEF IndexInv, Enter
<1>4. ASSUME w' \in Unselected, NEW v \in Users
      PROVE  /\ user'[v].event # "REASSOCIATE"
             /\ user'[v].event = "send" => user'[v].data.event # "REASSOCIATE"
  <2>1. w \in Unselected
    BY <1>4, Exclusive DEF IndexInv
  <2>2. m.event # "REASSOCIATE"
    BY <2>1, Exclusive
  <2>3. CASE v = u
    BY <1>2, <2>2, <2>3 DEF Enter, IndexInv
  <2>4. CASE v # u
    BY <2>1, <2>4 DEF Enter, IndexInv
  <2> QED
    BY <2>3, <2>4
<1> QED
  BY <1>1, <1>3, <1>4 DEF IndexInv

LEMMA SendRequestKeeps ==
  ASSUME IndexInv, NEW u \in Users, SendRequest(u)
  PROVE  IndexInv'
<1> DEFINE req == user[u].data
           s == [w EXCEPT !.is_scan_lock = TRUE, !.cb = {}]
           z == [s EXCEPT !.reassoc_count = 0]
           r(b) == [s EXCEPT !.roam_reassoc = b]
<1>1. /\ w \in Selected => s \in Selected
      /\ w \in Unselected => s \in Unselected
  <2>1. {} \in Reasons
    BY DEF Reasons
  <2> QED
    BY <2>1 DEF Selected, Unselected, World
<1>2. req \in Request
  BY DEF IndexInv, SendRequest, Call, Request
<1>3. user' \in [Users -> Call] /\ user'[u].event = "none"
  <2>1. Msg("none", TRUE) \in Call
    BY DEF Msg, Call
  <2> QED
    BY <2>1 DEF IndexInv, SendRequest, Msg
<1>4. calls' \in 0..MaxCalls /\ losses' \in 0..MaxLosses
  BY DEF SendRequest, IndexInv
<1>5. w' \in Selected \cup Unselected /\ (w \in Selected => w' \in Selected)
  <2>1. CASE req.event = "SCAN"
    <3>1. req \in Message /\ req.event \in Quiet
      BY <1>2, <2>1 DEF Request, Message, Quiet
    <3>2. w' = Post(s, req)
      BY <2>1 DEF SendRequest
    <3> HIDE DEF s, req
    <3> QED
      BY <1>1, <3>1, <3>2, PostSelected, PostUnselected DEF IndexInv
  <2>2. CASE req.event = "CONNECT"
    <3>1. req \in Message /\ req.event \in Quiet
      BY <1>2, <2>2 DEF Request, Message, Quiet
    <3>2. w' = Post(z, req)
      BY <2>2 DEF SendRequest
    <3> HIDE DEF s
    <3>3. /\ w \in Selected => z \in Selected
          /\ w \in Unselected => z \in Unselected
      BY <1>1, Values DEF Selected, Unselected, World
    <3> HIDE DEF z, req
    <3> QED
      BY <3>1, <3>2, <3>3, PostSelected, PostUnselected DEF IndexInv
  <2>3. CASE req.event = "REASSOCIATE"
    <3>1. w \in Selected
      BY <2>3 DEF IndexInv, SendRequest
    <3>2. s \in Selected
      BY <1>1, <3>1
    <3>3. \/ w' = PutScanLock(r(FALSE))
          \/ w' = Post(r(TRUE), Msg("CONNECT", s.cur_network_idx))
      BY <2>3 DEF SendRequest
    <3> HIDE DEF s
    <3>4. r(FALSE) \in Selected /\ r(TRUE) \in Selected /\ s.cur_network_idx \in Networks
      BY <3>2 DEF Selected, World
    <3> HIDE DEF r
    <3> QED
      BY <3>3, <3>4, Messages, PutSelected, PostSelected
  <2> QED
    BY <1>2, <2>1, <2>2, <2>3 DEF Request
<1>6. ASSUME w' \in Unselected, NEW v \in Users
      PROVE  /\ user'[v].event # "REASSOCIATE"
             /\ user'[v].event = "send" => user'[v].data.event # "REASSOCIATE"
  <2>1. w \in Unselected
    BY <1>5, <1>6, Exclusive DEF IndexInv
  <2>2. CASE v = u
    BY <1>3, <2>2
  <2>3. CASE v # u
    BY <2>1, <2>3 DEF SendRequest, IndexInv
  <2> QED
    BY <2>2, <2>3
<1> QED
  BY <1>3, <1>4, <1>5, <1>6 DEF IndexInv

LEMMA TakeScanLockKeeps ==
  ASSUME IndexInv, NEW u \in Users, TakeScanLock(u)
  PROVE  IndexInv'
<1>1. w' \in Selected \cup Unselected /\ (w \in Selected => w' \in Selected)
  <2>1. {} \in Reasons
    BY DEF Reasons
  <2>2. /\ w \in Selected => [w EXCEPT !.scan_lock = 0, !.cb = {}] \in Selected
        /\ w \in Unselected => [w EXCEPT !.scan_lock = 0, !.cb = {}] \in Unselected
    BY <2>1, Values DEF Selected, Unselected, World
  <2> QED
    BY <2>2 DEF TakeScanLock, IndexInv
<1>2. user[u] \in Request
  BY DEF TakeScanLock, IndexInv, Call, Request
<1>3. [event |-> "send", data |-> user[u]] \in Call
  BY <1>2 DEF Call
<1>4. user' \in [Users -> Call]
  BY <1>3 DEF TakeScanLock, IndexInv
<1>5. ASSUME w' \in Unselected, NEW v \in Users
      PROVE  /\ user'[v].event # "REASSOCIATE"
             /\ user'[v].event = "send" => user'[v].data.event # "REASSOCIATE"
  <2>1. w \in Unselected
    BY <1>1, <1>5, Exclusive DEF IndexInv
  <2>2. CASE v = u
    <3>1. user'[u] = [event |-> "send", data |-> user[u]]
      BY DEF TakeScanLock, IndexInv
    <3> QED
      BY <2>1, <2>2, <3>1 DEF IndexInv
  <2>3. CASE v # u
    BY <2>1, <2>3 DEF TakeScanLock, IndexInv
  <2> QED
    BY <2>2, <2>3
<1> QED
  BY <1>1, <1>4, <1>5 DEF TakeScanLock, IndexInv

LEMMA ApplicationStep ==
  ASSUME IndexInv, Application
  PROVE  IndexInv'
<1>w. w \in Selected \cup Unselected /\ losses \in 0..MaxLosses
  BY DEF IndexInv
<1>1. ASSUME NEW u \in Users, wlan_scan_with_opt(u) PROVE IndexInv'
  <2>1. Msg("SCAN", u) \in Request /\ Msg("SCAN", u).event = "SCAN"
    BY DEF Msg, Request
  <2> QED
    BY <1>w, <1>1, <2>1, EnterKeeps DEF wlan_scan_with_opt
<1>2. ASSUME NEW u \in Users, NEW n \in Networks, wlan_connect(u, n) PROVE IndexInv'
  <2>1. Msg("CONNECT", n) \in Request /\ Msg("CONNECT", n).event = "CONNECT"
    BY DEF Msg, Request
  <2>2. /\ w \in Selected => w' \in Selected
        /\ w \in Unselected => w' \in Unselected
    <3>1. {} \in Reasons
      BY DEF Reasons
    <3> QED
      BY <1>2, <3>1 DEF wlan_connect, Selected, Unselected, World
  <2> QED
    BY <1>w, <1>2, <2>1, <2>2, EnterKeeps DEF wlan_connect
<1>3. ASSUME NEW u \in Users, wlan_reassociate(u) PROVE IndexInv'
  <2>1. Msg("REASSOCIATE", TRUE) \in Request
    BY DEF Msg, Request
  <2>2. w \in Selected
    BY <1>w, <1>3 DEF wlan_reassociate, Unselected
  <2> QED
    BY <1>w, <1>3, <2>1, <2>2, EnterKeeps DEF wlan_reassociate
<1>4. ASSUME NEW u \in Users, wlan_disconnect(u) PROVE IndexInv'
  <2>1. Msg("DISCONNECT", TRUE) \in Message /\ Msg("DISCONNECT", TRUE).event \in Quiet
    BY Messages DEF Msg, Quiet
  <2>2. /\ w \in Selected => w' \in Selected
        /\ w \in Unselected => w' \in Unselected
    BY <1>4, <2>1, PostSelected, PostUnselected, ClearCb DEF wlan_disconnect
  <2>3. calls' \in 0..MaxCalls
    BY <1>4, WlcmgrAssumption DEF wlan_disconnect, Idle, IndexInv
  <2> QED
    BY <1>w, <1>4, <2>2, <2>3, StepKeeps DEF wlan_disconnect
<1>5. ASSUME NEW u \in Users, NEW on \in BOOLEAN, wlan_set_reassoc_control(u, on) PROVE IndexInv'
  <2>1. /\ w \in Selected => w' \in Selected
        /\ w \in Unselected => w' \in Unselected
    <3>1. {} \in Reasons
      BY DEF Reasons
    <3> QED
      BY <1>5, <3>1 DEF wlan_set_reassoc_control, Selected, Unselected, World
  <2>2. calls' \in 0..MaxCalls
    BY <1>5, WlcmgrAssumption DEF wlan_set_reassoc_control, Idle, IndexInv
  <2> QED
    BY <1>w, <1>5, <2>1, <2>2, StepKeeps DEF wlan_set_reassoc_control
<1> QED
  BY <1>1, <1>2, <1>3, <1>4, <1>5, TakeScanLockKeeps, SendRequestKeeps DEF Application

LEMMA EnvironmentStep ==
  ASSUME IndexInv, Environment
  PROVE  IndexInv'
<1>w. /\ w \in Selected \cup Unselected
      /\ calls \in 0..MaxCalls /\ losses \in 0..MaxLosses
      /\ {} \in Reasons
  BY DEF IndexInv, Reasons
<1>1. CASE ScanCleanup
  <2>1. /\ w \in Selected => w' \in Selected
        /\ w \in Unselected => w' \in Unselected
    <3> DEFINE a == [w EXCEPT !.scan_cfg = FALSE, !.scan_done = TRUE]
    <3>1. /\ w \in Selected => a \in Selected
          /\ w \in Unselected => a \in Unselected
      BY DEF Selected, Unselected, World
    <3> HIDE DEF a
    <3>2. w' = [a EXCEPT !.cb = {}]
      BY <1>1 DEF ScanCleanup, a
    <3> QED
      BY <3>1, <3>2, ClearCb
  <2> QED
    BY <1>w, <1>1, <2>1, StepKeeps DEF ScanCleanup
<1>2. CASE ScanPost
  <2> DEFINE a == [w EXCEPT !.scan_done = FALSE, !.cb = {}]
  <2>1. /\ w \in Selected => a \in Selected
        /\ w \in Unselected => a \in Unselected
    BY <1>w DEF Selected, Unselected, World
  <2> HIDE DEF a
  <2>2. w' = Post(a, Msg("SCAN_RESULT", TRUE))
    BY <1>2 DEF ScanPost, a
  <2>3. Msg("SCAN_RESULT", TRUE) \in Message /\ Msg("SCAN_RESULT", TRUE).event \in Quiet
    BY Messages DEF Msg, Quiet
  <2>4. /\ w \in Selected => w' \in Selected
        /\ w \in Unselected => w' \in Unselected
    BY <2>1, <2>2, <2>3, PostSelected, PostUnselected
  <2> QED
    BY <1>w, <1>2, <2>4, StepKeeps DEF ScanPost
<1>3. CASE FwPortRelease
  <2> DEFINE a == [w EXCEPT !.link = "up", !.cb = {}]
  <2>1. w \in Selected
    BY <1>w, <1>3 DEF FwPortRelease, Unselected
  <2>2. a \in Selected
    BY <1>w, <2>1, Values DEF Selected, World
  <2> HIDE DEF a
  <2>3. w' = Post(a, Msg("AUTHENTICATION", TRUE))
    BY <1>3 DEF FwPortRelease, a
  <2> QED
    BY <1>w, <1>3, <2>2, <2>3, Messages, PostSelected, StepKeeps DEF FwPortRelease
<1>4. CASE FwLinkDown
  <2> DEFINE a == [w EXCEPT !.link = "down", !.cb = {}]
  <2>1. w \in Selected
    BY <1>w, <1>4 DEF FwLinkDown, Unselected
  <2>2. a \in Selected
    BY <1>w, <2>1, Values DEF Selected, World
  <2> HIDE DEF a
  <2>3. PICK m \in {Msg("LINK_LOSS", TRUE), Msg("AUTHENTICATION", FALSE),
                    Msg("DISASSOCIATION", TRUE)} : w' = Post(a, m)
    BY <1>4 DEF FwLinkDown, a
  <2>4. losses' \in 0..MaxLosses
    BY <1>w, <1>4, WlcmgrAssumption DEF FwLinkDown
  <2>5. m \in Message
    BY <2>3, Messages
  <2> QED
    BY <1>w, <1>4, <2>2, <2>3, <2>4, <2>5, PostSelected, StepKeeps DEF FwLinkDown
<1>5. CASE DhcpBound
  <2>1. w \in Selected
    BY <1>w, <1>5 DEF DhcpBound, Unselected
  <2>2. w' = Post([w EXCEPT !.cb = {}], Msg("DHCP_CONFIG", TRUE))
    BY <1>5 DEF DhcpBound
  <2> QED
    BY <1>w, <1>5, <2>1, <2>2, ClearCb, Messages, PostSelected, StepKeeps DEF DhcpBound
<1>6. CASE DhcpLost
  <2>1. w \in Selected
    BY <1>w, <1>6 DEF DhcpLost, Unselected
  <2>2. w' = Post([w EXCEPT !.cb = {}], Msg("DHCP_CONFIG", FALSE))
    BY <1>6 DEF DhcpLost
  <2>3. losses' \in 0..MaxLosses
    BY <1>w, <1>6, WlcmgrAssumption DEF DhcpLost
  <2> QED
    BY <1>w, <1>6, <2>1, <2>2, <2>3, ClearCb, Messages, PostSelected, StepKeeps DEF DhcpLost
<1>7. CASE DhcpTimeout
  <2> DEFINE a == [w EXCEPT !.dhcp_timer = FALSE, !.dhcp = FALSE, !.cb = {}]
  <2>1. w \in Selected
    BY <1>w, <1>7 DEF DhcpTimeout, Unselected
  <2>2. a \in Selected
    BY <1>w, <2>1 DEF Selected, World
  <2> HIDE DEF a
  <2>3. w' = Post(a, Msg("DHCP_CONFIG", FALSE))
    BY <1>7 DEF DhcpTimeout, a
  <2> QED
    BY <1>w, <1>7, <2>2, <2>3, Messages, PostSelected, StepKeeps DEF DhcpTimeout
<1>8. CASE AssocTimeout
  <2> DEFINE a == [w EXCEPT !.assoc_timer = FALSE, !.assoc_paused = FALSE, !.cb = {}]
  <2>1. /\ w \in Selected => a \in Selected
        /\ w \in Unselected => a \in Unselected
    BY <1>w DEF Selected, Unselected, World
  <2> HIDE DEF a
  <2>2. w' = a \/ w' = Post(a, Msg("CONNECT", 0))
    BY <1>8 DEF AssocTimeout, a
  <2>3. Msg("CONNECT", 0) \in Message /\ Msg("CONNECT", 0).event \in Quiet
    BY Messages, WlcmgrAssumption DEF Msg, Quiet
  <2>4. /\ w \in Selected => w' \in Selected
        /\ w \in Unselected => w' \in Unselected
    BY <2>1, <2>2, <2>3, PostSelected, PostUnselected
  <2> QED
    BY <1>w, <1>8, <2>4, StepKeeps DEF AssocTimeout
<1> QED
  BY <1>1, <1>2, <1>3, <1>4, <1>5, <1>6, <1>7, <1>8 DEF Environment

LEMMA Singleton ==
  ASSUME NEW S, NEW m \in S
  PROVE  <<m>> \in Seq(S)
OBVIOUS

LEMMA InitIndexInv == Init => IndexInv
<1> SUFFICES ASSUME Init PROVE IndexInv
  OBVIOUS
<1>1. w.events = <<Msg("NET_INTERFACE_CONFIG", TRUE)>>
  BY DEF Init
<1>2. w.events \in EventQueue
  <2>1. Msg("NET_INTERFACE_CONFIG", TRUE) \in Message
    BY Messages
  <2> QED
    BY <1>1, <2>1, Singleton DEF EventQueue
<1>3. \A i \in DOMAIN w.events : w.events[i].event \in Quiet
  BY <1>1 DEF Msg, Quiet
<1>4. {} \in Reasons /\ -1 \in NetworkIdx
  BY DEF Reasons, NetworkIdx
<1>5. w \in World
  BY <1>2, <1>4, Values DEF Init, World
<1>6. w \in Unselected
  BY <1>3, <1>5 DEF Init, Unselected
<1>7. user \in [Users -> Call] /\ \A u \in Users : user[u].event = "none"
  BY DEF Init, Msg, Call
<1>8. calls \in 0..MaxCalls /\ losses \in 0..MaxLosses
  BY WlcmgrAssumption DEF Init
<1> QED
  BY <1>6, <1>7, <1>8 DEF IndexInv

LEMMA IndexInvInvariant == Spec => []IndexInv
<1>1. IndexInv /\ [Next]_vars => IndexInv'
  <2> SUFFICES ASSUME IndexInv, [Next]_vars PROVE IndexInv'
    OBVIOUS
  <2>1. CASE UNCHANGED vars
    BY <2>1 DEF vars, IndexInv
  <2> QED
    BY <2>1, CmMainStep, ApplicationStep, EnvironmentStep DEF Next
<1> QED
  BY <1>1, InitIndexInv, PTL DEF Spec

\* Type correctness of the connection manager: the limits on rescans and
\* reconnects are never passed and every queued CONNECT carries a valid index,
\* for any number of threads and networks and any capacity of the queue.
THEOREM TypeCorrect == Spec => []TypeOK
<1>1. IndexInv => TypeOK
  BY DEF IndexInv, TypeOK, Selected, Unselected
<1> QED
  BY <1>1, IndexInvInvariant, PTL

\* Before the first connect request stores an index no handler uses wlan.networks[-1], for any
\* threads, networks, queue and limits; wlcm_request_disconnect() reads its type, and only that.
THEOREM IndexSafe == Spec => []OnlyTypeReadEarly
<1>1. IndexInv => OnlyTypeReadEarly
  <2> SUFFICES ASSUME IndexInv, w.cur_network_idx = -1, w.events # <<>>
               PROVE  EarlyReads(w, Head(w.events)) \subseteq {"type"}
    BY DEF OnlyTypeReadEarly
  <2>1. w \in Unselected
    BY WlcmgrAssumption DEF IndexInv, Selected
  <2>2. PICK m \in Message : m = Head(w.events) /\ m.event \in Quiet
    BY <2>1 DEF Unselected, World, EventQueue
  <2>3. m.event = "CONNECT" => m.data # -1
    BY <2>2, MessageData, WlcmgrAssumption
  <2>4. w.sta_state \in {"INITIALIZING", "IDLE", "SCANNING_USER"}
        /\ w.sta_return_to \in {"IDLE", "SCANNING_USER"}
    BY <2>1 DEF Unselected
  <2>5. EarlyReads(w, m) \subseteq {"type"}
    BY <2>2, <2>3, <2>4 DEF EarlyReads, Quiet, AssociatingOrLater, is_user_scanning
  <2> QED
    BY <2>2, <2>5
<1> QED
  BY <1>1, IndexInvInvariant, PTL
=============================================================================
