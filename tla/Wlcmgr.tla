------------------------------- MODULE Wlcmgr -------------------------------
(***************************************************************************)
(* The station side of the WLAN connection manager (wlcmgr/wlan.c): the    *)
(* thread cm_main, the requests application threads make of it, and the    *)
(* parts of the driver, the firmware and the TCP/IP stack that answer      *)
(* through its event queue.                                                *)
(*                                                                         *)
(* w is the state the handlers work on: the fields of the struct "wlan",   *)
(* the queue, the scan lock and what is under way below.  One operator per *)
(* C function maps a value of w to the value the function leaves behind.   *)
(* handle_message() returns the next state through "*next", which every    *)
(* handler sets to the value cm_main finally stores in wlan.sta_state, so  *)
(* the handlers here set sta_state directly.                               *)
(*                                                                         *)
(* Build: embedded supplicant (no CONFIG_WPA_SUPP), no IPv6, no 11k/v/r,   *)
(* no CONFIG_ROAMING, extended scan on a chip other than the SD8801.       *)
(***************************************************************************)
EXTENDS Integers, Sequences, FiniteSets

CONSTANTS
  Users,          \* application threads
  Networks,       \* indices of configured entries of wlan.networks[]
  DhcpNetworks,   \* those whose address comes from DHCP (the rest: static)
  UapNetworks,    \* those with role uAP (connecting to one is refused)
  RescanLimit,    \* WLAN_RESCAN_LIMIT
  ReconnectLimit, \* WLAN_RECONNECT_LIMIT
  MaxEvents,      \* MAX_EVENTS: capacity of the event queue
  MaxCalls,       \* bound: API calls the application makes in a behaviour
  MaxLosses,      \* bound: times the firmware drops a link, or DHCP its lease
  Failures        \* which calls may fail: subset of {"scan", "mem", "mic"}

ASSUME WlcmgrAssumption ==
  /\ Networks \subseteq Nat /\ 0 \in Networks
  /\ DhcpNetworks \subseteq Networks /\ UapNetworks \subseteq Networks
  /\ RescanLimit \in Nat \ {0} /\ ReconnectLimit \in Nat
  /\ MaxEvents \in Nat \ {0} /\ MaxCalls \in Nat /\ MaxLosses \in Nat
  /\ Failures \subseteq {"scan", "mem", "mic"}

NoOne == "no one"      \* a NULL scan callback
ASSUME NoOneAssumption == NoOne \notin Users

VARIABLES
  w,       \* what the connection manager's handlers read and write
  user,    \* per application thread: the API call it is inside
  calls,   \* API calls left
  losses   \* unsolicited losses left

vars == <<w, user, calls, losses>>
-----------------------------------------------------------------------------
(* State *)

StaState == {"INITIALIZING", "IDLE", "SCANNING", "SCANNING_USER", "ASSOCIATING",
             "ASSOCIATED", "REQUESTING_ADDRESS", "OBTAINING_ADDRESS", "CONNECTED"}

\* sta_state >= CM_STA_ASSOCIATING in the order of enum cm_sta_state
AssociatingOrLater == {"ASSOCIATING", "ASSOCIATED", "REQUESTING_ADDRESS",
                       "OBTAINING_ADDRESS", "CONNECTED"}

Reason == {"SUCCESS", "AUTH_SUCCESS", "CONNECT_FAILED", "NETWORK_NOT_FOUND",
           "NETWORK_AUTH_FAILED", "ADDRESS_SUCCESS", "ADDRESS_FAILED",
           "LINK_LOST", "USER_DISCONNECT"}

Message == [event : {"CONNECT"}, data : Networks]
      \cup [event : {"SCAN"}, data : Users]
      \cup [event : {"DISCONNECT", "SCAN_RESULT", "LINK_LOSS", "DISASSOCIATION",
                     "STA_ADDR_CONFIG", "NET_INTERFACE_CONFIG"}, data : {TRUE}]
      \cup [event : {"ASSOCIATION", "AUTHENTICATION", "DHCP_CONFIG"}, data : BOOLEAN]

Msg(event, data) == [event |-> event, data |-> data]

NetworkIdx == Networks \cup {-1}
ScanCount == 0..RescanLimit
ReassocCount == 0..ReconnectLimit
ScanCb == Users \cup {NoOne}
LockCount == 0..1
EventQueue == Seq(Message)
LinkState == {"down", "associated", "up"}
Reasons == SUBSET Reason

World == [sta_state       : StaState,
          sta_return_to   : StaState,
          sta_ipv4_state  : StaState,
          cur_network_idx : NetworkIdx,
          scan_count      : ScanCount,
          reassoc_control : BOOLEAN,
          reassoc_request : BOOLEAN,
          reassoc_count   : ReassocCount,
          roam_reassoc    : BOOLEAN,
          hidden_scan_on  : BOOLEAN,
          assoc_paused    : BOOLEAN,
          pending_assoc   : BOOLEAN,     \* wlan.pending_assoc_request
          pausing         : BOOLEAN,     \* cm_main has seen assoc_paused and is about
                                         \* to set pending_assoc_request
          scan_cb         : ScanCb,
          scan_lock       : LockCount,   \* count of the binary semaphore
          is_scan_lock    : BOOLEAN,
          events          : EventQueue,
          scan_cfg        : BOOLEAN,     \* wm_wifi.g_user_scan_cfg # NULL
          scan_done       : BOOLEAN,     \* scan thread between cleanup and post
          link            : LinkState,   \* the firmware's link
          dhcp            : BOOLEAN,     \* DHCP client with its status callback
          dhcp_timer      : BOOLEAN,     \* DHCP timeout armed
          assoc_timer     : BOOLEAN,     \* bad-MIC pause armed
          cb              : Reasons,     \* reasons passed to wlan.cb by this step
          lost            : BOOLEAN]     \* history: a message did not fit in the
                                         \* queue, or results got no memory

Init ==
  /\ w = [sta_state |-> "INITIALIZING", sta_return_to |-> "IDLE",
          sta_ipv4_state |-> "INITIALIZING", cur_network_idx |-> -1,
          scan_count |-> 0, reassoc_control |-> TRUE, reassoc_request |-> FALSE,
          reassoc_count |-> 0, roam_reassoc |-> FALSE, hidden_scan_on |-> FALSE,
          assoc_paused |-> FALSE, pending_assoc |-> FALSE, pausing |-> FALSE, scan_cb |-> NoOne,
          scan_lock |-> 1, is_scan_lock |-> FALSE,
          events |-> <<Msg("NET_INTERFACE_CONFIG", TRUE)>>,
          scan_cfg |-> FALSE, scan_done |-> FALSE, link |-> "down",
          dhcp |-> FALSE, dhcp_timer |-> FALSE, assoc_timer |-> FALSE, cb |-> {},
          lost |-> FALSE]
  /\ user = [u \in Users |-> Msg("none", TRUE)]
  /\ calls = MaxCalls
  /\ losses = MaxLosses
-----------------------------------------------------------------------------
(* Helpers of the connection manager *)

is_user_scanning(s) == s.sta_state = "SCANNING_USER"

\* A user scan hides the state it returns to.
is_state(s, st) == IF is_user_scanning(s) THEN s.sta_return_to = st ELSE s.sta_state = st

is_scanning_allowed(s) == is_state(s, "IDLE") \/ is_state(s, "CONNECTED")

is_running(s) == s.sta_state # "INITIALIZING"

\* os_queue_send(..., OS_NO_WAIT): a message for a full queue is dropped.
Post(s, m) == IF Len(s.events) < MaxEvents THEN [s EXCEPT !.events = Append(@, m)]
              ELSE [s EXCEPT !.lost = TRUE]

\* CONNECTION_EVENT(reason, data)
Report(s, reason) == [s EXCEPT !.cb = @ \cup {reason}]

\* os_semaphore_put(&wlan.scan_lock); wlan.is_scan_lock = 0
PutScanLock(s) == [s EXCEPT !.scan_lock = 1, !.is_scan_lock = FALSE]

\* wifi_deauthenticate() returns after the firmware has answered.
wifi_deauthenticate(s) == [s EXCEPT !.link = "down"]

\* ok: wifi_send_scan_cmd() accepted the request.  A request made while one is
\* pending is answered WM_SUCCESS and merged with it.
wifi_send_scan_cmd(s, ok) == IF ok THEN [s EXCEPT !.scan_cfg = TRUE] ELSE s

\* Mutant: a scan command that fails is not reported to the queue.
do_scan_silent(s, ok) ==
  LET t == wifi_send_scan_cmd([s EXCEPT !.sta_state = "SCANNING"], ok)
  IN IF ok THEN [t EXCEPT !.scan_count = @ + 1] ELSE t

do_scan(s, ok) ==
  LET t == wifi_send_scan_cmd([s EXCEPT !.sta_state = "SCANNING"], ok)
  IN IF ok THEN [t EXCEPT !.scan_count = @ + 1] ELSE Post(t, Msg("SCAN_RESULT", TRUE))

do_hidden_scan(s, ok) ==
  LET t == wifi_send_scan_cmd([s EXCEPT !.sta_state = "SCANNING"], ok)
  IN IF ok THEN t ELSE Post(t, Msg("SCAN_RESULT", TRUE))

\* Mutant: the index of the new network is not stored.
do_connect_no_index(s, n, ok) == do_scan([s EXCEPT !.scan_count = 0], ok)

do_connect(s, n, ok) == do_scan([s EXCEPT !.cur_network_idx = n, !.scan_count = 0], ok)

\* Mutant: the failure is not reported to the application.
do_connect_failed_silent(s, reason) ==
  [s EXCEPT !.sta_return_to = IF is_user_scanning(s) THEN "IDLE" ELSE @, !.sta_state = "IDLE"]

do_connect_failed(s, reason) ==
  Report([s EXCEPT !.sta_return_to = IF is_user_scanning(s) THEN "IDLE" ELSE @,
                   !.sta_state = "IDLE"], reason)

\* report_scan_results(): call the user's callback once.
report_scan_results(s) == [s EXCEPT !.scan_cb = NoOne]
-----------------------------------------------------------------------------
(* Requests *)

wlcm_request_connect(s, n, ok) ==
  LET t == IF ~s.roam_reassoc /\ s.sta_state \in AssociatingOrLater /\ n \notin UapNetworks
           THEN wifi_deauthenticate(s) ELSE s
  IN IF n \in UapNetworks
     THEN Report(IF t.is_scan_lock THEN PutScanLock(t) ELSE t, "CONNECT_FAILED")
     ELSE do_connect(t, n, ok)

\* Mutant: attempts are not counted.
wlcm_request_reconnect_forever(s, ok) ==
  wlcm_request_connect([s EXCEPT !.reassoc_request = TRUE], s.cur_network_idx, ok)

\* The reconnect of reassoc_control, straight from a failure handler.  When the
\* attempts are used up, wlan_disconnect() queues a request to this same thread.
wlcm_request_reconnect(s, ok) ==
  IF s.reassoc_count < ReconnectLimit
  THEN wlcm_request_connect([s EXCEPT !.reassoc_request = TRUE, !.reassoc_count = @ + 1],
                            s.cur_network_idx, ok)
  ELSE Post(Report([s EXCEPT !.reassoc_request = FALSE, !.reassoc_count = 0], "CONNECT_FAILED"),
            Msg("DISCONNECT", TRUE))

\* if (wlan.reassoc_control) wlcm_request_reconnect(...)
Reconnect(s, ok) == IF s.reassoc_control THEN wlcm_request_reconnect(s, ok) ELSE s

\* A connection made by a reconnect ends the series of attempts.
EndReassoc(s) == IF s.reassoc_control /\ s.reassoc_request
                 THEN [s EXCEPT !.reassoc_count = 0, !.reassoc_request = FALSE] ELSE s

wlcm_request_scan(s, u, ok) ==
  IF ~is_scanning_allowed(s) \/ ~ok THEN PutScanLock(s)
  ELSE [wifi_send_scan_cmd(s, TRUE) EXCEPT !.scan_cb = u, !.sta_return_to = s.sta_state,
                                           !.sta_state = "SCANNING_USER"]

\* found: the current network is a station's, and so has an interface.  Otherwise "No interface
\* is up", and nothing is done.
wlcm_request_disconnect(s, found) ==
  LET t == [s EXCEPT !.dhcp = FALSE, !.dhcp_timer = FALSE]
      idle == [wifi_deauthenticate(t) EXCEPT !.sta_state = "IDLE", !.sta_ipv4_state = "IDLE"]
      quit == IF is_user_scanning(t) /\ t.sta_return_to # "IDLE"
              THEN IF t.sta_return_to \in AssociatingOrLater
                   THEN [idle EXCEPT !.sta_return_to = "IDLE"] ELSE t
              ELSE IF t.sta_state \in AssociatingOrLater
              THEN IF idle.is_scan_lock THEN PutScanLock(idle) ELSE idle
              ELSE [t EXCEPT !.sta_state = "IDLE", !.sta_ipv4_state = "IDLE"]
      told == Report(quit, "USER_DISCONNECT")
  IN IF ~found THEN s
     ELSE IF ~is_running(s) \/ is_state(s, "IDLE") THEN t
     ELSE IF told.reassoc_control /\ told.reassoc_request
     THEN [told EXCEPT !.scan_count = RescanLimit, !.reassoc_count = ReconnectLimit,
                       !.reassoc_request = FALSE]
     ELSE told
-----------------------------------------------------------------------------
(* Scan results and association *)

\* What handle_scan_results() meets: no memory for its copy of the best AP; no
\* matching AP; a hidden SSID only; the AP already joined; an AP that cannot be
\* configured, that refuses the association, or that accepts it.
ScanOutcome == {"nomem", "none", "hidden", "same", "refused", "assoc_fail", "assoc_ok"}

\* The association command waits for its response, whose event is queued
\* before the call returns.
start_association(s, outcome) ==
  LET t == [s EXCEPT !.sta_state = "ASSOCIATING", !.roam_reassoc = FALSE]
  IN IF outcome = "assoc_ok"
     THEN Post([t EXCEPT !.link = "associated"], Msg("ASSOCIATION", TRUE))
     ELSE Post([t EXCEPT !.link = "down"], Msg("ASSOCIATION", FALSE))

\* Our network is not in the results: rescan while attempts remain.
RescanOrGiveUp(s, ok) ==
  IF s.roam_reassoc
  THEN [s EXCEPT !.sta_state = "CONNECTED", !.roam_reassoc = FALSE]
  ELSE IF s.scan_count < RescanLimit
  THEN do_scan([s EXCEPT !.hidden_scan_on = FALSE], ok)
  ELSE Reconnect(do_connect_failed(s, "NETWORK_NOT_FOUND"), ok)

handle_scan_results(s, outcome, ok) ==
  CASE outcome = "nomem" -> [s EXCEPT !.lost = TRUE]
    [] outcome = "same" -> [s EXCEPT !.sta_state = "CONNECTED", !.roam_reassoc = FALSE]
    [] outcome \in {"assoc_ok", "assoc_fail"} -> start_association(s, outcome)
    [] outcome = "hidden" -> do_hidden_scan([s EXCEPT !.hidden_scan_on = TRUE], ok)
    [] outcome = "refused" ->
         RescanOrGiveUp(do_connect_failed([s EXCEPT !.sta_state = "ASSOCIATING",
                                                    !.roam_reassoc = FALSE],
                                          "NETWORK_NOT_FOUND"), ok)
    [] outcome = "none" -> RescanOrGiveUp([s EXCEPT !.sta_state = "ASSOCIATING"], ok)

wlcm_process_scan_result_event(s, outcome, ok) ==
  IF s.sta_state = "SCANNING" THEN PutScanLock(handle_scan_results(s, outcome, ok))
  ELSE IF is_user_scanning(s)
  THEN PutScanLock([report_scan_results(s) EXCEPT !.sta_state = s.sta_return_to])
  ELSE IF s.roam_reassoc /\ s.sta_state = "CONNECTED" THEN handle_scan_results(s, outcome, ok)
  ELSE PutScanLock(s)

\* Mutant: one rescan too many.
wlcm_process_association_event_late(s, success, ok) ==
  IF ~is_state(s, "ASSOCIATING") THEN s
  ELSE IF success THEN [s EXCEPT !.sta_state = "ASSOCIATED", !.scan_count = 0]
  ELSE IF s.scan_count <= RescanLimit THEN do_scan(s, ok)
  ELSE Reconnect(do_connect_failed(s, "NETWORK_NOT_FOUND"), ok)

wlcm_process_association_event(s, success, ok) ==
  IF ~is_state(s, "ASSOCIATING") THEN s
  ELSE IF success THEN [s EXCEPT !.sta_state = "ASSOCIATED", !.scan_count = 0]
  ELSE IF s.scan_count < RescanLimit THEN do_scan(s, ok)
  ELSE Reconnect(do_connect_failed(s, "NETWORK_NOT_FOUND"), ok)
-----------------------------------------------------------------------------
(* Authentication, link loss, addresses *)

\* net_configure_address(): starts DHCP and its timer, or sets the static
\* address, and queues the answer.
net_configure_address(s) ==
  LET useDhcp == s.cur_network_idx \in DhcpNetworks
  IN Post([s EXCEPT !.dhcp = useDhcp, !.dhcp_timer = useDhcp \/ @], Msg("STA_ADDR_CONFIG", TRUE))

\* mic: the reason code read through msg->data, which points into the event
\* buffer of the driver, says "MIC failure".  The buffer may have been reused.
wlcm_process_authentication_event(s, success, mic, ok) ==
  IF ~\E st \in AssociatingOrLater : is_state(s, st) THEN s
  ELSE IF success
  THEN [net_configure_address(Report(s, "AUTH_SUCCESS"))
          EXCEPT !.sta_state = "REQUESTING_ADDRESS", !.sta_ipv4_state = "REQUESTING_ADDRESS"]
  ELSE LET paused == [s EXCEPT !.assoc_paused = @ \/ mic, !.assoc_timer = @ \/ mic]
           noip == IF is_state(s, "REQUESTING_ADDRESS") \/ is_state(s, "OBTAINING_ADDRESS")
                   THEN [paused EXCEPT !.dhcp = FALSE] ELSE paused
           left == IF is_state(s, "ASSOCIATED") THEN wifi_deauthenticate(noip) ELSE noip
           idle == [left EXCEPT !.sta_state = "IDLE", !.sta_ipv4_state = "IDLE"]
       IN Reconnect(do_connect_failed(idle, "NETWORK_AUTH_FAILED"), ok)

\* The driver always passes "deauth leaving" as the reason of a link loss.
wlcm_process_link_loss_event(s, ok) ==
  LET t == [s EXCEPT !.dhcp = FALSE]
  IN IF is_state(s, "IDLE") THEN s
     ELSE IF is_state(s, "CONNECTED")
     THEN Reconnect(Report([t EXCEPT !.sta_state = "IDLE", !.sta_ipv4_state = "IDLE"],
                           "LINK_LOST"), ok)
     ELSE Reconnect(do_connect_failed([t EXCEPT !.dhcp_timer = FALSE], "NETWORK_NOT_FOUND"), ok)

wlcm_process_disassoc_event(s, ok) ==
  Reconnect(do_connect_failed([s EXCEPT !.sta_state = "IDLE"], "NETWORK_AUTH_FAILED"), ok)

\* The station is connected with an address: report it, end the reconnects.
Connected(s) ==
  Report(EndReassoc([s EXCEPT !.sta_state = "CONNECTED", !.sta_ipv4_state = "CONNECTED"]),
         "SUCCESS")

wlcm_process_sta_addr_config_event(s) ==
  IF ~is_state(s, "REQUESTING_ADDRESS") THEN s
  ELSE IF s.cur_network_idx \in DhcpNetworks
  THEN [s EXCEPT !.sta_state = "OBTAINING_ADDRESS", !.sta_ipv4_state = "OBTAINING_ADDRESS"]
  ELSE Connected(s)

wlcm_process_net_dhcp_config(s, success, ok) ==
  LET failed == Reconnect(do_connect_failed(s, "ADDRESS_FAILED"), ok)
  IN IF s.sta_ipv4_state = "OBTAINING_ADDRESS"
     THEN IF success THEN Connected([s EXCEPT !.dhcp_timer = FALSE]) ELSE failed
     ELSE IF success THEN Report(s, "ADDRESS_SUCCESS")
     ELSE IF s.sta_ipv4_state = "CONNECTED" THEN failed ELSE s

wlcm_process_net_if_config_event(s) ==
  IF s.sta_state # "INITIALIZING" THEN s ELSE [s EXCEPT !.sta_state = "IDLE"]
-----------------------------------------------------------------------------
(* cm_main: one message, handled to completion *)

\* The head of the queue is an event e; no reason has been reported yet.
Received(e) == ~w.pausing /\ w.events # <<>> /\ Head(w.events).event = e

Taken == [w EXCEPT !.events = Tail(@), !.cb = {}]

Data == Head(w.events).data

\* Results of the calls a handler makes: may this scan request fail?
ScanOk == IF "scan" \in Failures THEN BOOLEAN ELSE {TRUE}

\* The test of assoc_paused and the assignment that follows it are two steps:
\* assoc_timer_cb() runs in the timer task, at a higher priority.
HandleConnect ==
  /\ Received("CONNECT")
  /\ LET t == [Taken EXCEPT !.pending_assoc = FALSE]
     IN IF w.assoc_paused THEN w' = [t EXCEPT !.pausing = TRUE]
        ELSE \E ok \in ScanOk : w' = wlcm_request_connect(t, Data, ok)
  /\ UNCHANGED <<user, calls, losses>>

HoldConnect ==
  /\ w.pausing
  /\ w' = [w EXCEPT !.pausing = FALSE, !.pending_assoc = TRUE, !.cb = {}]
  /\ UNCHANGED <<user, calls, losses>>

\* Networks connected to are stations'.  Before the first one curr_nw is &wlan.networks[-1], and
\* what its type reads as is up to what lies before the array.
HandleDisconnect ==
  /\ Received("DISCONNECT")
  /\ \E found \in IF w.cur_network_idx = -1 THEN BOOLEAN ELSE {TRUE} :
       w' = wlcm_request_disconnect(Taken, found)
  /\ UNCHANGED <<user, calls, losses>>

HandleScan ==
  /\ Received("SCAN")
  /\ \E ok \in ScanOk : w' = wlcm_request_scan(Taken, Data, ok)
  /\ UNCHANGED <<user, calls, losses>>

\* Which outcomes handle_scan_results() can meet in state s.
Possible(s) ==
  {o \in ScanOutcome : /\ o = "nomem" => "mem" \in Failures
                       /\ o = "refused" => "scan" \in Failures
                       /\ o = "hidden" => ~s.hidden_scan_on
                       /\ o = "same" => s.roam_reassoc}

HandleScanResult ==
  /\ Received("SCAN_RESULT")
  /\ \E o \in Possible(w), ok \in ScanOk : w' = wlcm_process_scan_result_event(Taken, o, ok)
  /\ UNCHANGED <<user, calls, losses>>

HandleAssociation ==
  /\ Received("ASSOCIATION")
  /\ \E ok \in ScanOk : w' = wlcm_process_association_event(Taken, Data, ok)
  /\ UNCHANGED <<user, calls, losses>>

HandleAuthentication ==
  /\ Received("AUTHENTICATION")
  /\ \E ok \in ScanOk, mic \in IF "mic" \in Failures THEN BOOLEAN ELSE {FALSE} :
       w' = wlcm_process_authentication_event(Taken, Data, mic, ok)
  /\ UNCHANGED <<user, calls, losses>>

HandleLinkLoss ==
  /\ Received("LINK_LOSS")
  /\ \E ok \in ScanOk : w' = wlcm_process_link_loss_event(Taken, ok)
  /\ UNCHANGED <<user, calls, losses>>

HandleDisassociation ==
  /\ Received("DISASSOCIATION")
  /\ \E ok \in ScanOk : w' = wlcm_process_disassoc_event(Taken, ok)
  /\ UNCHANGED <<user, calls, losses>>

HandleStaAddrConfig ==
  /\ Received("STA_ADDR_CONFIG")
  /\ w' = wlcm_process_sta_addr_config_event(Taken)
  /\ UNCHANGED <<user, calls, losses>>

HandleDhcpConfig ==
  /\ Received("DHCP_CONFIG")
  /\ \E ok \in ScanOk : w' = wlcm_process_net_dhcp_config(Taken, Data, ok)
  /\ UNCHANGED <<user, calls, losses>>

HandleNetInterfaceConfig ==
  /\ Received("NET_INTERFACE_CONFIG")
  /\ w' = wlcm_process_net_if_config_event(Taken)
  /\ UNCHANGED <<user, calls, losses>>

cm_main ==
  \/ HandleConnect \/ HoldConnect \/ HandleDisconnect \/ HandleScan \/ HandleScanResult
  \/ HandleAssociation \/ HandleAuthentication \/ HandleLinkLoss
  \/ HandleDisassociation \/ HandleStaAddrConfig \/ HandleDhcpConfig
  \/ HandleNetInterfaceConfig
-----------------------------------------------------------------------------
(* Application threads.  A call that needs the scan lock has three steps:  *)
(* its checks, taking the lock, and sending the request.                   *)

Idle(u) == user[u].event = "none" /\ calls > 0

Enter(u, m) ==
  /\ user' = [user EXCEPT ![u] = m]
  /\ calls' = calls - 1

wlan_scan_with_opt(u) ==
  /\ Idle(u) /\ is_running(w) /\ is_scanning_allowed(w)
  /\ Enter(u, Msg("SCAN", u))
  /\ UNCHANGED <<w, losses>>

wlan_connect(u, n) ==
  /\ Idle(u)
  /\ Enter(u, Msg("CONNECT", n))
  /\ w' = [w EXCEPT !.roam_reassoc = FALSE, !.cb = {}]
  /\ UNCHANGED losses

wlan_reassociate(u) ==
  /\ Idle(u) /\ w.sta_state = "CONNECTED"
  /\ Enter(u, Msg("REASSOCIATE", TRUE))
  /\ UNCHANGED <<w, losses>>

wlan_disconnect(u) ==
  /\ Idle(u)
  /\ w' = [Post(w, Msg("DISCONNECT", TRUE)) EXCEPT !.cb = {}]
  /\ calls' = calls - 1
  /\ UNCHANGED <<user, losses>>

wlan_set_reassoc_control(u, on) ==
  /\ Idle(u) /\ w.reassoc_control # on
  /\ w' = [w EXCEPT !.reassoc_control = on, !.cb = {}]
  /\ calls' = calls - 1
  /\ UNCHANGED <<user, losses>>

\* os_semaphore_get(&wlan.scan_lock, OS_WAIT_FOREVER) returns
TakeScanLock(u) ==
  /\ user[u].event \in {"SCAN", "CONNECT", "REASSOCIATE"}
  /\ w.scan_lock = 1
  /\ w' = [w EXCEPT !.scan_lock = 0, !.cb = {}]
  /\ user' = [user EXCEPT ![u] = [event |-> "send", data |-> @]]
  /\ UNCHANGED <<calls, losses>>

\* send_user_request() and what each caller does around it.  Only
\* wlan_reassociate() undoes its steps when the queue is full.
SendRequest(u) ==
  LET full == Len(w.events) >= MaxEvents
      req == user[u].data
      s == [w EXCEPT !.is_scan_lock = TRUE, !.cb = {}]
  IN
  /\ user[u].event = "send"
  /\ user' = [user EXCEPT ![u] = Msg("none", TRUE)]
  /\ w' = CASE req.event = "SCAN" -> Post(s, req)
            [] req.event = "CONNECT" -> Post([s EXCEPT !.reassoc_count = 0], req)
            [] req.event = "REASSOCIATE" ->
                 IF full THEN PutScanLock([s EXCEPT !.roam_reassoc = FALSE])
                 ELSE Post([s EXCEPT !.roam_reassoc = TRUE], Msg("CONNECT", s.cur_network_idx))
  /\ UNCHANGED <<calls, losses>>

Application ==
  \E u \in Users :
    \/ wlan_scan_with_opt(u)
    \/ \E n \in Networks : wlan_connect(u, n)
    \/ wlan_reassociate(u)
    \/ wlan_disconnect(u)
    \/ \E on \in BOOLEAN : wlan_set_reassoc_control(u, on)
    \/ TakeScanLock(u)
    \/ SendRequest(u)
-----------------------------------------------------------------------------
(* The driver's scan thread, the firmware and the TCP/IP stack *)

\* wifi_scan_input(): the scan is over, its configuration is freed ...
ScanCleanup ==
  /\ w.scan_cfg /\ ~w.scan_done
  /\ w' = [w EXCEPT !.scan_cfg = FALSE, !.scan_done = TRUE, !.cb = {}]
  /\ UNCHANGED <<user, calls, losses>>

\* ... and the connection manager is told.  Whether the scan succeeded decides
\* what the table of results holds, which ScanOutcome ranges over.
ScanPost ==
  /\ w.scan_done
  /\ w' = Post([w EXCEPT !.scan_done = FALSE, !.cb = {}], Msg("SCAN_RESULT", TRUE))
  /\ UNCHANGED <<user, calls, losses>>

\* The embedded supplicant completes the handshake (EVENT_PORT_RELEASE).
FwPortRelease ==
  /\ w.link = "associated"
  /\ w' = Post([w EXCEPT !.link = "up", !.cb = {}], Msg("AUTHENTICATION", TRUE))
  /\ UNCHANGED <<user, calls, losses>>

\* The link goes down: EVENT_LINK_LOST or a deauthentication without a
\* reason, a deauthentication with one, or a disassociation.
FwLinkDown ==
  /\ w.link # "down" /\ losses > 0
  /\ \E m \in {Msg("LINK_LOSS", TRUE), Msg("AUTHENTICATION", FALSE), Msg("DISASSOCIATION", TRUE)} :
       w' = Post([w EXCEPT !.link = "down", !.cb = {}], m)
  /\ losses' = losses - 1
  /\ UNCHANGED <<user, calls>>

\* wm_netif_status_callback(): the DHCP client bound an address ...
DhcpBound ==
  /\ w.dhcp /\ w.link = "up"
  /\ ~\E i \in DOMAIN w.events : w.events[i] = Msg("DHCP_CONFIG", TRUE)
  /\ w' = Post([w EXCEPT !.cb = {}], Msg("DHCP_CONFIG", TRUE))
  /\ UNCHANGED <<user, calls, losses>>

\* ... or lost the one it had.
DhcpLost ==
  /\ w.dhcp /\ losses > 0
  /\ w' = Post([w EXCEPT !.cb = {}], Msg("DHCP_CONFIG", FALSE))
  /\ losses' = losses - 1
  /\ UNCHANGED <<user, calls>>

\* dhcp_timer_cb(): stop DHCP and give up on the address.
DhcpTimeout ==
  /\ w.dhcp_timer
  /\ w' = Post([w EXCEPT !.dhcp_timer = FALSE, !.dhcp = FALSE, !.cb = {}],
               Msg("DHCP_CONFIG", FALSE))
  /\ UNCHANGED <<user, calls, losses>>

\* assoc_timer_cb(): the pause after a MIC failure is over.
AssocTimeout ==
  /\ w.assoc_timer
  /\ LET t == [w EXCEPT !.assoc_timer = FALSE, !.assoc_paused = FALSE, !.cb = {}]
     IN w' = IF w.pending_assoc THEN Post(t, Msg("CONNECT", 0)) ELSE t
  /\ UNCHANGED <<user, calls, losses>>

Environment ==
  \/ ScanCleanup \/ ScanPost \/ FwPortRelease \/ FwLinkDown
  \/ DhcpBound \/ DhcpLost \/ DhcpTimeout \/ AssocTimeout

Next == cm_main \/ Application \/ Environment

Spec == Init /\ [][Next]_vars

\* The scheduler runs every ready thread, the firmware ends every scan, timers
\* expire, and a semaphore is not denied for ever to a thread that waits for it.
Fairness ==
  /\ WF_vars(cm_main)
  /\ WF_vars(ScanCleanup) /\ WF_vars(ScanPost)
  /\ WF_vars(DhcpTimeout) /\ WF_vars(AssocTimeout)
  /\ \A u \in Users : SF_vars(TakeScanLock(u)) /\ WF_vars(SendRequest(u))

FairSpec == Spec /\ Fairness
-----------------------------------------------------------------------------
(* Properties *)

Request == [event : {"SCAN"}, data : Users]
      \cup [event : {"CONNECT"}, data : Networks]
      \cup [event : {"REASSOCIATE"}, data : {TRUE}]

Call == [event : {"none"}, data : {TRUE}] \cup Request \cup [event : {"send"}, data : Request]

\* Type invariant: the fields keep the ranges the handlers rely on; the counts
\* of rescans and reconnects never pass WLAN_RESCAN_LIMIT and WLAN_RECONNECT_LIMIT.
TypeOK ==
  /\ w \in World
  /\ user \in [Users -> Call]
  /\ calls \in 0..MaxCalls
  /\ losses \in 0..MaxLosses

Queued(e) == \E i \in DOMAIN w.events : w.events[i].event = e

\* The fields of wlan.networks[-1] the handler of m reads in s, where cur_network_idx is -1.
EarlyReads(s, m) ==
  LET scanned == s.sta_state = "SCANNING" \/ (s.roam_reassoc /\ s.sta_state = "CONNECTED")
      left == IF is_user_scanning(s) /\ s.sta_return_to # "IDLE" THEN s.sta_return_to ELSE s.sta_state
      joining == \E st \in AssociatingOrLater : is_state(s, st)
  IN CASE m.event = "CONNECT" ->
            IF m.data = -1 THEN {"all"}
            ELSE IF s.sta_state \in AssociatingOrLater THEN {"bssid"} ELSE {}
       [] m.event = "DISCONNECT" ->
            {"type"} \cup IF left \in AssociatingOrLater THEN {"bssid"} ELSE {}
       [] m.event \in {"SCAN", "NET_INTERFACE_CONFIG"} -> {}
       [] m.event = "SCAN_RESULT" -> IF scanned THEN {"all"} ELSE {}
       [] m.event \in {"ASSOCIATION", "AUTHENTICATION", "STA_ADDR_CONFIG"} ->
            IF joining THEN {"all"} ELSE {}
       [] m.event = "LINK_LOSS" -> IF is_state(s, "IDLE") THEN {} ELSE {"all"}
       [] OTHER -> {"all"}

\* wlan_start() sets cur_network_idx to -1, and handle_message() hands &wlan.networks[-1] to the
\* handlers.  Until a connect request has stored an index, no message reaches a handler in a
\* state in which it uses that entry: no timer, event or late answer comes early.  The one use
\* is that of wlcm_request_disconnect(), which reads its type before it looks at the state.
OnlyTypeReadEarly ==
  w.cur_network_idx = -1 /\ w.events # <<>> => EarlyReads(w, Head(w.events)) \subseteq {"type"}

ScanUnderWay == w.scan_cfg \/ w.scan_done \/ Queued("SCAN_RESULT")

\* No attempt hangs: a station in CM_STA_SCANNING has a scan under way or its
\* result in the queue, one in CM_STA_ASSOCIATING the answer to its
\* association, one in CM_STA_REQUESTING_ADDRESS the answer of the network
\* layer.  Every path that enters such a state, failing calls, rescans and
\* reconnects included, must have left its stimulus behind.
AttemptHasStimulus ==
  ~w.lost =>
    /\ w.sta_state = "SCANNING" => ScanUnderWay
    /\ w.sta_state = "ASSOCIATING" => Queued("ASSOCIATION")
    /\ w.sta_state = "REQUESTING_ADDRESS" => Queued("STA_ADDR_CONFIG")

Failure == {"CONNECT_FAILED", "NETWORK_NOT_FOUND", "NETWORK_AUTH_FAILED", "ADDRESS_FAILED",
            "LINK_LOST", "USER_DISCONNECT"}

\* The application hears how its attempt ends: a step that takes the station
\* from a connection attempt back to idle passes a failure to wlan.cb, and one
\* that takes it to connected passes success (a reassociation that stays with
\* its access point excepted).
AttemptReported ==
  [][w.sta_state \in ({"SCANNING"} \cup AssociatingOrLater) \ {"CONNECTED"} /\ ~w.roam_reassoc =>
       /\ w'.sta_state \in {"IDLE", "SCANNING_USER"} => w'.cb \cap Failure # {}
       /\ w'.sta_state = "CONNECTED" => "SUCCESS" \in w'.cb]_vars

\* Rescans and reconnects come to an end: an attempt leaves the states in which
\* only the driver and the network layer are to answer.
AttemptSettles ==
  w.sta_state \in {"SCANNING", "ASSOCIATING", "REQUESTING_ADDRESS"}
    ~> w.sta_state \notin {"SCANNING", "ASSOCIATING", "REQUESTING_ADDRESS"} \/ w.lost
-----------------------------------------------------------------------------
(* What the documentation says and the code does not do *)

\* wlan.c on the DHCP event: relevant only in CM_STA_OBTAINING_ADDRESS,
\* "otherwise we ignore it".  A station that says it is connected has its link,
\* or the notice of its loss is in the queue.
ConnectedHasLink ==
  w.sta_state = "CONNECTED" =>
    \/ w.link = "up"
    \/ Queued("LINK_LOSS") \/ Queued("AUTHENTICATION") \/ Queued("DISASSOCIATION")
    \/ w.lost
=============================================================================
