------------------------- MODULE WlcmgrAttemptProofs -------------------------
(***************************************************************************)
(* Proofs that a connection attempt neither hangs nor ends in silence, for *)
(* any number of threads and networks, any capacity of the queue and any   *)
(* limits: a state that awaits an answer has its stimulus on the way, and  *)
(* a step that ends an attempt tells the application how.                  *)
(*                                                                         *)
(* The handlers are functions of the state, so the argument is one lemma   *)
(* per function.  Most ends of an attempt go through do_connect_failed()   *)
(* and the reconnect: they leave the station "Ended".                      *)
(***************************************************************************)
EXTENDS WlcmgrProofs

Held(s, e) == \E i \in DOMAIN s.events : s.events[i].event = e
Scans(s) == s.scan_cfg \/ s.scan_done \/ Held(s, "SCAN_RESULT")

\* The stimuli of AttemptHasStimulus, in a state whose message e is being handled ("none": no
\* message); the state that waits for e has it in hand.
Stimulus(s, e) ==
  ~s.lost =>
    /\ s.sta_state = "SCANNING" /\ e # "SCAN_RESULT" => Scans(s)
    /\ s.sta_state = "ASSOCIATING" /\ e # "ASSOCIATION" => Held(s, "ASSOCIATION")
    /\ s.sta_state = "REQUESTING_ADDRESS" /\ e # "STA_ADDR_CONFIG" => Held(s, "STA_ADDR_CONFIG")

\* What a user scan can return to: an attempt is never hidden behind one.
Back == {"IDLE", "CONNECTED", "SCANNING_USER"}

\* The inductive invariant.
AttemptInv == IndexInv /\ Stimulus(w, "none") /\ w.sta_return_to \in Back

\* AttemptReported for a step from s to r.
Attempts == ({"SCANNING"} \cup AssociatingOrLater) \ {"CONNECTED"}
Reported(s, r) ==
  s.sta_state \in Attempts /\ ~s.roam_reassoc =>
    /\ r.sta_state \in {"IDLE", "SCANNING_USER"} => r.cb \cap Failure # {}
    /\ r.sta_state = "CONNECTED" => "SUCCESS" \in r.cb

\* What a handler must leave behind.
Fine(s, r) == Stimulus(r, "none") /\ r.sta_return_to \in Back /\ Reported(s, r)

\* The state stays, and what it waits for.
Stays(s, r) ==
  /\ r.sta_state = s.sta_state /\ r.sta_return_to = s.sta_return_to
  /\ ~r.lost => /\ ~s.lost /\ (Scans(s) => Scans(r))
                /\ \A e : Held(s, e) => Held(r, e)

\* An attempt has ended, and the application was told, or it scans (again).
Told(r) == r.sta_state = "IDLE" /\ r.cb \cap Failure # {}
Scanning(r) == r.sta_state = "SCANNING" /\ (~r.lost => Scans(r))
Ended(r) == (Told(r) \/ Scanning(r)) /\ r.sta_return_to \in Back
-----------------------------------------------------------------------------
LEMMA StaysFine ==
  ASSUME NEW s, NEW r, NEW e, Stays(s, r), Stimulus(s, e), s.sta_return_to \in Back,
         e = "SCAN_RESULT" => s.sta_state # "SCANNING",
         e = "ASSOCIATION" => s.sta_state # "ASSOCIATING",
         e = "STA_ADDR_CONFIG" => s.sta_state # "REQUESTING_ADDRESS"
  PROVE  Fine(s, r)
<1>1. Stimulus(r, "none") /\ r.sta_return_to \in Back
  BY DEF Stays, Stimulus
<1>2. Reported(s, r)
  BY DEF Stays, Reported, Attempts, AssociatingOrLater
<1> QED
  BY <1>1, <1>2 DEF Fine

LEMMA EndedFine ==
  ASSUME NEW s, NEW r, Ended(r)
  PROVE  Fine(s, r)
BY DEF Ended, Told, Scanning, Fine, Stimulus, Reported

LEMMA PostIs ==
  ASSUME NEW s \in World, NEW m \in Message, NEW r, r = Post(s, m)
  PROVE  /\ r \in World /\ Stays(s, r) /\ (~r.lost => Held(r, m.event))
         /\ r.cb = s.cb /\ r.roam_reassoc = s.roam_reassoc
<1>1. s.events \in Seq(Message)
  BY DEF World, EventQueue
<1>2. r \in World
  BY PostType
<1>3. CASE Len(s.events) < MaxEvents
  <2>1. PICK q : q = Append(s.events, m)
    OBVIOUS
  <2>2. r = [s EXCEPT !.events = q]
    BY <1>3, <2>1 DEF Post
  <2>3. /\ \A i \in DOMAIN s.events : i \in DOMAIN q /\ q[i] = s.events[i]
        /\ \E i \in DOMAIN q : q[i] = m
    <3>1. Len(s.events) + 1 \in DOMAIN q /\ q[Len(s.events) + 1] = m
      BY <1>1, <2>1
    <3>2. \A i \in DOMAIN s.events : i \in DOMAIN q /\ q[i] = s.events[i]
      BY <1>1, <2>1
    <3> QED
      BY <3>1, <3>2
  <2>4. r.events = q /\ r.sta_state = s.sta_state /\ r.sta_return_to = s.sta_return_to
        /\ r.cb = s.cb /\ r.roam_reassoc = s.roam_reassoc
    BY <2>2 DEF World
  <2>5. r.lost = s.lost /\ r.scan_cfg = s.scan_cfg /\ r.scan_done = s.scan_done
    BY <2>2 DEF World
  <2>6. Held(r, m.event) /\ \A e : Held(s, e) => Held(r, e)
    BY <2>3, <2>4 DEF Held
  <2> QED
    BY <1>2, <2>4, <2>5, <2>6 DEF Stays, Scans
<1>4. CASE ~(Len(s.events) < MaxEvents)
  <2>1. r = [s EXCEPT !.lost = TRUE]
    BY <1>4 DEF Post
  <2> QED
    BY <1>2, <2>1 DEF Stays, World
<1> QED
  BY <1>3, <1>4

\* Fields the waiting does not depend on.
Alike(s, r) ==
  /\ r.sta_state = s.sta_state /\ r.sta_return_to = s.sta_return_to /\ r.events = s.events
  /\ r.scan_cfg = s.scan_cfg /\ r.scan_done = s.scan_done /\ r.lost = s.lost

LEMMA AlikeStays ==
  ASSUME NEW s, NEW r, Alike(s, r)
  PROVE  Stays(s, r)
BY DEF Alike, Stays, Scans, Held

LEMMA StaysOn ==
  ASSUME NEW s, NEW t, NEW r, Stays(s, t), Stays(t, r)
  PROVE  Stays(s, r)
BY DEF Stays

LEMMA PutIs ==
  ASSUME NEW s \in World
  PROVE  /\ PutScanLock(s) \in World /\ Alike(s, PutScanLock(s)) /\ PutScanLock(s).cb = s.cb
         /\ PutScanLock(s).roam_reassoc = s.roam_reassoc
BY Values DEF PutScanLock, World, Alike

LEMMA ReportIs ==
  ASSUME NEW s \in World, NEW r \in Reason
  PROVE  /\ Report(s, r) \in World /\ Alike(s, Report(s, r)) /\ Report(s, r).cb = s.cb \cup {r}
         /\ Report(s, r).roam_reassoc = s.roam_reassoc
<1>1. s.cb \cup {r} \in Reasons
  BY DEF World, Reasons
<1> QED
  BY <1>1 DEF Report, World, Alike

LEMMA DeauthIs ==
  ASSUME NEW s \in World
  PROVE  /\ wifi_deauthenticate(s) \in World /\ Alike(s, wifi_deauthenticate(s))
         /\ wifi_deauthenticate(s).cb = s.cb
         /\ wifi_deauthenticate(s).roam_reassoc = s.roam_reassoc
BY Values DEF wifi_deauthenticate, World, Alike

LEMMA DoScanIs ==
  ASSUME NEW s \in World, NEW ok \in BOOLEAN, NEW r, r = do_scan(s, ok) \/ r = do_hidden_scan(s, ok)
  PROVE  Scanning(r) /\ r.sta_return_to = s.sta_return_to
<1>1. PICK a : a = [s EXCEPT !.sta_state = "SCANNING"]
  OBVIOUS
<1>2. a \in World /\ a.sta_state = "SCANNING" /\ a.sta_return_to = s.sta_return_to
  BY <1>1, Values DEF World
<1>3. CASE ok
  <2>1. PICK b : b = [a EXCEPT !.scan_cfg = TRUE]
    OBVIOUS
  <2>2. /\ b \in World /\ b.sta_state = "SCANNING" /\ b.sta_return_to = s.sta_return_to
        /\ b.scan_cfg = TRUE
    BY <1>2, <2>1 DEF World
  <2>3. r = [b EXCEPT !.scan_count = b.scan_count + 1] \/ r = b
    BY <1>1, <1>3, <2>1 DEF do_scan, do_hidden_scan, wifi_send_scan_cmd
  <2>4. r.sta_state = "SCANNING" /\ r.sta_return_to = s.sta_return_to /\ r.scan_cfg = TRUE
    BY <2>2, <2>3 DEF World
  <2> QED
    BY <2>4 DEF Scanning, Scans
<1>4. CASE ~ok
  <2>1. PICK m \in Message : m = Msg("SCAN_RESULT", TRUE)
    BY Messages
  <2>2. r = Post(a, m) /\ m.event = "SCAN_RESULT"
    BY <1>1, <1>4, <2>1 DEF do_scan, do_hidden_scan, wifi_send_scan_cmd, Msg
  <2>3. Stays(a, r) /\ (~r.lost => Held(r, "SCAN_RESULT"))
    BY <1>2, <2>2, PostIs
  <2> QED
    BY <1>2, <2>3 DEF Stays, Scanning, Scans
<1> QED
  BY <1>3, <1>4

LEMMA DoConnectFailedIs ==
  ASSUME NEW s \in World, NEW why \in Failure, s.sta_return_to \in Back, NEW r,
         r = do_connect_failed(s, why)
  PROVE  /\ r \in World /\ Told(r) /\ r.sta_return_to \in Back
         /\ r.roam_reassoc = s.roam_reassoc /\ r.reassoc_control = s.reassoc_control
<1>1. PICK b \in Back \cap StaState : b = IF is_user_scanning(s) THEN "IDLE" ELSE s.sta_return_to
  BY Values DEF Back, World
<1>2. PICK a : a = [s EXCEPT !.sta_return_to = b, !.sta_state = "IDLE"]
  OBVIOUS
<1>3. /\ a \in World /\ a.sta_state = "IDLE" /\ a.sta_return_to = b
      /\ a.roam_reassoc = s.roam_reassoc /\ a.reassoc_control = s.reassoc_control
  BY <1>1, <1>2, Values DEF World
<1>4. r = Report(a, why)
  BY <1>1, <1>2 DEF do_connect_failed
<1>5. why \in Reason
  BY DEF Failure, Reason
<1>6. /\ r \in World /\ Alike(a, r) /\ r.cb = a.cb \cup {why} /\ r.roam_reassoc = a.roam_reassoc
  BY <1>3, <1>4, <1>5, ReportIs
<1>7. r.reassoc_control = a.reassoc_control
  BY <1>3, <1>4 DEF Report, World
<1>8. r.cb \cap Failure # {}
  BY <1>6
<1> QED
  BY <1>1, <1>3, <1>6, <1>7, <1>8 DEF Alike, Told

\* A request to connect leaves the state alone (a micro-AP's network) or scans.
LEMMA RequestConnectIs ==
  ASSUME NEW s \in World, NEW n \in Networks, NEW ok \in BOOLEAN, NEW r,
         r = wlcm_request_connect(s, n, ok)
  PROVE  \/ Stays(s, r) /\ s.cb \subseteq r.cb
         \/ Scanning(r) /\ r.sta_return_to = s.sta_return_to
<1>1. PICK t : t = IF ~s.roam_reassoc /\ s.sta_state \in AssociatingOrLater /\ n \notin UapNetworks
                   THEN wifi_deauthenticate(s) ELSE s
  OBVIOUS
<1>2. t \in World /\ Alike(s, t) /\ t.cb = s.cb
  BY <1>1, DeauthIs DEF Alike
<1>3. CASE n \in UapNetworks
  <2>1. PICK p : p = IF t.is_scan_lock THEN PutScanLock(t) ELSE t
    OBVIOUS
  <2>2. p \in World /\ Alike(t, p) /\ p.cb = t.cb
    BY <1>2, <2>1, PutIs DEF Alike
  <2>3. r = Report(p, "CONNECT_FAILED")
    BY <1>1, <1>3, <2>1 DEF wlcm_request_connect
  <2>4. "CONNECT_FAILED" \in Reason
    BY DEF Reason
  <2>5. Alike(p, r) /\ r.cb = p.cb \cup {"CONNECT_FAILED"}
    BY <2>2, <2>3, <2>4, ReportIs
  <2>6. Stays(s, t) /\ Stays(t, p) /\ Stays(p, r)
    BY <1>2, <2>2, <2>5, AlikeStays
  <2>7. Stays(s, r)
    BY <2>6, StaysOn
  <2> QED
    BY <1>2, <2>2, <2>5, <2>7
<1>4. CASE n \notin UapNetworks
  <2>1. PICK a : a = [t EXCEPT !.cur_network_idx = n, !.scan_count = 0]
    OBVIOUS
  <2>2. a \in World /\ a.sta_return_to = t.sta_return_to
    BY <1>2, <2>1, Values DEF World
  <2>3. r = do_scan(a, ok)
    BY <1>1, <1>4, <2>1 DEF wlcm_request_connect, do_connect
  <2>4. Scanning(r) /\ r.sta_return_to = a.sta_return_to
    BY <2>2, <2>3, DoScanIs
  <2> QED
    BY <1>2, <2>2, <2>4 DEF Alike
<1> QED
  BY <1>3, <1>4

\* After a failure that was reported, the reconnect scans or leaves the station idle.
LEMMA ReconnectIs ==
  ASSUME NEW s \in Selected, Told(s), s.sta_return_to \in Back, NEW ok \in BOOLEAN, NEW r,
         r = Reconnect(s, ok)
  PROVE  Ended(r)
<1>0. s \in World /\ s.cur_network_idx \in Networks
  BY DEF Selected
<1>1. CASE ~s.reassoc_control
  BY <1>1 DEF Reconnect, Ended
<1>2. CASE s.reassoc_control /\ s.reassoc_count < ReconnectLimit
  <2>1. PICK c \in ReassocCount : c = s.reassoc_count + 1
    BY <1>0, <1>2, CountReassoc DEF World
  <2>2. PICK a : a = [s EXCEPT !.reassoc_request = TRUE, !.reassoc_count = c]
    OBVIOUS
  <2>3. /\ a \in World /\ a.sta_state = s.sta_state /\ a.sta_return_to = s.sta_return_to
        /\ a.cb = s.cb
    BY <1>0, <2>2 DEF World
  <2>4. r = wlcm_request_connect(a, s.cur_network_idx, ok)
    BY <1>2, <2>1, <2>2 DEF Reconnect, wlcm_request_reconnect
  <2>5. \/ Stays(a, r) /\ a.cb \subseteq r.cb
        \/ Scanning(r) /\ r.sta_return_to = a.sta_return_to
    BY <1>0, <2>3, <2>4, RequestConnectIs
  <2>6. CASE Stays(a, r) /\ a.cb \subseteq r.cb
    <3>1. r.sta_state = "IDLE" /\ r.sta_return_to \in Back /\ r.cb \cap Failure # {}
      BY <2>3, <2>6 DEF Stays, Told
    <3> QED
      BY <3>1 DEF Ended, Told
  <2> QED
    BY <2>3, <2>5, <2>6 DEF Ended
<1>3. CASE s.reassoc_control /\ ~(s.reassoc_count < ReconnectLimit)
  <2>1. PICK b : b = [s EXCEPT !.reassoc_request = FALSE, !.reassoc_count = 0]
    OBVIOUS
  <2>2. /\ b \in World /\ b.sta_state = s.sta_state /\ b.sta_return_to = s.sta_return_to
        /\ b.cb = s.cb
    BY <1>0, <2>1, Values DEF World
  <2>3. PICK c : c = Report(b, "CONNECT_FAILED")
    OBVIOUS
  <2>4. "CONNECT_FAILED" \in Reason
    BY DEF Reason
  <2>5. c \in World /\ Alike(b, c) /\ c.cb = b.cb \cup {"CONNECT_FAILED"}
    BY <2>2, <2>3, <2>4, ReportIs
  <2>6. PICK m \in Message : m = Msg("DISCONNECT", TRUE)
    BY Messages
  <2>7. r = Post(c, m)
    BY <1>3, <2>1, <2>3, <2>6 DEF Reconnect, wlcm_request_reconnect
  <2>8. Stays(c, r) /\ r.cb = c.cb
    BY <2>5, <2>7, PostIs
  <2>9. r.sta_state = "IDLE" /\ r.sta_return_to \in Back /\ r.cb \cap Failure # {}
    BY <2>2, <2>5, <2>8 DEF Stays, Alike, Told
  <2> QED
    BY <2>9 DEF Ended, Told
<1> QED
  BY <1>1, <1>2, <1>3

\* do_connect_failed() and the reconnect.
LEMMA FailsIs ==
  ASSUME NEW s \in Selected, NEW why \in Failure, s.sta_return_to \in Back, NEW ok \in BOOLEAN, NEW r,
         r = Reconnect(do_connect_failed(s, why), ok)
  PROVE  Ended(r)
<1>1. PICK t : t = do_connect_failed(s, why)
  OBVIOUS
<1>2. Told(t) /\ t.sta_return_to \in Back
  BY <1>1, DoConnectFailedIs DEF Selected
<1>3. t \in Selected
  BY <1>1, DoConnectFailedSelected DEF Failure, Reason
<1> QED
  BY <1>1, <1>2, <1>3, ReconnectIs

LEMMA RescanIs ==
  ASSUME NEW s \in Selected, s.sta_return_to \in Back, NEW ok \in BOOLEAN, NEW r,
         r = RescanOrGiveUp(s, ok)
  PROVE  \/ Ended(r)
         \/ s.roam_reassoc /\ r.sta_state = "CONNECTED" /\ r.sta_return_to \in Back
<1>0. s \in World
  BY DEF Selected
<1>1. CASE s.roam_reassoc
  <2>1. r = [s EXCEPT !.sta_state = "CONNECTED", !.roam_reassoc = FALSE]
    BY <1>1 DEF RescanOrGiveUp
  <2>2. r.sta_state = "CONNECTED" /\ r.sta_return_to = s.sta_return_to
    BY <1>0, <2>1 DEF World
  <2> QED
    BY <1>1, <2>2
<1>2. CASE ~s.roam_reassoc /\ s.scan_count < RescanLimit
  <2>1. PICK a : a = [s EXCEPT !.hidden_scan_on = FALSE]
    OBVIOUS
  <2>2. a \in World /\ a.sta_return_to = s.sta_return_to
    BY <1>0, <2>1 DEF World
  <2>3. r = do_scan(a, ok)
    BY <1>2, <2>1 DEF RescanOrGiveUp
  <2> QED
    BY <2>2, <2>3, DoScanIs DEF Ended
<1>3. CASE ~s.roam_reassoc /\ ~(s.scan_count < RescanLimit)
  <2>1. r = Reconnect(do_connect_failed(s, "NETWORK_NOT_FOUND"), ok)
    BY <1>3 DEF RescanOrGiveUp
  <2>2. "NETWORK_NOT_FOUND" \in Failure
    BY DEF Failure
  <2> QED
    BY <2>1, <2>2, FailsIs
<1> QED
  BY <1>1, <1>2, <1>3

\* A handler's last touches do not matter.
LEMMA FineOn ==
  ASSUME NEW s, NEW t, NEW r, Fine(s, t), Alike(t, r), r.cb = t.cb
  PROVE  Fine(s, r)
BY DEF Fine, Alike, Stimulus, Reported, Scans, Held

LEMMA StartAssociationIs ==
  ASSUME NEW s \in World, s.sta_return_to \in Back, NEW o, NEW r, r = start_association(s, o)
  PROVE  Fine(s, r)
<1>1. PICK t : t = [s EXCEPT !.sta_state = "ASSOCIATING", !.roam_reassoc = FALSE]
  OBVIOUS
<1>2. t \in World /\ t.sta_state = "ASSOCIATING" /\ t.sta_return_to = s.sta_return_to
  BY <1>1, Values DEF World
<1>3. PICK a \in {[t EXCEPT !.link = "associated"], [t EXCEPT !.link = "down"]},
           b \in BOOLEAN : r = Post(a, Msg("ASSOCIATION", b))
  BY <1>1 DEF start_association
<1>4. a \in World /\ a.sta_state = "ASSOCIATING" /\ a.sta_return_to = s.sta_return_to
  BY <1>2, <1>3, Values DEF World
<1>5. PICK m \in Message : m = Msg("ASSOCIATION", b)
  BY Messages
<1>6. m.event = "ASSOCIATION" /\ r = Post(a, m)
  BY <1>3, <1>5 DEF Msg
<1>7. Stays(a, r) /\ (~r.lost => Held(r, "ASSOCIATION"))
  BY <1>4, <1>6, PostIs
<1>8. r.sta_state = "ASSOCIATING" /\ r.sta_return_to \in Back
  BY <1>4, <1>7 DEF Stays
<1> QED
  BY <1>7, <1>8 DEF Fine, Stimulus, Reported

LEMMA HandleScanResultsIs ==
  ASSUME NEW s \in Selected, s.sta_return_to \in Back, s.sta_state \in {"SCANNING", "CONNECTED"},
         NEW o \in ScanOutcome, o = "same" => s.roam_reassoc, NEW ok \in BOOLEAN, NEW r,
         r = handle_scan_results(s, o, ok)
  PROVE  Fine(s, r)
<1>0. s \in World
  BY DEF Selected
<1>1. CASE o = "nomem"
  <2>1. r = [s EXCEPT !.lost = TRUE]
    BY <1>1 DEF handle_scan_results
  <2>2. r.lost /\ r.sta_state = s.sta_state /\ r.sta_return_to = s.sta_return_to
    BY <1>0, <2>1 DEF World
  <2> QED
    BY <2>2 DEF Fine, Stimulus, Reported, Attempts
<1>2. CASE o = "same"
  <2>1. r = [s EXCEPT !.sta_state = "CONNECTED", !.roam_reassoc = FALSE]
    BY <1>2 DEF handle_scan_results
  <2>2. r.sta_state = "CONNECTED" /\ r.sta_return_to = s.sta_return_to
    BY <1>0, <2>1 DEF World
  <2> QED
    BY <1>2, <2>2 DEF Fine, Stimulus, Reported
<1>3. CASE o \in {"assoc_ok", "assoc_fail"}
  <2>1. r = start_association(s, o)
    BY <1>3 DEF handle_scan_results
  <2> QED
    BY <1>0, <2>1, StartAssociationIs
<1>4. CASE o = "hidden"
  <2>1. PICK a : a = [s EXCEPT !.hidden_scan_on = TRUE]
    OBVIOUS
  <2>2. a \in World /\ a.sta_return_to = s.sta_return_to
    BY <1>0, <2>1 DEF World
  <2>3. r = do_hidden_scan(a, ok)
    BY <1>4, <2>1 DEF handle_scan_results
  <2>4. Scanning(r) /\ r.sta_return_to = a.sta_return_to
    BY <2>2, <2>3, DoScanIs
  <2> QED
    BY <2>2, <2>4, EndedFine DEF Ended
<1>5. CASE o = "refused"
  <2>1. PICK a : a = [s EXCEPT !.sta_state = "ASSOCIATING", !.roam_reassoc = FALSE]
    OBVIOUS
  <2>2. /\ a \in World /\ a.sta_return_to = s.sta_return_to /\ a.roam_reassoc = FALSE
        /\ a.cur_network_idx = s.cur_network_idx
    BY <1>0, <2>1, Values DEF World
  <2>3. PICK t : t = do_connect_failed(a, "NETWORK_NOT_FOUND")
    OBVIOUS
  <2>4. "NETWORK_NOT_FOUND" \in Failure /\ "NETWORK_NOT_FOUND" \in Reason
    BY DEF Failure, Reason
  <2>5. t.sta_return_to \in Back /\ t.roam_reassoc = FALSE
    BY <2>2, <2>3, <2>4, DoConnectFailedIs
  <2>6. a \in Selected
    BY <2>2 DEF Selected
  <2>7. t \in Selected
    BY <2>3, <2>4, <2>6, DoConnectFailedSelected
  <2>8. r = RescanOrGiveUp(t, ok)
    BY <1>5, <2>1, <2>3 DEF handle_scan_results
  <2> QED
    BY <2>5, <2>7, <2>8, RescanIs, EndedFine
<1>6. CASE o = "none"
  <2>1. PICK a : a = [s EXCEPT !.sta_state = "ASSOCIATING"]
    OBVIOUS
  <2>2. /\ a \in World /\ a.sta_return_to = s.sta_return_to /\ a.roam_reassoc = s.roam_reassoc
        /\ a.cur_network_idx = s.cur_network_idx
    BY <1>0, <2>1, Values DEF World
  <2>3. a \in Selected
    BY <2>2 DEF Selected
  <2>4. r = RescanOrGiveUp(a, ok)
    BY <1>6, <2>1 DEF handle_scan_results
  <2>5. \/ Ended(r)
        \/ a.roam_reassoc /\ r.sta_state = "CONNECTED" /\ r.sta_return_to \in Back
    BY <2>2, <2>3, <2>4, RescanIs
  <2>6. CASE a.roam_reassoc /\ r.sta_state = "CONNECTED" /\ r.sta_return_to \in Back
    BY <2>2, <2>6 DEF Fine, Stimulus, Reported
  <2> QED
    BY <2>5, <2>6, EndedFine
<1> QED
  BY <1>1, <1>2, <1>3, <1>4, <1>5, <1>6 DEF ScanOutcome

LEMMA ScanResultIs ==
  ASSUME NEW s \in Selected, Stimulus(s, "SCAN_RESULT"), s.sta_return_to \in Back,
         NEW o \in ScanOutcome, o = "same" => s.roam_reassoc, NEW ok \in BOOLEAN, NEW r,
         r = wlcm_process_scan_result_event(s, o, ok)
  PROVE  Fine(s, r)
<1>0. s \in World
  BY DEF Selected
<1>1. CASE s.sta_state = "SCANNING"
  <2>1. PICK t : t = handle_scan_results(s, o, ok)
    OBVIOUS
  <2>2. Fine(s, t)
    BY <1>1, <2>1, HandleScanResultsIs
  <2>3. t \in World
    BY <2>1, HandleScanResultsSelected DEF Selected
  <2>4. r = PutScanLock(t)
    BY <1>1, <2>1 DEF wlcm_process_scan_result_event
  <2> QED
    BY <2>2, <2>3, <2>4, PutIs, FineOn
<1>2. CASE s.sta_state # "SCANNING" /\ is_user_scanning(s)
  <2>1. PICK a : a = [s EXCEPT !.scan_cb = NoOne]
    OBVIOUS
  <2>2. a \in World /\ a.sta_return_to = s.sta_return_to /\ s.sta_return_to \in StaState
    BY <1>0, <2>1, Values DEF World
  <2>3. PICK b : b = [a EXCEPT !.sta_state = s.sta_return_to]
    OBVIOUS
  <2>4. b \in World /\ b.sta_state = s.sta_return_to /\ b.sta_return_to = s.sta_return_to
    BY <2>2, <2>3 DEF World
  <2>5. r = PutScanLock(b)
    BY <1>2, <2>1, <2>3 DEF wlcm_process_scan_result_event, report_scan_results
  <2>6. Alike(b, r)
    BY <2>4, <2>5, PutIs
  <2>7. r.sta_state \in Back /\ r.sta_return_to \in Back
    BY <2>4, <2>6 DEF Alike
  <2>8. s.sta_state \notin Attempts
    BY <1>2 DEF is_user_scanning, Attempts, AssociatingOrLater
  <2> QED
    BY <2>7, <2>8 DEF Fine, Stimulus, Reported, Back
<1>3. CASE s.sta_state # "SCANNING" /\ ~is_user_scanning(s) /\ s.roam_reassoc
           /\ s.sta_state = "CONNECTED"
  <2>1. r = handle_scan_results(s, o, ok)
    BY <1>3 DEF wlcm_process_scan_result_event
  <2> QED
    BY <1>3, <2>1, HandleScanResultsIs
<1>4. CASE s.sta_state # "SCANNING" /\ ~is_user_scanning(s)
           /\ ~(s.roam_reassoc /\ s.sta_state = "CONNECTED")
  <2>1. r = PutScanLock(s)
    BY <1>4 DEF wlcm_process_scan_result_event
  <2>2. Stays(s, r)
    BY <1>0, <2>1, PutIs, AlikeStays
  <2> QED
    BY <1>4, <2>2, StaysFine
<1> QED
  BY <1>1, <1>2, <1>3, <1>4

\* The state stays and nothing was waiting for this message.
LEMMA IgnoredIs ==
  ASSUME NEW s, NEW e, Stimulus(s, e), s.sta_return_to \in Back,
         e = "SCAN_RESULT" => s.sta_state # "SCANNING",
         e = "ASSOCIATION" => s.sta_state # "ASSOCIATING",
         e = "STA_ADDR_CONFIG" => s.sta_state # "REQUESTING_ADDRESS"
  PROVE  Fine(s, s)
<1>1. Stays(s, s)
  BY DEF Stays
<1> QED
  BY <1>1, StaysFine

LEMMA IsState ==
  ASSUME NEW s, s.sta_return_to \in Back
  PROVE  /\ is_state(s, "ASSOCIATING") <=> s.sta_state = "ASSOCIATING"
         /\ is_state(s, "REQUESTING_ADDRESS") <=> s.sta_state = "REQUESTING_ADDRESS"
BY DEF is_state, is_user_scanning, Back

LEMMA AssociationIs ==
  ASSUME NEW s \in Selected, Stimulus(s, "ASSOCIATION"), s.sta_return_to \in Back,
         NEW success \in BOOLEAN, NEW ok \in BOOLEAN, NEW r,
         r = wlcm_process_association_event(s, success, ok)
  PROVE  Fine(s, r)
<1>0. s \in World
  BY DEF Selected
<1>1. CASE ~is_state(s, "ASSOCIATING")
  <2>1. r = s /\ s.sta_state # "ASSOCIATING"
    BY <1>1, IsState DEF wlcm_process_association_event
  <2> QED
    BY <2>1, IgnoredIs
<1>2. CASE is_state(s, "ASSOCIATING") /\ success
  <2>1. r = [s EXCEPT !.sta_state = "ASSOCIATED", !.scan_count = 0]
    BY <1>2 DEF wlcm_process_association_event
  <2>2. r.sta_state = "ASSOCIATED" /\ r.sta_return_to = s.sta_return_to
    BY <1>0, <2>1 DEF World
  <2> QED
    BY <2>2 DEF Fine, Stimulus, Reported
<1>3. CASE is_state(s, "ASSOCIATING") /\ ~success /\ s.scan_count < RescanLimit
  <2>1. r = do_scan(s, ok)
    BY <1>3 DEF wlcm_process_association_event
  <2>2. Scanning(r) /\ r.sta_return_to = s.sta_return_to
    BY <1>0, <2>1, DoScanIs
  <2> QED
    BY <2>2, EndedFine DEF Ended
<1>4. CASE is_state(s, "ASSOCIATING") /\ ~success /\ ~(s.scan_count < RescanLimit)
  <2>1. r = Reconnect(do_connect_failed(s, "NETWORK_NOT_FOUND"), ok)
    BY <1>4 DEF wlcm_process_association_event
  <2>2. "NETWORK_NOT_FOUND" \in Failure
    BY DEF Failure
  <2> QED
    BY <2>1, <2>2, FailsIs, EndedFine
<1> QED
  BY <1>1, <1>2, <1>3, <1>4

LEMMA ConfigureAddressIs ==
  ASSUME NEW s \in World, s.sta_return_to \in Back, NEW r, r = net_configure_address(s)
  PROVE  /\ r \in World /\ r.sta_return_to = s.sta_return_to
         /\ ~r.lost => Held(r, "STA_ADDR_CONFIG")
<1>1. \A b \in BOOLEAN : /\ [s EXCEPT !.dhcp = b, !.dhcp_timer = b \/ @] \in World
                         /\ [s EXCEPT !.dhcp = b, !.dhcp_timer = b \/ @].sta_return_to
                              = s.sta_return_to
  BY DEF World
<1>2. (s.cur_network_idx \in DhcpNetworks) \in BOOLEAN
  OBVIOUS
<1>3. PICK a : a = [s EXCEPT !.dhcp = (s.cur_network_idx \in DhcpNetworks),
                             !.dhcp_timer = (s.cur_network_idx \in DhcpNetworks) \/ @]
  OBVIOUS
<1>4. a \in World /\ a.sta_return_to = s.sta_return_to
  BY <1>1, <1>2, <1>3
<1>5. PICK m \in Message : m = Msg("STA_ADDR_CONFIG", TRUE)
  BY Messages
<1>6. r = Post(a, m) /\ m.event = "STA_ADDR_CONFIG"
  BY <1>3, <1>5 DEF net_configure_address, Msg
<1> QED
  BY <1>4, <1>6, PostIs DEF Stays

LEMMA AuthenticationIs ==
  ASSUME NEW s \in Selected, Stimulus(s, "AUTHENTICATION"), s.sta_return_to \in Back,
         NEW success \in BOOLEAN, NEW mic \in BOOLEAN, NEW ok \in BOOLEAN, NEW r,
         r = wlcm_process_authentication_event(s, success, mic, ok)
  PROVE  Fine(s, r)
<1>0. s \in World
  BY DEF Selected
<1>1. CASE ~\E st \in AssociatingOrLater : is_state(s, st)
  <2>1. r = s
    BY <1>1 DEF wlcm_process_authentication_event
  <2> QED
    BY <2>1, IgnoredIs
<1>2. CASE (\E st \in AssociatingOrLater : is_state(s, st)) /\ success
  <2>1. PICK a : a = Report(s, "AUTH_SUCCESS")
    OBVIOUS
  <2>2. "AUTH_SUCCESS" \in Reason
    BY DEF Reason
  <2>3. a \in World /\ a.sta_return_to \in Back
    BY <1>0, <2>1, <2>2, ReportIs DEF Alike
  <2>4. PICK b : b = net_configure_address(a)
    OBVIOUS
  <2>5. b \in World /\ b.sta_return_to \in Back /\ (~b.lost => Held(b, "STA_ADDR_CONFIG"))
    BY <2>3, <2>4, ConfigureAddressIs
  <2>6. r = [b EXCEPT !.sta_state = "REQUESTING_ADDRESS", !.sta_ipv4_state = "REQUESTING_ADDRESS"]
    BY <1>2, <2>1, <2>4 DEF wlcm_process_authentication_event
  <2>7. /\ r.sta_state = "REQUESTING_ADDRESS" /\ r.sta_return_to = b.sta_return_to
        /\ r.lost = b.lost /\ r.events = b.events
    BY <2>5, <2>6 DEF World
  <2> QED
    BY <2>5, <2>7 DEF Fine, Stimulus, Reported, Held
<1>3. CASE (\E st \in AssociatingOrLater : is_state(s, st)) /\ ~success
  <2>1. PICK p : p = [s EXCEPT !.assoc_paused = @ \/ mic, !.assoc_timer = @ \/ mic]
    OBVIOUS
  <2>2. p \in World /\ p.sta_return_to = s.sta_return_to /\ p.cur_network_idx = s.cur_network_idx
    <3>1. \A x, y \in BOOLEAN :
            LET q == [s EXCEPT !.assoc_paused = x, !.assoc_timer = y]
            IN q \in World /\ q.sta_return_to = s.sta_return_to
               /\ q.cur_network_idx = s.cur_network_idx
      BY <1>0 DEF World
    <3>2. (s.assoc_paused \/ mic) \in BOOLEAN /\ (s.assoc_timer \/ mic) \in BOOLEAN
      OBVIOUS
    <3> QED
      BY <2>1, <3>1, <3>2
  <2>3. PICK n : n = IF is_state(s, "REQUESTING_ADDRESS") \/ is_state(s, "OBTAINING_ADDRESS")
                     THEN [p EXCEPT !.dhcp = FALSE] ELSE p
    OBVIOUS
  <2>4. n \in World /\ n.sta_return_to = s.sta_return_to /\ n.cur_network_idx = s.cur_network_idx
    BY <2>2, <2>3 DEF World
  <2>5. PICK l : l = IF is_state(s, "ASSOCIATED") THEN wifi_deauthenticate(n) ELSE n
    OBVIOUS
  <2>6. l \in World /\ l.sta_return_to = s.sta_return_to /\ l.cur_network_idx = s.cur_network_idx
    BY <2>4, <2>5, Values DEF wifi_deauthenticate, World
  <2>7. PICK i : i = [l EXCEPT !.sta_state = "IDLE", !.sta_ipv4_state = "IDLE"]
    OBVIOUS
  <2>8. i \in World /\ i.sta_return_to = s.sta_return_to /\ i.cur_network_idx = s.cur_network_idx
    BY <2>6, <2>7, Values DEF World
  <2>9. i \in Selected
    BY <2>8 DEF Selected
  <2>10. r = Reconnect(do_connect_failed(i, "NETWORK_AUTH_FAILED"), ok)
    BY <1>3, <2>1, <2>3, <2>5, <2>7 DEF wlcm_process_authentication_event
  <2>11. "NETWORK_AUTH_FAILED" \in Failure
    BY DEF Failure
  <2> QED
    BY <2>8, <2>9, <2>10, <2>11, FailsIs, EndedFine
<1> QED
  BY <1>1, <1>2, <1>3

LEMMA LinkLossIs ==
  ASSUME NEW s \in Selected, Stimulus(s, "LINK_LOSS"), s.sta_return_to \in Back,
         NEW ok \in BOOLEAN, NEW r, r = wlcm_process_link_loss_event(s, ok)
  PROVE  Fine(s, r)
<1>0. s \in World
  BY DEF Selected
<1>1. PICK t : t = [s EXCEPT !.dhcp = FALSE]
  OBVIOUS
<1>2. t \in World /\ t.sta_return_to = s.sta_return_to /\ t.cur_network_idx = s.cur_network_idx
  BY <1>0, <1>1 DEF World
<1>3. CASE is_state(s, "IDLE")
  <2>1. r = s
    BY <1>3 DEF wlcm_process_link_loss_event
  <2> QED
    BY <2>1, IgnoredIs
<1>4. CASE ~is_state(s, "IDLE") /\ is_state(s, "CONNECTED")
  <2>1. PICK a : a = [t EXCEPT !.sta_state = "IDLE", !.sta_ipv4_state = "IDLE"]
    OBVIOUS
  <2>2. /\ a \in World /\ a.sta_state = "IDLE" /\ a.sta_return_to = s.sta_return_to
        /\ a.cur_network_idx = s.cur_network_idx
    BY <1>2, <2>1, Values DEF World
  <2>3. PICK b : b = Report(a, "LINK_LOST")
    OBVIOUS
  <2>4. "LINK_LOST" \in Reason /\ "LINK_LOST" \in Failure
    BY DEF Reason, Failure
  <2>5. Alike(a, b) /\ b.cb = a.cb \cup {"LINK_LOST"}
    BY <2>2, <2>3, <2>4, ReportIs
  <2>6. b \in Selected
    BY <2>2, <2>3, <2>4, ReportSelected DEF Selected
  <2>7. Told(b) /\ b.sta_return_to \in Back
    BY <2>2, <2>4, <2>5 DEF Alike, Told
  <2>8. r = Reconnect(b, ok)
    BY <1>1, <1>4, <2>1, <2>3 DEF wlcm_process_link_loss_event
  <2> QED
    BY <2>6, <2>7, <2>8, ReconnectIs, EndedFine
<1>5. CASE ~is_state(s, "IDLE") /\ ~is_state(s, "CONNECTED")
  <2>1. PICK a : a = [t EXCEPT !.dhcp_timer = FALSE]
    OBVIOUS
  <2>2. a \in World /\ a.sta_return_to = s.sta_return_to /\ a.cur_network_idx = s.cur_network_idx
    BY <1>2, <2>1 DEF World
  <2>3. a \in Selected
    BY <2>2 DEF Selected
  <2>4. r = Reconnect(do_connect_failed(a, "NETWORK_NOT_FOUND"), ok)
    BY <1>1, <1>5, <2>1 DEF wlcm_process_link_loss_event
  <2>5. "NETWORK_NOT_FOUND" \in Failure
    BY DEF Failure
  <2> QED
    BY <2>2, <2>3, <2>4, <2>5, FailsIs, EndedFine
<1> QED
  BY <1>3, <1>4, <1>5

LEMMA DisassocIs ==
  ASSUME NEW s \in Selected, s.sta_return_to \in Back, NEW ok \in BOOLEAN, NEW r,
         r = wlcm_process_disassoc_event(s, ok)
  PROVE  Fine(s, r)
<1>1. PICK a : a = [s EXCEPT !.sta_state = "IDLE"]
  OBVIOUS
<1>2. a \in Selected /\ a.sta_return_to = s.sta_return_to
  BY <1>1, Values DEF Selected, World
<1>3. r = Reconnect(do_connect_failed(a, "NETWORK_AUTH_FAILED"), ok)
  BY <1>1 DEF wlcm_process_disassoc_event
<1>4. "NETWORK_AUTH_FAILED" \in Failure
  BY DEF Failure
<1> QED
  BY <1>2, <1>3, <1>4, FailsIs, EndedFine

LEMMA ConnectedIs ==
  ASSUME NEW s \in World, s.sta_return_to \in Back, NEW t, NEW r, r = Connected(s)
  PROVE  Fine(t, r)
<1>1. PICK a : a = [s EXCEPT !.sta_state = "CONNECTED", !.sta_ipv4_state = "CONNECTED"]
  OBVIOUS
<1>2. a \in World /\ a.sta_state = "CONNECTED" /\ a.sta_return_to = s.sta_return_to
  BY <1>1, Values DEF World
<1>3. PICK b : b = EndReassoc(a)
  OBVIOUS
<1>4. b \in World /\ b.sta_state = "CONNECTED" /\ b.sta_return_to = s.sta_return_to
  BY <1>2, <1>3, Values DEF EndReassoc, World
<1>5. r = Report(b, "SUCCESS")
  BY <1>1, <1>3 DEF Connected
<1>6. "SUCCESS" \in Reason
  BY DEF Reason
<1>7. Alike(b, r) /\ r.cb = b.cb \cup {"SUCCESS"}
  BY <1>4, <1>5, <1>6, ReportIs
<1> QED
  BY <1>4, <1>7 DEF Alike, Fine, Stimulus, Reported

LEMMA StaAddrConfigIs ==
  ASSUME NEW s \in Selected, Stimulus(s, "STA_ADDR_CONFIG"), s.sta_return_to \in Back, NEW r,
         r = wlcm_process_sta_addr_config_event(s)
  PROVE  Fine(s, r)
<1>0. s \in World
  BY DEF Selected
<1>1. CASE ~is_state(s, "REQUESTING_ADDRESS")
  <2>1. r = s /\ s.sta_state # "REQUESTING_ADDRESS"
    BY <1>1, IsState DEF wlcm_process_sta_addr_config_event
  <2> QED
    BY <2>1, IgnoredIs
<1>2. CASE is_state(s, "REQUESTING_ADDRESS") /\ s.cur_network_idx \in DhcpNetworks
  <2>1. r = [s EXCEPT !.sta_state = "OBTAINING_ADDRESS", !.sta_ipv4_state = "OBTAINING_ADDRESS"]
    BY <1>2 DEF wlcm_process_sta_addr_config_event
  <2>2. r.sta_state = "OBTAINING_ADDRESS" /\ r.sta_return_to = s.sta_return_to
    BY <1>0, <2>1 DEF World
  <2> QED
    BY <2>2 DEF Fine, Stimulus, Reported
<1>3. CASE is_state(s, "REQUESTING_ADDRESS") /\ s.cur_network_idx \notin DhcpNetworks
  <2>1. r = Connected(s)
    BY <1>3 DEF wlcm_process_sta_addr_config_event
  <2> QED
    BY <1>0, <2>1, ConnectedIs
<1> QED
  BY <1>1, <1>2, <1>3

LEMMA DhcpConfigIs ==
  ASSUME NEW s \in Selected, Stimulus(s, "DHCP_CONFIG"), s.sta_return_to \in Back,
         NEW success \in BOOLEAN, NEW ok \in BOOLEAN, NEW r,
         r = wlcm_process_net_dhcp_config(s, success, ok)
  PROVE  Fine(s, r)
<1>0. s \in World
  BY DEF Selected
<1>1. \/ r = Connected([s EXCEPT !.dhcp_timer = FALSE])
      \/ r = Reconnect(do_connect_failed(s, "ADDRESS_FAILED"), ok)
      \/ r = Report(s, "ADDRESS_SUCCESS")
      \/ r = s
  BY DEF wlcm_process_net_dhcp_config
<1>2. CASE r = Connected([s EXCEPT !.dhcp_timer = FALSE])
  <2>1. PICK a : a = [s EXCEPT !.dhcp_timer = FALSE]
    OBVIOUS
  <2>2. a \in World /\ a.sta_return_to = s.sta_return_to
    BY <1>0, <2>1 DEF World
  <2> QED
    BY <1>2, <2>1, <2>2, ConnectedIs
<1>3. CASE r = Reconnect(do_connect_failed(s, "ADDRESS_FAILED"), ok)
  <2>1. "ADDRESS_FAILED" \in Failure
    BY DEF Failure
  <2> QED
    BY <1>3, <2>1, FailsIs, EndedFine
<1>4. CASE r = Report(s, "ADDRESS_SUCCESS")
  <2>1. "ADDRESS_SUCCESS" \in Reason
    BY DEF Reason
  <2>2. Stays(s, r)
    BY <1>0, <1>4, <2>1, ReportIs, AlikeStays
  <2> QED
    BY <2>2, StaysFine
<1>5. CASE r = s
  BY <1>5, IgnoredIs
<1> QED
  BY <1>1, <1>2, <1>3, <1>4, <1>5

LEMMA NetIfConfigIs ==
  ASSUME NEW s \in World, Stimulus(s, "NET_INTERFACE_CONFIG"), s.sta_return_to \in Back, NEW r,
         r = wlcm_process_net_if_config_event(s)
  PROVE  Fine(s, r)
<1>1. CASE s.sta_state # "INITIALIZING"
  <2>1. r = s
    BY <1>1 DEF wlcm_process_net_if_config_event
  <2> QED
    BY <2>1, IgnoredIs
<1>2. CASE s.sta_state = "INITIALIZING"
  <2>1. r = [s EXCEPT !.sta_state = "IDLE"]
    BY <1>2 DEF wlcm_process_net_if_config_event
  <2>2. r.sta_state = "IDLE" /\ r.sta_return_to = s.sta_return_to
    BY <2>1 DEF World
  <2> QED
    BY <1>2, <2>2 DEF Fine, Stimulus, Reported, Attempts, AssociatingOrLater
<1> QED
  BY <1>1, <1>2

LEMMA ConnectIs ==
  ASSUME NEW s \in World, Stimulus(s, "CONNECT"), s.sta_return_to \in Back,
         NEW n \in Networks, NEW ok \in BOOLEAN, NEW r, r = wlcm_request_connect(s, n, ok)
  PROVE  Fine(s, r)
<1>1. \/ Stays(s, r)
      \/ Scanning(r) /\ r.sta_return_to = s.sta_return_to
  BY RequestConnectIs
<1>2. CASE Stays(s, r)
  BY <1>2, StaysFine
<1>3. CASE Scanning(r) /\ r.sta_return_to = s.sta_return_to
  BY <1>3, EndedFine DEF Ended
<1> QED
  BY <1>1, <1>2, <1>3

LEMMA RequestScanIs ==
  ASSUME NEW s \in World, Stimulus(s, "SCAN"), s.sta_return_to \in Back,
         NEW u \in Users, NEW ok \in BOOLEAN, NEW r, r = wlcm_request_scan(s, u, ok)
  PROVE  Fine(s, r)
<1>1. CASE ~is_scanning_allowed(s) \/ ~ok
  <2>1. r = PutScanLock(s)
    BY <1>1 DEF wlcm_request_scan
  <2>2. Stays(s, r)
    BY <2>1, PutIs, AlikeStays
  <2> QED
    BY <2>2, StaysFine
<1>2. CASE is_scanning_allowed(s) /\ ok
  <2>1. PICK a : a = [s EXCEPT !.scan_cfg = TRUE]
    OBVIOUS
  <2>2. a \in World
    BY <2>1 DEF World
  <2>3. r = [a EXCEPT !.scan_cb = u, !.sta_return_to = s.sta_state, !.sta_state = "SCANNING_USER"]
    BY <1>2, <2>1 DEF wlcm_request_scan, wifi_send_scan_cmd
  <2>4. r.sta_state = "SCANNING_USER" /\ r.sta_return_to = s.sta_state
    BY <2>2, <2>3 DEF World
  <2>5. s.sta_state \in Back
    BY <1>2 DEF is_scanning_allowed, is_state, is_user_scanning, Back
  <2>6. s.sta_state \notin Attempts
    BY <2>5 DEF Back, Attempts, AssociatingOrLater
  <2> QED
    BY <2>4, <2>5, <2>6 DEF Fine, Stimulus, Reported
<1> QED
  BY <1>1, <1>2

LEMMA RequestDisconnectIs ==
  ASSUME NEW s \in World, Stimulus(s, "DISCONNECT"), s.sta_return_to \in Back, NEW r,
         NEW found, r = wlcm_request_disconnect(s, found)
  PROVE  Fine(s, r)
<1>1. PICK t : t = [s EXCEPT !.dhcp = FALSE, !.dhcp_timer = FALSE]
  OBVIOUS
<1>2. t \in World /\ Alike(s, t)
  BY <1>1 DEF World, Alike
<1>0. CASE ~found
  <2>1. r = s
    BY <1>0 DEF wlcm_request_disconnect
  <2> QED
    BY <2>1, AlikeStays, StaysFine DEF Alike
<1>3. CASE found /\ (~is_running(s) \/ is_state(s, "IDLE"))
  <2>1. r = t
    BY <1>1, <1>3 DEF wlcm_request_disconnect
  <2> QED
    BY <1>2, <2>1, AlikeStays, StaysFine
<1>4. CASE found /\ ~(~is_running(s) \/ is_state(s, "IDLE"))
  <2>1. PICK d : d = wifi_deauthenticate(t)
    OBVIOUS
  <2>2. d \in World /\ d.sta_return_to = s.sta_return_to
    BY <1>2, <2>1, DeauthIs DEF Alike
  <2>3. PICK idle : idle = [d EXCEPT !.sta_state = "IDLE", !.sta_ipv4_state = "IDLE"]
    OBVIOUS
  <2>4. idle \in World /\ idle.sta_state = "IDLE" /\ idle.sta_return_to = s.sta_return_to
    BY <2>2, <2>3, Values DEF World
  <2>5. PICK quit : quit = IF is_user_scanning(t) /\ t.sta_return_to # "IDLE"
                           THEN IF t.sta_return_to \in AssociatingOrLater
                                THEN [idle EXCEPT !.sta_return_to = "IDLE"] ELSE t
                           ELSE IF t.sta_state \in AssociatingOrLater
                           THEN IF idle.is_scan_lock THEN PutScanLock(idle) ELSE idle
                           ELSE [t EXCEPT !.sta_state = "IDLE", !.sta_ipv4_state = "IDLE"]
    OBVIOUS
  <2>6. /\ quit \in World /\ quit.sta_state \in {"IDLE", "SCANNING_USER"}
        /\ quit.sta_return_to \in Back
    <3>1. CASE is_user_scanning(t) /\ t.sta_return_to # "IDLE"
      <4>1. CASE t.sta_return_to \in AssociatingOrLater
        <5>1. quit = [idle EXCEPT !.sta_return_to = "IDLE"]
          BY <2>5, <3>1, <4>1
        <5> QED
          BY <2>4, <5>1, Values DEF World, Back
      <4>2. CASE t.sta_return_to \notin AssociatingOrLater
        <5>1. quit = t
          BY <2>5, <3>1, <4>2
        <5> QED
          BY <1>2, <3>1, <5>1 DEF is_user_scanning, Alike
      <4> QED
        BY <4>1, <4>2
    <3>2. CASE ~(is_user_scanning(t) /\ t.sta_return_to # "IDLE") /\ t.sta_state \in AssociatingOrLater
      <4>1. quit = PutScanLock(idle) \/ quit = idle
        BY <2>5, <3>2
      <4> QED
        BY <2>4, <4>1, PutIs DEF Alike
    <3>3. CASE ~(is_user_scanning(t) /\ t.sta_return_to # "IDLE") /\ t.sta_state \notin AssociatingOrLater
      <4>1. quit = [t EXCEPT !.sta_state = "IDLE", !.sta_ipv4_state = "IDLE"]
        BY <2>5, <3>3
      <4>2. quit.sta_state = "IDLE" /\ quit.sta_return_to = t.sta_return_to /\ quit \in World
        BY <1>2, <4>1, Values DEF World
      <4> QED
        BY <1>2, <4>2 DEF Alike
    <3> QED
      BY <3>1, <3>2, <3>3
  <2>7. PICK told : told = Report(quit, "USER_DISCONNECT")
    OBVIOUS
  <2>8. "USER_DISCONNECT" \in Reason /\ "USER_DISCONNECT" \in Failure
    BY DEF Reason, Failure
  <2>9. told \in World /\ Alike(quit, told) /\ told.cb = quit.cb \cup {"USER_DISCONNECT"}
    BY <2>6, <2>7, <2>8, ReportIs
  <2>10. \/ r = [told EXCEPT !.scan_count = RescanLimit, !.reassoc_count = ReconnectLimit,
                             !.reassoc_request = FALSE]
         \/ r = told
    BY <1>1, <1>4, <2>1, <2>3, <2>5, <2>7 DEF wlcm_request_disconnect
  <2>11. /\ r.sta_state = told.sta_state /\ r.sta_return_to = told.sta_return_to
         /\ r.cb = told.cb
    BY <2>9, <2>10 DEF World
  <2>12. /\ r.sta_state \in {"IDLE", "SCANNING_USER"} /\ r.sta_return_to \in Back
         /\ "USER_DISCONNECT" \in r.cb
    BY <2>6, <2>9, <2>11 DEF Alike
  <2> QED
    BY <2>8, <2>12 DEF Fine, Stimulus, Reported
<1> QED
  BY <1>0, <1>3, <1>4
-----------------------------------------------------------------------------
(* Induction *)

\* The state the handler of e works on: only e itself has left the queue.
LEMMA TakenIs ==
  ASSUME AttemptInv, NEW e, Received(e)
  PROVE  /\ Taken \in World /\ Stimulus(Taken, e)
         /\ Taken.sta_state = w.sta_state /\ Taken.sta_return_to = w.sta_return_to
         /\ Taken.roam_reassoc = w.roam_reassoc /\ Taken.sta_return_to \in Back
<1>0. w \in World
  BY DEF AttemptInv, IndexInv, Selected, Unselected
<1>1. w.events \in Seq(Message) /\ w.events # <<>> /\ Head(w.events).event = e
  BY <1>0 DEF World, EventQueue, Received
<1>2. Taken \in World
  BY TakenTyped DEF AttemptInv, IndexInv, Selected, Unselected
<1>3. PICK q : q = Tail(w.events)
  OBVIOUS
<1>4. Taken = [w EXCEPT !.events = q, !.cb = {}]
  BY <1>3 DEF Taken
<1>5. /\ Taken.events = q /\ Taken.sta_state = w.sta_state
      /\ Taken.sta_return_to = w.sta_return_to /\ Taken.roam_reassoc = w.roam_reassoc
      /\ Taken.scan_cfg = w.scan_cfg /\ Taken.scan_done = w.scan_done /\ Taken.lost = w.lost
  BY <1>0, <1>4 DEF World
<1>6. ASSUME NEW x, Held(w, x), x # e
      PROVE  Held(Taken, x)
  <2>1. PICK i \in DOMAIN w.events : w.events[i].event = x
    BY <1>6 DEF Held
  <2>2. i # 1
    BY <1>1, <1>6, <2>1
  <2>3. i - 1 \in DOMAIN q /\ q[i - 1] = w.events[i]
    BY <1>1, <1>3, <2>2
  <2> QED
    BY <1>5, <2>1, <2>3 DEF Held
<1>7. Stimulus(Taken, e)
  BY <1>5, <1>6 DEF AttemptInv, Stimulus, Scans
<1> QED
  BY <1>2, <1>5, <1>7 DEF AttemptInv

\* The state a handler starts from differs from w in what the report does not depend on.
LEMMA FromTaken ==
  ASSUME AttemptInv, NEW s, s.sta_state = w.sta_state, s.roam_reassoc = w.roam_reassoc, Fine(s, w')
  PROVE  Fine(w, w')
BY DEF Fine, Reported

\* No network is selected before and after: no attempt is under way.
LEMMA UnselectedIs ==
  ASSUME NEW s \in Unselected, NEW r \in Unselected
  PROVE  Fine(s, r)
BY DEF Unselected, Fine, Stimulus, Reported, Attempts, AssociatingOrLater, Back

LEMMA CmMainIs ==
  ASSUME AttemptInv, cm_main
  PROVE  Fine(w, w')
<1> USE ScanOkType
<1>w. w \in Selected \cup Unselected /\ w \in World /\ w.sta_return_to \in Back
      /\ Stimulus(w, "none")
  BY DEF AttemptInv, IndexInv, Selected, Unselected
<1>1. CASE HandleConnect
  <2>1. /\ Data \in Networks /\ Taken \in World /\ Stimulus(Taken, "CONNECT")
        /\ Taken.sta_state = w.sta_state /\ Taken.roam_reassoc = w.roam_reassoc
        /\ Taken.sta_return_to \in Back
    BY <1>w, <1>1, TakenIs, TakenTyped, MessageData DEF HandleConnect, Data
  <2>2. PICK k : k = Taken
    OBVIOUS
  <2>3. PICK t : t = [k EXCEPT !.pending_assoc = FALSE]
    OBVIOUS
  <2>4. t \in World /\ Alike(k, t) /\ t.roam_reassoc = k.roam_reassoc
    BY <2>1, <2>2, <2>3 DEF World, Alike
  <2>5. Stimulus(t, "CONNECT") /\ t.sta_return_to \in Back
    BY <2>1, <2>2, <2>4 DEF Alike, Stimulus, Scans, Held
  <2>6. \/ w' = [t EXCEPT !.pausing = TRUE]
        \/ \E ok \in BOOLEAN : w' = wlcm_request_connect(t, Data, ok)
    BY <1>1, <2>2, <2>3 DEF HandleConnect
  <2>7. CASE w' = [t EXCEPT !.pausing = TRUE]
    <3>1. Alike(t, w')
      BY <2>4, <2>7 DEF World, Alike
    <3>2. Fine(t, w')
      BY <2>5, <3>1, AlikeStays, StaysFine
    <3> QED
      BY <2>1, <2>2, <2>4, <3>2, FromTaken DEF Alike
  <2>8. ASSUME NEW ok \in BOOLEAN, w' = wlcm_request_connect(t, Data, ok)
        PROVE  Fine(w, w')
    <3>1. Fine(t, w')
      BY <2>1, <2>4, <2>5, <2>8, ConnectIs
    <3> QED
      BY <2>1, <2>2, <2>4, <3>1, FromTaken DEF Alike
  <2> QED
    BY <2>6, <2>7, <2>8
<1>2. CASE HoldConnect
  <2>1. w' = [w EXCEPT !.pausing = FALSE, !.pending_assoc = TRUE, !.cb = {}]
    BY <1>2 DEF HoldConnect
  <2>2. Alike(w, w')
    BY <1>w, <2>1 DEF World, Alike
  <2> QED
    BY <1>w, <2>2, AlikeStays, StaysFine
<1>3. CASE HandleDisconnect
  <2>1. PICK found \in BOOLEAN : w' = wlcm_request_disconnect(Taken, found)
    BY <1>3 DEF HandleDisconnect
  <2>0. Received("DISCONNECT")
    BY <1>3 DEF HandleDisconnect
  <2>2. Fine(Taken, w')
    BY <2>0, <2>1, TakenIs, RequestDisconnectIs
  <2> QED
    BY <2>0, <2>2, TakenIs, FromTaken
<1>4. CASE HandleScan
  <2>1. Data \in Users /\ Received("SCAN")
    BY <1>w, <1>4, TakenTyped, MessageData DEF HandleScan, Data
  <2>2. PICK ok \in BOOLEAN : w' = wlcm_request_scan(Taken, Data, ok)
    BY <1>4 DEF HandleScan
  <2>3. Fine(Taken, w')
    BY <2>1, <2>2, TakenIs, RequestScanIs
  <2> QED
    BY <2>1, <2>3, TakenIs, FromTaken
<1>5. CASE HandleScanResult
  <2>1. Received("SCAN_RESULT")
    BY <1>5 DEF HandleScanResult
  <2>2. PICK o \in ScanOutcome, ok \in BOOLEAN :
          /\ o = "same" => w.roam_reassoc
          /\ w' = wlcm_process_scan_result_event(Taken, o, ok)
    BY <1>5 DEF HandleScanResult, Possible
  <2>3. CASE w \in Selected
    <3>1. Taken \in Selected
      BY <2>1, <2>3, TakenTyped
    <3>2. Fine(Taken, w')
      BY <2>1, <2>2, <3>1, TakenIs, ScanResultIs
    <3> QED
      BY <2>1, <3>2, TakenIs, FromTaken
  <2>4. CASE w \in Unselected
    BY <2>1, <2>2, <2>4, TakenTyped, ScanResultUnselected, UnselectedIs
  <2> QED
    BY <1>w, <2>3, <2>4
<1>6. CASE HandleAssociation
  <2>1. Taken \in Selected /\ Data \in BOOLEAN /\ Received("ASSOCIATION")
    BY <1>w, <1>6, TakenTyped, MessageData DEF HandleAssociation, Data, Quiet
  <2>2. PICK ok \in BOOLEAN : w' = wlcm_process_association_event(Taken, Data, ok)
    BY <1>6 DEF HandleAssociation
  <2>3. Fine(Taken, w')
    BY <2>1, <2>2, TakenIs, AssociationIs
  <2> QED
    BY <2>1, <2>3, TakenIs, FromTaken
<1>7. CASE HandleAuthentication
  <2>1. Taken \in Selected /\ Data \in BOOLEAN /\ Received("AUTHENTICATION")
    BY <1>w, <1>7, TakenTyped, MessageData DEF HandleAuthentication, Data, Quiet
  <2>2. PICK ok \in BOOLEAN, mic \in BOOLEAN :
          w' = wlcm_process_authentication_event(Taken, Data, mic, ok)
    BY <1>7 DEF HandleAuthentication
  <2>3. Fine(Taken, w')
    BY <2>1, <2>2, TakenIs, AuthenticationIs
  <2> QED
    BY <2>1, <2>3, TakenIs, FromTaken
<1>8. CASE HandleLinkLoss
  <2>1. Taken \in Selected /\ Received("LINK_LOSS")
    BY <1>w, <1>8, TakenTyped DEF HandleLinkLoss, Quiet
  <2>2. PICK ok \in BOOLEAN : w' = wlcm_process_link_loss_event(Taken, ok)
    BY <1>8 DEF HandleLinkLoss
  <2>3. Fine(Taken, w')
    BY <2>1, <2>2, TakenIs, LinkLossIs
  <2> QED
    BY <2>1, <2>3, TakenIs, FromTaken
<1>9. CASE HandleDisassociation
  <2>1. Taken \in Selected /\ Received("DISASSOCIATION")
    BY <1>w, <1>9, TakenTyped DEF HandleDisassociation, Quiet
  <2>2. PICK ok \in BOOLEAN : w' = wlcm_process_disassoc_event(Taken, ok)
    BY <1>9 DEF HandleDisassociation
  <2>3. Fine(Taken, w')
    BY <2>1, <2>2, TakenIs, DisassocIs
  <2> QED
    BY <2>1, <2>3, TakenIs, FromTaken
<1>10. CASE HandleStaAddrConfig
  <2>1. Taken \in Selected /\ Received("STA_ADDR_CONFIG")
    BY <1>w, <1>10, TakenTyped DEF HandleStaAddrConfig, Quiet
  <2>2. w' = wlcm_process_sta_addr_config_event(Taken)
    BY <1>10 DEF HandleStaAddrConfig
  <2>3. Fine(Taken, w')
    BY <2>1, <2>2, TakenIs, StaAddrConfigIs
  <2> QED
    BY <2>1, <2>3, TakenIs, FromTaken
<1>11. CASE HandleDhcpConfig
  <2>1. Taken \in Selected /\ Data \in BOOLEAN /\ Received("DHCP_CONFIG")
    BY <1>w, <1>11, TakenTyped, MessageData DEF HandleDhcpConfig, Data, Quiet
  <2>2. PICK ok \in BOOLEAN : w' = wlcm_process_net_dhcp_config(Taken, Data, ok)
    BY <1>11 DEF HandleDhcpConfig
  <2>3. Fine(Taken, w')
    BY <2>1, <2>2, TakenIs, DhcpConfigIs
  <2> QED
    BY <2>1, <2>3, TakenIs, FromTaken
<1>12. CASE HandleNetInterfaceConfig
  <2>1. w' = wlcm_process_net_if_config_event(Taken) /\ Received("NET_INTERFACE_CONFIG")
    BY <1>12 DEF HandleNetInterfaceConfig
  <2>2. Fine(Taken, w')
    BY <2>1, TakenIs, NetIfConfigIs
  <2> QED
    BY <2>1, <2>2, TakenIs, FromTaken
<1> QED
  BY <1>1, <1>2, <1>3, <1>4, <1>5, <1>6, <1>7, <1>8, <1>9, <1>10, <1>11, <1>12 DEF cm_main

\* A message posted after fields the waiting does not depend on were written.
LEMMA PostedIs ==
  ASSUME NEW s, NEW a \in World, Stays(s, a), NEW m \in Message, NEW r, r = Post(a, m)
  PROVE  Stays(s, r)
BY PostIs, StaysOn

LEMMA SendRequestIs ==
  ASSUME AttemptInv, NEW u \in Users, SendRequest(u)
  PROVE  Stays(w, w')
<1>w. w \in World /\ {} \in Reasons
  BY DEF AttemptInv, IndexInv, Selected, Unselected, Reasons
<1>1. PICK s : s = [w EXCEPT !.is_scan_lock = TRUE, !.cb = {}]
  OBVIOUS
<1>2. s \in World /\ Alike(w, s) /\ s.cur_network_idx = w.cur_network_idx
  BY <1>w, <1>1 DEF World, Alike
<1>3. PICK req : req = user[u].data
  OBVIOUS
<1>4. req \in Request
  BY <1>3 DEF AttemptInv, IndexInv, SendRequest, Call, Request
<1>5. CASE req.event = "SCAN"
  <2>1. req \in Message
    BY <1>4, <1>5 DEF Request, Message
  <2>2. w' = Post(s, req)
    BY <1>1, <1>3, <1>5 DEF SendRequest
  <2> QED
    BY <1>2, <2>1, <2>2, AlikeStays, PostedIs
<1>6. CASE req.event = "CONNECT"
  <2>1. req \in Message
    BY <1>4, <1>6 DEF Request, Message
  <2>2. PICK z : z = [s EXCEPT !.reassoc_count = 0]
    OBVIOUS
  <2>3. z \in World /\ Alike(w, z)
    BY <1>2, <2>2, Values DEF World, Alike
  <2>4. w' = Post(z, req)
    BY <1>1, <1>3, <1>6, <2>2 DEF SendRequest
  <2> QED
    BY <2>1, <2>3, <2>4, AlikeStays, PostedIs
<1>7. CASE req.event = "REASSOCIATE"
  <2>1. w.cur_network_idx \in Networks
    BY <1>3, <1>7 DEF AttemptInv, IndexInv, SendRequest, Selected
  <2>2. PICK f : f = [s EXCEPT !.roam_reassoc = FALSE]
    OBVIOUS
  <2>3. PICK t : t = [s EXCEPT !.roam_reassoc = TRUE]
    OBVIOUS
  <2>4. f \in World /\ Alike(w, f) /\ t \in World /\ Alike(w, t)
    BY <1>2, <2>2, <2>3 DEF World, Alike
  <2>5. PICK m \in Message : m = Msg("CONNECT", s.cur_network_idx)
    BY <1>2, <2>1, Messages
  <2>6. w' = PutScanLock(f) \/ w' = Post(t, m)
    BY <1>1, <1>3, <1>7, <2>2, <2>3, <2>5 DEF SendRequest
  <2>7. CASE w' = PutScanLock(f)
    <3>1. Stays(f, w')
      BY <2>4, <2>7, PutIs, AlikeStays
    <3>2. Stays(w, f)
      BY <2>4, AlikeStays
    <3> QED
      BY <3>1, <3>2, StaysOn
  <2>8. CASE w' = Post(t, m)
    BY <2>4, <2>8, AlikeStays, PostedIs
  <2> QED
    BY <2>6, <2>7, <2>8
<1> QED
  BY <1>4, <1>5, <1>6, <1>7 DEF Request

LEMMA ApplicationIs ==
  ASSUME AttemptInv, Application
  PROVE  Stays(w, w')
<1>w. w \in World /\ {} \in Reasons
  BY DEF AttemptInv, IndexInv, Selected, Unselected, Reasons
<1>s. Stays(w, w)
  BY DEF Stays
<1>1. ASSUME NEW u \in Users, wlan_scan_with_opt(u) PROVE Stays(w, w')
  BY <1>s, <1>1 DEF wlan_scan_with_opt
<1>2. ASSUME NEW u \in Users, NEW n \in Networks, wlan_connect(u, n) PROVE Stays(w, w')
  <2>1. Alike(w, w')
    BY <1>w, <1>2 DEF wlan_connect, World, Alike
  <2> QED
    BY <2>1, AlikeStays
<1>3. ASSUME NEW u \in Users, wlan_reassociate(u) PROVE Stays(w, w')
  BY <1>s, <1>3 DEF wlan_reassociate
<1>4. ASSUME NEW u \in Users, wlan_disconnect(u) PROVE Stays(w, w')
  <2>1. PICK m \in Message : m = Msg("DISCONNECT", TRUE)
    BY Messages
  <2>2. PICK a : a = Post(w, m)
    OBVIOUS
  <2>3. a \in World /\ Stays(w, a)
    BY <1>w, <2>2, PostIs
  <2>4. w' = [a EXCEPT !.cb = {}]
    BY <1>4, <2>1, <2>2 DEF wlan_disconnect
  <2>5. Alike(a, w')
    BY <2>3, <2>4 DEF World, Alike
  <2> QED
    BY <2>3, <2>5, AlikeStays, StaysOn
<1>5. ASSUME NEW u \in Users, NEW on \in BOOLEAN, wlan_set_reassoc_control(u, on)
      PROVE  Stays(w, w')
  <2>1. Alike(w, w')
    BY <1>w, <1>5 DEF wlan_set_reassoc_control, World, Alike
  <2> QED
    BY <2>1, AlikeStays
<1>6. ASSUME NEW u \in Users, TakeScanLock(u) PROVE Stays(w, w')
  <2>1. Alike(w, w')
    BY <1>w, <1>6 DEF TakeScanLock, World, Alike
  <2> QED
    BY <2>1, AlikeStays
<1> QED
  BY <1>1, <1>2, <1>3, <1>4, <1>5, <1>6, SendRequestIs DEF Application

\* A scan under way becomes a result in the queue in two steps.
LEMMA EnvironmentIs ==
  ASSUME AttemptInv, Environment
  PROVE  Stays(w, w')
<1>w. w \in World /\ {} \in Reasons
  BY DEF AttemptInv, IndexInv, Selected, Unselected, Reasons
<1>1. CASE ScanCleanup
  <2>1. w' = [w EXCEPT !.scan_cfg = FALSE, !.scan_done = TRUE, !.cb = {}]
    BY <1>1 DEF ScanCleanup
  <2>2. /\ w'.sta_state = w.sta_state /\ w'.sta_return_to = w.sta_return_to
        /\ w'.events = w.events /\ w'.lost = w.lost /\ w'.scan_done = TRUE
    BY <1>w, <2>1 DEF World
  <2> QED
    BY <2>2 DEF Stays, Scans, Held
<1>2. CASE ScanPost
  <2>1. PICK a : a = [w EXCEPT !.scan_done = FALSE, !.cb = {}]
    OBVIOUS
  <2>2. /\ a \in World /\ a.sta_state = w.sta_state /\ a.sta_return_to = w.sta_return_to
        /\ a.events = w.events /\ a.lost = w.lost
    BY <1>w, <2>1 DEF World
  <2>3. PICK m \in Message : m = Msg("SCAN_RESULT", TRUE)
    BY Messages
  <2>4. w' = Post(a, m) /\ m.event = "SCAN_RESULT"
    BY <1>2, <2>1, <2>3 DEF ScanPost, Msg
  <2>5. Stays(a, w') /\ (~w'.lost => Held(w', "SCAN_RESULT"))
    BY <2>2, <2>4, PostIs
  <2> QED
    BY <2>2, <2>5 DEF Stays, Scans, Held
<1>3. ASSUME NEW a, a \in World, Alike(w, a),
             w' = a \/ \E m \in Message : w' = Post(a, m)
      PROVE  Stays(w, w')
  <2>1. Stays(w, a)
    BY <1>3, AlikeStays
  <2> QED
    BY <1>3, <2>1, PostedIs
<1>4. CASE FwPortRelease
  <2>1. PICK a : a = [w EXCEPT !.link = "up", !.cb = {}]
    OBVIOUS
  <2>2. a \in World /\ Alike(w, a)
    BY <1>w, <2>1, Values DEF World, Alike
  <2>3. w' = Post(a, Msg("AUTHENTICATION", TRUE)) /\ Msg("AUTHENTICATION", TRUE) \in Message
    BY <1>4, <2>1, Messages DEF FwPortRelease
  <2> QED
    BY <1>3, <2>2, <2>3
<1>5. CASE FwLinkDown
  <2>1. PICK a : a = [w EXCEPT !.link = "down", !.cb = {}]
    OBVIOUS
  <2>2. a \in World /\ Alike(w, a)
    BY <1>w, <2>1, Values DEF World, Alike
  <2>3. PICK m \in {Msg("LINK_LOSS", TRUE), Msg("AUTHENTICATION", FALSE),
                    Msg("DISASSOCIATION", TRUE)} : w' = Post(a, m)
    BY <1>5, <2>1 DEF FwLinkDown
  <2>4. m \in Message
    BY <2>3, Messages
  <2> QED
    BY <1>3, <2>2, <2>3, <2>4
<1>6. CASE DhcpBound \/ DhcpLost
  <2>1. PICK a : a = [w EXCEPT !.cb = {}]
    OBVIOUS
  <2>2. a \in World /\ Alike(w, a)
    BY <1>w, <2>1 DEF World, Alike
  <2>3. PICK b \in BOOLEAN : w' = Post(a, Msg("DHCP_CONFIG", b))
    BY <1>6, <2>1 DEF DhcpBound, DhcpLost
  <2>4. Msg("DHCP_CONFIG", b) \in Message
    BY Messages
  <2> QED
    BY <1>3, <2>2, <2>3, <2>4
<1>7. CASE DhcpTimeout
  <2>1. PICK a : a = [w EXCEPT !.dhcp_timer = FALSE, !.dhcp = FALSE, !.cb = {}]
    OBVIOUS
  <2>2. a \in World /\ Alike(w, a)
    BY <1>w, <2>1 DEF World, Alike
  <2>3. w' = Post(a, Msg("DHCP_CONFIG", FALSE)) /\ Msg("DHCP_CONFIG", FALSE) \in Message
    BY <1>7, <2>1, Messages DEF DhcpTimeout
  <2> QED
    BY <1>3, <2>2, <2>3
<1>8. CASE AssocTimeout
  <2>1. PICK a : a = [w EXCEPT !.assoc_timer = FALSE, !.assoc_paused = FALSE, !.cb = {}]
    OBVIOUS
  <2>2. a \in World /\ Alike(w, a)
    BY <1>w, <2>1 DEF World, Alike
  <2>3. w' = a \/ w' = Post(a, Msg("CONNECT", 0))
    BY <1>8, <2>1 DEF AssocTimeout
  <2>4. Msg("CONNECT", 0) \in Message
    BY Messages, WlcmgrAssumption
  <2> QED
    BY <1>3, <2>2, <2>3, <2>4
<1> QED
  BY <1>1, <1>2, <1>4, <1>5, <1>6, <1>7, <1>8 DEF Environment

LEMMA StepIs ==
  ASSUME AttemptInv, [Next]_vars
  PROVE  AttemptInv' /\ Reported(w, w')
<1>1. IndexInv'
  <2>1. CASE UNCHANGED vars
    BY <2>1 DEF vars, AttemptInv, IndexInv
  <2> QED
    BY <2>1, CmMainStep, ApplicationStep, EnvironmentStep DEF AttemptInv, Next
<1>2. Fine(w, w')
  <2>1. CASE cm_main
    BY <2>1, CmMainIs
  <2>2. CASE Application \/ Environment \/ UNCHANGED vars
    <3>1. Stays(w, w')
      <4>1. CASE UNCHANGED vars
        BY <4>1 DEF vars, Stays
      <4> QED
        BY <2>2, <4>1, ApplicationIs, EnvironmentIs
    <3>2. Stimulus(w, "none") /\ w.sta_return_to \in Back
      BY DEF AttemptInv
    <3> QED
      BY <3>1, <3>2, StaysFine
  <2> QED
    BY <2>1, <2>2 DEF Next
<1> QED
  BY <1>1, <1>2 DEF Fine, AttemptInv, Stimulus, Scans, Held

LEMMA AttemptInvInvariant == Spec => []AttemptInv
<1>1. Init => AttemptInv
  <2> SUFFICES ASSUME Init PROVE AttemptInv
    OBVIOUS
  <2>1. w.sta_state = "INITIALIZING" /\ w.sta_return_to = "IDLE"
    BY DEF Init
  <2> QED
    BY <2>1, InitIndexInv DEF AttemptInv, Stimulus, Back
<1>2. AttemptInv /\ [Next]_vars => AttemptInv'
  BY StepIs
<1> QED
  BY <1>1, <1>2, PTL DEF Spec

\* No connection attempt hangs: in every reachable state of cm_main, whatever
\* fails, is retried or arrives late, a station that scans, associates or asks
\* for an address has the answer it waits for under way or in the queue, unless
\* a message was dropped.
THEOREM NoAttemptHangs == Spec => []AttemptHasStimulus
<1>1. AttemptInv => AttemptHasStimulus
  BY DEF AttemptInv, Stimulus, Scans, Held, AttemptHasStimulus, ScanUnderWay, Queued
<1> QED
  BY <1>1, AttemptInvInvariant, PTL

\* The application hears how its attempt ends: every step from an attempt back
\* to idle or to a user scan passes a failure to wlan.cb, every step to
\* connected passes success.
THEOREM EndIsReported == Spec => AttemptReported
<1>1. AttemptInv /\ [Next]_vars =>
        [w.sta_state \in ({"SCANNING"} \cup AssociatingOrLater) \ {"CONNECTED"} /\ ~w.roam_reassoc =>
           /\ w'.sta_state \in {"IDLE", "SCANNING_USER"} => w'.cb \cap Failure # {}
           /\ w'.sta_state = "CONNECTED" => "SUCCESS" \in w'.cb]_vars
  BY StepIs DEF Reported, Attempts
<1> QED
  BY <1>1, AttemptInvInvariant, PTL DEF Spec, AttemptReported
=============================================================================
