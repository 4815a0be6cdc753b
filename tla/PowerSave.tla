----------------------------- MODULE PowerSave -----------------------------
(***************************************************************************)
(* Power save: the sleep handshake between the firmware and the driver     *)
(* (wifi_pwrmgr.c, mlan_glue.c, wlan.c), the reader-writer lock            *)
(* sleep_rwlock that stands for "the card sleeps" (port/os/os.c), and the  *)
(* threads that need the card: transmitters and senders of commands        *)
(* (wifi.c).  A reader transmits; the writer is the card, asleep.          *)
(*                                                                         *)
(* The thread Wlcmgr is cm_main; "driver" below is wifi_driver_main_loop,  *)
(* which handles events and command responses, and "core" is               *)
(* wifi_core_input, which reads them from the bus and handles received     *)
(* data by itself.  The three have the same priority and preempt each      *)
(* other at any point.                                                     *)
(*                                                                         *)
(* Not modelled: a transmitter that cannot wake the card in time, which is *)
(* assert(0), and a command without answer for 20 s, which is assert(0);   *)
(* the state machines wlan_ieeeps_sm() and wlan_deepsleepps_sm() and the   *)
(* flag xfer_pending, which no event reaches any more.                     *)
(***************************************************************************)
EXTENDS Integers, Sequences, FiniteSets

CONSTANTS
  TxThreads,    \* threads in wifi_low_level_output()
  CmdThreads,   \* threads that send commands
  Wlcmgr,       \* cm_main, which confirms sleep
  NoThread,     \* a free mutex
  MaxIoEvents,  \* bound: messages from the firmware not yet handled
  MaxMsgs,      \* bound: WIFI_EVENT_SLEEP messages for cm_main
  May           \* what may happen, a subset of:
                \*   "addba"   a transmitter sets up a block-ack stream
                \*   "giveup"  the firmware does not wait for the sleep confirm
                \*   "data"    data is received

Threads == TxThreads \cup CmdThreads \cup {Wlcmgr}

ASSUME PowerSaveAssumption ==
  /\ IsFiniteSet(TxThreads) /\ IsFiniteSet(CmdThreads)
  /\ TxThreads \cap CmdThreads = {} /\ Wlcmgr \notin TxThreads \cup CmdThreads
  /\ NoThread \notin Threads
  /\ MaxIoEvents \in Nat \ {0} /\ MaxMsgs \in Nat \ {0}
  /\ May \subseteq {"addba", "giveup", "data"}

VARIABLES
  lock,      \* sleep_rwlock: rw_lock (a binary semaphore), reader_count, and the
             \* holder of reader_mutex; held is history: the writer has it, for the
             \* "card", or not, or has put the readers' semaphore ("stray")
  th,        \* per thread: the operation it is in and where it is in it
  command_lock,
  resp_sem,  \* command_resp_sem
  ps_state,  \* mlan_adap->ps_state
  io_events, \* from the bus to the driver
  msgs,      \* WIFI_EVENT_SLEEP messages for cm_main
  drv,       \* the driver: the message it handles and where it is in it
  core,      \* wifi_low_level_input(): where it is
  fw         \* the firmware: its power state, and the command it is to answer

vars == <<lock, th, command_lock, resp_sem, ps_state, io_events, msgs, drv, core, fw>>
-----------------------------------------------------------------------------
Op == {"none", "data", "addba", "cmd", "confirm"}
Pc == {"idle", "lock", "check", "presleep", "read", "waking", "send", "unread", "wait"}
Response == {"addba", "cmd", "confirm"}
IoEvent == {"SLEEP", "AWAKE", "OTHER"} \cup Response
PsState == {"AWAKE", "PRE_SLEEP", "SLEEP_CFM", "SLEEP"}

Rest == [op |-> "none", pc |-> "idle"]
NoMsg == [pc |-> "idle", msg |-> "OTHER"]

Init ==
  /\ lock = [rw_lock |-> 1, reader_count |-> 0, reader_mutex |-> NoThread, held |-> "no"]
  /\ th = [t \in Threads |-> Rest]
  /\ command_lock = NoThread
  /\ resp_sem = 0
  /\ ps_state = "AWAKE"
  /\ io_events = <<>>
  /\ msgs = 0
  /\ drv = NoMsg
  /\ core = "idle"
  /\ fw = [power |-> "awake", cmd |-> "none"]
-----------------------------------------------------------------------------
(* sleep_rwlock *)

At(t, op, pc) == th[t].op \in op /\ th[t].pc = pc
Goto(t, pc) == th' = [th EXCEPT ![t].pc = pc]

\* os_rwlock_read_lock() and wifi_wakeup_card_cb(): the first reader that finds
\* the semaphore taken wakes the card up and waits, holding reader_mutex.
os_rwlock_read_lock(t) ==
  /\ th[t].pc = "read" /\ lock.reader_mutex = NoThread
  /\ IF lock.reader_count > 0
       THEN /\ lock' = [lock EXCEPT !.reader_count = @ + 1]
            /\ Goto(t, "send")
     ELSE IF lock.rw_lock = 1
       THEN /\ lock' = [lock EXCEPT !.reader_count = 1, !.rw_lock = 0]
            /\ Goto(t, "send")
     ELSE /\ lock' = [lock EXCEPT !.reader_count = 1, !.reader_mutex = t]
          /\ Goto(t, "waking")
  /\ UNCHANGED <<command_lock, resp_sem, ps_state, io_events, msgs, drv, core, fw>>

\* The card is awake: the semaphore is put, and the reader that waits takes it.
Woken(t) ==
  /\ th[t].pc = "waking" /\ lock.rw_lock = 1
  /\ lock' = [lock EXCEPT !.rw_lock = 0, !.reader_mutex = NoThread]
  /\ Goto(t, "send")
  /\ UNCHANGED <<command_lock, resp_sem, ps_state, io_events, msgs, drv, core, fw>>

\* Mutant: the reader that gives up still counts as one.
WakeTimeout_counted(t) ==
  /\ At(t, {"cmd", "confirm"}, "waking")
  /\ lock' = [lock EXCEPT !.reader_mutex = NoThread]
  /\ th' = [th EXCEPT ![t] = Rest]
  /\ command_lock' = NoThread
  /\ UNCHANGED <<resp_sem, ps_state, io_events, msgs, drv, core, fw>>

\* Mutant: the command that failed releases a lock it does not hold.
WakeTimeout_released(t) ==
  /\ At(t, {"cmd", "confirm"}, "waking")
  /\ lock' = [lock EXCEPT !.reader_count = @ - 2, !.reader_mutex = NoThread]
  /\ th' = [th EXCEPT ![t] = Rest]
  /\ command_lock' = NoThread
  /\ UNCHANGED <<resp_sem, ps_state, io_events, msgs, drv, core, fw>>

\* MAX_WAIT_TIME passes before the card is awake: the command fails.
WakeTimeout(t) ==
  /\ At(t, {"cmd", "confirm"}, "waking")
  /\ lock' = [lock EXCEPT !.reader_count = @ - 1, !.reader_mutex = NoThread]
  /\ th' = [th EXCEPT ![t] = Rest]
  /\ command_lock' = NoThread
  /\ UNCHANGED <<resp_sem, ps_state, io_events, msgs, drv, core, fw>>

\* The lock after os_rwlock_read_unlock()
ReadUnlocked ==
  [lock EXCEPT !.reader_count = @ - 1,
               !.rw_lock = IF lock.reader_count = 1 THEN 1 ELSE @]

\* The lock after os_rwlock_write_unlock(), whoever holds it
WriteUnlocked ==
  [lock EXCEPT !.rw_lock = 1,
               !.held = IF lock.rw_lock = 1 THEN @ ELSE IF @ = "card" THEN "no" ELSE "stray"]

\* The lock after os_rwlock_write_lock().  One found without readers is in order again.
WriteLocked ==
  [lock EXCEPT !.rw_lock = 0,
               !.held = IF @ = "stray" /\ lock.reader_count > 0 THEN @ ELSE "card"]
-----------------------------------------------------------------------------
(* Threads that need the card *)

\* wifi_low_level_output()
StartData(t) ==
  /\ t \in TxThreads /\ th[t] = Rest
  /\ th' = [th EXCEPT ![t] = [op |-> "data", pc |-> "read"]]
  /\ UNCHANGED <<lock, command_lock, resp_sem, ps_state, io_events, msgs, drv, core, fw>>

StartCommand(t) ==
  /\ t \in CmdThreads /\ th[t] = Rest
  /\ th' = [th EXCEPT ![t] = [op |-> "cmd", pc |-> "lock"]]
  /\ UNCHANGED <<lock, command_lock, resp_sem, ps_state, io_events, msgs, drv, core, fw>>

\* cm_main takes WIFI_EVENT_SLEEP from its queue and calls
\* send_sleep_confirm_command().
StartConfirm ==
  /\ th[Wlcmgr] = Rest /\ msgs > 0
  /\ msgs' = msgs - 1
  /\ th' = [th EXCEPT ![Wlcmgr] = [op |-> "confirm", pc |-> "lock"]]
  /\ UNCHANGED <<lock, command_lock, resp_sem, ps_state, io_events, drv, core, fw>>

wifi_get_command_lock(t) ==
  /\ th[t].pc = "lock" /\ command_lock = NoThread
  /\ command_lock' = t
  /\ Goto(t, IF th[t].op = "confirm" THEN "check" ELSE "read")
  /\ UNCHANGED <<lock, resp_sem, ps_state, io_events, msgs, drv, core, fw>>

\* send_sleep_confirm_command(): the firmware may have given up meanwhile.
CheckPreSleep(t) ==
  /\ th[t].pc = "check"
  /\ IF ps_state = "PRE_SLEEP"
       THEN Goto(t, "presleep") /\ UNCHANGED command_lock
       ELSE th' = [th EXCEPT ![t] = Rest] /\ command_lock' = NoThread
  /\ UNCHANGED <<lock, resp_sem, ps_state, io_events, msgs, drv, core, fw>>

SetSleepCfm(t) ==
  /\ th[t].pc = "presleep"
  /\ ps_state' = "SLEEP_CFM"
  /\ Goto(t, "read")
  /\ UNCHANGED <<lock, command_lock, resp_sem, io_events, msgs, drv, core, fw>>

\* Data goes out, and a first packet to a peer may set up a block-ack stream
\* while the lock is held (wrapper_wlan_sta_ampdu_enable()).
SendData(t) ==
  /\ At(t, {"data"}, "send")
  /\ \/ Goto(t, "unread")
     \/ "addba" \in May /\ th' = [th EXCEPT ![t] = [op |-> "addba", pc |-> "lock"]]
  /\ UNCHANGED <<lock, command_lock, resp_sem, ps_state, io_events, msgs, drv, core, fw>>

\* wifi_send_cmdbuffer()
SendCommand(t) ==
  /\ At(t, Response, "send")
  /\ fw' = [fw EXCEPT !.cmd = th[t].op]
  /\ Goto(t, "unread")
  /\ UNCHANGED <<lock, command_lock, resp_sem, ps_state, io_events, msgs, drv, core>>

\* Mutant: the lock is kept until the response is there.
os_rwlock_read_unlock_late(t) ==
  /\ th[t].pc = "unread" /\ lock.reader_mutex = NoThread
  /\ th[t].op = "data" \/ resp_sem = 1
  /\ lock' = ReadUnlocked
  /\ IF th[t].op = "data" THEN th' = [th EXCEPT ![t] = Rest] ELSE Goto(t, "wait")
  /\ UNCHANGED <<command_lock, resp_sem, ps_state, io_events, msgs, drv, core, fw>>

os_rwlock_read_unlock(t) ==
  /\ th[t].pc = "unread" /\ lock.reader_mutex = NoThread
  /\ lock' = ReadUnlocked
  /\ IF th[t].op = "data" THEN th' = [th EXCEPT ![t] = Rest] ELSE Goto(t, "wait")
  /\ UNCHANGED <<command_lock, resp_sem, ps_state, io_events, msgs, drv, core, fw>>

\* wifi_get_command_resp_sem() returns; after an ADDBA the transmitter goes on
\* to give its own hold of the lock back.
Answered(t) ==
  /\ th[t].pc = "wait" /\ resp_sem = 1
  /\ resp_sem' = 0
  /\ command_lock' = NoThread
  /\ th' = [th EXCEPT ![t] = IF th[t].op = "addba" THEN [op |-> "data", pc |-> "unread"]
                             ELSE Rest]
  /\ UNCHANGED <<lock, ps_state, io_events, msgs, drv, core, fw>>
-----------------------------------------------------------------------------
(* wifi_driver_main_loop(): wifi_handle_fw_event() and                     *)
(* wifi_process_cmd_response()                                             *)

\* Anything but AWAKE shows that a card thought asleep is awake; AWAKE ends
\* sleep, or, when the firmware gave up, the wait for the confirm.
ShowsAwake(m) == \/ ps_state = "SLEEP"
                 \/ m = "AWAKE" /\ ps_state = "PRE_SLEEP"

DriverTakes ==
  /\ drv.pc = "idle" /\ io_events # <<>>
  /\ io_events' = Tail(io_events)
  /\ drv' = [pc |-> IF ShowsAwake(Head(io_events)) THEN "unlock" ELSE "handle",
             msg |-> Head(io_events)]
  /\ UNCHANGED <<lock, th, command_lock, resp_sem, ps_state, msgs, core, fw>>

\* Mutant: the lock is not given back when the card wakes up.
DriverUnlocks_not ==
  /\ drv.pc = "unlock"
  /\ drv' = [drv EXCEPT !.pc = "awake"]
  /\ UNCHANGED <<lock, th, command_lock, resp_sem, ps_state, io_events, msgs, core, fw>>

DriverUnlocks ==
  /\ drv.pc = "unlock"
  /\ lock' = WriteUnlocked
  /\ drv' = [drv EXCEPT !.pc = "awake"]
  /\ UNCHANGED <<th, command_lock, resp_sem, ps_state, io_events, msgs, core, fw>>

DriverSetsAwake ==
  /\ drv.pc = "awake"
  /\ ps_state' = "AWAKE"
  /\ drv' = [drv EXCEPT !.pc = "handle"]
  /\ UNCHANGED <<lock, th, command_lock, resp_sem, io_events, msgs, core, fw>>

\* EVENT_PS_SLEEP: ask cm_main to confirm; a message for a full queue is dropped.
HandleSleep ==
  /\ drv = [pc |-> "handle", msg |-> "SLEEP"]
  /\ drv' = NoMsg
  /\ ps_state' = "PRE_SLEEP"
  /\ msgs' = IF ps_state # "PRE_SLEEP" /\ msgs < MaxMsgs THEN msgs + 1 ELSE msgs
  /\ UNCHANGED <<lock, th, command_lock, resp_sem, io_events, core, fw>>

HandleOther ==
  /\ drv.pc = "handle" /\ drv.msg \in {"AWAKE", "OTHER"}
  /\ drv' = NoMsg
  /\ UNCHANGED <<lock, th, command_lock, resp_sem, ps_state, io_events, msgs, core, fw>>

HandleResponse ==
  /\ drv.pc = "handle" /\ drv.msg \in {"addba", "cmd"}
  /\ drv' = NoMsg
  /\ resp_sem' = 1
  /\ UNCHANGED <<lock, th, command_lock, ps_state, io_events, msgs, core, fw>>

\* Mutant: the response goes on when the lock is not free.
HandleConfirm_unlocked ==
  /\ drv = [pc |-> "handle", msg |-> "confirm"]
  /\ lock' = WriteLocked
  /\ drv' = [drv EXCEPT !.pc = "asleep"]
  /\ UNCHANGED <<th, command_lock, resp_sem, ps_state, io_events, msgs, core, fw>>

\* wifi_process_ps_enh_response(): os_rwlock_write_lock(..., OS_WAIT_FOREVER)
HandleConfirm ==
  /\ drv = [pc |-> "handle", msg |-> "confirm"] /\ lock.rw_lock = 1
  /\ lock' = WriteLocked
  /\ drv' = [drv EXCEPT !.pc = "asleep"]
  /\ UNCHANGED <<th, command_lock, resp_sem, ps_state, io_events, msgs, core, fw>>

DriverSetsSleep ==
  /\ drv.pc = "asleep"
  /\ ps_state' = "SLEEP"
  /\ resp_sem' = 1
  /\ drv' = NoMsg
  /\ UNCHANGED <<lock, th, command_lock, io_events, msgs, core, fw>>
-----------------------------------------------------------------------------
(* wifi_core_input(): wifi_low_level_input() on received data.  Until it   *)
(* returns, nothing else is read from the bus.                             *)

CoreReceives ==
  /\ "data" \in May /\ core = "idle" /\ fw.power = "awake" /\ ps_state = "SLEEP"
  /\ core' = "unlock"
  /\ UNCHANGED <<lock, th, command_lock, resp_sem, ps_state, io_events, msgs, drv, fw>>

CoreUnlocks ==
  /\ core = "unlock"
  /\ lock' = WriteUnlocked
  /\ core' = "awake"
  /\ UNCHANGED <<th, command_lock, resp_sem, ps_state, io_events, msgs, drv, fw>>

CoreSetsAwake ==
  /\ core = "awake"
  /\ ps_state' = "AWAKE"
  /\ core' = "idle"
  /\ UNCHANGED <<lock, th, command_lock, resp_sem, io_events, msgs, drv, fw>>
-----------------------------------------------------------------------------
(* The firmware.  It sends AWAKE whenever it leaves sleep, whether the     *)
(* host woke it up or the network did, and delays events from SLEEP until  *)
(* the confirm.                                                            *)

Upload(m) ==
  /\ core = "idle" /\ Len(io_events) < MaxIoEvents
  /\ io_events' = Append(io_events, m)
  /\ UNCHANGED <<lock, th, command_lock, resp_sem, ps_state, msgs, drv, core>>

FwSleeps == fw.power = "awake" /\ fw' = [fw EXCEPT !.power = "presleep"] /\ Upload("SLEEP")

FwGivesUp ==
  /\ "giveup" \in May /\ fw.power = "presleep"
  /\ fw' = [fw EXCEPT !.power = "awake"]
  /\ Upload("AWAKE")

FwAnswers ==
  /\ fw.cmd # "none" /\ fw.power # "asleep"
  /\ fw' = [power |-> IF fw.cmd = "confirm" THEN "asleep" ELSE fw.power, cmd |-> "none"]
  /\ Upload(fw.cmd)

FwWakes == fw.power = "asleep" /\ fw' = [fw EXCEPT !.power = "awake"] /\ Upload("AWAKE")

FwReports == fw.power = "awake" /\ UNCHANGED fw /\ Upload("OTHER")
-----------------------------------------------------------------------------
Driver ==
  \/ DriverTakes \/ DriverUnlocks \/ DriverSetsAwake \/ HandleSleep \/ HandleOther
  \/ HandleResponse \/ HandleConfirm \/ DriverSetsSleep

Core == CoreReceives \/ CoreUnlocks \/ CoreSetsAwake

Firmware == FwSleeps \/ FwGivesUp \/ FwAnswers \/ FwWakes \/ FwReports

Thread(t) ==
  \/ os_rwlock_read_lock(t) \/ Woken(t) \/ WakeTimeout(t)
  \/ wifi_get_command_lock(t) \/ CheckPreSleep(t) \/ SetSleepCfm(t)
  \/ SendData(t) \/ SendCommand(t) \/ os_rwlock_read_unlock(t) \/ Answered(t)

Next ==
  \/ \E t \in Threads : Thread(t) \/ StartData(t) \/ StartCommand(t)
  \/ StartConfirm
  \/ Driver \/ Core \/ Firmware

Spec == Init /\ [][Next]_vars

\* Every thread that can run runs; a thread that waits for a mutex or a
\* semaphore gets it (FreeRTOS hands it to the waiter of the highest priority,
\* the driver before a transmitter); the firmware answers commands and wakes up
\* for a reader that waits.
Fairness ==
  /\ WF_vars(StartConfirm)
  /\ \A t \in Threads : SF_vars(Thread(t))
  /\ WF_vars(Driver) /\ SF_vars(HandleConfirm)
  /\ WF_vars(CoreUnlocks) /\ WF_vars(CoreSetsAwake)
  /\ SF_vars(FwAnswers) /\ SF_vars(FwWakes /\ \E t \in Threads : th[t].pc = "waking")

FairSpec == Spec /\ Fairness
-----------------------------------------------------------------------------
(* Properties *)

\* Type invariant: the lock is a binary semaphore, and reader_count, an unsigned
\* int in the code, never goes below 0.
TypeOK ==
  /\ lock \in [rw_lock : 0..1, reader_count : 0..(2 * Cardinality(Threads)),
               reader_mutex : Threads \cup {NoThread}, held : {"no", "card", "stray"}]
  /\ th \in [Threads -> [op : Op, pc : Pc]]
  /\ command_lock \in Threads \cup {NoThread}
  /\ resp_sem \in 0..1
  /\ ps_state \in PsState
  /\ io_events \in Seq(IoEvent)
  /\ msgs \in 0..MaxMsgs
  /\ drv \in [pc : {"idle", "unlock", "awake", "handle", "asleep"}, msg : IoEvent]
  /\ core \in {"idle", "unlock", "awake"}
  /\ fw \in [power : {"awake", "presleep", "asleep"}, cmd : Response \cup {"none"}]

\* Threads between their read lock and its unlock
Readers == {t \in Threads : th[t].pc \in {"send", "unread"} \/ th[t].op = "addba"}

\* Readers counted twice: a transmitter that sets up a block-ack stream
Nested == {t \in Threads : At(t, {"addba"}, "send") \/ At(t, {"addba"}, "unread")}

Waking == {t \in Threads : th[t].pc = "waking"}

\* A command on its way to an answer
Sent(t) == At(t, Response, "unread") \/ At(t, Response, "wait")

\* os_rwlock counts every hold of every reader once, the one that waits for the
\* card too, through nested holds and readers that give up: a count that stays
\* above the holds never frees the lock, one below frees it under a reader.
ReadersCounted ==
  lock.reader_count = Cardinality(Readers) + Cardinality(Nested) + Cardinality(Waking)

\* No lock is leaked: while the semaphore is taken, a reader is in, or the driver
\* believes the card asleep and will give it back when the card wakes up.
LockOwned ==
  lock.rw_lock = 0 => Readers # {} \/ ps_state = "SLEEP" \/ drv.pc = "asleep"

\* wm_os.h on the lock: "writers acquire the lock in an exclusive manner".  While the card
\* sleeps and the driver holds the lock for it, no thread is transmitting, through wake-ups,
\* time-outs, received data and a firmware that gives up, unless the writer has put the lock
\* while readers had it.  It does: after AWAKE in PRE_SLEEP, and when the core thread, for
\* data, and the driver, for AWAKE, both put the lock of a card that woke up.
SleepExclusive ==
  ps_state = "SLEEP" /\ fw.power = "asleep" /\ lock.held # "stray" => Readers = {}

\* A command that was sent is answered, the sleep confirm too: its response waits
\* for the lock that the sender of a command has held ("put the sleep_rwlock as
\* early as possible", wifi_wait_for_cmdresp).
CommandAnswered == \A t \in Threads : Sent(t) ~> ~Sent(t)

\* A reader that finds the card asleep gets through, or times out.
ReaderWoken == \A t \in Threads : th[t].pc = "waking" ~> th[t].pc # "waking"
=============================================================================
