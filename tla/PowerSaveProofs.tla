-------------------------- MODULE PowerSaveProofs --------------------------
(***************************************************************************)
(* Proofs about the sleep handshake, for any number of threads and any     *)
(* capacity of the queues: the lock's count is exact, the lock is never    *)
(* leaked, and nobody transmits to a card that sleeps, unless the lock has *)
(* been put under its readers.                                             *)
(*                                                                         *)
(* The argument: only the holder of the command lock has a response under  *)
(* way, one at most (FlightInv); a confirm that is not yet answered        *)
(* excludes the state SLEEP (SleepInv); so the confirm takes the lock only *)
(* when nobody is about to declare the card awake.                         *)
(***************************************************************************)
EXTENDS PowerSave, FiniteSetTheorems, SequenceTheorems, TLAPS

ThType == [op : Op, pc : Pc]
Held == {"no", "card", "stray"}
LockType == [rw_lock : 0 .. 1, reader_count : Int, reader_mutex : Threads \cup {NoThread},
             held : Held]
DrvType == [pc : {"idle", "unlock", "awake", "handle", "asleep"}, msg : IoEvent]
FwType == [power : {"awake", "presleep", "asleep"}, cmd : Response \cup {"none"}]

\* The types, without a bound on reader_count: that follows from what it counts.
TypeInv ==
  /\ lock \in LockType /\ th \in [Threads -> ThType]
  /\ command_lock \in Threads \cup {NoThread} /\ resp_sem \in 0 .. 1 /\ ps_state \in PsState
  /\ io_events \in Seq(IoEvent) /\ msgs \in 0 .. MaxMsgs
  /\ drv \in DrvType /\ core \in {"idle", "unlock", "awake"} /\ fw \in FwType

\* The thread holds the command lock.
Commanding(t) == th[t].op \in Response /\ th[t].pc # "lock"

ThreadOk(t) ==
  /\ th[t].op = "none" <=> th[t].pc = "idle"
  /\ th[t].pc \in {"lock", "wait"} => th[t].op \in Response
  /\ th[t].pc \in {"check", "presleep"} => th[t].op = "confirm"
  /\ th[t].op = "confirm" => t = Wlcmgr

ThreadInv == \A t \in Threads : ThreadOk(t) /\ (command_lock = t <=> Commanding(t))

\* A reader that waits for the card holds reader_mutex.
MutexInv == \A t \in Threads : lock.reader_mutex = t <=> th[t].pc = "waking"

\* A response the driver is working on.
DrvBusy(m) == drv.pc # "idle" /\ drv.msg = m
InQueue(m) == \E i \in DOMAIN io_events : io_events[i] = m

\* The holder of the command lock has sent the command m.
HolderSent(m) == /\ command_lock \in Threads /\ th[command_lock].op = m
                 /\ th[command_lock].pc \in {"unread", "wait"}

\* One response at most is under way, that of the command the holder of the command lock sent.
OneAtFw == fw.cmd # "none" => \A m \in Response : ~InQueue(m) /\ ~DrvBusy(m)
OneHandled == \A m, n \in Response : ~(InQueue(m) /\ DrvBusy(n))
OneQueued == \A i, j \in DOMAIN io_events :
               io_events[i] \in Response /\ io_events[j] \in Response => i = j
OfHolder == \A m \in Response : fw.cmd = m \/ InQueue(m) \/ DrvBusy(m) => resp_sem = 0 /\ HolderSent(m)
AnswerTaken == resp_sem = 1 => \E m \in Response : HolderSent(m)

FlightInv == OneAtFw /\ OneHandled /\ OneQueued /\ OfHolder /\ AnswerTaken

\* cm_main has decided to confirm, and the response has not been handled.
Confirming ==
  th[Wlcmgr].op = "confirm" /\ th[Wlcmgr].pc \notin {"lock", "check"} /\ resp_sem = 0

\* The driver sees SLEEP only between messages or on its way out of it, and never while a
\* confirm is under way; the core thread undoes it only when none is.
SleepInv ==
  /\ Confirming => ps_state # "SLEEP"
  /\ drv.pc = "handle" => ps_state # "SLEEP"
  /\ drv.pc = "asleep" => drv.msg = "confirm"
  /\ core # "idle" => ~InQueue("confirm") /\ ~DrvBusy("confirm")

\* Who is about to declare the card awake has put the lock.
OwnInv ==
  /\ LockOwned
  /\ (drv.pc = "awake" \/ core = "awake") /\ lock.rw_lock = 0 => Readers # {}

PsInv == TypeInv /\ ThreadInv /\ MutexInv /\ ReadersCounted /\ FlightInv /\ SleepInv /\ OwnInv
-----------------------------------------------------------------------------
\* The driver believes the card asleep, or is about to.
DrvSleeps == DrvBusy("confirm") \/ (drv.pc = "idle" /\ ps_state = "SLEEP")

\* The firmware that sleeps has said nothing since its confirm, and sends no data.
FwInv ==
  /\ core # "idle" => fw.power = "awake"
  /\ fw.power = "asleep" => IF io_events = <<>> THEN DrvSleeps
                            ELSE io_events[Len(io_events)] = "confirm"

\* The lock is the readers' or the card's, never both, as long as it is put by who holds it.
ExclInv ==
  lock.held # "stray" =>
    /\ Readers # {} => lock.rw_lock = 0
    /\ lock.held = "card" => lock.rw_lock = 0 /\ Readers = {}
    /\ drv.pc = "asleep" \/ (ps_state = "SLEEP" /\ drv.pc = "idle" /\ core = "idle") =>
         lock.held = "card"

CardInv == PsInv /\ FwInv /\ ExclInv
-----------------------------------------------------------------------------
(* What the steps of each thread leave alone *)

Acts(t) == Thread(t) \/ StartData(t) \/ StartCommand(t) \/ (t = Wlcmgr /\ StartConfirm)
Others == Driver \/ Core \/ Firmware

LEMMA NextIs ==
  ASSUME [Next]_vars
  PROVE  (\E t \in Threads : Acts(t)) \/ Others \/ UNCHANGED vars
BY DEF Next, Acts, Others, Threads

\* A step of a thread moves that thread.
LEMMA ActsMove ==
  ASSUME TypeInv, NEW t \in Threads, Acts(t)
  PROVE  /\ \E r \in ThType : th' = [th EXCEPT ![t] = r]
         /\ UNCHANGED <<io_events, drv, core>>
<1>1. th \in [Threads -> ThType]
  BY DEF TypeInv
<1>2. \A pc \in Pc : [th EXCEPT ![t].pc = pc] = [th EXCEPT ![t] = [th[t] EXCEPT !.pc = pc]]
                    /\ [th[t] EXCEPT !.pc = pc] \in ThType
  BY <1>1 DEF ThType
<1>3. /\ Rest \in ThType /\ [op |-> "data", pc |-> "read"] \in ThType
      /\ [op |-> "cmd", pc |-> "lock"] \in ThType /\ [op |-> "confirm", pc |-> "lock"] \in ThType
      /\ [op |-> "addba", pc |-> "lock"] \in ThType /\ [op |-> "data", pc |-> "unread"] \in ThType
  BY DEF ThType, Rest, Op, Pc
<1>4. {"send", "waking", "check", "read", "presleep", "unread", "wait"} \subseteq Pc
  BY DEF Pc
<1>5. \E r \in ThType : th' = [th EXCEPT ![t] = r]
  <2>1. CASE os_rwlock_read_lock(t)
    BY <1>2, <1>4, <2>1 DEF os_rwlock_read_lock, Goto
  <2>2. CASE Woken(t)
    BY <1>2, <1>4, <2>2 DEF Woken, Goto
  <2>3. CASE WakeTimeout(t)
    BY <1>3, <2>3 DEF WakeTimeout
  <2>4. CASE wifi_get_command_lock(t)
    BY <1>2, <1>4, <2>4 DEF wifi_get_command_lock, Goto
  <2>5. CASE CheckPreSleep(t)
    BY <1>2, <1>3, <1>4, <2>5 DEF CheckPreSleep, Goto
  <2>6. CASE SetSleepCfm(t)
    BY <1>2, <1>4, <2>6 DEF SetSleepCfm, Goto
  <2>7. CASE SendData(t)
    BY <1>2, <1>3, <1>4, <2>7 DEF SendData, Goto
  <2>8. CASE SendCommand(t)
    BY <1>2, <1>4, <2>8 DEF SendCommand, Goto
  <2>9. CASE os_rwlock_read_unlock(t)
    BY <1>2, <1>3, <1>4, <2>9 DEF os_rwlock_read_unlock, Goto
  <2>10. CASE Answered(t)
    BY <1>3, <2>10 DEF Answered
  <2>11. CASE StartData(t) \/ StartCommand(t) \/ (t = Wlcmgr /\ StartConfirm)
    BY <1>3, <2>11 DEF StartData, StartCommand, StartConfirm
  <2> QED
    BY <2>1, <2>2, <2>3, <2>4, <2>5, <2>6, <2>7, <2>8, <2>9, <2>10, <2>11 DEF Acts, Thread
<1>6. UNCHANGED <<io_events, drv, core>>
  BY DEF Acts, Thread, os_rwlock_read_lock, Woken, WakeTimeout, wifi_get_command_lock,
         CheckPreSleep, SetSleepCfm, SendData, SendCommand, os_rwlock_read_unlock, Answered,
         StartData, StartCommand, StartConfirm
<1> QED
  BY <1>5, <1>6

\* The driver, the core thread and the firmware touch only the semaphore of the lock.
LEMMA OthersLeave ==
  ASSUME TypeInv, Others
  PROVE  /\ UNCHANGED <<th, command_lock>>
         /\ lock' = lock \/ \E x \in 0 .. 1, h \in Held :
                              lock' = [lock EXCEPT !.rw_lock = x, !.held = h]
<1>1. lock \in LockType
  BY DEF TypeInv
<1>2. /\ UNCHANGED <<th, command_lock>>
      /\ lock' = lock \/ lock' = WriteUnlocked \/ lock' = WriteLocked
  BY DEF Others, Driver, Core, Firmware, DriverTakes, DriverUnlocks, DriverSetsAwake, HandleSleep,
       HandleOther, HandleResponse, HandleConfirm, DriverSetsSleep, CoreReceives, CoreUnlocks,
       CoreSetsAwake, FwSleeps, FwGivesUp, FwAnswers, FwWakes, FwReports, Upload
<1>3. PICK u, w : /\ u = IF lock.rw_lock = 1 THEN lock.held
                         ELSE IF lock.held = "card" THEN "no" ELSE "stray"
                  /\ w = IF lock.held = "stray" /\ lock.reader_count > 0 THEN lock.held
                         ELSE "card"
  OBVIOUS
<1>4. u \in Held /\ w \in Held
  BY <1>1, <1>3 DEF LockType, Held
<1>5. /\ WriteUnlocked = [lock EXCEPT !.rw_lock = 1, !.held = u]
      /\ WriteLocked = [lock EXCEPT !.rw_lock = 0, !.held = w]
  BY <1>3 DEF WriteUnlocked, WriteLocked
<1>6. 0 \in 0 .. 1 /\ 1 \in 0 .. 1
  OBVIOUS
<1> QED
  BY <1>2, <1>4, <1>5, <1>6
-----------------------------------------------------------------------------
(* Types *)

\* The lock after a change of all that its operations read.
LockIs(x, n, m) == [rw_lock |-> x, reader_count |-> n, reader_mutex |-> m, held |-> lock.held]

LEMMA LockFields ==
  ASSUME TypeInv
  PROVE  /\ lock.rw_lock \in 0 .. 1 /\ lock.reader_count \in Int
         /\ lock.reader_mutex \in Threads \cup {NoThread} /\ lock.held \in Held
         /\ lock = LockIs(lock.rw_lock, lock.reader_count, lock.reader_mutex)
BY DEF TypeInv, LockType, LockIs

\* What each operation makes of the lock.
LEMMA LockSteps ==
  ASSUME TypeInv, NEW t \in Threads
  PROVE  /\ os_rwlock_read_lock(t) =>
              lock' = IF lock.reader_count > 0
                        THEN LockIs(lock.rw_lock, lock.reader_count + 1, lock.reader_mutex)
                      ELSE IF lock.rw_lock = 1 THEN LockIs(0, 1, lock.reader_mutex)
                      ELSE LockIs(lock.rw_lock, 1, t)
         /\ Woken(t) => lock' = LockIs(0, lock.reader_count, NoThread)
         /\ WakeTimeout(t) => lock' = LockIs(lock.rw_lock, lock.reader_count - 1, NoThread)
         /\ os_rwlock_read_unlock(t) =>
              lock' = LockIs(IF lock.reader_count = 1 THEN 1 ELSE lock.rw_lock,
                             lock.reader_count - 1, lock.reader_mutex)
<1>1. lock = LockIs(lock.rw_lock, lock.reader_count, lock.reader_mutex)
  BY LockFields
<1>2. ASSUME os_rwlock_read_unlock(t)
      PROVE  lock' = LockIs(IF lock.reader_count = 1 THEN 1 ELSE lock.rw_lock,
                            lock.reader_count - 1, lock.reader_mutex)
  <2>1. lock' = [lock EXCEPT !.reader_count = @ - 1,
                             !.rw_lock = IF lock.reader_count = 1 THEN 1 ELSE @]
    BY <1>2 DEF os_rwlock_read_unlock, ReadUnlocked
  <2> QED
    BY <1>1, <2>1 DEF LockIs
<1>3. ASSUME os_rwlock_read_lock(t)
      PROVE  lock' = IF lock.reader_count > 0
                       THEN LockIs(lock.rw_lock, lock.reader_count + 1, lock.reader_mutex)
                     ELSE IF lock.rw_lock = 1 THEN LockIs(0, 1, lock.reader_mutex)
                     ELSE LockIs(lock.rw_lock, 1, t)
  BY <1>1, <1>3 DEF os_rwlock_read_lock, LockIs
<1>4. ASSUME Woken(t) PROVE lock' = LockIs(0, lock.reader_count, NoThread)
  BY <1>1, <1>4 DEF Woken, LockIs
<1>5. ASSUME WakeTimeout(t) PROVE lock' = LockIs(lock.rw_lock, lock.reader_count - 1, NoThread)
  BY <1>1, <1>5 DEF WakeTimeout, LockIs
<1> QED
  BY <1>2, <1>3, <1>4, <1>5

LEMMA LockIsType ==
  ASSUME TypeInv, NEW x \in 0 .. 1, NEW n \in Int, NEW m \in Threads \cup {NoThread}
  PROVE  LockIs(x, n, m) \in LockType
BY LockFields DEF LockIs, LockType

LEMMA ActsType ==
  ASSUME TypeInv, NEW t \in Threads, Acts(t)
  PROVE  TypeInv'
<1>1. th' \in [Threads -> ThType] /\ UNCHANGED <<io_events, drv, core>>
  BY ActsMove DEF TypeInv
<1>2. lock' \in LockType
  <2>1. lock' = lock \/ os_rwlock_read_unlock(t) \/ os_rwlock_read_lock(t) \/ Woken(t) \/ WakeTimeout(t)
    BY DEF Acts, Thread, wifi_get_command_lock, CheckPreSleep, SetSleepCfm, SendData, SendCommand,
           Answered, StartData, StartCommand, StartConfirm
  <2>2. /\ lock.rw_lock \in 0 .. 1 /\ lock.reader_count \in Int
        /\ lock.reader_mutex \in Threads \cup {NoThread}
    BY LockFields
  <2>3. os_rwlock_read_lock(t) \/ Woken(t) \/ WakeTimeout(t) \/ os_rwlock_read_unlock(t) =>
          lock' \in LockType
    BY <2>2, LockSteps, LockIsType
  <2> QED
    BY <2>1, <2>3 DEF TypeInv
<1>3. fw' \in FwType
  <2>1. fw' = fw \/ SendCommand(t)
    BY DEF Acts, Thread, wifi_get_command_lock, CheckPreSleep, SetSleepCfm, SendData, Woken,
           WakeTimeout, os_rwlock_read_lock, os_rwlock_read_unlock, Answered, StartData,
           StartCommand, StartConfirm
  <2>2. CASE SendCommand(t)
    BY <2>2 DEF TypeInv, FwType, SendCommand, At
  <2> QED
    BY <2>1, <2>2 DEF TypeInv
<1>4. command_lock' \in Threads \cup {NoThread} /\ resp_sem' \in 0 .. 1 /\ ps_state' \in PsState
  BY DEF TypeInv, Acts, Thread, wifi_get_command_lock, CheckPreSleep, SetSleepCfm, SendData, Woken,
         WakeTimeout, SendCommand, os_rwlock_read_lock, os_rwlock_read_unlock, Answered, StartData,
         StartCommand, StartConfirm, PsState
<1>5. msgs' \in 0 .. MaxMsgs
  <2>1. msgs' = msgs \/ (msgs > 0 /\ msgs' = msgs - 1)
    BY DEF Acts, Thread, wifi_get_command_lock, CheckPreSleep, SetSleepCfm, SendData, Woken,
           WakeTimeout, SendCommand, os_rwlock_read_lock, os_rwlock_read_unlock, Answered,
           StartData, StartCommand, StartConfirm
  <2> QED
    BY <2>1, PowerSaveAssumption DEF TypeInv
<1> QED
  BY <1>1, <1>2, <1>3, <1>4, <1>5 DEF TypeInv

LEMMA OthersType ==
  ASSUME TypeInv, Others
  PROVE  TypeInv'
<1>1. UNCHANGED <<th, command_lock>> /\ lock' \in LockType
  BY OthersLeave DEF TypeInv, LockType
<1>2. CASE Driver
  <2>1. io_events' \in Seq(IoEvent) /\ drv' \in DrvType
    <3>1. CASE DriverTakes
      <4>1. Head(io_events) \in IoEvent /\ Tail(io_events) \in Seq(IoEvent)
        BY <3>1 DEF DriverTakes, TypeInv
      <4> QED
        BY <3>1, <4>1 DEF DriverTakes, DrvType
    <3>2. NoMsg \in DrvType
      BY DEF NoMsg, DrvType, IoEvent
    <3>3. CASE ~DriverTakes
      <4>1. io_events' = io_events
        BY <1>2, <3>3 DEF Driver, DriverUnlocks, DriverSetsAwake, HandleSleep, HandleOther,
              HandleResponse, HandleConfirm, DriverSetsSleep
      <4>2. drv' = NoMsg \/ \E x \in {"awake", "handle", "asleep"} : drv' = [drv EXCEPT !.pc = x]
        BY <1>2, <3>3 DEF Driver, DriverUnlocks, DriverSetsAwake, HandleSleep, HandleOther,
              HandleResponse, HandleConfirm, DriverSetsSleep
      <4> QED
        BY <3>2, <4>1, <4>2 DEF TypeInv, DrvType
    <3> QED
      BY <3>1, <3>3
  <2>2. msgs' \in 0 .. MaxMsgs
    <3>1. msgs' = msgs \/ (msgs < MaxMsgs /\ msgs' = msgs + 1)
      BY <1>2 DEF Driver, DriverTakes, DriverUnlocks, DriverSetsAwake, HandleSleep, HandleOther,
              HandleResponse, HandleConfirm, DriverSetsSleep
    <3> QED
      BY <3>1, PowerSaveAssumption DEF TypeInv
  <2>3. resp_sem' \in 0 .. 1 /\ ps_state' \in PsState /\ UNCHANGED <<core, fw>>
    BY <1>2 DEF TypeInv, PsState, Driver, DriverTakes, DriverUnlocks, DriverSetsAwake, HandleSleep,
              HandleOther, HandleResponse, HandleConfirm, DriverSetsSleep
  <2> QED
    BY <1>1, <2>1, <2>2, <2>3 DEF TypeInv
<1>3. CASE Core
  <2>1. /\ UNCHANGED <<io_events, drv, msgs, resp_sem, fw>>
        /\ core' \in {"idle", "unlock", "awake"} /\ ps_state' \in PsState
    BY <1>3 DEF Core, CoreReceives, CoreUnlocks, CoreSetsAwake, TypeInv, PsState
  <2> QED
    BY <1>1, <2>1 DEF TypeInv
<1>4. CASE Firmware
  <2>1. \E m \in IoEvent : Upload(m)
    BY <1>4 DEF Firmware, FwSleeps, FwGivesUp, FwAnswers, FwWakes, FwReports, IoEvent, TypeInv,
                FwType
  <2>2. io_events' \in Seq(IoEvent) /\ UNCHANGED <<resp_sem, ps_state, msgs, drv, core>>
    BY <2>1 DEF Upload, TypeInv
  <2>3. fw' \in FwType
    BY <1>4 DEF Firmware, FwSleeps, FwGivesUp, FwAnswers, FwWakes, FwReports, TypeInv, FwType
  <2> QED
    BY <1>1, <2>2, <2>3 DEF TypeInv
<1> QED
  BY <1>2, <1>3, <1>4 DEF Others

LEMMA TypeStep ==
  ASSUME TypeInv, [Next]_vars
  PROVE  TypeInv'
<1>1. CASE UNCHANGED vars
  BY <1>1 DEF TypeInv, vars
<1> QED
  BY <1>1, NextIs, ActsType, OthersType
-----------------------------------------------------------------------------
(* Threads, the command lock and reader_mutex *)

\* Where a step takes its thread.
Now(t, op, pc) == th'[t].op = op /\ th'[t].pc = pc

LEMMA MoveOf ==
  ASSUME TypeInv, NEW t \in Threads
  PROVE  /\ os_rwlock_read_lock(t) =>
              Now(t, th[t].op, IF lock.reader_count > 0 \/ lock.rw_lock = 1 THEN "send" ELSE "waking")
         /\ Woken(t) => Now(t, th[t].op, "send")
         /\ WakeTimeout(t) => Now(t, "none", "idle")
         /\ wifi_get_command_lock(t) =>
              Now(t, th[t].op, IF th[t].op = "confirm" THEN "check" ELSE "read")
         /\ CheckPreSleep(t) => IF ps_state = "PRE_SLEEP" THEN Now(t, th[t].op, "presleep")
                                                          ELSE Now(t, "none", "idle")
         /\ SetSleepCfm(t) => Now(t, th[t].op, "read")
         /\ SendData(t) => Now(t, "data", "unread") \/ Now(t, "addba", "lock")
         /\ SendCommand(t) => Now(t, th[t].op, "unread")
         /\ os_rwlock_read_unlock(t) => IF th[t].op = "data" THEN Now(t, "none", "idle")
                                                             ELSE Now(t, th[t].op, "wait")
         /\ Answered(t) => IF th[t].op = "addba" THEN Now(t, "data", "unread")
                                                ELSE Now(t, "none", "idle")
         /\ StartData(t) => Now(t, "data", "read")
         /\ StartCommand(t) => Now(t, "cmd", "lock")
         /\ t = Wlcmgr /\ StartConfirm => Now(t, "confirm", "lock")
<1>1. th \in [Threads -> ThType] /\ th[t] \in ThType
  BY DEF TypeInv
<1>2. \A pc \in Pc : Goto(t, pc) => Now(t, th[t].op, pc)
  BY <1>1 DEF Goto, Now, ThType
<1>3. {"send", "waking", "check", "read", "presleep", "unread", "wait"} \subseteq Pc
  BY DEF Pc
<1>4. \A r \in ThType : th' = [th EXCEPT ![t] = r] => th'[t] = r
  BY <1>1
<1>5. Rest \in ThType /\ Rest.op = "none" /\ Rest.pc = "idle"
  BY DEF ThType, Rest, Op, Pc
<1>6. th' = [th EXCEPT ![t] = Rest] => Now(t, "none", "idle")
  BY <1>4, <1>5 DEF Now
<1>7. \A o \in Op, p \in Pc : th' = [th EXCEPT ![t] = [op |-> o, pc |-> p]] => Now(t, o, p)
  BY <1>1 DEF Now
<1>8. {"data", "addba", "cmd", "confirm"} \subseteq Op /\ {"read", "lock", "unread"} \subseteq Pc
  BY DEF Op, Pc
<1>9. os_rwlock_read_lock(t) =>
        Now(t, th[t].op, IF lock.reader_count > 0 \/ lock.rw_lock = 1 THEN "send" ELSE "waking")
  BY <1>2, <1>3 DEF os_rwlock_read_lock
<1>10. Woken(t) => Now(t, th[t].op, "send")
  BY <1>2, <1>3 DEF Woken
<1>11. WakeTimeout(t) => Now(t, "none", "idle")
  BY <1>6 DEF WakeTimeout
<1>12. wifi_get_command_lock(t) =>
         Now(t, th[t].op, IF th[t].op = "confirm" THEN "check" ELSE "read")
  BY <1>2, <1>3 DEF wifi_get_command_lock
<1>13. CheckPreSleep(t) => IF ps_state = "PRE_SLEEP" THEN Now(t, th[t].op, "presleep")
                                                     ELSE Now(t, "none", "idle")
  BY <1>2, <1>3, <1>6 DEF CheckPreSleep
<1>14. SetSleepCfm(t) => Now(t, th[t].op, "read")
  BY <1>2, <1>3 DEF SetSleepCfm
<1>15. SendData(t) => Now(t, "data", "unread") \/ Now(t, "addba", "lock")
  <2>1. SendData(t) => th[t].op = "data"
    BY DEF SendData, At
  <2> QED
    BY <1>2, <1>3, <1>7, <1>8, <2>1 DEF SendData
<1>16. SendCommand(t) => Now(t, th[t].op, "unread")
  BY <1>2, <1>3 DEF SendCommand
<1>17. os_rwlock_read_unlock(t) => IF th[t].op = "data" THEN Now(t, "none", "idle")
                                                        ELSE Now(t, th[t].op, "wait")
  BY <1>2, <1>3, <1>6 DEF os_rwlock_read_unlock
<1>18. Answered(t) => IF th[t].op = "addba" THEN Now(t, "data", "unread")
                                           ELSE Now(t, "none", "idle")
  <2>1. ASSUME Answered(t), th[t].op = "addba" PROVE Now(t, "data", "unread")
    BY <1>7, <1>8, <2>1 DEF Answered
  <2>2. ASSUME Answered(t), th[t].op # "addba" PROVE Now(t, "none", "idle")
    BY <1>6, <2>2 DEF Answered
  <2> QED
    BY <2>1, <2>2
<1>19. StartData(t) => Now(t, "data", "read")
  BY <1>7, <1>8 DEF StartData
<1>20. StartCommand(t) => Now(t, "cmd", "lock")
  BY <1>7, <1>8 DEF StartCommand
<1>21. t = Wlcmgr /\ StartConfirm => Now(t, "confirm", "lock")
  BY <1>7, <1>8 DEF StartConfirm
<1> QED
  BY <1>9, <1>10, <1>11, <1>12, <1>13, <1>14, <1>15, <1>16, <1>17, <1>18, <1>19, <1>20, <1>21

\* The other threads stay where they are.
LEMMA RestStay ==
  ASSUME TypeInv, NEW t \in Threads, Acts(t)
  PROVE  \A u \in Threads : u # t => th'[u] = th[u]
BY ActsMove DEF TypeInv

LEMMA ThreadStep ==
  ASSUME TypeInv, ThreadInv, [Next]_vars
  PROVE  ThreadInv'
<1>1. ASSUME NEW t \in Threads, Acts(t) PROVE ThreadInv'
  <2>1. \A u \in Threads : u # t => th'[u] = th[u]
    BY <1>1, RestStay
  <2>2. ThreadOk(t) /\ (command_lock = t <=> Commanding(t)) /\ NoThread \notin Threads
    BY PowerSaveAssumption DEF ThreadInv
  <2>3. /\ ThreadOk(t)' /\ (command_lock' = t <=> Commanding(t)')
        /\ command_lock' = command_lock \/ (command_lock = NoThread /\ command_lock' = t)
                                        \/ (command_lock = t /\ command_lock' = NoThread)
    <3> USE <2>2 DEF ThreadOk, Commanding, Now, Response
    <3>1. CASE os_rwlock_read_lock(t)
      BY <3>1, MoveOf DEF os_rwlock_read_lock
    <3>2. CASE Woken(t)
      BY <3>2, MoveOf DEF Woken
    <3>3. CASE WakeTimeout(t)
      BY <3>3, MoveOf DEF WakeTimeout, At
    <3>4. CASE wifi_get_command_lock(t)
      BY <3>4, MoveOf DEF wifi_get_command_lock
    <3>5. CASE CheckPreSleep(t)
      BY <3>5, MoveOf DEF CheckPreSleep
    <3>6. CASE SetSleepCfm(t)
      BY <3>6, MoveOf DEF SetSleepCfm
    <3>7. CASE SendData(t)
      BY <3>7, MoveOf DEF SendData, At
    <3>8. CASE SendCommand(t)
      BY <3>8, MoveOf DEF SendCommand, At
    <3>9. CASE os_rwlock_read_unlock(t)
      <4>1. th[t].op \in {"data", "addba", "cmd", "confirm"}
        BY <3>9 DEF os_rwlock_read_unlock, TypeInv, ThType, Op
      <4> QED
        BY <3>9, <4>1, MoveOf DEF os_rwlock_read_unlock
    <3>10. CASE Answered(t)
      BY <3>10, MoveOf DEF Answered
    <3>11. CASE StartData(t)
      BY <3>11, MoveOf DEF StartData, Rest
    <3>12. CASE StartCommand(t)
      BY <3>12, MoveOf DEF StartCommand, Rest
    <3>13. CASE t = Wlcmgr /\ StartConfirm
      BY <3>13, MoveOf DEF StartConfirm, Rest
    <3> QED
      BY <1>1, <3>1, <3>2, <3>3, <3>4, <3>5, <3>6, <3>7, <3>8, <3>9, <3>10, <3>11, <3>12, <3>13
      DEF Acts, Thread
  <2>4. ASSUME NEW u \in Threads, u # t
        PROVE  ThreadOk(u)' /\ (command_lock' = u <=> Commanding(u)')
    <3>1. ThreadOk(u) /\ (command_lock = u <=> Commanding(u)) /\ th'[u] = th[u]
      BY <2>1, <2>4 DEF ThreadInv
    <3>2. command_lock' = u <=> command_lock = u
      BY <2>2, <2>3, <2>4
    <3> QED
      BY <3>1, <3>2 DEF ThreadOk, Commanding
  <2> QED
    BY <2>3, <2>4 DEF ThreadInv
<1>2. CASE Others \/ UNCHANGED vars
  <2>1. UNCHANGED <<th, command_lock>>
    BY <1>2, OthersLeave DEF vars
  <2> QED
    BY <2>1 DEF ThreadInv, ThreadOk, Commanding
<1> QED
  BY <1>1, <1>2, NextIs

LEMMA MutexStep ==
  ASSUME TypeInv, MutexInv, ThreadInv, [Next]_vars
  PROVE  MutexInv'
<1>1. ASSUME NEW t \in Threads, Acts(t) PROVE MutexInv'
  <2>1. \A u \in Threads : u # t => th'[u] = th[u]
    BY <1>1, RestStay
  <2>2. (lock.reader_mutex = t <=> th[t].pc = "waking") /\ NoThread \notin Threads
    BY PowerSaveAssumption DEF MutexInv
  <2>3. \A x, n, m : LockIs(x, n, m).reader_mutex = m
    BY DEF LockIs
  <2>4. /\ lock'.reader_mutex = t <=> th'[t].pc = "waking"
        /\ \/ lock'.reader_mutex = lock.reader_mutex
           \/ lock.reader_mutex = NoThread /\ lock'.reader_mutex = t
           \/ lock.reader_mutex = t /\ lock'.reader_mutex = NoThread
    <3> USE <2>2 DEF Now
    <3>1. CASE os_rwlock_read_lock(t)
      <4>1. lock.reader_mutex = NoThread /\ th[t].pc = "read"
        BY <3>1 DEF os_rwlock_read_lock
      <4>2. IF lock.reader_count > 0 \/ lock.rw_lock = 1
              THEN lock'.reader_mutex = lock.reader_mutex /\ th'[t].pc = "send"
              ELSE lock'.reader_mutex = t /\ th'[t].pc = "waking"
        BY <2>3, <3>1, MoveOf, LockSteps
      <4> QED
        BY <4>1, <4>2
    <3>2. CASE Woken(t)
      BY <2>3, <3>2, MoveOf, LockSteps DEF Woken
    <3>3. CASE WakeTimeout(t)
      <4>1. th[t].pc = "waking"
        BY <3>3 DEF WakeTimeout, At
      <4>2. lock'.reader_mutex = NoThread /\ th'[t].pc = "idle"
        BY <2>3, <3>3, MoveOf, LockSteps
      <4> QED
        BY <4>1, <4>2
    <3>4. CASE wifi_get_command_lock(t)
      BY <3>4, MoveOf DEF wifi_get_command_lock
    <3>5. CASE CheckPreSleep(t)
      BY <3>5, MoveOf DEF CheckPreSleep
    <3>6. CASE SetSleepCfm(t)
      BY <3>6, MoveOf DEF SetSleepCfm
    <3>7. CASE SendData(t)
      BY <3>7, MoveOf DEF SendData, At
    <3>8. CASE SendCommand(t)
      BY <3>8, MoveOf DEF SendCommand, At
    <3>9. CASE os_rwlock_read_unlock(t)
      BY <2>3, <3>9, MoveOf, LockSteps DEF os_rwlock_read_unlock
    <3>10. CASE Answered(t)
      BY <3>10, MoveOf DEF Answered
    <3>11. CASE StartData(t)
      BY <3>11, MoveOf DEF StartData, Rest
    <3>12. CASE StartCommand(t)
      BY <3>12, MoveOf DEF StartCommand, Rest
    <3>13. CASE t = Wlcmgr /\ StartConfirm
      BY <3>13, MoveOf DEF StartConfirm, Rest
    <3> QED
      BY <1>1, <3>1, <3>2, <3>3, <3>4, <3>5, <3>6, <3>7, <3>8, <3>9, <3>10, <3>11, <3>12, <3>13
      DEF Acts, Thread
  <2> QED
    BY <2>1, <2>2, <2>4 DEF MutexInv
<1>2. CASE Others \/ UNCHANGED vars
  <2>1. UNCHANGED th /\ lock'.reader_mutex = lock.reader_mutex
    BY <1>2, OthersLeave DEF vars, TypeInv, LockType
  <2> QED
    BY <2>1 DEF MutexInv
<1> QED
  BY <1>1, <1>2, NextIs
-----------------------------------------------------------------------------
(* The count of the readers *)

In(t, S) == IF t \in S THEN 1 ELSE 0
One(b) == IF b THEN 1 ELSE 0

\* Two sets of threads that differ in t at most.
LEMMA CountOne ==
  ASSUME NEW A \in SUBSET Threads, NEW B \in SUBSET Threads, NEW t \in Threads,
         \A u \in Threads : u # t => (u \in A <=> u \in B)
  PROVE  /\ Cardinality(A) \in Nat /\ Cardinality(B) \in Nat
         /\ Cardinality(B) = Cardinality(A) + In(t, B) - In(t, A)
<1>1. IsFiniteSet(Threads)
  BY PowerSaveAssumption, FS_Union, FS_Singleton DEF Threads
<1>2. IsFiniteSet(A) /\ IsFiniteSet(B)
  BY <1>1, FS_Subset
<1>3. Cardinality(A) \in Nat /\ Cardinality(B) \in Nat
  BY <1>2, FS_CardinalityType
<1>4. CASE t \in A <=> t \in B
  <2>1. A = B
    BY <1>4
  <2> QED
    BY <1>3, <1>4, <2>1 DEF In
<1>5. CASE t \in A /\ t \notin B
  <2>1. B = A \ {t}
    BY <1>5
  <2>2. Cardinality(A \ {t}) = Cardinality(A) - 1
    BY <1>2, <1>5, FS_RemoveElement
  <2> QED
    BY <1>3, <1>5, <2>1, <2>2 DEF In
<1>6. CASE t \notin A /\ t \in B
  <2>1. B = A \cup {t}
    BY <1>6
  <2>2. Cardinality(A \cup {t}) = Cardinality(A) + 1
    BY <1>2, <1>6, FS_AddElement
  <2> QED
    BY <1>3, <1>6, <2>1, <2>2 DEF In
<1> QED
  BY <1>4, <1>5, <1>6

\* How often reader_count counts a thread.
Reads(t) == th[t].pc \in {"send", "unread"} \/ th[t].op = "addba"
Nests(t) == th[t].op = "addba" /\ th[t].pc \in {"send", "unread"}
Wakes(t) == th[t].pc = "waking"
Weight(t) == One(Reads(t)) + One(Nests(t)) + One(Wakes(t))

LEMMA CountStep1 ==
  ASSUME TypeInv, ReadersCounted, NEW t \in Threads, Acts(t),
         lock'.reader_count = lock.reader_count + Weight(t)' - Weight(t)
  PROVE  ReadersCounted'
<1>1. \A u \in Threads : u # t => th'[u] = th[u]
  BY RestStay
<1>2. /\ \A u \in Threads : /\ u \in Readers <=> Reads(u)
                            /\ u \in Nested <=> Nests(u)
                            /\ u \in Waking <=> Wakes(u)
      /\ Readers \in SUBSET Threads /\ Nested \in SUBSET Threads /\ Waking \in SUBSET Threads
  BY DEF Readers, Nested, Waking, Reads, Nests, Wakes, At
<1>3. /\ \A u \in Threads : /\ u \in Readers' <=> Reads(u)'
                            /\ u \in Nested' <=> Nests(u)'
                            /\ u \in Waking' <=> Wakes(u)'
      /\ Readers' \in SUBSET Threads /\ Nested' \in SUBSET Threads /\ Waking' \in SUBSET Threads
  BY DEF Readers, Nested, Waking, Reads, Nests, Wakes, At
<1>4. \A u \in Threads : u # t => /\ Reads(u)' <=> Reads(u)
                                  /\ Nests(u)' <=> Nests(u)
                                  /\ Wakes(u)' <=> Wakes(u)
  BY <1>1 DEF Reads, Nests, Wakes
<1>5. PICK a, a2 : a = Cardinality(Readers) /\ a2 = Cardinality(Readers')
  OBVIOUS
<1>6. PICK b, b2 : b = Cardinality(Nested) /\ b2 = Cardinality(Nested')
  OBVIOUS
<1>7. PICK c, c2 : c = Cardinality(Waking) /\ c2 = Cardinality(Waking')
  OBVIOUS
<1>8. a \in Nat /\ a2 \in Nat /\ a2 = a + In(t, Readers') - In(t, Readers)
  BY <1>2, <1>3, <1>4, <1>5, CountOne
<1>9. b \in Nat /\ b2 \in Nat /\ b2 = b + In(t, Nested') - In(t, Nested)
  BY <1>2, <1>3, <1>4, <1>6, CountOne
<1>10. c \in Nat /\ c2 \in Nat /\ c2 = c + In(t, Waking') - In(t, Waking)
  BY <1>2, <1>3, <1>4, <1>7, CountOne
<1>11. Weight(t) = In(t, Readers) + In(t, Nested) + In(t, Waking)
  BY <1>2 DEF Weight, One, In
<1>12. Weight(t)' = In(t, Readers') + In(t, Nested') + In(t, Waking')
  BY <1>3 DEF Weight, One, In
<1>13. PICK x, y, z, x2, y2, z2 :
         /\ x = In(t, Readers) /\ y = In(t, Nested) /\ z = In(t, Waking)
         /\ x2 = In(t, Readers') /\ y2 = In(t, Nested') /\ z2 = In(t, Waking')
  OBVIOUS
<1>14. {x, y, z, x2, y2, z2} \subseteq Int
  BY <1>13 DEF In
<1>15. lock.reader_count = a + b + c
  BY <1>5, <1>6, <1>7 DEF ReadersCounted
<1>16. lock'.reader_count = a2 + b2 + c2
  BY <1>8, <1>9, <1>10, <1>11, <1>12, <1>13, <1>14, <1>15
<1> QED
  BY <1>5, <1>6, <1>7, <1>16 DEF ReadersCounted

\* The change of the count and of the thread's weight, action by action.
LEMMA CountStep2 ==
  ASSUME TypeInv, ThreadInv, ReadersCounted, MutexInv, NEW t \in Threads, Acts(t)
  PROVE  lock'.reader_count = lock.reader_count + Weight(t)' - Weight(t)
<1> USE DEF Weight, One, Reads, Nests, Wakes, Now
<1>1. lock.reader_count \in Nat
  <2>1. \A A \in SUBSET Threads : Cardinality(A) \in Nat
    BY PowerSaveAssumption, FS_Union, FS_Singleton, FS_Subset, FS_CardinalityType DEF Threads
  <2>2. Readers \in SUBSET Threads /\ Nested \in SUBSET Threads /\ Waking \in SUBSET Threads
    BY DEF Readers, Nested, Waking
  <2>3. Cardinality(Readers) \in Nat /\ Cardinality(Nested) \in Nat /\ Cardinality(Waking) \in Nat
    BY <2>1, <2>2
  <2> QED
    BY <2>3 DEF ReadersCounted
<1>2. \A x, n, m : LockIs(x, n, m).reader_count = n
  BY DEF LockIs
<1>3. ThreadOk(t)
  BY DEF ThreadInv
<1>4. CASE os_rwlock_read_lock(t)
  <2>1. th[t].pc = "read" /\ th'[t].op = th[t].op /\ th'[t].pc \in {"send", "waking"}
    BY <1>4, MoveOf DEF os_rwlock_read_lock
  <2>2. lock'.reader_count = lock.reader_count + 1
    BY <1>1, <1>2, <1>4, LockSteps
  <2> QED
    BY <1>1, <2>1, <2>2
<1>5. CASE Woken(t)
  <2>1. th[t].pc = "waking" /\ th'[t].op = th[t].op /\ th'[t].pc = "send"
    BY <1>5, MoveOf DEF Woken
  <2>2. lock'.reader_count = lock.reader_count
    BY <1>2, <1>5, LockSteps
  <2> QED
    BY <1>1, <2>1, <2>2
<1>6. CASE WakeTimeout(t)
  <2>1. /\ th[t].pc = "waking" /\ th[t].op \in {"cmd", "confirm"}
        /\ th'[t].op = "none" /\ th'[t].pc = "idle"
    BY <1>6, MoveOf DEF WakeTimeout, At
  <2>2. lock'.reader_count = lock.reader_count - 1
    BY <1>2, <1>6, LockSteps
  <2> QED
    BY <1>1, <2>1, <2>2
<1>7. CASE os_rwlock_read_unlock(t)
  <2>1. /\ th[t].pc = "unread"
        /\ IF th[t].op = "data" THEN th'[t].op = "none" /\ th'[t].pc = "idle"
                                ELSE th'[t].op = th[t].op /\ th'[t].pc = "wait"
    BY <1>7, MoveOf DEF os_rwlock_read_unlock
  <2>2. lock'.reader_count = lock.reader_count - 1
    BY <1>2, <1>7, LockSteps
  <2> QED
    BY <1>1, <2>1, <2>2
<1>8. CASE \/ wifi_get_command_lock(t) \/ CheckPreSleep(t) \/ SetSleepCfm(t) \/ SendData(t)
           \/ SendCommand(t) \/ Answered(t) \/ StartData(t) \/ StartCommand(t)
           \/ (t = Wlcmgr /\ StartConfirm)
  <2>1. lock' = lock
    BY <1>8 DEF wifi_get_command_lock, CheckPreSleep, SetSleepCfm, SendData, SendCommand, Answered,
                StartData, StartCommand, StartConfirm
  <2>2. CASE wifi_get_command_lock(t)
    <3>1. th[t].pc = "lock" /\ th'[t].op = th[t].op /\ th'[t].pc \in {"check", "read"}
      BY <2>2, MoveOf DEF wifi_get_command_lock
    <3> QED
      BY <1>1, <2>1, <3>1
  <2>3. CASE CheckPreSleep(t)
    <3>1. th[t].pc = "check" /\ th[t].op = "confirm"
          /\ (Now(t, "confirm", "presleep") \/ Now(t, "none", "idle"))
      BY <1>3, <2>3, MoveOf DEF CheckPreSleep, ThreadOk
    <3> QED
      BY <1>1, <2>1, <3>1
  <2>4. CASE SetSleepCfm(t)
    <3>1. th[t].pc = "presleep" /\ th'[t].op = th[t].op /\ th'[t].pc = "read"
      BY <2>4, MoveOf DEF SetSleepCfm
    <3> QED
      BY <1>1, <2>1, <3>1
  <2>5. CASE SendData(t)
    <3>1. th[t].pc = "send" /\ th[t].op = "data"
          /\ (Now(t, "data", "unread") \/ Now(t, "addba", "lock"))
      BY <2>5, MoveOf DEF SendData, At
    <3> QED
      BY <1>1, <2>1, <3>1
  <2>6. CASE SendCommand(t)
    <3>1. th[t].pc = "send" /\ th'[t].op = th[t].op /\ th'[t].pc = "unread"
      BY <2>6, MoveOf DEF SendCommand, At
    <3> QED
      BY <1>1, <2>1, <3>1
  <2>7. CASE Answered(t)
    <3>1. th[t].pc = "wait" /\ IF th[t].op = "addba" THEN Now(t, "data", "unread")
                                                     ELSE Now(t, "none", "idle")
      BY <2>7, MoveOf DEF Answered
    <3> QED
      BY <1>1, <2>1, <3>1
  <2>8. CASE StartData(t) \/ StartCommand(t) \/ (t = Wlcmgr /\ StartConfirm)
    <3>1. th[t].pc = "idle" /\ th[t].op = "none"
          /\ (Now(t, "data", "read") \/ Now(t, "cmd", "lock") \/ Now(t, "confirm", "lock"))
      BY <2>8, MoveOf DEF StartData, StartCommand, StartConfirm, Rest
    <3> QED
      BY <1>1, <2>1, <3>1
  <2> QED
    BY <1>8, <2>2, <2>3, <2>4, <2>5, <2>6, <2>7, <2>8
<1> QED
  BY <1>4, <1>5, <1>6, <1>7, <1>8 DEF Acts, Thread

LEMMA CountStep ==
  ASSUME TypeInv, ThreadInv, MutexInv, ReadersCounted, [Next]_vars
  PROVE  ReadersCounted'
<1>1. CASE Others \/ UNCHANGED vars
  <2>1. UNCHANGED th /\ lock'.reader_count = lock.reader_count
    BY <1>1, OthersLeave DEF vars, TypeInv, LockType
  <2> QED
    BY <2>1 DEF ReadersCounted, Readers, Nested, Waking, At
<1> QED
  BY <1>1, NextIs, CountStep1, CountStep2
-----------------------------------------------------------------------------
(* Responses under way *)

LEMMA QueueAppend ==
  ASSUME TypeInv, NEW m \in IoEvent, io_events' = Append(io_events, m)
  PROVE  /\ \A n : InQueue(n)' <=> InQueue(n) \/ n = m
         /\ DOMAIN io_events = 1 .. Len(io_events) /\ DOMAIN io_events' = 1 .. Len(io_events) + 1
         /\ Len(io_events) \in Nat /\ Len(io_events') = Len(io_events) + 1
         /\ \A i \in DOMAIN io_events : io_events'[i] = io_events[i]
         /\ io_events'[Len(io_events) + 1] = m
<1>1. PICK q : q = io_events
  OBVIOUS
<1>2. q \in Seq(IoEvent) /\ io_events' = Append(q, m)
  BY <1>1 DEF TypeInv
<1>3. /\ DOMAIN q = 1 .. Len(q) /\ DOMAIN Append(q, m) = 1 .. Len(q) + 1
      /\ Len(q) \in Nat /\ Len(Append(q, m)) = Len(q) + 1
      /\ \A i \in DOMAIN q : Append(q, m)[i] = q[i]
      /\ Append(q, m)[Len(q) + 1] = m
  BY <1>2
<1>4. \A n : InQueue(n)' <=> InQueue(n) \/ n = m
  <2>1. ASSUME NEW n, InQueue(n)' PROVE InQueue(n) \/ n = m
    <3>1. PICK i \in 1 .. Len(q) + 1 : Append(q, m)[i] = n
      BY <1>2, <1>3, <2>1 DEF InQueue
    <3>2. i = Len(q) + 1 \/ i \in 1 .. Len(q)
      BY <1>3, <3>1
    <3> QED
      BY <1>1, <1>3, <3>1, <3>2 DEF InQueue
  <2>2. ASSUME NEW n, InQueue(n) PROVE InQueue(n)'
    <3>1. PICK i \in DOMAIN q : q[i] = n
      BY <1>1, <2>2 DEF InQueue
    <3>2. i \in 1 .. Len(q) + 1
      BY <1>3, <3>1
    <3> QED
      BY <1>2, <1>3, <3>1, <3>2 DEF InQueue
  <2>3. InQueue(m)'
    <3>1. Len(q) + 1 \in 1 .. Len(q) + 1
      BY <1>3
    <3> QED
      BY <1>2, <1>3, <3>1 DEF InQueue
  <2> QED
    BY <2>1, <2>2, <2>3
<1> QED
  BY <1>1, <1>2, <1>3, <1>4

LEMMA QueueTail ==
  ASSUME TypeInv, io_events # <<>>, io_events' = Tail(io_events)
  PROVE  /\ DOMAIN io_events = 1 .. Len(io_events) /\ DOMAIN io_events' = 1 .. Len(io_events) - 1
         /\ Len(io_events) \in Nat \ {0} /\ Len(io_events') = Len(io_events) - 1
         /\ Head(io_events) = io_events[1]
         /\ \A i \in DOMAIN io_events' : i + 1 \in DOMAIN io_events /\ io_events'[i] = io_events[i + 1]
<1>1. PICK q : q = io_events
  OBVIOUS
<1>2. q \in Seq(IoEvent) /\ io_events' = Tail(q) /\ q # <<>>
  BY <1>1 DEF TypeInv
<1>3. /\ DOMAIN q = 1 .. Len(q) /\ Len(q) \in Nat \ {0} /\ Head(q) = q[1]
      /\ DOMAIN Tail(q) = 1 .. Len(q) - 1 /\ Len(Tail(q)) = Len(q) - 1
      /\ \A i \in 1 .. Len(q) - 1 : Tail(q)[i] = q[i + 1]
  BY <1>2
<1>4. \A i \in 1 .. Len(q) - 1 : i + 1 \in 1 .. Len(q)
  BY <1>3
<1> QED
  BY <1>1, <1>2, <1>3, <1>4

\* The command lock changes hands only through NoThread, and only by its holder.
LEMMA LockMoves ==
  ASSUME TypeInv, ThreadInv, NEW t \in Threads, Acts(t), command_lock' # command_lock
  PROVE  (command_lock = NoThread /\ wifi_get_command_lock(t)) \/ command_lock = t
<1>1. ThreadOk(t) /\ (command_lock = t <=> Commanding(t))
  BY DEF ThreadInv
<1>2. \/ wifi_get_command_lock(t) /\ command_lock = NoThread
      \/ WakeTimeout(t) \/ CheckPreSleep(t) \/ Answered(t)
  BY DEF Acts, Thread, os_rwlock_read_lock, Woken, SetSleepCfm, SendData, SendCommand,
         os_rwlock_read_unlock, StartData, StartCommand, StartConfirm, wifi_get_command_lock
<1>3. WakeTimeout(t) \/ CheckPreSleep(t) \/ Answered(t) => Commanding(t)
  BY <1>1 DEF WakeTimeout, CheckPreSleep, Answered, At, Commanding, ThreadOk, Response
<1> QED
  BY <1>1, <1>2, <1>3

\* A command that was sent stays with its sender until the answer is taken.
LEMMA HolderKept ==
  ASSUME TypeInv, ThreadInv, NEW t \in Threads, Acts(t), ~Answered(t),
         NEW m \in Response, HolderSent(m)
  PROVE  HolderSent(m)' /\ (t # command_lock \/ os_rwlock_read_unlock(t))
<1>1. PICK c \in Threads : c = command_lock
  BY DEF HolderSent
<1>2. th[c].op = m /\ th[c].pc \in {"unread", "wait"} /\ c # NoThread
  BY <1>1, PowerSaveAssumption DEF HolderSent
<1>3. CASE t # c
  <2>1. th'[c] = th[c] /\ command_lock' = c
    BY <1>1, <1>2, <1>3, RestStay, LockMoves
  <2> QED
    BY <1>1, <1>2, <1>3, <2>1 DEF HolderSent
<1>4. CASE t = c
  <2>1. os_rwlock_read_unlock(t)
    BY <1>2, <1>4 DEF Acts, Thread, os_rwlock_read_lock, Woken, SetSleepCfm, SendData, SendCommand,
         StartData, StartCommand, StartConfirm, wifi_get_command_lock, WakeTimeout, CheckPreSleep,
         At, Rest
  <2>2. command_lock' = command_lock /\ Now(t, th[t].op, "wait")
    BY <1>2, <1>4, <2>1, MoveOf DEF os_rwlock_read_unlock, Response
  <2> QED
    BY <1>1, <1>2, <1>4, <2>1, <2>2 DEF HolderSent, Now
<1> QED
  BY <1>3, <1>4

LEMMA FlightActs ==
  ASSUME TypeInv, ThreadInv, FlightInv, NEW t \in Threads, Acts(t)
  PROVE  FlightInv'
<1> USE DEF FlightInv
<1>1. UNCHANGED <<io_events, drv>>
  BY ActsMove
<1>2. \A m : (InQueue(m)' <=> InQueue(m)) /\ (DrvBusy(m)' <=> DrvBusy(m))
  BY <1>1 DEF InQueue, DrvBusy
<1>3. ThreadOk(t) /\ (command_lock = t <=> Commanding(t))
  BY DEF ThreadInv
<1>4. OneHandled' /\ OneQueued'
  BY <1>1, <1>2 DEF OneHandled, OneQueued
<1>5. CASE SendCommand(t)
  <2>1. th[t].op \in Response /\ th[t].pc = "send" /\ command_lock = t
    BY <1>3, <1>5 DEF SendCommand, At, Commanding
  <2>2. \A m : ~HolderSent(m)
    BY <2>1 DEF HolderSent
  <2>3. resp_sem # 1 /\ \A m \in Response : ~InQueue(m) /\ ~DrvBusy(m)
    BY <2>2 DEF OfHolder, AnswerTaken
  <2>4. /\ fw'.cmd = th[t].op /\ resp_sem' = resp_sem /\ command_lock' = t
        /\ Now(t, th[t].op, "unread")
    BY <1>5, <2>1, MoveOf DEF SendCommand, TypeInv, FwType
  <2>6. resp_sem' = 0
    BY <2>3, <2>4 DEF TypeInv
  <2>7. \A m \in Response : ~InQueue(m)' /\ ~DrvBusy(m)'
    BY <1>2, <2>3
  <2>8. OneAtFw' /\ AnswerTaken'
    BY <2>6, <2>7 DEF OneAtFw, AnswerTaken
  <2>9. OfHolder'
    <3>1. \A m \in Response : fw'.cmd = m => HolderSent(m)'
      BY <2>4 DEF HolderSent, Now
    <3> QED
      BY <2>6, <2>7, <3>1 DEF OfHolder
  <2> QED
    BY <1>4, <2>8, <2>9
<1>6. CASE Answered(t)
  <2>1. resp_sem = 1 /\ resp_sem' = 0 /\ fw' = fw
    BY <1>6 DEF Answered
  <2>2. \A m \in Response : fw.cmd # m /\ ~InQueue(m) /\ ~DrvBusy(m)
    BY <2>1 DEF OfHolder
  <2> QED
    BY <1>2, <1>4, <2>1, <2>2 DEF OneAtFw, OfHolder, AnswerTaken
<1>7. CASE ~SendCommand(t) /\ ~Answered(t)
  <2>1. fw' = fw /\ resp_sem' = resp_sem
    BY <1>7 DEF Acts, Thread, os_rwlock_read_lock, Woken, SetSleepCfm, SendData,
         StartData, StartCommand, StartConfirm, wifi_get_command_lock, WakeTimeout, CheckPreSleep,
         os_rwlock_read_unlock
  <2>2. \A m \in Response : HolderSent(m) => HolderSent(m)'
    BY <1>7, HolderKept
  <2> QED
    BY <1>2, <1>4, <2>1, <2>2 DEF OneAtFw, OfHolder, AnswerTaken
<1> QED
  BY <1>5, <1>6, <1>7

\* What the driver's steps do to the message in its hands.
LEMMA DriverMoves ==
  ASSUME TypeInv, Driver, ~DriverTakes
  PROVE  /\ UNCHANGED <<io_events, th, command_lock, fw, core>> /\ drv.pc # "idle"
         /\ \/ drv'.pc # "idle" /\ drv'.msg = drv.msg /\ resp_sem' = resp_sem
            \/ drv'.pc = "idle" /\ drv.msg \notin Response /\ resp_sem' = resp_sem
            \/ drv'.pc = "idle" /\ (drv.pc = "asleep" \/ drv.msg \in Response) /\ resp_sem' = 1
<1>1. drv \in DrvType
  BY DEF TypeInv
<1>2. UNCHANGED <<io_events, th, command_lock, fw, core>> /\ drv.pc # "idle"
  BY DEF Driver, DriverUnlocks, DriverSetsAwake, HandleSleep, HandleOther,
         HandleResponse, HandleConfirm, DriverSetsSleep
<1>3. CASE DriverUnlocks \/ DriverSetsAwake \/ HandleConfirm
  BY <1>1, <1>3 DEF DriverUnlocks, DriverSetsAwake, HandleConfirm, DrvType
<1>4. CASE HandleSleep \/ HandleOther
  BY <1>4 DEF HandleSleep, HandleOther, NoMsg, Response
<1>5. CASE HandleResponse \/ DriverSetsSleep
  BY <1>5 DEF HandleResponse, DriverSetsSleep, NoMsg, Response
<1> QED
  BY <1>2, <1>3, <1>4, <1>5 DEF Driver

LEMMA FlightDriver ==
  ASSUME TypeInv, FlightInv, SleepInv, Driver
  PROVE  FlightInv'
<1> USE DEF FlightInv
<1>1. CASE DriverTakes
  <2>1. /\ io_events # <<>> /\ io_events' = Tail(io_events) /\ drv.pc = "idle"
        /\ drv'.pc # "idle" /\ drv'.msg = Head(io_events)
        /\ UNCHANGED <<th, command_lock, resp_sem, fw>>
    BY <1>1 DEF DriverTakes
  <2>2. /\ DOMAIN io_events = 1 .. Len(io_events) /\ DOMAIN io_events' = 1 .. Len(io_events) - 1
        /\ Len(io_events) \in Nat \ {0} /\ Head(io_events) = io_events[1]
        /\ \A i \in DOMAIN io_events' : i + 1 \in DOMAIN io_events /\ io_events'[i] = io_events[i + 1]
    BY <2>1, QueueTail
  <2>3. 1 \in DOMAIN io_events
    BY <2>2
  <2>4. \A m : /\ InQueue(m)' => InQueue(m)
               /\ DrvBusy(m)' <=> m = io_events[1]
    BY <2>1, <2>2 DEF InQueue, DrvBusy
  <2>5. InQueue(io_events[1])
    BY <2>3 DEF InQueue
  <2>6. \A m : HolderSent(m)' <=> HolderSent(m)
    BY <2>1 DEF HolderSent
  <2>7. OneAtFw' /\ OfHolder' /\ AnswerTaken'
    BY <2>1, <2>4, <2>5, <2>6 DEF OneAtFw, OfHolder, AnswerTaken
  <2>8. OneQueued'
    <3>1. ASSUME NEW i \in DOMAIN io_events', NEW j \in DOMAIN io_events',
                 io_events'[i] \in Response, io_events'[j] \in Response
          PROVE  i = j
      <4>1. i + 1 = j + 1
        BY <2>2, <3>1 DEF OneQueued
      <4> QED
        BY <2>2, <4>1
    <3> QED
      BY <3>1 DEF OneQueued
  <2>9. OneHandled'
    <3>1. ASSUME NEW m \in Response, NEW n \in Response, InQueue(m)', DrvBusy(n)'
          PROVE  FALSE
      <4>1. PICK i \in DOMAIN io_events' : io_events'[i] = m
        BY <3>1 DEF InQueue
      <4>2. n = io_events[1]
        BY <2>4, <3>1
      <4>3. i + 1 = 1
        BY <2>2, <2>3, <3>1, <4>1, <4>2 DEF OneQueued
      <4> QED
        BY <2>2, <4>1, <4>3
    <3> QED
      BY <3>1 DEF OneHandled
  <2> QED
    BY <2>7, <2>8, <2>9
<1>2. CASE ~DriverTakes
  <2>1. UNCHANGED <<io_events, th, command_lock, fw>> /\ drv.pc # "idle"
    BY <1>2, DriverMoves
  <2>2. \A m : (InQueue(m)' <=> InQueue(m)) /\ (HolderSent(m)' <=> HolderSent(m))
    BY <2>1 DEF InQueue, HolderSent
  <2>3. OneQueued'
    BY <2>1 DEF OneQueued
  <2>4. CASE drv'.pc # "idle" /\ drv'.msg = drv.msg /\ resp_sem' = resp_sem
    <3>1. \A m : DrvBusy(m)' <=> DrvBusy(m)
      BY <2>1, <2>4 DEF DrvBusy
    <3> QED
      BY <2>1, <2>2, <2>3, <2>4, <3>1 DEF OneAtFw, OneHandled, OfHolder, AnswerTaken
  <2>5. CASE drv'.pc = "idle" /\ drv.msg \notin Response /\ resp_sem' = resp_sem
    <3>1. \A m : ~DrvBusy(m)'
      BY <2>5 DEF DrvBusy
    <3> QED
      BY <2>1, <2>2, <2>3, <2>5, <3>1 DEF OneAtFw, OneHandled, OfHolder, AnswerTaken
  <2>6. CASE drv'.pc = "idle" /\ (drv.pc = "asleep" \/ drv.msg \in Response) /\ resp_sem' = 1
    <3>1. drv.msg \in Response /\ DrvBusy(drv.msg)
      BY <2>1, <2>6 DEF SleepInv, Response, DrvBusy
    <3>2. HolderSent(drv.msg)
      BY <3>1 DEF OfHolder
    <3>3. \A m \in Response : ~InQueue(m) /\ fw.cmd # m
      BY <3>1 DEF OneAtFw, OneHandled, Response
    <3>4. \A m : ~DrvBusy(m)'
      BY <2>6 DEF DrvBusy
    <3>5. AnswerTaken'
      BY <2>2, <3>1, <3>2 DEF AnswerTaken
    <3> QED
      BY <2>1, <2>2, <2>3, <3>3, <3>4, <3>5 DEF OneAtFw, OneHandled, OfHolder
  <2> QED
    BY <1>2, <2>4, <2>5, <2>6, DriverMoves
<1> QED
  BY <1>1, <1>2

\* The messages of the firmware that are no responses.
Report == FwSleeps \/ FwGivesUp \/ FwWakes \/ FwReports

LEMMA ReportIs ==
  ASSUME TypeInv, Report
  PROVE  /\ \E m \in {"SLEEP", "AWAKE", "OTHER"} : io_events' = Append(io_events, m)
         /\ UNCHANGED <<th, command_lock, resp_sem, drv>> /\ fw'.cmd = fw.cmd
BY DEF Report, FwSleeps, FwGivesUp, FwWakes, FwReports, Upload, TypeInv, FwType

LEMMA FlightFirmware ==
  ASSUME TypeInv, FlightInv, Firmware
  PROVE  FlightInv'
<1> USE DEF FlightInv
<1>1. CASE Report
  <2>1. PICK m \in {"SLEEP", "AWAKE", "OTHER"} : io_events' = Append(io_events, m)
    BY <1>1, ReportIs
  <2>2. UNCHANGED <<th, command_lock, resp_sem, drv>> /\ fw'.cmd = fw.cmd
    BY <1>1, ReportIs
  <2>3. m \in IoEvent /\ m \notin Response
    BY <2>1 DEF IoEvent, Response
  <2>4. /\ \A n : InQueue(n)' <=> InQueue(n) \/ n = m
        /\ DOMAIN io_events = 1 .. Len(io_events) /\ DOMAIN io_events' = 1 .. Len(io_events) + 1
        /\ Len(io_events) \in Nat
        /\ \A i \in DOMAIN io_events : io_events'[i] = io_events[i]
        /\ io_events'[Len(io_events) + 1] = m
    BY <2>1, <2>3, QueueAppend
  <2>5. \A n \in Response : InQueue(n)' <=> InQueue(n)
    BY <2>3, <2>4
  <2>6. \A n : (DrvBusy(n)' <=> DrvBusy(n)) /\ (HolderSent(n)' <=> HolderSent(n))
    BY <2>2 DEF DrvBusy, HolderSent
  <2>7. OneAtFw' /\ OneHandled' /\ OfHolder' /\ AnswerTaken'
    BY <2>2, <2>5, <2>6 DEF OneAtFw, OneHandled, OfHolder, AnswerTaken
  <2>8. \A i \in DOMAIN io_events' : io_events'[i] \in Response =>
          i \in DOMAIN io_events /\ io_events[i] \in Response
    <3>1. ASSUME NEW i \in DOMAIN io_events', io_events'[i] \in Response
          PROVE  i \in DOMAIN io_events /\ io_events[i] \in Response
      <4>1. i # Len(io_events) + 1
        BY <2>3, <2>4, <3>1
      <4> QED
        BY <2>4, <3>1, <4>1
    <3> QED
      BY <3>1
  <2>9. OneQueued'
    BY <2>8 DEF OneQueued
  <2> QED
    BY <2>7, <2>9
<1>2. CASE FwAnswers
  <2>1. /\ fw.cmd # "none" /\ fw'.cmd = "none" /\ io_events' = Append(io_events, fw.cmd)
        /\ UNCHANGED <<th, command_lock, resp_sem, drv>>
    BY <1>2 DEF FwAnswers, Upload
  <2>2. fw.cmd \in Response /\ fw.cmd \in IoEvent
    BY <2>1 DEF TypeInv, FwType, IoEvent
  <2>3. /\ \A n : InQueue(n)' <=> InQueue(n) \/ n = fw.cmd
        /\ DOMAIN io_events = 1 .. Len(io_events) /\ DOMAIN io_events' = 1 .. Len(io_events) + 1
        /\ Len(io_events) \in Nat
        /\ \A i \in DOMAIN io_events : io_events'[i] = io_events[i]
        /\ io_events'[Len(io_events) + 1] = fw.cmd
    BY <2>1, <2>2, QueueAppend
  <2>4. \A m \in Response : ~InQueue(m) /\ ~DrvBusy(m)
    BY <2>1 DEF OneAtFw
  <2>5. \A n : (DrvBusy(n)' <=> DrvBusy(n)) /\ (HolderSent(n)' <=> HolderSent(n))
    BY <2>1 DEF DrvBusy, HolderSent
  <2>6. OneAtFw' /\ OneHandled' /\ AnswerTaken'
    BY <2>1, <2>4, <2>5 DEF OneAtFw, OneHandled, AnswerTaken
  <2>7. OfHolder'
    <3>1. "none" \notin Response
      BY DEF Response
    <3> QED
      BY <2>1, <2>2, <2>3, <2>4, <2>5, <3>1 DEF OfHolder
  <2>8. \A i \in DOMAIN io_events' : io_events'[i] \in Response => i = Len(io_events) + 1
    <3>1. ASSUME NEW i \in DOMAIN io_events', io_events'[i] \in Response, i # Len(io_events) + 1
          PROVE  FALSE
      <4>1. i \in DOMAIN io_events
        BY <2>3, <3>1
      <4> QED
        BY <2>3, <2>4, <3>1, <4>1 DEF InQueue
    <3> QED
      BY <3>1
  <2>9. OneQueued'
    BY <2>8 DEF OneQueued
  <2> QED
    BY <2>6, <2>7, <2>9
<1> QED
  BY <1>1, <1>2 DEF Firmware, Report

LEMMA FlightStep ==
  ASSUME TypeInv, ThreadInv, FlightInv, SleepInv, [Next]_vars
  PROVE  FlightInv'
<1>1. CASE Core \/ UNCHANGED vars
  <2>1. UNCHANGED <<th, command_lock, resp_sem, io_events, drv, fw>>
    BY <1>1 DEF Core, CoreReceives, CoreUnlocks, CoreSetsAwake, vars
  <2> QED
    BY <2>1 DEF FlightInv, OneAtFw, OneHandled, OneQueued, OfHolder, AnswerTaken, InQueue, DrvBusy,
                HolderSent
<1> QED
  BY <1>1, NextIs, FlightActs, FlightDriver, FlightFirmware DEF Others
-----------------------------------------------------------------------------
(* The state SLEEP *)

\* A thread changes the state in one place only.
LEMMA ActsPs ==
  ASSUME NEW t \in Threads, Acts(t)
  PROVE  ps_state' = ps_state \/ (SetSleepCfm(t) /\ ps_state' = "SLEEP_CFM")
BY DEF Acts, Thread, os_rwlock_read_lock, Woken, SetSleepCfm, SendData, StartData, StartCommand,
       StartConfirm, wifi_get_command_lock, WakeTimeout, CheckPreSleep, os_rwlock_read_unlock,
       SendCommand, Answered

\* A confirm under way is that of cm_main, and keeps the state from being SLEEP.
LEMMA ConfirmUnderWay ==
  ASSUME TypeInv, ThreadInv, FlightInv, SleepInv, InQueue("confirm") \/ DrvBusy("confirm")
  PROVE  ps_state # "SLEEP"
<1>1. resp_sem = 0 /\ HolderSent("confirm")
  BY DEF FlightInv, OfHolder, Response
<1>2. command_lock = Wlcmgr
  BY <1>1 DEF HolderSent, ThreadInv, ThreadOk
<1>3. Confirming
  BY <1>1, <1>2 DEF Confirming, HolderSent
<1> QED
  BY <1>3 DEF SleepInv

LEMMA SleepActs ==
  ASSUME TypeInv, ThreadInv, FlightInv, SleepInv, NEW t \in Threads, Acts(t)
  PROVE  SleepInv'
<1>1. UNCHANGED <<io_events, drv, core>>
  BY ActsMove
<1>2. ps_state' = ps_state \/ ps_state' = "SLEEP_CFM"
  BY ActsPs
<1>3. ASSUME Confirming' PROVE ps_state' # "SLEEP"
  <2>1. th'[Wlcmgr].op = "confirm" /\ th'[Wlcmgr].pc \notin {"lock", "check"} /\ resp_sem' = 0
    BY <1>3 DEF Confirming
  <2>2. Wlcmgr \in Threads /\ ThreadOk(t)
    BY DEF Threads, ThreadInv
  <2>3. CASE t = Wlcmgr
    <3>1. CASE CheckPreSleep(t)
      BY <1>2, <2>1, <2>3, <3>1, MoveOf DEF CheckPreSleep, Now
    <3>2. CASE ~CheckPreSleep(t)
      <4>1. ~Answered(t)
        BY <2>1, <2>3, MoveOf DEF Now
      <4>2. resp_sem' = resp_sem
        BY <4>1 DEF Acts, Thread, os_rwlock_read_lock, Woken, SetSleepCfm, SendData, StartData,
             StartCommand, StartConfirm, wifi_get_command_lock, WakeTimeout, CheckPreSleep,
             os_rwlock_read_unlock, SendCommand
      <4>3. \/ os_rwlock_read_lock(t) /\ Now(t, th[t].op, th'[t].pc)
            \/ Woken(t) /\ Now(t, th[t].op, "send")
            \/ SetSleepCfm(t) /\ Now(t, th[t].op, "read")
            \/ SendCommand(t) /\ Now(t, th[t].op, "unread")
            \/ os_rwlock_read_unlock(t) /\ Now(t, th[t].op, "wait")
        BY <2>1, <2>3, <3>2, <4>1, MoveOf DEF Acts, Thread, Now
      <4>4. th[t].op = "confirm" /\ th[t].pc \notin {"lock", "check"}
        BY <2>1, <2>3, <4>3 DEF os_rwlock_read_lock, Woken, SetSleepCfm, SendCommand, At,
             os_rwlock_read_unlock, Now
      <4> QED
        BY <1>2, <2>1, <2>3, <4>2, <4>4 DEF SleepInv, Confirming
    <3> QED
      BY <3>1, <3>2
  <2>4. CASE t # Wlcmgr
    <3>1. th'[Wlcmgr] = th[Wlcmgr]
      BY <2>2, <2>4, RestStay
    <3>2. Commanding(Wlcmgr)
      BY <2>1, <3>1 DEF Commanding, Response
    <3>3. command_lock = Wlcmgr /\ ~Commanding(t)
      BY <2>2, <2>4, <3>2 DEF ThreadInv
    <3>4. ~Answered(t)
      BY <2>2, <3>3 DEF Answered, Commanding, ThreadOk
    <3>5. resp_sem' = resp_sem
      BY <3>4 DEF Acts, Thread, os_rwlock_read_lock, Woken, SetSleepCfm, SendData, StartData,
           StartCommand, StartConfirm, wifi_get_command_lock, WakeTimeout, CheckPreSleep,
           os_rwlock_read_unlock, SendCommand
    <3> QED
      BY <1>2, <2>1, <3>1, <3>5 DEF SleepInv, Confirming
  <2> QED
    BY <2>3, <2>4
<1>4. \A m : (InQueue(m)' <=> InQueue(m)) /\ (DrvBusy(m)' <=> DrvBusy(m))
  BY <1>1 DEF InQueue, DrvBusy
<1> QED
  BY <1>1, <1>2, <1>3, <1>4 DEF SleepInv

LEMMA SleepDriver ==
  ASSUME TypeInv, ThreadInv, FlightInv, SleepInv, Driver
  PROVE  SleepInv'
<1>1. drv \in DrvType
  BY DEF TypeInv
<1>2. ps_state' # "SLEEP" \/ ps_state' = ps_state \/ DriverSetsSleep
  BY DEF Driver, DriverTakes, DriverUnlocks, DriverSetsAwake, HandleSleep, HandleOther,
         HandleResponse, HandleConfirm
<1>3. th' = th /\ core' = core /\ (resp_sem' = 1 \/ resp_sem' = resp_sem)
      /\ (DriverSetsSleep => resp_sem' = 1)
  BY DEF Driver, DriverTakes, DriverUnlocks, DriverSetsAwake, HandleSleep, HandleOther,
         HandleResponse, HandleConfirm, DriverSetsSleep
<1>4. Confirming' => ps_state' # "SLEEP"
  BY <1>2, <1>3 DEF Confirming, SleepInv
<1>5. drv'.pc = "handle" => ps_state' # "SLEEP"
  <2>1. CASE DriverTakes
    BY <2>1 DEF DriverTakes, ShowsAwake
  <2>2. CASE DriverUnlocks \/ DriverSetsAwake \/ HandleConfirm
    BY <1>1, <2>2 DEF DriverUnlocks, DriverSetsAwake, HandleConfirm, DrvType
  <2>3. CASE HandleSleep \/ HandleOther \/ HandleResponse \/ DriverSetsSleep
    BY <2>3 DEF HandleSleep, HandleOther, HandleResponse, DriverSetsSleep, NoMsg
  <2> QED
    BY <2>1, <2>2, <2>3 DEF Driver
<1>6. drv'.pc = "asleep" => drv'.msg = "confirm"
  <2>1. CASE DriverTakes
    BY <2>1 DEF DriverTakes
  <2>2. CASE DriverUnlocks \/ DriverSetsAwake
    BY <1>1, <2>2 DEF DriverUnlocks, DriverSetsAwake, DrvType
  <2>3. CASE HandleConfirm
    BY <1>1, <2>3 DEF HandleConfirm, DrvType
  <2>4. CASE HandleSleep \/ HandleOther \/ HandleResponse \/ DriverSetsSleep
    BY <2>4 DEF HandleSleep, HandleOther, HandleResponse, DriverSetsSleep, NoMsg
  <2> QED
    BY <2>1, <2>2, <2>3, <2>4 DEF Driver
<1>7. ASSUME core' # "idle" PROVE ~InQueue("confirm")' /\ ~DrvBusy("confirm")'
  <2>1. ~InQueue("confirm") /\ ~DrvBusy("confirm")
    BY <1>3, <1>7 DEF SleepInv
  <2>2. CASE DriverTakes
    <3>1. io_events # <<>> /\ io_events' = Tail(io_events) /\ drv'.msg = Head(io_events)
      BY <2>2 DEF DriverTakes
    <3>2. /\ Head(io_events) = io_events[1] /\ 1 \in DOMAIN io_events
          /\ \A i \in DOMAIN io_events' :
               i + 1 \in DOMAIN io_events /\ io_events'[i] = io_events[i + 1]
      BY <3>1, QueueTail
    <3> QED
      BY <2>1, <3>1, <3>2 DEF InQueue, DrvBusy
  <2>3. CASE ~DriverTakes
    <3>1. io_events' = io_events /\ drv.pc # "idle" /\ (drv'.pc = "idle" \/ drv'.msg = drv.msg)
      BY <2>3, DriverMoves
    <3> QED
      BY <2>1, <3>1 DEF InQueue, DrvBusy
  <2> QED
    BY <2>2, <2>3
<1> QED
  BY <1>4, <1>5, <1>6, <1>7 DEF SleepInv

LEMMA SleepStep ==
  ASSUME TypeInv, ThreadInv, FlightInv, SleepInv, [Next]_vars
  PROVE  SleepInv'
<1>1. CASE Core
  <2>1. UNCHANGED <<th, resp_sem, io_events, drv>>
    BY <1>1 DEF Core, CoreReceives, CoreUnlocks, CoreSetsAwake
  <2>2. ps_state' = ps_state \/ ps_state' = "AWAKE"
    BY <1>1 DEF Core, CoreReceives, CoreUnlocks, CoreSetsAwake
  <2>3. (InQueue("confirm")' <=> InQueue("confirm")) /\ (DrvBusy("confirm")' <=> DrvBusy("confirm"))
    BY <2>1 DEF InQueue, DrvBusy
  <2>4. core' # "idle" => core # "idle" \/ ps_state = "SLEEP"
    BY <1>1 DEF Core, CoreReceives, CoreUnlocks, CoreSetsAwake
  <2>5. core' # "idle" => ~InQueue("confirm") /\ ~DrvBusy("confirm")
    BY <2>4, ConfirmUnderWay DEF SleepInv
  <2> QED
    BY <2>1, <2>2, <2>3, <2>5 DEF SleepInv, Confirming
<1>2. CASE Firmware
  <2>1. core = "idle" /\ UNCHANGED <<th, resp_sem, ps_state, drv, core>>
    BY <1>2 DEF Firmware, FwSleeps, FwGivesUp, FwAnswers, FwWakes, FwReports, Upload
  <2> QED
    BY <2>1 DEF SleepInv, Confirming
<1>3. CASE UNCHANGED vars
  BY <1>3 DEF vars, SleepInv, Confirming, InQueue, DrvBusy
<1> QED
  BY <1>1, <1>2, <1>3, NextIs, SleepActs, SleepDriver DEF Others
-----------------------------------------------------------------------------
(* The lock has an owner *)

\* Only the unlock makes a reader less.
LEMMA ReadersKept ==
  ASSUME TypeInv, ThreadInv, NEW t \in Threads, Acts(t), ~os_rwlock_read_unlock(t)
  PROVE  Readers # {} => Readers' # {}
<1>1. \A u \in Threads : u # t => th'[u] = th[u]
  BY RestStay
<1>2. ThreadOk(t)
  BY DEF ThreadInv
<1>3. ASSUME Reads(t) PROVE Reads(t)'
  <2> USE <1>3 DEF Reads, Now
  <2>1. CASE os_rwlock_read_lock(t)
    BY <2>1, MoveOf DEF os_rwlock_read_lock
  <2>2. CASE Woken(t) \/ SendCommand(t)
    BY <2>2, MoveOf
  <2>3. CASE WakeTimeout(t)
    BY <2>3 DEF WakeTimeout, At
  <2>4. CASE wifi_get_command_lock(t)
    BY <2>4, MoveOf DEF wifi_get_command_lock
  <2>5. CASE CheckPreSleep(t)
    BY <1>2, <2>5 DEF CheckPreSleep, ThreadOk
  <2>6. CASE SetSleepCfm(t)
    BY <2>6, MoveOf DEF SetSleepCfm
  <2>7. CASE SendData(t)
    BY <2>7, MoveOf
  <2>8. CASE Answered(t)
    BY <2>8, MoveOf DEF Answered
  <2>9. CASE StartData(t) \/ StartCommand(t) \/ (t = Wlcmgr /\ StartConfirm)
    BY <2>9 DEF StartData, StartCommand, StartConfirm, Rest
  <2> QED
    BY <2>1, <2>2, <2>3, <2>4, <2>5, <2>6, <2>7, <2>8, <2>9 DEF Acts, Thread
<1>4. \A u \in Threads : Reads(u) => Reads(u)'
  BY <1>1, <1>3 DEF Reads
<1>5. \A u \in Threads : (u \in Readers <=> Reads(u)) /\ (u \in Readers' <=> Reads(u)')
  BY DEF Readers, Reads
<1>6. Readers \subseteq Threads
  BY DEF Readers
<1> QED
  BY <1>4, <1>5, <1>6

\* A thread that takes the semaphore is a reader; the last unlock puts it.
LEMMA LockTaken ==
  ASSUME TypeInv, ThreadInv, NEW t \in Threads, Acts(t), lock'.rw_lock = 0
  PROVE  lock.rw_lock = 0 \/ Readers' # {}
<1>1. \A x, n, m : LockIs(x, n, m).rw_lock = x
  BY DEF LockIs
<1>2. lock.rw_lock \in 0 .. 1
  BY LockFields
<1>3. th'[t].pc = "send" => Readers' # {}
  BY DEF Readers
<1>4. CASE os_rwlock_read_lock(t)
  <2>1. CASE lock.rw_lock = 1
    BY <1>3, <1>4, <2>1, MoveOf DEF Now
  <2> QED
    BY <1>2, <2>1
<1>5. CASE Woken(t)
  BY <1>3, <1>5, MoveOf DEF Now
<1>6. CASE WakeTimeout(t) \/ os_rwlock_read_unlock(t)
  BY <1>1, <1>6, LockSteps
<1>7. CASE ~os_rwlock_read_lock(t) /\ ~Woken(t) /\ ~WakeTimeout(t) /\ ~os_rwlock_read_unlock(t)
  BY <1>7 DEF Acts, Thread, SetSleepCfm, SendData, StartData, StartCommand, StartConfirm,
         wifi_get_command_lock, CheckPreSleep, SendCommand, Answered
<1> QED
  BY <1>4, <1>5, <1>6, <1>7

\* An unlock that leaves the semaphore taken leaves a reader.
LEMMA UnlockLeaves ==
  ASSUME TypeInv, ThreadInv, MutexInv, ReadersCounted, NEW t \in Threads, os_rwlock_read_unlock(t),
         lock'.rw_lock = 0
  PROVE  lock.rw_lock = 0 /\ Readers' # {}
<1>1. Acts(t) /\ [Next]_vars
  BY DEF Acts, Thread, Next
<1>2. TypeInv' /\ MutexInv' /\ ReadersCounted'
  BY <1>1, TypeStep, MutexStep, CountStep
<1>3. lock' = LockIs(IF lock.reader_count = 1 THEN 1 ELSE lock.rw_lock,
                     lock.reader_count - 1, lock.reader_mutex)
  BY LockSteps
<1>4. /\ lock'.rw_lock = IF lock.reader_count = 1 THEN 1 ELSE lock.rw_lock
      /\ lock'.reader_count = lock.reader_count - 1 /\ lock'.reader_mutex = NoThread
  BY <1>3 DEF LockIs, os_rwlock_read_unlock
<1>5. lock.reader_count # 1 /\ lock.rw_lock = 0
  BY <1>4
<1>6. Waking' = {}
  BY <1>2, <1>4, PowerSaveAssumption DEF Waking, MutexInv
<1>7. ASSUME Readers' = {} PROVE FALSE
  <2>1. Nested' = {}
    BY <1>7 DEF Nested, Readers, At
  <2>2. lock'.reader_count = 0
    BY <1>2, <1>6, <1>7, <2>1, FS_EmptySet DEF ReadersCounted
  <2> QED
    BY <1>4, <1>5, <2>2, LockFields
<1> QED
  BY <1>5, <1>7

\* No thread leaves the state SLEEP.
LEMMA SleepStays ==
  ASSUME TypeInv, ThreadInv, FlightInv, SleepInv, NEW t \in Threads, Acts(t)
  PROVE  ps_state = "SLEEP" <=> ps_state' = "SLEEP"
<1>1. ASSUME ps_state = "SLEEP", SetSleepCfm(t) PROVE FALSE
  <2>1. th[t].pc = "presleep" /\ ThreadOk(t) /\ (command_lock = t <=> Commanding(t))
    BY <1>1 DEF SetSleepCfm, ThreadInv
  <2>2. t = Wlcmgr /\ th[t].op = "confirm" /\ command_lock = t
    BY <2>1 DEF ThreadOk, Commanding, Response
  <2>3. resp_sem = 0
    BY <2>1, <2>2 DEF FlightInv, AnswerTaken, HolderSent, TypeInv
  <2> QED
    BY <1>1, <2>1, <2>2, <2>3 DEF SleepInv, Confirming
<1> QED
  BY <1>1, ActsPs

LEMMA OwnActs ==
  ASSUME PsInv, NEW t \in Threads, Acts(t)
  PROVE  OwnInv'
<1> USE DEF PsInv
<1>1. UNCHANGED <<io_events, drv, core>>
  BY ActsMove
<1>2. ASSUME lock'.rw_lock = 0, Readers' = {}
      PROVE  lock.rw_lock = 0 /\ Readers = {}
  <2>1. lock.rw_lock = 0
    BY <1>2, LockTaken
  <2>2. ~os_rwlock_read_unlock(t)
    BY <1>2, UnlockLeaves
  <2> QED
    BY <1>2, <2>1, <2>2, ReadersKept
<1>3. ps_state = "SLEEP" => ps_state' = "SLEEP"
  BY SleepStays
<1> QED
  BY <1>1, <1>2, <1>3 DEF OwnInv, LockOwned

LEMMA OwnOthers ==
  ASSUME PsInv, Others
  PROVE  OwnInv'
<1> USE DEF PsInv
<1>1. Readers' = Readers /\ drv \in DrvType /\ lock \in LockType
  BY OthersLeave DEF Readers, TypeInv
<1>2. CASE DriverTakes \/ HandleOther \/ HandleResponse \/ HandleSleep
  <2>1. lock' = lock /\ core' = core /\ drv'.pc # "awake" /\ drv.pc # "asleep"
    BY <1>2 DEF DriverTakes, HandleOther, HandleResponse, HandleSleep, NoMsg
  <2>2. ps_state = "SLEEP" => ps_state' = "SLEEP"
    BY <1>2 DEF DriverTakes, HandleOther, HandleResponse, HandleSleep, SleepInv
  <2> QED
    BY <1>1, <2>1, <2>2 DEF OwnInv, LockOwned
<1>3. CASE DriverUnlocks \/ CoreUnlocks
  <2>1. lock'.rw_lock = 1
    BY <1>1, <1>3 DEF DriverUnlocks, CoreUnlocks, WriteUnlocked, LockType
  <2> QED
    BY <2>1 DEF OwnInv, LockOwned
<1>4. CASE DriverSetsAwake
  <2>1. lock' = lock /\ core' = core /\ drv.pc = "awake" /\ drv'.pc = "handle"
    BY <1>1, <1>4 DEF DriverSetsAwake, DrvType
  <2> QED
    BY <1>1, <2>1 DEF OwnInv, LockOwned
<1>5. CASE HandleConfirm
  <2>1. DrvBusy("confirm") /\ drv'.pc = "asleep" /\ core' = core
    BY <1>1, <1>5 DEF HandleConfirm, DrvBusy, DrvType
  <2>2. core = "idle"
    BY <2>1 DEF SleepInv
  <2> QED
    BY <2>1, <2>2 DEF OwnInv, LockOwned
<1>6. CASE DriverSetsSleep
  <2>1. lock' = lock /\ core' = core /\ ps_state' = "SLEEP" /\ drv'.pc = "idle"
    BY <1>6 DEF DriverSetsSleep, NoMsg
  <2> QED
    BY <1>1, <2>1 DEF OwnInv, LockOwned
<1>7. CASE CoreReceives
  <2>1. lock' = lock /\ core' = "unlock" /\ ps_state' = ps_state /\ drv' = drv
    BY <1>7 DEF CoreReceives
  <2> QED
    BY <1>1, <2>1 DEF OwnInv, LockOwned
<1>8. CASE CoreSetsAwake
  <2>1. lock' = lock /\ core = "awake" /\ core' = "idle" /\ drv' = drv
    BY <1>8 DEF CoreSetsAwake
  <2> QED
    BY <1>1, <2>1 DEF OwnInv, LockOwned
<1>9. CASE Firmware
  <2>1. lock' = lock /\ core' = core /\ ps_state' = ps_state /\ drv' = drv
    BY <1>9 DEF Firmware, FwSleeps, FwGivesUp, FwAnswers, FwWakes, FwReports, Upload
  <2> QED
    BY <1>1, <2>1 DEF OwnInv, LockOwned
<1> QED
  BY <1>2, <1>3, <1>4, <1>5, <1>6, <1>7, <1>8, <1>9 DEF Others, Driver, Core

LEMMA OwnStep ==
  ASSUME PsInv, [Next]_vars
  PROVE  OwnInv'
<1>1. CASE UNCHANGED vars
  BY <1>1 DEF PsInv, OwnInv, LockOwned, Readers, vars
<1> QED
  BY <1>1, NextIs, OwnActs, OwnOthers
-----------------------------------------------------------------------------
(* The invariant, and the theorems *)

LEMMA PsInit ==
  ASSUME Init
  PROVE  PsInv
<1>1. /\ th = [t \in Threads |-> Rest] /\ io_events = <<>> /\ drv.pc = "idle" /\ core = "idle"
      /\ lock.rw_lock = 1 /\ lock.reader_count = 0 /\ lock.reader_mutex = NoThread
      /\ fw.cmd = "none" /\ command_lock = NoThread /\ resp_sem = 0 /\ ps_state = "AWAKE"
  BY DEF Init, NoMsg
<1>2. \A t \in Threads : th[t].op = "none" /\ th[t].pc = "idle"
  BY <1>1 DEF Rest
<1>3. TypeInv
  <2>2. lock \in LockType
    BY DEF Init, LockType, Held
  <2>3. th \in [Threads -> ThType]
    BY <1>1 DEF Rest, ThType, Op, Pc
  <2>4. drv \in DrvType
    BY DEF Init, NoMsg, DrvType, IoEvent
  <2>5. fw \in FwType
    BY DEF Init, FwType
  <2> QED
    BY <1>1, <2>2, <2>3, <2>4, <2>5, PowerSaveAssumption DEF TypeInv, Init, PsState
<1>4. ThreadInv
  BY <1>1, <1>2, PowerSaveAssumption DEF ThreadInv, ThreadOk, Commanding, Response
<1>5. MutexInv
  BY <1>1, <1>2, PowerSaveAssumption DEF MutexInv
<1>6. Readers = {} /\ Nested = {} /\ Waking = {}
  BY <1>2 DEF Readers, Nested, Waking, At
<1>7. ReadersCounted
  BY <1>1, <1>6, FS_EmptySet DEF ReadersCounted
<1>8. \A m : ~InQueue(m) /\ ~DrvBusy(m)
  BY <1>1 DEF InQueue, DrvBusy
<1>9. FlightInv
  <2>1. OneQueued
    BY <1>1 DEF OneQueued
  <2> QED
    BY <1>1, <1>8, <2>1 DEF FlightInv, OneAtFw, OneHandled, OfHolder, AnswerTaken, Response
<1>10. SleepInv /\ OwnInv
  BY <1>1 DEF SleepInv, OwnInv, LockOwned
<1> QED
  BY <1>3, <1>4, <1>5, <1>7, <1>9, <1>10 DEF PsInv

LEMMA PsStep ==
  ASSUME PsInv, [Next]_vars
  PROVE  PsInv'
<1>1. TypeInv /\ ThreadInv /\ MutexInv /\ ReadersCounted /\ FlightInv /\ SleepInv
  BY DEF PsInv
<1> QED
  BY <1>1, TypeStep, ThreadStep, MutexStep, CountStep, FlightStep, SleepStep, OwnStep DEF PsInv

\* The inductive invariant holds in every behaviour.
THEOREM PsInvInvariant == Spec => []PsInv
BY PsInit, PsStep, PTL DEF Spec

\* A thread is counted twice at most.
LEMMA CountBounded ==
  ASSUME PsInv
  PROVE  lock.reader_count \in 0 .. (2 * Cardinality(Threads))
<1>1. IsFiniteSet(Threads)
  BY PowerSaveAssumption, FS_Union, FS_Singleton DEF Threads
<1>2. Readers \subseteq Threads /\ Nested \cup Waking \subseteq Threads /\ Nested \cap Waking = {}
  BY DEF Readers, Nested, Waking, At
<1>3. IsFiniteSet(Readers) /\ IsFiniteSet(Nested) /\ IsFiniteSet(Waking)
  BY <1>1, <1>2, FS_Subset
<1>4. Cardinality(Readers) <= Cardinality(Threads)
  BY <1>1, <1>2, FS_Subset
<1>5. Cardinality(Nested \cup Waking) <= Cardinality(Threads)
  BY <1>1, <1>2, FS_Subset
<1>6. Cardinality(Nested \cup Waking) = Cardinality(Nested) + Cardinality(Waking)
  <2>1. Cardinality(Nested \cap Waking) = 0
    BY <1>2, FS_EmptySet
  <2>2. Cardinality(Nested \cup Waking) =
          Cardinality(Nested) + Cardinality(Waking) - Cardinality(Nested \cap Waking)
    BY <1>3, FS_Union
  <2>3. Cardinality(Nested) \in Nat /\ Cardinality(Waking) \in Nat
    BY <1>3, FS_CardinalityType
  <2> QED
    BY <2>1, <2>2, <2>3
<1>7. PICK a, b, c, n : a = Cardinality(Readers) /\ b = Cardinality(Nested)
                        /\ c = Cardinality(Waking) /\ n = Cardinality(Threads)
  OBVIOUS
<1>8. a \in Nat /\ b \in Nat /\ c \in Nat /\ n \in Nat
  BY <1>1, <1>3, <1>7, FS_CardinalityType
<1>9. a <= n /\ b + c <= n /\ lock.reader_count = a + b + c
  BY <1>4, <1>5, <1>6, <1>7 DEF PsInv, ReadersCounted
<1>10. lock.reader_count \in 0 .. (2 * n)
  BY <1>8, <1>9
<1> QED
  BY <1>7, <1>10

\* Type correctness: reader_count, unsigned in the code, never wraps.
THEOREM TypeCorrect == Spec => []TypeOK
<1>1. PsInv => TypeOK
  <2>1. ASSUME PsInv PROVE TypeOK
    <3>1. lock.reader_count \in 0 .. (2 * Cardinality(Threads))
      BY <2>1, CountBounded
    <3>2. TypeInv
      BY <2>1 DEF PsInv
    <3>3. lock \in [rw_lock : 0 .. 1, reader_count : 0 .. (2 * Cardinality(Threads)),
                    reader_mutex : Threads \cup {NoThread}, held : {"no", "card", "stray"}]
      BY <3>1, <3>2 DEF TypeInv, LockType, Held
    <3> QED
      BY <3>2, <3>3 DEF TypeInv, TypeOK, ThType, DrvType, FwType
  <2> QED
    BY <2>1
<1> QED
  BY <1>1, PsInvInvariant, PTL

\* os_rwlock's count is the number of holds, nested ones and the reader that waits included, after
\* any sequence of locks, unlocks and timeouts.
THEOREM CountExact == Spec => []ReadersCounted
BY PsInvInvariant, PTL DEF PsInv

\* sleep_rwlock is never leaked, even when the firmware gives up and data wakes the card.
THEOREM NeverLeaked == Spec => []LockOwned
BY PsInvInvariant, PTL DEF PsInv, OwnInv
-----------------------------------------------------------------------------
(* The firmware that sleeps, and what the driver knows of it *)

\* Without a new message, what matters is whether the driver believes the card asleep.
LEMMA FwSame ==
  ASSUME FwInv, UNCHANGED <<io_events, core>>, fw'.power = fw.power, DrvSleeps => DrvSleeps'
  PROVE  FwInv'
BY DEF FwInv

LEMMA FwActs ==
  ASSUME PsInv, FwInv, NEW t \in Threads, Acts(t)
  PROVE  FwInv'
<1>1. UNCHANGED <<io_events, drv, core>>
  BY ActsMove DEF PsInv
<1>2. ps_state = "SLEEP" <=> ps_state' = "SLEEP"
  BY SleepStays DEF PsInv
<1>3. fw'.power = fw.power
  <2>1. CASE SendCommand(t)
    BY <2>1 DEF SendCommand, PsInv, TypeInv, FwType
  <2>2. CASE ~SendCommand(t)
    BY <2>2 DEF Acts, Thread, os_rwlock_read_lock, Woken, SetSleepCfm, SendData, StartData,
         StartCommand, StartConfirm, wifi_get_command_lock, WakeTimeout, CheckPreSleep,
         os_rwlock_read_unlock, Answered
  <2> QED
    BY <2>1, <2>2
<1>4. DrvSleeps' <=> DrvSleeps
  BY <1>1, <1>2 DEF DrvSleeps, DrvBusy
<1> QED
  BY <1>1, <1>3, <1>4, FwSame

\* The last message of a firmware that sleeps is its confirm, and the driver takes it last.
LEMMA FwTakes ==
  ASSUME TypeInv, FwInv, DriverTakes
  PROVE  FwInv'
<1>1. /\ io_events # <<>> /\ io_events' = Tail(io_events)
      /\ drv'.pc # "idle" /\ drv'.msg = Head(io_events) /\ UNCHANGED <<core, fw>>
  BY DEF DriverTakes
<1>2. /\ DOMAIN io_events' = 1 .. Len(io_events) - 1
      /\ Len(io_events) \in Nat \ {0} /\ Len(io_events') = Len(io_events) - 1
      /\ Head(io_events) = io_events[1]
      /\ \A i \in DOMAIN io_events' : i + 1 \in DOMAIN io_events /\ io_events'[i] = io_events[i + 1]
  BY <1>1, QueueTail
<1>3. PICK n \in Nat \ {0} : n = Len(io_events)
  BY <1>2
<1>4. io_events' = <<>> <=> n = 1
  <2>1. io_events' \in Seq(IoEvent)
    BY <1>1 DEF TypeInv
  <2>2. io_events' = <<>> <=> Len(io_events') = 0
    BY <2>1
  <2> QED
    BY <1>2, <1>3, <2>2
<1>5. ASSUME fw.power = "asleep"
      PROVE  IF n = 1 THEN DrvSleeps' ELSE io_events'[Len(io_events')] = "confirm"
  <2>1. io_events[n] = "confirm"
    BY <1>1, <1>3, <1>5 DEF FwInv
  <2>2. n # 1 => n - 1 \in DOMAIN io_events' /\ n - 1 + 1 = n /\ Len(io_events') = n - 1
    BY <1>2, <1>3
  <2>3. n = 1 => DrvSleeps'
    BY <1>1, <1>2, <2>1 DEF DrvSleeps, DrvBusy
  <2> QED
    BY <1>2, <2>1, <2>2, <2>3
<1> QED
  BY <1>1, <1>4, <1>5 DEF FwInv

LEMMA FwDriver ==
  ASSUME PsInv, FwInv, Driver
  PROVE  FwInv'
<1> USE DEF PsInv
<1>1. CASE DriverTakes
  BY <1>1, FwTakes
<1>2. CASE ~DriverTakes
  <2>1. UNCHANGED <<io_events, core, fw>> /\ drv \in DrvType
    BY <1>2, DriverMoves DEF TypeInv
  <2>2. CASE DriverUnlocks
    <3>1. drv.pc = "unlock" /\ drv'.pc = "awake" /\ drv'.msg = drv.msg
      BY <2>1, <2>2 DEF DriverUnlocks, DrvType
    <3> QED
      BY <2>1, <3>1, FwSame DEF DrvSleeps, DrvBusy
  <2>3. CASE DriverSetsAwake
    <3>1. drv.pc = "awake" /\ drv'.pc = "handle" /\ drv'.msg = drv.msg
      BY <2>1, <2>3 DEF DriverSetsAwake, DrvType
    <3> QED
      BY <2>1, <3>1, FwSame DEF DrvSleeps, DrvBusy
  <2>4. CASE HandleSleep \/ HandleOther \/ HandleResponse
    <3>1. drv.pc = "handle" /\ drv.msg # "confirm"
      BY <2>4 DEF HandleSleep, HandleOther, HandleResponse
    <3> QED
      BY <2>1, <3>1, FwSame DEF DrvSleeps, DrvBusy
  <2>5. CASE HandleConfirm
    <3>1. drv'.pc = "asleep" /\ drv'.msg = "confirm"
      BY <2>1, <2>5 DEF HandleConfirm, DrvType
    <3> QED
      BY <2>1, <3>1, FwSame DEF DrvSleeps, DrvBusy
  <2>6. CASE DriverSetsSleep
    <3>1. drv'.pc = "idle" /\ ps_state' = "SLEEP"
      BY <2>6 DEF DriverSetsSleep, NoMsg
    <3> QED
      BY <2>1, <3>1, FwSame DEF DrvSleeps
  <2> QED
    BY <1>2, <2>2, <2>3, <2>4, <2>5, <2>6 DEF Driver
<1> QED
  BY <1>1, <1>2

\* The core thread is at work only on data of a firmware that is awake.
LEMMA FwCore ==
  ASSUME FwInv, Core
  PROVE  FwInv'
<1>1. UNCHANGED <<io_events, drv, fw>> /\ fw.power = "awake"
  BY DEF Core, CoreReceives, CoreUnlocks, CoreSetsAwake, FwInv
<1> QED
  BY <1>1 DEF FwInv

LEMMA FwFirmware ==
  ASSUME TypeInv, FwInv, Firmware
  PROVE  FwInv' /\ UNCHANGED <<th, lock, ps_state, drv, core>>
<1>1. UNCHANGED <<th, lock, ps_state, drv, core>> /\ core = "idle"
  BY DEF Firmware, FwSleeps, FwGivesUp, FwAnswers, FwWakes, FwReports, Upload
<1>2. PICK m \in IoEvent : /\ io_events' = Append(io_events, m)
                           /\ fw'.power = "asleep" => m = "confirm"
  <2>1. fw \in FwType
    BY DEF TypeInv
  <2>2. CASE FwSleeps \/ FwGivesUp \/ FwWakes \/ FwReports
    BY <2>1, <2>2 DEF FwSleeps, FwGivesUp, FwWakes, FwReports, Upload, FwType, IoEvent
  <2>3. CASE FwAnswers
    BY <2>1, <2>3 DEF FwAnswers, Upload, FwType, IoEvent
  <2> QED
    BY <2>2, <2>3 DEF Firmware
<1>3. /\ Len(io_events') = Len(io_events) + 1 /\ io_events'[Len(io_events) + 1] = m
      /\ Len(io_events) \in Nat
  BY <1>2, QueueAppend
<1>4. io_events' # <<>>
  BY <1>2, <1>3
<1> QED
  BY <1>1, <1>2, <1>3, <1>4 DEF FwInv

LEMMA FwStep ==
  ASSUME PsInv, FwInv, [Next]_vars
  PROVE  FwInv'
<1>1. CASE UNCHANGED vars
  BY <1>1, FwSame DEF vars, DrvSleeps, DrvBusy
<1>2. TypeInv
  BY DEF PsInv
<1> QED
  BY <1>1, <1>2, NextIs, FwActs, FwDriver, FwCore, FwFirmware DEF Others
-----------------------------------------------------------------------------
(* The card or the readers *)

\* Only the lock makes a reader.
LEMMA ReadersNew ==
  ASSUME TypeInv, ThreadInv, NEW t \in Threads, Acts(t),
         ~Woken(t), ~(os_rwlock_read_lock(t) /\ th'[t].pc = "send")
  PROVE  Readers' \subseteq Readers
<1>1. \A u \in Threads : u # t => th'[u] = th[u]
  BY RestStay
<1>2. ThreadOk(t)
  BY DEF ThreadInv
<1>3. ASSUME Reads(t)' PROVE Reads(t)
  <2> USE <1>3 DEF Reads, Now
  <2>1. CASE os_rwlock_read_lock(t)
    <3>1. th'[t].op = th[t].op /\ th'[t].pc = "waking"
      BY <2>1, MoveOf
    <3> QED
      BY <3>1
  <2>2. CASE SendCommand(t) \/ SendData(t)
    BY <2>2 DEF SendCommand, SendData, At
  <2>3. CASE WakeTimeout(t)
    BY <2>3, MoveOf
  <2>4. CASE wifi_get_command_lock(t)
    BY <2>4, MoveOf DEF wifi_get_command_lock
  <2>5. CASE CheckPreSleep(t)
    BY <1>2, <2>5, MoveOf DEF CheckPreSleep, ThreadOk
  <2>6. CASE SetSleepCfm(t)
    BY <2>6, MoveOf
  <2>7. CASE os_rwlock_read_unlock(t)
    BY <2>7 DEF os_rwlock_read_unlock
  <2>8. CASE Answered(t)
    BY <2>8, MoveOf
  <2>9. CASE StartData(t) \/ StartCommand(t) \/ (t = Wlcmgr /\ StartConfirm)
    BY <2>9, MoveOf
  <2> QED
    BY <2>1, <2>2, <2>3, <2>4, <2>5, <2>6, <2>7, <2>8, <2>9 DEF Acts, Thread
<1>4. \A u \in Threads : Reads(u)' => Reads(u)
  BY <1>1, <1>3 DEF Reads
<1> QED
  BY <1>4 DEF Readers, Reads

\* Without anybody waiting for the card, reader_count is positive when there are readers.
LEMMA CountedIn ==
  ASSUME TypeInv, ReadersCounted, MutexInv, lock.reader_mutex = NoThread
  PROVE  lock.reader_count > 0 <=> Readers # {}
<1>1. Waking = {} /\ (Readers = {} => Nested = {})
  BY PowerSaveAssumption DEF MutexInv, Waking, Readers, Nested, At
<1>2. IsFiniteSet(Threads)
  BY PowerSaveAssumption, FS_Union, FS_Singleton DEF Threads
<1>3. Readers \subseteq Threads /\ Nested \subseteq Threads
  BY DEF Readers, Nested
<1>4. IsFiniteSet(Readers) /\ IsFiniteSet(Nested)
  BY <1>2, <1>3, FS_Subset
<1>5. Cardinality(Waking) = 0 /\ Cardinality(Readers) \in Nat /\ Cardinality(Nested) \in Nat
      /\ (Cardinality(Readers) = 0 <=> Readers = {}) /\ (Readers = {} => Cardinality(Nested) = 0)
  BY <1>1, <1>4, FS_EmptySet, FS_CardinalityType
<1>6. PICK a, b : a = Cardinality(Readers) /\ b = Cardinality(Nested)
  OBVIOUS
<1>7. lock.reader_count = a + b + 0
  BY <1>5, <1>6 DEF ReadersCounted
<1>8. a \in Nat /\ b \in Nat /\ (a = 0 <=> Readers = {}) /\ (Readers = {} => b = 0)
  BY <1>5, <1>6
<1> QED
  BY <1>7, <1>8

\* A count of 0 counts no reader.
LEMMA NoCount ==
  ASSUME NEW A, NEW B, NEW C, A \subseteq Threads, B \subseteq Threads, C \subseteq Threads,
         Cardinality(A) + Cardinality(B) + Cardinality(C) = 0
  PROVE  A = {}
<1>1. IsFiniteSet(Threads)
  BY PowerSaveAssumption, FS_Union, FS_Singleton DEF Threads
<1>2. IsFiniteSet(A) /\ IsFiniteSet(B) /\ IsFiniteSet(C)
  BY <1>1, FS_Subset
<1>3. Cardinality(A) \in Nat /\ Cardinality(B) \in Nat /\ Cardinality(C) \in Nat
  BY <1>2, FS_CardinalityType
<1>4. Cardinality(A) = 0
  BY <1>3
<1> QED
  BY <1>2, <1>4, FS_EmptySet

LEMMA NoneCounted ==
  /\ ReadersCounted /\ lock.reader_count = 0 => Readers = {}
  /\ (ReadersCounted /\ lock.reader_count = 0 => Readers = {})'
<1>1. /\ Readers \subseteq Threads /\ Nested \subseteq Threads /\ Waking \subseteq Threads
      /\ Readers' \subseteq Threads /\ Nested' \subseteq Threads /\ Waking' \subseteq Threads
  BY DEF Readers, Nested, Waking
<1>2. ASSUME ReadersCounted, lock.reader_count = 0 PROVE Readers = {}
  <2>1. Cardinality(Readers) + Cardinality(Nested) + Cardinality(Waking) = 0
    BY <1>2 DEF ReadersCounted
  <2> QED
    BY <1>1, <2>1, NoCount
<1>3. ASSUME ReadersCounted', lock'.reader_count = 0 PROVE Readers' = {}
  <2>1. PICK A, B, C : A = Readers' /\ B = Nested' /\ C = Waking'
    OBVIOUS
  <2>2. Cardinality(A) + Cardinality(B) + Cardinality(C) = 0
    BY <1>3, <2>1 DEF ReadersCounted
  <2> QED
    BY <1>1, <2>1, <2>2, NoCount
<1> QED
  BY <1>2, <1>3

LEMMA ExclActs ==
  ASSUME PsInv, ExclInv, NEW t \in Threads, Acts(t)
  PROVE  ExclInv'
<1> USE DEF PsInv
<1>1. drv' = drv /\ core' = core
  BY ActsMove
<1>2. ps_state = "SLEEP" <=> ps_state' = "SLEEP"
  BY SleepStays
<1>3. /\ \A x, n, m : LockIs(x, n, m).rw_lock = x /\ LockIs(x, n, m).held = lock.held
      /\ lock.rw_lock \in 0 .. 1
  BY LockFields DEF LockIs
<1>4. CASE Woken(t)
  <2>1. lock.rw_lock = 1 /\ lock'.rw_lock = 0 /\ lock'.held = lock.held
    BY <1>3, <1>4, LockSteps DEF Woken
  <2> QED
    BY <1>1, <1>2, <2>1 DEF ExclInv
<1>5. CASE os_rwlock_read_lock(t)
  <2>1. lock.reader_count > 0 <=> Readers # {}
    BY <1>5, CountedIn DEF os_rwlock_read_lock
  <2>2. lock'.held = lock.held /\ (lock.held # "stray" => lock'.rw_lock = 0)
    <3>1. CASE lock.reader_count > 0
      <4>1. lock' = LockIs(lock.rw_lock, lock.reader_count + 1, lock.reader_mutex)
        BY <1>5, <3>1, LockSteps
      <4> QED
        BY <1>3, <2>1, <3>1, <4>1 DEF ExclInv
    <3>2. CASE ~(lock.reader_count > 0)
      BY <1>3, <1>5, <3>2, LockSteps
    <3> QED
      BY <3>1, <3>2
  <2>3. ASSUME lock.rw_lock = 0, Readers = {} PROVE Readers' = {}
    <3>1. th'[t].pc = "waking"
      BY <1>5, <2>1, <2>3, MoveOf DEF Now
    <3>2. ~Woken(t)
      BY <1>5 DEF os_rwlock_read_lock, Woken
    <3> QED
      BY <2>3, <3>1, <3>2, ReadersNew
  <2> QED
    BY <1>1, <1>2, <2>2, <2>3 DEF ExclInv
<1>6. CASE os_rwlock_read_unlock(t)
  <2>1. Readers # {}
    BY <1>6 DEF os_rwlock_read_unlock, Readers
  <2>2. [Next]_vars
    BY <1>6 DEF Next, Thread
  <2>3. TypeInv' /\ MutexInv' /\ ReadersCounted'
    BY <2>2, TypeStep, MutexStep, CountStep
  <2>4. lock' = LockIs(IF lock.reader_count = 1 THEN 1 ELSE lock.rw_lock,
                       lock.reader_count - 1, lock.reader_mutex)
    BY <1>6, LockSteps
  <2>5. /\ lock'.rw_lock = IF lock.reader_count = 1 THEN 1 ELSE lock.rw_lock
        /\ lock'.reader_count = lock.reader_count - 1 /\ lock'.reader_mutex = NoThread
        /\ lock'.held = lock.held
    BY <1>6, <2>4 DEF LockIs, os_rwlock_read_unlock
  <2>6. ASSUME lock.reader_count = 1 PROVE Readers' = {}
    <3>1. lock'.reader_count = 0
      BY <2>5, <2>6
    <3> QED
      BY <2>3, <3>1, NoneCounted
  <2>7. lock.held # "stray" => lock.held # "card" /\ lock.rw_lock = 0
    BY <2>1 DEF ExclInv
  <2>8. lock.held # "stray" /\ Readers' # {} => lock'.rw_lock = 0
    BY <2>5, <2>6, <2>7
  <2> QED
    BY <1>1, <1>2, <2>5, <2>7, <2>8 DEF ExclInv
<1>7. CASE ~Woken(t) /\ ~os_rwlock_read_lock(t) /\ ~os_rwlock_read_unlock(t)
  <2>1. Readers' \subseteq Readers
    BY <1>7, ReadersNew
  <2>2. lock'.rw_lock = lock.rw_lock /\ lock'.held = lock.held
    <3>1. CASE WakeTimeout(t)
      BY <1>3, <3>1, LockSteps
    <3>2. CASE ~WakeTimeout(t)
      BY <1>7, <3>2 DEF Acts, Thread, SetSleepCfm, SendData, StartData, StartCommand, StartConfirm,
           wifi_get_command_lock, CheckPreSleep, SendCommand, Answered
    <3> QED
      BY <3>1, <3>2
  <2> QED
    BY <1>1, <1>2, <2>1, <2>2 DEF ExclInv
<1> QED
  BY <1>4, <1>5, <1>6, <1>7

\* An unlock by the driver or the core thread gives back the card's lock, or one that is free;
\* put under readers, it is stray from then on.
LEMMA ExclUnlocks ==
  ASSUME TypeInv, ExclInv, lock' = WriteUnlocked, Readers' = Readers, drv'.pc # "asleep",
         ~(ps_state' = "SLEEP" /\ drv'.pc = "idle" /\ core' = "idle")
  PROVE  ExclInv'
<1>1. lock \in LockType
  BY DEF TypeInv
<1>2. /\ lock'.rw_lock = 1
      /\ lock'.held = IF lock.rw_lock = 1 THEN lock.held
                      ELSE IF lock.held = "card" THEN "no" ELSE "stray"
  BY <1>1 DEF WriteUnlocked, LockType
<1>3. lock'.held # "stray" => Readers = {} /\ lock'.held # "card"
  BY <1>1, <1>2 DEF ExclInv
<1> QED
  BY <1>2, <1>3 DEF ExclInv

LEMMA ExclDriver ==
  ASSUME PsInv, ExclInv, Driver
  PROVE  ExclInv'
<1> USE DEF PsInv
<1>1. Readers' = Readers /\ drv \in DrvType /\ lock \in LockType
  BY OthersLeave DEF Others, Readers, TypeInv
<1>2. CASE DriverTakes
  <2>1. lock' = lock /\ drv'.pc \notin {"asleep", "idle"}
    BY <1>2 DEF DriverTakes
  <2> QED
    BY <1>1, <2>1 DEF ExclInv
<1>3. CASE DriverUnlocks
  <2>1. lock' = WriteUnlocked /\ drv'.pc = "awake"
    BY <1>1, <1>3 DEF DriverUnlocks, DrvType
  <2> QED
    BY <1>1, <2>1, ExclUnlocks
<1>4. CASE DriverSetsAwake
  <2>1. lock' = lock /\ ps_state' = "AWAKE" /\ drv'.pc = "handle"
    BY <1>1, <1>4 DEF DriverSetsAwake, DrvType
  <2> QED
    BY <1>1, <2>1 DEF ExclInv
<1>5. CASE HandleSleep \/ HandleOther \/ HandleResponse
  <2>1. lock' = lock /\ ps_state' # "SLEEP" /\ drv'.pc = "idle"
    BY <1>5 DEF HandleSleep, HandleOther, HandleResponse, NoMsg, SleepInv
  <2> QED
    BY <1>1, <2>1 DEF ExclInv
<1>6. CASE HandleConfirm
  <2>1. /\ lock.rw_lock = 1 /\ lock'.rw_lock = 0
        /\ lock'.held = IF lock.held = "stray" /\ lock.reader_count > 0 THEN "stray" ELSE "card"
    BY <1>1, <1>6 DEF HandleConfirm, WriteLocked, LockType
  <2>2. lock.held # "stray" => Readers = {}
    BY <2>1 DEF ExclInv
  <2>3. ~(lock.reader_count > 0) => Readers = {}
    BY NoneCounted, CountBounded, LockFields
  <2> QED
    BY <1>1, <2>1, <2>2, <2>3 DEF ExclInv
<1>7. CASE DriverSetsSleep
  <2>1. lock' = lock /\ drv.pc = "asleep" /\ drv'.pc # "asleep"
    BY <1>7 DEF DriverSetsSleep, NoMsg
  <2> QED
    BY <1>1, <2>1 DEF ExclInv
<1> QED
  BY <1>2, <1>3, <1>4, <1>5, <1>6, <1>7 DEF Driver

LEMMA ExclCore ==
  ASSUME PsInv, ExclInv, Core
  PROVE  ExclInv'
<1>1. Readers' = Readers /\ drv' = drv /\ TypeInv
  BY OthersLeave DEF PsInv, Others, Readers, Core, CoreReceives, CoreUnlocks, CoreSetsAwake
<1>2. CASE CoreReceives
  BY <1>1, <1>2 DEF CoreReceives, ExclInv
<1>3. CASE CoreUnlocks
  <2>1. drv.pc # "asleep"
    BY <1>3 DEF CoreUnlocks, PsInv, SleepInv, DrvBusy
  <2> QED
    BY <1>1, <1>3, <2>1, ExclUnlocks DEF CoreUnlocks
<1>4. CASE CoreSetsAwake
  BY <1>1, <1>4 DEF CoreSetsAwake, ExclInv
<1> QED
  BY <1>2, <1>3, <1>4 DEF Core

LEMMA ExclStep ==
  ASSUME CardInv, [Next]_vars
  PROVE  ExclInv'
<1>1. PsInv /\ FwInv /\ ExclInv /\ TypeInv
  BY DEF CardInv, PsInv
<1>2. CASE Firmware \/ UNCHANGED vars
  <2>1. UNCHANGED <<th, lock, ps_state, drv, core>>
    BY <1>1, <1>2, FwFirmware DEF vars
  <2> QED
    BY <1>1, <2>1 DEF ExclInv, Readers
<1> QED
  BY <1>1, <1>2, NextIs, ExclActs, ExclDriver, ExclCore DEF Others

LEMMA CardInit ==
  ASSUME Init
  PROVE  CardInv
<1>1. PsInv
  BY PsInit
<1>2. /\ drv.pc = "idle" /\ core = "idle" /\ lock.held = "no"
      /\ ps_state = "AWAKE" /\ fw.power = "awake" /\ \A t \in Threads : th[t] = Rest
  BY DEF Init, NoMsg
<1>3. Readers = {}
  BY <1>2 DEF Readers, Rest
<1> QED
  BY <1>1, <1>2, <1>3 DEF CardInv, FwInv, ExclInv

\* A card that the driver and the firmware agree is asleep has no reader.
LEMMA CardExcludes ==
  ASSUME CardInv
  PROVE  SleepExclusive
<1> SUFFICES ASSUME ps_state = "SLEEP", fw.power = "asleep", lock.held # "stray"
             PROVE  Readers = {}
  BY DEF SleepExclusive
<1>1. PsInv /\ FwInv /\ ExclInv /\ io_events \in Seq(IoEvent) /\ core = "idle"
  BY DEF CardInv, PsInv, TypeInv, FwInv
<1>2. ~InQueue("confirm") /\ ~DrvBusy("confirm")
  BY <1>1, ConfirmUnderWay DEF PsInv
<1>3. io_events = <<>>
  <2>1. SUFFICES ASSUME io_events # <<>> PROVE FALSE
    OBVIOUS
  <2>2. Len(io_events) \in DOMAIN io_events /\ io_events[Len(io_events)] = "confirm"
    BY <1>1, <2>1 DEF FwInv
  <2> QED
    BY <1>2, <2>2 DEF InQueue
<1>4. drv.pc = "idle"
  BY <1>1, <1>2, <1>3 DEF FwInv, DrvSleeps
<1> QED
  BY <1>1, <1>4 DEF ExclInv

\* "Writers acquire the lock in an exclusive manner": whatever the firmware, the network and the
\* threads do, nobody is between lock and unlock while the card sleeps, nested locks included,
\* unless the driver or the core thread has put the lock under its readers.
THEOREM SleepsAlone == Spec => []SleepExclusive
<1>1. Init => CardInv
  BY CardInit
<1>2. CardInv /\ [Next]_vars => CardInv'
  BY PsStep, FwStep, ExclStep DEF CardInv
<1>3. CardInv => SleepExclusive
  BY CardExcludes
<1> QED
  BY <1>1, <1>2, <1>3, PTL DEF Spec
=============================================================================
