# A TLA+ development for the NXP Wi-Fi middleware

The repository is the host side of NXP's Wi-Fi chips on FreeRTOS: the WLAN
connection manager (`wlcmgr/`), the driver (`wifidriver/`), ports to FreeRTOS and
lwIP (`port/`), a DHCP and DNS server for the access-point side (`dhcpd/`), command
lines and tools. This directory holds TLA+ models of the parts where threads,
timers and the firmware interleave, what TLC checks about them, and what TLAPS
proves about them. `PROJECT.json` lists components, runs, mutants, the map from
definitions to source lines, findings, hazards and theorems.

## 1. The system

### Threads

| thread | code | does |
|---|---|---|
| connection manager | `cm_main` (wlan.c) | takes one message at a time from `wlan.events`, runs `handle_message` |
| driver | `wifi_driver_main_loop` (wifi.c) | firmware events and command responses from the queue `io_events` |
| core | `wifi_core_input` (wifi.c) | woken by the card interrupt, reads the bus, queues events and responses, handles received data itself |
| transmit | `wifi_driver_tx` (wifi.c) | with CONFIG_WMM: empties the transmit queues when notified |
| scan | `wifi_scan_input` (wifi.c) | runs a scan, then posts its result to the connection manager |
| timer task | FreeRTOS | DHCP timeout, bad-MIC pause, reorder flush |
| TCP/IP | lwIP | transmits (`low_level_output`), DHCP client callbacks |
| DHCP server | `dhcp_server` (dhcp-server.c) | handles one message at a time until told to halt |
| application | any | API calls: scan, connect, start and stop a network, start and stop the service, ... |

### Components, their state and what makes them correct

**Connection manager, station side.** State: `sta_state` (nine states),
`sta_return_to` and `sta_ipv4_state` beside it, the index of the current network,
counters of rescans and reconnects, flags of reassociation, pause and hidden scan,
the user's scan callback, the binary semaphore `scan_lock`, the event queue.
Operations: one handler per message. Interaction: API calls take the scan lock and
post requests; scan thread, driver events, DHCP and timers post events; handlers
call the driver and wait for it. Hard: events of an earlier attempt arrive in a
later one, the lock is put in one thread and taken in another, failures nest rescans
in reconnects. Correct when: no handler uses an entry of the network list before one was
selected, an attempt always has something that continues it, its end is reported, retries end,
the scan lock has an owner, a connected station has a link.

**Receive reordering.** State: per peer and TID a window of packet pointers, a bitmap,
`start_win`, a timer and flags. Operations: packet, BAR, flush, ADDBA, DELBA, reset,
host sleep. Hard: arithmetic modulo 4096, a timer that must agree with the bitmap, a
callback in another task with locks that are empty functions. Correct when: slot and
number agree, no packet is lost, copied or stuck, order is kept.

**Power save and the command path.** State: the reader-writer lock `sleep_rwlock` (a
binary semaphore, a reader count, a mutex), `ps_state`, the command lock, the response
semaphore. Operations: transmit, command, sleep confirm; PS_SLEEP, PS_AWAKE, responses;
received data. Hard: three threads of equal priority change `ps_state` and the lock in
two steps, the response to a confirm needs a lock that senders hold, the firmware gives
up, received data ends sleep in one thread while the wake-up event ends it in another. Correct
when: the lock is not leaked, the count is exact, nobody transmits to a sleeping card, no
circular wait.

**Micro access point, life cycle, network list.** State: `uap_state` (four states), the index
of the current uAP network, the array of profiles, `wlan.running`, the event queue, the
command lock, the scan lock shared with the station, the steps of `wlan_stop`. Operations:
add and remove a profile, start and stop a network, the messages of `uap_state_machine`,
`wlan_start`, `wlan_stop`. Interaction: a handler sends a command under the command lock and
waits; the driver posts the firmware's event, which is handled after whatever was queued
before it; `wlan_stop` deletes queue and thread under the handler if it does not answer.
Hard: requests overtake the events of earlier ones, profiles go while a start is under way, a
full queue drops events, `wlan_stop` waits without limit for a lock that scans and
connections take. Correct when: the state does not claim an access point the firmware does
not run, every start handled gets a report, `wlan_stop` returns, no lock is held by a thread
that is gone.

**SDIO bus.** State: `mp_wr_bitmap`, `mp_rd_bitmap`, `curr_rd_port`, `txportno`, the copy of
the card's registers, the interrupt, `g_txrx_flag`, `txrx_mutex`. Operations: transmit with
retries, send a command, interrupt, read the registers, take the bitmaps over, aggregated
reads. Hard: both sides rotate through the ports and must stay in step over wraps,
aggregation and failures; bitmaps are replaced as a whole from registers read earlier; an
interrupt that is disabled at the wrong moment is lost. Correct when: a port taken for free
is free, packets come up in the card's order, nothing the card holds is forgotten.

**WMM transmit queues.** State: the pool `outbuf_pool`, per access category a list of
receivers with a queue of buffers and a pause flag, `pkts_queued`, the notification of the
transmit thread. Operations: get or steal a buffer, enqueue, notify, a transmit round,
clients that come and go, pause and resume. Hard: buffers stolen from paused queues, nodes
deleted while a sender holds a buffer for them, counts under several locks, one notification
for many packets. Correct when: buffers and packets are conserved and counted, queues keep
their order, no packet that may go waits for ever.

**DHCP server.** State: the table of clients, `current_ip`, the message and its locals, two
sockets, `dhcpd_mutex`, `dhcpd_running`. Operations: one option, the search for a free
address, the answer; start, stop and the failures of each step. Hard: options in any order
and number, messages that name several addresses, a full table, a search without a limit, a
stop that meets a thread that has not yet bound its control socket. Correct when: it
implements a pool of addresses (`AddressPool`), and closes nothing that a message under way
uses.

**The rest.** `PROJECT.json` lists every component with its status; section 7 gives the
reasons for what is left out.

## 2. Modules

| module | models | how |
|---|---|---|
| `Wlcmgr` | connection manager, station | `w` is the struct `wlan` with the queue, the lock and what is under way below; one operator per C function maps `w` to the `w` it leaves behind; one action per message, API step and environment event |
| `MCWlcmgr` | instance for TLC | symmetry of application threads |
| `WlcmgrProofs` | theorems about `Wlcmgr`: types, network index | one lemma per C function |
| `WlcmgrAttemptProofs` | theorems about `Wlcmgr`: connection attempts | extends `WlcmgrProofs`, one lemma per C function |
| `RxReorder` | one block-ack stream | `t` is the table entry; operators follow the functions of `mlan_11n_rxreorder.c`; a handler is one step |
| `MCRxReorder` | instance for TLC | a view without what only the step's own properties read |
| `RxReorderProofs` | theorems about `RxReorder` | |
| `PowerSave` | sleep handshake, `sleep_rwlock`, command lock | threads with program counters; lock operations are the bodies of `port/os/os.c`; `ps_state` and the lock change in separate steps as in the code |
| `PowerSaveProofs` | theorems about `PowerSave` | |
| `Uap` | micro-AP state machine, network list, `wlan_start` and `wlan_stop`, who has the scan lock | one action per API call, message and step of `wlan_stop`; a handler that sends a command is cut where it waits for the lock and for the response |
| `UapProofs` | theorems about `Uap` | |
| `Sdio` | data ports, interrupt, core thread, transmitter, command port | one action per step under `txrx_mutex`; the card is a set of ports it offers and of packets it holds |
| `SdioProofs` | theorems about `Sdio` | |
| `Wmm` | transmit queues of the micro-AP interface | sender, transmit thread, driver and core thread (pauses) with program counters; each walk over the access categories goes category by category, as the locks do |
| `WmmProofs` | theorems about `Wmm` | |
| `AddressPool` | abstract: what the DHCP server promises | bindings of bounded number, and what clients were told |
| `DhcpServer` | DHCP server | the thread message by message and option by option; the caller of start and stop in steps |
| `MCDhcpServer` | instance for TLC | the lists of options clients send |
| `DhcpServerProofs` | theorems about `DhcpServer`, the refinement included | |

`DhcpServer` implements `AddressPool` (`ImplementsPool`): a binding is an entry of the table,
found as `ac_lookup_mac` finds it, the address a client was told is that of the last
acknowledgement sent in answer to a message that named one address, and a restart of the
server is a restart of the pool. The steps that receive, parse and search are stutters of the
pool, the entry made for an address that was asked for or offered is its `Bind`, the
acknowledgement its `Tell` or, for a client the full table has no room for, its
`TellUnbound`. A message that names several addresses may be acknowledged the last although
only an earlier one was granted (section 4): to its sender the pool then promises nothing
(`Unpromised`), while bindings and what others were promised stand.

Atomicity. In `Wlcmgr` a handler is one step because only `cm_main` runs handlers; the
places where another thread sees a half-done handler (the pause test, the scan thread's
cleanup and post, the API's check, lock and send) are separate steps. In `PowerSave`
every access to shared state that another thread could come between is a step.
`os_rwlock_read_lock` and `os_rwlock_read_unlock` run under `reader_mutex`, which the
model holds across steps only where the code does: while a reader waits for the card. In
`Uap`, `Sdio` and `Wmm` what is done under one lock, without a look at what others change
meanwhile, is a step. In `RxReorder` a handler is one step, which the driver takes for
granted without ensuring it (section 4).

Builds modelled: embedded supplicant, no IPv6, no CONFIG_ROAMING, extended scan. `Sdio` is
the build without CONFIG_WMM, with aggregated reads and a separate command port; `Wmm` the
one with it, without AMSDU. Power save is enabled throughout `PowerSave`
(`ieeeps_enabled` or `deepsleepps_enabled`).

External: the firmware and the card. `FwSleeps`, `FwGivesUp`, `FwAnswers`, `FwWakes` and
`FwReports` of `PowerSave`, `CardSends`, `CardFrees` and `CardAnswers` of `Sdio` state what
the driver's handlers and their comments expect of it; in the other modules it is the choice
of a response (`BssResponse` in `Uap`) or of an event.

## 3. Runs

Passing:

* `wlcmgr_safety` - two threads, two calls, three networks (DHCP, static, uAP), one
  loss, every failure, a queue of four so that it overflows. `OnlyTypeReadEarly`,
  `AttemptHasStimulus`, `AttemptReported`, and the limits in `TypeOK`. Two calls are
  enough for every pair of overlapping requests; the retry limits 2 and 1 let every
  retry happen once and be refused once.
* `wlcmgr_settles` - `AttemptSettles`: rescans and reconnects end.
* `rxreorder` - 8 sequence numbers and a window of 4: the window wraps again and again,
  and packets fall inside it, ahead of it, behind it and at the half-way mark.
  `TableConsistent`, `BufferedArmed`, `Conserved`, `InOrderBetweenWraps`,
  `BufferedLeaves`.
* `powersave` - one transmitter, one sender of commands and `cm_main`, three messages
  between firmware and driver, with everything that may happen: block-acks under the
  lock, a firmware that gives up, incoming data. `ReadersCounted`, `LockOwned`,
  `SleepExclusive`. The last excepts the states after the writer's side has put a semaphore that
  readers hold (`held = "stray"`), which the two findings of section 4 reach, until a confirm finds
  the lock without readers; in all others it holds.
* `powersave_progress` - the same with `May = {}`: `CommandAnswered`, `ReaderWoken`. The run
  `powersave_addba` and the unlocks of section 4 show why `May` is empty here.
* `uap` - two profiles of either kind and a queue of three, so that a second request
  overtakes the event of the first and the queue overflows; scans and connections take the scan
  lock and may keep it; the service is stopped at any moment and started again. `ApRuns`,
  `StartAnswered`, `WlanStopReturns`: `wlan_stop` returns if the scan lock is free again and again.
* `sdio` - four ports, reads of at most two, five packets, one retry, and failing writes,
  reads and register reads: both rotations wrap, and an aggregated read ends at the last
  port. `PortsOffered`, `InCardOrder`, `NothingForgotten`.
* `wmm` - two buffers, two access categories, one client, three packets of which the last may be
  a broadcast, two attempts to find a buffer: a third packet finds the pool empty, and a packet
  of a paused receiver is stolen for it. `BuffersConserved`, `PacketsCounted`, `QueuesInOrder`,
  `NotForgotten`.
* `dhcp` - three clients for a table of two, a subnet of eight addresses, requests for the
  server's own, a free and a foreign address, in `ciaddr`, in options or in both, up to three in one
  message, and every start, stop and failure.
  `TableRespected`, `SocketKept`, `MessageHandled`, `ImplementsPool`.

Violations (each quotes a comment, see `findings`):

* `wlcmgr_connected` - a DHCP success handled after a connect request has taken the
  link down: CONNECTED and SUCCESS without a link.
* `powersave_addba` - ADDBA under the read lock, sleep confirm and its response wait for
  each other.
* `uap_lock` - a start is waiting for its response when `wlan_stop` gives up on `cm_main`
  and deletes it: the command lock stays taken. One slot and a queue of two are enough.

CHECK_DEADLOCK is FALSE where the bounds on calls, losses and packets run out (`wlcmgr_*`,
`wmm`) and where the circular wait of `powersave_addba` really stops the system.

Bounds: `MaxCalls` and `MaxLosses` bound what the application and the network do in one
behaviour, `MaxRx` and `MaxPkts` the packets of one,
`BcastPkts` those that may be broadcasts, `MaxIoEvents` and `MaxMsgs` are queue
capacities, `MaxEvents` and `MAX_EVENTS` the capacity of the connection manager's queue (20
in the code; 4 makes overflow happen, 6 keeps it out of the run about the link).
`MAC_IP_CACHE_SIZE`, `WLAN_MAX_KNOWN_NETWORKS`, `MAX_WMM_BUF_NUM` and `MAX_PORT` are the
code's own limits, made small so that they are reached. `w.lost` and `events.lost` mark
behaviours in which the queue overflowed or memory ran out; the properties about progress
exclude them, since the code makes no attempt to recover from either.

Mutants: each property of a passing run has a mutated definition under which it fails
(names with a suffix, next to the definition they replace).

## 4. Where code and comments disagree

Three disagreements have a run (above). The others were met while modelling; they are
reachable in the modules or were reached with a variant that is not kept, and are described
with their lines under `findings`:

* the scan lock is put back when a rescan has just been started, so that two user scans
  overlap and the station stays in SCANNING_USER;
* a reassociation that overlaps a DHCP success returns before the scan lock is put back;
* a scan request accepted by `wlan_scan` and dropped by `cm_main` never calls back;
* `wlan_disconnect` before the first connect makes its handler read `networks[-1].type`;
* a reorder window that moves across 0 hands up packets that lie after numbers it waits for;
* the locks of the receive path are empty functions: a flush callback preempted in the timer
  task goes on with a window that has moved;
* PS_AWAKE in PRE_SLEEP releases a write lock nobody holds, after which a transmitter and a
  sleeping card can hold the lock together;
* data received while PS_AWAKE is queued: core thread and driver both release the write lock,
  with the same result;
* `wlan_remove_network` removes a network in CM_UAP_STARTED, which the header excludes;
* `wlan_stop` leaves an access point running whose UAP_STARTED is still in the queue;
* the DHCP server acknowledges an address it has no room to record, and then to another;
* a DHCP message that names several addresses is acknowledged the last if an earlier one was
  granted: an address outside the subnet to a client of the table or, with the table full,
  the address of another client or of the server;
* the search for an address never ends in a subnet with no more addresses for clients than the
  table has entries, when they are all taken;
* a packet and a command are copied into one `outbuf`, the packet outside the bus mutex;
* `wlan_ralist_add_enh` walks the receiver list without the lock under which nodes are freed.

## 5. Fairness

`Wlcmgr`: weak fairness of `cm_main`, the scan thread and the timers (threads that are
ready run; the firmware ends every scan; timers expire), strong fairness of taking
the scan lock (FreeRTOS queues waiters). None for the application or for link losses.
`RxReorder`: weak fairness of the flush timer only; traffic is not assumed to stop.
`PowerSave`: strong fairness of each thread and of the response that waits for the write
lock (a FreeRTOS semaphore goes to the waiter of highest priority, the driver), weak
fairness of the driver and core, and a firmware that answers commands and wakes for a
reader that waits. Nothing makes the firmware sleep, give up or report.
With two transmitters the lock's preference for readers can keep the writer out for ever,
which no fairness of the code excludes; the modelled build transmits from one thread.
`Uap`: weak fairness of `cm_main`, of the steps of a `wlan_stop` that has begun, and of the
firmware's answer (`wifi_wait_for_cmdresp` asserts when a command is not answered within
20 s), and strong fairness of getting the scan lock (FreeRTOS queues waiters, and the others
that wait found the service running before `wlan_stop` cleared it). None for the application
nor for putting the scan lock: the reassociation of section 4 and a connect or scan request
that meets a full queue leave it taken, so `WlanStopReturns` has its return as an
explicit premise. `DhcpServer`: weak fairness of the thread while it handles a
message, which nothing stops. `Sdio` and `Wmm` state no fairness: what must not be forgotten
there is stated as an invariant (`NothingForgotten`, `NotForgotten`), which says who will act
and not only that somebody does.

## 6. Proofs

TLAPS proves, for all values of the constants that satisfy the named assumptions:

* `WlcmgrProofs!TypeCorrect`, `Spec => []TypeOK`. The lemmas give the type of each handler;
  the counters need their guards (`scan_count` grows only below the limit).
* `WlcmgrProofs!IndexSafe`, `Spec => []OnlyTypeReadEarly`. `EarlyReads` lists what each handler
  reads of `networks[-1]` in the state it meets. The property is not inductive by
  itself. The invariant `IndexInv` splits the states: either a network is `Selected`, which
  no step undoes, or the state is `Unselected`: idle or scanning for a user, with queued
  messages only of kinds that need no network then, and no thread inside a reassociation. Each
  handler is shown to map `Selected` to `Selected` and `Unselected` to one of the two; that the
  disconnect handler may find either type in `networks[-1]` is a choice in its action.
* `WlcmgrAttemptProofs!NoAttemptHangs`, `Spec => []AttemptHasStimulus`, and `EndIsReported`,
  `Spec => AttemptReported`. The stimulus alone is not inductive: a user scan restores
  `sta_return_to`, which would bring back a state whose stimulus is gone. `AttemptInv` adds that
  `sta_return_to` is idle, connected or a user scan, so that no attempt is ever hidden behind one.
  The message in hand has left the queue, so the lemmas about handlers start from `Stimulus(s, e)`,
  which excuses the state that waits for `e`, and show `Fine(s, r)`: the stimulus is back, and
  the end of an attempt was reported. Every failure path ends in `do_connect_failed` and
  `Reconnect`, which leave the station idle with a failure reported or scanning with a scan under
  way (`Ended`); the steps of application, driver and timers leave the state and what it waits
  for (`Stays`).
* `PowerSaveProofs!TypeCorrect`, `CountExact` and `NeverLeaked`, from `PsInv`, whatever the
  firmware may do. The count is exact because a reader that waits for the card holds
  `reader_mutex` (`MutexInv`). That the lock has an owner needs the whole handshake: only the
  holder of the command lock has a response under way, and one at most (`FlightInv`); a confirm
  that is not yet answered excludes the state SLEEP (`SleepInv`); so the confirm takes the lock
  only when nobody is about to declare the card awake, and who is about to has put it (`OwnInv`).
* `PowerSaveProofs!SleepsAlone`, `Spec => []SleepExclusive`, whatever the firmware, the network and
  the threads do. `CardInv` adds two parts to `PsInv`. `FwInv`: while the firmware sleeps, the last
  message it sent is its answer to the confirm, still queued or in the driver's hands, or handled
  with `ps_state` SLEEP, and the core thread, which data would wake, rests. `ExclInv`: unless the
  lock was put under its readers, it is the readers' or the card's (`held`), and it is the card's
  when the driver believes the card asleep and nobody is about to end that.
* `WmmProofs!TypeCorrect`, `NoBufferLost`, `CountsExact`, `InOrder` and `NoneForgotten`, from
  `WmmInv`. `BufInv`: a buffer is in a queue, at one position only, exactly when it is neither
  free nor the sender's; `SndInv` says where the sender has one. `CountInv` counts buffers, not
  positions: since no buffer is twice in the lists the two agree, by a bijection, and a count
  changes by one with the set. `OrderInv` needs that the packet in the sender's hands is newer
  than all that are queued, `RoundInv` that the transmit thread's round goes down the categories,
  so that a category it has passed needs a notification and one it has not does not. The lemmas
  about lists say what a pop, a push, a removal and a new node do to the buffers in them.
* `RxReorderProofs!ReorderTypes`, `SlotsAlwaysMatch` and `WaitingIsTimed`, from the inductive
  invariant `SoundInv` (types, slots that match, bitmap equal to the slots in use, timer
  set iff something waits, no entry without content when absent). The core is that
  rotation by the distance the window moves keeps slot and number together, by cases of
  the wrap; it needs `WinSize >= 2` and `2 * WinSize <= SeqMod`.
* `UapProofs!UapTypes`, `ApAlwaysRuns` and `StartAlwaysAnswered`, from `UapInv`. `ApRuns` alone
  is not inductive: between a command and the state that follows it `uap_state` says nothing
  about the firmware. `LockInv` ties the place of `cm_main` to the command lock and the command
  the firmware has, so that a response is always the holder's; `LifeInv` says that a service
  that runs has a queue and no `wlan_stop` under way; `RunInv` that a good response to a start
  finds the firmware on, and that with a lost lock the state stays where it was; `ReportInv`
  that the event the state waits for is in the queue.
* `DhcpServerProofs!DhcpTypes`, `TableAlwaysRespected`, `SocketsAlwaysKept` and
  `ServerImplementsPool`, from `DhcpInv`. `TableInv`: no client and no address is in the table
  twice, so a lookup has one answer; `JobInv`: an acknowledgement in preparation for a message
  with one address (`one`) fits the table, over any sequence of options; `ToldInv`: so does what
  clients were told in answer to such messages, and a client without an entry means a full
  table, which stays full; `LifeInv`: the mutex covers the socket while a message is handled.
  For the refinement each action is shown to be a step of `AddressPool` or a stutter; the
  fairness of `DhcpServer` is not needed.
* `SdioProofs!SdioTypes`, `PortsAlwaysOffered`, `AlwaysInCardOrder` and `NothingEverForgotten`,
  from `SdioInv`. `WriteInv`: registers are used in the critical section they were read in, so
  what they offer is still offered. `RotInv`: seen from `curr_rd_port`, the packets the card
  holds are at distances 0, 1, 2, ... in the order it sent them, and each bitmap names the
  first few of them; a read of n ports takes n packets from the front and shortens every
  distance by n, around the end. The lemma `RdPortsIs` gives what `wlan_get_rd_port` chooses.
  `IntInv` and `AnnouncedInv` say who acts next for a packet or an answer; that the thread does
  not stop reading too early follows from `RotInv`, since a bitmap that is not empty has the
  port the rotation is at.

Assumptions: `WlcmgrAssumption`, `NoOneAssumption`, `RxReorderAssumption`, `UapAssumption`,
`DhcpServerAssumption`, `SdioAssumption`, `PowerSaveAssumption`, `WmmAssumption`. A window of one
slot and one of 64 are excluded, as the code does not handle them; the driver's default
is 32.

Only model-checked: everything temporal beyond invariants and the refinement
(`AttemptSettles`, `BufferedLeaves`, `CommandAnswered`, `ReaderWoken`, `WlanStopReturns`,
`MessageHandled`: liveness is out of the prover's reach); `Conserved` and `InOrderBetweenWraps`,
action properties of `RxReorder` about the sequences a step hands up. Every invariant of a
passing run is proved.

## 7. Not modelled

* Some 464,000 of the repository's 580,000 lines are firmware images, kept as arrays in
  headers; nothing of them is a program here. Certificates, regulatory tables and manifests
  are data as well, and about 31,000 lines are declarations in other headers.
* Formatting and parsing of commands, TLVs and information elements: one-pass code without
  state, whose correctness is that of offsets and lengths. The handlers that call it are
  modelled with the outcome as a choice.
* Firmware download, `wlan_init` and `wlan_deinit`: sequential bus I/O before the threads
  exist or after they are gone.
* DNS server, command lines, iperf, ping: no state between requests, or callers of the API.
* 11k, 11v, 11r, MBO, WPS, roaming, IPv6 and the wpa_supplicant interface: off in the builds
  modelled; the host supplicant is not part of the repository.
* SD8801's shared command port, host sleep requests, the station interface's single receiver
  in the WMM queues, AMSDU, aggregated writes: variants of what is modelled.
* The transmit block-ack table, shared by transmitter and driver without a lock that works
  (as in section 4 for the receive side); its ADDBA request under the sleep lock is part of
  `PowerSave`. The scan table (replacement and ageing) and split scan with power save.

## 8. Plan

1. `Conserved` and `InOrderBetweenWraps` of `RxReorder`: what a step hands up is a
   concatenation of slots, which needs lemmas about counting in concatenations.
2. The transmit block-ack table, its ADDBA and DELBA exchanges and its deletion by events;
   split scan with power save.
3. An abstract connection (disconnected, connecting, connected, with its reports) that
   `Wlcmgr` implements outside the violations.
