# A verification of p-net in TLA+

p-net is a PROFINET device stack in C: it lets a device be found, named,
connected, parameterised and read by a controller, and exchanges cyclic data and
alarms with it. This directory holds TLA+ models of its components, the TLC
instances that check them, and proofs that TLAPS checks. The models are
translated from the code in `src/`; every definition that models code is listed
with its lines under `map` in `PROJECT.json`.

1. [The system](#1-the-system)
2. [Modules](#2-modules)
3. [Runs](#3-runs)
4. [What the code does that its documentation excludes](#4-disagreements)
5. [Proofs](#5-proofs)
6. [What is not modelled](#6-what-is-not-modelled)
7. [Plan](#7-plan)

Paths are relative to the repository: `src/common/...` and `src/device/...` lie
in its directory `src`.

## 1. The system

Two or more threads run the stack. The *main thread* calls
`pnet_handle_periodic` in every cycle: it reads RPC packets, runs the alarm
machines and then the timers (`pf_scheduler_tick`), whose callbacks do the rest;
the application's calls and the callbacks to it run there too. The *Ethernet
thread* (`pf_eth_recv`) dispatches frames by their frame id: it hands cyclic data
to the consumers, puts alarm frames into queues and handles DCP and LLDP itself.
A *background thread* (`pf_bg_worker`) writes files. There are few locks: one
for the timer pool, one for the buffers of each cyclic relation, one for LLDP,
one in each alarm queue; the rest relies on who calls what.

| Component | State | Operations | Interacts with | What is hard | What makes it correct |
|---|---|---|---|---|---|
| Timer pool `pf_scheduler` | array of slots in a free and a busy list, a handle per timer | add, remove, restart, tick | everybody's callbacks; called from every thread | slots and handles change outside the mutex; the clock wraps; the pool runs out | no slot lost or shared; a handle tells what is scheduled; timers fire in order, not early, and at all |
| RPC `pf_cmrpc` | sessions, AR records | packets: Connect, Control, Release, Read, Write, Fault; CControl request with resending; release of ARs | `pf_cmdev` for every request | repeated, crossing and foreign messages; memory cleared while others point to it | sessions and ARs point to each other; a lost answer does no harm |
| Device machine `pf_cmdev` | state of the connection; slots, subslots and their owners | events from RPC, application and machines; plug and pull | drives all machines of an AR | order of messages, events, aborts | its machines advance together; nothing is left of an ended AR |
| `pf_cmsu`, `pf_cmio`, `pf_cmsm`, `pf_cmwrr`, `pf_cmpbe` | one state each, two timers | events from `pf_cmdev` | start and stop cyclic data and alarms | each ignores events in the wrong state | supervised from Connect to data exchange; polled while data is awaited |
| Consumer `pf_cpm` | state, data hold time, double buffer | activate, frame, control interval, close | frame map, scheduler, `pf_cmio` | frames on another thread while the AR is closed | a silent controller is noticed; the application reads whole and fresh data |
| Provider `pf_ppm` | state, cycle counter, buffer, transmit list | activate, periodic send, set data, close | scheduler, Ethernet | sending fails; data changes while it is sent | data of one instant, counter never backwards |
| Alarms `pf_alarm` | four machines per priority, send and receive queues, one retained frame, a timer | send, receive, acknowledge, time out | AR abort, application | loss, retransmission, both directions at once, full queues | each alarm reaches the other side once, in order, and is confirmed |
| Frame dispatch `pf_eth` | map from frame id to handler | add, remove, dispatch | consumers, alarms, DCP | changed while searched | a frame goes to a live handler |
| Diagnosis `pf_diag` | item lists in one array | add, update, remove | alarms, problem indicator | list surgery, a full array | lists are disjoint and lose no item; the flags and the indicator tell the truth |
| Name and address `pf_cmina`, `pf_dcp` | permanent and temporary settings, a state | Set, Get, Identify, factory reset | files, AR abort, scheduler | a crash between change and save; requests while connected | after a restart: what was set permanently and only that |
| Neighbours `pf_lldp`, `pf_pdport`, `pf_port` | peer information and timer per port, expected peer, link state | frame, timeout, link poll, write record | diagnosis, DCP, SNMP | a timer shared by threads | a mismatch is reported while it lasts |
| Files `pf_bg_worker`, `pf_file` | event bits, stored bytes | start job, save, load | `pf_cmina`, `pf_fspm`, `pf_pdport` | a change during a save, a crash | the last value is saved in the end |
| I&M and log `pf_fspm` | identification records, log ring | write, read, log | files, RPC | limits | the log keeps the latest entries |
| Records `pf_cmrdr`, blocks `pf_block_*` | none | read, format, parse | RPC | - | conversion only |

The hazards found in this code, each with its line and the properties that look
at it, are listed under `hazards` in `PROJECT.json`.

## 2. Modules

| Module | Models | Extended by |
|---|---|---|
| `Scheduler` | `pf_scheduler.c` | `MCScheduler`, `SchedulerProofs` |
| `Connection` | RPC sessions, the AR and its machines, consumers' timers | `MCConnection`, `ConnectionProofs`, `ConnectionOrder` |
| `Lifecycle` | what a controller and an application may rely on about a connection (abstract) | `Connection` (by `INSTANCE`) |
| `Alarm` | `pf_alarm.c`: the alarm channel of an AR | `MCAlarm`, `AlarmProofs` |
| `AlarmService` | what the sender of alarms in one direction may rely on (abstract) | `Alarm` (by `INSTANCE`) |
| `CycleCounter` | the counter of cyclic frames: how it advances and how it is checked | `Consumer`, `Provider` |
| `Consumer` | `pf_cpm.c`, `pf_cpm_driver_sw.c`: a consumer of cyclic data | `MCCyclic`, `CyclicProofs` |
| `Provider` | `pf_ppm.c`, `pf_ppm_driver_sw.c`: the sending of cyclic data | `MCCyclic`, `CyclicProofs` |
| `Plug` | slots and subslots of `pf_cmdev.c`, the module difference, plug and pull | `MCDevice`, `DeviceProofs` |
| `Diagnosis` | `pf_diag.c`: the diagnosis lists | `MCDevice`, `DeviceProofs` |
| `Peers` | `pf_lldp.c`, `pf_pdport.c`: the neighbour at a port and its check | `MCDevice`, `DeviceProofs` |
| `Station` | `pf_cmina.c`, Set of `pf_dcp.c`, I&M of `pf_fspm.c`, `pf_bg_worker.c`, `pf_file.c` | `MCStation`, `StationProofs` |
| `Fragments` | requests and answers in several frames: `pf_cmrpc_dce_packet`, `pf_cmrpc_send_with_timeout` | `MCDevice`, `MCFragments`, `FragmentsProofs` |

### Scheduler

The free and the busy list are sequences of slots (`free`, `busy`), a slot holds
`in_use`, the timer's name, its argument and its expiry time; `handle[h]` is the
`timer_index` in a caller's handle. A step is a region that runs under
`scheduler_timeout_mutex`, or one group of assignments outside it:
`pf_scheduler_add` is `AddCall`, `AddNow` (reads the clock, before the lock),
`AddTake` (first locked region), `AddFlag` and `AddFill` (the slot is filled
without the lock, `in_use` before the name), `AddLink` (second locked region) and
`AddReturn` (the handle is written after the unlock). `pf_scheduler_tick` is
`TickStart`, `TickPop` (unlinks and frees the expired slot under the lock),
`Callback` (begins, without the lock, by resetting the handle) and `TickEnd`;
between them the main thread may call the scheduler as a callback does.

The clock counts absolutely and the code's view of it is taken modulo `M` (2^32
in the code), compared as a signed number. `Discipline` says how the stack uses
the pool: a timer is added and removed by the main thread only, or belongs to
another thread that never stops it (the delayed answer to a DCP Identify, added
by the Ethernet thread). The LLDP peer timer does neither: `Peers` has the handle
that goes astray (section 4). The main thread adds only timers whose handle is stopped; the resend timer
of `pf_alarm.c` is the exception, which `Alarm` looks at.

### Connection

The AR record, the session array, the scheduled callbacks of the AR and the frame
handlers. A handler of the main thread (a packet, a callback, a call of the
application) is one step, written as a composition of functions on one record
`Dev` of everything such a handler changes: `StateInd` is
`pf_cmdev_state_ind` with the five machines in their order, `Abort` the event
that ends an AR, `CloseConsumers`, `ClearAr` (the `memset` of
`pf_ar_release`), `Kill` (`pf_session_release`). A cyclic frame is three steps of
the Ethernet thread: `FrameStart`, `FrameData`, `FrameEnd`.

- One AR record is enough: `pf_cmrpc.c:1925` refuses every AREP but 1, and the
  second record lives only inside one Connect handler.
- Clearing a record does not stop a timer whose handle was in it. A timer is kept
  as `named` (the slot the handle names) and `lost` (slots no handle names).
- `halted`: the Ethernet thread has followed the null `p_ar` of a cleared CR.
- The CMSM timer is restarted by a Read or a Write; a restarted timer is a running
  timer, so these are steps that change nothing here.

What the controllers may do is a set of constants: `Uses` (the activities on
which requests about an AR come), `Implicit` (those on which Read Implicit comes),
`Garbled`, `SilentRefusal`, `StartMayFail`. The invariants proved hold for all
their values; those that need controllers which keep to their activities are
checked under that discipline.

`Lifecycle` is the connection as the comments on `pf_cmdev_state_values` in
`src/pf_types.h` describe it: opened for one AR UUID, parameterised, ready,
confirmed, in data exchange, ended from any state. `Connection` implements it
(`KeepsPromise`) under the mapping `Phase`.

### Fragments

The session of one activity as a pair of buffers: `in` with the number `inNbr` of the
fragment expected, `out` with `len`, `sentPos`, `sendLen` and `nbr`, and the resend
timer with the resends `left`. A frame that arrives is one step, by its kind:
`TakePart` (a fragment that is not the last is kept and acknowledged), `TakeWhole` (a
request is complete, and answered), `TakeAck` (the next fragment is moved to the start
of `out` and sent), `TakePing`; `Timeout` sends the fragment again or gives up, and
`ArEnds` is what ends the session from outside. A byte is a pair of the call it
belongs to and its place in it, so that a mixture can be seen; the header counts as
`Header` bytes of `out`. The controller is external: it sends a request fragment by
fragment, repeats what is not acknowledged, acknowledges the fragments of the answer,
gives up and goes on with the next request; the link keeps the order and loses frames.
`ran` is what the handler of the request was given last. `disturbed` says that somebody
sent again although a frame was still under way, or that there was a ping or an end of
the session: an acknowledgement carries no number that the code would look at, so that
one given twice acknowledges a fragment that was lost.

What a request does is `Connection`'s, where a session handles one message at a time;
the device's own requests (CControl) are assumed to fit into one frame.

### Alarm

`ap[p]` holds the four machines of priority `p` (`apmx[p]`, `alpmx[p]`): APMS with
the retained frame `rta` and the resends `left`, APMR with the expected numbers,
ALPMI, ALPMR. A handler of the main thread is a function on `Dev` again: `DataReq`
(`pf_alarm_apms_apms_a_data_req`), `TackInd` (the acknowledgement that any DATA or
TACK frame carries), `DataInd` and `Accepted` (`pf_alarm_apmr_a_data_ind`), `Close`
(an error ends the AR, whose record is then cleared). Steps: `Fetch` (one frame of
the receive queue), `Almpi` (one alarm of a send queue, in every cycle),
`ApmsTimeout`, `AppSend`, `AppAck`, and `Activate`, `Enable`, `End` for what
`Connection` does to the alarm machines. A frame of the controller is put into the
receive queue as the Ethernet thread does it, or lost when the queue is full.

- The resend timer is never stopped by an acknowledgement, and a new one is started
  under the same handle: `timer[p]` counts, as in `Connection`, the `named` one and
  the `lost` ones. An orphan that fires acts for whatever frame is retained then,
  and resets the handle of the running timer.
- `halted`: `DataReq` in the wrong state has indicated its first error, which
  cleared the AR, and follows the null `p_alpmx`.
- The controller (`ctl`) is external: it sends each frame until it is acknowledged,
  acknowledges and answers what it gets, and gives up after the same number of
  resends. The link loses frames, in both directions, and keeps their order.
  `Strays` replaces it by one that sends any frames.
- `Sends`, `CtlSends` name the priorities at which the two sides send alarms;
  `Eager`, whether the application uses both directions at the same time;
  `SendMayFail`, whether sending a frame can fail.
- Buffers and timer slots are assumed to be available; numbers of alarms
  (`sequence_number`), payloads and the diagnosis summary are left out.

`AlarmService` is a confirmed first-in first-out channel: an alarm is indicated once,
in order, and the next only after the answer to it was confirmed.
`ProcessAlarmsReach` and `AlarmsReachApplication` say that the channel of high
priority from the application and from the controller implements it.

### CycleCounter, Consumer, Provider

A consumer is used by two threads, and only the exchange of its buffers is locked.
A frame is therefore five steps of the Ethernet thread (`Arrive`, `Enter`, `PutBuf`,
`SetPos`, `Update`), the control interval is `TimerLoad` and
`TimerStore`, since `dht++` is not atomic, reading is `GetBuf` and `Copy`, and
closing `CloseState` and `CloseDriver`. A frame is its number in the order of
sending, its cycle counter that number modulo `CycleMod`; frames are lost, repeated
and late. `last`, `got` and `starved` record what happened; `crossed` that the timer
has overwritten a reset of `dht`, `raced` that the consumer was closed inside the
frame handler, which then works on freed buffers: a behaviour ends there.

`Provider` is the timer callback (`Periodic`, with `SendFrame` when it is due),
which may send, fail to send or find no timer; activation and closing. Its clock
wraps, its deadline advances by the control interval whatever happens, and
`Sanitized` is the rounding of `pf_scheduler_sanitize_delay`.

### Plug

`slots` is `apis[0].slots[]` with the subslots in it, `owned` says whether the API
points to the AR, `ar` holds what the AR record knows of modules: the expected ones,
whether alarms are enabled, and the difference block, which is generated over the one
before it (`Generate`, entry by entry as in `pf_cmdev_generate_submodule_diff`).
`ConnectAccepted` and `ConnectRefused` are `pf_cmdev_exp_apis_configure` with the
answers of the application to the requests to plug; a refusal keeps what was claimed
until then. `Aborted` clears the owners (`pf_device_clear`); `EventAbort` ends the
AR without that, as the paths do that only raise the event. `view` is what the
controller may believe of each submodule from the messages it was sent: the
difference block at Connect and the alarms, if they were queued.

### Diagnosis

`item` is the array, `spare` and `head` the lists in it, by index as in the code;
`Listed` is what a list holds: the items of every set that has its first and is closed
under the links, so that a list that is broken or goes round has a meaning too.
Adding and updating are one step, under `diag_mutex`; a removal leaves the mutex
after `RemoveDiag` has unlinked the item, and `ReadFlags`, `GiveFlags` and `FreeItem`
follow without it. Removals are made by the main thread and, by a DCP reset, by the
Ethernet thread at the ports. When one thread changes what the other has read outside
the mutex the lists may become anything: `clashed`, and the behaviour ends.

### Peers

One port: `check` and `updated` of `pdport`, the peer's `info` and timer of `lldp`,
the diagnoses of the port (`diag`). The Ethernet thread restarts the timer (`Frame`),
stores (`Store`) and indicates (`Indicate`); the main thread fires the timer, watches
the link, clears the flag (`Periodic`) and checks: each of the three checks looks at
the peer under the mutex of LLDP (`Look`) and changes its diagnosis after that
(`Judge`). A controller writes a check, a Connect resets it, and so does a DCP reset
on the Ethernet thread; `Save` and `PowerCycle` keep it over a restart.

### Station

`nv` and `cur` are the permanent and the current name and address. The Ethernet
thread takes a DCP frame block by block (`Receive`, `Block`) and then commits; the
main thread resets and writes I&M data, which it saves itself; the worker saves what
the `events` tell it, file by file and step by step (`LoadAse`, `CompareAse`, which
empties a file it is going to write, `WriteName`, `WriteAddr`). What
`pf_cmina_save_ase` writes is not the copy it took under the mutex but the record
itself, so that other threads get between the name and the address. `Crash` stops
the program at any point and starts it again with the files as they are; a file that
is empty or incomplete counts as none. Start-up is `Booted`, then the saving of the
I&M data by the main thread (`pf_fspm_init`), then `CminaInit`.

## 3. Runs

| Run | Question | Instance |
|---|---|---|
| `scheduler` | Do lists, handles and callbacks stay right in every interleaving of two threads, over a wraparound of the clock and an exhausted pool? | 3 slots, 2 threads, 3 timers (two share a name), `M` = 7, delays 1..2, lateness 1, start at 5: the clock wraps at 7 |
| `scheduler_live` | Does every started timer fire or get removed? | the same with 2 slots |
| `connection` | Do the machines agree, is nothing left of an ended AR, is the connection the promised one, does it end or reach data exchange when the controller falls silent? | 3 sessions, 2 controllers with an activity each, a third that reads implicitly, 2 consumers, 2 sequence numbers, 1 resend |
| `connection_any` | What holds whatever comes? | any request on any activity for any AR, malformed Connects, refusals and failing starts; 1 consumer |
| `alarm` | Do the process alarms of the application and the alarms of the controller arrive once, in order, confirmed, and is each answered or the connection ended? | 2 alarms, queues of 1, 1 resend, numbers modulo 3, 1 frame on the link, 1 orphaned timer |
| `alarm_any` | Do the machines of a priority agree on the retained frame whatever the controller sends? | any frame of any kind and numbers at both priorities, sending may fail, an eager application |
| `cyclic` | Does no buffer get lost or shared, is the newest frame at hand, does data only move forward, is a silent controller noticed in time and a live one not; does the provider always send again, and in time? | 3 buffers, counters modulo 5 with a window of 3, frames late by 1, 6 frames, data hold 2; clock modulo 64, tick 4, interval 8, up to 24 behind |
| `device` | Does the controller know what is plugged, and does the connection own it; are the diagnosis lists and flags right; does the port's diagnosis say what the peer is; are long requests and answers put together from their own frames? | 2 slots with 1 subslot, 2 ident numbers; 3 items, 2 subslots (1 of a port), 2 keys, 3 severities; 3 peers, 2 of them wanted, 1 stray timer; requests of 1 to 4 fragments, 3 of which fit, answers of 1 and 2 frames, 2 sequence numbers, 2 sendings, 2 frames on the link |
| `station` | Do name, address and I&M data get into their files, whatever is set meanwhile and wherever power fails? | 2 names, 2 addresses, 1 I&M record, 1 block in a frame, 2 changes, 1 crash, 1 failed write |

The runs that expect a violation are in section 4.

**Bounds.** Two timers of the same name and one of another thread are the least
with which a stale handle can hit somebody else's slot; three slots let all be
busy at once and two exhaust the pool. `M` need only exceed twice the largest
delay plus lateness (`ClockAssumption`), which the code's clock does by far.
`MaxTime` bounds the exploration: calls begin only while they can expire before
it. Three sessions are what one AR, its CControl request and one other
activity need; with every further activity the sessions run out, which is
explored. Two ARs UUIDs and two activities suffice for a foreign message; a third
would be handled like the second. `MaxLost` bounds the orphaned timers: a new
Connect is explored only while fewer are left. Two sequence numbers tell a
repeated Control request from a new one. In `Alarm` the window is one frame, so
that numbers modulo 3 tell the frame expected, the one before and another (modulo 2
the number in an old retained frame acknowledges a new one); one resend is the
first and the last; a queue of one overflows, and together with the retained frame
holds two alarms in their order; the numbers
0xffff and 0xfffe before the first frame are modelled apart. `MaxLost` bounds the
orphaned resend timers when a new frame is sent.

In `Consumer` each thread holds a buffer and one is with the consumer: three buffers
are all there is to exchange, and with them the frame handler runs out of buffers,
as in the code. Counters modulo 5 with a window of 3 leave one number that is too
late, as many as frames may be late; six frames wrap the counter. The clock of
`Provider` is large enough for the delays and a provider that is three intervals
behind (`ProviderAssumption`). In `Plug` two slots are needed for entries of the
difference block that overwrite each other, in `Diagnosis` two keys and three items
for an unlinking in the middle of a list and a full array. Of the peers, the name of
one station is the beginning of the other's, and one has no name. In `Station` two
changes are one during a save and one after it, and a crash or a failed write can
fall into each. In `Fragments` frames of 4 bytes with a header of 1 keep the numbers
small; a request of 3 fragments is the least that can be made up of two others, and
one of 4 does not fit; two sequence numbers tell an answer from that of the request
before, and a number is used again when nothing of its call is left. `MCCyclic` and `MCDevice` hold components that share no state: a
behaviour moves one of them while the others are as they were created.

**Fairness.** `Scheduler`: a thread inside `pf_scheduler_add` finishes (weak
fairness of its step; the mutex is held for bounded time), time passes and the
tick goes on (strong fairness, since calls in progress disable both for a
moment): `pnet_handle_periodic` runs the tick in every cycle. `Connection`: the
CMSM timer, if nobody stops it, expires. No message and no other timer is
assumed to come. `Alarm`: the main thread, which drains the receive queues, runs
ALPMI and the timers in every cycle, goes on, and the controller keeps to its
protocol; the link may lose every frame, and the application may never answer.
`Station`: the worker's thread runs (`Worker`), and a start-up reaches its end
(`Starting`). The other modules need none.

**Deadlock** is checked in `station`. Elsewhere a behaviour may stop: at the time
bound of `Scheduler`, when the stack has halted, after a clash or a race.

## 4. Disagreements

Each is a run that expects TLC to find the violation of a sentence the repository
says of the program; `findings` in `PROJECT.json` quotes both sides.

- `alarm_null`: an application that answers an alarm of the controller while an alarm
  of its own is unacknowledged ends the connection, and then the stack follows a
  pointer of the cleared AR.
- `cyclic_offset`: the position of the payload is written after the buffers were
  exchanged, outside the lock: the application reads a frame with the position of
  the one before, four bytes off if only one of them has a VLAN tag.
- `fragments_long`: the position in the answer advances by the header of each fragment
  too, which is not part of the answer after the first: from the third fragment on 80
  bytes are skipped, and the controller cannot know.

Seen while modelling, without a run of its own. Of connections:

- A connection enters data exchange although a consumer's monitoring has already
  ended (`pf_cmdev.c:5069` looks at a `ready_4_data` that is up to a poll old).
- A Read Implicit on the activity of an AR's session frees that session.
- A Connect that fails while its consumers are started leaves timers and frame
  handlers that point into the cleared AR.
- A Connect that the application refuses without error information
  (`pf_cmdev.c:4755`) leaves an AR in `W_CIND` allocated, and no timer ends it.
- A failed Connect leaves the sending of LLDP disabled that it has reset.

- An answer whose last frame is full (1440 bytes in all, or 1360 left) never gets a
  fragment that is marked as the last (`pf_cmrpc.c:4530`, `4651`).
- The number in the acknowledgement of a fragment is not looked at: one that was sent
  again too early is acknowledged twice, and the next one not sent again if it is lost.
- A ping between two fragments of an answer clears the answer (`pf_cmrpc.c:4371`).
- A Read Implicit with an answer of several frames loses its session after the first
  (`pf_cmrpc.c:3624`); the acknowledgement gets a new session, which nobody ends.
- A later fragment for which there is no session gets one that nobody finds again.
- When a fragment is not acknowledged and its session has no AR, the resend timer
  follows a null pointer (`pf_cmrpc.c:1079`; `fallen` in `Fragments`).

Of alarms:

- The resend timer of an alarm frame does not stop when the acknowledgement arrives
  (`pf_alarm.c:1066`; the comment at 773 says it does). A frame sent soon after is
  resent by the timer of the one before, early, and each such alarm leaves one more
  timer running: the resends are used up before their time.
- An alarm whose first sending fails is retained and resent, but ALPMI does not wait
  for its answer (`pf_alarm.c:2237`): `WaitsForAck` needs `SendMayFail = FALSE`.
- A second process alarm before the confirmation is queued (`pf_alarm.c:3102`), where
  `pnet_api.h:1755` says that the call fails.
- An answer to an alarm of low priority goes to the machines of high priority.
- The mutex of a receive queue is destroyed while the Ethernet thread may be posting
  to it; the frame id map is searched by that thread without a lock.

Of modules and diagnoses:

- Pulling a submodule that no connection owns sends a pull alarm to an AR that is a
  null pointer (`pf_cmdev.c:672`; `PullIsSafe` in `Plug`).
- An abort that only raises the event leaves slots and subslots owned by an AR that
  is gone. `OwnedByAr` holds nevertheless: a pointer to the one AR record is right
  again for the next connection.
- The application-ready request repeats the difference block of the Connect response;
  what was plugged or pulled meanwhile is only told if alarms are enabled.
- The problem indicator is computed from the one subslot whose list has changed
  (`pf_diag.c:81`): a fault elsewhere is forgotten.
- The items of a pulled submodule are never freed (`lost` in `Diagnosis`).
- `pnet_diag_add` returns -1 when there is no connection, although it has stored the
  diagnosis.
- A removed item is put into the free list outside `diag_mutex`
  (`clashed` in `Diagnosis`).

Of the station:

- I&M data are saved by two threads, although `pf_fspm_save_im` is "intended to be
  called from the background worker" (`pf_fspm.h:380`): the older copy can be written
  last (`crossed` in `Station`).
- A Set of the address that is refused because of a connection has changed the
  current and the permanent address already; a connection that comes up between a
  block and the commit does not keep the address from being changed.
- A name or address that is set while the worker writes makes a file of two halves;
  it is written again, as the event is set again (`Kept`).
- A factory reset through the application leaves the interface its old address until
  something commits.
- An I&M record that is refused for its length is kept in memory and not saved.

Of the neighbours:

- The LLDP timer is restarted by the Ethernet thread and fires on the main thread:
  the callback resets the handle of a running timer, which nobody can stop then
  (`strays` in `Peers`); a link that goes down between restart and store leaves a
  peer without a timer.
- A DCP reset clears the check on the Ethernet thread while the main thread may be in
  it (`crossed` in `Peers`): a diagnosis stays or goes missing.
- The name of the station is compared only up to the length of the peer's, so that a
  neighbour whose name is a beginning of the expected one is taken for it.
- A diagnosis of a wrong peer stays while the peer is absent or has no name.

## 5. Proofs

| Theorem | States | Module |
|---|---|---|
| `PoolSafe` | `Spec => [](SlotPartition /\ HandleTruth)` under `Discipline` | `SchedulerProofs` |
| `SchedulerTypes` | `Spec => []TypeOK` | `SchedulerProofs` |
| `SessionsSafe` | `Spec => []SessionsPointToAr` | `ConnectionProofs` |
| `AlwaysSupervised` | `Spec => []Supervised` | `ConnectionProofs` |
| `AlwaysPolled` | `Spec => []Polled` | `ConnectionProofs` |
| `ConnectionTypes` | `Spec => []TypeOK` | `ConnectionProofs` |
| `PromiseKept` | `Spec => KeepsPromise`: `Connection` implements `Lifecycle` | `ConnectionOrder` |
| `MachinesInStep` | `Spec => []InStep` under `Discipline` | `ConnectionOrder` |
| `NothingOutlivesTheAr` | `Spec => []NothingLeftBehind` under `Discipline` | `ConnectionOrder` |
| `SessionOutlivesTheAr` | `Spec => []ArHasSession` under `Discipline` | `ConnectionOrder` |
| `AlwaysRetained` | `Spec => []Retained` | `AlarmProofs` |
| `AnswersTracked` | `Spec => []AnswerUnderWay` | `AlarmProofs` |
| `AlwaysAnswered` | `Spec => []AnsweredIsAcked` under `HighOnly` | `AlarmProofs` |
| `AlarmTypes` | `Spec => []TypeOK` | `AlarmProofs` |
| `WaitsForAnswer` | `Spec => []WaitsForAck` under `Discipline` | `AlarmProofs` |
| `AlarmsReachController` | `Spec => ProcessAlarmsReach` under `Discipline`: `Alarm` implements `AlarmService` | `AlarmProofs` |
| `ControllerAlarmsReach` | `Spec => AlarmsReachApplication` under `Discipline` | `AlarmProofs` |
| `HandlesTrue` | `Spec => []HandleTruth` under `Discipline` | `SchedulerProofs` |
| `AddsSafe` | `Spec => []AddsOwnSlot` under `Discipline` | `SchedulerProofs` |
| `BusyStaysSorted` | `Spec => []BusySorted` under `Discipline` | `SchedulerProofs` |
| `TimersInTime` | `Spec => FiresInTime` under `Discipline` | `SchedulerProofs` |
| `NextIsNewer` | the next cycle counter passes the check of the one before | `CyclicProofs` |
| `ConsumerTypes` | `Spec => []TypeOK` | `CyclicProofs` |
| `BuffersOwned` | `Spec => []OneOwner` | `CyclicProofs` |
| `NewestReachable` | `Spec => []NewestAtHand` | `CyclicProofs` |
| `StarvedEnds` | `Spec => []EndsInTime` | `CyclicProofs` |
| `FedIsKept` | `Spec => HoldsWhileFed` | `CyclicProofs` |
| `NewerOnly` | `Spec => DataMovesForward` | `CyclicProofs` |
| `AlwaysScheduled` | `ProviderSpec => []NextFrameScheduled` | `CyclicProofs` |
| `CountersGrow` | `ProviderSpec => CountersAdvance` | `CyclicProofs` |
| `AseIsKept` | `Spec => []Kept` | `StationProofs` |
| `ImIsKept` | `Spec => []ImKept` | `StationProofs` |
| `AlwaysOwned` | `PlugSpec => []OwnedByAr` | `DeviceProofs` |
| `ExpectedPullIsSafe` | pulling what the connection expects follows no null pointer | `DeviceProofs` |
| `ControllerFollows` | `PlugSpec => []ViewTrue` | `DeviceProofs` |
| `ConnectReportsTrue` | `PlugSpec => ReportTrue` | `DeviceProofs` |
| `ListsKept` | `DiagnosisSpec => []ItemsKept` | `DeviceProofs` |
| `FlagsTell` | `DiagnosisSpec => []FlagsTrue` | `DeviceProofs` |
| `AlwaysDiagnosed` | `PeersSpec => []PeerDiagnosed` | `DeviceProofs` |
| `RequestsCarriedOut` | `FragmentsSpec => []RequestsWhole` | `FragmentsProofs` |
| `AnswersArriveWhole` | `FragmentsSpec => []AnswersWhole` | `FragmentsProofs` |
| `AnswersSentAgain` | `FragmentsSpec => []AnswersResent` | `FragmentsProofs` |

*Scheduler.* From `SchedulerAssumption` (the constants have their types; there is
at least one slot) and `Discipline`. `SlotPartition` alone is not inductive:
freeing the slot of a stale handle would break it. `HandleTruth` says that handles
are not stale, and `AddsOwnSlot` what a thread inside `pf_scheduler_add` relies on:
the slot it fills is its own and every linked slot carries its timer's name.
`IInv` is the conjunction; there is a lemma per action and one for each list
operation.

That the list stays sorted by the signed comparison of the code needs the times to be
near each other: `Timely` says that every linked slot and every thread on its way
into the list has an expiry time that is `Recent`, and `2 * (MaxDelay + MaxLate) < M`
in `SchedulerAssumption` makes the comparison of two such times meaningful however
often the clock has turned over. `OrderInv` (`BusySorted /\ Timely`) is inductive
together with `IInv`, and `FiresInTime` follows step by step: the head of a sorted
list expires first.

*Connection.* From `ConnectionAssumption` only: no discipline of the controllers,
any number of sessions, activities, UUIDs and consumers. The invariant is
`Sound(d)` on the record the handlers work on. Each function a handler is composed
of is shown to preserve it once (`AbortSound`, `StateIndSound`, ...), and each
action is then a composition. The conjuncts need each other: that the CMSM timer
does not outlive its AR needs the sessions' pointers (a fault on a session that
points to no AR must not find one), and that a poll runs needs the types of the
timers; the poll of an earlier AR is among the `lost`.

The refinement needs no more than that: each function of a handler is shown to move
the phase of the connection as `Lifecycle` allows or not at all, so `PromiseKept`
holds for any controllers. The other three theorems of `ConnectionOrder` hold under
`Discipline`: a controller has one activity and one AR UUID and shares neither, sends
Read Implicit on activities of its own and a well-formed Connect when it repeats one,
the application says why it refuses, and the start of a protocol machine succeeds.
The constants of `MCConnection` satisfy it, those of `MCConnectionAny` do not; section
4 tells what happens then. `Orderly` adds to `Sound` that the machines are in step,
that an AR in use is that of an answered Connect (`InUseAr`), that the consumers have
their handlers and timers (`ConsumersDev`), that activities tell sessions apart
(`ActsDev`) and that the AR has its session (`ArDev`). None is inductive alone: which
session a message came on decides whether the machines hear of it, a session that is
released must be told from the AR's by its activity, and a consumer is closed properly
only if its machine is in the state in which that is not ignored. In the middle of a
consumer's timeout `ConsumersDev` is broken; `Closable` is what is left of it, and
enough for the AR to be closed.

*Alarm.* From `AlarmAssumption` and `FrameAssumption`: any queue size, number of
resends, modulus and set of alarms; the controller may keep to the protocol or send
any frames. `IInv` is `Sound(Dev)`, the conjunction of `TypeOK`, `Retained` and
`AnswerUnderWay`. An
acknowledgement keeps `AnswerUnderWay` only because ALPMR leaves `W_TACK` in the same
step; a new frame is retained only when APMS is open, and then `Retained` says that
no other one is lost and that ALPMR is not waiting; a timer that fires when nothing is
awaited clears a buffer that is empty anyway. Between `DataReq` and the change of ALPMR
in `AppAck` the invariant is broken, so `DataReqFacts` gives the parts from which
`AppAckSound` restores it. `Spec` needs no fairness and no bound on what is lost:
`MaxLost` and `LinkMax` are any numbers.

`AlwaysAnswered` is proved under `HighOnly`: the controller sends alarms of high
priority only, and its stray notifications carry one. The code answers every alarm
with the machines of high priority, so that without this ALPMR of low priority waits
for ever (section 4); the constants of `MCAlarm` satisfy it. The invariant `Owing`
extends the property to what may still reach ALPMR: the frames in the receive queue
and what the controller is about to send.

The other three theorems are about the channel as a whole and hold under `Discipline`:
the controller keeps to the protocol and sends alarms of high priority only, the
device's own link refuses no frame (section 4 says what happens when it does), and the
modulus of the sequence numbers is above 2; the code's is 0x8000, and with 2 the number
after the next is the last one again. Frames are lost in either direction at any point,
both sides repeat theirs, and the application may be eager. The two sides run the same
protocol, so the invariant speaks of two sides `x` and `y`: `Half(x, y, F, B)` is about
the frames `F` from `x` to `y` and the acknowledgements in the frames `B` from `y` to
`x`, and `Joined` is `Half` in both directions. Its parts: the sender and the receiver
are at the same number or one apart, and in the second case the frame is still retained
(`Stands`); a frame that would be accepted is the retained one, and none behind it
passes for its successor (`InOrder`); a frame that was not accepted is not acknowledged,
and no acknowledgement behind the right one passes for the next (`AcksInOrder`). A
retained frame carries the acknowledgement of the time when it was made: it may be one
frame old by the time it arrives, never older, because then the other side is waiting
and owes nothing (`Aged`). Last, an alarm under way is in one place: on its way, with
the user of the other side, or its answer is on its way back (`Turns`). So each
action is one lemma about two sides, used for the device and for the controller with the
roles exchanged. `Good` adds how the machines of the device go with the retained frame;
`Serving` says that a step of the channel is a step of `AlarmService` or none, in both
directions. An error that ends the AR empties the channel (`Over`), which is `End` of
`AlarmService`.

*Cyclic data.* From the assumptions of `CycleCounter`, `Consumer` and `Provider`:
any number of buffers, any data hold factor, any width of the counter, window,
clock, tick and interval. What is assumed of the controller is that a frame is late
by less than `CycleMod - Window`. The invariant of the consumer says, while it has
not `raced`, where each thread can be (`Control`), who has which buffer and what is
in it (`Buffers`, `Newest`), how `dht` follows the intervals that passed (`Timing`)
and how the counter follows the last frame (`Order`). It needs the steps in between:
while the frame handler is at `pos` or `update` the counter is still that of the
frame before, and while the timer is between load and store `dht` may be reset
behind its back, which is when `crossed` is set. The provider's invariant
places the due time within a tick of the deadline or of the present (`Near`); the
arithmetic modulo the clock is in lemmas of its own (`SignedIs`,
`SanitizedIsNear`).

*Station.* From `StationAssumption`: any names, addresses and records, any number of
changes, crashes and failed writes. `Kept` speaks of a worker at rest; `AseInv` adds
what holds while it works: an event that is still set stands for everything set since
the worker began, and without one the copy, the file and what is left to write agree
step by step with the record. `ImInv` and `Alone` do the same for the I&M data, of
which two threads hold copies; `Alone` holds only while they have not saved at once
(`~crossed`).

*Plug.* From `PlugAssumption`: any slots, subslots, ident numbers and modules, and
requests that name no slot twice, and no subslot of a slot (both finite). That each expected submodule has its owner is not
inductive: what is plugged takes the owner of its slot, and a slot takes that of the
API, so `OwnedIn` and `owned` speak of these too. The lemmas say what claiming a slot
(`ClaimedFacts`) and plugging and pulling do to one.

`ReportTrue` is about `Generate`, a fold over the request in a fold over its modules, in
which an entry that is not kept is overwritten by the next, though only in the fields
that one sets. `BlockTells` says of the first `k` modules of the request that those that
differ have an entry of their own and that the rest of the block is clean (`CleanSub`:
the leftover of an entry that was not kept would be taken for a difference), and
`TellsUpTo` the same of the submodules in an entry; each is shown to hold for `k + 1`
when it does for `k`. A fold is a recursive function, which the prover knows only as a
choice: `FoldExists` shows that there is one, from the sizes of the sets it is taken
over, and induction over the numbers is stated for sets of them (`UpFromZero`), which
follows from there being no infinite descent. `ViewInv` is the invariant of `ViewTrue`:
what is plugged is among what the alarms have told since (`ViewByPlace`).

*Diagnosis.* From `DiagnosisAssumption` only. The theory of the lists comes first, and
takes no induction as `Listed` is a least set: a list is its first item and the list
that this one leads to (`ListedStep`), it depends on the links of its items only
(`ListedSame`), one that ends goes through no item twice (`NoCycle`), and each of its
items but the first has one predecessor (`OneBefore`, `OnlyOneBefore`); then taking an
item out (`TakenOut`) and putting one before a list (`PutBefore`) do what the code means
them to. `ItemsKept` is not inductive: the invariant `KeptInv` adds that an item which a
removal holds is in no list, is held once and was not lost, and that between
`GiveFlags` and `FreeItem` it leads to the first free item (`OutOfLists`). `FlagsTrue`
needs that the flags a removal has read are still those of the list (`Told`), which is
what the other thread breaks when they clash; and that the flags of a submodule are
right while it is pulled, too. TLC has checked `KeptInv` on the states of `MCDevice`.
After a clash nothing is claimed.

*Peers.* From `PeersAssumption`. `Due` says that something will start a check: the
flag, the timer of a restart, a frame that tells something new, or the main thread on
its way. Unless a check is due, what was checked is right (`Judged`) for the peer as
it is known, and a check under way has looked at that; `Fresh` is needed for the timer
of a restart. After a DCP reset that met the main thread nothing is claimed.

*Fragments.* From `FragmentsAssumption`: any sizes of frames, header and buffers, any
requests, sequence numbers, numbers of resends and capacity of the link; frames may be
lost, and the controller may repeat itself, give up, ping, and use a sequence number
again. `RequestsInv` joins to `RequestsWhole` that the buffer holds a beginning of one
call, with `in_fragment_nbr` telling how much (`Assembled`), and that what is under way
with the controller's sequence number belongs to its call (`OwnCall`). The argument is
that the first fragment empties the buffer, and that the controller sends a later one
only after an acknowledgement, so that a late fragment of an earlier call with the same
number is out of turn. `AnswersInv` says in what state the session is while anything of
the answer is left (`Stage`): all of it is sent (`Through`), or its first or its second
fragment is being repeated (`First`, `Second`); a late acknowledgement finds it in the
first of these. `Short` limits it to answers of two frames of which the second is not
full, because the third frame is wrong (section 4). `ResentInv` says that as long as the
controller does not disturb the exchange the call is a single token (`Lone`) - one frame
one way or one the other - and that whenever the controller lacks a frame the session
holds the stage and the timer that will supply it (`Expects`).

*Not proved:* liveness (`TimersExpire`, `Settles`, `AlarmsSettle`, `SavedAtLast`), which
is beyond the prover: TLC checks it. Every other property of a passing run is a theorem. Type
invariants that are proved are not checked by a run as well.

## 6. What is not modelled

`components` in `PROJECT.json` lists every part with its status. Of the modelled
parts: fragmented requests of the device; device-access ARs; the contents of blocks and
records, so that a check of a request is only its outcome, and with it the layout of
the cyclic frames; the calls that set the provider's data, which copy under a lock;
a pool of timers that runs out under `Connection`; the log book; Get, Identify,
HELLO and the signal of DCP; sending LLDP and several ports; the extended value and
the manufacturer's data of a diagnosis.

Not modelled at all: the endpoint mapper, SNMP and UDP, which hold no state of
their own; the offload driver of one switch chip (`src/drivers/lan9662`), an
alternative to the software driver; the ports to operating systems; the sample
application. Together with the block reader and writer, which convert between bytes
and records, they are the larger part of the repository's lines.

## 7. Plan

In order, the most important behaviour first:

1. `Scheduler` with proofs (done).
2. `Connection`, `Lifecycle`, with proofs (done).
3. `Alarm`, `AlarmService`, with proofs (done).
4. `CycleCounter`, `Consumer`, `Provider`, with proofs (done).
5. `Plug`, `Diagnosis`, `Peers`, `Station` (done; with proofs).
6. `Fragments` (done; with proofs).
7. Layout: the checks of IOCR layouts and the data of the provider's frame.
8. The delayed answer to a DCP Identify, the log book, sending LLDP.
