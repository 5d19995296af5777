# Verification of tekmar-482

tekmar-482 is an asyncio client library for the Tekmar 482 gateway. It speaks
tRPC messages inside TPCK frames over a serial line or TCP, discovers the
devices behind the gateway, polls their state, and then follows the gateway's
reports. This directory holds TLA+ modules of its parts, the TLC configurations
that check them on small instances, and TLAPS proofs about the session, the
controller, discovery, the runtime state, the setters, the device tables, the
codec and the framing. Every safety property that a passing run checks is also a
theorem; liveness is model-checked only.
`PROJECT.json` lists the components, runs, mutants, hazards and theorems, and
maps every definition that models code to the lines it models.

To repeat a check: `tlc -config SessionCommands.cfg MCSession`; to repeat a
proof: `tlapm SessionProofs.tla`.

## The system

| Component | Source | State it keeps | Operations |
|---|---|---|---|
| TPCK framing | `tpck.py`, `packet.py` | the parser's state, escape flag and partial frame | `serialize`, `feed`, `feed_many` |
| Transports | `transport.py` | connection, received packets, `_paused`, the one `_drain_waiter` | open, close, write, read, `connection_lost`, pause and resume |
| Session dispatcher | `session.py` | `_pending`, the transaction lock, `_coalesced_updates`, two backlogs, `_report_queues`, `_closed`, `_reader_error`, the reader and writer tasks | open, close, `request`, `send`, `update`, `coalesced_update`, `coalesced_update_response`, `write_message`, reads, `reports` |
| Client commands | `client.py` | none of its own | open, close, typed getters and setters, `poll_runtime` |
| Discovery | `client.py` | none; the inventory replies lie in the session's backlog | `discover`, `get_inventory_addresses`, `get_device_info` |
| Setpoint values | `models.py`, `client.py`, `state.py` | `SetpointValues`: values by setback, the active setback, the setback CURRENT stood for | seeding by `_dump_setpoints`, `with_value`, `with_active_setback`, `current` |
| Runtime state | `state.py`, `models.py` | the discovery result, and a snapshot of the gateway and of each device | `apply_message` |
| Device capabilities | `models.py`, `constants.py`, `state.py` | none: type code and attributes of each device | `device_supports_method`, what is polled, `_require_support` |
| Controller | `controller.py` | `_running`, `_report_task`, `discovery`, `state`, the callbacks | start, stop, `refresh_runtime`, rediscover, the report loop, device handles |
| tRPC codec | `trpc.py`, `units.py` | none | pack, unpack, `ResponseMatch`, rounding to the units |
| Deadlines | `_deadline.py` | an expiry time | `remaining` |
| Names and views | `constants.py`, `decoding.py`, `exceptions.py` | none | |
| Command line, trace replay, package surface | `cli.py` and others | none that outlives an operation | |

How they interact. The transport turns bytes into packets with the TPCK parser.
The session's reader task takes each packet and dispatches it: to the pending
request it matches, else to the backlog and to every report queue. Callers
write under the transaction lock and wait for a future that the reader
resolves; the coalesced update writer is one more such caller. The client
composes commands for the session. Discovery and polling are sequences of such
requests. The controller calls the client from the application's tasks and from
its own report loop, which is a subscriber of the session.

Everything runs on one event loop, so nothing is preempted, and what is hard is
what happens between two awaits:

* a call is cancelled, times out, loses its connection or is overtaken by
  `close()` at each of its suspension points;
* the reader, the writer task, the callers, and `open()` and `close()` share
  the pending entries, the update queue, the lock and one drain waiter;
* answers arrive after their requests were given up and meet newer requests of
  the same method;
* the backlog is shared between inventory walks, report streams and readers;
* reports are applied while a poll or a rediscovery reads older values, and
  another task replaces the devices the poll is about;
* bytes are lost or misread in the middle of a frame.

What makes each part correct:

* **Framing**: an intact frame is delivered as it was sent, and a damaged one
  costs the frame after it at most, or with strict checksums what else is in its chunk.
* **Session**: a request is answered, fails or times out, and its entry goes
  with it; an answered request is private; updates of one key reach the wire in
  order, and one that was reported as superseded never does; report streams are
  in order, complete up to their bound, and they end; nothing outlives `close()`.
* **Controller**: the gateway reports while the loop listens; `stop()` ends and
  is final; the loop does not wait on a stream that is dead.
* **Runtime state**: once all has been handled it shows the present values, of
  one topology, and the listeners know it; a confirmed setting has been made.
* **Discovery**: it finds what the gateway listed, with each device's own
  metadata, restores reporting unless its last command cannot be sent, and ends.
* **Setpoints**: a client that has caught up shows no outdated setpoint.

## The modules

| Module | Models | Checked through |
|---|---|---|
| `Session` | session dispatcher and the transport's flow control | `MCSession`, four configurations |
| `LatestWins` | what coalesced updates promise, without queue, task, lock or connection | `Session`, by refinement |
| `Controller` | the push controller over an abstract client | `MCController`, three configurations |
| `Discovery` | `discover()` and everything it calls | `MCDiscovery` |
| `Setpoints` | setpoints of one device from the poll to the reports | `SetpointsWake`, and through `Setters` |
| `Setters` | `Setpoints` with a user who sets them: client, session queue and lock, device, response | directly |
| `Codec` | method table, packing, unpacking, `ResponseMatch`, payloads, units | `Runtime` |
| `Devices` | what devices support, by type and attributes, and what they are polled for; on `Codec` | `Runtime` |
| `Runtime` | controller, state, listeners and handles over several devices; on `Devices` | `MCRuntime` |
| `Tpck` | framing and the parser | `MCTpck` |
| `SessionProofs`, `SessionUpdates` | theorems about `Session`: its types, requests and streams; its updates and the refinement of `LatestWins` | TLAPS |
| `ControllerProofs` | theorems about `Controller` | TLAPS |
| `DiscoveryProofs` | theorems about `Discovery` | TLAPS |
| `RuntimeProofs` | theorems about `Devices` and, of `Runtime`, the listeners, handles, topology and types | TLAPS |
| `ValueProofs` | theorems about the codec, the units, the values that the state shows and what setters confirm | TLAPS |
| `SetpointsProofs` | theorems about `Setpoints` and `Setters`, and that the second implements the first | TLAPS |
| `TpckProofs` | theorems about `Tpck` | TLAPS |

The MC modules only give values to constants. Definitions marked "Mutant" in
the modules are used by no specification. Each is the mapped definition after
it with a plausible bug, and makes the property named in `PROJECT.json` fail.

### Session

An action is the code between two suspension points of one task. `pc` says
where a task is suspended: `lock` (waiting for `_transaction_lock`), `stalled`
(waiting for the write buffer), `drained` or `cut` (the wait has ended well or
badly, the task has not run yet), `await` (waiting for its future), `snapped`
(its write will raise), `queued` (waiting for a coalesced update's future) and
`reading`. `job` is the call it is executing. The writer task is one more actor
with the same points, and `ticket` is the update it has popped.

| Code | Actions |
|---|---|
| `request`, `send`, `update` | `CallLocked`, `Acquire` or `AcquireFails`, `Drained`, `WriteRaises`, `Resume`, `Timeout`, `Cancel` |
| `write_message`, `write_packet` | `WriteMessage`, then as above without the lock |
| `coalesced_update`, `coalesced_update_response` | `CoalescedUpdate`, `CoalescedResult` |
| the writer task | `PopUpdate`, then as a locked call; `WriterExits` |
| the reader task | `Receive` (with `_dispatch_message`, `_publish_report`), `ReaderFails` |
| `read_message`, `read_until`, `read_packet` | `CallRead`, `Read` |
| `reports` | `Subscribe`, `NextReport`, `CloseSubscription` |
| `open`, `close` | `Open`, `Opened`; `Close`, `CancelWriter`, `CloseSession`, `ConnectionClosed` |
| the transport's protocol | `Stalls` and `ResumeWriting` (pause and resume writing), `ConnectionLost` |

Messages are numbered in the order they arrive. `received` says what each one
is, so a queue or backlog is a sequence of numbers and order, loss and
duplication show. `sent`, `published`, `answered`, `seen`, `since` and `severed`
are history variables.

All writers that wait for the buffer wait for the one future in
`_drain_waiter`. So when one of them is cancelled every one of them is cut
(`CancelTask`), which is the cause of the first finding below; when the
connection is lost every one of them raises (`SnapWrites`). `severed` says that
a cancelled caller has cut the wait of the writer task so, and that no `open()` has
started a writer task since.

`LatestWins` says only this: updates of one key are sent oldest first, each at
most once, and one that was given up is never sent. `Session!Abstract`
instantiates it with `key` and `phase` computed from the queue, the writer's
point and `sent`, and `LatestWinsSpec` is the refinement.

### Controller

The client is modelled by how its calls end: a command holds the lock
(`holder`), goes to the gateway (`commands`), is served (`Serve`) and answered
(`wire`, `Dispatch`), times out, raises, or is cancelled. The runtime data is one
device value, known by its version, so an older value in the place of a newer
one shows. The points of `start`, `stop`, `rediscover` and the report loop are
their awaits. Cancellation delivered while `close()` waits is swallowed there, as
in the code. `disturbed` is a history variable: since the last `start()`, a
command that enables reporting was lost, or its task or that of one that
disables it was cancelled. It is named in `ReportingOn` and nowhere else.

The model assumes that `start()` and `stop()` never overlap: the code has no
guard for it, and no caller in the repository does it.

### Discovery

One task calls `discover()` again and again. Requests and replies travel first
in, first out; `Lose` drops one. `Serve` is the gateway, which answers an
inventory request with a stream that address 0 or NA_16 ends; `Announce` is a message
about the inventory that no request asked for, which the walk tells from a reply by
its service. Replies that no request awaits go to the backlog, from which `Walk`
takes them. `AskDevice` then queues the requests to one device after the other, in the
order the walk found them.

`Down` is a session that fails or is closed, with all that is on the line, and
`Reopen` one that is opened again. On a session that is down every request raises
(`Raise`), the one of the `finally` clause too. `Cancel` cancels the task anywhere, in
the `finally` clause too. An exception goes through the `finally` clause if it is still
to come, and ends the call if it is there (`Propagate`).

`excuses` is a history variable that says why a result may differ from what the
gateway has:

* `leftover`: a walk met replies to an earlier walk;
* `lost`: a message was lost, on the line or with the connection;
* `silenced`: the command that turns reporting on raised on a session that is down, was
  cancelled before it was sent, or was lost.

Without any one of them a property that names it is violated, which is how they were found.

### Setpoints

`Send` to `Listen` are the poll, with answers that are late or lost. `Apply`,
`ChangeActive` and `ChangePoint` are the time after it. A value is the pair of
the setback it belongs to and its version, so a value in the wrong place and a
stale one both show. Setbacks are numbered as in `ThaSetback`, because the code
uses them as truth values: `WAKE_4` is 0. `excuses` records why the client
cannot know better. Each was found as a violation of a property without it:

* `missed`: the device changed while nobody was listening;
* `mistaken`: a late answer was taken for the answer to the request for CURRENT;
* `misnamed`: the answer named `WAKE_4`, which Python's `or` takes for absent;
* `echoed`: the answer to the request for CURRENT named CURRENT;
* `unplaced`: a report named CURRENT before any setback was known to be active.

Which name a device uses for its active setback the code leaves open, and the
tests have both, so the model chooses either each time.

### Setters

Extends `Setpoints` with the other direction: `SetNow` is `set_heat_setpoint()`,
`SetLatest` is `set_latest_heat_setpoint()` with and without confirmation. A call
goes through `queue` (`_coalesced_updates`) or straight to the FIFO of the
transaction lock (`lockers`, `holder`), over the line (`written`), is executed by
the device, and its response both answers the call (`Confirm`) and is applied to
the client's values (`ApplyDispatched`). The setters of the other kinds differ in
method and payload. What `Session` checks is not repeated: no connection fails
and no call is cancelled, and no update is lost. The user calls once the client
listens.

`reordered` is a history variable with the two ways in which the code lets a call
pass an earlier one:

* `overtook`: a set at once takes the lock while a latest value is queued;
* `aliased`: a newer update takes the queue position of the one it replaces, and
  between them is an update under the other name of the same setback (CURRENT
  and its own name have different coalesce keys).

`LastSetIsShown` is violated without either. `aliased` needs three calls, which
`SettersRounds` does not have: with `CURRENT = 2` and `MaxSets = 3` TLC finds it in a
minute and a half. The theorem `LastCallWins` is about any number of calls.

### Codec and Devices

`Codec` has the layout of every method (`METHOD_SPECS`), packing with the mask that
drops what does not fit, unpacking with zeros for what is missing and the rest as
`extra`, and the match of a response. A payload on the line is a sequence of
bytes; a number of a service or method is its name. Temperatures are
integers: quarters of a degree Celsius, thirty-sixths for degH, so that rounding
is exact. (Floating point rounds degH as exactly above -39 degrees.)

`Devices` has the table of types, the attributes, what a handle accepts
(`device_supports_method`) and what a poll asks for (`Polled`): two places of the
code that nothing keeps in step.

### Runtime

The controller's part that `Controller` reduces to one value: discovery results,
the snapshots of gateway and devices, the reducer with all its methods, topology
messages, the state listeners and the setters of device handles. Messages are
payloads of `Codec` that are really packed and unpacked.

A step of a task is one exchange with the gateway; the values of one device,
which do not depend on each other, are polled in one step, and so are those of the
gateway. `pc` says which exchange is next, `paused` that the task has turned
reporting off, `target` and `polled` hold what its poll is about and what it has so far.

| Code | Actions |
|---|---|
| `start` | `Start`, `Pause`, `Discover`, `poll_gateway`, `_dump_device_snapshot`, `Install`, `Enable`; on an exception `Fails`, `Restore` |
| `rediscover` | `Rediscover`, with `Pause` and `Enable` if it pauses reporting |
| `refresh_runtime` | `RefreshRuntime`, then the poll and `Install` |
| `stop` | `Stop`, `Close` |
| the report loop | `Handle`, `Reconnect`, `Resubscribe` |
| the handles' setters | `SetLatest`, for every method |
| gateway and line | `Serve` (a command given up is executed late), `Change`, `Topology`, `LinkFails` |

`cause` is a history variable: for each value, what has kept the state from
showing it since it did so last. `StateIsCurrent` excepts them; a cause ends once
the value is shown again:

* `unreported`: it changed while it was not reported;
* `ignored`: a message about it came for a device that was not known;
* `forgotten`: a message about another device dropped the snapshot of this one,
  which is no longer among the devices discovered;
* `replayed`: an older message came out of the backlog after it, or into a place
  that had no value;
* `dropped`: `stop()` dropped queued messages about it, so that the state of a
  stopped controller lacks them;
* `overwritten`: a refresh put an older value in its place;
* `unpolled`: the poll got no answer for it;
* `unanswered`: a response that carried it was lost, or nobody applied it.

The others were found as violations of the property without them. `forgotten`,
`dropped` and the empty place came from the proof, whose invariant speaks of every
moment: no behaviour within the bounds of the run needs them.

`untold`, `raced` and `halfway` are history variables of the other properties: a
refresh told nobody, the devices polled are not those discovered, those
discovered are yet to be polled. `confirmed` and `took` hold what setters were
told is set and what devices were given.

Assumed: the gateway keeps its state over a lost connection; `start()` and `stop()`
do not overlap, and one task at a time calls either. `Groups` are the setpoint groups
polled, none by default (`include_setpoint_groups`); DATE_TIME is polled, as by
default (`include_datetime`), but its value is a constant until it is reported, and
nobody watches it. What `Session`, `Controller`, `Discovery` and `Setpoints` check
is not repeated: the queue and lock of a setter, failures of `open()` and `close()`,
the inventory walk, the slots of a setpoint.

### Tpck

`serialize` and every branch of `feed`, on an alphabet of `Base` bytes. Frames
follow each other, each one intact, with one byte of payload or checksum misread
as another that is not stuffed, or garbled: any other byte changed, a byte
inserted, or a run of bytes lost or repeated.

The bytes come in chunks, one for each call of `feed_many`. `Feed` is one iteration of
its loop and `packets` its result so far; the action `feed_many` ends the call and begins
the next, which may be between any two bytes. With a strict checksum `feed` raises and
leaves the parser as it is; `feed_many` has no handler, so the packets that it has
completed and the rest of the chunk are lost (`raised`, `Drop`). `dangling`, `dropped`
and `due` are history variables: the parser was escaped when the frame was sent, a
strict error took bytes of it, and what the result should be.

## What the runs check

All times are for two workers.

| Run | Question | Bounds | Time |
|---|---|---|---|
| `SessionCommands` | Do pending entries and the lock stay together, and is no request left without somebody to answer it? Are updates neither stranded nor both superseded and sent? Does the queue implement `LatestWins`? | 3 callers with 1 call each, 2 methods, 2 keys, 1 message, opened once, a backlog of 1 | 145 s |
| `SessionReports` | Are streams in order, complete and ended, and answers private? | 1 caller, 1 subscriber with a queue of 2, 2 methods, 3 messages, backlog of 2, 2 opens | 70 s |
| `SessionDown` | Does a session that was opened again serve its queue? Does every call end once the session is down? Is every update answered? | 2 callers with 1 call each, 2 methods, 2 opens, backlogs of 1; fairness | 80 s |
| `ControllerLifecycle` | Reporting, the finality of `stop()`, the loop's stream | 2 tasks, 3 calls, 2 versions, 1 fault, 1 cancellation | 65 s |
| `ControllerLive` | Does `stop()` end? Does the loop reconnect? | 2 tasks, 2 calls, 1 version, 1 fault, 1 cancellation; fairness | 40 s |
| `TpckNoise` | Resynchronisation and rejection after any sequence of frames | 5 byte values, 3 packets, any number of frames and chunks, at most one packet in the result of a call when another frame comes | 70 s |
| `SettersRounds` | Does a client that has caught up show current values? Does the last call win? | 4 setbacks with CURRENT, 3 changes of which 2 by calls, 1 lost or late answer | 130 s |
| `DiscoveryRounds` | Are the devices found, with their own metadata, reporting restored, and does the call end? | 2 addresses, 1 gateway and 1 device method, 2 calls, 2 faults; fairness | 125 s |
| `RuntimeReports` | Is the state current, told, and of one topology? Is what was confirmed set? | 2 tasks, 3 calls, 2 events, 2 networks, 2 values that change, 3 settings | 85 s |
| `SessionStartedWrite`, `ControllerRediscoverMissesNothing`, `SetpointsWake` | Findings, see below | | 1 s |

Why the bounds are enough to be of interest:

* Three callers and the writer task make four contenders for the lock: one that
  holds it, ones that wait, one that is cancelled. An update replaces a queued one
  while another is popped and a third caller has the lock. Two methods tell an
  answer from the answer to somebody else, and two keys an update from one that
  replaces it. A message that comes after its request was given up meets the
  request of another caller. `SessionReports` and `SessionDown` bring the session
  down and up again, so that `open()` has to start reader and writer anew;
  `SessionCommands` does not.
* Three messages overflow a queue of two; a backlog of two is replayed and
  trimmed.
* Two versions of the device value are the least that can go backwards. One
  fault and one cancellation can hit every pair of suspension points.
* A round of discovery that expires leaves replies to a second one. Two addresses
  tell a device's metadata from another's. Two faults are a session that goes down and
  a cancellation in the `finally` clause, or any other pair.
* Three setbacks beside CURRENT: the one that is false, and two that are not, so
  that the active one can change between them. Two calls are the least of which
  one can pass the other, and the third change is the device's own. A client
  with an excuse makes no calls: it keeps the excuse, and no property
  but the types says anything about it.
* Two networks that share a gateway and a device, and differ in a device known by
  its attributes only. The values that change are a flag of the gateway that is
  also a command, and a value of the device that comes and goes; a setpoint group is
  polled and shown, but changes only in the theorem, which is about any values. Three calls are
  a start and two that overlap it or each other; two events are a value that
  changes twice, or a change and something going wrong. The settings are a
  temperature that a byte cannot hold, and one that is rounded, in both units.
* Five bytes hold the three that are stuffed and two that are not. The packets
  have lengths, types, payloads and checksums of both sorts, and no bound limits
  the number of frames. `Kept` is the one bound: a call of `feed_many` that has two
  packets goes on to the end of the frame and not to another. One packet in the
  result is enough for a strict error in the next frame to lose it.

Symmetry is used for callers in `SessionCommands` and for the application's tasks
in `ControllerLifecycle` and `RuntimeReports`. No configuration with fairness
uses it. `CHECK_DEADLOCK FALSE` stands in the runs of `Controller`, `Runtime`, `Setpoints`,
`Setters` and `Discovery`, where the bounds end all activity, and in no run of `Session`.

### The properties

* `PendingOwnedByHolder`, `NoStrandedRequest`: a pending entry never outlives its
  request, and a waiting request never outlives its entry.
* `NoStrandedUpdate`, `WriterServes`, `DownSessionIsEmpty`: a waiting update is in
  the queue or in the writer's hands, an open session with a queue has a writer
  unless a cancelled direct write has severed it and no `open()` has followed (finding 1), and a session that is down
  has neither updates nor requests.
* `SupersededNeverSent`, `LatestWinsSpec`: what coalescing promises.
* `PrivateAnswers`, `ReportsInOrder`, `ReportsComplete`, `UnregisteredStreamsEnd`.
* `CallsEnd`, `UpdatesAnswered` (liveness).
* `ReportingOn`, `StopIsFinal`, `LoopIsNotDeaf`, and with fairness `StopEnds`, `Reconnects`.
* `IntactFrameDelivered`, `IntactFrameResynchronises`, `MisreadFrameRejected`.
* `FindsAllDevices` (with the metadata of each, which is its own), `ReportingRestored`, and
  with fairness `DiscoverEnds`.
* `StateIsCurrent`, `ListenersInformed`, `OneTopology`: a state on whose way nothing is
  any more shows present values or there is a named cause; its listeners were told;
  its snapshots are those of the devices it knows, and what a handle accepts to
  set has a value there.
* `ConfirmedAsAsked`: a setter that was confirmed has given its device what was asked
  for, although answers to other commands come late and no field checks its value.
* `CurrentIsActive`, `SlotsAreCurrent`, `LastSetIsShown`: a client that has caught up
  shows nothing outdated, and the last of the user's calls.

### Fairness

Fairness is weak wherever an action stands for a task that the event loop has
marked ready or a timer that is running: the loop runs what is ready and timers
fire. Beyond that:

* `Session` lets a full write buffer be drained by the peer or the connection
  be reset some time (`WF(ResumeWriting)`). Nothing obliges the gateway to answer,
  callers to call, or applications to close. So the runs say nothing of a peer that
  neither reads nor hangs up: `close()` then waits for the transport without a time-out.
  `UpdatesAnswered` excepts a call without a time-out that keeps the lock
  (`KeptWithoutTimeout`), and an open session whose writer was severed
  (`WriterSevered`): the code really lets both happen.
* `Controller` has strong fairness for `Command`, because asyncio's lock is first
  in, first out and a waiting task is served although the lock is taken and freed in
  between, and for `OpenOk(Loop)`: the gateway accepts a connection some time.
* `Discovery` asks nothing of the gateway or the line, only that the deadline
  passes. It assumes a time-out that is not `None`, and, by `WF(Send)`, that other
  tasks and the write buffer let a request out some time: the wait for the
  transaction lock and for the drain has no time-out in the code.

## Findings

1. `SessionStartedWrite`. The project's README (lines 83-85) and `session.py:336-337`
   say that a command that has started to be written is never cancelled.
   `_drain()` (`transport.py:172-178`) lets every writer wait for one future.
   When a task that called `write_message()` is cancelled there, the future is
   cancelled, and with it the update that the writer task was writing. The same
   cancellation ends the writer task, which only `open()` starts: what is queued later
   on this open session waits for its own time-out. `WriterServes` and `UpdatesAnswered`
   except a writer that has ended in this way (`severed`), until `open()` starts another;
   that any other writer of an open session has ended would be a violation of `WriterServes`.
2. `ControllerRediscoverMissesNothing`. `controller.py:187-189` says that
   consumers do not miss updates while topology is refreshed. The refresh polls
   and then replaces the state (`controller.py:174-181`), so that a report
   applied during the poll is overwritten by the older polled value.
3. `SetpointsWake`. `tests/test_client_discovery.py:930-931` puts the answer to a
   request for CURRENT under the setback that the answer names.
   `client.py:844-847` finds that setback with `or`, and `WAKE_4` is 0: an answer
   that names it is put under the setback that was active before.

Further behaviours that no statement in the repository contradicts are in the
hazards of `PROJECT.json`, each with a note: a popped update that is written
although a newer one is queued, a late response taken by a newer request, a
reports() call on a closed session, a listener that raises in the report loop,
backlog messages replayed over a newer poll, a setpoint below zero that wraps to
254 and is never confirmed, `stop()` that raises what ended the report loop before
it closes the client, and others.

## What is proved

The theorems hold for any tasks, calls, keys, methods, devices, addresses, values and
bounds that satisfy the assumptions beside the constants. Most of the invariants
are not inductive by themselves; the text names what had to be added and why.

### Session

`SessionProofs` begins with `TypeCorrect`. `TypeOK` is inductive and has one lemma per action.
Under them lie lemmas about the operators on sequences that the model is built from:
taking the newest items, trimming a backlog, putting an item in a bounded queue,
removing an element, resolving a set of updates.

Then come the requests and the streams:

* `PendingOwned`. When the lock is free, `PendingOwnedByHolder` says
  `pending \subseteq {Nobody}`, which does not give `pending = {}`. `PendingInv` adds
  `pending \subseteq Actors`. Every action that releases the lock goes through
  `Finish`, which removes the entry in the same step.
* `RequestsCanBeAnswered` (`NoStrandedRequest`). `AwaitInv` speaks of every point inside
  a request (`InRequest`) and not only of the last one: the entry is made before the
  command is written, and nothing removes it in between without moving the task.
* `DownIsEmpty`. `DownInv` adds `ConnectionOwner`: only a task inside `open()` or
  `close()` closes the transport, so that no reader can be started beside it.
* `AnswersArePrivate`, `ReportsOrdered`, `ReportsNotLost`, `UnregisteredEnd` share
  `ReportInv`, which has one part per subscriber and one for the backlog. What is in a
  queue lies above what was seen and below what has arrived, and the backlog is in order, so
  replaying it into a new queue keeps the order. `Put` and `Trim` are treated as one operation,
  `Drops`: some of the oldest go, the others keep their order.

`SessionUpdates` has the updates:

* `QueueIsServed` (`WriterServes`). `WriterInv` says at which points the writer can be, and
  that a writer that has ended on an open session was severed. The theorem also says that
  this takes a direct write: without one there is no exception. Its proof failed on a
  cancelled direct write and so found the second half of finding 1.
* `UpdatesNotStranded`, `SupersededNotWritten`. Each step of the session is one of seven
  steps of its queue (`QueueStep`: it rests, submits, withdraws, fails, pops, returns or
  sends); that is proved once (`NextIsQueueStep`), and the rest of the proofs forget the
  session. `QueueInv` says that queued updates have different keys, that a queued update or
  the one being written is not superseded, and that the one being written is older than
  a queued one of its key.
* `ImplementsLatestWins`. The refinement, one lemma per kind of queue step.

### Controller

`ControllerProofs` starts with what all four theorems need, `Basis`: where each task can
be (`Placed`), that `start()` and `stop()` exclude each other and each has the loop
where it expects it (`Exclusive`, `RunningInv`), who holds the lock (`HolderInv`) and the
types. `Exclusive` is also why there is never a second report loop, although `stop()`
swallows its own cancellation while it waits for the first to end.

* `ControllerTypeCorrect` follows from `Basis`.
* `StopEndsReporting` (`StopIsFinal`). Nothing that a step of another task does begins
  listening or connecting (`BeginsNothing`).
* `LoopHears` (`LoopIsNotDeaf`). `StreamInv` connects the loop's queue with the
  connection: a queue without an end belongs to the connection that is open, or that
  somebody is about to find broken.
* `ReportingIsOn`. `ReportingOn` speaks of an empty line; the invariant speaks of what
  the gateway will do when it has executed the commands on the way (`Enabled`).
  `ReportingInv` says that while the loop listens this is reporting, or a `rediscover()`
  that has paused it is under way and will restore it.

### Runtime

`RuntimeProofs`:

* `ListenersAreInformed`, `HandlesKnowTheDiscovered`, `LoopHasState`.
  `ListenersInformed` alone is not inductive: a message is applied to a state
  that could, for all it says, be `None` or have no data. `IInv` adds that a state is a
  record with a discovery result and data, and that there is one whenever the loop
  runs or a task is about to enable reporting (`Seeded`).
* `EverySetterHasAValue` (what a handle accepts is polled, for every type, attribute and
  protocol version) and `SnowmeltAcceptsNothing` are about the operators of `Devices` and have
  no assumptions.
* `TopologyIsOne` (`OneTopology`). `TInv` says of a state that is `Used` (there is one, or a
  step is about to apply a message) that its snapshots are complete for
  every setter and, unless `raced`, those of its devices in their order (`Sound`), and of a
  poll that it has snapshots of the first of its devices (`PollOf`). The reducer
  selects snapshots by their positions in order; that this leaves a full state as it is
  rests on there being one increasing enumeration of `1 .. n` (`Increasing`), proved by the
  induction on sets of numbers that `TpckProofs` also uses. It uses
  `InventoryAssumption`: no address occurs twice, since the walk takes each once
  (`client.py`, `get_inventory_addresses`).
* `TypesAreRight` (`TypeOK`). `NInv` types the network and the queues, so that every
  packed message has to be a sequence of bytes and every unpacked one integral (`Integral`); the
  codec's folds over layouts are typed first. `Connected` and `TasksInv` say where the loop
  and the tasks are and what each holds there.

`ValueProofs`:

* `ValuesSurviveTheWire`: for each method of a value that the state shows, what fits the
  method's field is unpacked from what it was packed to, under the same key.
* `MessagesAreShown`: a state that has a place for a value shows what the message about
  it says; without a place, the message changes nothing; and what the state shows
  of other values it shows as before, or no longer.
* `StateShowsThePresent` (`StateIsCurrent`). The property speaks of a moment at which
  nothing is on its way, so it is not inductive. The invariant, `CurrentInv`, speaks of
  all times. `VInv`: every value of the network fits its field, so the wire does not
  change it. A value is *fresh* (`Fresh`) if it has a cause, if the last message about
  it that the loop has yet to read says what it is (`Told`, of the queue, or of the backlog
  while the loop is not yet reading), or if the state shows it. Each step keeps a
  fresh value fresh, and leaves one that is not as it is (`Kept`). `SInv`: a state shows
  nothing of a value that is not fresh. `Brings`: what a poll has got so far is present or
  fresh, although its exchanges take place one after the other. `StartsInv`: the loop begins
  only when `start()` returns, so that nothing is read while it polls. The types and
  `Connected`, `TasksInv` and `TInv` complete it. When all has been handled nothing is
  pending, and freshness is the property.
* `ConfirmationsAreTrue` (`ConfirmedAsAsked`). The answer to a command repeats its body, so one
  that matches carries the very value that was asked for, whatever packing has done to it
  and whichever caller's command it answers; unpacking the same bytes gives the device
  that value; and rounding (`DegEIsAccurate`, `DegHIsAccurate`) puts it within half a unit of
  what was meant. With `VInv`, which says that the commands under way are ones the
  client sends, the property is inductive.

They use `NoneAssumption` and `OperationAssumption` (None is no number, service or
operation), `InventoryAssumption`, `WatchedAssumption` (what is watched are values
that a state can show, and reporting is one of them) and `SettingAssumption`: nobody asks for
the two temperatures that are encoded as "not available". `StateShowsThePresent` has one
hypothesis of its own, `NoneIsNothing`: Python's `None` is neither a state nor a message.

### Discovery

`DiscoveryProofs`:

* `ReportingIsRestored`. The property speaks of an empty line, so it is not inductive: what
  matters is the order of the commands on it. `IInv` says that once the call has no command
  left that turns reporting on (`Restored`), and none was silenced, every command under way
  that turns it off has one behind it that turns it on (`OffThenOn`), and the gateway
  reports or will be told to (`OnIsComing`). `Phases` connects `pc`, `manage_reporting`
  and the requests left. Executing or losing the first request keeps the order of the
  others; a timed-out `enabled=False` is still in front of the `enabled=True` that `finally`
  sends. A session that goes down takes all commands with it; a call that ends by an
  exception in `finally` has either sent its command or is `silenced`. It uses
  `MethodAssumption`: no other request of a discovery sets reporting.
* `TypesAreRight`. `Typed` adds to `TypeOK` what each phase has left to send (`Agenda`), so that
  whatever is sent, answered or kept is a request of its kind.
* `AllDevicesAreFound` (`FindsAllDevices`). From the moment the inventory is requested to the
  end of the walk, what the gateway has listed is what has been found together with
  what is in replies on the line or in the backlog, and the reply that ends the listing is
  the last of them (`Answered`, `Walked`, `EndsLast`). `Asking` says that until then no
  other inventory request or reply is about, unless there is an excuse. `Described`
  follows the requests to the devices found, `FoundOnce` says that none is found twice. The
  gateway's order is left open: the proof needs only that the listing enumerates the
  devices, as `SetToSeq` does for a finite set (`AddressAssumption`).

### Setpoints

`SetpointsProofs`, for any number of setbacks, changes, time-outs and calls.

* `SetpointTypeCorrect`. `TypeOK` is inductive with `ClientType` (the values form a record
  of the right names) and `PollInv` (CURRENT is asked for once and last, no setpoint has
  changed more often than the device).
* `CurrentNeverStale`, `SlotsNeverStale` (`CurrentIsActive`, `SlotsAreCurrent`). Both
  properties speak of an empty line. The invariant, `CaughtUp`, speaks of a client without
  an excuse at any time. Before reports are on, whatever is on the line, in the backlog or
  known is what the device has (`Polled`): had it changed, the change would be `missed`. With
  reports on, what the line *will have taught* the client once it has been read is what the
  device has (`Heard`): `Tells` follows the active setback through the messages, `Settles`
  the value of one setback. `Named` is the heart of it: a value under the name of CURRENT
  stands behind the message that makes its setback the active one, so that the client
  puts it in the right place. Each message appended or read preserves the three (`HeardMore`,
  `HeardRest`), and reading the backlog before the line establishes them
  (`ListenHears`). `Kept` says what is known at all: what was asked for, unless a request
  timed out, and a value once shown as current. `AnsweredEffect` and `ApplyEffect` say what an
  answer and a report do to the client's values when it has no excuse.
* `SetsAreMoves`: `SpecSets => Spec`, step by step. A call's update is a change of the
  setpoint that the device would otherwise make by itself, and everything else that a
  call does leaves the variables of `Setpoints` alone. So the theorems above hold with a user.
* `CallsAreInOnePlace` (`ControlsOK`). `Places` says which calls are queued, wait for the
  lock or are on the line: none twice, none that was executed, and no two of a name in the
  queue, which is why replacing an update (`Enqueued`) leaves no copy.
* `LastCallWins` (`LastSetIsShown`). `InOrder`: unless a call passed another, executed calls
  come before those on the line, these before those waiting for the lock, and these before
  the queue, each in the order of the calls. `Effects`: a value that a call gave is at most
  what the device has now, and the client shows it or will hear of it; with `SlotsNeverStale` the
  client therefore shows that value or a later one.

They use `SetbackAssumption`, `BoundAssumption` and `ValueAssumption` (None is not a value).

### Framing

`TpckProofs`, for any alphabet that holds the three special bytes and any packets that
fit it. The stuffing and the checksum are folds over data of any length. The provers
cannot apply an induction theorem that takes an operator, so induction is done by the least
counterexample: `Induction` and `SubsetInduction` follow from the library's well-founded
order on the natural numbers. With them `FlattenUnfolds` and
`SumUnfolds` give the folds their recursive equations, and from those follow:

* `StuffConcat`, `StuffPosition`: stuffing is a homomorphism, and a byte on the line that is
  not stuffed stands for exactly one byte of the body;
* `ChecksumOfPut`: changing one value by less than the modulus changes the checksum;
* `MisreadForm`: a frame with one misread byte is the intact frame of a body that
  differs from what was sent in one value.

`ParserTypeCorrect` needs that the parser's payload is empty before the length is known and
then shorter than it.

`InStepAgain` (`IntactFrameResynchronises`): `InStep` says that what is left of an intact
frame is the end of one (`Ends`), so that its last byte is an EOF that is either read as such
or ends an escape. A strict error may take any part of the frame with it and leaves the
parser unescaped, so `InStep` holds at whatever byte a new chunk begins.

`IntactDelivered` and `MisreadRejected` share `ParseInv`. `packets = due` is
`IntactFrameDelivered`; beside it stands that, in a frame that is not garbled and that the
parser has read from its start (`Whole`), what has been collected followed by what is still
to come is the body of the frame (`Progress`). So at the end of the frame the comparison
of the checksums decides between the packet and nothing (`Outcome`), in the last step of
`feed` and nowhere before. The end of a call leaves `Progress` alone, which is why it does
not matter where a chunk ends as long as no strict error does. They use
`ByteAssumption` and `PacketAssumption`.

### Only model-checked

* All liveness, which is out of the prover's reach: `CallsEnd`, `UpdatesAnswered`, `StopEnds`,
  `Reconnects`, `DiscoverEnds`.
* The findings: each is a counterexample, and TLC has it.

## What is not modelled

* Numbers of services and methods, the aliases of names and the errors for unknown ones.
* Clock values: where a deadline can pass, it may pass at any moment.
* What the transport does with chunks around the parser: the packet deque, the end of the
  stream, closing the connection when a strict parser raises; and the serial and TCP
  connection factories.
* Single getters, `set_datetime` and the updates of gateway flags: one request
  each, of the kind that `Session` models. Callbacks for errors and topology: they change no state.
* The optional `setback_enable` update of `discover()`; two `discover()` calls at a time (with a
  fault, two tasks have more states than TLC can visit in minutes).
* The views and names in `models.py`, `decoding.py` and `constants.py` that display raw
  values: pure functions that nothing in the library decides by.
* The command line, the trace replay transport, the package surface, exceptions.

## Plan

In this order:

1. `Discovery` with two tasks: concurrent walks that share the backlog, over a line
   with one queue instead of two, and in a configuration for safety only.
2. The transport's data path: `data_received` with a parser that raises, the packet deque,
   end of stream.
3. What a `start()` that fails half-way leaves behind: `ReportingOn` for a controller that
   is not running, with the cases that a closed connection excuses.

The abstract specification still worth stating is the one of a report stream: a
lossy queue that keeps the newest messages in order and ends. `Session` would
implement it per subscriber.
