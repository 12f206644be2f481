# A verification model of the IPBuilding gateway

The gateway (`src/gateway`) sits between a field bus of UDP modules (relays,
dimmers, inputs) and northbound clients (REST, WebSocket, Home Assistant). It is
one Python process: one asyncio loop, plus worker threads for file writes and
network scans. This directory holds TLA+ modules for it, TLC configurations that
check them, and TLAPS proofs. `PROJECT.json` lists which definition models which
lines, which hazards of the code the properties are for, and the theorems.

## The system

| component | code | state it keeps | operations | correct when |
|---|---|---|---|---|
| field bus | `udp_bus.py` | transport, recent packets, next poll times, status holds, listeners | send, receive, keepalive, correlate one reply, collect all replies, hold | a wait returns what was received for it, and misses nothing |
| reachability tracker | `reachability.py` | per module: pending send, missed replies, last response times | note_send, note_reply, note_timeout | each missed reply is counted once and nothing else is |
| northbound commands | `gateway_api.py` `_execute_command` | none beyond its locals | encode, send, wait | `module_confirmed` is true iff the module was heard in the window, and what it "reported" is what it said |
| raw send, rate limits | `raw_send.py` | busy flag, windows per client and of all | validate, take a slot, send with a hold, collect | limits hold in every window; complete list of replies; hold on during the window, off afterwards |
| frame stream | `udp_frames.py` | subscribers with bounded queues | publish, subscribe, drain | every frame is delivered in order or told as dropped |
| log stream | `log_stream.py` | the same, and temporary log levels with timers | publish, replay, set level, expire | the same, and levels serve every request and come back |
| device registry | `device_registry.py` | state per channel, kind of module per address | handle_packet, seed, register | shows outputs as they are, clients are told |
| codecs | `payloads/`, `button_id.py` | none | encode, decode | a payload is read as what its sender meant |
| REST shim | `rest_shim.py` | none | action | the same command as over the API |
| state sweep | `state_poll.py`, `main.py` | position, number of seeded channels | query every active channel, seed, snapshot | silent writes are made good |
| button timing | `gateway_api.py` `_on_button_event` | per button: pressed, long press told, click count, two timers | press, release, two timeouts | each click is told once, in the right gesture |
| ARP monitor | `auto_discovery.py` `ArpMonitor` | per MAC: address, missed polls | poll | monitor, issues and events agree |
| atomic writer | `auto_discovery.py` `AtomicWriter` | `devices.json`, lock file | write, read_modify_write | no change is lost, failures change nothing |
| discovery | `auto_discovery.py`, `discovery.py`, `module_metadata.py` | installation, metadata of modules | start, scan, merge, refresh | the operator's configuration survives; the file can be loaded |
| installation | `installation.py`, `device_config.py` | modules, channels, buttons | parse, patch, synchronise, learn | what is written can be loaded |
| health monitor | `health.py` | open issues, last notified key | report, clear, snapshot | status is the worst open issue, changes are told |
| HA announcement | `ha_discovery.py` | published address, mDNS service, uuid of the Supervisor's entry | start, announce loop, stop | a real address is announced, again and again, and taken back |
| WebSocket and REST | `gateway_api.py` | connected clients | broadcast, snapshot, import, reset, patch | clients converge to the registry |
| process | `main.py` | | start, stop | parts start and stop in an order that lets them work |

How they interact. Every datagram goes through `UDPBus._notify_listeners`, which
feeds the recent packets, the tracker, the registry, the frame stream and every
waiting task, in one step. Commands, raw sends, the sweep and the keepalives all
send through `UDPBus.send_command` and share one pending record per module. The
registry calls the API back, which starts a broadcast task per change. Discovery
writes `devices.json` and calls back into `main.py`, which registers the modules
and starts a sweep and a refresh. REST patches, imports, resets and refreshes write
the same file from worker threads; button learning writes it from the loop.

What is hard: replies carry no request id; a timeout races the packet it waits
for; the sweep writes what it read before it was suspended; raw sends hide
packets from the registry; edges of buttons get lost or doubled while timers run
late; calls on the file overlap with a lock file that is removed; discovery merges
a file that it loaded before others changed it; modules move to each other's
addresses; a stop finds the announcement in any of its awaits. `PROJECT.json` lists
these hazards, each at its line.

## Modules

**`ReplyTiming`** has the tracker's record and its three handlers as functions.
**`Reachability`** is the tracker under any sequence of calls whose timestamps do
not decrease; it is the abstract specification of the tracker's use. History
variables keep the sends, the packets, and the sends that were counted as missed.

**`FieldBus`** composes the bus, commands, raw sends, the sweep and the registry.
A step is what the loop runs between two suspension points:

- `Receive` is `_notify_listeners`: recent packets, hold, tracker, registry and
  the queues of all waiting tasks.
- `Poll` is `_poll_due_modules` below log level DEBUG, where it has no suspension.
- `Command`, `CommandConfirmed`, `CommandUnconfirmed` are `_execute_command` up to
  its await, and its two ways on. `Skip` is a turn of `correlate_reply` with a
  packet that does not match.
- `RawSend`, `RawSendFails`, `RawSendRefused`, `RawCollect`, `RawWindowOver` are
  `RawSend.send` with `collect_replies`.
- `SweepStart` ... `SweepEnd` are `_safe_actuator_sweep` with the two sweeps.

Modules and network are the environment: requests and replies may be lost, and
replies take any time, in order per module. The value of a dimmer is on or off. A
client is told at once here; the order of broadcasts is in `Northbound`. The history
variables `version`, `shown` and `silent` say which change of an output the registry
shows and which changes it cannot show: no report was sent, it was lost, it did not
say the value (echo of a toggle), it came in the window of a raw send, or an older
answer to the sweep was written over it. `QuietInSync` is the claim that nothing
else makes the registry wrong.

`UsesTracker` is a refinement: for every module, the bus implements `Reachability`
with this one module. What is proved of the tracker therefore holds of the bus.

**`Payloads`** has the encoders and decoders as functions on a letter and its
digits. **`ButtonTiming`** is one button; buttons share no state. Edges come in any
order (lost, doubled). Timers are the time left, may run up to `Lag` late, and run
in the order they are due. **`Wire`** composes both with the registry: one module of
either kind and generation that answers in its own dialect, commands of the API and
of the REST shim, and the frames of wall buttons. `air` carries each payload with
what its sender meant by it, so a decoder that reads another module's payload as
its own shows.

**`RawRequest`** is the validation of a raw send. **`RemoteDebug`** has the sliding
windows with their eviction, and the frame hub: the subscription, its
acknowledgement, the bounded queue, the drain task between two sends to a slow
client, leaving, coming back and the stop. **`LogStream`** is the live log: `Line`
is a record from the logger to the queues; `Subscribe`, `SendReplay`, `Drain` and
`SendHand` are the handler and the drain task between two sends, each of which may
last and may fail (`SendFails`). `SetLevel`, `Expire`, `Leave` and `Detach` are the
temporary levels of the root logger; `promise` is what the owner of a request was
told. `SetLevel` takes its change from the rate limit first.

**`ArpMonitor`** is the poll with its callbacks in the orchestrator and the
`discovery.unreachable` issues. The table is any function, at every poll.
**`HaDiscovery`** is the announcement, one action from one await of its `start`,
loop or `stop` to the next, with the Supervisor as the environment: it lists,
refuses, answers late or never, and forgets. **`Gateway`** composes the two with the
health monitor in the order of `run_gateway`: the start with a file that loads,
does not or is absent, discoveries, refreshes and imports that change the issues,
and the stop of monitor, API and announcement in turn.

**`AtomicWriter`** has one action per system call of a call on `devices.json`.
Editors are `read_modify_write`; replacers are `run_forced_discovery`, which loads
the file before it takes the lock. Inodes are named after the call that made
them, so a lock file that was unlinked and one at the path differ.

**`Devices`** is `devices.json` as a value: when a document loads, what an edit, a
merge and a synchronisation make of it. **`Installation`** has all calls that read
and write it, between their suspensions: PATCH, import, reset, the refresh of one
module, the first sweep, the forced discovery with its merge, learned buttons, and
the start that clears a file that does not load. Modules move, go, come back and are
configured anew at any time. Its write is atomic; what happens when it is not is in
`AtomicWriter`. The history `edits` has the operator's labels. The history `mixed`
says that the gateway took one module for another: a module was at an address, or
had a button, that the file, a copy in memory or a call at work holds for another
one; or the cache, or a PATCH that waits for the lock, has a button or an address
that the file by now gives to another module. Three of its invariants hold until
then, and the two on memory whatever the hardware does.

**`Northbound`** is what WebSocket clients are told. `ready` is the loop's line of
tasks, first come first served, and `waiting` the tasks that wait for the socket of
a slow client. `Broadcast` is a task of `_broadcast` from one suspension to the
next: a send writes at once and then may wait. `Edit` and `Reload` are the two
halves of an import, reset, patch or merge around its worker thread; `Press` learns
a button on the loop. The client is modelled by what it shows after each message. The
history `removed` dates the last edit that took the button away: a press told before it
is no stray.

Definitions with a suffix (`Match_NoSource`) are faulty variants of the next
definition. A property is worth its run when it fails with one of them in place.

## Runs

| run | distinct states | what it shows |
|---|---|---|
| `MCFieldBus_commands` | 1.3 million | confirmations are right, the registry ends right, clients are told, the tracker is used as specified |
| `MCFieldBus_raw` | 1.5 million | raw replies are complete or said to be cut, missed replies are counted once, the hold works and ends |
| `MCFieldBus_hold` | violation | the sweep writes the state of a module whose status is held |
| `MCWire` | 161 thousand | payloads of both generations are read as they were meant; clicks are conserved, a long press is a hold, counts follow silence, every gesture is told in the end |
| `MCRemoteDebug` | 518 thousand | frames come in order or are told as dropped, no window has more raw sends than its limit |
| `MCLogStream` | 444 thousand | the same of log lines; levels serve every request and come back |
| `MCGateway` | 346 thousand | seen modules are reachable, gone ones reported, events match issues, clients know the health; an add-on announces an address of the LAN, is listed again after failures, and leaves nothing behind |
| `MCArpMonitor_consecutive` | violation | `device_removed` after polls that were missed, but not in a row |
| `MCAtomicWriter` | 378 thousand | two calls never overlap without a third, changes survive, failures leave nothing |
| `MCAtomicWriter_exclusion` | violation | three calls overlap |
| `MCInstallation` | 477 thousand | the file loads, the operator's edits survive, labels stay with their module, memory follows the file, packets of what is served are decoded |
| `MCNorthbound` | 523 thousand | clients end with the current state and configuration and no first press is lost, unless a slow client was before them; everyone is served |

Type invariants are parts of the inductive invariants in the proof modules; runs
check what could be wrong instead.

Bounds.

- *FieldBus:* a module that echoes, a dimmer, one channel each, two commands from
  `MCOrders`, a sweep of one channel, clock 6 with a window of 3: a task can start,
  be overtaken by the other's reply, time out, and a late reply can arrive. The
  list of recent packets (limit 1) overflows; a wait queue (limit 2) does not, because
  the loop is at most `Lag` (1) late, and confirmations rest on that (see Proofs). The
  keepalive runs once, at the start, because its interval (9) is beyond the clock. In the raw run the window (4) is
  longer than the reply window and two raw sends compete, so the busy refusal and a
  cut list (limit 2) happen. The raw run has no sweep, the commands run no raw send:
  together they are too large for a run, and `MCFieldBus_hold` is the combination
  that matters. The two commands are interchangeable (symmetry).
- *Wire:* a relay and a dimmer of each generation, with channel 0 and others; levels
  0, 30 and 150 (beyond the scale) and fades 0 and 300; one reply on the way, since
  `FieldBus` has their order. Ids of two buttons that differ in their last byte, and
  of one button with other bytes between. Thresholds 3 and 2 and a lag of 1 give
  every order of the two timers; clicks are cut at three, where the gestures are.
- *RemoteDebug:* four senders for a table of three, limits 2 and 3 in a window of 2
  and a clock of 3, so that windows slide and clients are forgotten; five frames for
  a queue of two; requests with one fault each, which must be refused.
- *LogStream:* subscribers share only the buffer, so one is enough, with a request of
  its own next to one over REST; two levels; a queue of one and a buffer of two lines,
  so that four lines overflow both and fall between two sends of a replay; timers up
  to 1 late; two changes per window.
- *Gateway:* one module and two addresses, so that it moves, and 2 polls to removal;
  modules share nothing but the status. Two entries at the Supervisor: one that was
  forgotten and the one after. The two answers of `MCInfos` hold a virtual interface
  before a real one and a primary one that is down. `ArpMonitor` alone has two
  modules, so that they can swap addresses.
- *AtomicWriter:* three editors are interchangeable (symmetry), one discovery; the
  overlap needs three calls.
- *Installation:* a relay, a relay that comes later, an input; three addresses, of
  which the spare one makes a move possible; one move or configuration, two calls at
  once out of a PATCH, an import, a refresh and two discoveries, two starts. The file
  is absent, good, or does not load. One document that is imported adds a module
  without a MAC, the other gives the relay's address to the relay that comes later,
  so that a PATCH that waits finds another module at its address.
- *Northbound:* the client that comes first in the list can be slow for the second;
  three messages are enough for one that waits, one that passes it and one more; an
  edit counts for the snapshot that it will send.

Deadlock is not checked: in each of these runs all calls may be done, or the process
be stopped. `MCArpMonitor_consecutive`, which never stops, keeps the check.

Fairness is assumed in three places. In `ButtonTiming` (and so `Wire`) time passes,
and the loop runs a due timer, as `call_later` promises; no edge of the button is
fair. Then `GesturesAreTold`: a button kept pressed is told with `long_press`, and
clicks are told when it is left alone. In `Northbound` the loop runs what is ready,
and a slow client reads again or is closed, which the heartbeat of the server sees to
(`gateway_api.py:417`); nobody has to connect. Then `EveryClientIsServed`. In
`Gateway` the announce loop goes on, since its sleep ends and its request has a
timeout, and a Supervisor that is asked again and again lists the entry at some time
(strong fairness: it may fail any number of times before). Then `ListedAgain`. The
other modules have safety properties only: replies, ARP entries and lock attempts are
not owed by anybody.

## What the code does not do

Three runs expect a violation, each of a sentence of the repository:

- A raw send holds status updates "until the window ends" (`gateway_api.py:1071`),
  but the sweep does not ask for the hold.
- `device_removed` needs "consecutive ARP polls" (`docs/api/websocket.md:307`), but
  the count is not reset when a module is seen at its old address.
- `read_modify_write` promises to "hold the lock" (`auto_discovery.py:255`), but
  every call unlinks the lock file at its end, also one that never had the lock.

Other observations, met while the code was translated. Where a property has an
exception for one of them, it is named; the models follow the code in all of them.

*Devices and discovery*
- A module that takes the recorded address of another one (`mixed`) makes the merge
  write two modules with one address, and a button wired to another input module a
  second button with one id. Such a file does not load, and PATCH answers 500.
- A PATCH finds its module by the address, or by the id of the button, again when it
  has the lock: after an import or a merge that gave the place to another module, it
  labels that one. The buttons of the cache, written after an import that moved one
  of them, put it at two modules. Both count as `mixed`.
- A record without a MAC takes the MAC of whatever a scan finds at its address,
  also when its labels are those of another module.
- `run_forced_discovery` loads the file before it has the lock, and writes all of it
  (`auto_discovery.py:484`): a change in between is lost. `ChangesSurvive` of
  `AtomicWriter` excepts it; in `Installation` the merge holds the loop, so only a
  write of a worker can come in between.
- A file that does not load is replaced at the next start, or by the next discovery,
  with the names and rooms in it, although `README_gateway.md:169` and the comment at
  `auto_discovery.py:757` say that a discovery keeps them. When it is replaced by an
  empty one, the callback is not called (`ClearUnloadable`).
- A PATCH of a channel's `active` is overwritten by the next synchronisation from the
  wire; a custom channel `id` is dropped by the next write.
- "Writes new modules ... with active:false" (`gateway_api.py:1097`) is not what
  `run_forced_discovery` does or says (`auto_discovery.py:460`: without the flag).
- A reload that fails after a merge leaves the runtime with the orchestrator's copy,
  which may be older than the file.
- An imported installation is not registered in the `DeviceRegistry`
  (`gateway_api.py:696`): `ServedIsRegistered` excepts it.
- `installation.load_failed` is never cleared, `installation.missing` not by an
  import, and `module_metadata.getSysSet.<ip>` stays after the module moved.

*Wire and buttons*
- The answer of an older dimmer for channel 0 at level 0 is byte for byte its idle
  reply, so it is no report. 99 % of a newer one is shown as 100 %.
- An OFF of a dimmer over the REST shim without a value sets it to 100 %, since only
  `value` counts and its default is 1. A DIM level
  outside 0 to 100 raises out of `_execute_command` and ends the WebSocket.
- With a hold threshold of at most the multi-press window, the end of a hold forgets a
  counted click (`ClicksConserved` assumes otherwise). When the window closes while
  the button is pressed again, a double press is told as two single ones.

*Streams and clients*
- A task that waits for a slow client is passed by the next one, and the clients after
  it get messages in the wrong order: an old state until the next change or snapshot,
  or a `button_event` before its `device_added`. Both invariants of `Northbound`
  except clients behind a slow one.
- The table of raw send clients grows past `_MAX_CLIENTS`: a new client has no hit
  yet, counts as the oldest and is the one that is kept (`raw_send.py:176`). The limits
  hold all the same.
- A subscription that waits for its acknowledgement when the API stops leaves a drain
  task behind, and its listener may attach again while the bus closes.

*Announcement*
- The construction of `AsyncZeroconf` and the conversion of the address are outside
  the `try` block, so an error there ends the process (`raised` in `HaDiscovery`).

## Proofs

Eight modules named `..._proofs` prove, for all values of the constants:

- *Missed replies* (`Reachability`). `MissesAreReal` and `NoMissForgotten` are not
  inductive: that a new miss is a different send needs that the pending send is not
  yet counted, is the newest one, and that no packet came since. `IInv` adds this,
  and that every send is pending, counted, answered or replaced in time. Assumption:
  timestamps do not decrease (one monotonic clock) and the window is not zero.
- *The bus uses the tracker* (`FieldBus`). `BusUsesTracker` is the refinement: the
  sends and packets of commands, raw sends, sweep and keepalives are `NoteSend`,
  `NoteReply` and `NoteTimeout` of the abstract tracker, and every other step
  stutters. It needs the types of the state and of the tasks' locals (`BusTypeOK`).
- *Missed replies on the bus* (`FieldBus`). `BusMissesAreReal` and `BusForgetsNoMiss`
  state the same two facts of the bus itself, for any number of modules and tasks. The
  prover does not take theorems through an instance with parameters, so `RecordsOK`
  carries the invariant of `Reachability` for every module through the bus's own steps.
- *A quiet bus is in sync* (`FieldBus`). `QuietBusIsInSync` from `NewsInv`: for every
  output that the registry shows otherwise than it is, a report of its last change is
  under way, or the change is one that cannot be shown (silent, lost, held, overwritten
  by the sweep). The report on the way says the truth, and what comes before it in the
  order of its module cannot undo it.
- *Holds and snapshots* (`FieldBus`). `RawSendsHold` from `HoldsAreOwned`: a hold that
  is still on has the deadline of a raw send to that module. `SnapshotMakesUp` from
  `SilentIsSeeded`: outside the sweep clients show the registry, inside it the two
  differ only while the sweep has counted a channel, and then its snapshot follows.
- *Confirmations and replies* (`FieldBus`). `ConfirmationIsReal`, `NoReplyIsMissed` and
  `RawRepliesAreComplete` from `WaitInv`, which looks at the locals of one task at a
  time (`TaskOK`). Packets in a queue are a tick apart and none is older than `Lag`, so
  a queue with room for more than `Lag` packets is never full and drops nothing; then
  every packet of the task's module since its send is in its queue or in its list
  (`Kept`), and at the deadline what is still queued came in the last `Lag`. What came
  before the send is never an answer, so a wait starts with an empty queue. Assumption:
  `Lag < QueueMax` (the code's queue has 64 places; a loop that is later than 64
  packets may well drop a reply).
- *Payloads and the registry* (`Wire`). `CommandsAreToldTheTruth` and
  `RegistryShowsLastReport` rest on one lemma per kind of answer: what a module of this
  kind and generation sends is decoded as it meant it, for every channel (relays 0 to 99,
  dimmers 0 to 7, assumed as the code's formats allow) and every level and fade.
  `ButtonsFollowFingers`: the id decoded from a frame is that of the button pressed.
  `WireHasTheButton` is the refinement to `ButtonTiming`; with it the theorems on
  gestures are stated of the composition (`GesturesBehindTheWire`).
- *Buttons* (`ButtonTiming`, in `Wire_proofs`). `Timers` ties each timer to the history: an armed long
  press timer and the time since the press add up to the threshold, an armed window
  and the time since the last click to the window. `LongOnlyWhenHeld` and
  `TellsAfterWindow` follow for all thresholds, windows and lags. `ClicksConserved`
  needs `HoldThreshold > Window`, an assumption of its theorem. `Order` adds which
  timer is due first.
- *Modules* (`ArpMonitor`, in `Gateway_proofs`). The count of missed polls is at least the number of polls
  a tracked module was absent, and an untracked one that was seen before has its issue
  open. `EventsFollowIssues` is the action property on top of it. `GatewayHasTheMonitor`
  and `GatewayReportsModules` carry them to the gateway with its starts and stops.
- *Limits and frames* (`RemoteDebug`). `RatesInv`: both tables hold every slot that is
  still in its window, although the table of clients evicts. Fewer than `GlobalLimit`
  clients have such a slot when one more is taken, so in a table with more than
  `MaxClients >= GlobalLimit` clients the oldest one has none. `HubInv` counts the
  frames since a subscription: delivered, in hand, in the queue and dropped.
- *Calls on the file* (`AtomicWriter`, in `Installation_proofs`). `FileInv`: the file, and what any call has read of it,
  has only changes of calls that succeeded. `EditInv`: until two calls overlap, an
  editor that has read the file has what is in it. `LockInv`: as long as no call is
  done all have opened the same inode, and one of them holds it; so two at work need a
  third that is done and unlinked it.
- *The installation* (`Installation`). `Core` is what holds whatever the hardware
  does: types, what each call holds at its stage, that what is served was loaded, that
  the modules of the runtime and of a file that loads are registered unless there was
  an import, and that the runtime is the file unless a call that wrote is still to
  reload. `GatewayServesTheFile` and `GatewayKnowsWhatItServes` follow. None of the
  other three is inductive: a call can hold what it will write for any time. `Clean`
  adds, until `mixed`, that the file loads, holds the operator's edits and no label
  of another module; that the document of a merge does so too, for the edits it
  was loaded with; and that the cache and what a refresh has read hold of every
  module what this one said, and no button twice. One lemma for each writer of the file says
  that it keeps this: `Patched`, `Learned`, `WithWireButtons`, `WithWireChannels`,
  and `Merge`, for which the modules of a scan are matched one to one, by MAC or by
  address. Assumptions: there are finitely many modules, what is imported or is there at
  first has no labels of another module, no two modules have one address or one
  button at the same time; a PATCH, an import, a discovery and a refresh are different
  calls.
- *Health and announcement* (`Gateway`). `HealthInv`: the last notified key is the
  key of the open issues. `HaInv`: the uuids of the Supervisor grow, so an entry that
  the gateway was told of is the one it remembers; the loop ends before the stop goes on.
  `AnnouncesKept`: an add-on keeps no address but one of the LAN. Assumption: the
  addresses of containers are on virtual interfaces only.
- *Log levels* (`LogStream`). `LevelsInv`: the root logger has the most verbose level
  that is requested, and a timer belongs to the request it ends.
- *Log lines* (`LogStream`). `LinesStayInOrder` and `DropsAreAlwaysTold` from
  `DeliveryInv`: replay, hand and queue of a subscriber hold lines in order, each part
  after the last line delivered, and every line since its subscription is delivered, on
  its way or counted as dropped. A replay is what is left of the buffer below a level;
  `NthIsThere` and `NthInOrder` are the facts about the choice that keeps its order.
- *Clients* (`Northbound`). `ClientsEndCurrent` and `ButtonsComeFirst`. A client shows a
  state, the edits and whether there is the button. For each of these views the line of
  tasks, run to its end, leaves every client that is not behind with the truth
  (`Settles`: what says something else is followed by a task that says the truth, or
  all show it). What stands before the event of a press leaves them with the button,
  and what is left of a task that has begun is for clients behind a slow one only.

Assumptions on constants are named in the modules and evaluated by the runs.

Every safety property of the runs is proved. Only model-checked are the three
liveness properties `EveryClientIsServed`, `GesturesAreTold` and `ListedAgain`: they
rest on fairness, which the prover cannot use. The three sentences of the repository
that a run refutes are, of course, not proved.

## Not modelled

`PROJECT.json` gives every component with its status. Left out for good, because no
state that other code reads depends on it: the web page, the notifications of Home
Assistant, the text and the redaction of log lines, lists and views, capture and
analysis scripts, the add-on image, tests, the parser of export files and the reading
of options.

Left out of modelled components: the simulated mode of the bus, the wait for an echo
at log level DEBUG and the log of unmatched replies; the J envelope of older relays;
the probe on port 10001; the text of HTTP answers and of the ARP table, and the
retries of one request (a module answers all requests of a scan or none); firmware,
watts and other fields that only pass through; the length of the back-off, the file of
the instance id and the switches of the announcement; a power cut between a rename and
the disk.
