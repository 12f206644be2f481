------------------------------ MODULE FieldBus ------------------------------
(***************************************************************************)
(* The field bus of the gateway and the tasks that use it at the same      *)
(* time: UDPBus (gateway/udp_bus.py), northbound commands                  *)
(* (GatewayAPI._execute_command), the raw send of the remote debugging     *)
(* option (gateway/raw_send.py), the state sweep after a discovery         *)
(* (gateway/state_poll.py) and the state kept by the DeviceRegistry.       *)
(*                                                                         *)
(* Everything runs on one asyncio loop.  A step is what runs between two   *)
(* suspension points.  The clock moves by one with every frame that is     *)
(* sent or received, so no two frames of a module have the same timestamp, *)
(* as on the code's nanosecond clock.  A task that can go on is resumed    *)
(* within Lag: Python 3.11's wait_for needs a few turns of the loop, and   *)
(* other datagrams can be handled in between.                              *)
(*                                                                         *)
(* The modules and the network are the environment.  A module's outputs    *)
(* are seen only through its replies, so a request and its handling by the *)
(* module are one step, and the reply comes any time later, in order.  A   *)
(* request or a reply may be lost, and that too is decided at the send.    *)
(***************************************************************************)
EXTENDS ReplyTiming, FiniteSets

CONSTANTS
  Modules, Channels,
  Dimmers,      \* the modules that are dimmers; the others are relays
  Echoing,      \* relays of the older generation: they echo a command
  Commands,     \* northbound commands, one task each
  Orders,       \* what a command may be: triples <<module, channel, action>>
  RawSends,     \* raw sends, one task each
  Probes,       \* what a raw send may be: triples like Orders
  SweepKeys,    \* the sweep's queries, in order: pairs <<module, channel>>
  Window,       \* window_ms of a raw send
  MaxReplies,   \* MAX_REPLIES of a raw send
  QueueMax,     \* _CORRELATE_QUEUE_MAX
  RecentMax,    \* _RECENT_PACKETS_MAX
  PollEvery,    \* actuator_poll_interval_s
  Lag,          \* bound on how late the loop resumes a task
  MaxClock      \* bound of the model's clock

Sweep == "sweep"
Tasks == Commands \cup RawSends \cup {Sweep}
Keys == Modules \X Channels
Values == {"off", "on"}

ASSUME TasksAssumption ==
  Commands \cap RawSends = {} /\ Sweep \notin Commands \cup RawSends
ASSUME WindowAssumption == Window \in Nat
ASSUME LimitsAssumption ==
  Lag \in Nat /\ MaxReplies \in Nat /\ {QueueMax, RecentMax} \subseteq Nat \ {0}
ASSUME TypesAssumption == Dimmers \subseteq Modules /\ Echoing \subseteq Modules \ Dimmers
ASSUME SweepAssumption == SweepKeys \in Seq(Keys)
ASSUME OrdersAssumption == \A o \in Orders :
  /\ <<o[1], o[2]>> \in Keys /\ o[3] \in {"ON", "OFF", "TOGGLE", "DIM_START"}
  /\ o[3] = "DIM_START" => o[1] \in Dimmers
ASSUME ProbesAssumption == \A p \in Probes : <<p[1], p[2]>> \in Keys /\ p[3] \in {"ON", "OFF", "QUERY"}

VARIABLES
  now,
  phys,     \* phys[k]: the output of channel k, as it is
  net,      \* net[m]: replies on their way from module m
  recent,   \* UDPBus._recent_packets
  hold,     \* UDPBus._status_hold_until, 0 for none
  nextPoll, \* UDPBus._next_poll_ts of the actuators
  timing,   \* UDPBus.reachability
  state,    \* DeviceRegistry: the state kept for every channel
  view,     \* what a connected client has been told of every channel
  task,     \* the tasks' locals
  pos,      \* the sweep: index of the next query
  seeded,   \* the sweep: `updated'
  sent, heard, lost,        \* history of the tracker, as in Reachability
  version, shown, silent    \* history of the outputs, see below

(***************************************************************************)
(* version[k] counts the changes of output k, shown[k] is the version that *)
(* state[k] was taken from, and silent[k] is the newest version the        *)
(* registry is excused for not showing: its report was never sent, was     *)
(* lost, did not say the value, came in the window of a raw send to the    *)
(* module, or was overwritten by an older answer to the sweep.             *)
(*                                                                         *)
(* A definition whose name ends in a bug's name (..._NoSource) is a faulty *)
(* variant of the one after it: a property must fail with it in its place. *)
(***************************************************************************)
bus == <<recent, hold, nextPoll>>
world == <<phys, net, version, silent>>
registry == <<state, view, shown>>
tracker == <<timing, sent, heard, lost>>
vars == <<now, world, bus, tracker, registry, task, pos, seeded>>

NoTask == [pc |-> "idle", mod |-> "none", ch |-> "none", after |-> 0,
           deadline |-> 0, queue |-> <<>>, got |-> <<>>, result |-> "none"]

Waiting(t) == task[t].pc = "waiting"

Init ==
  /\ now = 0
  /\ phys = [k \in Keys |-> "off"]
  /\ net = [m \in Modules |-> <<>>]
  /\ recent = <<>>
  /\ hold = [m \in Modules |-> 0]
  /\ nextPoll = 0
  /\ timing = [m \in Modules |-> NewTiming]
  /\ state = [k \in Keys |-> "unseen"]
  /\ view = state
  /\ task = [t \in Tasks |-> NoTask]
  /\ pos = 0
  /\ seeded = 0
  /\ sent = [m \in Modules |-> {}]
  /\ heard = [m \in Modules |-> {}]
  /\ lost = [m \in Modules |-> {}]
  /\ version = [k \in Keys |-> 0]
  /\ shown = [k \in Keys |-> 0]
  /\ silent = [k \in Keys |-> -1]

-----------------------------------------------------------------------------
(***************************************************************************)
(* The clock                                                               *)
(***************************************************************************)

\* No task that can go on has been waiting for the loop longer than Lag.
LoopKeepsUp ==
  \A t \in Tasks : Waiting(t) =>
    /\ now < task[t].deadline + Lag
    /\ task[t].queue # <<>> => now < Head(task[t].queue).ts + Lag

Advance ==
  /\ now < MaxClock
  /\ LoopKeepsUp
  /\ now' = now + 1

Tick == Advance /\ UNCHANGED <<world, bus, tracker, registry, task, pos, seeded>>

-----------------------------------------------------------------------------
(***************************************************************************)
(* The modules and the network                                             *)
(***************************************************************************)

Answer(m, kind, c, v, n) ==
  [src |-> m, kind |-> kind, ch |-> c, val |-> v, version |-> n, ts |-> 0]

\* What a request makes of an output: a ramp ends anywhere.
Outcomes(m, req) ==
  LET flip == IF phys[<<m, req.ch>>] = "on" THEN "off" ELSE "on" IN
  CASE req.kind = "set" -> {req.val} [] req.kind = "toggle" -> {flip}
    [] req.kind = "ramp" -> Values

\* Relays of the older generation echo the command, and the echo of a toggle
\* does not say the new state.  Nothing answers a ramp.
Report(m, req, v) ==
  Answer(m, IF m \in Echoing THEN "echo" ELSE "status", req.ch,
         IF m \in Echoing /\ req.kind = "toggle" THEN "unknown" ELSE v,
         version[<<m, req.ch>>] + 1)

Reply(m, pkt) == net' = [net EXCEPT ![m] = Append(@, pkt)]

\* A request that changes an output: lost, carried out without a report that
\* arrives, or carried out and reported.
Deliver(m, req) ==
  LET k == <<m, req.ch>> IN
  \/ UNCHANGED world
  \/ \E v \in Outcomes(m, req) :
       /\ phys' = [phys EXCEPT ![k] = v]
       /\ version' = [version EXCEPT ![k] = @ + 1]
       /\ \/ /\ silent' = [silent EXCEPT ![k] = version[k] + 1]
             /\ UNCHANGED net
          \/ /\ req.kind # "ramp"
             /\ Reply(m, Report(m, req, v))
             /\ UNCHANGED silent

\* A question to a module: lost, it or its answer, or answered.
Ask(m, req) ==
  /\ \/ UNCHANGED net
     \/ Reply(m, Answer(m, "status", req.ch, phys[<<m, req.ch>>], version[<<m, req.ch>>]))
  /\ UNCHANGED <<phys, version, silent>>

Transmit(m, req) == IF req.kind = "query" THEN Ask(m, req) ELSE Deliver(m, req)

-----------------------------------------------------------------------------
(***************************************************************************)
(* UDPBus                                                                  *)
(***************************************************************************)

\* status_held: an expired hold is dropped when it is looked at.
Held(m, t) == hold[m] # 0 /\ t < hold[m]
DropExpired(h, S, t) == [m \in Modules |-> IF m \in S /\ t >= h[m] THEN 0 ELSE h[m]]

\* The tracker's records after a call, with the history of counted misses.
Track(S, r(_)) ==
  /\ timing' = [m \in Modules |-> IF m \in S THEN r(timing[m]) ELSE timing[m]]
  /\ lost' = [m \in Modules |->
       IF m \in S /\ r(timing[m]).missed # timing[m].missed
       THEN lost[m] \cup {timing[m].pending} ELSE lost[m]]

Await_Untold(S, t) ==
  /\ sent' = [m \in Modules |-> IF m \in S THEN sent[m] \cup {t} ELSE sent[m]]
  /\ UNCHANGED <<timing, heard, lost>>

\* send_command with expect_reply, at time t, to the modules of S.
Await(S, t) ==
  LET NoteIt(s) == NoteSend(s, t) IN
  /\ Track(S, NoteIt)
  /\ sent' = [m \in Modules |-> IF m \in S THEN sent[m] \cup {t} ELSE sent[m]]
  /\ UNCHANGED heard

\* The predicate on the payload that only the sweep gives.
Expected(t, tsk, pkt) == t = Sweep => pkt.kind = "status" /\ pkt.ch = tsk.ch

Match_NoSource(t, tsk, pkt) == pkt.ts >= tsk.after

\* _match_reply
Match(t, tsk, pkt) ==
  /\ pkt.src = tsk.mod
  /\ pkt.ts >= tsk.after
  /\ Expected(t, tsk, pkt)

\* A bounded queue that drops its oldest element.
PushBounded(q, x, max) == IF Len(q) < max THEN Append(q, x) ELSE Append(Tail(q), x)

\* The locals of a task that just sent to m at time t and starts to wait.
\* _find_recent_reply and the loop over _recent_packets look back first.
StartWait(t, m, c, at, span) ==
  LET w == [NoTask EXCEPT !.pc = "waiting", !.mod = m, !.ch = c, !.after = at,
                          !.deadline = at + span]
      Fits(pkt) == Match(t, w, pkt)
  IN [w EXCEPT !.queue = IF \E i \in DOMAIN recent : Fits(recent[i])
                         THEN SelectSeq(recent, Fits) ELSE <<>>]

Larger(a, b) == IF a > b THEN a ELSE b

Informs_NoEcho(pkt) == pkt.kind = "status" /\ pkt.val \in Values

\* DeviceRegistry.handle_packet: does a packet say the value of its channel?
Informs(pkt) == pkt.kind \in {"status", "echo"} /\ pkt.val \in Values

\* History: the packet says nothing, or a raw send to its module has its window.
Excused(pkt) ==
  \/ pkt.val \notin Values
  \/ \E r \in RawSends : task[r].mod = pkt.src /\ now + 1 < task[r].deadline

HandlePacket(pkt, ignore) ==
  LET k == <<pkt.src, pkt.ch>> IN
  IF Informs(pkt) /\ ~ignore
  THEN /\ state' = [state EXCEPT ![k] = pkt.val]
       /\ view' = IF state[k] # pkt.val THEN [view EXCEPT ![k] = pkt.val] ELSE view
       /\ shown' = [shown EXCEPT ![k] = pkt.version]
       /\ silent' = [silent EXCEPT ![k] = IF pkt.version >= @ THEN -1 ELSE @]
  ELSE /\ silent' = [x \in Keys |->
            IF x = k /\ pkt.version > shown[x] /\ Excused(pkt)
            THEN Larger(silent[x], pkt.version) ELSE silent[x]]
       /\ UNCHANGED registry

\* _notify_listeners: a datagram of m is handled.
Receive(m) ==
  /\ net[m] # <<>>
  /\ Advance
  /\ LET pkt == [Head(net[m]) EXCEPT !.ts = now + 1]
         NoteIt(s) == NoteReply(s, now + 1)
     IN /\ recent' = PushBounded(recent, pkt, RecentMax)
        /\ hold' = DropExpired(hold, {m}, now + 1)
        /\ Track({m}, NoteIt)
        /\ HandlePacket(pkt, Held(m, now + 1))
        /\ task' = [t \in Tasks |->
             IF Waiting(t) THEN [task[t] EXCEPT !.queue = PushBounded(@, pkt, QueueMax)]
             ELSE task[t]]
  /\ net' = [net EXCEPT ![m] = Tail(@)]
  /\ heard' = [heard EXCEPT ![m] = @ \cup {now + 1}]
  /\ UNCHANGED <<phys, version, nextPoll, sent, pos, seeded>>

\* _poll_due_modules: a keepalive to every module whose status is not held.
Poll ==
  /\ now >= nextPoll
  /\ Advance
  /\ nextPoll' = now + PollEvery
  /\ hold' = DropExpired(hold, Modules, now)
  /\ LET due == {m \in Modules : ~Held(m, now)} IN
     /\ Await(due, now + 1)
     /\ \E answering \in SUBSET due :
          net' = [m \in Modules |->
            IF m \in answering THEN Append(net[m], Answer(m, "pulse", "none", "unknown", 0))
            ELSE net[m]]
  /\ UNCHANGED <<phys, version, silent, recent, registry, task, pos, seeded>>

-----------------------------------------------------------------------------
(***************************************************************************)
(* Northbound commands                                                     *)
(***************************************************************************)

Request(c, a) ==
  [kind |-> CASE a \in {"ON", "OFF"} -> "set" [] a = "TOGGLE" -> "toggle"
              [] a = "DIM_START" -> "ramp" [] a = "QUERY" -> "query",
   ch |-> c, val |-> IF a = "ON" THEN "on" ELSE "off"]

\* _execute_command up to its first suspension: encode, send, and look back
\* for a reply.  DIM_START has no reply and does not wait.  An unknown entity,
\* an inactive channel or an action of the other type returns before a send.
Command(t, m, c, a) ==
  /\ task[t].pc = "idle"
  /\ Advance
  /\ IF a = "DIM_START"
     THEN /\ UNCHANGED tracker
          /\ task' = [task EXCEPT ![t] = [NoTask EXCEPT !.pc = "done", !.mod = m,
                                                        !.result = "sent"]]
     ELSE /\ Await({m}, now + 1)
          /\ task' = [task EXCEPT ![t] = StartWait(t, m, c, now + 1, Timeout)]
  /\ Transmit(m, Request(c, a))
  /\ UNCHANGED <<bus, registry, pos, seeded>>

\* correlate_reply: the task takes packets from its queue until one matches
\* or the deadline has passed.  A timeout that fires between the arrival of a
\* packet and the turn of the task wins: the packet stays in the queue.
Taken(t) == Head(task[t].queue)
Matches(t) == task[t].queue # <<>> /\ Match(t, task[t], Taken(t))
GivesUp_Impatient(t) == task[t].queue = <<>>
GivesUp(t) == now >= task[t].deadline

Finish(t, result, got) ==
  task' = [task EXCEPT ![t].pc = "done", ![t].result = result, ![t].got = got,
                       ![t].queue = <<>>]

\* A packet that does not match is dropped, and the wait goes on.
Skip(t) ==
  /\ Waiting(t)
  /\ task[t].queue # <<>> /\ ~Matches(t) /\ now < task[t].deadline
  /\ task' = [task EXCEPT ![t].queue = Tail(@)]
  /\ UNCHANGED <<now, world, bus, tracker, registry, pos, seeded>>

CommandConfirmed(t) ==
  /\ Waiting(t) /\ Matches(t)
  /\ Finish(t, "confirmed", <<Taken(t)>>)
  /\ UNCHANGED <<now, world, bus, tracker, registry, pos, seeded>>

CommandUnconfirmed(t) ==
  /\ Waiting(t) /\ GivesUp(t)
  /\ LET NoteIt(s) == NoteTimeout(s, now) IN Track({task[t].mod}, NoteIt)
  /\ Finish(t, "unconfirmed", <<>>)
  /\ UNCHANGED <<now, world, bus, sent, heard, registry, pos, seeded>>

-----------------------------------------------------------------------------
(***************************************************************************)
(* Raw sends                                                               *)
(***************************************************************************)

\* RawSend._busy is set while the one send in progress collects its replies.
Busy == \E r \in RawSends : Waiting(r)

HoldStatus_Shortest(h, m, until) == [h EXCEPT ![m] = IF until < @ THEN until ELSE @]

HoldStatus(h, m, until) == [h EXCEPT ![m] = IF until > @ THEN until ELSE @]
ReleaseHold(h, m) == [h EXCEPT ![m] = 0]

\* RawSend.send up to its first suspension.  A bus that cannot send (its
\* transport is closed) raises, and the hold is released.
RawSend(r, m, c, a) ==
  /\ task[r].pc = "idle"
  /\ ~Busy
  /\ Advance
  /\ hold' = HoldStatus(hold, m, now + 1 + Window)
  /\ Transmit(m, Request(c, a))
  /\ task' = [task EXCEPT ![r] = StartWait(r, m, c, now + 1, Window)]
  /\ UNCHANGED <<recent, nextPoll, tracker, registry, pos, seeded>>

RawSendFails(r, m) ==
  /\ task[r].pc = "idle"
  /\ ~Busy
  /\ hold' = ReleaseHold(HoldStatus(hold, m, now + Window), m)
  /\ task' = [task EXCEPT ![r].pc = "done", ![r].result = "failed"]
  /\ UNCHANGED <<now, world, recent, nextPoll, tracker, registry, pos, seeded>>

RawSendRefused(r) ==
  /\ task[r].pc = "idle"
  /\ Busy
  /\ task' = [task EXCEPT ![r].pc = "done", ![r].result = "raw_send_busy"]
  /\ UNCHANGED <<now, world, bus, tracker, registry, pos, seeded>>

RawCollect_First(r) ==
  /\ Waiting(r) /\ Matches(r)
  /\ Finish(r, "ok", <<Taken(r)>>)
  /\ UNCHANGED <<now, world, bus, tracker, registry, pos, seeded>>

\* collect_replies: every match is kept, one over the limit ends the wait.
RawCollect(r) ==
  /\ Waiting(r) /\ Matches(r)
  /\ IF Len(task[r].got) = MaxReplies
     THEN Finish(r, "truncated", task[r].got)
     ELSE IF now >= task[r].deadline
     THEN Finish(r, "ok", Append(task[r].got, Taken(r)))
     ELSE task' = [task EXCEPT ![r].got = Append(@, Taken(r)), ![r].queue = Tail(@)]
  /\ UNCHANGED <<now, world, bus, tracker, registry, pos, seeded>>

RawWindowOver(r) ==
  /\ Waiting(r) /\ GivesUp(r)
  /\ Finish(r, "ok", task[r].got)
  /\ UNCHANGED <<now, world, bus, tracker, registry, pos, seeded>>

-----------------------------------------------------------------------------
(***************************************************************************)
(* The state sweep after a discovery (main.py, _safe_actuator_sweep)       *)
(***************************************************************************)

\* _apply_installation schedules the sweep.
SweepStart ==
  /\ pos = 0 /\ task[Sweep].pc = "idle"
  /\ pos' = 1
  /\ UNCHANGED <<now, world, bus, tracker, registry, task, seeded>>

Sweeping == pos # 0

\* The query of the next channel.
SweepQuery ==
  /\ Sweeping /\ ~Waiting(Sweep) /\ pos <= Len(SweepKeys)
  /\ Advance
  /\ LET m == SweepKeys[pos][1]
         c == SweepKeys[pos][2]
     IN /\ Await({m}, now + 1)
        /\ Transmit(m, Request(c, "QUERY"))
        /\ task' = [task EXCEPT ![Sweep] = StartWait(Sweep, m, c, now + 1, Timeout)]
  /\ UNCHANGED <<bus, registry, pos, seeded>>

\* The answer: seed_relay_state, seed_dimmer_state.  No client is told.
Seed(k, pkt) ==
  /\ state' = [state EXCEPT ![k] = pkt.val]
  /\ shown' = [shown EXCEPT ![k] = pkt.version]
  /\ silent' = [silent EXCEPT ![k] = IF pkt.version < shown[k] THEN Larger(@, shown[k])
                                     ELSE IF pkt.version >= @ THEN -1 ELSE @]
  /\ UNCHANGED view

SweepSeeds ==
  /\ Waiting(Sweep) /\ Matches(Sweep)
  /\ Seed(SweepKeys[pos], Taken(Sweep))
  /\ Finish(Sweep, "none", <<>>)
  /\ pos' = pos + 1
  /\ seeded' = seeded + 1
  /\ UNCHANGED <<now, phys, net, version, bus, tracker>>

SweepNoAnswer ==
  /\ Waiting(Sweep) /\ GivesUp(Sweep)
  /\ Finish(Sweep, "none", <<>>)
  /\ pos' = pos + 1
  /\ UNCHANGED <<now, world, bus, tracker, registry, seeded>>

SweepEnd_OffByOne ==
  /\ pos > Len(SweepKeys) /\ Sweeping
  /\ pos' = 0
  /\ seeded' = 0
  /\ view' = IF seeded > 1 THEN state ELSE view
  /\ UNCHANGED <<now, world, bus, tracker, state, shown, task>>

\* After the last query, a snapshot goes to every client if a channel was seeded.
SweepEnd ==
  /\ pos > Len(SweepKeys) /\ Sweeping
  /\ pos' = 0
  /\ seeded' = 0
  /\ view' = IF seeded > 0 THEN state ELSE view
  /\ UNCHANGED <<now, world, bus, tracker, state, shown, task>>

-----------------------------------------------------------------------------
CommandStep(t) ==
  \/ \E o \in Orders : Command(t, o[1], o[2], o[3])
  \/ CommandConfirmed(t) \/ CommandUnconfirmed(t)

RawStep(r) ==
  \/ \E p \in Probes : RawSend(r, p[1], p[2], p[3]) \/ RawSendFails(r, p[1])
  \/ RawSendRefused(r) \/ RawCollect(r) \/ RawWindowOver(r)

SweepStep == SweepStart \/ SweepQuery \/ SweepSeeds \/ SweepNoAnswer \/ SweepEnd

Next ==
  \/ Tick
  \/ \E m \in Modules : Receive(m)
  \/ Poll
  \/ \E t \in Tasks : Skip(t)
  \/ \E t \in Commands : CommandStep(t)
  \/ \E r \in RawSends : RawStep(r)
  \/ SweepStep

Spec == Init /\ [][Next]_vars

-----------------------------------------------------------------------------
\* module_confirmed is true only when a packet of that very module was
\* handled after the send and, but for Lag, before the reply window closed.
ConfirmedByReply ==
  \A t \in Commands : task[t].result = "confirmed" =>
    LET pkt == task[t].got[1] IN
    /\ pkt.src = task[t].mod
    /\ task[t].after <= pkt.ts /\ pkt.ts <= task[t].deadline + Lag

\* module_confirmed is false only when no packet of the module was handled in
\* the reply window, but for its last Lag: not even behind other packets.
NoMissedConfirmation ==
  \A t \in Commands : task[t].result = "unconfirmed" =>
    \A at \in heard[task[t].mod] : at < task[t].after \/ at >= task[t].deadline - Lag

\* A raw send returns every packet of its module that came in its window, in
\* order and nothing else, unless it says that the list was cut.
RawRepliesComplete ==
  \A r \in RawSends : task[r].result \in {"ok", "truncated"} =>
    LET got == task[r].got
        at == {got[i].ts : i \in DOMAIN got}
        inside == {x \in heard[task[r].mod] :
                     task[r].after <= x /\ x < task[r].deadline - Lag}
    IN /\ \A i \in DOMAIN got : got[i].src = task[r].mod /\ got[i].ts >= task[r].after
       /\ \A i, j \in DOMAIN got : i < j => got[i].ts < got[j].ts
       /\ IF task[r].result = "ok" THEN inside \subseteq at
          ELSE Len(got) = MaxReplies

\* When no reply of a module is under way, the registry shows the output as it
\* is, unless the last change was not reported, its report was lost or came in
\* the window of a raw send, or the sweep wrote an older answer over it.
QuietInSync ==
  \A k \in Keys :
    net[k[1]] = <<>> /\ silent[k] < version[k]
      => state[k] = phys[k] \/ (version[k] = 0 /\ state[k] = "unseen")

\* Outside a sweep every client has been told the state the registry keeps:
\* the silent writes of the sweep are made good by the snapshot at its end.
ClientsAreCurrent == ~Sweeping => view = state

\* A module's packets are held only for a raw send that reached the bus, and while
\* such a send collects its replies no packet changes the registry's state of the
\* module: only the sweep still writes it.
HeldForRawSends ==
  /\ [](\A m \in Modules : hold[m] > now =>
         \E r \in RawSends : task[r].mod = m /\ hold[m] = task[r].deadline)
  /\ [][\A r \in RawSends : Waiting(r) /\ now' < task[r].deadline /\ seeded' <= seeded =>
          \A c \in Channels : state'[<<task[r].mod, c>>] = state[<<task[r].mod, c>>]]_vars

\* gateway_api.py says of a raw send: "Status updates for that module are held
\* until the window ends."  The sweep after a discovery does not ask.
HoldFreezesStatus ==
  [][\A r \in RawSends : Waiting(r) /\ now' < task[r].deadline =>
       \A c \in Channels : state'[<<task[r].mod, c>>] = state[<<task[r].mod, c>>]]_vars

\* The bus uses every module's record as ReachabilityTracker's specification
\* says: with it come the theorems on missed replies.
One(m) == INSTANCE Reachability WITH
  Modules <- {m}, timing <- [x \in {m} |-> timing[m]], sent <- [x \in {m} |-> sent[m]],
  heard <- [x \in {m} |-> heard[m]], lost <- [x \in {m} |-> lost[m]]

UsesTracker ==
  /\ \A m \in Modules : One(m)!Init
  /\ [][\A m \in Modules : One(m)!StepAt(now') \/ UNCHANGED One(m)!vars]_vars

\* missed_replies counts only real misses on this bus, where commands, queries
\* and keepalives share a record and the replies of raw sends come in too.
MissesAreReal == \A m \in Modules : One(m)!MissesAreReal

\* A miss is not forgotten: it was counted, or will be by the next packet or send.
NoMissForgotten == \A m \in Modules : One(m)!NoMissForgotten
=============================================================================
