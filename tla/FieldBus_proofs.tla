--------------------------- MODULE FieldBus_proofs ----------------------------
(***************************************************************************)
(* The field bus, proved for every number of modules, commands and raw     *)
(* sends, and for all windows: the hold of a raw send, what clients are    *)
(* told of the sweep, the use of the reply tracker and what the tracker    *)
(* counts, the registry in sync with the outputs of a quiet bus, and what  *)
(* commands and raw sends find in their queues.  The last also takes a     *)
(* loop that resumes a task before its queue is full: Lag < QueueMax.      *)
(***************************************************************************)
EXTENDS FieldBus, TLAPS

Packet == [src : Modules, kind : {"echo", "status", "pulse"}, ch : Channels \cup {"none"},
           val : Values \cup {"unknown"}, version : Nat, ts : Nat]

\* What a task keeps; which packets are in its queue does not matter here.
Locals(A) == [pc : A, mod : A, ch : A, after : A, deadline : Nat,
              queue : A, got : A, result : A]

BusTypeOK ==
  /\ now \in Nat
  /\ seeded \in Nat /\ pos \in Nat
  /\ hold \in [Modules -> Nat]
  /\ phys \in [Keys -> Values]
  /\ version \in [Keys -> Nat]
  /\ net \in [Modules -> Seq(Packet)]
  /\ \A m \in Modules : \A i \in DOMAIN net[m] : net[m][i].src = m
  /\ state = [k \in Keys |-> state[k]]
  /\ view = [k \in Keys |-> view[k]]
  /\ \E A : task \in [Tasks -> Locals(A)]

\* A hold belongs to a raw send, and the one that waits has its hold.
HoldsAreOwned ==
  /\ \A t \in Tasks : task[t].pc = "idle" => task[t].deadline = 0
  /\ \A m \in Modules : hold[m] > now =>
       \E r \in RawSends : task[r].mod = m /\ hold[m] = task[r].deadline
  /\ \A r \in RawSends : Waiting(r) =>
       /\ task[r].mod \in Modules
       /\ hold[task[r].mod] >= task[r].deadline \/ task[r].deadline <= now
  /\ \A r, q \in RawSends : Waiting(r) /\ Waiting(q) => r = q

\* What clients were not told, a sweep that goes on will tell.
SilentIsSeeded ==
  /\ seeded = 0 => view = state
  /\ pos = 0 => seeded = 0

BusInv == BusTypeOK /\ HoldsAreOwned /\ SilentIsSeeded

-----------------------------------------------------------------------------
Actions == {"ON", "OFF", "TOGGLE", "DIM_START", "QUERY"}

\* A request leaves outputs and replies of their types, and only a module's own
\* replies on their way from it.
LEMMA TransmitKeepsTypes ==
  ASSUME BusTypeOK, NEW m \in Modules, NEW c \in Channels, NEW a \in Actions,
         Transmit(m, Request(c, a))
  PROVE  /\ phys' \in [Keys -> Values]
         /\ version' \in [Keys -> Nat]
         /\ net' \in [Modules -> Seq(Packet)]
         /\ \A x \in Modules : \A i \in DOMAIN net'[x] : net'[x][i].src = x
<1> DEFINE req == Request(c, a)
           k == <<m, c>>
<1>1. k \in Keys /\ req.ch = c /\ req.kind \in {"set", "toggle", "ramp", "query"}
      /\ req.val \in Values
  BY DEF Keys, Request, Actions, Values
<1>2. ASSUME NEW pkt \in Packet, pkt.src = m, Reply(m, pkt)
      PROVE  /\ net' \in [Modules -> Seq(Packet)]
             /\ \A x \in Modules : \A i \in DOMAIN net'[x] : net'[x][i].src = x
  <2>1. net' = [net EXCEPT ![m] = Append(net[m], pkt)] /\ net[m] \in Seq(Packet)
    BY <1>2 DEF Reply, BusTypeOK
  <2>2. net' \in [Modules -> Seq(Packet)]
    BY <2>1 DEF BusTypeOK
  <2>3. \A i \in DOMAIN Append(net[m], pkt) : Append(net[m], pkt)[i].src = m
    BY <1>2, <2>1 DEF BusTypeOK
  <2> QED
    BY <2>1, <2>2, <2>3 DEF BusTypeOK
<1>3. ASSUME UNCHANGED net
      PROVE  /\ net' \in [Modules -> Seq(Packet)]
             /\ \A x \in Modules : \A i \in DOMAIN net'[x] : net'[x][i].src = x
  BY <1>3 DEF BusTypeOK
<1>4. CASE req.kind = "query"
  <2>1. Ask(m, req)
    BY <1>4 DEF Transmit
  <2>2. Answer(m, "status", req.ch, phys[k], version[k]) \in Packet
    BY <1>1 DEF Answer, Packet, BusTypeOK
  <2>3. Answer(m, "status", req.ch, phys[k], version[k]).src = m
    BY DEF Answer
  <2> QED
    BY <1>1, <1>2, <1>3, <2>1, <2>2, <2>3 DEF Ask, BusTypeOK
<1>5. CASE req.kind # "query"
  <2>1. Deliver(m, req)
    BY <1>5 DEF Transmit
  <2>2. CASE UNCHANGED world
    BY <1>3, <2>2 DEF world, BusTypeOK
  <2>3. ASSUME NEW v \in Outcomes(m, req),
               phys' = [phys EXCEPT ![k] = v],
               version' = [version EXCEPT ![k] = @ + 1],
               UNCHANGED net \/ Reply(m, Report(m, req, v))
        PROVE  /\ phys' \in [Keys -> Values]
               /\ version' \in [Keys -> Nat]
               /\ net' \in [Modules -> Seq(Packet)]
               /\ \A x \in Modules : \A i \in DOMAIN net'[x] : net'[x][i].src = x
    <3>1. v \in Values
      BY <1>1, <1>5, <2>3 DEF Outcomes, Values
    <3>2. Report(m, req, v) \in Packet /\ Report(m, req, v).src = m
      BY <1>1, <3>1 DEF Report, Answer, Packet, BusTypeOK
    <3>3. phys' \in [Keys -> Values]
      BY <1>1, <2>3, <3>1 DEF BusTypeOK
    <3>4. version' \in [Keys -> Nat]
      BY <1>1, <2>3 DEF BusTypeOK
    <3>5. CASE UNCHANGED net
      BY <1>3, <3>3, <3>4, <3>5
    <3>6. CASE Reply(m, Report(m, req, v))
      BY <1>2, <3>2, <3>3, <3>4, <3>6
    <3> QED
      BY <2>3, <3>5, <3>6
  <2> QED
    BY <1>1, <2>1, <2>2, <2>3 DEF Deliver
<1> QED
  BY <1>4, <1>5

-----------------------------------------------------------------------------
(***************************************************************************)
(* Tasks                                                                   *)
(***************************************************************************)

\* The tasks of raw sends keep what they wait for, or end; others may start.
TasksGoOn ==
  /\ \E A : task' \in [Tasks -> Locals(A)]
  /\ \A t \in Tasks :
       \/ /\ task'[t].mod = task[t].mod
          /\ task'[t].deadline = task[t].deadline
          /\ task'[t].pc \in {task[t].pc, "done"}
       \/ t \notin RawSends /\ task'[t].pc # "idle"

\* Locals of some values are locals of more values.
LEMMA MoreLocals ==
  ASSUME NEW A, NEW B, NEW w \in Locals(A)
  PROVE  w \in Locals(A \cup B)
BY DEF Locals

LEMMA OneTaskChanges ==
  ASSUME BusTypeOK, NEW t \in Tasks, NEW B, NEW w \in Locals(B),
         task' = [task EXCEPT ![t] = w]
  PROVE  /\ \E A : task' \in [Tasks -> Locals(A)]
         /\ task'[t] = w
         /\ \A u \in Tasks \ {t} : task'[u] = task[u]
<1>1. PICK A : task \in [Tasks -> Locals(A)]
  BY DEF BusTypeOK
<1>2. w \in Locals(A \cup B)
  <2>1. w \in Locals(B \cup A)
    BY MoreLocals
  <2>2. B \cup A = A \cup B
    OBVIOUS
  <2> QED
    BY <2>1, <2>2
<1>3. \A u \in Tasks : task[u] \in Locals(A \cup B)
  BY <1>1, MoreLocals
<1>4. task' = [u \in Tasks |-> IF u = t THEN w ELSE task[u]]
  BY <1>1
<1>5. task' \in [Tasks -> Locals(A \cup B)]
  BY <1>2, <1>3, <1>4
<1> QED
  BY <1>4, <1>5

LEMMA FinishGoesOn ==
  ASSUME BusTypeOK, NEW t \in Tasks, NEW result, NEW got, Finish(t, result, got)
  PROVE  TasksGoOn
<1>1. PICK A : task \in [Tasks -> Locals(A)]
  BY DEF BusTypeOK
<1> DEFINE B == A \cup {"done", result, got, <<>>}
           w == [task[t] EXCEPT !.pc = "done", !.result = result, !.got = got, !.queue = <<>>]
<1>2. w \in Locals(B) /\ w.pc = "done" /\ w.mod = task[t].mod /\ w.deadline = task[t].deadline
  BY <1>1 DEF Locals
<1>3. task' = [task EXCEPT ![t] = w]
  BY <1>1 DEF Finish, Locals
<1>4. /\ \E C : task' \in [Tasks -> Locals(C)]
      /\ task'[t] = w
      /\ \A u \in Tasks \ {t} : task'[u] = task[u]
  <2> HIDE DEF w, B
  <2> QED
    BY <1>2, <1>3, OneTaskChanges
<1> QED
  BY <1>2, <1>4 DEF TasksGoOn

\* A task that starts to wait is not idle.
LEMMA StartWaitType ==
  ASSUME NEW t, NEW m, NEW c, NEW at \in Nat, NEW span \in Nat
  PROVE  /\ \E A : StartWait(t, m, c, at, span) \in Locals(A)
         /\ StartWait(t, m, c, at, span).pc = "waiting"
         /\ StartWait(t, m, c, at, span).mod = m
         /\ StartWait(t, m, c, at, span).deadline = at + span
<1> DEFINE w0 == [NoTask EXCEPT !.pc = "waiting", !.mod = m, !.ch = c, !.after = at,
                               !.deadline = at + span]
           B == {"idle", "waiting", m, c, at, 0, <<>>, "none"}
<1>1. PICK q : StartWait(t, m, c, at, span) = [w0 EXCEPT !.queue = q]
  BY Zenon DEF StartWait
<1>2. NoTask \in Locals(B)
  BY DEF NoTask, Locals
<1>3. w0 \in Locals(B) /\ w0.pc = "waiting" /\ w0.mod = m /\ w0.deadline = at + span
  <2> HIDE DEF B
  <2>1. {"waiting", m, c, at} \subseteq B /\ at + span \in Nat
    BY DEF B
  <2> QED
    BY <1>2, <2>1 DEF Locals
<1>4. w0 \in Locals(B \cup {q})
  <2> HIDE DEF w0, B
  <2> QED
    BY <1>3, MoreLocals
<1> DEFINE w == [w0 EXCEPT !.queue = q]
<1>5. w \in Locals(B \cup {q}) /\ w.pc = w0.pc /\ w.mod = w0.mod /\ w.deadline = w0.deadline
  <2> HIDE DEF w0, B
  <2> QED
    BY <1>4 DEF Locals
<1>6. StartWait(t, m, c, at, span) = w
  BY <1>1
<1> HIDE DEF w, w0, B
<1> QED
  BY <1>3, <1>5, <1>6

\* Holds stay owned when the tasks go on and holds run out in time.
LEMMA HoldsStay ==
  ASSUME BusTypeOK, HoldsAreOwned, TasksGoOn, now' \in Nat, now' >= now,
         hold' \in [Modules -> Nat],
         \A m \in Modules : hold'[m] = hold[m] \/ (hold'[m] = 0 /\ hold[m] <= now')
  PROVE  HoldsAreOwned'
<1>1. \A t \in Tasks : task[t].deadline \in Nat /\ task'[t].deadline \in Nat
  BY DEF BusTypeOK, TasksGoOn, Locals
<1>2. \A r \in RawSends : /\ r \in Tasks
                          /\ task'[r].mod = task[r].mod
                          /\ task'[r].deadline = task[r].deadline
                          /\ task'[r].pc \in {task[r].pc, "done"}
  BY DEF TasksGoOn, Tasks
<1>3. \A t \in Tasks : task'[t].pc = "idle" => task'[t].deadline = 0
  BY DEF TasksGoOn, HoldsAreOwned
<1>4. \A m \in Modules : hold'[m] > now' =>
        \E r \in RawSends : task'[r].mod = m /\ hold'[m] = task'[r].deadline
  <2> SUFFICES ASSUME NEW m \in Modules, hold'[m] > now'
               PROVE  \E r \in RawSends : task'[r].mod = m /\ hold'[m] = task'[r].deadline
    OBVIOUS
  <2>1. hold'[m] = hold[m] /\ hold[m] > now
    BY DEF BusTypeOK
  <2>2. PICK r \in RawSends : task[r].mod = m /\ hold[m] = task[r].deadline
    BY <2>1 DEF HoldsAreOwned
  <2> QED
    BY <1>2, <2>1, <2>2
<1>5. \A r \in RawSends : Waiting(r)' =>
        /\ task'[r].mod \in Modules
        /\ hold'[task'[r].mod] >= task'[r].deadline \/ task'[r].deadline <= now'
  <2> SUFFICES ASSUME NEW r \in RawSends, Waiting(r)'
               PROVE  /\ task'[r].mod \in Modules
                      /\ hold'[task'[r].mod] >= task'[r].deadline \/ task'[r].deadline <= now'
    OBVIOUS
  <2>1. Waiting(r)
    BY <1>2 DEF Waiting
  <2>2. /\ task[r].mod \in Modules
        /\ hold[task[r].mod] >= task[r].deadline \/ task[r].deadline <= now
    BY <2>1 DEF HoldsAreOwned
  <2>3. task[r].deadline \in Nat /\ hold[task[r].mod] \in Nat /\ now \in Nat
    BY <1>1, <1>2, <2>2 DEF BusTypeOK
  <2> QED
    BY <1>2, <2>2, <2>3
<1>6. \A r, q \in RawSends : Waiting(r)' /\ Waiting(q)' => r = q
  BY <1>2 DEF HoldsAreOwned, Waiting
<1> QED
  BY <1>3, <1>4, <1>5, <1>6 DEF HoldsAreOwned

LEMMA DropExpiredEnds ==
  ASSUME BusTypeOK, NEW S \in SUBSET Modules, NEW t \in Nat, now' >= t, now' \in Nat,
         hold' = DropExpired(hold, S, t)
  PROVE  /\ hold' \in [Modules -> Nat]
         /\ \A m \in Modules : hold'[m] = hold[m] \/ (hold'[m] = 0 /\ hold[m] <= now')
BY DEF DropExpired, BusTypeOK

-----------------------------------------------------------------------------
(***************************************************************************)
(* The steps                                                               *)
(***************************************************************************)
LEMMA BusInit == Init => BusInv
<1> SUFFICES ASSUME Init PROVE BusInv
  OBVIOUS
<1>1. BusTypeOK
  <2>1. NoTask \in Locals({"idle", "none", 0, <<>>})
    BY DEF NoTask, Locals
  <2>2. \E A : task \in [Tasks -> Locals(A)]
    BY <2>1 DEF Init
  <2>3. \A m \in Modules : net[m] = <<>> /\ net[m] \in Seq(Packet)
    BY DEF Init
  <2> QED
    BY <2>2, <2>3 DEF Init, BusTypeOK, Values
<1>2. HoldsAreOwned
  <2>1. \A t \in Tasks : task[t].pc = "idle" /\ task[t].deadline = 0
    BY DEF Init, NoTask
  <2>2. \A r \in RawSends : r \in Tasks
    BY DEF Tasks
  <2> QED
    BY <2>1, <2>2 DEF Init, HoldsAreOwned, Waiting
<1>3. SilentIsSeeded
  BY DEF Init, SilentIsSeeded
<1> QED
  BY <1>1, <1>2, <1>3 DEF BusInv

\* Steps in which tasks end or go on, and nothing is sent, received or seeded.
LEMMA QuietStep ==
  ASSUME BusInv, TasksGoOn, now' \in {now, now + 1}, UNCHANGED <<hold, world, registry>>,
         seeded' = seeded, pos' \in Nat, pos' = 0 => pos = 0
  PROVE  BusInv'
<1>1. now' \in Nat /\ now' >= now
  BY DEF BusInv, BusTypeOK
<1>2. BusTypeOK'
  BY <1>1 DEF BusInv, BusTypeOK, TasksGoOn, world, registry
<1>3. HoldsAreOwned'
  BY <1>1, <1>2, HoldsStay DEF BusInv, BusTypeOK
<1>4. SilentIsSeeded'
  BY DEF BusInv, SilentIsSeeded, registry
<1> QED
  BY <1>2, <1>3, <1>4 DEF BusInv

\* Nobody's locals change.
LEMMA NoTaskChanges ==
  ASSUME BusTypeOK, UNCHANGED task
  PROVE  TasksGoOn
BY DEF BusTypeOK, TasksGoOn

\* A packet is taken from a queue, or added to the list of a raw send.
LEMMA TakeGoesOn ==
  ASSUME BusTypeOK, NEW t \in Tasks, NEW queue, NEW got,
         task' = [task EXCEPT ![t] = [@ EXCEPT !.got = got, !.queue = queue]]
  PROVE  TasksGoOn
<1>1. PICK A : task \in [Tasks -> Locals(A)]
  BY DEF BusTypeOK
<1> DEFINE B == A \cup {queue, got}
           w == [task[t] EXCEPT !.got = got, !.queue = queue]
<1>2. w \in Locals(B) /\ w.pc = task[t].pc /\ w.mod = task[t].mod
      /\ w.deadline = task[t].deadline
  BY <1>1 DEF Locals
<1>3. task' = [task EXCEPT ![t] = w]
  BY <1>1
<1>4. /\ \E C : task' \in [Tasks -> Locals(C)]
      /\ task'[t] = w
      /\ \A u \in Tasks \ {t} : task'[u] = task[u]
  <2> HIDE DEF w, B
  <2> QED
    BY <1>2, <1>3, OneTaskChanges
<1> QED
  BY <1>2, <1>4 DEF TasksGoOn

LEMMA SkipKeeps == ASSUME BusInv, NEW t \in Tasks, Skip(t) PROVE BusInv'
<1>1. PICK A : task \in [Tasks -> Locals(A)]
  BY DEF BusInv, BusTypeOK
<1>2. task[t] \in Locals(A)
  BY <1>1
<1>3. [task[t] EXCEPT !.queue = Tail(@)]
      = [task[t] EXCEPT !.got = task[t].got, !.queue = Tail(task[t].queue)]
  BY <1>2 DEF Locals
<1>4. task' = [task EXCEPT ![t] = [@ EXCEPT !.got = task[t].got, !.queue = Tail(task[t].queue)]]
  BY <1>1, <1>3 DEF Skip
<1>5. TasksGoOn
  BY <1>4, TakeGoesOn DEF BusInv
<1>6. UNCHANGED <<now, hold, world, registry, pos, seeded>> /\ pos \in Nat
  BY DEF Skip, bus, BusInv, BusTypeOK
<1> QED
  BY <1>5, <1>6, QuietStep DEF BusInv

\* The ends of the waits.
LEMMA EndsKeep ==
  ASSUME BusInv, NEW t \in Tasks, NEW result, NEW got, Finish(t, result, got),
         UNCHANGED <<now, world, bus, registry, seeded>>,
         pos' \in {pos, pos + 1}
  PROVE  BusInv'
<1>1. TasksGoOn
  BY FinishGoesOn DEF BusInv
<1>2. pos' \in Nat /\ (pos' = 0 => pos = 0)
  BY DEF BusInv, BusTypeOK
<1> QED
  BY <1>1, <1>2, QuietStep DEF bus, world, registry, BusInv

\* A task that is no raw send's starts to wait.
LEMMA StartGoesOn ==
  ASSUME BusTypeOK, NEW t \in Tasks \ RawSends, NEW A, NEW w \in Locals(A), w.pc # "idle",
         task' = [task EXCEPT ![t] = w]
  PROVE  TasksGoOn
<1>1. /\ \E C : task' \in [Tasks -> Locals(C)]
      /\ task'[t] = w
      /\ \A u \in Tasks \ {t} : task'[u] = task[u]
  BY OneTaskChanges
<1> QED
  BY <1>1 DEF TasksGoOn

\* A request is sent, and a task that is no raw send's may start to wait.
LEMMA SendKeeps ==
  ASSUME BusInv, NEW m \in Modules, NEW c \in Channels, NEW a \in Actions,
         Transmit(m, Request(c, a)), Advance, TasksGoOn,
         UNCHANGED <<hold, registry, pos, seeded>>
  PROVE  BusInv'
<1>1. now' \in Nat /\ now' >= now
  BY DEF BusInv, BusTypeOK, Advance
<1>2. /\ phys' \in [Keys -> Values]
      /\ version' \in [Keys -> Nat]
      /\ net' \in [Modules -> Seq(Packet)]
      /\ \A x \in Modules : \A i \in DOMAIN net'[x] : net'[x][i].src = x
  BY TransmitKeepsTypes DEF BusInv
<1>3. BusTypeOK'
  BY <1>1, <1>2 DEF BusInv, BusTypeOK, TasksGoOn, registry
<1>4. HoldsAreOwned'
  BY <1>1, HoldsStay DEF BusInv, BusTypeOK
<1>5. SilentIsSeeded'
  BY DEF BusInv, SilentIsSeeded, registry
<1> QED
  BY <1>3, <1>4, <1>5 DEF BusInv

LEMMA CommandKeeps ==
  ASSUME BusInv, NEW t \in Commands, NEW o \in Orders, Command(t, o[1], o[2], o[3])
  PROVE  BusInv'
<1>1. t \in Tasks \ RawSends
  BY TasksAssumption DEF Tasks
<1>2. o[1] \in Modules /\ o[2] \in Channels /\ o[3] \in Actions
  BY OrdersAssumption DEF Keys, Actions
<1>3. TasksGoOn
  <2>1. CASE o[3] = "DIM_START"
    <3> DEFINE w == [NoTask EXCEPT !.pc = "done", !.mod = o[1], !.result = "sent"]
    <3>1. w \in Locals({"idle", "none", 0, <<>>, "done", o[1], "sent"}) /\ w.pc # "idle"
      BY DEF NoTask, Locals
    <3>2. task' = [task EXCEPT ![t] = w]
      BY <2>1 DEF Command
    <3> QED
      <4> HIDE DEF w
      <4> QED
        BY <1>1, <3>1, <3>2, StartGoesOn DEF BusInv
  <2>2. CASE o[3] # "DIM_START"
    <3>1. task' = [task EXCEPT ![t] = StartWait(t, o[1], o[2], now + 1, Timeout)]
      BY <2>2 DEF Command
    <3>2. now + 1 \in Nat /\ Timeout \in Nat
      BY TimeoutAssumption DEF BusInv, BusTypeOK
    <3>3. /\ \E A : StartWait(t, o[1], o[2], now + 1, Timeout) \in Locals(A)
          /\ StartWait(t, o[1], o[2], now + 1, Timeout).pc # "idle"
      BY <3>2, StartWaitType
    <3> QED
      BY <1>1, <3>1, <3>3, StartGoesOn DEF BusInv
  <2> QED
    BY <2>1, <2>2
<1> QED
  BY <1>2, <1>3, SendKeeps DEF Command, bus

LEMMA SweepQueryKeeps == ASSUME BusInv, SweepQuery PROVE BusInv'
<1> DEFINE m == SweepKeys[pos][1]
           c == SweepKeys[pos][2]
<1>1. Sweep \in Tasks \ RawSends
  BY TasksAssumption DEF Tasks
<1>2. m \in Modules /\ c \in Channels
  <2>1. pos \in 1 .. Len(SweepKeys)
    BY DEF SweepQuery, Sweeping, BusInv, BusTypeOK
  <2>2. SweepKeys[pos] \in Keys
    BY <2>1, SweepAssumption
  <2> QED
    BY <2>2 DEF Keys
<1>3. /\ task' = [task EXCEPT ![Sweep] = StartWait(Sweep, m, c, now + 1, Timeout)]
      /\ Transmit(m, Request(c, "QUERY"))
  BY DEF SweepQuery
<1> HIDE DEF m, c
<1>4. now + 1 \in Nat /\ Timeout \in Nat
  BY TimeoutAssumption DEF BusInv, BusTypeOK
<1>5. /\ \E A : StartWait(Sweep, m, c, now + 1, Timeout) \in Locals(A)
      /\ StartWait(Sweep, m, c, now + 1, Timeout).pc # "idle"
  BY <1>4, StartWaitType
<1>6. TasksGoOn
  BY <1>1, <1>3, <1>5, StartGoesOn DEF BusInv
<1> QED
  BY <1>2, <1>3, <1>6, SendKeeps DEF SweepQuery, bus, Actions

LEMMA PollKeeps == ASSUME BusInv, Poll PROVE BusInv'
<1>1. now \in Nat /\ now' \in Nat /\ now' >= now
  BY DEF BusInv, BusTypeOK, Poll, Advance
<1>2. /\ hold' \in [Modules -> Nat]
      /\ \A m \in Modules : hold'[m] = hold[m] \/ (hold'[m] = 0 /\ hold[m] <= now')
  BY <1>1, DropExpiredEnds DEF BusInv, Poll
<1>3. TasksGoOn
  BY NoTaskChanges DEF BusInv, Poll
<1>4. PICK answering \in SUBSET Modules : net' = [m \in Modules |->
        IF m \in answering THEN Append(net[m], Answer(m, "pulse", "none", "unknown", 0))
        ELSE net[m]]
  BY DEF Poll
<1>5. ASSUME NEW m \in Modules
      PROVE  net'[m] \in Seq(Packet) /\ \A i \in DOMAIN net'[m] : net'[m][i].src = m
  <2> DEFINE pkt == Answer(m, "pulse", "none", "unknown", 0)
  <2>1. pkt \in Packet /\ pkt.src = m
    BY DEF Answer, Packet
  <2>2. net[m] \in Seq(Packet) /\ \A i \in DOMAIN net[m] : net[m][i].src = m
    BY DEF BusInv, BusTypeOK
  <2>3. CASE m \in answering
    <3>1. net'[m] = Append(net[m], pkt)
      BY <1>4, <2>3
    <3> HIDE DEF pkt
    <3> QED
      BY <2>1, <2>2, <3>1
  <2>4. CASE m \notin answering
    BY <1>4, <2>2, <2>4
  <2> QED
    BY <2>3, <2>4
<1>6. net' = [m \in Modules |-> net'[m]]
  BY <1>4
<1>7. BusTypeOK'
  BY <1>1, <1>2, <1>3, <1>5, <1>6 DEF Poll, BusInv, BusTypeOK, TasksGoOn, registry
<1>8. HoldsAreOwned'
  BY <1>1, <1>2, <1>3, HoldsStay DEF BusInv
<1>9. SilentIsSeeded'
  BY DEF Poll, BusInv, SilentIsSeeded, registry
<1> QED
  BY <1>7, <1>8, <1>9 DEF BusInv

\* handle_packet: what the registry's state becomes, clients are told.
LEMMA PacketIsTold ==
  ASSUME BusTypeOK, NEW pkt, NEW ignore \in BOOLEAN, HandlePacket(pkt, ignore)
  PROVE  /\ state' = [k \in Keys |-> state'[k]]
         /\ view' = [k \in Keys |-> view'[k]]
         /\ view = state => view' = state'
<1> DEFINE k == <<pkt.src, pkt.ch>>
<1>1. CASE Informs(pkt) /\ ~ignore
  <2>1. /\ state' = [state EXCEPT ![k] = pkt.val]
        /\ view' = IF state[k] # pkt.val THEN [view EXCEPT ![k] = pkt.val] ELSE view
    BY <1>1 DEF HandlePacket
  <2>2. state = [x \in Keys |-> state[x]] /\ view = [x \in Keys |-> view[x]]
    BY DEF BusTypeOK
  <2>3. state' = [x \in Keys |-> IF x = k THEN pkt.val ELSE state[x]]
    BY <2>1, <2>2
  <2>4. CASE state[k] # pkt.val
    <3>1. view' = [x \in Keys |-> IF x = k THEN pkt.val ELSE view[x]]
      BY <2>1, <2>2, <2>4
    <3> QED
      BY <2>3, <3>1
  <2>5. CASE state[k] = pkt.val
    <3>1. state' = state
      BY <2>2, <2>3, <2>5
    <3>2. view' = view
      BY <2>1, <2>5
    <3> QED
      BY <2>2, <3>1, <3>2
  <2> QED
    BY <2>4, <2>5
<1>2. CASE ~(Informs(pkt) /\ ~ignore)
  <2>1. state' = state /\ view' = view
    BY <1>2 DEF HandlePacket, registry
  <2> QED
    BY <2>1 DEF BusTypeOK
<1> QED
  BY <1>1, <1>2

\* Every waiting task has the packet in its queue.
LEMMA QueuesGoOn ==
  ASSUME BusTypeOK, NEW pkt,
         task' = [t \in Tasks |->
           IF Waiting(t) THEN [task[t] EXCEPT !.queue = PushBounded(@, pkt, QueueMax)]
           ELSE task[t]]
  PROVE  TasksGoOn
<1>1. PICK A : task \in [Tasks -> Locals(A)]
  BY DEF BusTypeOK
<1> DEFINE B == {PushBounded(task[t].queue, pkt, QueueMax) : t \in Tasks}
<1>2. ASSUME NEW t \in Tasks
      PROVE  /\ task'[t] \in Locals(A \cup B)
             /\ task'[t].mod = task[t].mod
             /\ task'[t].deadline = task[t].deadline
             /\ task'[t].pc = task[t].pc
  <2> DEFINE q == PushBounded(task[t].queue, pkt, QueueMax)
  <2>1. task[t] \in Locals(A) /\ q \in B
    BY <1>1
  <2>2. task'[t] = task[t] \/ task'[t] = [task[t] EXCEPT !.queue = q]
    OBVIOUS
  <2> HIDE DEF q, B
  <2>3. task[t] \in Locals(A \cup B)
    BY <2>1, MoreLocals
  <2> QED
    BY <2>1, <2>2, <2>3 DEF Locals
<1> HIDE DEF B
<1>3. task' \in [Tasks -> Locals(A \cup B)]
  BY <1>2
<1> QED
  BY <1>2, <1>3 DEF TasksGoOn

\* The packet that m sends next is its own.
LEMMA NextPacketIsItsOwn ==
  ASSUME BusTypeOK, NEW m \in Modules, net[m] # <<>>
  PROVE  [Head(net[m]) EXCEPT !.ts = now + 1].src = m
<1>1. net[m] \in Seq(Packet) /\ 1 \in DOMAIN net[m] /\ Head(net[m]) = net[m][1]
  BY DEF BusTypeOK
<1>2. Head(net[m]) \in Packet /\ Head(net[m]).src = m
  BY <1>1 DEF BusTypeOK
<1> QED
  BY <1>2 DEF Packet

LEMMA ReceiveKeeps == ASSUME BusInv, NEW m \in Modules, Receive(m) PROVE BusInv'
<1> DEFINE pkt == [Head(net[m]) EXCEPT !.ts = now + 1]
<1>1. /\ net[m] # <<>>
      /\ now' = now + 1
      /\ hold' = DropExpired(hold, {m}, now + 1)
      /\ HandlePacket(pkt, Held(m, now + 1))
      /\ task' = [t \in Tasks |->
           IF Waiting(t) THEN [task[t] EXCEPT !.queue = PushBounded(@, pkt, QueueMax)]
           ELSE task[t]]
      /\ net' = [net EXCEPT ![m] = Tail(@)]
      /\ UNCHANGED <<phys, version, pos, seeded>>
  BY DEF Receive, Advance
<1> HIDE DEF pkt
<1>2. /\ now' \in Nat /\ now' >= now
      /\ now + 1 \in Nat /\ now' >= now + 1
      /\ {m} \in SUBSET Modules
      /\ Held(m, now + 1) \in BOOLEAN
  BY <1>1 DEF BusInv, BusTypeOK, Held
<1>3. /\ hold' \in [Modules -> Nat]
      /\ \A x \in Modules : hold'[x] = hold[x] \/ (hold'[x] = 0 /\ hold[x] <= now')
  BY <1>1, <1>2, DropExpiredEnds DEF BusInv
<1>4. /\ state' = [k \in Keys |-> state'[k]]
      /\ view' = [k \in Keys |-> view'[k]]
      /\ view = state => view' = state'
  BY <1>1, <1>2, PacketIsTold DEF BusInv
<1>5. TasksGoOn
  BY <1>1, QueuesGoOn DEF BusInv
<1>6. /\ net' \in [Modules -> Seq(Packet)]
      /\ \A x \in Modules : \A i \in DOMAIN net'[x] : net'[x][i].src = x
  <2>1. /\ net[m] \in Seq(Packet) /\ net[m] # <<>>
        /\ \A i \in DOMAIN net[m] : net[m][i].src = m
    BY <1>1 DEF BusInv, BusTypeOK
  <2>2. Tail(net[m]) \in Seq(Packet)
        /\ \A i \in DOMAIN Tail(net[m]) : Tail(net[m])[i].src = m
    BY <2>1
  <2> QED
    BY <1>1, <2>2 DEF BusInv, BusTypeOK
<1>7. BusTypeOK'
  BY <1>1, <1>2, <1>3, <1>4, <1>5, <1>6 DEF BusInv, BusTypeOK, TasksGoOn
<1>8. HoldsAreOwned'
  BY <1>2, <1>3, <1>5, HoldsStay DEF BusInv
<1>9. SilentIsSeeded'
  BY <1>1, <1>4 DEF BusInv, SilentIsSeeded
<1> QED
  BY <1>7, <1>8, <1>9 DEF BusInv

\* A raw send takes the hold of its module, as long as its own window.
LEMMA RawSendKeeps ==
  ASSUME BusInv, NEW r \in RawSends, NEW p \in Probes, RawSend(r, p[1], p[2], p[3])
  PROVE  BusInv'
<1> DEFINE m == p[1]
           until == now + 1 + Window
           w == StartWait(r, m, p[2], now + 1, Window)
<1>1. r \in Tasks /\ m \in Modules /\ p[2] \in Channels /\ p[3] \in Actions
  BY ProbesAssumption DEF Tasks, Keys, Actions
<1>2. /\ task[r].pc = "idle"
      /\ \A q \in RawSends : ~Waiting(q)
      /\ now' = now + 1
      /\ hold' = [hold EXCEPT ![m] = IF until > @ THEN until ELSE @]
      /\ Transmit(m, Request(p[2], p[3]))
      /\ task' = [task EXCEPT ![r] = w]
      /\ UNCHANGED <<registry, pos, seeded>>
  BY DEF RawSend, Busy, Advance, HoldStatus
<1>3. now \in Nat /\ now' \in Nat /\ until \in Nat /\ now + 1 \in Nat
  BY <1>2, WindowAssumption DEF BusInv, BusTypeOK
<1>4. /\ \E A : w \in Locals(A)
      /\ w.pc = "waiting" /\ w.mod = m /\ w.deadline = until
  BY <1>3, WindowAssumption, StartWaitType
<1> HIDE DEF w, until, m
<1>5. /\ \E A : task' \in [Tasks -> Locals(A)]
      /\ task'[r] = w
      /\ \A u \in Tasks \ {r} : task'[u] = task[u]
  BY <1>1, <1>2, <1>4, OneTaskChanges DEF BusInv
<1>6. hold' \in [Modules -> Nat]
      /\ \A x \in Modules : hold'[x] = hold[x] \/ (x = m /\ hold'[x] = until)
  BY <1>1, <1>2, <1>3 DEF BusInv, BusTypeOK
<1>7. hold'[m] >= until
  BY <1>1, <1>2, <1>3 DEF BusInv, BusTypeOK
<1>8. BusTypeOK'
  <2>1. /\ phys' \in [Keys -> Values]
        /\ version' \in [Keys -> Nat]
        /\ net' \in [Modules -> Seq(Packet)]
        /\ \A x \in Modules : \A i \in DOMAIN net'[x] : net'[x][i].src = x
    BY <1>1, <1>2, TransmitKeepsTypes DEF BusInv
  <2> QED
    BY <1>2, <1>3, <1>5, <1>6, <2>1 DEF BusInv, BusTypeOK, registry
<1>9. HoldsAreOwned'
  <2>1. \A t \in Tasks : task'[t].pc = "idle" => task'[t].deadline = 0
    BY <1>4, <1>5 DEF BusInv, HoldsAreOwned
  <2>2. ASSUME NEW x \in Modules, hold'[x] > now'
        PROVE  \E q \in RawSends : task'[q].mod = x /\ hold'[x] = task'[q].deadline
    <3>1. CASE x = m /\ hold'[x] = until
      BY <1>4, <1>5, <3>1
    <3>2. CASE hold'[x] = hold[x]
      <4>1. hold[x] > now /\ hold[x] # 0
        BY <1>2, <1>3, <2>2, <3>2 DEF BusInv, BusTypeOK
      <4>2. PICK q \in RawSends : task[q].mod = x /\ hold[x] = task[q].deadline
        BY <4>1 DEF BusInv, HoldsAreOwned
      <4>3. q # r /\ q \in Tasks
        BY <1>1, <1>2, <4>1, <4>2 DEF BusInv, HoldsAreOwned, Tasks
      <4> QED
        BY <1>5, <3>2, <4>2, <4>3
    <3> QED
      BY <1>6, <3>1, <3>2
  <2>3. \A q \in RawSends : Waiting(q)' => q = r
    BY <1>2, <1>5 DEF Waiting, Tasks
  <2> QED
    BY <1>1, <1>4, <1>5, <1>7, <2>1, <2>2, <2>3 DEF HoldsAreOwned
<1>10. SilentIsSeeded'
  BY <1>2 DEF BusInv, SilentIsSeeded, registry
<1> QED
  BY <1>8, <1>9, <1>10 DEF BusInv

\* A raw send ends before it has begun.
LEMMA RefusalGoesOn ==
  ASSUME BusTypeOK, NEW t \in Tasks, NEW result,
         task' = [task EXCEPT ![t].pc = "done", ![t].result = result]
  PROVE  /\ TasksGoOn
         /\ task'[t].pc = "done"
<1>1. PICK A : task \in [Tasks -> Locals(A)]
  BY DEF BusTypeOK
<1> DEFINE B == A \cup {"done", result}
           w == [task[t] EXCEPT !.pc = "done", !.result = result]
<1>2. /\ w \in Locals(B) /\ w.pc = "done"
      /\ w.mod = task[t].mod /\ w.deadline = task[t].deadline
  BY <1>1 DEF Locals
<1>3. task' = [task EXCEPT ![t] = w]
  BY <1>1
<1>4. /\ \E C : task' \in [Tasks -> Locals(C)]
      /\ task'[t] = w
      /\ \A u \in Tasks \ {t} : task'[u] = task[u]
  <2> HIDE DEF w, B
  <2> QED
    BY <1>2, <1>3, OneTaskChanges
<1> QED
  BY <1>2, <1>4 DEF TasksGoOn

LEMMA RawSendFailsKeeps ==
  ASSUME BusInv, NEW r \in RawSends, NEW p \in Probes, RawSendFails(r, p[1])
  PROVE  BusInv'
<1> DEFINE m == p[1]
<1>1. r \in Tasks /\ m \in Modules
  BY ProbesAssumption DEF Tasks, Keys
<1>2. /\ \A q \in RawSends : ~Waiting(q)
      /\ hold' = [hold EXCEPT ![m] = 0]
      /\ task' = [task EXCEPT ![r].pc = "done", ![r].result = "failed"]
      /\ UNCHANGED <<now, world, registry, pos, seeded>>
  BY <1>1 DEF RawSendFails, Busy, HoldStatus, ReleaseHold, BusInv, BusTypeOK
<1> HIDE DEF m
<1>3. TasksGoOn
  BY <1>1, <1>2, RefusalGoesOn DEF BusInv
<1>4. BusTypeOK'
  BY <1>2, <1>3 DEF BusInv, BusTypeOK, TasksGoOn, world, registry
<1>5. HoldsAreOwned'
  <2>1. \A t \in Tasks : task'[t].pc = "idle" => task'[t].deadline = 0
    BY <1>3 DEF BusInv, HoldsAreOwned, TasksGoOn
  <2>2. \A q \in RawSends : task'[q].mod = task[q].mod /\ task'[q].deadline = task[q].deadline
                            /\ ~(task'[q].pc = "waiting")
    BY <1>2, <1>3 DEF TasksGoOn, Tasks, Waiting
  <2>3. ASSUME NEW x \in Modules, hold'[x] > now'
        PROVE  \E q \in RawSends : task'[q].mod = x /\ hold'[x] = task'[q].deadline
    <3>1. hold'[x] = hold[x] /\ hold[x] > now
      BY <1>1, <1>2, <2>3 DEF BusInv, BusTypeOK
    <3> QED
      BY <2>2, <3>1 DEF BusInv, HoldsAreOwned
  <2> QED
    BY <2>1, <2>2, <2>3 DEF HoldsAreOwned, Waiting
<1>6. SilentIsSeeded'
  BY <1>2 DEF BusInv, SilentIsSeeded, registry
<1> QED
  BY <1>4, <1>5, <1>6 DEF BusInv

LEMMA RawSendRefusedKeeps ==
  ASSUME BusInv, NEW r \in RawSends, RawSendRefused(r)
  PROVE  BusInv'
<1>1. r \in Tasks
  BY DEF Tasks
<1>2. TasksGoOn
  BY <1>1, RefusalGoesOn DEF BusInv, RawSendRefused
<1>3. UNCHANGED <<now, hold, world, registry, pos, seeded>> /\ pos \in Nat
  BY DEF RawSendRefused, bus, BusInv, BusTypeOK
<1> QED
  BY <1>2, <1>3, QuietStep DEF BusInv

LEMMA RawCollectKeeps ==
  ASSUME BusInv, NEW r \in RawSends, RawCollect(r)
  PROVE  BusInv'
<1>1. r \in Tasks /\ UNCHANGED <<now, world, bus, registry, pos, seeded>>
  BY DEF Tasks, RawCollect
<1>2. CASE \E result, got : Finish(r, result, got)
  BY <1>1, <1>2, EndsKeep
<1>3. CASE task' = [task EXCEPT ![r].got = Append(@, Taken(r)), ![r].queue = Tail(@)]
  <2>1. PICK A : task \in [Tasks -> Locals(A)]
    BY DEF BusInv, BusTypeOK
  <2>2. [task[r] EXCEPT !.got = Append(@, Taken(r)), !.queue = Tail(@)]
        = [task[r] EXCEPT !.got = Append(task[r].got, Taken(r)), !.queue = Tail(task[r].queue)]
    OBVIOUS
  <2>3. task' = [task EXCEPT ![r] = [@ EXCEPT !.got = Append(task[r].got, Taken(r)),
                                              !.queue = Tail(task[r].queue)]]
    BY <1>1, <1>3, <2>1 DEF Locals
  <2>4. TasksGoOn
    BY <1>1, <2>3, TakeGoesOn DEF BusInv
  <2>5. UNCHANGED <<now, hold, world, registry, pos, seeded>> /\ pos \in Nat
    BY <1>1 DEF bus, BusInv, BusTypeOK
  <2> QED
    BY <2>4, <2>5, QuietStep DEF BusInv
<1> QED
  BY <1>2, <1>3 DEF RawCollect

LEMMA SweepStartKeeps == ASSUME BusInv, SweepStart PROVE BusInv'
<1>1. TasksGoOn
  BY NoTaskChanges DEF SweepStart, BusInv
<1>2. UNCHANGED <<now, hold, world, registry, seeded>> /\ pos' = 1
  BY DEF SweepStart, bus
<1>3. now' \in {now, now + 1} /\ pos' \in Nat /\ (pos' = 0 => pos = 0)
  BY <1>2
<1> QED
  BY <1>1, <1>2, <1>3, QuietStep

\* The state is written and clients are not told: seeded says so.
LEMMA SweepSeedsKeeps == ASSUME BusInv, SweepSeeds PROVE BusInv'
<1>1. Sweep \in Tasks
  BY DEF Tasks
<1> DEFINE pkt == Taken(Sweep)
           k == SweepKeys[pos]
<1>2. /\ Finish(Sweep, "none", <<>>)
      /\ state' = [state EXCEPT ![k] = pkt.val]
      /\ pos' = pos + 1 /\ seeded' = seeded + 1
      /\ UNCHANGED <<now, hold, phys, net, version, view>>
  BY DEF SweepSeeds, Seed, bus
<1> HIDE DEF pkt, k
<1>3. TasksGoOn
  BY <1>1, <1>2, FinishGoesOn DEF BusInv
<1>4. state' = [x \in Keys |-> state'[x]]
  <2>1. state = [x \in Keys |-> state[x]]
    BY DEF BusInv, BusTypeOK
  <2>2. state' = [x \in Keys |-> IF x = k THEN pkt.val ELSE state[x]]
    BY <1>2, <2>1
  <2> QED
    BY <2>2
<1>5. BusTypeOK'
  BY <1>2, <1>3, <1>4 DEF BusInv, BusTypeOK, TasksGoOn
<1>6. HoldsAreOwned'
  BY <1>2, <1>3, HoldsStay DEF BusInv, BusTypeOK
<1>7. SilentIsSeeded'
  BY <1>2 DEF BusInv, BusTypeOK, SilentIsSeeded
<1> QED
  BY <1>5, <1>6, <1>7 DEF BusInv

\* The snapshot.
LEMMA SweepEndKeeps == ASSUME BusInv, SweepEnd PROVE BusInv'
<1>1. /\ pos' = 0 /\ seeded' = 0
      /\ view' = IF seeded > 0 THEN state ELSE view
      /\ UNCHANGED <<now, hold, world, state, task>>
  BY DEF SweepEnd, bus
<1>2. view' = state'
  <2>1. seeded \in Nat /\ (seeded = 0 => view = state)
    BY DEF BusInv, BusTypeOK, SilentIsSeeded
  <2> QED
    BY <1>1, <2>1
<1>3. TasksGoOn
  BY <1>1, NoTaskChanges DEF BusInv
<1>4. BusTypeOK'
  BY <1>1, <1>2, <1>3 DEF BusInv, BusTypeOK, TasksGoOn, world
<1>5. HoldsAreOwned'
  BY <1>1, <1>3, HoldsStay DEF BusInv, BusTypeOK
<1>6. SilentIsSeeded'
  BY <1>1, <1>2 DEF SilentIsSeeded
<1> QED
  BY <1>4, <1>5, <1>6 DEF BusInv

LEMMA BusStep == BusInv /\ [Next]_vars => BusInv'
<1> SUFFICES ASSUME BusInv, [Next]_vars PROVE BusInv'
  OBVIOUS
<1>0. now \in Nat /\ pos \in Nat
  BY DEF BusInv, BusTypeOK
<1>1. ASSUME UNCHANGED <<hold, world, registry, task, pos, seeded>>, now' \in {now, now + 1}
      PROVE  BusInv'
  <2>1. TasksGoOn
    BY <1>1, NoTaskChanges DEF BusInv
  <2> QED
    BY <1>0, <1>1, <2>1, QuietStep
<1>2. CASE Tick
  BY <1>1, <1>2 DEF Tick, Advance, bus
<1>3. CASE \E m \in Modules : Receive(m)
  BY <1>3, ReceiveKeeps
<1>4. CASE Poll
  BY <1>4, PollKeeps
<1>5. CASE \E t \in Tasks : Skip(t)
  BY <1>5, SkipKeeps
<1>6. ASSUME NEW t \in Commands, CommandStep(t) PROVE BusInv'
  <2>1. t \in Tasks
    BY DEF Tasks
  <2>2. CASE \E o \in Orders : Command(t, o[1], o[2], o[3])
    BY <2>2, CommandKeeps
  <2>3. CASE CommandConfirmed(t) \/ CommandUnconfirmed(t)
    <3>1. PICK result, got : Finish(t, result, got)
      BY <2>3 DEF CommandConfirmed, CommandUnconfirmed
    <3>2. UNCHANGED <<now, world, bus, registry, seeded, pos>>
      BY <2>3 DEF CommandConfirmed, CommandUnconfirmed
    <3> QED
      BY <2>1, <3>1, <3>2, EndsKeep
  <2> QED
    BY <1>6, <2>2, <2>3 DEF CommandStep
<1>7. ASSUME NEW r \in RawSends, RawStep(r) PROVE BusInv'
  <2>1. r \in Tasks
    BY DEF Tasks
  <2>2. CASE RawWindowOver(r)
    BY <2>1, <2>2, EndsKeep DEF RawWindowOver
  <2> QED
    BY <1>7, <2>2, RawSendKeeps, RawSendFailsKeeps, RawSendRefusedKeeps, RawCollectKeeps
       DEF RawStep
<1>8. CASE SweepStep
  <2>1. CASE SweepNoAnswer
    <3>1. Sweep \in Tasks
      BY DEF Tasks
    <3> QED
      BY <2>1, <3>1, EndsKeep DEF SweepNoAnswer
  <2> QED
    BY <1>8, <2>1, SweepStartKeeps, SweepQueryKeeps, SweepSeedsKeeps, SweepEndKeeps
       DEF SweepStep
<1>9. CASE UNCHANGED vars
  BY <1>1, <1>9 DEF vars, bus
<1> QED
  BY <1>2, <1>3, <1>4, <1>5, <1>6, <1>7, <1>8, <1>9 DEF Next

LEMMA BusAlways == Spec => []BusInv
<1> QED
  BY BusInit, BusStep, PTL DEF Spec

-----------------------------------------------------------------------------
\* The snapshot at the end of a sweep makes up for everything it wrote silently
\* (_safe_actuator_sweep counts what it seeded).
THEOREM SnapshotMakesUp == Spec => []ClientsAreCurrent
<1>1. BusInv => ClientsAreCurrent
  BY DEF BusInv, SilentIsSeeded, ClientsAreCurrent, Sweeping
<1> QED
  BY <1>1, BusAlways, PTL

\* A packet of a module with a waiting raw send does not reach the registry.
LEMMA HeldPacketsAreIgnored ==
  ASSUME BusInv, NEW m \in Modules, Receive(m), NEW r \in RawSends, Waiting(r),
         now' < task[r].deadline, NEW c \in Channels
  PROVE  state'[<<task[r].mod, c>>] = state[<<task[r].mod, c>>]
<1> DEFINE pkt == [Head(net[m]) EXCEPT !.ts = now + 1]
           k == <<pkt.src, pkt.ch>>
<1>1. /\ net[m] # <<>> /\ now' = now + 1
      /\ HandlePacket(pkt, Held(m, now + 1))
  BY DEF Receive, Advance
<1>2. pkt.src = m
  BY <1>1, NextPacketIsItsOwn DEF BusInv
<1> HIDE DEF pkt
<1>3. /\ task[r].mod \in Modules /\ task[r].deadline \in Nat
      /\ now \in Nat /\ hold[task[r].mod] \in Nat
      /\ hold[task[r].mod] >= task[r].deadline
  <2>1. r \in Tasks
    BY DEF Tasks
  <2>2. now \in Nat /\ task[r].deadline \in Nat
    BY <2>1 DEF BusInv, BusTypeOK, Locals
  <2>3. task[r].mod \in Modules
        /\ (hold[task[r].mod] >= task[r].deadline \/ task[r].deadline <= now)
    BY DEF BusInv, HoldsAreOwned
  <2>4. hold[task[r].mod] \in Nat
    BY <2>3 DEF BusInv, BusTypeOK
  <2> QED
    BY <1>1, <2>2, <2>3, <2>4
<1>4. CASE task[r].mod = m
  <2>1. Held(m, now + 1)
    BY <1>1, <1>3, <1>4 DEF Held
  <2> QED
    BY <1>1, <2>1 DEF HandlePacket, registry
<1>5. CASE task[r].mod # m
  <2>1. <<task[r].mod, c>> # k
    BY <1>2, <1>5
  <2>2. state' = [state EXCEPT ![k] = pkt.val] \/ state' = state
    BY <1>1 DEF HandlePacket, registry
  <2>3. <<task[r].mod, c>> \in Keys /\ state = [x \in Keys |-> state[x]]
    BY <1>3 DEF Keys, BusInv, BusTypeOK
  <2> HIDE DEF k
  <2>4. state' = [x \in Keys |-> IF x = k THEN pkt.val ELSE state[x]] \/ state' = state
    BY <2>2, <2>3
  <2> QED
    BY <2>1, <2>3, <2>4
<1> QED
  BY <1>4, <1>5

\* A module's packets are held for a raw send that was made and for no other, and
\* in its window they do not change the registry (hold_status, status_held).
THEOREM RawSendsHold == Spec => HeldForRawSends
<1> DEFINE Owned == \A m \in Modules : hold[m] > now =>
             \E r \in RawSends : task[r].mod = m /\ hold[m] = task[r].deadline
           Ignored == \A r \in RawSends :
             Waiting(r) /\ now' < task[r].deadline /\ seeded' <= seeded =>
               \A c \in Channels : state'[<<task[r].mod, c>>] = state[<<task[r].mod, c>>]
<1>1. BusInv => Owned
  BY DEF BusInv, HoldsAreOwned
<1>2. BusInv /\ [Next]_vars => [Ignored]_vars
  <2> SUFFICES ASSUME BusInv, Next, NEW r \in RawSends, Waiting(r),
                      now' < task[r].deadline, seeded' <= seeded, NEW c \in Channels
               PROVE  state'[<<task[r].mod, c>>] = state[<<task[r].mod, c>>]
    OBVIOUS
  <2>1. CASE UNCHANGED state
    BY <2>1
  <2>2. CASE \E m \in Modules : Receive(m)
    BY <2>2, HeldPacketsAreIgnored
  <2>3. ~SweepSeeds
    BY DEF SweepSeeds, BusInv, BusTypeOK
  <2>4. \A t : Skip(t) \/ CommandStep(t) \/ RawStep(t) => UNCHANGED state
    BY DEF Skip, CommandStep, Command, CommandConfirmed, CommandUnconfirmed, RawStep, RawSend,
           RawSendFails, RawSendRefused, RawCollect, RawWindowOver, registry
  <2>5. Tick \/ Poll => UNCHANGED state
    BY DEF Tick, Poll, registry
  <2>6. SweepStep => UNCHANGED state
    BY <2>3 DEF SweepStep, SweepStart, SweepQuery, SweepNoAnswer, SweepEnd, registry
  <2> QED
    BY <2>1, <2>2, <2>4, <2>5, <2>6 DEF Next
<1> QED
  BY <1>1, <1>2, BusAlways, PTL DEF Spec, HeldForRawSends

-----------------------------------------------------------------------------
(***************************************************************************)
(* The tracker                                                             *)
(***************************************************************************)
\* A handler of the tracker left the record s for module m, and the history of the
\* miss that it counted, if any.
Recorded(m, s) ==
  /\ timing'[m] = s
  /\ lost'[m] = IF s.missed = timing[m].missed THEN lost[m]
                ELSE lost[m] \cup {timing[m].pending}

\* What a step of the bus may do to the record of m.
RecordStep(m) ==
  \/ /\ now' = now + 1
     /\ Recorded(m, NoteSend(timing[m], now'))
     /\ sent'[m] = sent[m] \cup {now'} /\ heard'[m] = heard[m]
  \/ /\ now' = now + 1
     /\ Recorded(m, NoteReply(timing[m], now'))
     /\ heard'[m] = heard[m] \cup {now'} /\ sent'[m] = sent[m]
  \/ /\ now' = now
     /\ Recorded(m, NoteTimeout(timing[m], now'))
     /\ sent'[m] = sent[m] /\ heard'[m] = heard[m]
  \/ /\ now' \in {now, now + 1}
     /\ timing'[m] = timing[m] /\ lost'[m] = lost[m]
     /\ sent'[m] = sent[m] /\ heard'[m] = heard[m]

LEMMA TrackerInit == Init => \A m \in Modules : One(m)!Init
BY DEF Init, One!Init, One!NewTiming, NewTiming, One!NotPending, NotPending

\* The instance for one module has the handlers of the module itself.
LEMMA SameHandlers ==
  ASSUME NEW m, NEW s, NEW t
  PROVE  /\ One(m)!NoteSend(s, t) = NoteSend(s, t)
         /\ One(m)!NoteReply(s, t) = NoteReply(s, t)
         /\ One(m)!NoteTimeout(s, t) = NoteTimeout(s, t)
BY DEF NoteSend, NoteReply, NoteTimeout, PushSample, Overdue, IsPending, NotPending,
       One!NoteSend, One!NoteReply, One!NoteTimeout, One!PushSample, One!Overdue,
       One!IsPending, One!NotPending

LEMMA SameRecord ==
  ASSUME NEW m, NEW s, Recorded(m, s)
  PROVE  One(m)!Record(m, s)
<1> DEFINE T == [x \in {m} |-> timing[m]]
           L == [x \in {m} |-> lost[m]]
<1>1. T[m] = timing[m] /\ L[m] = lost[m]
  OBVIOUS
<1>2. [x \in {m} |-> timing'[m]] = [T EXCEPT ![m] = s]
  BY DEF Recorded
<1>3. [x \in {m} |-> lost'[m]] =
        IF s.missed = T[m].missed THEN L ELSE [L EXCEPT ![m] = @ \cup {T[m].pending}]
  <2>1. CASE s.missed = timing[m].missed
    BY <1>1, <2>1 DEF Recorded
  <2>2. CASE s.missed # timing[m].missed
    <3>1. lost'[m] = lost[m] \cup {timing[m].pending}
      BY <2>2 DEF Recorded
    <3>2. [x \in {m} |-> lost'[m]] = [L EXCEPT ![m] = lost[m] \cup {timing[m].pending}]
      BY <3>1
    <3> QED
      BY <1>1, <2>2, <3>2
  <2> QED
    BY <2>1, <2>2
<1> QED
  BY <1>2, <1>3 DEF One!Record

\* It is a step of the tracker's own specification.
LEMMA RecordStepRefines ==
  ASSUME now \in Nat, NEW m \in Modules, RecordStep(m)
  PROVE  One(m)!StepAt(now') \/ UNCHANGED One(m)!vars
<1>1. CASE /\ now' = now + 1
           /\ Recorded(m, NoteSend(timing[m], now'))
           /\ sent'[m] = sent[m] \cup {now'} /\ heard'[m] = heard[m]
  <2>1. One(m)!Record(m, One(m)!NoteSend([x \in {m} |-> timing[m]][m], now'))
    BY <1>1, SameRecord, SameHandlers
  <2>2. One(m)!Send(m, now')
    BY <1>1, <2>1 DEF One!Send
  <2> QED
    BY <2>2 DEF One!StepAt
<1>2. CASE /\ now' = now + 1
           /\ Recorded(m, NoteReply(timing[m], now'))
           /\ heard'[m] = heard[m] \cup {now'} /\ sent'[m] = sent[m]
  <2>1. One(m)!Record(m, One(m)!NoteReply([x \in {m} |-> timing[m]][m], now'))
    BY <1>2, SameRecord, SameHandlers
  <2>2. One(m)!Reply(m, now')
    BY <1>2, <2>1 DEF One!Reply
  <2> QED
    BY <2>2 DEF One!StepAt
<1>3. CASE /\ now' = now
           /\ Recorded(m, NoteTimeout(timing[m], now'))
           /\ sent'[m] = sent[m] /\ heard'[m] = heard[m]
  <2>1. One(m)!Record(m, One(m)!NoteTimeout([x \in {m} |-> timing[m]][m], now'))
    BY <1>3, SameRecord, SameHandlers
  <2>2. One(m)!CommandTimedOut(m, now')
    BY <1>3, <2>1 DEF One!CommandTimedOut
  <2> QED
    BY <2>2 DEF One!StepAt
<1>4. CASE /\ now' \in {now, now + 1}
           /\ timing'[m] = timing[m] /\ lost'[m] = lost[m]
           /\ sent'[m] = sent[m] /\ heard'[m] = heard[m]
  <2>1. CASE now' = now
    BY <1>4, <2>1 DEF One!vars
  <2>2. CASE now' = now + 1
    BY <1>4, <2>2 DEF One!StepAt, One!Elapse
  <2> QED
    BY <1>4, <2>1, <2>2
<1> QED
  BY <1>1, <1>2, <1>3, <1>4 DEF RecordStep

LEMMA EveryStepIsRecorded ==
  ASSUME heard = [m \in Modules |-> heard[m]], Next, NEW m \in Modules
  PROVE  RecordStep(m)
<1>1. ASSUME UNCHANGED tracker, now' \in {now, now + 1} PROVE RecordStep(m)
  BY <1>1 DEF tracker, RecordStep
<1>2. ASSUME NEW S, Await(S, now + 1), now' = now + 1 PROVE RecordStep(m)
  <2>1. CASE m \in S
    <3>1. Recorded(m, NoteSend(timing[m], now'))
      BY <1>2, <2>1 DEF Await, Track, Recorded
    <3>2. sent'[m] = sent[m] \cup {now'} /\ heard'[m] = heard[m]
      BY <1>2, <2>1 DEF Await
    <3> QED
      BY <1>2, <3>1, <3>2 DEF RecordStep
  <2>2. CASE m \notin S
    BY <1>2, <2>2 DEF Await, Track, RecordStep
  <2> QED
    BY <2>1, <2>2
<1>3. CASE \E x \in Modules : Receive(x)
  <2>1. PICK x \in Modules : Receive(x)
    BY <1>3
  <2>2. now' = now + 1
    BY <2>1 DEF Receive, Advance
  <2>3. CASE x = m
    <3>1. Recorded(m, NoteReply(timing[m], now'))
      BY <2>1, <2>2, <2>3 DEF Receive, Track, Recorded
    <3>2. heard'[m] = heard[m] \cup {now'} /\ sent'[m] = sent[m]
      BY <2>1, <2>2, <2>3 DEF Receive
    <3> QED
      BY <2>2, <3>1, <3>2 DEF RecordStep
  <2>4. CASE x # m
    BY <2>1, <2>2, <2>4 DEF Receive, Track, RecordStep
  <2> QED
    BY <2>3, <2>4
<1>4. ASSUME NEW t \in Commands, CommandUnconfirmed(t) PROVE RecordStep(m)
  <2>1. CASE task[t].mod = m
    <3>1. Recorded(m, NoteTimeout(timing[m], now'))
      BY <1>4, <2>1 DEF CommandUnconfirmed, Track, Recorded
    <3> QED
      BY <1>4, <3>1 DEF CommandUnconfirmed, RecordStep
  <2>2. CASE task[t].mod # m
    BY <1>4, <2>2 DEF CommandUnconfirmed, Track, RecordStep
  <2> QED
    BY <2>1, <2>2
<1>5. ASSUME NEW t \in Commands, NEW o \in Orders, Command(t, o[1], o[2], o[3])
      PROVE  RecordStep(m)
  <2>1. now' = now + 1
    BY <1>5 DEF Command, Advance
  <2>2. UNCHANGED tracker \/ Await({o[1]}, now + 1)
    BY <1>5 DEF Command
  <2> QED
    BY <1>1, <1>2, <2>1, <2>2
<1>6. CASE Poll
  BY <1>2, <1>6 DEF Poll, Advance
<1>7. CASE SweepQuery
  BY <1>2, <1>7 DEF SweepQuery, Advance
<1>8. CASE Tick
  BY <1>1, <1>8 DEF Tick, Advance
<1>9. ASSUME NEW t, Skip(t) \/ CommandConfirmed(t) PROVE RecordStep(m)
  BY <1>1, <1>9 DEF Skip, CommandConfirmed
<1>10. ASSUME NEW r \in RawSends, RawStep(r) PROVE RecordStep(m)
  <2>1. UNCHANGED tracker /\ now' \in {now, now + 1}
    BY <1>10 DEF RawStep, RawSend, Advance, RawSendFails, RawSendRefused, RawCollect, RawWindowOver
  <2> QED
    BY <1>1, <2>1
<1>11. CASE SweepStart \/ SweepSeeds \/ SweepNoAnswer \/ SweepEnd
  BY <1>1, <1>11 DEF SweepStart, SweepSeeds, SweepNoAnswer, SweepEnd
<1> QED
  BY <1>3, <1>4, <1>5, <1>6, <1>7, <1>8, <1>9, <1>10, <1>11 DEF Next, CommandStep, SweepStep

HeardOK == heard = [m \in Modules |-> heard[m]]

LEMMA HeardAlways == Spec => []HeardOK
<1>1. Init => HeardOK
  BY DEF Init, HeardOK
<1>2. HeardOK /\ [Next]_vars => HeardOK'
  <2> SUFFICES ASSUME HeardOK, [Next]_vars PROVE HeardOK'
    OBVIOUS
  <2>1. CASE UNCHANGED heard
    BY <2>1 DEF HeardOK
  <2>2. CASE \E m \in Modules : Receive(m)
    <3>1. PICK m \in Modules : heard' = [heard EXCEPT ![m] = @ \cup {now + 1}]
      BY <2>2 DEF Receive
    <3> QED
      BY <3>1 DEF HeardOK
  <2>3. \A S, t : Await(S, t) => UNCHANGED heard
    BY DEF Await
  <2>4. \A t : Skip(t) \/ CommandStep(t) \/ RawStep(t) => UNCHANGED heard
    BY <2>3 DEF Skip, CommandStep, Command, CommandConfirmed, CommandUnconfirmed, RawStep,
                RawSend, RawSendFails, RawSendRefused, RawCollect, RawWindowOver, tracker
  <2>5. Tick \/ Poll \/ SweepStep => UNCHANGED heard
    BY <2>3 DEF Tick, Poll, SweepStep, SweepStart, SweepQuery, SweepSeeds, SweepNoAnswer,
                SweepEnd, tracker
  <2>6. CASE UNCHANGED vars
    BY <2>1, <2>6 DEF vars, tracker
  <2> QED
    BY <2>1, <2>2, <2>4, <2>5, <2>6 DEF Next
<1> QED
  BY <1>1, <1>2, PTL DEF Spec

\* Commands, keepalives, sweeps, raw sends and everything a module sends use the
\* record of a module as the tracker's specification says (UDPBus, _execute_command).
THEOREM BusUsesTracker == Spec => UsesTracker
<1> DEFINE Starts == \A m \in Modules : One(m)!Init
           Uses == \A m \in Modules : One(m)!StepAt(now') \/ UNCHANGED One(m)!vars
<1>1. Init => Starts
  BY TrackerInit
<1>2. BusInv /\ HeardOK /\ [Next]_vars => [Uses]_vars
  <2> SUFFICES ASSUME BusInv, HeardOK, Next, NEW m \in Modules
               PROVE  One(m)!StepAt(now') \/ UNCHANGED One(m)!vars
    OBVIOUS
  <2>1. now \in Nat
    BY DEF BusInv, BusTypeOK
  <2>2. RecordStep(m)
    BY EveryStepIsRecorded DEF HeardOK
  <2> QED
    BY <2>1, <2>2, RecordStepRefines
<1> QED
  BY <1>1, <1>2, BusAlways, HeardAlways, PTL DEF Spec, UsesTracker

\* What lets the tracker drop a send at x uncounted: a packet at that very instant, or a
\* packet or a newer send in the reply window.
Answered(m, x) ==
  \/ x \in heard[m]
  \/ \E y \in heard[m] \cup sent[m] : x < y /\ y <= x + Timeout

\* The record of a module and its history, as Reachability_proofs' IInv has them.
RecordOK(m) ==
  LET s == timing[m] IN
  /\ s \in Timing
  /\ sent[m] \subseteq Nat /\ heard[m] \subseteq Nat /\ lost[m] \subseteq sent[m]
  /\ \A x \in heard[m] \cup sent[m] : x <= now
  /\ s.pending # NotPending =>
       /\ s.pending \in sent[m] \ lost[m]
       /\ \A x \in heard[m] \cup sent[m] : x <= s.pending
  /\ \A x \in sent[m] : x \in lost[m] \/ s.pending = x \/ Answered(m, x)
  /\ \A x \in lost[m] :
       /\ now >= x + Timeout
       /\ \A y \in heard[m] \cup sent[m] : ~(x < y /\ y < x + Timeout)

RecordsOK == \A m \in Modules : RecordOK(m)

LEMMA RecordsInit == Init => RecordsOK
BY DEF Init, RecordsOK, RecordOK, NewTiming, Timing, NotPending

\* The handlers leave a record of the type, and count the pending send or nothing.
LEMMA HandlersOfRecord ==
  ASSUME NEW s \in Timing, NEW t \in Nat
  PROVE  /\ NoteSend(s, t) \in Timing
         /\ NoteReply(s, t) \in Timing
         /\ NoteTimeout(s, t) \in Timing
<1> USE TimeoutAssumption, AvgSamplesAssumption DEF NotPending
<1>1. NoteSend(s, t) \in Timing
  BY DEF NoteSend, Timing
<1>2. NoteTimeout(s, t) \in Timing
  BY DEF NoteTimeout, Timing
<1>3. NoteReply(s, t) \in Timing
  <2>1. ASSUME NEW x \in Nat PROVE PushSample(s.samples, x) \in Seq(Nat)
    BY <2>1 DEF PushSample, Timing
  <2>2. IsPending(s) /\ t >= s.pending => t - s.pending \in Nat
    BY DEF IsPending, Timing
  <2>3. NoteReply(s, t).samples \in Seq(Nat)
    BY <2>1, <2>2 DEF NoteReply, Timing
  <2> QED
    BY <2>3 DEF NoteReply, Timing
<1> QED
  BY <1>1, <1>2, <1>3

\* A send to m.
LEMMA SendIsRecorded ==
  ASSUME now \in Nat, NEW m \in Modules, RecordOK(m), now' = now + 1,
         Recorded(m, NoteSend(timing[m], now')),
         sent'[m] = sent[m] \cup {now'}, heard'[m] = heard[m]
  PROVE  RecordOK(m)'
<1> DEFINE s == timing[m]
<1>1. s \in Timing /\ now' \in Nat
  BY DEF RecordOK
<1>2. timing'[m] \in Timing /\ timing'[m].pending = now'
  BY <1>1, HandlersOfRecord DEF Recorded, NoteSend
<1>3. \/ lost'[m] = lost[m] /\ (s.pending # NotPending => now' - s.pending <= Timeout)
      \/ /\ lost'[m] = lost[m] \cup {s.pending}
         /\ s.pending # NotPending /\ now' - s.pending > Timeout
  <2>1. NoteSend(s, now').missed = IF Overdue(s, now') THEN s.missed + 1 ELSE s.missed
    BY DEF NoteSend
  <2>2. s.missed \in Nat
    BY <1>1 DEF Timing
  <2>3. lost'[m] = IF Overdue(s, now') THEN lost[m] \cup {s.pending} ELSE lost[m]
    BY <2>1, <2>2 DEF Recorded
  <2> QED
    BY <1>1, <2>3, TimeoutAssumption DEF Overdue, IsPending, Timing
<1>4. s.pending \in Nat \cup {NotPending}
  BY <1>1 DEF Timing
<1> QED
  BY <1>1, <1>2, <1>3, <1>4, TimeoutAssumption DEF RecordOK, Answered, NotPending

\* A packet of m is handled.
LEMMA ReplyIsRecorded ==
  ASSUME now \in Nat, NEW m \in Modules, RecordOK(m), now' = now + 1,
         Recorded(m, NoteReply(timing[m], now')),
         heard'[m] = heard[m] \cup {now'}, sent'[m] = sent[m]
  PROVE  RecordOK(m)'
<1> DEFINE s == timing[m]
<1>1. s \in Timing /\ now' \in Nat
  BY DEF RecordOK
<1>4. s.pending \in Nat \cup {NotPending} /\ (s.pending # NotPending => s.pending <= now)
  BY <1>1 DEF Timing, RecordOK
<1>2. timing'[m] \in Timing /\ timing'[m].pending = NotPending
  BY <1>1, <1>4, HandlersOfRecord DEF Recorded, NoteReply, Overdue, IsPending
<1>3. \/ lost'[m] = lost[m] /\ (s.pending # NotPending => now' - s.pending <= Timeout)
      \/ /\ lost'[m] = lost[m] \cup {s.pending}
         /\ s.pending # NotPending /\ now' - s.pending > Timeout
  <2>1. NoteReply(s, now').missed = IF Overdue(s, now') THEN s.missed + 1 ELSE s.missed
    BY DEF NoteReply
  <2>2. s.missed \in Nat
    BY <1>1 DEF Timing
  <2>3. lost'[m] = IF Overdue(s, now') THEN lost[m] \cup {s.pending} ELSE lost[m]
    BY <2>1, <2>2 DEF Recorded
  <2> QED
    BY <1>1, <2>3, TimeoutAssumption DEF Overdue, IsPending, Timing
<1> QED
  BY <1>1, <1>2, <1>3, <1>4, TimeoutAssumption DEF RecordOK, Answered, NotPending

\* A command to m had no reply.
LEMMA TimeoutIsRecorded ==
  ASSUME now \in Nat, NEW m \in Modules, RecordOK(m), now' = now,
         Recorded(m, NoteTimeout(timing[m], now')),
         heard'[m] = heard[m], sent'[m] = sent[m]
  PROVE  RecordOK(m)'
<1> DEFINE s == timing[m]
<1>1. s \in Timing
  BY DEF RecordOK
<1>4. s.pending \in Nat \cup {NotPending}
  BY <1>1 DEF Timing
<1>2. timing'[m] \in Timing
  BY <1>1, HandlersOfRecord DEF Recorded
<1>3. \/ lost'[m] = lost[m] /\ timing'[m] = s
      \/ /\ lost'[m] = lost[m] \cup {s.pending} /\ timing'[m].pending = NotPending
         /\ s.pending # NotPending /\ now' - s.pending >= Timeout
  BY <1>1 DEF Recorded, NoteTimeout, IsPending, Timing
<1> QED
  BY <1>1, <1>2, <1>3, <1>4, TimeoutAssumption DEF RecordOK, Answered, NotPending

\* Every step of the bus keeps every record so.
LEMMA RecordStepKeeps ==
  ASSUME now \in Nat, NEW m \in Modules, RecordOK(m), RecordStep(m)
  PROVE  RecordOK(m)'
<1>1. CASE /\ now' \in {now, now + 1}
           /\ timing'[m] = timing[m] /\ lost'[m] = lost[m]
           /\ sent'[m] = sent[m] /\ heard'[m] = heard[m]
  BY <1>1, TimeoutAssumption DEF RecordOK, Answered
<1> QED
  BY <1>1, SendIsRecorded, ReplyIsRecorded, TimeoutIsRecorded DEF RecordStep

LEMMA RecordsAlways == Spec => []RecordsOK
<1>1. BusInv /\ HeardOK /\ RecordsOK /\ [Next]_vars => RecordsOK'
  <2> SUFFICES ASSUME BusInv, HeardOK, RecordsOK, [Next]_vars, NEW m \in Modules
               PROVE  RecordOK(m)'
    BY DEF RecordsOK
  <2>1. now \in Nat /\ RecordOK(m)
    BY DEF BusInv, BusTypeOK, RecordsOK
  <2>2. CASE UNCHANGED vars
    BY <2>1, <2>2 DEF vars, tracker, RecordOK, Answered
  <2>3. CASE Next
    BY <2>1, <2>3, EveryStepIsRecorded, RecordStepKeeps DEF HeardOK
  <2> QED
    BY <2>2, <2>3
<1> QED
  BY RecordsInit, <1>1, BusAlways, HeardAlways, PTL DEF Spec

\* missed_replies counts only real misses on the bus, where commands, queries and
\* keepalives share a module's record (note_send, note_reply, note_timeout).
THEOREM BusMissesAreReal == Spec => []MissesAreReal
<1>1. RecordsOK => MissesAreReal
  BY DEF RecordsOK, RecordOK, MissesAreReal, One!MissesAreReal, One!PossiblyMissed
<1> QED
  BY <1>1, RecordsAlways, PTL

\* No miss on the bus is forgotten.
THEOREM BusForgetsNoMiss == Spec => []NoMissForgotten
<1>1. RecordsOK => NoMissForgotten
  BY DEF RecordsOK, RecordOK, Answered, NoMissForgotten, One!NoMissForgotten, One!ClearlyMissed
<1> QED
  BY <1>1, RecordsAlways, PTL

-----------------------------------------------------------------------------
(***************************************************************************)
(* What a wait finds.  The locals w of task t are looked at by themselves, *)
(* with the time n and the history h of the packets handled.               *)
(***************************************************************************)

\* The queue of a task that waits: in order, with a tick at least from one packet
\* to the next, and none that the task should have taken by now.
QueueOK(w, n) ==
  /\ n <= w.deadline + Lag
  /\ \A i \in DOMAIN w.queue : w.queue[i].ts <= n /\ n <= w.queue[i].ts + Lag
  /\ \A i, j \in DOMAIN w.queue : i <= j => j - i <= w.queue[j].ts - w.queue[i].ts

\* What was taken so far: replies, in order, and older than what is in the queue.
GotOK(w, n) ==
  /\ \A i \in DOMAIN w.got : /\ w.got[i].src = w.mod
                             /\ w.after <= w.got[i].ts /\ w.got[i].ts <= n
  /\ \A i, j \in DOMAIN w.got : i < j => w.got[i].ts < w.got[j].ts
  /\ \A i \in DOMAIN w.got, j \in DOMAIN w.queue : w.got[i].ts < w.queue[j].ts

\* No reply is lost between the module and the task.
Kept(w, h) ==
  \A x \in h[w.mod] :
    \/ x < w.after
    \/ \E i \in DOMAIN w.queue : w.queue[i].src = w.mod /\ w.queue[i].ts = x
    \/ \E i \in DOMAIN w.got : w.got[i].ts = x

\* The task waited to the end and has every reply but for the last Lag.
AllTaken(w, n, h) ==
  /\ w.mod \in Modules
  /\ n >= w.deadline
  /\ \A x \in h[w.mod] :
       \/ x < w.after \/ x >= w.deadline - Lag
       \/ \E i \in DOMAIN w.got : w.got[i].ts = x

Clocked(w) == w.queue \in Seq(Packet) /\ w.got \in Seq(Packet) /\ w.after \in Nat /\ w.deadline \in Nat

TaskOK(t, w, n, h) ==
  /\ Clocked(w)
  /\ GotOK(w, n)
  /\ w.pc = "waiting" => /\ w.mod \in Modules /\ w.result = "none"
                         /\ QueueOK(w, n)
                         /\ t # Sweep => Kept(w, h)
                         /\ t \notin RawSends => w.got = <<>>
  /\ w.pc # "waiting" => w.queue = <<>>
  /\ w.result = "confirmed" => w.got # <<>> /\ w.got[1].ts <= w.deadline + Lag
  /\ w.result = "unconfirmed" => w.got = <<>> /\ AllTaken(w, n, h)
  /\ w.result = "ok" => AllTaken(w, n, h)
  /\ w.result = "truncated" => Len(w.got) = MaxReplies

\* What Advance asks of a task.
InTime(w, n) ==
  w.pc = "waiting" => /\ n < w.deadline + Lag
                      /\ w.queue # <<>> => n < Head(w.queue).ts + Lag

History == [Modules -> SUBSET Nat]

LEMMA HeadOfQueue ==
  ASSUME NEW q \in Seq(Packet), q # <<>>
  PROVE  /\ Head(q) = q[1] /\ 1 \in DOMAIN q /\ q[1] \in Packet
         /\ Tail(q) \in Seq(Packet) /\ Len(Tail(q)) = Len(q) - 1
         /\ \A i \in DOMAIN Tail(q) : i + 1 \in DOMAIN q /\ Tail(q)[i] = q[i + 1]
         /\ \A i \in DOMAIN q \ {1} : i - 1 \in DOMAIN Tail(q) /\ Tail(q)[i - 1] = q[i]
         /\ DOMAIN Tail(q) \subseteq Nat \ {0}
OBVIOUS

LEMMA TimesOf ==
  ASSUME NEW q \in Seq(Packet)
  PROVE  \A i \in DOMAIN q : q[i] \in Packet /\ q[i].ts \in Nat
<1>1. \A p \in Packet : p.ts \in Nat
  BY DEF Packet
<1> QED
  BY <1>1

\* Time passes, and no task is late for what it has.
LEMMA TimePasses ==
  ASSUME NEW t, NEW w, NEW n \in Nat, NEW h, TaskOK(t, w, n, h), InTime(w, n)
  PROVE  TaskOK(t, w, n + 1, h)
<1>1. /\ w.queue \in Seq(Packet) /\ w.got \in Seq(Packet)
      /\ w.after \in Nat /\ w.deadline \in Nat /\ Lag \in Nat
  BY LimitsAssumption DEF TaskOK, Clocked
<1>2. \A p \in Packet : p.ts \in Nat
  BY DEF Packet
<1>3. GotOK(w, n + 1)
  <2>1. \A i \in DOMAIN w.got : w.got[i].ts \in Nat
    BY <1>1, <1>2
  <2> QED
    BY <1>1, <2>1 DEF TaskOK, GotOK
<1>4. w.pc = "waiting" => QueueOK(w, n + 1)
  <2> SUFFICES ASSUME w.pc = "waiting" PROVE QueueOK(w, n + 1)
    OBVIOUS
  <2>1. QueueOK(w, n)
    BY DEF TaskOK
  <2>2. n + 1 <= w.deadline + Lag
    BY <1>1 DEF InTime
  <2>3. ASSUME NEW i \in DOMAIN w.queue
        PROVE  w.queue[i].ts <= n + 1 /\ n + 1 <= w.queue[i].ts + Lag
    <3>1. w.queue # <<>> /\ 1 \in DOMAIN w.queue /\ 1 <= i /\ i \in Nat
      BY <1>1
    <3>2. w.queue[i].ts \in Nat /\ w.queue[1].ts \in Nat /\ Head(w.queue) = w.queue[1]
      BY <1>1, <1>2, <3>1
    <3>3. i - 1 <= w.queue[i].ts - w.queue[1].ts /\ w.queue[i].ts <= n
      BY <2>1, <3>1 DEF QueueOK
    <3>4. n < w.queue[1].ts + Lag
      BY <3>1, <3>2 DEF InTime
    <3> DEFINE a == w.queue[i].ts
               b == w.queue[1].ts
    <3>5. a \in Nat /\ b \in Nat /\ i - 1 <= a - b /\ a <= n /\ n < b + Lag
      BY <3>2, <3>3, <3>4
    <3>6. i \in Nat /\ 1 <= i /\ Lag \in Nat
      BY <1>1, <3>1
    <3> HIDE DEF a, b
    <3>7. a <= n + 1 /\ n + 1 <= a + Lag
      BY <3>5, <3>6
    <3> QED
      BY <3>7 DEF a
  <2> QED
    BY <2>1, <2>2, <2>3 DEF QueueOK
<1>5. AllTaken(w, n, h) => AllTaken(w, n + 1, h)
  BY <1>1 DEF AllTaken
<1> QED
  BY <1>3, <1>4, <1>5 DEF TaskOK

\* A queue in which a packet waits no longer than Lag is not full.
LEMMA QueueHasRoom ==
  ASSUME Lag < QueueMax, NEW t, NEW w, NEW n \in Nat, NEW h,
         TaskOK(t, w, n, h), InTime(w, n), w.pc = "waiting"
  PROVE  Len(w.queue) < QueueMax
<1>1. w.queue \in Seq(Packet) /\ Lag \in Nat /\ QueueMax \in Nat /\ Len(w.queue) \in Nat
  BY LimitsAssumption DEF TaskOK, Clocked
<1>2. CASE w.queue = <<>>
  BY <1>1, <1>2
<1>3. CASE w.queue # <<>>
  <2> DEFINE l == Len(w.queue)
  <2>1. 1 \in DOMAIN w.queue /\ l \in DOMAIN w.queue /\ 1 <= l /\ Head(w.queue) = w.queue[1]
    <3>1. Head(w.queue) = w.queue[1] /\ 1 \in DOMAIN w.queue
      BY <1>1, <1>3, HeadOfQueue, Zenon
    <3>2. DOMAIN w.queue = 1 .. l /\ l \in Nat
      BY <1>1
    <3> QED
      BY <3>1, <3>2
  <2>2. w.queue[1].ts \in Nat /\ w.queue[l].ts \in Nat
    <3>1. \A i \in DOMAIN w.queue : w.queue[i].ts \in Nat
      BY <1>1, TimesOf, Zenon
    <3> QED
      BY <2>1, <3>1
  <2>3. l - 1 <= w.queue[l].ts - w.queue[1].ts /\ w.queue[l].ts <= n
    <3>1. QueueOK(w, n)
      BY DEF TaskOK
    <3> HIDE DEF l
    <3>2. 1 \in DOMAIN w.queue /\ l \in DOMAIN w.queue /\ 1 <= l
      BY <2>1
    <3> QED
      BY <3>1, <3>2, Zenon DEF QueueOK
  <2>4. n < w.queue[1].ts + Lag
    BY <1>3, <2>1 DEF InTime
  <2> QED
    BY <1>1, <2>1, <2>2, <2>3, <2>4
<1> QED
  BY <1>2, <1>3

LEMMA EndOfQueue ==
  ASSUME NEW q \in Seq(Packet), NEW p \in Packet
  PROVE  /\ Append(q, p) \in Seq(Packet)
         /\ Len(q) \in Nat /\ DOMAIN q = 1 .. Len(q)
         /\ Len(q) + 1 \in DOMAIN Append(q, p) /\ Append(q, p)[Len(q) + 1] = p
         /\ \A i \in DOMAIN Append(q, p) :
              \/ i \in DOMAIN q /\ Append(q, p)[i] = q[i]
              \/ i = Len(q) + 1 /\ Append(q, p)[i] = p
         /\ \A i \in DOMAIN q : i \in DOMAIN Append(q, p) /\ Append(q, p)[i] = q[i]
OBVIOUS

\* The task's locals are v, after w: its request and its time are the same.
SameWait(w, v) == v.mod = w.mod /\ v.after = w.after /\ v.deadline = w.deadline

\* A packet comes, and the task that waits finds it at the end of its queue.
LEMMA PacketComes ==
  ASSUME Lag < QueueMax, NEW t, NEW w, NEW v, NEW n \in Nat, NEW h \in History,
         TaskOK(t, w, n, h), InTime(w, n), w.pc = "waiting",
         NEW m \in Modules, NEW pkt \in Packet, pkt.src = m, pkt.ts = n + 1,
         SameWait(w, v), v.pc = w.pc, v.result = w.result, v.got = w.got,
         v.queue = PushBounded(w.queue, pkt, QueueMax)
  PROVE  TaskOK(t, v, n + 1, [h EXCEPT ![m] = @ \cup {n + 1}])
<1>0. Len(w.queue) < QueueMax
  BY QueueHasRoom
<1> DEFINE h2 == [h EXCEPT ![m] = @ \cup {n + 1}]
           q == w.queue
<1>1. /\ q \in Seq(Packet) /\ w.got \in Seq(Packet)
      /\ w.after \in Nat /\ w.deadline \in Nat /\ Lag \in Nat
  BY LimitsAssumption DEF TaskOK, Clocked
<1>2. TaskOK(t, w, n + 1, h)
  BY TimePasses
<1>3. v.queue = Append(q, pkt)
  BY <1>0 DEF PushBounded
<1> HIDE DEF q
<1>4. /\ Len(q) \in Nat /\ DOMAIN q = 1 .. Len(q)
      /\ v.queue \in Seq(Packet)
      /\ Len(q) + 1 \in DOMAIN v.queue /\ v.queue[Len(q) + 1] = pkt
      /\ \A i \in DOMAIN v.queue :
           \/ i \in DOMAIN q /\ v.queue[i] = q[i]
           \/ i = Len(q) + 1 /\ v.queue[i] = pkt
      /\ \A i \in DOMAIN q : i \in DOMAIN v.queue /\ v.queue[i] = q[i]
  <2>1. /\ Len(q) \in Nat /\ DOMAIN q = 1 .. Len(q)
        /\ Append(q, pkt) \in Seq(Packet)
        /\ Len(q) + 1 \in DOMAIN Append(q, pkt) /\ Append(q, pkt)[Len(q) + 1] = pkt
        /\ \A i \in DOMAIN Append(q, pkt) :
             \/ i \in DOMAIN q /\ Append(q, pkt)[i] = q[i]
             \/ i = Len(q) + 1 /\ Append(q, pkt)[i] = pkt
        /\ \A i \in DOMAIN q : i \in DOMAIN Append(q, pkt) /\ Append(q, pkt)[i] = q[i]
    <3> HIDE DEF Packet
    <3> QED
      BY <1>1, EndOfQueue
  <2> QED
    BY <1>3, <2>1, Zenon
<1>5. /\ \A i \in DOMAIN q : q[i].ts \in Nat
      /\ \A i \in DOMAIN w.got : w.got[i].ts \in Nat
  BY <1>1, TimesOf, Zenon
<1>6. GotOK(v, n + 1)
  <2>1. /\ \A i \in DOMAIN w.got : /\ w.got[i].src = w.mod
                                   /\ w.after <= w.got[i].ts /\ w.got[i].ts <= n
        /\ \A i, j \in DOMAIN w.got : i < j => w.got[i].ts < w.got[j].ts
        /\ \A i \in DOMAIN w.got, j \in DOMAIN q : w.got[i].ts < q[j].ts
    BY DEF TaskOK, GotOK, q
  <2>2. \A i \in DOMAIN w.got : w.got[i].ts <= n + 1 /\ w.got[i].ts < n + 1
    <3> SUFFICES ASSUME NEW i \in DOMAIN w.got
                 PROVE  w.got[i].ts <= n + 1 /\ w.got[i].ts < n + 1
      OBVIOUS
    <3> DEFINE x == w.got[i].ts
    <3>1. x \in Nat /\ x <= n
      BY <1>5, <2>1, Zenon
    <3> HIDE DEF x
    <3>2. x <= n + 1 /\ x < n + 1
      BY <3>1
    <3> QED
      BY <3>2 DEF x
  <2> QED
    BY <1>4, <2>1, <2>2 DEF GotOK, SameWait
<1>7. QueueOK(v, n + 1)
  <2>1. QueueOK(w, n) /\ QueueOK(w, n + 1)
    BY <1>2 DEF TaskOK
  <2>2. n + 1 <= v.deadline + Lag
    BY <2>1 DEF QueueOK, SameWait
  <2>3. \A i \in DOMAIN v.queue : v.queue[i].ts <= n + 1 /\ n + 1 <= v.queue[i].ts + Lag
    <3>1. pkt.ts <= n + 1 /\ n + 1 <= pkt.ts + Lag
      BY <1>1
    <3>2. \A i \in DOMAIN q : q[i].ts <= n + 1 /\ n + 1 <= q[i].ts + Lag
      BY <2>1 DEF QueueOK, q
    <3> QED
      BY <1>4, <3>1, <3>2
  <2>4. ASSUME NEW i \in DOMAIN v.queue, NEW j \in DOMAIN v.queue, i <= j
        PROVE  j - i <= v.queue[j].ts - v.queue[i].ts
    <3>1. CASE j \in DOMAIN q /\ v.queue[j] = q[j]
      <4>1. i \in DOMAIN q /\ v.queue[i] = q[i]
        BY <1>4, <2>4, <3>1
      <4> QED
        BY <2>1, <2>4, <3>1, <4>1 DEF QueueOK, q
    <3>2. CASE j = Len(q) + 1 /\ v.queue[j] = pkt /\ i \in DOMAIN q /\ v.queue[i] = q[i]
      <4> DEFINE l == Len(q)
      <4>1. l \in DOMAIN q /\ i <= l /\ i \in Nat /\ l \in Nat
        BY <1>4, <3>2
      <4>2. q[l].ts \in Nat /\ q[i].ts \in Nat
        BY <1>5, <3>2, <4>1
      <4>3. l - i <= q[l].ts - q[i].ts /\ q[l].ts <= n
        <5> HIDE DEF l
        <5> QED
          BY <2>1, <3>2, <4>1 DEF QueueOK, q
      <4> DEFINE a == q[l].ts
                 b == q[i].ts
                 x == v.queue[j].ts
                 y == v.queue[i].ts
      <4>4. x = n + 1 /\ y = b
        BY <3>2, Zenon
      <4>5. /\ a \in Nat /\ b \in Nat /\ l \in Nat /\ i \in Nat /\ j = l + 1
            /\ l - i <= a - b /\ a <= n
        BY <3>2, <4>1, <4>2, <4>3
      <4> HIDE DEF a, b, x, y, l
      <4>6. j - i <= x - y
        BY <4>4, <4>5
      <4> QED
        BY <4>6 DEF x, y
    <3>3. CASE i = j
      <4>1. v.queue[j].ts \in Nat /\ j \in Nat
        BY <1>4, <1>5
      <4> QED
        BY <3>3, <4>1
    <3> QED
      BY <1>4, <2>4, <3>1, <3>2, <3>3, Zenon
  <2> QED
    BY <2>2, <2>3, <2>4 DEF QueueOK
<1>8. t # Sweep => Kept(v, h2)
  <2> SUFFICES ASSUME t # Sweep, NEW x \in h2[v.mod]
               PROVE  \/ x < v.after
                      \/ \E i \in DOMAIN v.queue : v.queue[i].src = v.mod /\ v.queue[i].ts = x
                      \/ \E i \in DOMAIN v.got : v.got[i].ts = x
    BY DEF Kept
  <2>1. w.mod \in Modules /\ v.mod = w.mod /\ v.after = w.after
    BY DEF TaskOK, SameWait
  <2>2. x \in h[w.mod] \/ (w.mod = m /\ x = n + 1)
    BY <2>1 DEF History
  <2>3. CASE x \in h[w.mod]
    <3>1. \/ x < w.after
          \/ \E i \in DOMAIN q : q[i].src = w.mod /\ q[i].ts = x
          \/ \E i \in DOMAIN w.got : w.got[i].ts = x
      BY <2>3 DEF TaskOK, Kept, q
    <3> QED
      BY <1>4, <2>1, <3>1
  <2>4. CASE w.mod = m /\ x = n + 1
    BY <1>4, <2>1, <2>4
  <2> QED
    BY <2>2, <2>3, <2>4
<1> QED
  BY <1>1, <1>4, <1>6, <1>7, <1>8 DEF TaskOK, Clocked, SameWait

\* A packet comes, and the task does not wait.
LEMMA PacketPassesBy ==
  ASSUME NEW t, NEW w, NEW n \in Nat, NEW h \in History,
         TaskOK(t, w, n, h), w.pc # "waiting", NEW m \in Modules
  PROVE  TaskOK(t, w, n + 1, [h EXCEPT ![m] = @ \cup {n + 1}])
<1> DEFINE h2 == [h EXCEPT ![m] = @ \cup {n + 1}]
<1>1. TaskOK(t, w, n + 1, h)
  BY TimePasses DEF InTime
<1>2. AllTaken(w, n, h) => AllTaken(w, n + 1, h2)
  <2> SUFFICES ASSUME AllTaken(w, n, h), NEW x \in h2[w.mod]
               PROVE  /\ w.mod \in Modules /\ n + 1 >= w.deadline
                      /\ \/ x < w.after \/ x >= w.deadline - Lag
                         \/ \E i \in DOMAIN w.got : w.got[i].ts = x
    <3>1. w.deadline \in Nat
      BY DEF TaskOK, Clocked
    <3> QED
      BY <3>1 DEF AllTaken
  <2>1. w.deadline \in Nat /\ Lag \in Nat /\ n >= w.deadline /\ w.mod \in Modules
    BY LimitsAssumption DEF TaskOK, Clocked, AllTaken
  <2>2. x \in h[w.mod] \/ x = n + 1
    BY <2>1 DEF History
  <2> QED
    BY <2>1, <2>2 DEF AllTaken
<1> QED
  BY <1>1, <1>2 DEF TaskOK

\* What is left in a queue when its first packet is taken.
LEMMA TailOfQueue ==
  ASSUME NEW w, NEW v, NEW n \in Nat, w.queue \in Seq(Packet), w.queue # <<>>,
         QueueOK(w, n), v.deadline = w.deadline, v.queue = Tail(w.queue)
  PROVE  QueueOK(v, n)
<1>1. /\ DOMAIN v.queue \subseteq Nat
      /\ \A i \in DOMAIN v.queue : i + 1 \in DOMAIN w.queue /\ v.queue[i] = w.queue[i + 1]
  BY HeadOfQueue
<1>2. \A i, j \in DOMAIN v.queue : i <= j => j - i <= v.queue[j].ts - v.queue[i].ts
  <2> SUFFICES ASSUME NEW i \in DOMAIN v.queue, NEW j \in DOMAIN v.queue, i <= j
               PROVE  j - i <= v.queue[j].ts - v.queue[i].ts
    OBVIOUS
  <2>1. i + 1 <= j + 1 /\ (j + 1) - (i + 1) = j - i
    <3>1. i \in Nat /\ j \in Nat
      BY <1>1, Zenon
    <3> QED
      BY <3>1
  <2>2. (j + 1) - (i + 1) <= w.queue[j + 1].ts - w.queue[i + 1].ts
    BY <1>1, <2>1 DEF QueueOK
  <2> QED
    BY <1>1, <2>1, <2>2
<1> QED
  BY <1>1, <1>2 DEF QueueOK

\* The first packet of the queue does not match, and is dropped.
LEMMA PacketDropped ==
  ASSUME NEW t \in Tasks, NEW w, NEW v, NEW n \in Nat, NEW h \in History,
         TaskOK(t, w, n, h), w.pc = "waiting", w.queue # <<>>,
         ~Match(t, w, Head(w.queue)),
         SameWait(w, v), v.pc = w.pc, v.result = w.result, v.got = w.got,
         v.queue = Tail(w.queue)
  PROVE  TaskOK(t, v, n, h)
<1>1. w.queue \in Seq(Packet) /\ w.got \in Seq(Packet)
  BY DEF TaskOK, Clocked
<1>2. /\ Head(w.queue) = w.queue[1] /\ v.queue \in Seq(Packet)
      /\ \A i \in DOMAIN v.queue : i + 1 \in DOMAIN w.queue /\ v.queue[i] = w.queue[i + 1]
      /\ \A i \in DOMAIN w.queue \ {1} : i - 1 \in DOMAIN v.queue /\ v.queue[i - 1] = w.queue[i]
      /\ \A i \in DOMAIN w.queue : w.queue[i].ts \in Nat
  <2>1. /\ Head(w.queue) = w.queue[1] /\ v.queue \in Seq(Packet)
        /\ \A i \in DOMAIN v.queue : i + 1 \in DOMAIN w.queue /\ v.queue[i] = w.queue[i + 1]
        /\ \A i \in DOMAIN w.queue \ {1} : i - 1 \in DOMAIN v.queue /\ v.queue[i - 1] = w.queue[i]
    BY <1>1, HeadOfQueue
  <2>2. \A i \in DOMAIN w.queue : w.queue[i].ts \in Nat
    BY <1>1, TimesOf, Zenon
  <2> QED
    BY <2>1, <2>2
<1>3. GotOK(v, n)
  BY <1>2 DEF TaskOK, GotOK, SameWait
<1>4. QueueOK(v, n)
  BY <1>1, TailOfQueue DEF TaskOK, SameWait
<1>5. t # Sweep => Kept(v, h)
  <2> SUFFICES ASSUME t # Sweep, NEW x \in h[w.mod]
               PROVE  \/ x < v.after
                      \/ \E i \in DOMAIN v.queue : v.queue[i].src = v.mod /\ v.queue[i].ts = x
                      \/ \E i \in DOMAIN v.got : v.got[i].ts = x
    BY DEF Kept, SameWait
  <2>1. ~(w.queue[1].src = w.mod /\ w.queue[1].ts >= w.after)
    BY <1>2 DEF Match, Expected
  <2>2. \/ x < w.after
        \/ \E i \in DOMAIN w.queue : w.queue[i].src = w.mod /\ w.queue[i].ts = x
        \/ \E i \in DOMAIN w.got : w.got[i].ts = x
    BY DEF TaskOK, Kept
  <2>3. CASE \E i \in DOMAIN w.queue : w.queue[i].src = w.mod /\ w.queue[i].ts = x
    <3>1. PICK i \in DOMAIN w.queue : w.queue[i].src = w.mod /\ w.queue[i].ts = x
      BY <2>3
    <3>2. CASE i = 1
      <4>1. w.after \in Nat /\ x \in Nat
        BY <1>2, <3>1 DEF TaskOK, Clocked
      <4> QED
        BY <2>1, <3>1, <3>2, <4>1 DEF SameWait
    <3>3. CASE i # 1
      BY <1>2, <3>1, <3>3 DEF SameWait
    <3> QED
      BY <3>2, <3>3
  <2> QED
    BY <2>2, <2>3 DEF SameWait
<1> QED
  BY <1>1, <1>2, <1>3, <1>4, <1>5 DEF TaskOK, Clocked, SameWait

\* The first packet of the queue matches: added to the list, it keeps its order.
LEMMA ListGrows ==
  ASSUME NEW t \in Tasks, NEW w, NEW v, NEW n \in Nat, NEW h \in History,
         TaskOK(t, w, n, h), w.pc = "waiting", w.queue # <<>>,
         Match(t, w, Head(w.queue)),
         SameWait(w, v), v.got = Append(w.got, Head(w.queue)),
         v.queue \in {Tail(w.queue), <<>>}
  PROVE  /\ v.got \in Seq(Packet)
         /\ GotOK(v, n)
         /\ \A i \in DOMAIN w.got : i \in DOMAIN v.got /\ v.got[i] = w.got[i]
         /\ \E i \in DOMAIN v.got : v.got[i] = Head(w.queue)
<1> DEFINE p == Head(w.queue)
<1>1. w.queue \in Seq(Packet) /\ w.got \in Seq(Packet)
  BY DEF TaskOK, Clocked
<1>2. /\ p = w.queue[1] /\ 1 \in DOMAIN w.queue /\ p \in Packet
      /\ \A i \in DOMAIN v.queue : i + 1 \in DOMAIN w.queue /\ v.queue[i] = w.queue[i + 1]
      /\ DOMAIN v.queue \subseteq Nat \ {0}
  <2>1. /\ p = w.queue[1] /\ 1 \in DOMAIN w.queue /\ w.queue[1] \in Packet
        /\ \A i \in DOMAIN Tail(w.queue) :
             i + 1 \in DOMAIN w.queue /\ Tail(w.queue)[i] = w.queue[i + 1]
        /\ DOMAIN Tail(w.queue) \subseteq Nat \ {0}
    BY <1>1, HeadOfQueue
  <2>2. CASE v.queue = Tail(w.queue)
    BY <2>1, <2>2
  <2>3. CASE v.queue = <<>>
    BY <2>1, <2>3
  <2> QED
    BY <2>2, <2>3
<1>3. p.src = w.mod /\ p.ts >= w.after /\ p.ts <= n
  BY <1>2 DEF Match, TaskOK, QueueOK
<1> HIDE DEF p
<1>4. /\ Len(w.got) \in Nat /\ DOMAIN w.got = 1 .. Len(w.got)
      /\ v.got \in Seq(Packet)
      /\ Len(w.got) + 1 \in DOMAIN v.got /\ v.got[Len(w.got) + 1] = p
      /\ \A i \in DOMAIN v.got :
           \/ i \in DOMAIN w.got /\ v.got[i] = w.got[i]
           \/ i = Len(w.got) + 1 /\ v.got[i] = p
      /\ \A i \in DOMAIN w.got : i \in DOMAIN v.got /\ v.got[i] = w.got[i]
  <2>1. v.got = Append(w.got, p)
    BY DEF p
  <2> QED
    BY <1>1, <1>2, <2>1, EndOfQueue
<1>5. \A q \in {w.got, w.queue} : \A i \in DOMAIN q : q[i].ts \in Nat
  BY <1>1, TimesOf, Zenon
<1>6. /\ \A i \in DOMAIN w.got : /\ w.got[i].src = w.mod
                                 /\ w.after <= w.got[i].ts /\ w.got[i].ts <= n
      /\ \A i, j \in DOMAIN w.got : i < j => w.got[i].ts < w.got[j].ts
      /\ \A i \in DOMAIN w.got, j \in DOMAIN w.queue : w.got[i].ts < w.queue[j].ts
      /\ \A i, j \in DOMAIN w.queue : i <= j => j - i <= w.queue[j].ts - w.queue[i].ts
  BY DEF TaskOK, GotOK, QueueOK
<1>7. \A i \in DOMAIN w.got : w.got[i].ts < p.ts
  BY <1>2, <1>6
<1>8. \A j \in DOMAIN v.queue : p.ts < v.queue[j].ts
  <2> SUFFICES ASSUME NEW j \in DOMAIN v.queue PROVE p.ts < v.queue[j].ts
    OBVIOUS
  <2> DEFINE a == p.ts
             b == w.queue[j + 1].ts
  <2>1. /\ j + 1 \in DOMAIN w.queue /\ 1 <= j + 1 /\ j \in Nat \ {0}
        /\ v.queue[j] = w.queue[j + 1]
    BY <1>2
  <2>2. (j + 1) - 1 <= b - a /\ a \in Nat /\ b \in Nat
    BY <1>2, <1>5, <1>6, <2>1
  <2> HIDE DEF a, b
  <2>3. a < b
    BY <2>1, <2>2
  <2> QED
    BY <2>1, <2>3 DEF a, b
<1>9. GotOK(v, n)
  <2>1. \A i \in DOMAIN v.got : /\ v.got[i].src = v.mod
                                /\ v.after <= v.got[i].ts /\ v.got[i].ts <= n
    <3>1. w.after \in Nat /\ p.ts \in Nat
      BY <1>2, <1>5 DEF TaskOK, Clocked
    <3>2. p.src = w.mod /\ w.after <= p.ts /\ p.ts <= n
      BY <1>3, <3>1
    <3> QED
      BY <1>4, <1>6, <3>2 DEF SameWait
  <2>2. \A i, j \in DOMAIN v.got : i < j => v.got[i].ts < v.got[j].ts
    <3> SUFFICES ASSUME NEW i \in DOMAIN v.got, NEW j \in DOMAIN v.got, i < j
                 PROVE  v.got[i].ts < v.got[j].ts
      OBVIOUS
    <3>1. i \in DOMAIN w.got /\ v.got[i] = w.got[i]
      BY <1>4
    <3>2. CASE j \in DOMAIN w.got /\ v.got[j] = w.got[j]
      BY <1>6, <3>1, <3>2
    <3>3. CASE v.got[j] = p
      BY <1>7, <3>1, <3>3
    <3> QED
      BY <1>4, <3>2, <3>3
  <2>3. \A i \in DOMAIN v.got, j \in DOMAIN v.queue : v.got[i].ts < v.queue[j].ts
    <3> SUFFICES ASSUME NEW i \in DOMAIN v.got, NEW j \in DOMAIN v.queue
                 PROVE  v.got[i].ts < v.queue[j].ts
      OBVIOUS
    <3>1. CASE v.got[i] = p
      BY <1>8, <3>1
    <3>2. CASE i \in DOMAIN w.got /\ v.got[i] = w.got[i]
      BY <1>2, <1>6, <3>2
    <3> QED
      BY <1>4, <3>1, <3>2
  <2> QED
    BY <2>1, <2>2, <2>3 DEF GotOK
<1> QED
  BY <1>4, <1>9 DEF p

\* A raw send takes a reply, and waits for more.
LEMMA ListKept ==
  ASSUME NEW t \in Tasks, t \in RawSends, NEW w, NEW v, NEW n \in Nat, NEW h \in History,
         TaskOK(t, w, n, h), w.pc = "waiting", w.queue # <<>>,
         Match(t, w, Head(w.queue)),
         SameWait(w, v), v.pc = w.pc, v.result = w.result,
         v.got = Append(w.got, Head(w.queue)), v.queue = Tail(w.queue)
  PROVE  TaskOK(t, v, n, h)
<1>1. w.queue \in Seq(Packet) /\ v.queue \in Seq(Packet)
  <2>1. w.queue \in Seq(Packet)
    BY DEF TaskOK, Clocked
  <2> QED
    BY <2>1, HeadOfQueue
<1>2. /\ v.got \in Seq(Packet)
      /\ GotOK(v, n)
      /\ \A i \in DOMAIN w.got : i \in DOMAIN v.got /\ v.got[i] = w.got[i]
      /\ \E i \in DOMAIN v.got : v.got[i] = Head(w.queue)
  <2>1. v.queue \in {Tail(w.queue), <<>>}
    OBVIOUS
  <2> QED
    <3>1. v.got \in Seq(Packet)
      BY <2>1, ListGrows
    <3>2. GotOK(v, n)
      BY <2>1, ListGrows
    <3>3. \A i \in DOMAIN w.got : i \in DOMAIN v.got /\ v.got[i] = w.got[i]
      BY <2>1, ListGrows
    <3>4. \E i \in DOMAIN v.got : v.got[i] = Head(w.queue)
      BY <2>1, ListGrows
    <3> QED
      BY <3>1, <3>2, <3>3, <3>4
<1>3. QueueOK(v, n)
  BY <1>1, TailOfQueue DEF TaskOK, SameWait
<1>4. t # Sweep => Kept(v, h)
  <2> SUFFICES ASSUME t # Sweep, NEW x \in h[w.mod]
               PROVE  \/ x < v.after
                      \/ \E i \in DOMAIN v.queue : v.queue[i].src = v.mod /\ v.queue[i].ts = x
                      \/ \E i \in DOMAIN v.got : v.got[i].ts = x
    BY DEF Kept, SameWait
  <2>1. \/ x < w.after
        \/ \E i \in DOMAIN w.queue : w.queue[i].src = w.mod /\ w.queue[i].ts = x
        \/ \E i \in DOMAIN w.got : w.got[i].ts = x
    BY DEF TaskOK, Kept
  <2>2. CASE \E i \in DOMAIN w.queue : w.queue[i].src = w.mod /\ w.queue[i].ts = x
    <3>1. PICK i \in DOMAIN w.queue : w.queue[i].src = w.mod /\ w.queue[i].ts = x
      BY <2>2
    <3>2. CASE i = 1
      <4>1. Head(w.queue) = w.queue[1]
        BY <1>1, HeadOfQueue
      <4> QED
        BY <1>2, <3>1, <3>2, <4>1
    <3>3. CASE i # 1
      <4>1. i - 1 \in DOMAIN v.queue /\ v.queue[i - 1] = w.queue[i]
        BY <1>1, <3>3, HeadOfQueue
      <4> QED
        BY <3>1, <4>1 DEF SameWait
    <3> QED
      BY <3>2, <3>3
  <2> QED
    BY <1>2, <2>1, <2>2 DEF SameWait
<1> QED
  BY <1>1, <1>2, <1>3, <1>4 DEF TaskOK, Clocked, SameWait

\* At its deadline a task has every reply but for the last Lag: what is still in the
\* queue came later.
LEMMA WaitedOut ==
  ASSUME NEW t \in Tasks \ {Sweep}, NEW w, NEW v, NEW n \in Nat, NEW h \in History,
         TaskOK(t, w, n, h), w.pc = "waiting", n >= w.deadline, SameWait(w, v),
         \A i \in DOMAIN w.got : i \in DOMAIN v.got /\ v.got[i] = w.got[i]
  PROVE  AllTaken(v, n, h)
<1> SUFFICES ASSUME NEW x \in h[w.mod]
             PROVE  \/ x < v.after \/ x >= v.deadline - Lag
                    \/ \E i \in DOMAIN v.got : v.got[i].ts = x
  BY DEF AllTaken, TaskOK, SameWait
<1>1. \/ x < w.after
      \/ \E i \in DOMAIN w.queue : w.queue[i].src = w.mod /\ w.queue[i].ts = x
      \/ \E i \in DOMAIN w.got : w.got[i].ts = x
  BY DEF TaskOK, Kept
<1>2. CASE \E i \in DOMAIN w.queue : w.queue[i].src = w.mod /\ w.queue[i].ts = x
  <2>1. PICK i \in DOMAIN w.queue : w.queue[i].ts = x
    BY <1>2
  <2>2. x \in Nat
    <3>1. w.queue \in Seq(Packet)
      BY DEF TaskOK, Clocked
    <3>2. \A j \in DOMAIN w.queue : w.queue[j].ts \in Nat
      BY <3>1, TimesOf, Zenon
    <3> QED
      BY <2>1, <3>2
  <2>3. n <= x + Lag /\ w.deadline \in Nat /\ Lag \in Nat
    BY <2>1, LimitsAssumption DEF TaskOK, QueueOK, Clocked
  <2> QED
    BY <2>2, <2>3 DEF SameWait
<1> QED
  BY <1>1, <1>2 DEF SameWait

\* What a task that ends may have found.
LEMMA WaitEnds ==
  ASSUME NEW t \in Tasks, NEW w, NEW v, NEW n \in Nat, NEW h \in History,
         TaskOK(t, w, n, h), w.pc = "waiting", SameWait(w, v),
         v.pc = "done", v.queue = <<>>,
         \/ /\ v.result = "confirmed" /\ t \notin RawSends
            /\ w.queue # <<>> /\ Match(t, w, Head(w.queue)) /\ v.got = <<Head(w.queue)>>
         \/ /\ v.result = "unconfirmed" /\ t \in Tasks \ (RawSends \cup {Sweep})
            /\ n >= w.deadline /\ v.got = <<>>
         \/ /\ v.result = "ok" /\ t # Sweep /\ n >= w.deadline
            /\ \/ v.got = w.got
               \/ /\ w.queue # <<>> /\ Match(t, w, Head(w.queue))
                  /\ v.got = Append(w.got, Head(w.queue))
         \/ v.result = "truncated" /\ v.got = w.got /\ Len(w.got) = MaxReplies
         \/ v.result = "none" /\ v.got = <<>>
  PROVE  TaskOK(t, v, n, h)
<1>1. /\ w.queue \in Seq(Packet) /\ w.got \in Seq(Packet)
      /\ v.after \in Nat /\ v.deadline \in Nat /\ v.queue \in Seq(Packet)
  BY DEF TaskOK, Clocked, SameWait
<1>2. w.queue # <<>> => Head(w.queue) = w.queue[1] /\ 1 \in DOMAIN w.queue
                        /\ w.queue[1] \in Packet
  BY <1>1, HeadOfQueue
<1>3. CASE /\ v.result = "confirmed" /\ t \notin RawSends
           /\ w.queue # <<>> /\ Match(t, w, Head(w.queue)) /\ v.got = <<Head(w.queue)>>
  <2> DEFINE p == Head(w.queue)
  <2>1. w.got = <<>> /\ v.got = <<p>>
    BY <1>3 DEF TaskOK
  <2>2. v.got = Append(w.got, p)
    BY <2>1
  <2>3. v.got \in Seq(Packet) /\ GotOK(v, n)
    <3>1. v.queue \in {Tail(w.queue), <<>>}
      OBVIOUS
    <3> QED
      BY <1>3, <2>2, <3>1, ListGrows
  <2>4. v.got[1] = w.queue[1] /\ v.got # <<>>
    BY <1>2, <1>3, <2>1
  <2>5. v.got[1].ts <= v.deadline + Lag
    <3>1. w.queue[1].ts \in Nat
      BY <1>1, <1>2, <1>3, TimesOf, Zenon
    <3>2. w.queue[1].ts <= n /\ n <= w.deadline + Lag /\ w.deadline \in Nat /\ Lag \in Nat
      BY <1>2, <1>3, LimitsAssumption DEF TaskOK, QueueOK, Clocked
    <3> DEFINE x == w.queue[1].ts
    <3>3. x \in Nat /\ x <= n
      BY <3>1, <3>2
    <3> HIDE DEF x
    <3>4. x <= w.deadline + Lag
      BY <3>2, <3>3
    <3> QED
      BY <2>4, <3>4 DEF x, SameWait
  <2> QED
    BY <1>1, <1>3, <2>3, <2>4, <2>5 DEF TaskOK, Clocked
<1>4. CASE /\ v.result = "unconfirmed" /\ t \in Tasks \ (RawSends \cup {Sweep})
           /\ n >= w.deadline /\ v.got = <<>>
  <2>1. w.got = <<>>
    BY <1>4 DEF TaskOK
  <2>2. AllTaken(v, n, h)
    BY <1>4, <2>1, WaitedOut
  <2>3. GotOK(v, n) /\ v.got \in Seq(Packet)
    BY <1>4 DEF GotOK
  <2> QED
    BY <1>1, <1>4, <2>2, <2>3 DEF TaskOK, Clocked
<1>5. CASE v.result = "ok" /\ t # Sweep /\ n >= w.deadline /\ v.got = w.got
  <2>1. AllTaken(v, n, h)
    BY <1>5, WaitedOut
  <2>2. GotOK(v, n)
    BY <1>5 DEF TaskOK, GotOK, SameWait
  <2> QED
    BY <1>1, <1>5, <2>1, <2>2 DEF TaskOK, Clocked
<1>6. CASE /\ v.result = "ok" /\ t # Sweep /\ n >= w.deadline
           /\ w.queue # <<>> /\ Match(t, w, Head(w.queue))
           /\ v.got = Append(w.got, Head(w.queue))
  <2>1. /\ v.got \in Seq(Packet) /\ GotOK(v, n)
        /\ \A i \in DOMAIN w.got : i \in DOMAIN v.got /\ v.got[i] = w.got[i]
    BY <1>6, ListGrows
  <2>2. AllTaken(v, n, h)
    BY <1>6, <2>1, WaitedOut
  <2> QED
    BY <1>1, <1>6, <2>1, <2>2 DEF TaskOK, Clocked
<1>7. CASE v.result = "truncated" /\ v.got = w.got /\ Len(w.got) = MaxReplies
  <2>1. GotOK(v, n)
    BY <1>7 DEF TaskOK, GotOK, SameWait
  <2> QED
    BY <1>1, <1>7, <2>1 DEF TaskOK, Clocked
<1>8. CASE v.result = "none" /\ v.got = <<>>
  <2>1. GotOK(v, n) /\ v.got \in Seq(Packet)
    BY <1>8 DEF GotOK
  <2> QED
    BY <1>1, <1>8, <2>1 DEF TaskOK, Clocked
<1> QED
  BY <1>3, <1>4, <1>5, <1>6, <1>7, <1>8

\* A task starts to wait, and nothing it could use has come yet.
LEMMA WaitStarts ==
  ASSUME NEW t \in Tasks, NEW v, NEW n \in Nat, NEW h \in History, NEW span \in Nat,
         \A m \in Modules : \A x \in h[m] : x <= n,
         v.pc = "waiting", v.mod \in Modules, v.after = n + 1, v.deadline = n + 1 + span,
         v.queue = <<>>, v.got = <<>>, v.result = "none"
  PROVE  TaskOK(t, v, n + 1, h)
<1>1. Clocked(v)
  BY DEF Clocked
<1>2. GotOK(v, n + 1) /\ QueueOK(v, n + 1)
  BY LimitsAssumption DEF GotOK, QueueOK
<1>3. Kept(v, h)
  <2> SUFFICES ASSUME NEW x \in h[v.mod] PROVE x < v.after
    BY DEF Kept
  <2>1. x \in Nat /\ x <= n
    BY DEF History
  <2> QED
    BY <2>1
<1> QED
  BY <1>1, <1>2, <1>3 DEF TaskOK

\* A task ends that never waited.
LEMMA NeverWaits ==
  ASSUME NEW t \in Tasks, NEW v, NEW n \in Nat, NEW h, v.pc # "waiting",
         v.queue = <<>>, v.got = <<>>, v.after \in Nat, v.deadline \in Nat,
         v.result \notin {"confirmed", "unconfirmed", "ok", "truncated"}
  PROVE  TaskOK(t, v, n, h)
<1>1. Clocked(v)
  BY DEF Clocked
<1>2. GotOK(v, n)
  BY DEF GotOK
<1> QED
  BY <1>1, <1>2 DEF TaskOK

\* A raw send is refused or fails.
LEMMA RefusedUnheard ==
  ASSUME NEW t \in Tasks, NEW w, NEW v, NEW n \in Nat, NEW h,
         TaskOK(t, w, n, h), w.pc # "waiting", v.pc # "waiting", SameWait(w, v),
         v.queue = w.queue, v.got = w.got,
         v.result \notin {"confirmed", "unconfirmed", "ok", "truncated"}
  PROVE  TaskOK(t, v, n, h)
<1>1. Clocked(v) /\ GotOK(v, n) /\ v.queue = <<>>
  BY DEF TaskOK, Clocked, GotOK, SameWait
<1> QED
  BY <1>1 DEF TaskOK

-----------------------------------------------------------------------------
(***************************************************************************)
(* The waits of all tasks                                                  *)
(***************************************************************************)

\* The packets kept for a look back are of the past.
RecentOK == recent \in Seq(Packet) /\ \A i \in DOMAIN recent : recent[i].ts <= now

WaitInv ==
  /\ heard \in History
  /\ \A m \in Modules : \A x \in heard[m] : x <= now
  /\ RecentOK
  /\ \A t \in Tasks : TaskOK(t, task[t], now, heard)

\* All that is in v was in w, or is p.
Within(v, w, p) == \A i \in DOMAIN v : v[i] = p \/ \E j \in DOMAIN w : v[i] = w[j]

\* A bounded queue with one more: what was in it, or the new one.
LEMMA PushedQueue ==
  ASSUME NEW q \in Seq(Packet), NEW p \in Packet, NEW max \in Nat \ {0}
  PROVE  PushBounded(q, p, max) \in Seq(Packet) /\ Within(PushBounded(q, p, max), q, p)
<1>1. CASE Len(q) < max
  <2>1. PushBounded(q, p, max) = Append(q, p)
    BY <1>1 DEF PushBounded
  <2> QED
    BY <2>1, EndOfQueue DEF Within
<1>2. CASE ~(Len(q) < max)
  <2>1. PushBounded(q, p, max) = Append(Tail(q), p) /\ q # <<>>
    BY <1>2 DEF PushBounded
  <2>2. Tail(q) \in Seq(Packet) /\ \A i \in DOMAIN Tail(q) : \E j \in DOMAIN q : Tail(q)[i] = q[j]
    BY <2>1, HeadOfQueue
  <2>3. /\ Append(Tail(q), p) \in Seq(Packet)
        /\ \A i \in DOMAIN Append(Tail(q), p) :
             \/ i \in DOMAIN Tail(q) /\ Append(Tail(q), p)[i] = Tail(q)[i]
             \/ Append(Tail(q), p)[i] = p
    BY <2>2, EndOfQueue
  <2> QED
    BY <2>1, <2>2, <2>3 DEF Within
<1> QED
  BY <1>1, <1>2

\* Two packets that say the same, whenever they came.
SameNews(p, o) ==
  p.kind = o.kind /\ p.src = o.src /\ p.ch = o.ch /\ p.val = o.val /\ p.version = o.version

\* The packet that is handled next.
LEMMA NextPacket ==
  ASSUME BusInv, NEW m \in Modules, net[m] # <<>>
  PROVE  LET p == [Head(net[m]) EXCEPT !.ts = now + 1] IN
         p \in Packet /\ p.src = m /\ p.ts = now + 1 /\ SameNews(p, Head(net[m]))
<1>1. Head(net[m]) \in Packet /\ now + 1 \in Nat
  BY HeadOfQueue DEF BusInv, BusTypeOK
<1>2. [Head(net[m]) EXCEPT !.ts = now + 1].src = m
  BY NextPacketIsItsOwn DEF BusInv
<1> QED
  BY <1>1, <1>2 DEF Packet, SameNews

\* A step in which time may pass and nothing is handled.
LEMMA RecentPast ==
  ASSUME BusInv, RecentOK, UNCHANGED recent, UNCHANGED now \/ Advance
  PROVE  RecentOK'
<1>1. now \in Nat /\ now' \in Nat /\ now <= now'
  BY DEF BusInv, BusTypeOK, Advance
<1>2. ASSUME NEW i \in DOMAIN recent PROVE recent[i].ts <= now'
  <2> DEFINE x == recent[i].ts
  <2>1. recent \in Seq(Packet) /\ x <= now
    BY DEF RecentOK
  <2>2. x \in Nat
    BY <2>1, TimesOf, Zenon
  <2> HIDE DEF x
  <2>3. x <= now'
    BY <1>1, <2>1, <2>2
  <2> QED
    BY <2>3 DEF x
<1> QED
  BY <1>2 DEF RecentOK

\* A packet is handled, and kept.
LEMMA RecentStays ==
  ASSUME BusInv, RecentOK, NEW m \in Modules, Receive(m)
  PROVE  RecentOK'
<1> DEFINE pkt == [Head(net[m]) EXCEPT !.ts = now + 1]
<1>1. net[m] # <<>> /\ Advance /\ recent' = PushBounded(recent, pkt, RecentMax)
  BY DEF Receive
<1>2. now \in Nat /\ now' = now + 1
  BY <1>1 DEF Advance, BusInv, BusTypeOK
<1>3. pkt \in Packet /\ pkt.ts = now'
  BY <1>1, <1>2, NextPacket
<1> HIDE DEF pkt
<1>4. recent' \in Seq(Packet) /\ Within(recent', recent, pkt)
  BY <1>1, <1>3, PushedQueue, LimitsAssumption DEF RecentOK
<1>5. \A j \in DOMAIN recent : recent[j].ts <= now'
  <2> SUFFICES ASSUME NEW j \in DOMAIN recent PROVE recent[j].ts <= now'
    OBVIOUS
  <2> DEFINE x == recent[j].ts
  <2>1. x \in Nat
    BY TimesOf, Zenon DEF RecentOK
  <2>2. x <= now
    BY DEF RecentOK
  <2> HIDE DEF x
  <2>3. x <= now'
    BY <1>2, <2>1, <2>2
  <2> QED
    BY <2>3 DEF x
<1>6. pkt.ts <= now'
  BY <1>2, <1>3
<1> QED
  BY <1>4, <1>5, <1>6 DEF RecentOK, Within

LEMMA WaitInit == Init => WaitInv
<1> SUFFICES ASSUME Init PROVE WaitInv
  OBVIOUS
<1>1. \A t \in Tasks : TaskOK(t, task[t], now, heard)
  <2> SUFFICES ASSUME NEW t \in Tasks PROVE TaskOK(t, task[t], now, heard)
    OBVIOUS
  <2>1. task[t] = NoTask /\ now = 0
    BY DEF Init
  <2>2. /\ NoTask.pc # "waiting" /\ NoTask.queue = <<>> /\ NoTask.got = <<>>
        /\ NoTask.after \in Nat /\ NoTask.deadline \in Nat /\ NoTask.result = "none"
    BY DEF NoTask
  <2> QED
    BY <2>1, <2>2, NeverWaits
<1>2. heard \in History /\ \A m \in Modules : heard[m] = {}
  BY DEF Init, History
<1>3. recent = <<>>
  BY DEF Init
<1> QED
  BY <1>1, <1>2, <1>3 DEF WaitInv, RecentOK

\* Time passes for every task, and none is late for what it has.
LEMMA EveryTaskInTime ==
  ASSUME BusInv, WaitInv, Advance
  PROVE  \A t \in Tasks : InTime(task[t], now) /\ TaskOK(t, task[t], now + 1, heard)
<1> SUFFICES ASSUME NEW t \in Tasks
             PROVE  InTime(task[t], now) /\ TaskOK(t, task[t], now + 1, heard)
  OBVIOUS
<1>1. now \in Nat
  BY DEF BusInv, BusTypeOK
<1>2. InTime(task[t], now)
  BY DEF Advance, LoopKeepsUp, Waiting, InTime
<1>3. TaskOK(t, task[t], now, heard)
  BY DEF WaitInv, RecentOK
<1> QED
  BY <1>1, <1>2, <1>3, TimePasses

\* A step in which one task moves, at the same time or at the next.
LEMMA OneWaitMoves ==
  ASSUME BusInv, WaitInv, NEW t \in Tasks, NEW v, task' = [task EXCEPT ![t] = v],
         TaskOK(t, v, now', heard), UNCHANGED <<heard, recent>>,
         UNCHANGED now \/ Advance
  PROVE  WaitInv'
<1>1. now \in Nat /\ now' \in Nat /\ now <= now'
  BY DEF BusInv, BusTypeOK, Advance
<1>2. \A u \in Tasks : TaskOK(u, task[u], now', heard)
  <2>1. CASE UNCHANGED now
    BY <2>1 DEF WaitInv, RecentOK
  <2>2. CASE Advance
    BY <2>2, EveryTaskInTime DEF Advance
  <2> QED
    BY <2>1, <2>2
<1>3. ASSUME NEW u \in Tasks PROVE TaskOK(u, task'[u], now', heard)
  <2>1. PICK A : task \in [Tasks -> Locals(A)]
    BY DEF BusInv, BusTypeOK
  <2>2. CASE u = t
    BY <2>1, <2>2
  <2>3. CASE u # t
    BY <1>2, <2>1, <2>3
  <2> QED
    BY <2>2, <2>3
<1>4. \A m \in Modules : \A x \in heard[m] : x <= now'
  <2> SUFFICES ASSUME NEW m \in Modules, NEW x \in heard[m] PROVE x <= now'
    OBVIOUS
  <2>1. x \in Nat /\ x <= now
    BY DEF WaitInv, RecentOK, History
  <2> QED
    BY <1>1, <2>1
<1>5. RecentOK'
  BY RecentPast DEF WaitInv
<1> QED
  BY <1>3, <1>4, <1>5, Zenon DEF WaitInv, RecentOK

\* A step in which no task moves.
LEMMA NoWaitMoves ==
  ASSUME BusInv, WaitInv, UNCHANGED <<task, heard, recent>>, UNCHANGED now \/ Advance
  PROVE  WaitInv'
<1>1. Sweep \in Tasks
  BY DEF Tasks
<1>2. PICK A : task \in [Tasks -> Locals(A)]
  BY DEF BusInv, BusTypeOK
<1>3. task' = [task EXCEPT ![Sweep] = task[Sweep]]
  BY <1>2
<1>4. TaskOK(Sweep, task[Sweep], now', heard)
  <2>1. CASE UNCHANGED now
    BY <1>1, <2>1 DEF WaitInv, RecentOK
  <2>2. CASE Advance
    BY <1>1, <2>2, EveryTaskInTime DEF Advance
  <2> QED
    BY <2>1, <2>2
<1> QED
  BY <1>1, <1>3, <1>4, OneWaitMoves

\* The locals of a task that starts to wait: what came before is no answer.
LEMMA NothingEarlier ==
  ASSUME BusInv, RecentOK, NEW t, NEW m, NEW c, NEW span \in Nat
  PROVE  LET v == StartWait(t, m, c, now + 1, span) IN
         /\ v.pc = "waiting" /\ v.mod = m /\ v.ch = c /\ v.after = now + 1 /\ v.deadline = now + 1 + span
         /\ v.queue = <<>> /\ v.got = <<>> /\ v.result = "none"
<1> DEFINE w == [NoTask EXCEPT !.pc = "waiting", !.mod = m, !.ch = c, !.after = now + 1,
                               !.deadline = now + 1 + span]
<1>0. \E A : w \in Locals(A)
  <2> DEFINE B == {"idle", "waiting", m, c, now + 1, 0, <<>>, "none"}
  <2>1. NoTask \in Locals(B)
    BY DEF NoTask, Locals
  <2>2. {"waiting", m, c, now + 1} \subseteq B /\ now + 1 + span \in Nat
    BY DEF BusInv, BusTypeOK
  <2> HIDE DEF B
  <2>3. w \in Locals(B)
    BY <2>1, <2>2 DEF Locals
  <2> QED
    BY <2>3, Zenon
<1>1. /\ w.pc = "waiting" /\ w.mod = m /\ w.ch = c /\ w.after = now + 1 /\ w.deadline = now + 1 + span
      /\ w.queue = <<>> /\ w.got = <<>> /\ w.result = "none"
  BY DEF NoTask
<1>2. \A i \in DOMAIN recent : ~Match(t, w, recent[i])
  <2> SUFFICES ASSUME NEW i \in DOMAIN recent, recent[i].ts >= w.after PROVE FALSE
    BY DEF Match
  <2> DEFINE x == recent[i].ts
  <2>1. now \in Nat /\ x <= now /\ recent \in Seq(Packet)
    BY DEF BusInv, BusTypeOK, WaitInv, RecentOK
  <2>2. x \in Nat
    BY <2>1, TimesOf, Zenon
  <2>3. x >= now + 1
    BY <1>1
  <2> HIDE DEF x
  <2> QED
    BY <2>1, <2>2, <2>3
<1>3. StartWait(t, m, c, now + 1, span) = [w EXCEPT !.queue = <<>>]
  <2> HIDE DEF w
  <2> QED
    BY <1>2, Zenon DEF StartWait, w
<1> DEFINE v == [w EXCEPT !.queue = <<>>]
<1>4. /\ v.pc = w.pc /\ v.mod = w.mod /\ v.ch = w.ch /\ v.after = w.after /\ v.deadline = w.deadline
      /\ v.queue = <<>> /\ v.got = w.got /\ v.result = w.result
  <2> HIDE DEF w
  <2> QED
    BY <1>0, <1>1 DEF Locals
<1> HIDE DEF w, v
<1>5. StartWait(t, m, c, now + 1, span) = v
  BY <1>3 DEF v
<1> QED
  BY <1>1, <1>4, <1>5, Zenon

LEMMA LocalsOf ==
  ASSUME BusInv, NEW t \in Tasks
  PROVE  \E A : task \in [Tasks -> Locals(A)] /\ task[t] \in Locals(A)
<1>1. PICK A : task \in [Tasks -> Locals(A)]
  BY DEF BusInv, BusTypeOK
<1> QED
  BY <1>1

\* A task sends a request and waits for its answer.
LEMMA SentAndWaits ==
  ASSUME BusInv, WaitInv, NEW t \in Tasks, NEW m \in Modules, NEW c, NEW span \in Nat,
         Advance, task' = [task EXCEPT ![t] = StartWait(t, m, c, now + 1, span)],
         UNCHANGED <<heard, recent>>
  PROVE  WaitInv'
<1> DEFINE v == StartWait(t, m, c, now + 1, span)
<1>1. /\ v.pc = "waiting" /\ v.mod = m /\ v.after = now + 1 /\ v.deadline = now + 1 + span
      /\ v.queue = <<>> /\ v.got = <<>> /\ v.result = "none"
  BY NothingEarlier DEF WaitInv
<1> HIDE DEF v
<1>2. now \in Nat /\ now' = now + 1
  BY DEF Advance, BusInv, BusTypeOK
<1>3. heard \in History /\ \A x \in Modules : \A y \in heard[x] : y <= now
  BY DEF WaitInv, RecentOK
<1>4. TaskOK(t, v, now', heard)
  BY <1>1, <1>2, <1>3, WaitStarts
<1>5. task' = [task EXCEPT ![t] = v]
  BY DEF v
<1> QED
  BY <1>4, <1>5, OneWaitMoves

\* A wait ends: see WaitEnds.
LEMMA FinishWaits ==
  ASSUME BusInv, WaitInv, NEW t \in Tasks, NEW result, NEW got,
         Waiting(t), Finish(t, result, got),
         UNCHANGED <<now, heard, recent>>,
         \/ result = "confirmed" /\ t \notin RawSends /\ Matches(t) /\ got = <<Taken(t)>>
         \/ /\ result = "unconfirmed" /\ t \in Tasks \ (RawSends \cup {Sweep})
            /\ GivesUp(t) /\ got = <<>>
         \/ /\ result = "ok" /\ t # Sweep /\ GivesUp(t)
            /\ got = task[t].got \/ (Matches(t) /\ got = Append(task[t].got, Taken(t)))
         \/ result = "truncated" /\ got = task[t].got /\ Len(got) = MaxReplies
         \/ result = "none" /\ got = <<>>
  PROVE  WaitInv'
<1> DEFINE w == task[t]
           v == [w EXCEPT !.pc = "done", !.result = result, !.got = got, !.queue = <<>>]
<1>1. PICK A : task \in [Tasks -> Locals(A)] /\ w \in Locals(A)
  BY LocalsOf
<1>2. /\ SameWait(w, v) /\ v.pc = "done" /\ v.result = result /\ v.got = got
      /\ v.queue = <<>>
  <2> HIDE DEF w
  <2> QED
    BY <1>1 DEF Locals, SameWait
<1>3. task' = [task EXCEPT ![t] = v]
  BY <1>1 DEF Finish, Locals
<1>4. now \in Nat /\ heard \in History /\ TaskOK(t, w, now, heard) /\ w.pc = "waiting"
  BY DEF BusInv, BusTypeOK, WaitInv, RecentOK, Waiting
<1>5. \/ /\ result = "confirmed" /\ t \notin RawSends
         /\ w.queue # <<>> /\ Match(t, w, Head(w.queue)) /\ got = <<Head(w.queue)>>
      \/ /\ result = "unconfirmed" /\ t \in Tasks \ (RawSends \cup {Sweep})
         /\ now >= w.deadline /\ got = <<>>
      \/ /\ result = "ok" /\ t # Sweep /\ now >= w.deadline
         /\ \/ got = w.got
            \/ /\ w.queue # <<>> /\ Match(t, w, Head(w.queue))
               /\ got = Append(w.got, Head(w.queue))
      \/ result = "truncated" /\ got = w.got /\ Len(w.got) = MaxReplies
      \/ result = "none" /\ got = <<>>
  BY DEF Matches, Taken, GivesUp
<1> HIDE DEF v, w
<1>6. TaskOK(t, v, now, heard)
  BY <1>2, <1>4, <1>5, WaitEnds
<1> QED
  BY <1>3, <1>6, OneWaitMoves

LEMMA SkipWaits == ASSUME BusInv, WaitInv, NEW t \in Tasks, Skip(t) PROVE WaitInv'
<1> DEFINE w == task[t]
           v == [w EXCEPT !.queue = Tail(@)]
<1>1. PICK A : task \in [Tasks -> Locals(A)] /\ w \in Locals(A)
  BY LocalsOf
<1>2. /\ SameWait(w, v) /\ v.pc = w.pc /\ v.result = w.result /\ v.got = w.got
      /\ v.queue = Tail(w.queue)
  <2> HIDE DEF w
  <2> QED
    BY <1>1 DEF Locals, SameWait
<1>3. task' = [task EXCEPT ![t] = v] /\ UNCHANGED <<now, heard, recent>>
  BY <1>1 DEF Skip, tracker, bus
<1>4. now \in Nat /\ heard \in History /\ TaskOK(t, w, now, heard) /\ w.pc = "waiting"
  BY DEF Skip, BusInv, BusTypeOK, WaitInv, RecentOK, Waiting
<1>5. w.queue # <<>> /\ ~Match(t, w, Head(w.queue))
  BY DEF Skip, Matches, Taken
<1> HIDE DEF v, w
<1>6. TaskOK(t, v, now, heard)
  BY <1>2, <1>4, <1>5, PacketDropped
<1> QED
  BY <1>3, <1>6, OneWaitMoves

LEMMA CollectWaits ==
  ASSUME BusInv, WaitInv, NEW r \in RawSends, RawCollect(r)
  PROVE  WaitInv'
<1> DEFINE w == task[r]
<1>0. r \in Tasks /\ r # Sweep /\ UNCHANGED <<now, heard, recent>>
  BY TasksAssumption DEF Tasks, RawCollect, tracker, bus
<1>1. CASE Len(w.got) = MaxReplies
  <2>1. Finish(r, "truncated", w.got) /\ Waiting(r)
    BY <1>1 DEF RawCollect
  <2> QED
    BY <1>0, <1>1, <2>1, FinishWaits
<1>2. CASE Len(w.got) # MaxReplies /\ now >= w.deadline
  <2>1. Finish(r, "ok", Append(w.got, Taken(r))) /\ Waiting(r) /\ Matches(r) /\ GivesUp(r)
    BY <1>2 DEF RawCollect, GivesUp
  <2> QED
    BY <1>0, <2>1, FinishWaits
<1>3. CASE Len(w.got) # MaxReplies /\ ~(now >= w.deadline)
  <2> DEFINE v == [w EXCEPT !.got = Append(w.got, Taken(r)), !.queue = Tail(w.queue)]
  <2>1. PICK A : task \in [Tasks -> Locals(A)] /\ w \in Locals(A)
    BY <1>0, LocalsOf
  <2>2. /\ SameWait(w, v) /\ v.pc = w.pc /\ v.result = w.result
        /\ v.got = Append(w.got, Taken(r)) /\ v.queue = Tail(w.queue)
    <3> HIDE DEF w
    <3> QED
      BY <2>1 DEF Locals, SameWait
  <2>3. task' = [task EXCEPT ![r] = v]
    BY <1>0, <1>3, <2>1 DEF RawCollect, Locals
  <2>4. /\ now \in Nat /\ heard \in History /\ TaskOK(r, w, now, heard) /\ w.pc = "waiting"
        /\ w.queue # <<>> /\ Match(r, w, Head(w.queue)) /\ Taken(r) = Head(w.queue)
    BY <1>0 DEF RawCollect, BusInv, BusTypeOK, WaitInv, RecentOK, Waiting, Matches, Taken
  <2> HIDE DEF v, w
  <2>5. TaskOK(r, v, now, heard)
    BY <1>0, <2>2, <2>4, ListKept
  <2> QED
    BY <1>0, <2>3, <2>5, OneWaitMoves
<1> QED
  BY <1>1, <1>2, <1>3

LEMMA ReceiveWaits ==
  ASSUME Lag < QueueMax, BusInv, WaitInv, NEW m \in Modules, Receive(m)
  PROVE  WaitInv'
<1> DEFINE pkt == [Head(net[m]) EXCEPT !.ts = now + 1]
<1>1. /\ net[m] # <<>> /\ Advance /\ now' = now + 1 /\ now \in Nat
      /\ recent' = PushBounded(recent, pkt, RecentMax)
      /\ task' = [t \in Tasks |->
           IF Waiting(t) THEN [task[t] EXCEPT !.queue = PushBounded(@, pkt, QueueMax)]
           ELSE task[t]]
      /\ heard' = [heard EXCEPT ![m] = @ \cup {now + 1}]
  BY DEF Receive, Advance, BusInv, BusTypeOK
<1>2. pkt \in Packet /\ pkt.src = m /\ pkt.ts = now + 1
  BY <1>1, NextPacket
<1> HIDE DEF pkt
<1>3. heard \in History /\ \A x \in Modules : \A y \in heard[x] : y <= now
  BY DEF WaitInv, RecentOK
<1>4. heard' \in History /\ \A x \in Modules : \A y \in heard'[x] : y <= now'
  <2>1. heard' \in History
    BY <1>1, <1>3 DEF History
  <2>2. ASSUME NEW x \in Modules, NEW y \in heard'[x] PROVE y <= now'
    <3>1. y \in heard[x] \/ y = now + 1
      BY <1>1, <1>3, <2>2 DEF History
    <3>2. y \in heard[x] => y \in Nat /\ y <= now
      BY <1>3 DEF History
    <3> QED
      BY <1>1, <3>1, <3>2
  <2> QED
    BY <2>1, <2>2
<1>5. RecentOK'
  BY RecentStays DEF WaitInv
<1>6. ASSUME NEW t \in Tasks PROVE TaskOK(t, task'[t], now', heard')
  <2> DEFINE w == task[t]
             v == [w EXCEPT !.queue = PushBounded(@, pkt, QueueMax)]
  <2>1. TaskOK(t, w, now, heard) /\ InTime(w, now)
    BY <1>1, EveryTaskInTime DEF WaitInv, RecentOK
  <2>2. PICK A : w \in Locals(A)
    BY LocalsOf
  <2>3. CASE w.pc = "waiting"
    <3>1. task'[t] = v
      BY <1>1, <2>3 DEF Waiting
    <3>2. /\ SameWait(w, v) /\ v.pc = w.pc /\ v.result = w.result /\ v.got = w.got
          /\ v.queue = PushBounded(w.queue, pkt, QueueMax)
      <4> HIDE DEF w
      <4> QED
        BY <2>2 DEF Locals, SameWait
    <3> HIDE DEF v, w
    <3>3. TaskOK(t, v, now + 1, [heard EXCEPT ![m] = @ \cup {now + 1}])
      BY <1>1, <1>2, <1>3, <2>1, <2>3, <3>2, PacketComes
    <3> QED
      BY <1>1, <3>1, <3>3, Zenon
  <2>4. CASE w.pc # "waiting"
    <3>1. task'[t] = w
      BY <1>1, <2>4 DEF Waiting
    <3> HIDE DEF w
    <3>2. TaskOK(t, w, now + 1, [heard EXCEPT ![m] = @ \cup {now + 1}])
      BY <1>1, <1>3, <2>1, <2>4, PacketPassesBy
    <3> QED
      BY <1>1, <3>1, <3>2, Zenon
  <2> QED
    BY <2>3, <2>4
<1> QED
  BY <1>4, <1>5, <1>6 DEF WaitInv, RecentOK

LEMMA CommandWaits ==
  ASSUME BusInv, WaitInv, NEW t \in Commands, NEW o \in Orders, Command(t, o[1], o[2], o[3])
  PROVE  WaitInv'
<1>1. t \in Tasks /\ o[1] \in Modules
  BY OrdersAssumption DEF Tasks, Keys
<1>2. Advance /\ UNCHANGED <<heard, recent>>
  BY DEF Command, Await, tracker, bus
<1>3. CASE o[3] = "DIM_START"
  <2> DEFINE v == [NoTask EXCEPT !.pc = "done", !.mod = o[1], !.result = "sent"]
  <2>1. task' = [task EXCEPT ![t] = v]
    BY <1>3 DEF Command
  <2>2. /\ v.pc = "done" /\ v.queue = <<>> /\ v.got = <<>> /\ v.after \in Nat
        /\ v.deadline \in Nat /\ v.result = "sent"
    BY DEF NoTask
  <2>3. now' \in Nat
    BY <1>2 DEF Advance, BusInv, BusTypeOK
  <2> HIDE DEF v
  <2>4. TaskOK(t, v, now', heard)
    BY <1>1, <2>2, <2>3, NeverWaits
  <2> QED
    BY <1>1, <1>2, <2>1, <2>4, OneWaitMoves
<1>4. CASE o[3] # "DIM_START"
  <2>1. task' = [task EXCEPT ![t] = StartWait(t, o[1], o[2], now + 1, Timeout)]
    BY <1>4 DEF Command
  <2>2. Timeout \in Nat
    BY TimeoutAssumption
  <2> QED
    BY <1>1, <1>2, <2>1, <2>2, SentAndWaits
<1> QED
  BY <1>3, <1>4

LEMMA SweepQueryWaits == ASSUME BusInv, WaitInv, SweepQuery PROVE WaitInv'
<1> DEFINE m == SweepKeys[pos][1]
           c == SweepKeys[pos][2]
<1>1. m \in Modules
  <2>1. pos \in 1 .. Len(SweepKeys)
    BY DEF SweepQuery, Sweeping, BusInv, BusTypeOK
  <2>2. SweepKeys[pos] \in Keys
    BY <2>1, SweepAssumption
  <2> QED
    BY <2>2 DEF Keys
<1>2. /\ task' = [task EXCEPT ![Sweep] = StartWait(Sweep, m, c, now + 1, Timeout)]
      /\ Advance /\ UNCHANGED <<heard, recent>>
  BY DEF SweepQuery, Await, bus
<1>3. Sweep \in Tasks /\ Timeout \in Nat
  BY TimeoutAssumption DEF Tasks
<1> HIDE DEF m, c
<1> QED
  BY <1>1, <1>2, <1>3, SentAndWaits

LEMMA RawSendWaits ==
  ASSUME BusInv, WaitInv, NEW r \in RawSends, NEW p \in Probes, RawSend(r, p[1], p[2], p[3])
  PROVE  WaitInv'
<1>1. r \in Tasks /\ p[1] \in Modules /\ Window \in Nat
  BY ProbesAssumption, WindowAssumption DEF Tasks, Keys
<1>2. /\ task' = [task EXCEPT ![r] = StartWait(r, p[1], p[2], now + 1, Window)]
      /\ Advance /\ UNCHANGED <<heard, recent>>
  BY DEF RawSend, tracker
<1> QED
  BY <1>1, <1>2, SentAndWaits

\* A raw send is refused, or the bus cannot send.
LEMMA RefusalWaits ==
  ASSUME BusInv, WaitInv, NEW r \in RawSends, NEW result \in {"failed", "raw_send_busy"},
         task[r].pc = "idle",
         task' = [task EXCEPT ![r].pc = "done", ![r].result = result],
         UNCHANGED <<now, heard, recent>>
  PROVE  WaitInv'
<1> DEFINE w == task[r]
           v == [w EXCEPT !.pc = "done", !.result = result]
<1>1. r \in Tasks
  BY DEF Tasks
<1>2. PICK A : task \in [Tasks -> Locals(A)] /\ w \in Locals(A)
  BY <1>1, LocalsOf
<1>3. /\ SameWait(w, v) /\ v.pc = "done" /\ v.result = result /\ v.got = w.got
      /\ v.queue = w.queue
  <2> HIDE DEF w
  <2> QED
    BY <1>2 DEF Locals, SameWait
<1>4. task' = [task EXCEPT ![r] = v]
  BY <1>2 DEF Locals
<1>5. now \in Nat /\ TaskOK(r, w, now, heard) /\ w.pc = "idle"
  BY <1>1 DEF BusInv, BusTypeOK, WaitInv, RecentOK
<1> HIDE DEF v, w
<1>6. TaskOK(r, v, now, heard)
  BY <1>1, <1>3, <1>5, RefusedUnheard
<1> QED
  BY <1>1, <1>4, <1>6, OneWaitMoves

LEMMA WaitStep ==
  ASSUME Lag < QueueMax
  PROVE  BusInv /\ WaitInv /\ [Next]_vars => WaitInv'
<1> SUFFICES ASSUME BusInv, WaitInv, [Next]_vars PROVE WaitInv'
  OBVIOUS
<1>1. CASE Tick \/ Poll
  <2>1. Advance /\ UNCHANGED <<task, heard, recent>>
    BY <1>1 DEF Tick, Poll, Await, tracker, bus
  <2> QED
    BY <2>1, NoWaitMoves
<1>2. CASE \E m \in Modules : Receive(m)
  BY <1>2, ReceiveWaits
<1>3. CASE \E t \in Tasks : Skip(t)
  BY <1>3, SkipWaits
<1>4. ASSUME NEW t \in Commands, CommandStep(t) PROVE WaitInv'
  <2>1. t \in Tasks \ (RawSends \cup {Sweep})
    BY TasksAssumption DEF Tasks
  <2>2. CASE \E o \in Orders : Command(t, o[1], o[2], o[3])
    BY <2>2, CommandWaits
  <2>3. CASE CommandConfirmed(t)
    <3>1. /\ Waiting(t) /\ Matches(t) /\ Finish(t, "confirmed", <<Taken(t)>>)
          /\ UNCHANGED <<now, heard, recent>>
      BY <2>3 DEF CommandConfirmed, tracker, bus
    <3> QED
      BY <2>1, <3>1, FinishWaits
  <2>4. CASE CommandUnconfirmed(t)
    <3>1. /\ Waiting(t) /\ GivesUp(t) /\ Finish(t, "unconfirmed", <<>>)
          /\ UNCHANGED <<now, heard, recent>>
      BY <2>4 DEF CommandUnconfirmed, bus
    <3> QED
      BY <2>1, <3>1, FinishWaits
  <2> QED
    BY <1>4, <2>2, <2>3, <2>4 DEF CommandStep
<1>5. ASSUME NEW r \in RawSends, RawStep(r) PROVE WaitInv'
  <2>1. r \in Tasks /\ r # Sweep
    BY TasksAssumption DEF Tasks
  <2>2. CASE \E p \in Probes : RawSend(r, p[1], p[2], p[3])
    BY <2>2, RawSendWaits
  <2>3. CASE \E p \in Probes : RawSendFails(r, p[1])
    <3>1. /\ task[r].pc = "idle" /\ UNCHANGED <<now, heard, recent>>
          /\ task' = [task EXCEPT ![r].pc = "done", ![r].result = "failed"]
      BY <2>3 DEF RawSendFails, tracker
    <3> QED
      BY <3>1, RefusalWaits
  <2>4. CASE RawSendRefused(r)
    <3>1. /\ task[r].pc = "idle" /\ UNCHANGED <<now, heard, recent>>
          /\ task' = [task EXCEPT ![r].pc = "done", ![r].result = "raw_send_busy"]
      BY <2>4 DEF RawSendRefused, tracker, bus
    <3> QED
      BY <3>1, RefusalWaits
  <2>5. CASE RawCollect(r)
    BY <2>5, CollectWaits
  <2>6. CASE RawWindowOver(r)
    <3>1. /\ Waiting(r) /\ GivesUp(r) /\ Finish(r, "ok", task[r].got)
          /\ UNCHANGED <<now, heard, recent>>
      BY <2>6 DEF RawWindowOver, tracker, bus
    <3> QED
      BY <2>1, <3>1, FinishWaits
  <2> QED
    BY <1>5, <2>2, <2>3, <2>4, <2>5, <2>6 DEF RawStep
<1>6. CASE SweepStep
  <2>1. Sweep \in Tasks
    BY DEF Tasks
  <2>2. CASE SweepStart \/ SweepEnd
    BY <2>2, NoWaitMoves DEF SweepStart, SweepEnd, tracker, bus
  <2>3. CASE SweepQuery
    BY <2>3, SweepQueryWaits
  <2>4. CASE SweepSeeds \/ SweepNoAnswer
    <3>1. /\ Waiting(Sweep) /\ Finish(Sweep, "none", <<>>)
          /\ UNCHANGED <<now, heard, recent>>
      BY <2>4 DEF SweepSeeds, SweepNoAnswer, tracker, bus
    <3> QED
      BY <2>1, <3>1, FinishWaits
  <2> QED
    BY <1>6, <2>2, <2>3, <2>4 DEF SweepStep
<1>7. CASE UNCHANGED vars
  BY <1>7, NoWaitMoves DEF vars, tracker, bus
<1> QED
  BY <1>1, <1>2, <1>3, <1>4, <1>5, <1>6, <1>7 DEF Next

LEMMA WaitAlways ==
  ASSUME Lag < QueueMax
  PROVE  Spec => []WaitInv
<1>1. BusInv /\ WaitInv /\ [Next]_vars => WaitInv'
  BY WaitStep
<1> QED
  BY <1>1, WaitInit, BusAlways, PTL DEF Spec

\* A command says module_confirmed only of a packet of its own module that was handled
\* in its reply window, as long as the loop is not so late that a queue fills up
\* (UDPBus.correlate_reply).
THEOREM ConfirmationIsReal ==
  ASSUME Lag < QueueMax
  PROVE  Spec => []ConfirmedByReply
<1>1. WaitInv => ConfirmedByReply
  <2> SUFFICES ASSUME WaitInv, NEW t \in Commands, task[t].result = "confirmed"
               PROVE  LET pkt == task[t].got[1] IN
                      /\ pkt.src = task[t].mod
                      /\ task[t].after <= pkt.ts /\ pkt.ts <= task[t].deadline + Lag
    BY DEF ConfirmedByReply
  <2>1. TaskOK(t, task[t], now, heard)
    BY DEF WaitInv, RecentOK, Tasks
  <2>2. 1 \in DOMAIN task[t].got
    BY <2>1 DEF TaskOK, Clocked
  <2> QED
    BY <2>1, <2>2 DEF TaskOK, GotOK
<1> QED
  BY <1>1, WaitAlways, PTL

\* A command denies module_confirmed only when no packet of its module came in the
\* window, however many packets of others came (UDPBus.correlate_reply).
THEOREM NoReplyIsMissed ==
  ASSUME Lag < QueueMax
  PROVE  Spec => []NoMissedConfirmation
<1>1. WaitInv => NoMissedConfirmation
  <2> SUFFICES ASSUME WaitInv, NEW t \in Commands, task[t].result = "unconfirmed",
                      NEW at \in heard[task[t].mod]
               PROVE  at < task[t].after \/ at >= task[t].deadline - Lag
    BY DEF NoMissedConfirmation
  <2>1. TaskOK(t, task[t], now, heard)
    BY DEF WaitInv, RecentOK, Tasks
  <2>2. task[t].got = <<>> /\ AllTaken(task[t], now, heard)
    BY <2>1 DEF TaskOK
  <2> QED
    BY <2>2 DEF AllTaken
<1> QED
  BY <1>1, WaitAlways, PTL

\* A raw send reports every reply of its window, in order, or says that it was cut
\* (RawSend.send and UDPBus.collect_replies).
THEOREM RawRepliesAreComplete ==
  ASSUME Lag < QueueMax
  PROVE  Spec => []RawRepliesComplete
<1>1. WaitInv => RawRepliesComplete
  <2> SUFFICES ASSUME WaitInv, NEW r \in RawSends, task[r].result \in {"ok", "truncated"}
               PROVE  LET got == task[r].got
                          at == {got[i].ts : i \in DOMAIN got}
                          inside == {x \in heard[task[r].mod] :
                                       task[r].after <= x /\ x < task[r].deadline - Lag}
                      IN /\ \A i \in DOMAIN got : /\ got[i].src = task[r].mod
                                                  /\ got[i].ts >= task[r].after
                         /\ \A i, j \in DOMAIN got : i < j => got[i].ts < got[j].ts
                         /\ IF task[r].result = "ok" THEN inside \subseteq at
                            ELSE Len(got) = MaxReplies
    BY DEF RawRepliesComplete
  <2> DEFINE w == task[r]
             at == {w.got[i].ts : i \in DOMAIN w.got}
  <2>1. TaskOK(r, w, now, heard)
    BY DEF WaitInv, RecentOK, Tasks
  <2> HIDE DEF w
  <2>2. \A i \in DOMAIN w.got : w.got[i].src = w.mod /\ w.got[i].ts >= w.after
    <3>1. w.got \in Seq(Packet) /\ w.after \in Nat
      BY <2>1 DEF TaskOK, Clocked
    <3>2. \A i \in DOMAIN w.got : w.got[i].ts \in Nat
      BY <3>1, TimesOf, Zenon
    <3> QED
      BY <2>1, <3>1, <3>2 DEF TaskOK, GotOK
  <2>3. \A i, j \in DOMAIN w.got : i < j => w.got[i].ts < w.got[j].ts
    BY <2>1 DEF TaskOK, GotOK
  <2>4. ASSUME w.result = "ok", NEW x \in heard[w.mod],
               w.after <= x, x < w.deadline - Lag
        PROVE  x \in at
    <3>1. /\ w.mod \in Modules /\ heard \in History
          /\ w.after \in Nat /\ w.deadline \in Nat /\ Lag \in Nat
      BY <2>1, <2>4, LimitsAssumption DEF TaskOK, Clocked, AllTaken, WaitInv, RecentOK
    <3>2. x \in Nat
      BY <2>4, <3>1 DEF History
    <3>3. \/ x < w.after \/ x >= w.deadline - Lag
          \/ \E i \in DOMAIN w.got : w.got[i].ts = x
      BY <2>1, <2>4 DEF TaskOK, AllTaken
    <3>4. \E i \in DOMAIN w.got : w.got[i].ts = x
      BY <2>4, <3>1, <3>2, <3>3
    <3> QED
      BY <3>4
  <2>5. w.result = "truncated" => Len(w.got) = MaxReplies
    BY <2>1 DEF TaskOK
  <2> QED
    BY <2>2, <2>3, <2>4, <2>5 DEF w
<1> QED
  BY <1>1, WaitAlways, PTL

-----------------------------------------------------------------------------
(***************************************************************************)
(* What the registry shows.  A report of a channel is in one of two        *)
(* places: on its way, in q, or in w, the queue of the sweep.              *)
(***************************************************************************)

\* A packet that is a report of channel k; its version is that of the output then.
Speaks(p, k) == p.kind # "pulse" /\ p.src = k[1] /\ p.ch = k[2]

\* It says what is so, or was so at version p.version, now that v is version n.
Truthful(p, n, v) ==
  /\ p.version <= n
  /\ p.version = n => p.val \in {v, "unknown"}
  /\ p.kind = "status" => p.val \in Values

\* Reports of k come in the order of the changes, after version sh, which the
\* registry shows, and after what the sweep has in its queue.
Reports(q, w, k, sh, n, v) ==
  /\ \A i \in DOMAIN q : Speaks(q[i], k) => sh <= q[i].version /\ Truthful(q[i], n, v)
  /\ \A i, j \in DOMAIN q :
       i <= j /\ Speaks(q[i], k) /\ Speaks(q[j], k) => q[i].version <= q[j].version
  /\ \A i \in DOMAIN w : Speaks(w[i], k) => Truthful(w[i], n, v)
  /\ \A i \in DOMAIN q, j \in DOMAIN w :
       Speaks(q[i], k) /\ Speaks(w[j], k) => w[j].version <= q[i].version

\* The last version of k is under way in q.
UnderWay(q, k, n) == \E i \in DOMAIN q : Speaks(q[i], k) /\ q[i].version = n

NewsOK(k) ==
  /\ Reports(net[k[1]], task[Sweep].queue, k, shown[k], version[k], phys[k])
  /\ shown[k] <= version[k]
  /\ shown[k] = version[k] => state[k] = phys[k] \/ (version[k] = 0 /\ state[k] = "unseen")
  /\ silent[k] < version[k] => shown[k] = version[k] \/ UnderWay(net[k[1]], k, version[k])

\* The sweep waits for the answer of the channel it asked.
SweepAsks ==
  Waiting(Sweep) =>
    pos \in 1 .. Len(SweepKeys) /\ SweepKeys[pos] = <<task[Sweep].mod, task[Sweep].ch>>

NewsTypeOK ==
  /\ shown \in [Keys -> Nat]
  /\ silent \in [Keys -> Int]
  /\ task[Sweep].queue \in Seq(Packet)

NewsInv == RecentOK /\ NewsTypeOK /\ SweepAsks /\ \A k \in Keys : NewsOK(k)

\* Versions are numbers.
LEMMA VersionsOf ==
  ASSUME NEW q \in Seq(Packet)
  PROVE  \A i \in DOMAIN q : q[i] \in Packet /\ q[i].version \in Nat
<1>1. \A p \in Packet : p.version \in Nat
  BY DEF Packet
<1> QED
  BY <1>1

\* The sweep lets a report go, or has one more that is none of k.
LEMMA SweepLetsGo ==
  ASSUME NEW q, NEW w, NEW k, NEW sh, NEW n, NEW v, NEW w2, NEW p, ~Speaks(p, k),
         Reports(q, w, k, sh, n, v), Within(w2, w, p)
  PROVE  Reports(q, w2, k, sh, n, v)
BY Zenon DEF Reports, Within

\* One more packet is under way: none of k, or a report of its last version.
LEMMA ReportSent ==
  ASSUME NEW q \in Seq(Packet), NEW w \in Seq(Packet), NEW k, NEW sh \in Nat, NEW n \in Nat, NEW v,
         Reports(q, w, k, sh, n, v), sh <= n,
         NEW p \in Packet, Speaks(p, k) => p.version = n /\ Truthful(p, n, v)
  PROVE  /\ Reports(Append(q, p), w, k, sh, n, v)
         /\ UnderWay(q, k, n) \/ Speaks(p, k) => UnderWay(Append(q, p), k, n)
<1> DEFINE r == Append(q, p)
<1>1. /\ Len(q) \in Nat /\ DOMAIN q = 1 .. Len(q)
      /\ Len(q) + 1 \in DOMAIN r /\ r[Len(q) + 1] = p
      /\ \A i \in DOMAIN r : \/ i \in DOMAIN q /\ r[i] = q[i]
                             \/ i = Len(q) + 1 /\ r[i] = p
      /\ \A i \in DOMAIN q : i \in DOMAIN r /\ r[i] = q[i]
  BY EndOfQueue
<1>2. \A i \in DOMAIN q : q[i].version \in Nat
  BY VersionsOf, Zenon
<1>3. \A i \in DOMAIN w : w[i].version \in Nat
  BY VersionsOf, Zenon
<1> HIDE DEF r
<1>4. \A i \in DOMAIN r : Speaks(r[i], k) => sh <= r[i].version /\ Truthful(r[i], n, v)
  BY <1>1 DEF Reports
<1>5. \A i \in DOMAIN q : Speaks(q[i], k) => q[i].version <= n
  BY DEF Reports, Truthful
<1>6. \A i, j \in DOMAIN r :
        i <= j /\ Speaks(r[i], k) /\ Speaks(r[j], k) => r[i].version <= r[j].version
  <2> SUFFICES ASSUME NEW i \in DOMAIN r, NEW j \in DOMAIN r,
                      i <= j, Speaks(r[i], k), Speaks(r[j], k)
               PROVE  r[i].version <= r[j].version
    OBVIOUS
  <2>1. CASE j \in DOMAIN q /\ r[j] = q[j]
    <3>1. i \in DOMAIN q /\ r[i] = q[i]
      BY <1>1, <2>1
    <3> QED
      BY <2>1, <3>1 DEF Reports
  <2>2. CASE j = Len(q) + 1 /\ r[j] = p
    BY <1>1, <1>5, <2>2
  <2> QED
    BY <1>1, <2>1, <2>2
<1>7. \A i \in DOMAIN r, j \in DOMAIN w :
        Speaks(r[i], k) /\ Speaks(w[j], k) => w[j].version <= r[i].version
  BY <1>1 DEF Reports, Truthful
<1>8. Reports(r, w, k, sh, n, v)
  BY <1>4, <1>6, <1>7 DEF Reports
<1>9. UnderWay(q, k, n) \/ Speaks(p, k) => UnderWay(r, k, n)
  BY <1>1 DEF UnderWay
<1> QED
  BY <1>8, <1>9 DEF r

\* The output changes: what is under way is of the past.
LEMMA OutputChanged ==
  ASSUME NEW q \in Seq(Packet), NEW w \in Seq(Packet), NEW k, NEW sh, NEW n \in Nat, NEW v,
         Reports(q, w, k, sh, n, v), NEW u
  PROVE  Reports(q, w, k, sh, n + 1, u)
<1>1. \A i \in DOMAIN q : q[i].version \in Nat
  BY VersionsOf, Zenon
<1>2. \A i \in DOMAIN w : w[i].version \in Nat
  BY VersionsOf, Zenon
<1>3. \A i \in DOMAIN q : Truthful(q[i], n, v) => Truthful(q[i], n + 1, u)
  BY <1>1 DEF Truthful
<1>4. \A i \in DOMAIN w : Truthful(w[i], n, v) => Truthful(w[i], n + 1, u)
  BY <1>2 DEF Truthful
<1> QED
  BY <1>3, <1>4, Zenon DEF Reports

\* The last version stays under way until its packet is handled.
LEMMA LastVersionStays ==
  ASSUME NEW q \in Seq(Packet), q # <<>>, NEW k, NEW n, UnderWay(q, k, n),
         NEW p, SameNews(p, Head(q))
  PROVE  UnderWay(Tail(q), k, n) \/ (Speaks(p, k) /\ p.version = n)
<1>1. /\ Head(q) = q[1]
      /\ \A i \in DOMAIN q \ {1} : i - 1 \in DOMAIN Tail(q) /\ Tail(q)[i - 1] = q[i]
  BY HeadOfQueue
<1>2. PICK i \in DOMAIN q : Speaks(q[i], k) /\ q[i].version = n
  BY DEF UnderWay
<1>3. CASE i = 1
  BY <1>1, <1>2, <1>3 DEF SameNews, Speaks
<1>4. CASE i # 1
  BY <1>1, <1>2, <1>4 DEF UnderWay
<1> QED
  BY <1>3, <1>4

\* The first packet under way is handled, with its time: the sweep has it or not, and
\* the registry shows it or not.
LEMMA ReportHandled ==
  ASSUME NEW q \in Seq(Packet), q # <<>>, NEW w, NEW k, NEW sh, NEW n, NEW v,
         Reports(q, w, k, sh, n, v), NEW p, SameNews(p, Head(q)),
         NEW w2, Within(w2, w, p),
         NEW sh2, sh2 = sh \/ (Speaks(p, k) /\ sh2 = p.version)
  PROVE  /\ Reports(Tail(q), w2, k, sh2, n, v)
         /\ Speaks(p, k) => sh <= p.version /\ Truthful(p, n, v)
<1>1. /\ Head(q) = q[1] /\ 1 \in DOMAIN q
      /\ \A i \in DOMAIN Tail(q) : i + 1 \in DOMAIN q /\ Tail(q)[i] = q[i + 1]
      /\ \A i \in DOMAIN q \ {1} : i - 1 \in DOMAIN Tail(q) /\ Tail(q)[i - 1] = q[i]
      /\ DOMAIN Tail(q) \subseteq Nat \ {0}
  BY HeadOfQueue
<1> DEFINE r == Tail(q)
<1> HIDE DEF r
<1>2. /\ Speaks(p, k) <=> Speaks(q[1], k)
      /\ p.version = q[1].version
      /\ Truthful(p, n, v) <=> Truthful(q[1], n, v)
  BY <1>1 DEF SameNews, Speaks, Truthful
<1>3. Speaks(p, k) => sh <= p.version /\ Truthful(p, n, v)
  BY <1>1, <1>2 DEF Reports
<1>4. \A i \in DOMAIN r : Speaks(r[i], k) => sh <= r[i].version /\ Truthful(r[i], n, v)
  BY <1>1 DEF Reports, r
<1>5. \A i \in DOMAIN r : Speaks(r[i], k) /\ Speaks(p, k) => p.version <= r[i].version
  <2> SUFFICES ASSUME NEW i \in DOMAIN r, Speaks(r[i], k), Speaks(p, k)
               PROVE  p.version <= r[i].version
    OBVIOUS
  <2>1. i + 1 \in DOMAIN q /\ r[i] = q[i + 1] /\ 1 <= i + 1
    BY <1>1 DEF r
  <2> QED
    BY <1>1, <1>2, <2>1 DEF Reports
<1>6. \A i, j \in DOMAIN r :
        i <= j /\ Speaks(r[i], k) /\ Speaks(r[j], k) => r[i].version <= r[j].version
  <2> SUFFICES ASSUME NEW i \in DOMAIN r, NEW j \in DOMAIN r,
                      i <= j, Speaks(r[i], k), Speaks(r[j], k)
               PROVE  r[i].version <= r[j].version
    OBVIOUS
  <2>1. /\ i + 1 \in DOMAIN q /\ r[i] = q[i + 1]
        /\ j + 1 \in DOMAIN q /\ r[j] = q[j + 1]
        /\ i + 1 <= j + 1
    BY <1>1 DEF r
  <2> QED
    BY <2>1, Zenon DEF Reports
<1>7. \A i \in DOMAIN w2 : Speaks(w2[i], k) => Truthful(w2[i], n, v)
  BY <1>3, Zenon DEF Within, Reports
<1>8. \A i \in DOMAIN r, j \in DOMAIN w2 :
        Speaks(r[i], k) /\ Speaks(w2[j], k) => w2[j].version <= r[i].version
  <2>1. \A i \in DOMAIN r, j \in DOMAIN w :
          Speaks(r[i], k) /\ Speaks(w[j], k) => w[j].version <= r[i].version
    BY <1>1 DEF Reports, r
  <2> QED
    BY <1>5, <2>1, Zenon DEF Within
<1>9. Reports(r, w2, k, sh2, n, v)
  BY <1>4, <1>5, <1>6, <1>7, <1>8, Zenon DEF Reports
<1> QED
  BY <1>3, <1>9 DEF r

\* The sweep's queue at most loses packets.
Loses(v, w) == \A i \in DOMAIN v : \E j \in DOMAIN w : v[i] = w[j]

\* An empty queue is a queue with less.
LEMMA NothingLeft ==
  ASSUME NEW w
  PROVE  <<>> \in Seq(Packet) /\ Loses(<<>>, w)
<1>1. DOMAIN <<>> = {} /\ <<>> \in Seq(Packet)
  OBVIOUS
<1> QED
  BY <1>1 DEF Loses

\* What is left in the sweep's queue is still in order with what is under way.
LEMMA SweepLoses ==
  ASSUME NEW q, NEW w, NEW k, NEW sh, NEW n, NEW v, NEW w2,
         Reports(q, w, k, sh, n, v), Loses(w2, w)
  PROVE  Reports(q, w2, k, sh, n, v)
BY Zenon DEF Reports, Loses

\* Nothing is sent or shown.
LEMMA QuietNews ==
  ASSUME NEW k \in Keys, NewsOK(k), UNCHANGED <<world, state, shown>>,
         Loses(task'[Sweep].queue, task[Sweep].queue)
  PROVE  NewsOK(k)'
<1>1. Reports(net[k[1]], task'[Sweep].queue, k, shown[k], version[k], phys[k])
  BY SweepLoses, Zenon DEF NewsOK
<1> QED
  BY <1>1 DEF NewsOK, world

\* A request to m, and what the module makes of it.
LEMMA TransmitNews ==
  ASSUME BusTypeOK, NewsTypeOK, NEW k \in Keys, NewsOK(k),
         NEW m \in Modules, NEW c \in Channels, NEW a \in Actions,
         Transmit(m, Request(c, a)), UNCHANGED <<state, shown>>,
         Loses(task'[Sweep].queue, task[Sweep].queue)
  PROVE  NewsOK(k)' /\ silent' \in [Keys -> Int]
<1> DEFINE req == Request(c, a)
           x == <<m, c>>
           w == task[Sweep].queue
           q == net[k[1]]
<1>1. x \in Keys /\ req.ch = c /\ req.kind \in {"set", "toggle", "ramp", "query"}
      /\ req.val \in Values
  BY DEF Keys, Request, Actions, Values
<1>2. /\ k[1] \in Modules /\ q \in Seq(Packet) /\ w \in Seq(Packet)
      /\ shown[k] \in Nat /\ version[k] \in Nat /\ silent[k] \in Int
  BY DEF Keys, BusTypeOK, NewsTypeOK
<1>3. Reports(q, w, k, shown[k], version[k], phys[k]) /\ shown[k] <= version[k]
  BY DEF NewsOK
<1>4. ASSUME UNCHANGED world PROVE NewsOK(k)' /\ silent' \in [Keys -> Int]
  BY <1>4, QuietNews DEF world, NewsTypeOK
<1>5. ASSUME NEW p \in Packet, p.src = m, p.ch = c, p.kind # "pulse", Reply(m, p),
             p.version = version'[x], Truthful(p, version'[x], phys'[x]),
             NEW n \in Nat, NEW v, Reports(q, w, k, shown[k], n, v), shown[k] <= n,
             version'[k] = n, phys'[k] = v
      PROVE  /\ Reports(net'[k[1]], task'[Sweep].queue, k, shown[k], n, v)
             /\ UnderWay(q, k, n) \/ k = x => UnderWay(net'[k[1]], k, n)
  <2>1. Speaks(p, k) <=> k = x
    BY <1>5 DEF Speaks, Keys
  <2>2. CASE k[1] = m
    <3>1. net'[k[1]] = Append(q, p)
      BY <1>2, <1>5, <2>2 DEF Reply, BusTypeOK
    <3>2. /\ Reports(Append(q, p), w, k, shown[k], n, v)
          /\ UnderWay(q, k, n) \/ Speaks(p, k) => UnderWay(Append(q, p), k, n)
      BY <1>2, <1>5, <2>1, ReportSent
    <3>3. Reports(Append(q, p), task'[Sweep].queue, k, shown[k], n, v)
      BY <3>2, SweepLoses, Zenon
    <3> QED
      BY <2>1, <3>1, <3>2, <3>3
  <2>3. CASE k[1] # m
    <3>1. net'[k[1]] = q /\ k # x
      BY <1>2, <1>5, <2>3 DEF Reply, BusTypeOK
    <3>2. Reports(q, task'[Sweep].queue, k, shown[k], n, v)
      BY <1>5, SweepLoses, Zenon
    <3> QED
      BY <3>1, <3>2
  <2> QED
    BY <2>2, <2>3
<1>6. CASE req.kind = "query"
  <2> DEFINE p == Answer(m, "status", c, phys[x], version[x])
  <2>1. Ask(m, req) /\ UNCHANGED <<phys, version, silent>>
    BY <1>6 DEF Transmit, Ask
  <2>2. UNCHANGED net \/ Reply(m, p)
    BY <1>1, <2>1 DEF Ask
  <2>3. CASE UNCHANGED net
    BY <1>4, <2>1, <2>3 DEF world
  <2>4. CASE Reply(m, p)
    <3>1. /\ p \in Packet /\ p.src = m /\ p.ch = c /\ p.kind = "status"
          /\ p.version = version[x] /\ p.val = phys[x] /\ phys[x] \in Values /\ version[x] \in Nat
      BY <1>1 DEF Answer, Packet, BusTypeOK
    <3> HIDE DEF p
    <3>2. Truthful(p, version[x], phys[x])
      BY <3>1 DEF Truthful
    <3>3. /\ Reports(net'[k[1]], task'[Sweep].queue, k, shown[k], version[k], phys[k])
          /\ UnderWay(q, k, version[k]) \/ k = x => UnderWay(net'[k[1]], k, version[k])
      BY <1>2, <1>3, <1>5, <2>1, <2>4, <3>1, <3>2
    <3> QED
      BY <2>1, <3>3 DEF NewsOK, NewsTypeOK
  <2> QED
    BY <2>2, <2>3, <2>4
<1>7. ASSUME NEW v \in Outcomes(m, req), req.kind # "query",
             phys' = [phys EXCEPT ![x] = v],
             version' = [version EXCEPT ![x] = @ + 1]
      PROVE  /\ v \in Values /\ version[x] \in Nat /\ version'[x] = version[x] + 1 /\ phys'[x] = v
             /\ k = x => Reports(q, w, k, shown[k], version[k] + 1, v)
             /\ k # x => version'[k] = version[k] /\ phys'[k] = phys[k]
  <2>1. v \in Values
    BY <1>1, <1>7 DEF Outcomes, Values
  <2>2. version[x] \in Nat /\ version'[x] = version[x] + 1 /\ phys'[x] = v
    BY <1>1, <1>7 DEF BusTypeOK
  <2>3. k # x => version'[k] = version[k] /\ phys'[k] = phys[k]
    BY <1>7 DEF BusTypeOK
  <2>4. k = x => Reports(q, w, k, shown[k], version[k] + 1, v)
    BY <1>2, <1>3, OutputChanged
  <2> QED
    BY <2>1, <2>2, <2>3, <2>4
<1>8. CASE req.kind # "query" /\ ~UNCHANGED world
  <2>1. PICK v \in Outcomes(m, req) :
          /\ phys' = [phys EXCEPT ![x] = v]
          /\ version' = [version EXCEPT ![x] = @ + 1]
          /\ \/ silent' = [silent EXCEPT ![x] = version[x] + 1] /\ UNCHANGED net
             \/ Reply(m, Report(m, req, v)) /\ UNCHANGED silent
    BY <1>1, <1>8 DEF Transmit, Deliver
  <2>2. /\ v \in Values /\ version[x] \in Nat /\ version'[x] = version[x] + 1 /\ phys'[x] = v
        /\ k = x => Reports(q, w, k, shown[k], version[k] + 1, v)
        /\ k # x => version'[k] = version[k] /\ phys'[k] = phys[k]
    BY <1>7, <1>8, <2>1
  <2>3. Reports(q, w, k, shown[k], version'[k], phys'[k])
    BY <1>3, <2>2
  <2>4. version'[k] \in Nat /\ shown[k] <= version'[k] /\ (k = x => shown[k] < version'[k])
    <3>1. CASE k = x
      <4>1. version'[k] = version[k] + 1
        BY <2>2, <3>1
      <4> QED
        BY <1>2, <1>3, <4>1
    <3>2. CASE k # x
      BY <1>2, <1>3, <2>2, <3>2
    <3> QED
      BY <3>1, <3>2
  <2>5. CASE silent' = [silent EXCEPT ![x] = version[x] + 1] /\ UNCHANGED net
    <3>1. silent' \in [Keys -> Int]
      BY <1>1, <2>2, <2>5 DEF NewsTypeOK
    <3>2. Reports(net'[k[1]], task'[Sweep].queue, k, shown'[k], version'[k], phys'[k])
      <4>1. Reports(q, task'[Sweep].queue, k, shown[k], version'[k], phys'[k])
        BY <2>3, SweepLoses, Zenon
      <4> QED
        BY <2>5, <4>1
    <3>3. CASE k = x
      <4>1. ~(silent'[k] < version'[k]) /\ shown[k] # version'[k]
        BY <1>1, <2>2, <2>4, <2>5, <3>3 DEF NewsTypeOK
      <4> QED
        BY <2>4, <3>1, <3>2, <4>1 DEF NewsOK
    <3>4. CASE k # x
      <4>1. silent'[k] = silent[k] /\ version'[k] = version[k] /\ phys'[k] = phys[k]
        BY <2>2, <2>5, <3>4 DEF NewsTypeOK
      <4> QED
        BY <2>4, <2>5, <3>1, <3>2, <4>1 DEF NewsOK
    <3> QED
      BY <3>3, <3>4
  <2>6. CASE Reply(m, Report(m, req, v)) /\ UNCHANGED silent
    <3> DEFINE p == Report(m, req, v)
    <3>1. /\ p \in Packet /\ p.src = m /\ p.ch = c /\ p.kind # "pulse"
          /\ p.version = version'[x] /\ p.val \in {v, "unknown"}
          /\ p.kind = "status" => p.val \in Values
      BY <1>1, <2>2 DEF Report, Answer, Packet, BusTypeOK
    <3> HIDE DEF p
    <3>2. Truthful(p, version'[x], phys'[x])
      BY <2>2, <3>1 DEF Truthful
    <3>3. Reply(m, p)
      BY <2>6 DEF p
    <3>4. /\ Reports(net'[k[1]], task'[Sweep].queue, k, shown[k], version'[k], phys'[k])
          /\ UnderWay(q, k, version'[k]) \/ k = x => UnderWay(net'[k[1]], k, version'[k])
      BY <1>5, <2>3, <2>4, <3>1, <3>2, <3>3
    <3>5. CASE k = x
      BY <2>4, <2>6, <3>4, <3>5 DEF NewsOK, NewsTypeOK
    <3>6. CASE k # x
      BY <2>2, <2>4, <2>6, <3>4, <3>6 DEF NewsOK, NewsTypeOK
    <3> QED
      BY <3>5, <3>6
  <2> QED
    BY <2>1, <2>5, <2>6
<1> QED
  BY <1>1, <1>4, <1>6, <1>8

\* Keepalives: their answers are no reports.
LEMMA PollNews ==
  ASSUME BusTypeOK, NewsTypeOK, NEW k \in Keys, NewsOK(k), Poll
  PROVE  NewsOK(k)'
<1> DEFINE q == net[k[1]]
           p == Answer(k[1], "pulse", "none", "unknown", 0)
           w == task[Sweep].queue
<1>1. /\ k[1] \in Modules /\ q \in Seq(Packet) /\ w \in Seq(Packet)
      /\ shown[k] \in Nat /\ version[k] \in Nat
  BY DEF Keys, BusTypeOK, NewsTypeOK
<1>2. p \in Packet /\ ~Speaks(p, k)
  BY <1>1 DEF Answer, Packet, Speaks
<1>3. net'[k[1]] = q \/ net'[k[1]] = Append(q, p)
  BY <1>1 DEF Poll
<1>4. UNCHANGED <<phys, version, silent, state, shown, task>>
  BY DEF Poll, registry
<1> HIDE DEF p
<1>5. CASE net'[k[1]] = q
  BY <1>4, <1>5 DEF NewsOK
<1>6. CASE net'[k[1]] = Append(q, p)
  <2>1. Reports(q, w, k, shown[k], version[k], phys[k]) /\ shown[k] <= version[k]
    BY DEF NewsOK
  <2>2. /\ Reports(Append(q, p), w, k, shown[k], version[k], phys[k])
        /\ UnderWay(q, k, version[k]) => UnderWay(Append(q, p), k, version[k])
    BY <1>1, <1>2, <2>1, ReportSent
  <2> QED
    BY <1>4, <1>6, <2>2 DEF NewsOK
<1> QED
  BY <1>3, <1>5, <1>6

\* A packet that is handled leaves the history of the outputs of its types.
LEMMA PacketKeepsTypes ==
  ASSUME NewsTypeOK, NEW p \in Packet, NEW ignore \in BOOLEAN, HandlePacket(p, ignore)
  PROVE  shown' \in [Keys -> Nat] /\ silent' \in [Keys -> Int]
<1> DEFINE x == <<p.src, p.ch>>
<1>1. p.version \in Nat
  BY DEF Packet
<1>2. shown \in [Keys -> Nat] /\ silent \in [Keys -> Int]
  BY DEF NewsTypeOK
<1>3. CASE Informs(p) /\ ~ignore
  <2>1. /\ shown' = [shown EXCEPT ![x] = p.version]
        /\ silent' = [silent EXCEPT ![x] = IF p.version >= @ THEN -1 ELSE @]
    BY <1>3 DEF HandlePacket
  <2>2. \E i \in Int : silent' = [silent EXCEPT ![x] = i] \/ silent' = silent
    <3>1. -1 \in Int
      OBVIOUS
    <3> QED
      BY <1>2, <2>1, <3>1
  <2> QED
    BY <1>1, <1>2, <2>1, <2>2
<1>4. CASE ~(Informs(p) /\ ~ignore)
  <2>1. /\ silent' = [y \in Keys |-> IF y = x /\ p.version > shown[y] /\ Excused(p)
                                     THEN Larger(silent[y], p.version) ELSE silent[y]]
        /\ shown' = shown
    BY <1>4 DEF HandlePacket, registry
  <2>2. \A y \in Keys : silent[y] \in Int /\ Larger(silent[y], p.version) \in Int
    BY <1>1, <1>2 DEF Larger
  <2> QED
    BY <1>2, <2>1, <2>2
<1> QED
  BY <1>3, <1>4

\* What a packet that is handled means for the registry's channel k: it is shown, or
\* the registry is excused for it, or it is none of its business.
LEMMA PacketForChannel ==
  ASSUME BusTypeOK, NewsTypeOK, NEW k \in Keys, NEW p \in Packet, NEW ignore \in BOOLEAN,
         HandlePacket(p, ignore)
  PROVE  \/ /\ Informs(p) /\ ~ignore /\ Speaks(p, k) /\ p.val \in Values
            /\ state'[k] = p.val /\ shown'[k] = p.version
            /\ silent'[k] = IF p.version >= silent[k] THEN -1 ELSE silent[k]
         \/ /\ state'[k] = state[k] /\ shown'[k] = shown[k]
            /\ silent'[k] >= silent[k]
            /\ Speaks(p, k) /\ p.version > shown[k] /\ Excused(p) => silent'[k] >= p.version
            /\ Speaks(p, k) => ignore \/ ~Informs(p)
<1> DEFINE x == <<p.src, p.ch>>
<1>1. /\ p.version \in Nat /\ p.kind \in {"echo", "status", "pulse"}
      /\ Speaks(p, k) <=> k = x /\ p.kind # "pulse"
  BY DEF Packet, Speaks, Keys
<1>2. shown[k] \in Nat /\ silent[k] \in Int /\ state = [y \in Keys |-> state[y]]
  BY DEF NewsTypeOK, BusTypeOK
<1>3. CASE Informs(p) /\ ~ignore
  <2>1. /\ state' = [state EXCEPT ![x] = p.val]
        /\ shown' = [shown EXCEPT ![x] = p.version]
        /\ silent' = [silent EXCEPT ![x] = IF p.version >= @ THEN -1 ELSE @]
    BY <1>3 DEF HandlePacket
  <2>2. p.kind # "pulse" /\ p.val \in Values
    BY <1>3 DEF Informs
  <2>4. CASE k = x
    <3>1. state'[k] = p.val
      BY <1>2, <2>1, <2>4
    <3>2. shown'[k] = p.version /\ silent'[k] = IF p.version >= silent[k] THEN -1 ELSE silent[k]
      BY <2>1, <2>4 DEF NewsTypeOK
    <3> QED
      BY <1>1, <1>3, <2>2, <2>4, <3>1, <3>2
  <2>5. CASE k # x
    <3>1. state'[k] = state[k]
      BY <1>2, <2>1, <2>5
    <3>2. shown'[k] = shown[k] /\ silent'[k] = silent[k]
      BY <2>1, <2>5 DEF NewsTypeOK
    <3> QED
      BY <1>1, <1>2, <2>5, <3>1, <3>2
  <2> QED
    BY <2>4, <2>5
<1>4. CASE ~(Informs(p) /\ ~ignore)
  <2>1. /\ silent' = [y \in Keys |-> IF y = x /\ p.version > shown[y] /\ Excused(p)
                                     THEN Larger(silent[y], p.version) ELSE silent[y]]
        /\ state' = state /\ shown' = shown
    BY <1>4 DEF HandlePacket, registry
  <2>2. \A y \in Keys : silent[y] \in Int /\ Larger(silent[y], p.version) \in Int
    BY <1>1 DEF Larger, NewsTypeOK
  <2>4. Larger(silent[k], p.version) >= silent[k] /\ Larger(silent[k], p.version) >= p.version
    BY <1>1, <1>2 DEF Larger
  <2>5. silent'[k] = IF k = x /\ p.version > shown[k] /\ Excused(p)
                     THEN Larger(silent[k], p.version) ELSE silent[k]
    BY <2>1
  <2>6. silent'[k] >= silent[k]
    BY <1>2, <2>4, <2>5
  <2>7. Speaks(p, k) /\ p.version > shown[k] /\ Excused(p) => silent'[k] >= p.version
    BY <1>1, <2>4, <2>5
  <2> QED
    BY <1>4, <2>1, <2>6, <2>7 DEF NewsTypeOK
<1> QED
  BY <1>3, <1>4

\* A raw send holds the module, so the registry is excused for what it ignores.
LEMMA IgnoredIsExcused ==
  ASSUME BusInv, NEW p, p.src \in Modules, Held(p.src, now + 1)
  PROVE  Excused(p)
<1>1. hold[p.src] \in Nat /\ now \in Nat /\ now + 1 < hold[p.src]
  BY DEF Held, BusInv, BusTypeOK
<1>2. PICK r \in RawSends : task[r].mod = p.src /\ hold[p.src] = task[r].deadline
  BY <1>1 DEF BusInv, HoldsAreOwned
<1> QED
  BY <1>1, <1>2 DEF Excused

\* The sweep waits or not, and has at most the packet p more.
LEMMA SweepHears ==
  ASSUME BusTypeOK, NewsTypeOK, NEW p \in Packet,
         task' = [t \in Tasks |->
           IF Waiting(t) THEN [task[t] EXCEPT !.queue = PushBounded(@, p, QueueMax)]
           ELSE task[t]]
  PROVE  /\ task'[Sweep].queue \in Seq(Packet)
         /\ Within(task'[Sweep].queue, task[Sweep].queue, p)
         /\ task'[Sweep].pc = task[Sweep].pc
         /\ task'[Sweep].mod = task[Sweep].mod /\ task'[Sweep].ch = task[Sweep].ch
<1> DEFINE w == task[Sweep]
           q == PushBounded(w.queue, p, QueueMax)
<1>1. Sweep \in Tasks
  BY DEF Tasks
<1>2. PICK A : task \in [Tasks -> Locals(A)]
  BY DEF BusTypeOK
<1>3. w \in Locals(A)
  BY <1>1, <1>2
<1>4. w.queue \in Seq(Packet) /\ Within(w.queue, w.queue, p)
  BY DEF NewsTypeOK, Within
<1>5. q \in Seq(Packet) /\ Within(q, w.queue, p)
  BY <1>4, PushedQueue, LimitsAssumption
<1>6. task'[Sweep] = w \/ task'[Sweep] = [w EXCEPT !.queue = q]
  BY <1>1
<1> HIDE DEF q, w
<1>7. CASE task'[Sweep] = w
  BY <1>4, <1>7 DEF w
<1>8. CASE task'[Sweep] = [w EXCEPT !.queue = q]
  <2>1. /\ task'[Sweep].queue = q /\ task'[Sweep].pc = w.pc
        /\ task'[Sweep].mod = w.mod /\ task'[Sweep].ch = w.ch
    BY <1>3, <1>8 DEF Locals
  <2> QED
    BY <1>5, <2>1 DEF w
<1> QED
  BY <1>6, <1>7, <1>8

\* A datagram of m is handled.
LEMMA ReceiveNews ==
  ASSUME BusInv, NewsTypeOK, NEW k \in Keys, NewsOK(k), NEW m \in Modules, Receive(m)
  PROVE  NewsOK(k)'
<1> DEFINE p == [Head(net[m]) EXCEPT !.ts = now + 1]
           q == net[k[1]]
           w == task[Sweep].queue
           w2 == task'[Sweep].queue
           ignore == Held(m, now + 1)
<1>1. /\ net[m] # <<>> /\ HandlePacket(p, ignore)
      /\ task' = [t \in Tasks |->
           IF Waiting(t) THEN [task[t] EXCEPT !.queue = PushBounded(@, p, QueueMax)]
           ELSE task[t]]
      /\ net' = [net EXCEPT ![m] = Tail(@)]
      /\ UNCHANGED <<phys, version>>
  BY DEF Receive
<1>2. p \in Packet /\ p.src = m /\ SameNews(p, Head(net[m]))
  BY <1>1, NextPacket
<1>3. ignore \in BOOLEAN
  BY DEF Held
<1> HIDE DEF p
<1>4. w2 \in Seq(Packet) /\ Within(w2, w, p)
  BY <1>1, <1>2, SweepHears DEF BusInv
<1>5. \/ /\ Informs(p) /\ ~ignore /\ Speaks(p, k) /\ p.val \in Values
         /\ state'[k] = p.val /\ shown'[k] = p.version
         /\ silent'[k] = IF p.version >= silent[k] THEN -1 ELSE silent[k]
      \/ /\ state'[k] = state[k] /\ shown'[k] = shown[k]
         /\ silent'[k] >= silent[k]
         /\ Speaks(p, k) /\ p.version > shown[k] /\ Excused(p) => silent'[k] >= p.version
         /\ Speaks(p, k) => ignore \/ ~Informs(p)
  BY <1>1, <1>2, <1>3, PacketForChannel DEF BusInv
<1>6. ignore => Excused(p)
  BY <1>2, IgnoredIsExcused
<1>11. shown'[k] \in Nat /\ silent'[k] \in Int
  BY <1>1, <1>2, <1>3, PacketKeepsTypes
<1>7. /\ k[1] \in Modules /\ shown[k] \in Nat /\ version[k] \in Nat /\ silent[k] \in Int
      /\ silent'[k] \in Int /\ p.version \in Nat /\ q \in Seq(Packet)
  BY <1>2, <1>11 DEF Keys, BusInv, BusTypeOK, NewsTypeOK, Packet
<1>8. /\ Reports(q, w, k, shown[k], version[k], phys[k]) /\ shown[k] <= version[k]
      /\ shown[k] = version[k] => state[k] = phys[k] \/ (version[k] = 0 /\ state[k] = "unseen")
      /\ silent[k] < version[k] => shown[k] = version[k] \/ UnderWay(q, k, version[k])
  BY DEF NewsOK
<1> HIDE DEF ignore
<1>9. CASE k[1] # m
  <2>1. net'[k[1]] = q
    BY <1>1, <1>7, <1>9 DEF BusInv, BusTypeOK
  <2>2. ~Speaks(p, k)
    BY <1>2, <1>9 DEF Speaks
  <2>3. Reports(q, w2, k, shown[k], version[k], phys[k])
    BY <1>4, <1>8, <2>2, SweepLetsGo, Zenon
  <2>4. state'[k] = state[k] /\ shown'[k] = shown[k] /\ silent'[k] >= silent[k]
    BY <1>5, <2>2
  <2>5. silent'[k] < version[k] => shown[k] = version[k] \/ UnderWay(q, k, version[k])
    BY <1>7, <1>8, <2>4
  <2> QED
    BY <1>1, <1>4, <1>5, <1>8, <2>1, <2>3, <2>4, <2>5 DEF NewsOK
<1>10. CASE k[1] = m
  <2>0. net'[k[1]] = Tail(q)
    BY <1>1, <1>7, <1>10 DEF BusInv, BusTypeOK
  <2>1. /\ Reports(Tail(q), w2, k, shown'[k], version[k], phys[k])
        /\ Speaks(p, k) => shown[k] <= p.version /\ Truthful(p, version[k], phys[k])
        /\ UnderWay(q, k, version[k]) =>
             UnderWay(Tail(q), k, version[k]) \/ (Speaks(p, k) /\ p.version = version[k])
    <3>1. shown'[k] = shown[k] \/ (Speaks(p, k) /\ shown'[k] = p.version)
      BY <1>5
    <3>2. q # <<>> /\ SameNews(p, Head(q))
      BY <1>1, <1>2, <1>10
    <3> HIDE DEF q, w, w2
    <3>3. Reports(Tail(q), w2, k, shown'[k], version[k], phys[k])
      BY <1>4, <1>7, <1>8, <3>1, <3>2, ReportHandled
    <3>4. Speaks(p, k) => shown[k] <= p.version /\ Truthful(p, version[k], phys[k])
      BY <1>4, <1>7, <1>8, <3>1, <3>2, ReportHandled
    <3>5. UnderWay(q, k, version[k]) =>
            UnderWay(Tail(q), k, version[k]) \/ (Speaks(p, k) /\ p.version = version[k])
      BY <1>7, <3>2, LastVersionStays
    <3> QED
      BY <3>3, <3>4, <3>5
  <2>2. Speaks(p, k) => /\ p.version <= version[k] /\ shown[k] <= p.version
                        /\ p.version = version[k] => p.val \in {phys[k], "unknown"}
    BY <2>1 DEF Truthful
  <2>3. CASE Informs(p) /\ ~ignore /\ Speaks(p, k) /\ p.val \in Values
             /\ state'[k] = p.val /\ shown'[k] = p.version
             /\ silent'[k] = IF p.version >= silent[k] THEN -1 ELSE silent[k]
    <3>1. shown'[k] <= version[k]
      BY <2>2, <2>3
    <3>2. shown'[k] = version[k] => state'[k] = phys[k]
      BY <2>2, <2>3 DEF Values
    <3>3. silent'[k] < version[k] => shown'[k] = version[k] \/ UnderWay(Tail(q), k, version[k])
      <4>1. CASE silent[k] < version[k]
        <5>1. CASE shown[k] = version[k]
          BY <1>7, <2>2, <2>3, <5>1
        <5>2. CASE UnderWay(q, k, version[k])
          BY <2>1, <2>3, <5>2
        <5> QED
          BY <1>8, <4>1, <5>1, <5>2
      <4>2. CASE ~(silent[k] < version[k])
        BY <1>7, <2>2, <2>3, <4>2
      <4> QED
        BY <4>1, <4>2
    <3> QED
      BY <1>1, <1>4, <1>5, <2>0, <2>1, <3>1, <3>2, <3>3 DEF NewsOK
  <2>4. CASE state'[k] = state[k] /\ shown'[k] = shown[k] /\ silent'[k] >= silent[k]
             /\ (Speaks(p, k) /\ p.version > shown[k] /\ Excused(p) => silent'[k] >= p.version)
             /\ (Speaks(p, k) => ignore \/ ~Informs(p))
    <3>1. silent'[k] < version[k] => shown'[k] = version[k] \/ UnderWay(Tail(q), k, version[k])
      <4> SUFFICES ASSUME silent'[k] < version[k], shown[k] # version[k]
                   PROVE  UnderWay(Tail(q), k, version[k])
        BY <2>4
      <4>1. UnderWay(q, k, version[k])
        BY <1>7, <1>8, <2>4
      <4>2. ASSUME Speaks(p, k), p.version = version[k] PROVE FALSE
        <5>1. p.version > shown[k]
          BY <1>7, <1>8, <4>2
        <5>2. Excused(p)
          <6>1. CASE ignore
            BY <1>6, <6>1
          <6>2. CASE ~Informs(p)
            <7>1. p.kind \in {"status", "echo"}
              BY <1>2, <4>2 DEF Speaks, Packet
            <7> QED
              BY <6>2, <7>1 DEF Informs, Excused
          <6> QED
            BY <2>4, <4>2, <6>1, <6>2
        <5> QED
          BY <1>7, <2>4, <4>2, <5>1, <5>2
      <4> QED
        BY <2>1, <4>1, <4>2
    <3> QED
      BY <1>1, <1>4, <1>5, <1>8, <2>0, <2>1, <2>4, <3>1 DEF NewsOK
  <2> QED
    BY <1>5, <2>3, <2>4
<1> QED
  BY <1>9, <1>10

\* The sweep goes on with no more in its queue, or ends a wait.
SweepGoesOn ==
  /\ task'[Sweep].queue \in Seq(Packet)
  /\ Loses(task'[Sweep].queue, task[Sweep].queue)
  /\ Waiting(Sweep)' => /\ Waiting(Sweep)
                        /\ task'[Sweep].mod = task[Sweep].mod
                        /\ task'[Sweep].ch = task[Sweep].ch

\* The sweep's locals are as they were.
LEMMA OthersMove ==
  ASSUME BusTypeOK, NewsTypeOK, task'[Sweep] = task[Sweep]
  PROVE  SweepGoesOn
BY DEF SweepGoesOn, NewsTypeOK, Loses, Waiting

\* A task ends its wait, maybe the sweep.
LEMMA FinishSweeps ==
  ASSUME BusTypeOK, NewsTypeOK, NEW t \in Tasks, NEW result, NEW got, Finish(t, result, got)
  PROVE  SweepGoesOn /\ (t = Sweep => ~Waiting(Sweep)')
<1>1. PICK A : task \in [Tasks -> Locals(A)]
  BY DEF BusTypeOK
<1> DEFINE w == [task[t] EXCEPT !.pc = "done", !.result = result, !.got = got, !.queue = <<>>]
<1>2. w.pc = "done" /\ w.queue = <<>>
  BY <1>1 DEF Locals
<1>3. task' = [task EXCEPT ![t] = w]
  BY <1>1 DEF Finish, Locals
<1> HIDE DEF w
<1>4. CASE t = Sweep
  <2>1. task'[Sweep] = w
    BY <1>1, <1>3, <1>4
  <2>2. task'[Sweep].pc = "done" /\ task'[Sweep].queue = <<>>
    BY <1>2, <2>1
  <2>4. task'[Sweep].queue \in Seq(Packet) /\ Loses(task'[Sweep].queue, task[Sweep].queue)
    BY <2>2, NothingLeft
  <2>5. ~Waiting(Sweep)'
    BY <2>2 DEF Waiting
  <2> QED
    BY <2>4, <2>5 DEF SweepGoesOn
<1>5. CASE t # Sweep
  BY <1>3, <1>5, OthersMove, <1>1 DEF Tasks
<1> QED
  BY <1>4, <1>5

\* A task drops a packet that it does not wait for, maybe the sweep.
LEMMA SkipSweeps ==
  ASSUME BusTypeOK, NewsTypeOK, NEW t \in Tasks, Skip(t)
  PROVE  SweepGoesOn
<1>1. PICK A : task \in [Tasks -> Locals(A)]
  BY DEF BusTypeOK
<1> DEFINE q == task[t].queue
           w == [task[t] EXCEPT !.queue = Tail(q)]
<1>2. q # <<>> /\ task' = [task EXCEPT ![t] = w]
  BY <1>1 DEF Skip
<1>3. w.pc = task[t].pc /\ w.mod = task[t].mod /\ w.ch = task[t].ch /\ w.queue = Tail(q)
  BY <1>1 DEF Locals
<1> HIDE DEF w
<1>4. CASE t = Sweep
  <2>1. task'[Sweep] = w
    BY <1>1, <1>2, <1>4
  <2>2. Tail(q) \in Seq(Packet) /\ \A i \in DOMAIN Tail(q) : \E j \in DOMAIN q : Tail(q)[i] = q[j]
    BY <1>2, <1>4, HeadOfQueue DEF NewsTypeOK
  <2>3. /\ task'[Sweep].pc = task[Sweep].pc /\ task'[Sweep].mod = task[Sweep].mod
        /\ task'[Sweep].ch = task[Sweep].ch /\ task'[Sweep].queue = Tail(q)
    BY <1>3, <1>4, <2>1
  <2>4. task'[Sweep].queue \in Seq(Packet) /\ Loses(task'[Sweep].queue, task[Sweep].queue)
    BY <1>4, <2>2, <2>3 DEF Loses
  <2> QED
    BY <2>3, <2>4 DEF SweepGoesOn, Waiting
<1>5. CASE t # Sweep
  BY <1>1, <1>2, <1>5, OthersMove DEF Tasks
<1> QED
  BY <1>4, <1>5

\* A step that sends no request and shows nothing.
LEMMA QuietKeeps ==
  ASSUME BusInv, NewsInv, UNCHANGED <<world, state, shown, recent>>, UNCHANGED now \/ Advance,
         SweepGoesOn, UNCHANGED pos \/ ~Waiting(Sweep)'
  PROVE  NewsInv'
<1>1. RecentOK'
  BY RecentPast DEF NewsInv
<1>2. NewsTypeOK'
  BY DEF NewsInv, NewsTypeOK, SweepGoesOn, world
<1>3. SweepAsks'
  BY DEF NewsInv, SweepAsks, SweepGoesOn
<1>4. \A k \in Keys : NewsOK(k)'
  BY QuietNews DEF NewsInv, SweepGoesOn
<1> QED
  BY <1>1, <1>2, <1>3, <1>4 DEF NewsInv

\* A step of a task that sends a request.
LEMMA RequestKeeps ==
  ASSUME BusInv, NewsInv, NEW m \in Modules, NEW c \in Channels, NEW a \in Actions,
         Transmit(m, Request(c, a)), UNCHANGED <<state, shown, recent>>, Advance,
         task'[Sweep].queue \in Seq(Packet), Loses(task'[Sweep].queue, task[Sweep].queue),
         SweepAsks'
  PROVE  NewsInv'
<1>1. RecentOK'
  BY RecentPast DEF NewsInv
<1>2. \A k \in Keys : NewsOK(k)' /\ silent' \in [Keys -> Int]
  BY TransmitNews DEF NewsInv, BusInv
<1>3. silent' \in [Keys -> Int]
  <2>1. <<m, c>> \in Keys
    BY DEF Keys
  <2> QED
    BY <1>2, <2>1
<1>4. NewsTypeOK'
  BY <1>3 DEF NewsInv, NewsTypeOK
<1> QED
  BY <1>1, <1>2, <1>4 DEF NewsInv

\* The sweep has its answer.
LEMMA SweepSeedsNews ==
  ASSUME BusInv, NewsInv, SweepSeeds
  PROVE  NewsInv'
<1> DEFINE w == task[Sweep].queue
           p == Head(w)
           x == SweepKeys[pos]
<1>1. /\ w # <<>> /\ p.src = task[Sweep].mod /\ p.kind = "status" /\ p.ch = task[Sweep].ch
      /\ pos \in 1 .. Len(SweepKeys) /\ x = <<task[Sweep].mod, task[Sweep].ch>>
  BY DEF SweepSeeds, Matches, Match, Expected, Taken, NewsInv, SweepAsks
<1>2. x \in Keys /\ Speaks(p, x)
  BY <1>1, SweepAssumption DEF Speaks
<1>3. w \in Seq(Packet) /\ 1 \in DOMAIN w /\ p = w[1] /\ p \in Packet /\ p.version \in Nat
  <2>1. w \in Seq(Packet)
    BY DEF NewsInv, NewsTypeOK
  <2> QED
    BY <1>1, <2>1, HeadOfQueue DEF Packet
<1>4. /\ state' = [state EXCEPT ![x] = p.val]
      /\ shown' = [shown EXCEPT ![x] = p.version]
      /\ silent' = [silent EXCEPT ![x] =
           IF p.version < shown[x] THEN Larger(@, shown[x])
           ELSE IF p.version >= @ THEN -1 ELSE @]
      /\ UNCHANGED <<now, phys, net, version, recent>>
      /\ Finish(Sweep, "none", <<>>)
  BY DEF SweepSeeds, Seed, Taken, bus
<1>5. SweepGoesOn /\ ~Waiting(Sweep)'
  <2>1. Sweep \in Tasks
    BY DEF Tasks
  <2> QED
    BY <1>4, <2>1, FinishSweeps DEF BusInv, NewsInv
<1>6. \A k \in Keys : shown[k] \in Nat /\ silent[k] \in Int /\ version[k] \in Nat
  BY DEF NewsInv, NewsTypeOK, BusInv, BusTypeOK
<1>7. shown' \in [Keys -> Nat]
  BY <1>3, <1>4 DEF NewsInv, NewsTypeOK
<1>8. silent' \in [Keys -> Int]
  <2> DEFINE i == IF p.version < shown[x] THEN Larger(silent[x], shown[x])
                  ELSE IF p.version >= silent[x] THEN -1 ELSE silent[x]
  <2>1. shown[x] \in Nat /\ silent[x] \in Int
    BY <1>2, <1>6
  <2>2. i \in Int
    BY <2>1 DEF Larger
  <2>3. silent' = [silent EXCEPT ![x] = i]
    BY <1>4
  <2> HIDE DEF i
  <2> QED
    BY <2>2, <2>3 DEF NewsInv, NewsTypeOK
<1> HIDE DEF p, w, x
<1>9. ASSUME NEW k \in Keys PROVE NewsOK(k)'
  <2>1. /\ Reports(net[k[1]], w, k, shown[k], version[k], phys[k]) /\ shown[k] <= version[k]
        /\ shown[k] = version[k] => state[k] = phys[k] \/ (version[k] = 0 /\ state[k] = "unseen")
        /\ silent[k] < version[k] => shown[k] = version[k] \/ UnderWay(net[k[1]], k, version[k])
    BY DEF NewsInv, NewsOK, w
  <2>2. Reports(net[k[1]], task'[Sweep].queue, k, shown[k], version[k], phys[k])
    BY <1>5, <2>1, SweepLoses, Zenon DEF SweepGoesOn, w
  <2>3. CASE k # x
    <3>1. state'[k] = state[k]
      BY <1>4, <2>3 DEF BusInv, BusTypeOK
    <3>2. shown'[k] = shown[k] /\ silent'[k] = silent[k]
      BY <1>4, <2>3 DEF NewsInv, NewsTypeOK
    <3> QED
      BY <1>4, <2>1, <2>2, <3>1, <3>2 DEF NewsOK
  <2>4. CASE k = x
    <3>1. state'[k] = p.val
      BY <1>4, <2>4 DEF BusInv, BusTypeOK
    <3>2. shown'[k] = p.version
      BY <1>4, <2>4 DEF NewsInv, NewsTypeOK
    <3>3. silent'[k] = IF p.version < shown[k] THEN Larger(silent[k], shown[k])
                       ELSE IF p.version >= silent[k] THEN -1 ELSE silent[k]
      BY <1>4, <2>4 DEF NewsInv, NewsTypeOK
    <3>4. Truthful(p, version[k], phys[k])
      BY <1>2, <1>3, <2>1, <2>4 DEF Reports
    <3>5. /\ p.version <= version[k] /\ p.val \in Values
          /\ p.version = version[k] => p.val = phys[k]
      BY <1>1, <3>4 DEF Truthful, Values
    <3>6. Reports(net[k[1]], task'[Sweep].queue, k, p.version, version[k], phys[k])
      <4>1. \A i \in DOMAIN net[k[1]] : Speaks(net[k[1]][i], k) => p.version <= net[k[1]][i].version
        BY <1>2, <1>3, <2>1, <2>4 DEF Reports
      <4> QED
        BY <2>2, <4>1, Zenon DEF Reports
    <3>7. silent'[k] < version[k] => p.version = version[k] \/ UnderWay(net[k[1]], k, version[k])
      <4> SUFFICES ASSUME silent'[k] < version[k], p.version # version[k]
                   PROVE  UnderWay(net[k[1]], k, version[k])
        OBVIOUS
      <4>1. silent[k] < version[k] /\ shown[k] # version[k]
        BY <1>3, <1>6, <2>1, <3>3, <3>5 DEF Larger
      <4> QED
        BY <2>1, <4>1
    <3> QED
      BY <1>4, <3>1, <3>2, <3>5, <3>6, <3>7 DEF NewsOK
  <2> QED
    BY <2>3, <2>4
<1>10. RecentOK'
  BY <1>4, RecentPast DEF NewsInv
<1>11. NewsTypeOK' /\ SweepAsks'
  BY <1>5, <1>7, <1>8 DEF NewsTypeOK, SweepGoesOn, SweepAsks
<1> QED
  BY <1>9, <1>10, <1>11 DEF NewsInv

\* At first nothing is known and nothing is under way.
LEMMA NewsInit == Init => NewsInv
<1> SUFFICES ASSUME Init PROVE NewsInv
  OBVIOUS
<1>1. Sweep \in Tasks
  BY DEF Tasks
<1>2. task[Sweep].pc = "idle" /\ task[Sweep].queue = <<>>
  BY <1>1 DEF Init, NoTask
<1>3. RecentOK
  BY DEF Init, RecentOK
<1>4. NewsTypeOK
  <2>1. shown \in [Keys -> Nat]
    BY DEF Init
  <2>2. -1 \in Int /\ silent = [k \in Keys |-> -1]
    BY DEF Init
  <2>3. silent \in [Keys -> Int]
    BY <2>2
  <2> QED
    BY <1>2, <2>1, <2>3, NothingLeft DEF NewsTypeOK
<1>5. ASSUME NEW k \in Keys PROVE NewsOK(k)
  <2>1. net[k[1]] = <<>>
    BY DEF Init, Keys
  <2>2. Reports(net[k[1]], task[Sweep].queue, k, shown[k], version[k], phys[k])
    BY <1>2, <2>1 DEF Reports
  <2>3. shown[k] = 0 /\ version[k] = 0 /\ state[k] = "unseen"
    BY DEF Init
  <2> QED
    BY <2>2, <2>3 DEF NewsOK
<1> QED
  BY <1>2, <1>3, <1>4, <1>5 DEF NewsInv, SweepAsks, Waiting

\* A command is sent.
LEMMA CommandNews ==
  ASSUME BusInv, NewsInv, NEW t \in Commands, NEW o \in Orders, Command(t, o[1], o[2], o[3])
  PROVE  NewsInv'
<1>1. t \in Tasks /\ t # Sweep
  BY TasksAssumption DEF Tasks
<1>2. PICK A : task \in [Tasks -> Locals(A)]
  BY DEF BusInv, BusTypeOK
<1>3. \E v : task' = [task EXCEPT ![t] = v]
  BY DEF Command
<1>4. task'[Sweep] = task[Sweep]
  BY <1>1, <1>2, <1>3 DEF Tasks
<1>5. SweepGoesOn
  BY <1>4, OthersMove DEF BusInv, NewsInv
<1>6. /\ Advance /\ Transmit(o[1], Request(o[2], o[3]))
      /\ UNCHANGED <<state, shown, recent, pos>>
  BY DEF Command, registry, bus
<1>7. SweepAsks'
  BY <1>5, <1>6 DEF NewsInv, SweepAsks, SweepGoesOn
<1>8. o[1] \in Modules /\ o[2] \in Channels /\ o[3] \in Actions
  BY OrdersAssumption DEF Keys, Actions
<1> QED
  BY <1>5, <1>6, <1>7, <1>8, RequestKeeps DEF SweepGoesOn

\* A raw send is sent.
LEMMA RawSendNews ==
  ASSUME BusInv, NewsInv, NEW r \in RawSends, NEW p \in Probes, RawSend(r, p[1], p[2], p[3])
  PROVE  NewsInv'
<1>1. r \in Tasks /\ r # Sweep
  BY TasksAssumption DEF Tasks
<1>2. PICK A : task \in [Tasks -> Locals(A)]
  BY DEF BusInv, BusTypeOK
<1>3. \E v : task' = [task EXCEPT ![r] = v]
  BY DEF RawSend
<1>4. task'[Sweep] = task[Sweep]
  BY <1>1, <1>2, <1>3 DEF Tasks
<1>5. SweepGoesOn
  BY <1>4, OthersMove DEF BusInv, NewsInv
<1>6. /\ Advance /\ Transmit(p[1], Request(p[2], p[3]))
      /\ UNCHANGED <<state, shown, recent, pos>>
  BY DEF RawSend, registry
<1>7. SweepAsks'
  BY <1>5, <1>6 DEF NewsInv, SweepAsks, SweepGoesOn
<1>8. p[1] \in Modules /\ p[2] \in Channels /\ p[3] \in Actions
  BY ProbesAssumption DEF Keys, Actions
<1> QED
  BY <1>5, <1>6, <1>7, <1>8, RequestKeeps DEF SweepGoesOn

\* The sweep asks for a channel.
LEMMA SweepQueryNews ==
  ASSUME BusInv, NewsInv, SweepQuery
  PROVE  NewsInv'
<1> DEFINE m == SweepKeys[pos][1]
           c == SweepKeys[pos][2]
           v == StartWait(Sweep, m, c, now + 1, Timeout)
<1>1. pos \in 1 .. Len(SweepKeys)
  BY SweepAssumption DEF SweepQuery, Sweeping, BusInv, BusTypeOK
<1>2. m \in Modules /\ c \in Channels /\ SweepKeys[pos] = <<m, c>> /\ "QUERY" \in Actions
  BY <1>1, SweepAssumption DEF Keys, Actions
<1>3. /\ Advance /\ Transmit(m, Request(c, "QUERY"))
      /\ task' = [task EXCEPT ![Sweep] = v]
      /\ UNCHANGED <<state, shown, recent, pos>>
  BY DEF SweepQuery, registry, bus
<1>4. v.mod = m /\ v.ch = c /\ v.queue = <<>>
  BY NothingEarlier, TimeoutAssumption DEF NewsInv
<1> HIDE DEF v, m, c
<1>5. task'[Sweep] = v
  <2>1. PICK A : task \in [Tasks -> Locals(A)]
    BY DEF BusInv, BusTypeOK
  <2> QED
    BY <1>3, <2>1 DEF Tasks
<1>6. SweepAsks'
  BY <1>1, <1>2, <1>3, <1>4, <1>5 DEF SweepAsks
<1>7. task'[Sweep].queue \in Seq(Packet) /\ Loses(task'[Sweep].queue, task[Sweep].queue)
  BY <1>4, <1>5, NothingLeft
<1> QED
  BY <1>2, <1>3, <1>6, <1>7, RequestKeeps

\* A step of a task that only takes from its queue, or ends.
LEMMA TaskNews ==
  ASSUME BusInv, NewsInv, UNCHANGED <<now, world, bus, registry, pos>>,
         NEW t \in Tasks, t # Sweep,
         (\E result, got : Finish(t, result, got)) \/ (\E v : task' = [task EXCEPT ![t] = v])
  PROVE  NewsInv'
<1>1. SweepGoesOn
  <2>1. CASE \E result, got : Finish(t, result, got)
    BY <2>1, FinishSweeps DEF BusInv, NewsInv
  <2>2. CASE \E v : task' = [task EXCEPT ![t] = v]
    <3>1. PICK A : task \in [Tasks -> Locals(A)]
      BY DEF BusInv, BusTypeOK
    <3>2. task'[Sweep] = task[Sweep]
      BY <2>2, <3>1 DEF Tasks
    <3> QED
      BY <3>2, OthersMove DEF BusInv, NewsInv
  <2> QED
    BY <2>1, <2>2
<1> QED
  BY <1>1, QuietKeeps DEF world, bus, registry

\* Every step of a raw send.
LEMMA RawStepNews ==
  ASSUME BusInv, NewsInv, NEW r \in RawSends, RawStep(r)
  PROVE  NewsInv'
<1>1. r \in Tasks /\ r # Sweep
  BY TasksAssumption DEF Tasks
<1>2. CASE \E p \in Probes : RawSend(r, p[1], p[2], p[3])
  BY <1>2, RawSendNews
<1>3. PICK A : task \in [Tasks -> Locals(A)]
  BY DEF BusInv, BusTypeOK
<1>4. CASE \E p \in Probes : RawSendFails(r, p[1])
  <2>1. \E v : task' = [task EXCEPT ![r] = v]
    BY <1>4 DEF RawSendFails
  <2>2. task'[Sweep] = task[Sweep]
    BY <1>1, <1>3, <2>1 DEF Tasks
  <2>3. SweepGoesOn
    BY <2>2, OthersMove DEF BusInv, NewsInv
  <2> QED
    BY <1>4, <2>3, QuietKeeps DEF RawSendFails, registry
<1>5. CASE RawSendRefused(r)
  <2>1. \E v : task' = [task EXCEPT ![r] = v]
    BY <1>5 DEF RawSendRefused
  <2> QED
    BY <1>1, <1>5, <2>1, TaskNews DEF RawSendRefused
<1>6. CASE RawCollect(r)
  <2>1. (\E result, got : Finish(r, result, got)) \/ (\E v : task' = [task EXCEPT ![r] = v])
    BY <1>6 DEF RawCollect
  <2> QED
    BY <1>1, <1>6, <2>1, TaskNews DEF RawCollect
<1>7. CASE RawWindowOver(r)
  BY <1>1, <1>7, TaskNews DEF RawWindowOver
<1> QED
  BY <1>2, <1>4, <1>5, <1>6, <1>7 DEF RawStep

\* Every step of the sweep.
LEMMA SweepNews ==
  ASSUME BusInv, NewsInv, SweepStep
  PROVE  NewsInv'
<1>1. Sweep \in Tasks
  BY DEF Tasks
<1>2. CASE SweepStart
  <2>1. task' = task /\ ~Waiting(Sweep)'
    BY <1>2 DEF SweepStart, Waiting
  <2>2. SweepGoesOn
    BY <2>1, OthersMove DEF BusInv, NewsInv
  <2> QED
    BY <1>2, <2>1, <2>2, QuietKeeps DEF SweepStart, bus, registry
<1>3. CASE SweepNoAnswer
  <2>1. SweepGoesOn /\ ~Waiting(Sweep)'
    BY <1>1, <1>3, FinishSweeps DEF SweepNoAnswer, BusInv, NewsInv
  <2> QED
    BY <1>3, <2>1, QuietKeeps DEF SweepNoAnswer, bus, registry
<1>4. CASE SweepEnd
  <2>1. ~Waiting(Sweep) /\ task' = task
    BY <1>4, SweepAssumption DEF SweepEnd, NewsInv, SweepAsks, BusInv, BusTypeOK
  <2>2. SweepGoesOn /\ ~Waiting(Sweep)'
    BY <2>1, OthersMove DEF BusInv, NewsInv, Waiting
  <2> QED
    BY <1>4, <2>2, QuietKeeps DEF SweepEnd, bus
<1> QED
  BY <1>2, <1>3, <1>4, SweepQueryNews, SweepSeedsNews DEF SweepStep

\* Every step of the bus.
LEMMA NewsStep == BusInv /\ NewsInv /\ [Next]_vars => NewsInv'
<1> SUFFICES ASSUME BusInv, NewsInv, [Next]_vars PROVE NewsInv'
  OBVIOUS
<1>1. ASSUME UNCHANGED <<world, bus, registry, task, pos>>, UNCHANGED now \/ Advance
      PROVE  NewsInv'
  <2>1. SweepGoesOn
    BY <1>1, OthersMove DEF BusInv, NewsInv
  <2> QED
    BY <1>1, <2>1, QuietKeeps DEF bus, registry
<1>2. CASE Tick
  BY <1>1, <1>2 DEF Tick
<1>3. ASSUME NEW m \in Modules, Receive(m) PROVE NewsInv'
  <2>1. RecentOK'
    BY <1>3, RecentStays DEF NewsInv
  <2>2. \A k \in Keys : NewsOK(k)'
    BY <1>3, ReceiveNews DEF NewsInv
  <2>3. NewsTypeOK' /\ SweepAsks'
    <3> DEFINE p == [Head(net[m]) EXCEPT !.ts = now + 1]
               ignore == Held(m, now + 1)
    <3>1. /\ net[m] # <<>> /\ HandlePacket(p, ignore)
          /\ task' = [t \in Tasks |->
               IF Waiting(t) THEN [task[t] EXCEPT !.queue = PushBounded(@, p, QueueMax)]
               ELSE task[t]]
          /\ UNCHANGED pos
      BY <1>3 DEF Receive
    <3>2. p \in Packet /\ ignore \in BOOLEAN
      BY <3>1, NextPacket DEF Held
    <3> HIDE DEF p, ignore
    <3>3. /\ task'[Sweep].queue \in Seq(Packet)
          /\ task'[Sweep].pc = task[Sweep].pc
          /\ task'[Sweep].mod = task[Sweep].mod /\ task'[Sweep].ch = task[Sweep].ch
      BY <3>1, <3>2, SweepHears DEF BusInv, NewsInv
    <3>4. shown' \in [Keys -> Nat] /\ silent' \in [Keys -> Int]
      BY <3>1, <3>2, PacketKeepsTypes DEF BusInv, NewsInv
    <3> QED
      BY <3>1, <3>3, <3>4 DEF NewsInv, NewsTypeOK, SweepAsks, Waiting
  <2> QED
    BY <2>1, <2>2, <2>3 DEF NewsInv
<1>4. CASE Poll
  <2>1. Advance /\ UNCHANGED <<recent, silent, shown, task, pos>>
    BY <1>4 DEF Poll, registry
  <2>2. RecentOK'
    BY <2>1, RecentPast DEF NewsInv
  <2>3. NewsTypeOK' /\ SweepAsks'
    BY <2>1 DEF NewsInv, NewsTypeOK, SweepAsks, Waiting
  <2> QED
    BY <1>4, <2>2, <2>3, PollNews DEF NewsInv, BusInv
<1>5. ASSUME NEW t \in Tasks, Skip(t) PROVE NewsInv'
  <2>1. SweepGoesOn
    BY <1>5, SkipSweeps DEF BusInv, NewsInv
  <2> QED
    BY <1>5, <2>1, QuietKeeps DEF Skip, bus, registry
<1>6. ASSUME NEW t \in Commands, CommandStep(t) PROVE NewsInv'
  <2>1. t \in Tasks /\ t # Sweep
    BY TasksAssumption DEF Tasks
  <2>2. CASE CommandConfirmed(t) \/ CommandUnconfirmed(t)
    <3>1. /\ UNCHANGED <<now, world, bus, registry, pos>>
          /\ \E result, got : Finish(t, result, got)
      BY <2>2 DEF CommandConfirmed, CommandUnconfirmed
    <3> QED
      BY <2>1, <3>1, TaskNews
  <2> QED
    BY <1>6, <2>2, CommandNews DEF CommandStep
<1>7. CASE UNCHANGED vars
  BY <1>1, <1>7 DEF vars
<1> QED
  BY <1>2, <1>3, <1>4, <1>5, <1>6, <1>7, RawStepNews, SweepNews DEF Next

LEMMA NewsAlways == Spec => []NewsInv
BY NewsInit, NewsStep, BusAlways, PTL DEF Spec

\* When no report of a module is under way, the registry shows the output as it is, or
\* is excused: no order of commands, reports, holds of raw sends and late answers to
\* the sweep leaves an old state (udp_bus.py _notify_listeners, handle_packet, seed_*).
THEOREM QuietBusIsInSync == Spec => []QuietInSync
<1>1. NewsInv => QuietInSync
  <2> SUFFICES ASSUME NewsInv, NEW k \in Keys, net[k[1]] = <<>>, silent[k] < version[k]
               PROVE  state[k] = phys[k] \/ (version[k] = 0 /\ state[k] = "unseen")
    BY DEF QuietInSync
  <2>1. NewsOK(k) /\ ~UnderWay(net[k[1]], k, version[k])
    BY DEF NewsInv, UnderWay
  <2> QED
    BY <2>1 DEF NewsOK
<1> QED
  BY <1>1, NewsAlways, PTL
=============================================================================
