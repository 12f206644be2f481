----------------------------- MODULE Northbound -----------------------------
(***************************************************************************)
(* What WebSocket clients are told (gateway/gateway_api.py).  Every change *)
(* starts a task that sends one message to all clients, one after the      *)
(* other; a client that connects gets a snapshot.  A send always writes to *)
(* the socket, and then may wait until a slow client has read: the task    *)
(* waits, and other tasks pass it.                                         *)
(*                                                                         *)
(* One active channel, one button that the installation may not know, and  *)
(* edits of devices.json in worker threads.  A step is what the loop runs  *)
(* between two suspension points.  A client is a connection, whose name is *)
(* used again when no task has the old one in its list.  What is written   *)
(* to a socket arrives in that order.                                      *)
(*                                                                         *)
(* Not here: gateway_status and other messages that change neither state   *)
(* nor configuration, inactive channels, requests that are refused, stop.  *)
(***************************************************************************)
EXTENDS Integers, Sequences, FiniteSets, SequencesExt

CONSTANTS
  Order,        \* the connections, as list(set) orders them
  MaxMessages,  \* bound of the model: messages sent to all, with those of edits
  MaxEdits      \* bound of the model: edits of devices.json

Clients == ToSet(Order)

ASSUME OrderAssumption == Order \in Seq(Clients) /\ IsInjective(Order)
ASSUME BoundsAssumption == MaxMessages \in Nat /\ MaxEdits \in Nat

VARIABLES
  state,      \* number of changes of the channel in the registry
  file,       \* devices.json: edits made, and whether it has the button
  config,     \* cfg.installation
  reloads,    \* edits written in a thread, whose handler has not gone on
  made,       \* messages made
  ready,      \* tasks the loop will run, first come first served
  waiting,    \* tasks that wait for a slow client
  clients,    \* _ws_clients
  open,       \* connections that are not closed
  view,       \* history: what a client shows
  missing,    \* history: messages made since a client came, and not sent to it
  stray,      \* history: clients told of a press of a learned button they do
              \* not know
  behind,     \* history: clients that came after a slow one in some task
  removed     \* history: messages made when the button was last removed

data == <<state, file, config, reloads>>
tasks == <<made, ready, waiting>>
sockets == <<clients, open>>
told == <<view, stray, behind>>
vars == <<data, tasks, sockets, told, missing, removed>>

Nobody == "nobody"
Initially == [edits |-> 0, button |-> FALSE]
NoView == [state |-> 0, config |-> Initially]

Init ==
  /\ state = 0 /\ file = Initially /\ config = Initially /\ reloads = 0
  /\ made = 0 /\ ready = <<>> /\ waiting = <<>>
  /\ clients = {} /\ open = {}
  /\ view = [c \in Clients |-> NoView]
  /\ missing = [c \in Clients |-> {}]
  /\ stray = {} /\ behind = {} /\ removed = 0

-----------------------------------------------------------------------------
(***************************************************************************)
(* Tasks                                                                   *)
(***************************************************************************)

\* Messages, with what they say of the registry and the installation.
Snapshot(n, cfg) == [id |-> n, kind |-> "snapshot", state |-> state, config |-> cfg]
StateChanged(n, s) == [id |-> n, kind |-> "state_changed", state |-> s]
DeviceAdded(n) == [id |-> n, kind |-> "device_added"]
ButtonEvent(n, known) == [id |-> n, kind |-> "button_event", known |-> known]

\* A task before its first step, when it takes the list of clients.
NewTask(msg) == [msg |-> msg, todo |-> <<>>, started |-> FALSE, at |-> Nobody, dead |-> {}]

\* create_task(_broadcast(msg)) for every message.
Tell(msgs) ==
  /\ made + reloads' + Len(msgs) <= MaxMessages
  /\ made' = made + Len(msgs)
  /\ ready' = ready \o [i \in DOMAIN msgs |-> NewTask(msgs[i])]
  /\ missing' = [c \in Clients |->
       IF c \in open THEN missing[c] \cup (made + 1 .. made') ELSE missing[c]]
  /\ UNCHANGED <<waiting, sockets, told>>

\* What a client shows after a message.
Shows(v, msg) ==
  CASE msg.kind = "snapshot" -> [state |-> msg.state, config |-> msg.config]
    [] msg.kind = "state_changed" -> [v EXCEPT !.state = msg.state]
    [] msg.kind = "device_added" -> [v EXCEPT !.config.button = TRUE]
    [] msg.kind = "button_event" -> v

Sent(msg, to) ==
  /\ view' = [c \in Clients |-> IF c \in to THEN Shows(view[c], msg) ELSE view[c]]
  /\ missing' = [c \in Clients |->
       IF c \in to THEN missing[c] \ {msg.id}
       ELSE IF c \in open /\ made' # made THEN missing[c] \cup {msg.id} ELSE missing[c]]
  /\ stray' = IF msg.kind = "button_event" /\ msg.known /\ msg.id > removed
              THEN stray \cup {c \in to : ~view[c].config.button} ELSE stray

\* The part of s at the indices S, in the same order.
Nth(S, n) == CHOOSE i \in S : Cardinality({j \in S : j <= i}) = n
Picked(s, S) == [n \in 1 .. Cardinality(S) |-> s[Nth(S, n)]]

\* list(self._ws_clients)
Listed == Picked(Order, {i \in DOMAIN Order : Order[i] \in clients})

\* A task of _broadcast runs: it ends, or waits at the stop-th client it has
\* left, which is slow.  Its buffer may have been full before, of log lines or of
\* messages that did not wait.  At the end it discards the clients it found closed.
Broadcast(task, others) ==
  LET todo == IF task.started THEN task.todo ELSE Listed
      dead(k) == task.dead \cup {todo[i] : i \in {j \in 1 .. k : todo[j] \notin open}}
      reached(k) == {todo[i] : i \in 1 .. k} \cap open
  IN \/ /\ Sent(task.msg, reached(Len(todo)))
        /\ waiting' = others
        /\ clients' = clients \ dead(Len(todo))
        /\ UNCHANGED behind
     \/ \E stop \in DOMAIN todo :
          LET rest == SubSeq(todo, stop + 1, Len(todo)) IN
          /\ todo[stop] \in open
          /\ Sent(task.msg, reached(stop))
          /\ waiting' = Append(others, [task EXCEPT !.started = TRUE, !.todo = rest,
                                          !.at = todo[stop], !.dead = dead(stop)])
          /\ behind' = behind \cup (ToSet(rest) \cap open)
          /\ UNCHANGED clients

\* The first task in line.
Run ==
  /\ ready # <<>>
  /\ ready' = Tail(ready)
  /\ UNCHANGED <<data, made, open, removed>>
  /\ Broadcast(Head(ready), waiting)

\* The tasks that wait for c can go on; the wait for a lost connection may raise.
Wake(c, lost) ==
  LET woken == Picked(waiting, {i \in DOMAIN waiting : waiting[i].at = c}) IN
  /\ \E raises \in SUBSET lost :
       ready' = ready \o [i \in DOMAIN woken |->
                           [woken[i] EXCEPT !.at = Nobody, !.dead = woken[i].dead \cup raises]]
  /\ waiting' = Picked(waiting, {i \in DOMAIN waiting : waiting[i].at # c})
  /\ UNCHANGED made

-----------------------------------------------------------------------------
(***************************************************************************)
(* Changes                                                                 *)
(***************************************************************************)

\* _on_state_changed
StateChanges ==
  /\ state' = state + 1
  /\ UNCHANGED <<file, config, reloads, removed>>
  /\ Tell(<<StateChanged(made + 1, state')>>)

\* A worker thread has written devices.json: a patch or a merge keeps the
\* button, an import or a reset does not.
Edit(keeps) ==
  /\ file.edits < MaxEdits /\ made + reloads < MaxMessages
  /\ file' = [edits |-> file.edits + 1, button |-> keeps /\ file.button]
  /\ reloads' = reloads + 1
  /\ UNCHANGED <<state, config, tasks, sockets, told, missing, removed>>

\* Reload_Early and the other definitions with such a suffix are faulty
\* variants of the one after them: a property must fail with one in its place.
Reload_Early ==
  /\ reloads > 0 /\ reloads' = reloads - 1
  /\ config' = file
  /\ removed' = IF config.button /\ ~file.button THEN made ELSE removed
  /\ Tell(<<Snapshot(made + 1, config)>>)
  /\ UNCHANGED <<state, file>>

\* The handler of the edit goes on: it loads the file and tells everyone.
Reload ==
  /\ reloads > 0 /\ reloads' = reloads - 1
  /\ config' = file
  /\ removed' = IF config.button /\ ~file.button THEN made ELSE removed
  /\ Tell(<<Snapshot(made + 1, file)>>)
  /\ UNCHANGED <<state, file>>

Learns(ok) == ~config.button /\ ok

\* _maybe_learn_button, up to the message
Learn(ok) ==
  /\ file' = IF Learns(ok) THEN [file EXCEPT !.button = TRUE] ELSE file
  /\ config' = IF Learns(ok) THEN file' ELSE config

Press_EventFirst(ok) ==
  /\ Learn(ok)
  /\ UNCHANGED <<state, reloads, removed>>
  /\ Tell(IF Learns(ok) THEN <<ButtonEvent(made + 1, TRUE), DeviceAdded(made + 2)>>
          ELSE <<ButtonEvent(made + 1, config.button)>>)

\* _on_button_event with _maybe_learn_button: an unknown button is written
\* to the file and told first, unless the file is locked or has no module.
Press(ok) ==
  /\ Learn(ok)
  /\ UNCHANGED <<state, reloads, removed>>
  /\ Tell(IF Learns(ok) THEN <<DeviceAdded(made + 1), ButtonEvent(made + 2, TRUE)>>
          ELSE <<ButtonEvent(made + 1, config.button)>>)

\* The metadata of modules was refreshed: a task with a snapshot.
Refreshed ==
  /\ UNCHANGED <<data, removed>>
  /\ Tell(<<Snapshot(made + 1, config)>>)

\* The end of a sweep awaits the broadcast of its snapshot: it starts at once,
\* before the tasks in line.
SnapshotNow ==
  /\ made + reloads < MaxMessages /\ made' = made + 1
  /\ Broadcast(NewTask(Snapshot(made + 1, config)), waiting)
  /\ UNCHANGED <<data, ready, open, removed>>

-----------------------------------------------------------------------------
(***************************************************************************)
(* Connections                                                             *)
(***************************************************************************)

\* No list has an old connection of this name.
Fresh(c) ==
  /\ c \notin open \cup clients
  /\ \A t \in ToSet(ready) \cup ToSet(waiting) : c \notin ToSet(t.todo) \cup {t.at} \cup t.dead

\* _ws_handler up to the snapshot
Connect(c) ==
  /\ Fresh(c)
  /\ clients' = clients \cup {c} /\ open' = open \cup {c}
  /\ view' = [view EXCEPT ![c] = Shows(@, Snapshot(0, config))]
  /\ UNCHANGED <<data, tasks, stray, behind, missing, removed>>

Slow(c) == \E t \in ToSet(waiting) : t.at = c

CatchesUp_Forgets(c) ==
  /\ Slow(c)
  /\ waiting' = Picked(waiting, {i \in DOMAIN waiting : waiting[i].at # c})
  /\ UNCHANGED <<data, made, ready, sockets, told, missing, removed>>

\* A slow client has read: what waited for it goes on.
CatchesUp(c) ==
  /\ Slow(c)
  /\ Wake(c, {})
  /\ UNCHANGED <<data, sockets, told, missing, removed>>

\* The connection ends, by the client, the network or a missing pong.
Closes(c) ==
  /\ c \in open
  /\ open' = open \ {c}
  /\ Wake(c, {c})
  /\ view' = [view EXCEPT ![c] = NoView]
  /\ missing' = [missing EXCEPT ![c] = {}]
  /\ stray' = stray \ {c} /\ behind' = behind \ {c}
  /\ UNCHANGED <<data, clients, removed>>

\* The end of _ws_handler.
Leaves(c) ==
  /\ c \in clients \ open
  /\ clients' = clients \ {c}
  /\ UNCHANGED <<data, tasks, open, told, missing, removed>>

-----------------------------------------------------------------------------
Change ==
  \/ StateChanges \/ Reload \/ Refreshed \/ SnapshotNow
  \/ \E keeps \in BOOLEAN : Edit(keeps)
  \/ \E ok \in BOOLEAN : Press(ok)

Connection(c) == Connect(c) \/ CatchesUp(c) \/ Closes(c) \/ Leaves(c)

Next == Run \/ Change \/ \E c \in Clients : Connection(c)

\* The loop runs what is ready; a slow client reads, or the heartbeat ends it.
Fairness ==
  /\ WF_vars(Run)
  /\ \A c \in Clients : WF_vars(CatchesUp(c) \/ (Slow(c) /\ Closes(c)))

Spec == Init /\ [][Next]_vars /\ Fairness

-----------------------------------------------------------------------------
\* When nothing is left to do, a client shows the registry and the file as
\* they are, whenever it connected: unless a task once waited for a slow client
\* before it came to this one, and newer messages passed it.
CurrentUnlessBehindSlow ==
  (ready = <<>> /\ waiting = <<>> /\ reloads = 0) =>
    \A c \in open \ behind : view[c] = [state |-> state, config |-> file]

\* A press of a button that was learned, and not removed since, comes to a client
\* that knows the button by then: no first press is lost, with the same exception.
AddedBeforeEvent == stray \subseteq behind

\* A client that stays connected is sent every message made since it came,
\* however slow others are (the bound ends the messages at some time).
EveryClientIsServed == \A c \in Clients : missing[c] # {} ~> missing[c] = {}
=====
