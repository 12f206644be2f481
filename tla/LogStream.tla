----------------------------- MODULE LogStream ------------------------------
(***************************************************************************)
(* The live logs of the remote debugging option (gateway/log_stream.py): a *)
(* buffer of the last lines, a bounded queue for every WebSocket client    *)
(* that subscribed, and temporary levels of the root logger.               *)
(*                                                                         *)
(* A line is its number and its level.  Lines come from any thread, but    *)
(* reach the stream one by one on the loop, in the order they were logged. *)
(* A step is what the loop runs between two suspension points; every send  *)
(* to a client is one, and takes as long as the client wants.  The         *)
(* handler of a client takes one message at a time.                        *)
(*                                                                         *)
(* Not here: text and redaction of a line, and requests after the stop.    *)
(***************************************************************************)
EXTENDS Integers, Sequences, FiniteSets, FiniteSetsExt

CONSTANTS
  RemoteDebugging, \* the add-on option
  Clients,      \* WebSocket clients
  Rest,         \* REST level requests, each with an owner of its own
  Levels,       \* numbers of the levels: lower is more verbose
  Baseline,     \* the level from configuration
  Ttls,         \* the ttls that are asked for
  MaxTtl,       \* MAX_TTL_S
  RateLimit,    \* RATE_LIMIT
  RateWindow,   \* RATE_WINDOW_S
  BufferSize,   \* BUFFER_SIZE
  QueueSize,    \* QUEUE_SIZE
  Lag,          \* bound on how late a timer runs
  MaxLines      \* bound of the model: lines logged

Owners == Clients \cup Rest

ASSUME OptionAssumption == RemoteDebugging \in BOOLEAN
ASSUME LevelsAssumption == Levels \subseteq Nat \ {0} /\ Baseline \in Levels
ASSUME TtlsAssumption == Ttls \subseteq Nat /\ MaxTtl \in Nat
ASSUME RateAssumption == {RateLimit, RateWindow} \subseteq Nat \ {0}
ASSUME SizesAssumption == BufferSize \in Nat /\ QueueSize \in Nat \ {0}
ASSUME LagAssumption == Lag \in Nat
ASSUME OwnersAssumption == Clients \cap Rest = {}

VARIABLES
  buffer,     \* _buffer
  sub,        \* _subs: a record for every client, see NoSub
  root,       \* level of the root logger
  saved,      \* _saved_level, or None
  level,      \* _requests: the level an owner requested, or None
  timers,     \* armed timers of an owner: the times left
  rate,       \* _rates: the ages of the level changes of the last window
  stopped,    \* detach was called
  lines,      \* history: number of lines logged
  promise     \* history: what an owner was told and did not take back

delivery == <<buffer, sub, lines>>
levels == <<root, saved, level, timers, rate, promise>>
vars == <<delivery, levels, stopped>>

None == 0
Over == -1 - Lag

\* phase: "replay" inside subscribe, "ready" when the drain task waits for a
\* line or for the client to take one, "telling" when it waits for the client
\* to take log_dropped, with the next line in hand.  The last four fields are
\* history: lines offered, lines delivered, lines told as dropped, last line.
NoSub == [phase |-> "none", min |-> None, replay |-> <<>>, queue |-> <<>>,
          dropped |-> 0, hand |-> <<>>, offered |-> 0, got |-> 0, told |-> 0, last |-> 0]

NoPromise == [level |-> None, left |-> Over]

Init ==
  /\ buffer = <<>>
  /\ sub = [c \in Clients |-> NoSub]
  /\ root = Baseline
  /\ saved = None
  /\ level = [o \in Owners |-> None]
  /\ timers = [o \in Owners |-> {}]
  /\ rate = [o \in Owners |-> <<>>]
  /\ stopped = FALSE
  /\ lines = 0
  /\ promise = [o \in Owners |-> NoPromise]

-----------------------------------------------------------------------------
(***************************************************************************)
(* Lines                                                                   *)
(***************************************************************************)
Subscribed(c) == sub[c].phase # "none"

\* The handler of a client waits for its next message.
Waits(c) == sub[c].phase # "replay"

\* _on_entry for one subscriber: queue.put_nowait, or one more dropped.
Offer(s, line) ==
  IF s.phase = "none" \/ line.level < s.min THEN s
  ELSE IF Len(s.queue) < QueueSize
  THEN [s EXCEPT !.offered = @ + 1, !.queue = Append(@, line)]
  ELSE [s EXCEPT !.offered = @ + 1, !.dropped = @ + 1]

KeepLast(q, n) == SubSeq(q, IF Len(q) > n THEN Len(q) - n + 1 ELSE 1, Len(q))

\* The root logger lets it through to the handler, which forwards it.
Forwarded(l) == ~stopped /\ l >= root

Line(l) ==
  /\ Forwarded(l) /\ lines < MaxLines
  /\ lines' = lines + 1
  /\ LET line == [n |-> lines + 1, level |-> l] IN
     /\ buffer' = KeepLast(Append(buffer, line), BufferSize)
     /\ sub' = [c \in Clients |-> Offer(sub[c], line)]
  /\ UNCHANGED <<levels, stopped>>

\* The n-th of the numbers in S.
Nth(S, n) == CHOOSE i \in S : Cardinality({j \in S : j <= i}) = n

\* Replay_NewestFirst and the other definitions with such a suffix are faulty
\* variants of the one after them: a property must fail with one in its place.
Replay_NewestFirst(min) ==
  LET kept == {i \in DOMAIN buffer : buffer[i].level >= min}
  IN [n \in 1 .. Cardinality(kept) |-> buffer[Nth(kept, 1 + Cardinality(kept) - n)]]

\* The lines of the buffer that a new subscriber gets first, in their order.
Replay(min) ==
  LET kept == {i \in DOMAIN buffer : buffer[i].level >= min}
  IN [n \in 1 .. Cardinality(kept) |-> buffer[Nth(kept, n)]]

\* subscribe up to its first send; it replaces a subscription of this client.
Subscribe(c, min) ==
  /\ ~stopped /\ Waits(c)
  /\ sub' = [sub EXCEPT ![c] = [NoSub EXCEPT !.phase = "replay", !.min = min,
               !.replay = Replay(min), !.offered = Len(Replay(min))]]
  /\ UNCHANGED <<buffer, lines, levels, stopped>>

Got(s, line) == [s EXCEPT !.got = @ + 1, !.last = line.n]

\* One line of the replay, or logs_subscribed and the start of the drain task.
SendReplay(c) ==
  /\ sub[c].phase = "replay"
  /\ LET s == sub[c] IN
     sub' = [sub EXCEPT ![c] =
       IF s.replay = <<>> THEN [s EXCEPT !.phase = "ready"]
       ELSE [Got(s, Head(s.replay)) EXCEPT !.replay = Tail(s.replay)]]
  /\ UNCHANGED <<buffer, lines, levels, stopped>>

\* _drain: the next line; dropped lines are told before it.
Drain(c) ==
  /\ sub[c].phase = "ready" /\ sub[c].queue # <<>>
  /\ LET s == sub[c]
         line == Head(s.queue)
     IN sub' = [sub EXCEPT ![c] =
          IF s.dropped = 0 THEN [Got(s, line) EXCEPT !.queue = Tail(@)]
          ELSE [s EXCEPT !.phase = "telling", !.hand = <<line>>, !.queue = Tail(@),
                         !.told = @ + s.dropped, !.dropped = 0]]
  /\ UNCHANGED <<buffer, lines, levels, stopped>>

SendHand_Resets(c) ==
  /\ sub[c].phase = "telling"
  /\ sub' = [sub EXCEPT ![c] = [Got(@, @.hand[1]) EXCEPT !.phase = "ready", !.hand = <<>>,
                                                         !.dropped = 0]]
  /\ UNCHANGED <<buffer, lines, levels, stopped>>

\* The client took log_dropped: the line in hand follows.
SendHand(c) ==
  /\ sub[c].phase = "telling"
  /\ sub' = [sub EXCEPT ![c] = [Got(@, @.hand[1]) EXCEPT !.phase = "ready", !.hand = <<>>]]
  /\ UNCHANGED <<buffer, lines, levels, stopped>>

\* A send fails: the subscription ends, a level request of the client stays.
SendFails(c) ==
  /\ Subscribed(c)
  /\ sub' = [sub EXCEPT ![c] = NoSub]
  /\ UNCHANGED <<buffer, lines, levels, stopped>>

-----------------------------------------------------------------------------
(***************************************************************************)
(* Levels                                                                  *)
(***************************************************************************)

\* _effective_level, of the requests r.
Effective(r) == Min({Baseline} \cup {r[o] : o \in {p \in Owners : r[p] # None}})

\* _apply_level
ApplyLevel(r) ==
  /\ saved' = IF saved = None THEN root ELSE saved
  /\ root' = Effective(r)

ReplaceRequest_KeepsTimer(o, l, ttl) ==
  /\ level' = [level EXCEPT ![o] = l]
  /\ timers' = [timers EXCEPT ![o] = @ \cup {ttl}]

\* _replace_request: the old request goes with its timer.
ReplaceRequest(o, l, ttl) ==
  /\ level' = [level EXCEPT ![o] = l]
  /\ timers' = [timers EXCEPT ![o] = {ttl}]

\* _parse_ttl
ValidTtl(ttl) == ttl \in 1 .. MaxTtl

\* All REST requests share one limit.
Bucket(o) == IF o \in Clients THEN o ELSE CHOOSE q \in Rest : TRUE

\* _consume_rate: a request over the limit is refused.
ConsumeRate(bucket) ==
  /\ Len(rate[bucket]) < RateLimit
  /\ rate' = [rate EXCEPT ![bucket] = Append(@, 0)]

\* set_client_level, set_rest_level
SetLevel(o, l, ttl) ==
  /\ ~stopped
  /\ IF o \in Clients THEN Waits(o) ELSE promise[o] = NoPromise
  /\ ValidTtl(ttl)
  /\ ConsumeRate(Bucket(o))
  /\ ReplaceRequest(o, l, ttl)
  /\ ApplyLevel(level')
  /\ promise' = [promise EXCEPT ![o] = [level |-> l, left |-> ttl]]
  /\ UNCHANGED <<delivery, stopped>>

\* _cancel_request
CancelRequest(o) ==
  /\ level' = [level EXCEPT ![o] = None]
  /\ timers' = [timers EXCEPT ![o] = {}]

\* _on_expire: a timer of the owner runs.
Expire(o) ==
  /\ \E t \in timers[o] : t <= 0 /\ timers' = [timers EXCEPT ![o] = @ \ {t}]
  /\ level' = [level EXCEPT ![o] = None]
  /\ IF level[o] = None THEN UNCHANGED <<root, saved>> ELSE ApplyLevel(level')
  /\ UNCHANGED <<delivery, rate, promise, stopped>>

Leave_KeepsLevel(c) ==
  /\ ~stopped /\ Waits(c)
  /\ sub' = [sub EXCEPT ![c] = NoSub]
  /\ CancelRequest(c)
  /\ promise' = [promise EXCEPT ![c] = NoPromise]
  /\ UNCHANGED <<buffer, lines, root, saved, rate, stopped>>

\* unsubscribe and disconnect
Leave(c) ==
  /\ ~stopped /\ Waits(c)
  /\ sub' = [sub EXCEPT ![c] = NoSub]
  /\ CancelRequest(c)
  /\ IF level[c] = None THEN UNCHANGED <<root, saved>> ELSE ApplyLevel(level')
  /\ promise' = [promise EXCEPT ![c] = NoPromise]
  /\ UNCHANGED <<buffer, lines, rate, stopped>>

\* detach
Detach ==
  /\ ~stopped
  /\ stopped' = TRUE
  /\ level' = [o \in Owners |-> None]
  /\ timers' = [o \in Owners |-> {}]
  /\ sub' = [c \in Clients |-> NoSub]
  /\ root' = IF saved = None THEN root ELSE saved
  /\ saved' = None
  /\ promise' = [o \in Owners |-> NoPromise]
  /\ UNCHANGED <<buffer, lines, rate>>

\* Time passes; no timer is more than Lag late.
Tick ==
  /\ ~stopped /\ \E o \in Owners : promise[o] # NoPromise \/ rate[o] # <<>>
  /\ \A o \in Owners : \A t \in timers[o] : t > -Lag
  /\ timers' = [o \in Owners |-> {t - 1 : t \in timers[o]}]
  /\ promise' = [o \in Owners |->
       IF promise[o].left = Over + 1 THEN NoPromise
       ELSE IF promise[o] = NoPromise THEN NoPromise
       ELSE [promise[o] EXCEPT !.left = @ - 1]]
  /\ rate' = [o \in Owners |->
       SelectSeq([i \in DOMAIN rate[o] |-> rate[o][i] + 1], LAMBDA age : age < RateWindow)]
  /\ UNCHANGED <<delivery, root, saved, level, stopped>>

-----------------------------------------------------------------------------
ChangesLevel(o) == \E l \in Levels, t \in Ttls : SetLevel(o, l, t)

\* _handle_log_ws and _post_debug_log_level: only while remote debugging is on.
ClientAsks(c) ==
  /\ RemoteDebugging
  /\ (\E l \in Levels : Subscribe(c, l)) \/ Leave(c) \/ ChangesLevel(c)

RestAsks(q) == RemoteDebugging /\ ChangesLevel(q)

\* The connection of a client ends.
Disconnect(c) == Leave(c)

ClientStep(c) ==
  ClientAsks(c) \/ SendReplay(c) \/ Drain(c) \/ SendHand(c) \/ SendFails(c) \/ Disconnect(c)

Next ==
  \/ \E l \in Levels : Line(l)
  \/ \E c \in Clients : ClientStep(c)
  \/ \E q \in Rest : RestAsks(q)
  \/ \E o \in Owners : Expire(o)
  \/ Detach
  \/ Tick

Spec == Init /\ [][Next]_vars

-----------------------------------------------------------------------------
\* What a subscriber was sent, is being sent and has in its queue is in the
\* order of the log, without a line twice: also where the replay ends and the
\* live lines begin, and when it subscribes again.
LinesInOrder ==
  \A c \in Clients :
    LET ahead == sub[c].replay \o sub[c].hand \o sub[c].queue IN
    /\ \A i \in DOMAIN ahead : sub[c].last < ahead[i].n
    /\ \A i, j \in DOMAIN ahead : i < j => ahead[i].n < ahead[j].n

\* No line disappears without a word: every line that a subscriber should get
\* was delivered, is on its way, was told as dropped or will be told, and there
\* is a line in the queue that the telling will come with.
DropsAreTold ==
  \A c \in Clients :
    LET s == sub[c] IN
    /\ s.offered = s.got + s.told + s.dropped
                     + Len(s.replay) + Len(s.hand) + Len(s.queue)
    /\ s.dropped > 0 => s.queue # <<>>

\* Who asked for a level gets lines at least that verbose for the whole ttl,
\* whatever others ask for, take back or let run out, and never less than
\* the level from configuration gives.
PromiseKept ==
  /\ \A o \in Owners : promise[o].left > 0 => root <= promise[o].level
  /\ root <= Baseline

\* When all requests were taken back or ran out, the level from configuration
\* is back, and also after the stop.
LevelComesBack == (\A o \in Owners : promise[o] = NoPromise) => root = Baseline
=============================================================================
