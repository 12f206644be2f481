----------------------------- MODULE RemoteDebug -----------------------------
(***************************************************************************)
(* What the remote debugging option adds to the field bus: every frame     *)
(* that UDPBus sends or receives goes to the WebSocket clients that        *)
(* subscribed (gateway/udp_frames.py), and clients send raw payloads under *)
(* two rate limits (gateway/raw_send.py).  FieldBus has the replies to a   *)
(* raw send, the hold of the module's status and what else the frames do.  *)
(*                                                                         *)
(* A frame is its number, in the order of the bus.  A step is what the     *)
(* loop runs between two suspension points; every send to a WebSocket      *)
(* client is one, and takes as long as the client wants.                   *)
(***************************************************************************)
EXTENDS RawRequest, Sequences, FiniteSets

CONSTANTS
  Clients,       \* WebSocket clients that look at frames
  Senders,       \* _client_label of those who send raw payloads
  Requests,      \* what they ask for, see RawRequest
  QueueSize,     \* QUEUE_SIZE
  ClientLimit,   \* _CLIENT_LIMIT
  GlobalLimit,   \* _GLOBAL_LIMIT
  RateWindow,    \* _CLIENT_WINDOW_S and _GLOBAL_WINDOW_S, the same
  MaxClients     \* _MAX_CLIENTS

ASSUME QueueSizeAssumption == QueueSize \in Nat \ {0}
ASSUME LimitsAssumption ==
  /\ {ClientLimit, GlobalLimit, RateWindow, MaxClients} \subseteq Nat \ {0}
  /\ GlobalLimit <= MaxClients

VARIABLES
  now,         \* the monotonic clock
  frames,      \* number of frames the bus sent or received
  attached,    \* _udp_frame_listener: the hub is a frame listener of the bus
  stage,       \* of the API: "serving", "closing", "closed"
  sub,         \* _subs: a record for every client, see NoSub
  busy,        \* _busy: a raw send collects its replies
  slots,       \* history: the raw sends that took a slot, in order
  hits,        \* _client_hits: a client's slots, as indices of slots
  globalHits   \* _global_hits

hub == <<frames, attached, stage, sub>>
rates == <<slots, hits, globalHits>>
raw == <<busy, rates>>
vars == <<now, hub, raw>>

\* phase: "asking" inside subscribe, "ready" when the drain task waits for a
\* frame or for the client to take one, "telling" when it waits for the client
\* to take udp_frame_dropped, with the next frame in hand.  The last four
\* fields are history: frames before it, delivered, told as dropped, the last.
NoSub == [phase |-> "none", queue |-> <<>>, dropped |-> 0, hand |-> <<>>,
          from |-> 0, got |-> 0, told |-> 0, last |-> 0]

Init ==
  /\ now = 0
  /\ frames = 0
  /\ attached = FALSE
  /\ stage = "serving"
  /\ sub = [c \in Clients |-> NoSub]
  /\ busy = FALSE
  /\ slots = <<>>
  /\ hits = <<>>
  /\ globalHits = {}

-----------------------------------------------------------------------------
(***************************************************************************)
(* Frames                                                                  *)
(***************************************************************************)

\* publish for one subscriber: queue.put_nowait, or one more dropped.
Offer(s, n) ==
  IF s.phase = "none" THEN s
  ELSE IF Len(s.queue) < QueueSize THEN [s EXCEPT !.queue = Append(@, n)]
  ELSE [s EXCEPT !.dropped = @ + 1]

\* _emit_frame: the hub gets the frame once a client has asked for frames.
Emit ==
  /\ stage # "closed"
  /\ frames' = frames + 1
  /\ sub' = IF attached THEN [c \in Clients |-> Offer(sub[c], frames')] ELSE sub
  /\ UNCHANGED <<attached, stage>>

\* A command, a keepalive or a query is sent, or a packet comes in.
Traffic == Emit /\ UNCHANGED <<now, raw>>

-----------------------------------------------------------------------------
(***************************************************************************)
(* Subscribers                                                             *)
(***************************************************************************)
Asking == [NoSub EXCEPT !.phase = "asking", !.from = frames, !.last = frames]

\* Subscribe_AttachesLate and the other definitions with such a suffix are faulty
\* variants of the one after them: a property must fail with one in its place.
Subscribe_AttachesLate(c) ==
  /\ Enabled /\ stage # "closed" /\ sub[c].phase # "asking"
  /\ attached' = (sub[c].phase # "none")
  /\ sub' = [sub EXCEPT ![c] = Asking]
  /\ UNCHANGED <<frames, stage, now, raw>>

\* _handle_udp_frame_ws and subscribe up to its send; it replaces a
\* subscription of this client and what was in its queue.  A client that is
\* not closed yet may still ask when the stop has begun.
Subscribe(c) ==
  /\ Enabled /\ stage # "closed" /\ sub[c].phase # "asking"
  /\ attached' = TRUE
  /\ sub' = [sub EXCEPT ![c] = Asking]
  /\ UNCHANGED <<frames, stage, now, raw>>

\* The client took udp_frames_subscribed: the drain task starts.
Subscribed(c) ==
  /\ sub[c].phase = "asking"
  /\ sub' = [sub EXCEPT ![c].phase = "ready"]
  /\ UNCHANGED <<frames, attached, stage, now, raw>>

Got(s, n) == [s EXCEPT !.got = @ + 1, !.last = n]

\* _drain: the next frame; dropped frames are told before it.
Drain(c) ==
  /\ sub[c].phase = "ready" /\ sub[c].queue # <<>>
  /\ LET s == sub[c]
         n == Head(s.queue)
     IN sub' = [sub EXCEPT ![c] =
          IF s.dropped = 0 THEN [Got(s, n) EXCEPT !.queue = Tail(@)]
          ELSE [s EXCEPT !.phase = "telling", !.hand = <<n>>, !.queue = Tail(@),
                         !.told = @ + s.dropped, !.dropped = 0]]
  /\ UNCHANGED <<frames, attached, stage, now, raw>>

\* The client took udp_frame_dropped: the frame in hand follows.
SendHand(c) ==
  /\ sub[c].phase = "telling"
  /\ sub' = [sub EXCEPT ![c] = [Got(@, @.hand[1]) EXCEPT !.phase = "ready", !.hand = <<>>]]
  /\ UNCHANGED <<frames, attached, stage, now, raw>>

\* unsubscribe, disconnect, or a send that fails.  The hub stays a listener.
Leave(c) ==
  /\ sub[c].phase # "none"
  /\ sub' = [sub EXCEPT ![c] = NoSub]
  /\ UNCHANGED <<frames, attached, stage, now, raw>>

-----------------------------------------------------------------------------
(***************************************************************************)
(* Raw sends                                                               *)
(***************************************************************************)

\* _prune, of slots S at time t.
Recent_TooShort(S, t) == {i \in S : t - slots[i].t < RateWindow - 1}
Recent(S, t) == {i \in S : t - slots[i].t < RateWindow}

\* A client is in the table from the first send that the global limit lets
\* through.
HitsOf(c) == IF c \in DOMAIN hits THEN hits[c] ELSE {}

\* The clients of the table h whose last hit is the oldest, where no hit at all
\* is older than any.
Older(h, c, d) == \A i \in h[c] : \E j \in h[d] : slots[i].t <= slots[j].t
Oldest(h) == {c \in DOMAIN h : \A d \in DOMAIN h : Older(h, c, d)}

\* A table over its limit loses its oldest client, but never the one that sends.
Evicted(h, c) ==
  IF Cardinality(DOMAIN h) <= MaxClients THEN {h}
  ELSE {IF d = c THEN h ELSE [e \in DOMAIN h \ {d} |-> h[e]] : d \in Oldest(h)}

HasSlot(c, t) ==
  /\ Cardinality(Recent(globalHits, t)) < GlobalLimit
  /\ Cardinality(Recent(HitsOf(c), t)) < ClientLimit

\* _take_slot
TakeSlot(c, t) ==
  LET i == Len(slots) + 1
      pruned == [d \in DOMAIN hits \cup {c} |-> IF d = c THEN Recent(HitsOf(c), t) ELSE hits[d]]
  IN /\ HasSlot(c, t)
     /\ \E h \in Evicted(pruned, c) : hits' = [h EXCEPT ![c] = @ \cup {i}]
     /\ globalHits' = Recent(globalHits, t) \cup {i}
     /\ slots' = Append(slots, [client |-> c, t |-> t])

\* A request that is refused for what it asks for changes nothing.
Asked == \E r \in Requests : MayRawSend(r)

\* RawSend.send up to its wait: the tracker is not told of the send.
RawSend(c, t) ==
  /\ Asked /\ ~busy /\ t >= now
  /\ now' = t
  /\ TakeSlot(c, t)
  /\ busy' = TRUE
  /\ Emit

\* A refusal of the client's own limit leaves its pruned hits in the table, one
\* of the global limit only prunes the global hits.
RawSendRefused(c, t) ==
  /\ Asked /\ ~busy /\ t >= now
  /\ now' = t
  /\ ~HasSlot(c, t)
  /\ globalHits' = Recent(globalHits, t)
  /\ hits' = IF Cardinality(globalHits') >= GlobalLimit THEN hits
             ELSE [d \in DOMAIN hits \cup {c} |->
                     IF d = c THEN Recent(HitsOf(c), t) ELSE hits[d]]
  /\ UNCHANGED <<hub, busy, slots>>

\* collect_replies ends: its window is over or it has enough replies.
RawSendDone ==
  /\ busy
  /\ busy' = FALSE
  /\ UNCHANGED <<now, hub, rates>>

-----------------------------------------------------------------------------
(***************************************************************************)
(* The stop                                                                *)
(***************************************************************************)

\* GatewayAPI.stop: every subscription ends and the hub leaves the bus.
StopApi ==
  /\ stage = "serving"
  /\ stage' = "closing"
  /\ attached' = FALSE
  /\ sub' = [c \in Clients |-> NoSub]
  /\ UNCHANGED <<frames, now, raw>>

\* UDPBus.stop, when the clients are closed and their handlers have ended.
StopBus ==
  /\ stage = "closing" /\ ~busy
  /\ \A c \in Clients : sub[c].phase = "none"
  /\ stage' = "closed"
  /\ UNCHANGED <<frames, attached, sub, now, raw>>

Elapse(t) ==
  /\ t > now
  /\ now' = t
  /\ UNCHANGED <<hub, raw>>

StepAt(t) == (\E c \in Senders : RawSend(c, t) \/ RawSendRefused(c, t)) \/ Elapse(t)

ClientStep(c) == Subscribe(c) \/ Subscribed(c) \/ Drain(c) \/ SendHand(c) \/ Leave(c)

Next ==
  \/ Traffic
  \/ \E t \in Nat : StepAt(t)
  \/ \E c \in Clients : ClientStep(c)
  \/ RawSendDone \/ StopApi \/ StopBus

Spec == Init /\ [][Next]_vars

-----------------------------------------------------------------------------
\* No frame disappears without a word: every frame since a client asked was
\* delivered, in order and once, is on its way, was told as dropped or will be
\* told, with a frame in the queue that the telling will come with.
FramesAreTold ==
  \A c \in Clients : sub[c].phase # "none" =>
    LET s == sub[c]
        ahead == s.hand \o s.queue
    IN /\ frames - s.from = s.got + s.told + s.dropped + Len(ahead)
       /\ s.dropped > 0 => s.queue # <<>>
       /\ \A i \in DOMAIN ahead : s.last < ahead[i]
       /\ \A i, j \in DOMAIN ahead : i < j => ahead[i] < ahead[j]

\* The slots of a window that ends at t.
InWindow(t) == {i \in DOMAIN slots : slots[i].t <= t /\ t - slots[i].t < RateWindow}

\* docs/api/rest.md: so many raw sends per client and in total in any window,
\* although the table forgets clients, and however refused sends prune it.
LimitsHold ==
  \A t \in {slots[i].t : i \in DOMAIN slots} :
    /\ Cardinality(InWindow(t)) <= GlobalLimit
    /\ \A c \in Senders : Cardinality({i \in InWindow(t) : slots[i].client = c}) <= ClientLimit
=============================================================================
