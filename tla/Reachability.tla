---------------------------- MODULE Reachability ----------------------------
(***************************************************************************)
(* ReachabilityTracker (gateway/reachability.py) under the calls the field *)
(* bus makes: note_send from UDPBus.send_command, note_reply from every    *)
(* inbound packet, note_timeout from a command whose reply window closed.  *)
(*                                                                         *)
(* The tracker has no clock of its own.  Every call brings a timestamp of  *)
(* the one monotonic clock of the one event loop, so calls come with       *)
(* timestamps that never decrease: `now' is the last one seen.             *)
(*                                                                         *)
(* sent, heard and lost are history variables: the timestamps of the sends *)
(* that expect a reply, of the packets that came in, and of the sends that *)
(* were counted as a missed reply.  No step reads them.                    *)
(***************************************************************************)
EXTENDS ReplyTiming, FiniteSets

CONSTANT Modules   \* the field modules' addresses

VARIABLES
  timing,   \* timing[m]: the record kept for module m
  now,      \* the last timestamp the tracker was called with
  sent,     \* history: sent[m], timestamps of the sends that expect a reply
  heard,    \* history: heard[m], timestamps of m's packets
  lost      \* history: lost[m], the sends counted in missed_replies

vars == <<timing, now, sent, heard, lost>>

Init ==
  /\ timing = [m \in Modules |-> NewTiming]
  /\ now = 0
  /\ sent = [m \in Modules |-> {}]
  /\ heard = [m \in Modules |-> {}]
  /\ lost = [m \in Modules |-> {}]

\* The handler's new record, and the history of the miss it counted, if any.
Record(m, s) ==
  /\ timing' = [timing EXCEPT ![m] = s]
  /\ lost' = IF s.missed = timing[m].missed THEN lost
             ELSE [lost EXCEPT ![m] = @ \cup {timing[m].pending}]

\* UDPBus.send_command(expect_reply=True) at time t.
Send(m, t) ==
  /\ t >= now
  /\ now' = t
  /\ Record(m, NoteSend(timing[m], t))
  /\ sent' = [sent EXCEPT ![m] = @ \cup {t}]
  /\ UNCHANGED heard

\* UDPBus._notify_listeners: a packet of m is handled at time t.
Reply(m, t) ==
  /\ t >= now
  /\ now' = t
  /\ Record(m, NoteReply(timing[m], t))
  /\ heard' = [heard EXCEPT ![m] = @ \cup {t}]
  /\ UNCHANGED sent

\* GatewayAPI._execute_command: a command to m saw no reply, at time t.
CommandTimedOut(m, t) ==
  /\ t >= now
  /\ now' = t
  /\ Record(m, NoteTimeout(timing[m], t))
  /\ UNCHANGED <<sent, heard>>

\* Time passes, or the bus does something the tracker does not see.
Elapse(t) ==
  /\ t > now
  /\ now' = t
  /\ UNCHANGED <<timing, sent, heard, lost>>

StepAt(t) ==
  \/ \E m \in Modules : Send(m, t) \/ Reply(m, t) \/ CommandTimedOut(m, t)
  \/ Elapse(t)

Next == \E t \in Nat : StepAt(t)

Spec == Init /\ [][Next]_vars

-----------------------------------------------------------------------------
\* The tracker's records and the history are of their types.
TypeOK ==
  /\ timing \in [Modules -> Timing]
  /\ now \in Nat
  /\ sent \in [Modules -> SUBSET Nat]
  /\ heard \in [Modules -> SUBSET Nat]
  /\ lost \in [Modules -> SUBSET Nat]

\* A send whose whole reply window is over, with no packet and no newer send
\* inside it: docs/api/rest.md calls it a missed reply.  The two forms differ
\* on the window's last instant, where the code's `>' and `>=' differ.
ClearlyMissed(m, s) ==
  /\ s \in sent[m]
  /\ now > s + Timeout
  /\ \A t \in heard[m] \cup sent[m] : ~(s < t /\ t <= s + Timeout)
  /\ s \notin heard[m]

PossiblyMissed(m, s) ==
  /\ s \in sent[m]
  /\ now >= s + Timeout
  /\ \A t \in heard[m] \cup sent[m] : ~(s < t /\ t < s + Timeout)

\* missed_replies counts sends, each at most once: it is the number of
\* different sends in the history `lost'.
MissedCountsSends ==
  \A m \in Modules : IsFiniteSet(lost[m]) /\ timing[m].missed = Cardinality(lost[m])

\* Only a real miss is counted: never a send that was answered in time, one
\* that was replaced by a newer send in time, or one whose window is open.
MissesAreReal == \A m \in Modules : \A s \in lost[m] : PossiblyMissed(m, s)

\* No miss is forgotten: a send that is clearly missed was counted, or is
\* the pending one and will be counted by the next send or packet.
NoMissForgotten ==
  \A m \in Modules : \A s \in sent[m] :
    ClearlyMissed(m, s) => s \in lost[m] \/ timing[m].pending = s

\* Every response time in the average lies inside the reply window, and the
\* average is over the last AvgSamples of them at most.
SamplesInWindow ==
  \A m \in Modules :
    /\ Len(timing[m].samples) <= AvgSamples
    /\ \A i \in 1 .. Len(timing[m].samples) : timing[m].samples[i] <= Timeout
=============================================================================
