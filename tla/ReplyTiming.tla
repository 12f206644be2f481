----------------------------- MODULE ReplyTiming -----------------------------
(***************************************************************************)
(* The reply timing record that gateway/reachability.py keeps for every    *)
(* field module, and its three handlers as functions of the record and of  *)
(* the timestamp they are called with.  Wall-clock text, the rounding to   *)
(* milliseconds and the average are left out: a sample is the difference   *)
(* of two monotonic timestamps, in the clock's unit.                       *)
(***************************************************************************)
EXTENDS Integers, Sequences

CONSTANTS
  Timeout,     \* reply_timeout_ms, the reply window
  AvgSamples   \* _AVG_SAMPLES, how many response times are kept

ASSUME TimeoutAssumption == Timeout \in Nat \ {0}
ASSUME AvgSamplesAssumption == AvgSamples \in Nat \ {0}

NotPending == -1

Timing == [pending : Nat \cup {NotPending}, missed : Nat, samples : Seq(Nat)]

NewTiming == [pending |-> NotPending, missed |-> 0, samples |-> <<>>]

IsPending(s) == s.pending # NotPending

\* A send that is still unanswered and whose window closed before time t.
Overdue(s, t) == IsPending(s) /\ t - s.pending > Timeout

\* deque(maxlen=_AVG_SAMPLES): a new sample pushes the oldest one out.
PushSample(q, x) ==
  IF Len(q) < AvgSamples THEN Append(q, x) ELSE Append(Tail(q), x)

\* NoteSend_NoWindow and the other definitions with such a suffix are faulty
\* variants of the one after them: a property must fail with one in its place.
NoteSend_NoWindow(s, t) ==
  [pending |-> t,
   missed |-> IF IsPending(s) THEN s.missed + 1 ELSE s.missed,
   samples |-> s.samples]

NoteSend_Forgets(s, t) == [s EXCEPT !.pending = t]

NoteSend(s, t) ==
  [pending |-> t,
   missed |-> IF Overdue(s, t) THEN s.missed + 1 ELSE s.missed,
   samples |-> s.samples]

NoteReply(s, t) ==
  LET late == Overdue(s, t)
      paired == IsPending(s) /\ ~late /\ t >= s.pending
  IN [pending |-> IF late \/ paired THEN NotPending ELSE s.pending,
      missed |-> IF late THEN s.missed + 1 ELSE s.missed,
      samples |-> IF paired THEN PushSample(s.samples, t - s.pending)
                            ELSE s.samples]

NoteTimeout(s, t) ==
  IF IsPending(s) /\ t - s.pending >= Timeout
  THEN [pending |-> NotPending, missed |-> s.missed + 1, samples |-> s.samples]
  ELSE s
=============================================================================
