------------------------- MODULE Reachability_proofs -------------------------
(***************************************************************************)
(* What ReachabilityTracker promises, proved for every set of modules,     *)
(* every reply window, every sample limit and every run of calls.          *)
(***************************************************************************)
EXTENDS Reachability, FiniteSetTheorems, TLAPS

\* A send the tracker may let go uncounted: a packet or a newer send came
\* inside its reply window.
Excused(m, s) ==
  \/ s \in heard[m]
  \/ \E t \in heard[m] \cup sent[m] : s < t /\ t <= s + Timeout

\* No timestamp of the history lies in the future.
HistoryIsPast ==
  \A m \in Modules : \A t \in heard[m] \cup sent[m] \cup lost[m] : t <= now

\* The pending send is the newest one, uncounted, and no packet came since.
PendingIsNewest ==
  \A m \in Modules : IsPending(timing[m]) =>
    /\ timing[m].pending \in sent[m] \ lost[m]
    /\ \A t \in heard[m] \cup sent[m] : t <= timing[m].pending

\* Every send is counted, pending or excused.
EverySendAccounted ==
  \A m \in Modules : \A s \in sent[m] :
    s \in lost[m] \/ timing[m].pending = s \/ Excused(m, s)

SamplesOK(s) ==
  /\ Len(s.samples) <= AvgSamples
  /\ \A i \in 1 .. Len(s.samples) : s.samples[i] <= Timeout

IInv ==
  /\ TypeOK
  /\ HistoryIsPast
  /\ PendingIsNewest
  /\ EverySendAccounted
  /\ MissedCountsSends
  /\ MissesAreReal

-----------------------------------------------------------------------------
\* The handlers return a well-formed record: the type of the three functions.
LEMMA HandlersAreTyped ==
  ASSUME NEW s \in Timing, NEW t \in Nat
  PROVE  /\ NoteSend(s, t) \in Timing
         /\ NoteReply(s, t) \in Timing
         /\ NoteTimeout(s, t) \in Timing
<1> USE TimeoutAssumption, AvgSamplesAssumption DEF NotPending
<1>1. NoteSend(s, t) \in Timing
  BY DEF NoteSend, Timing
<1>2. NoteTimeout(s, t) \in Timing
  BY DEF NoteTimeout, Timing
<1>3. NoteReply(s, t) \in Timing
  <2>1. ASSUME NEW x \in Nat PROVE PushSample(s.samples, x) \in Seq(Nat)
    BY <2>1 DEF PushSample, Timing
  <2>2. IsPending(s) /\ t >= s.pending => t - s.pending \in Nat
    BY DEF IsPending, Timing
  <2>3. NoteReply(s, t).samples \in Seq(Nat)
    BY <2>1, <2>2 DEF NoteReply, Timing
  <2>4. QED
    BY <2>3 DEF NoteReply, Timing
<1>4. QED
  BY <1>1, <1>2, <1>3

\* The history of counted sends follows the count: a handler's record either
\* keeps the count, or adds one for the pending send.
LEMMA HandlersCountThePending ==
  ASSUME NEW s \in Timing, NEW t \in Nat
  PROVE  \A r \in {NoteSend(s, t), NoteReply(s, t), NoteTimeout(s, t)} :
           \/ r.missed = s.missed
           \/ r.missed = s.missed + 1 /\ IsPending(s) /\ t - s.pending >= Timeout
              /\ r.pending # s.pending
<1> USE TimeoutAssumption DEF NotPending, Timing, IsPending, Overdue
<1>1. \/ NoteSend(s, t).missed = s.missed
      \/ NoteSend(s, t).missed = s.missed + 1 /\ IsPending(s)
         /\ t - s.pending >= Timeout /\ NoteSend(s, t).pending # s.pending
  BY DEF NoteSend
<1>2. \/ NoteReply(s, t).missed = s.missed
      \/ NoteReply(s, t).missed = s.missed + 1 /\ IsPending(s)
         /\ t - s.pending >= Timeout /\ NoteReply(s, t).pending # s.pending
  BY DEF NoteReply
<1>3. \/ NoteTimeout(s, t).missed = s.missed
      \/ NoteTimeout(s, t).missed = s.missed + 1 /\ IsPending(s)
         /\ t - s.pending >= Timeout /\ NoteTimeout(s, t).pending # s.pending
  BY DEF NoteTimeout
<1>4. QED
  BY <1>1, <1>2, <1>3

\* A call with a handler's record keeps the types.
LEMMA RecordIsTyped ==
  ASSUME TypeOK, NEW m \in Modules, NEW t \in Nat,
         NEW r \in {NoteSend(timing[m], t), NoteReply(timing[m], t),
                    NoteTimeout(timing[m], t)},
         Record(m, r)
  PROVE  timing' \in [Modules -> Timing] /\ lost' \in [Modules -> SUBSET Nat]
<1>1. timing[m] \in Timing
  BY DEF TypeOK
<1>2. r \in Timing
  BY <1>1, HandlersAreTyped
<1>3. r.missed # timing[m].missed => timing[m].pending \in Nat
  BY <1>1, HandlersCountThePending DEF IsPending, Timing
<1>4. lost' \in [Modules -> SUBSET Nat]
  BY <1>3 DEF Record, TypeOK
<1>5. QED
  BY <1>2, <1>4 DEF Record, TypeOK

\* Type correctness of the tracker's state and of its history.
THEOREM TypeCorrect == Spec => []TypeOK
<1>1. Init => TypeOK
  BY DEF Init, TypeOK, NewTiming, Timing
<1>2. TypeOK /\ [Next]_vars => TypeOK'
  <2> SUFFICES ASSUME TypeOK, [Next]_vars PROVE TypeOK'
    OBVIOUS
  <2>1. ASSUME NEW t \in Nat, NEW m \in Modules, Send(m, t) PROVE TypeOK'
    BY <2>1, RecordIsTyped DEF Send, TypeOK
  <2>2. ASSUME NEW t \in Nat, NEW m \in Modules, Reply(m, t) PROVE TypeOK'
    BY <2>2, RecordIsTyped DEF Reply, TypeOK
  <2>3. ASSUME NEW t \in Nat, NEW m \in Modules, CommandTimedOut(m, t)
        PROVE TypeOK'
    BY <2>3, RecordIsTyped DEF CommandTimedOut, TypeOK
  <2>4. ASSUME NEW t \in Nat, Elapse(t) PROVE TypeOK'
    BY <2>4 DEF Elapse, TypeOK
  <2>5. CASE UNCHANGED vars
    BY <2>5 DEF vars, TypeOK
  <2>6. QED
    BY <2>1, <2>2, <2>3, <2>4, <2>5 DEF Next, StepAt
<1>3. QED
  BY <1>1, <1>2, PTL DEF Spec

-----------------------------------------------------------------------------
\* One lemma per call: it preserves the accounting of sends.
LEMMA CountedSendIsReal ==
  ASSUME IInv, NEW m \in Modules, IsPending(timing[m]),
         NEW p, p = timing[m].pending,
         now' \in Nat, now' >= now, now' - p >= Timeout,
         sent[m] \subseteq sent'[m], heard[m] \subseteq heard'[m],
         \A t \in (sent'[m] \ sent[m]) \cup (heard'[m] \ heard[m]) : t = now'
  PROVE  PossiblyMissed(m, p)'
<1>1. p \in Nat /\ p \in sent[m]
  BY DEF IInv, TypeOK, Timing, IsPending, PendingIsNewest
<1>2. ASSUME NEW t \in heard'[m] \cup sent'[m]
      PROVE  ~(p < t /\ t < p + Timeout)
  BY <1>1, <1>2, TimeoutAssumption DEF IInv, PendingIsNewest, TypeOK, HistoryIsPast
<1>3. QED
  BY <1>1, <1>2, TimeoutAssumption DEF PossiblyMissed

LEMMA RealMissStaysReal ==
  ASSUME IInv, NEW m \in Modules, NEW s \in lost[m],
         now' \in Nat, now' >= now,
         sent[m] \subseteq sent'[m], heard[m] \subseteq heard'[m],
         \A t \in (sent'[m] \ sent[m]) \cup (heard'[m] \ heard[m]) : t = now'
  PROVE  PossiblyMissed(m, s)'
<1>1. PossiblyMissed(m, s) /\ s \in Nat /\ now \in Nat
  BY DEF IInv, MissesAreReal, TypeOK
<1>2. QED
  BY <1>1, TimeoutAssumption DEF PossiblyMissed

\* A recorded call keeps the count equal to the number of counted sends.
LEMMA RecordCounts ==
  ASSUME IInv, NEW m \in Modules, NEW t \in Nat,
         NEW r \in {NoteSend(timing[m], t), NoteReply(timing[m], t),
                    NoteTimeout(timing[m], t)},
         Record(m, r)
  PROVE  MissedCountsSends'
<1>1. timing[m] \in Timing /\ timing \in [Modules -> Timing]
      /\ lost \in [Modules -> SUBSET Nat]
  BY DEF IInv, TypeOK
<1>2. CASE r.missed = timing[m].missed
  BY <1>1, <1>2 DEF Record, IInv, MissedCountsSends
<1>3. CASE r.missed # timing[m].missed
  <2>1. r.missed = timing[m].missed + 1 /\ IsPending(timing[m])
    BY <1>1, <1>3, HandlersCountThePending
  <2>2. timing[m].pending \notin lost[m] /\ IsFiniteSet(lost[m])
        /\ timing[m].missed = Cardinality(lost[m])
    BY <2>1 DEF IInv, PendingIsNewest, MissedCountsSends
  <2>3. lost'[m] = lost[m] \cup {timing[m].pending}
        /\ \A n \in Modules \ {m} : lost'[n] = lost[n] /\ timing'[n] = timing[n]
    BY <1>1, <1>3 DEF Record
  <2>4. IsFiniteSet(lost'[m]) /\ Cardinality(lost'[m]) = Cardinality(lost[m]) + 1
    <3>1. \A S, x : IsFiniteSet(S) /\ x \notin S =>
            IsFiniteSet(S \cup {x}) /\ Cardinality(S \cup {x}) = Cardinality(S) + 1
      BY FS_AddElement
    <3>2. QED
      BY <2>2, <2>3, <3>1
  <2>5. timing'[m].missed = Cardinality(lost'[m])
    BY <1>1, <2>1, <2>2, <2>4 DEF Record
  <2>6. QED
    BY <2>3, <2>4, <2>5 DEF IInv, MissedCountsSends
<1>4. QED
  BY <1>2, <1>3

\* Only real misses are counted after a recorded call.
LEMMA RecordIsReal ==
  ASSUME IInv, NEW m \in Modules, NEW t \in Nat, t >= now, now' = t,
         NEW r \in {NoteSend(timing[m], t), NoteReply(timing[m], t),
                    NoteTimeout(timing[m], t)},
         Record(m, r),
         \A n \in Modules :
           /\ sent[n] \subseteq sent'[n] /\ heard[n] \subseteq heard'[n]
           /\ \A x \in (sent'[n] \ sent[n]) \cup (heard'[n] \ heard[n]) : x = t
  PROVE  MissesAreReal'
<1>1. timing[m] \in Timing /\ lost \in [Modules -> SUBSET Nat]
  BY DEF IInv, TypeOK
<1>2. SUFFICES ASSUME NEW n \in Modules, NEW s \in lost'[n]
               PROVE  PossiblyMissed(n, s)'
  BY DEF MissesAreReal
<1>3. CASE s \in lost[n]
  BY <1>3, RealMissStaysReal
<1>4. CASE s \notin lost[n]
  <2>1. n = m /\ s = timing[m].pending /\ r.missed # timing[m].missed
    BY <1>1, <1>4 DEF Record
  <2>2. IsPending(timing[m]) /\ t - timing[m].pending >= Timeout
    BY <1>1, <2>1, HandlersCountThePending
  <2>3. QED
    BY <2>1, <2>2, CountedSendIsReal
<1>5. QED
  BY <1>3, <1>4

\* What each handler does to the pending send.
LEMMA HandlersAndPending ==
  ASSUME NEW s \in Timing, NEW t \in Nat
  PROVE  /\ NoteSend(s, t).pending = t
         /\ IsPending(NoteReply(s, t)) => t < s.pending
         /\ IsPending(NoteTimeout(s, t)) => NoteTimeout(s, t) = s
BY TimeoutAssumption
   DEF NoteSend, NoteReply, NoteTimeout, IsPending, Overdue, NotPending, Timing

\* A pending send that stops being pending uncounted had its answer, or its
\* replacement, inside the window.
LEMMA UncountedMeansInTime ==
  ASSUME NEW s \in Timing, NEW t \in Nat, IsPending(s), t >= s.pending
  PROVE  /\ NoteSend(s, t).missed = s.missed => t - s.pending <= Timeout
         /\ NoteReply(s, t).missed = s.missed => t - s.pending <= Timeout
         /\ NoteTimeout(s, t).missed = s.missed => NoteTimeout(s, t) = s
BY TimeoutAssumption
   DEF NoteSend, NoteReply, NoteTimeout, IsPending, Overdue, NotPending, Timing

\* The three history invariants across a send.
LEMMA SendPreserves ==
  ASSUME IInv, NEW m \in Modules, NEW t \in Nat, Send(m, t)
  PROVE  HistoryIsPast' /\ PendingIsNewest' /\ EverySendAccounted'
<1> DEFINE r == NoteSend(timing[m], t)
<1>0. /\ timing \in [Modules -> Timing] /\ now \in Nat
      /\ sent \in [Modules -> SUBSET Nat] /\ heard \in [Modules -> SUBSET Nat]
      /\ lost \in [Modules -> SUBSET Nat]
  BY DEF IInv, TypeOK
<1>1. /\ t >= now /\ now' = t /\ heard' = heard
      /\ timing' = [timing EXCEPT ![m] = r]
      /\ sent' = [sent EXCEPT ![m] = @ \cup {t}]
      /\ lost' = IF r.missed = timing[m].missed THEN lost
                 ELSE [lost EXCEPT ![m] = @ \cup {timing[m].pending}]
  BY DEF Send, Record
<1>2. r.missed # timing[m].missed =>
        IsPending(timing[m]) /\ t - timing[m].pending >= Timeout
        /\ timing[m].pending \in sent[m]
  BY <1>0, HandlersCountThePending DEF IInv, PendingIsNewest
<1> HIDE DEF r
<1>3. HistoryIsPast'
  BY <1>0, <1>1, <1>2 DEF IInv, HistoryIsPast
<1>4. timing'[m].pending = t
  BY <1>0, <1>1, HandlersAndPending DEF r
<1>5. PendingIsNewest'
  <2> SUFFICES ASSUME NEW n \in Modules, IsPending(timing'[n])
               PROVE  /\ timing'[n].pending \in sent'[n] \ lost'[n]
                      /\ \A x \in heard'[n] \cup sent'[n] : x <= timing'[n].pending
    BY DEF PendingIsNewest, IsPending
  <2>1. CASE n # m
    BY <2>1, <1>0, <1>1 DEF IInv, PendingIsNewest, IsPending
  <2>2. CASE n = m
    <3>1. t \notin lost'[m]
      <4>1. t \notin lost[m]
        BY <1>0, <1>1, TimeoutAssumption DEF IInv, MissesAreReal, PossiblyMissed
      <4>2. r.missed # timing[m].missed => t # timing[m].pending
        BY <1>2, <1>0, TimeoutAssumption
      <4>3. QED
        BY <4>1, <4>2, <1>0, <1>1
    <3>2. QED
      BY <2>2, <3>1, <1>0, <1>1, <1>4 DEF IInv, HistoryIsPast
  <2>3. QED
    BY <2>1, <2>2
<1>6. EverySendAccounted'
  <2> SUFFICES ASSUME NEW n \in Modules, NEW s \in sent'[n]
               PROVE  s \in lost'[n] \/ timing'[n].pending = s \/ Excused(n, s)'
    BY DEF EverySendAccounted
  <2>0. /\ sent[n] \subseteq sent'[n] /\ lost[n] \subseteq lost'[n]
        /\ heard'[n] = heard[n]
    BY <1>0, <1>1
  <2>1. CASE s \notin sent[n]
    BY <2>1, <1>0, <1>1, <1>4
  <2>2. CASE s \in sent[n] /\ (s \in lost[n] \/ Excused(n, s))
    BY <2>2, <2>0 DEF Excused
  <2>3. CASE s \in sent[n] /\ s = timing[n].pending /\ n # m
    BY <2>3, <1>0, <1>1
  <2>4. CASE s \in sent[n] /\ s = timing[n].pending /\ n = m
    <3>1. s \in Nat /\ IsPending(timing[m]) /\ s <= t
      BY <2>4, <1>0, <1>1 DEF IsPending, NotPending, IInv, HistoryIsPast
    <3>2. CASE r.missed # timing[m].missed
      BY <3>2, <2>4, <1>0, <1>1
    <3>3. CASE r.missed = timing[m].missed
      <4>1. t - s <= Timeout
        BY <3>1, <3>3, <2>4, <1>0, UncountedMeansInTime DEF r
      <4>2. t \in sent'[m]
        BY <1>0, <1>1
      <4>3. QED
        BY <4>1, <4>2, <3>1, <2>4, <1>0, <1>4, TimeoutAssumption DEF Excused
    <3>4. QED
      BY <3>2, <3>3
  <2>5. QED
    BY <2>1, <2>2, <2>3, <2>4 DEF IInv, EverySendAccounted
<1>7. QED
  BY <1>3, <1>5, <1>6

\* The three history invariants across an inbound packet.
LEMMA ReplyPreserves ==
  ASSUME IInv, NEW m \in Modules, NEW t \in Nat, Reply(m, t)
  PROVE  HistoryIsPast' /\ PendingIsNewest' /\ EverySendAccounted'
<1> DEFINE r == NoteReply(timing[m], t)
<1>0. /\ timing \in [Modules -> Timing] /\ now \in Nat
      /\ sent \in [Modules -> SUBSET Nat] /\ heard \in [Modules -> SUBSET Nat]
      /\ lost \in [Modules -> SUBSET Nat]
  BY DEF IInv, TypeOK
<1>1. /\ t >= now /\ now' = t /\ sent' = sent
      /\ timing' = [timing EXCEPT ![m] = r]
      /\ heard' = [heard EXCEPT ![m] = @ \cup {t}]
      /\ lost' = IF r.missed = timing[m].missed THEN lost
                 ELSE [lost EXCEPT ![m] = @ \cup {timing[m].pending}]
  BY DEF Reply, Record
<1>2. r.missed # timing[m].missed =>
        IsPending(timing[m]) /\ timing[m].pending \in sent[m]
  BY <1>0, HandlersCountThePending DEF IInv, PendingIsNewest
<1>3. IsPending(timing[m]) => timing[m].pending <= now
  BY DEF IInv, PendingIsNewest, HistoryIsPast
<1>4. ~IsPending(r)
  BY <1>0, <1>1, <1>3, HandlersAndPending DEF IsPending, NotPending, Timing, NoteReply
<1> HIDE DEF r
<1>5. HistoryIsPast'
  BY <1>0, <1>1, <1>2 DEF IInv, HistoryIsPast
<1>6. PendingIsNewest'
  BY <1>0, <1>1, <1>4 DEF IInv, PendingIsNewest, IsPending
<1>7. EverySendAccounted'
  <2> SUFFICES ASSUME NEW n \in Modules, NEW s \in sent[n]
               PROVE  s \in lost'[n] \/ timing'[n].pending = s \/ Excused(n, s)'
    BY <1>1 DEF EverySendAccounted
  <2>0. lost[n] \subseteq lost'[n] /\ heard[n] \subseteq heard'[n]
    BY <1>0, <1>1
  <2>1. CASE s \in lost[n] \/ Excused(n, s)
    BY <2>1, <2>0, <1>1 DEF Excused
  <2>2. CASE s = timing[n].pending /\ n # m
    BY <2>2, <1>0, <1>1
  <2>3. CASE s = timing[n].pending /\ n = m
    <3>1. s \in Nat /\ IsPending(timing[m]) /\ s <= t
      BY <2>3, <1>0, <1>1 DEF IsPending, NotPending, IInv, HistoryIsPast
    <3>2. CASE r.missed # timing[m].missed
      BY <3>2, <2>3, <1>0, <1>1
    <3>3. CASE r.missed = timing[m].missed
      <4>1. t - s <= Timeout
        BY <3>1, <3>3, <2>3, <1>0, UncountedMeansInTime DEF r
      <4>2. t \in heard'[m]
        BY <1>0, <1>1
      <4>3. QED
        BY <4>1, <4>2, <3>1, <2>3, <1>0, TimeoutAssumption DEF Excused
    <3>4. QED
      BY <3>2, <3>3
  <2>4. QED
    BY <2>1, <2>2, <2>3 DEF IInv, EverySendAccounted
<1>8. QED
  BY <1>5, <1>6, <1>7

\* The three history invariants across the time-out of a command.
LEMMA TimedOutPreserves ==
  ASSUME IInv, NEW m \in Modules, NEW t \in Nat, CommandTimedOut(m, t)
  PROVE  HistoryIsPast' /\ PendingIsNewest' /\ EverySendAccounted'
<1> DEFINE r == NoteTimeout(timing[m], t)
<1>0. /\ timing \in [Modules -> Timing] /\ now \in Nat
      /\ sent \in [Modules -> SUBSET Nat] /\ heard \in [Modules -> SUBSET Nat]
      /\ lost \in [Modules -> SUBSET Nat]
  BY DEF IInv, TypeOK
<1>1. /\ t >= now /\ now' = t /\ sent' = sent /\ heard' = heard
      /\ timing' = [timing EXCEPT ![m] = r]
      /\ lost' = IF r.missed = timing[m].missed THEN lost
                 ELSE [lost EXCEPT ![m] = @ \cup {timing[m].pending}]
  BY DEF CommandTimedOut, Record
<1>2. r.missed # timing[m].missed =>
        IsPending(timing[m]) /\ timing[m].pending \in sent[m]
  BY <1>0, HandlersCountThePending DEF IInv, PendingIsNewest
<1>3. IsPending(r) => r = timing[m]
  BY <1>0, HandlersAndPending
<1>4. IsPending(timing[m]) /\ r.missed = timing[m].missed => r = timing[m]
  <2>1. IsPending(timing[m]) => t >= timing[m].pending
    BY <1>0, <1>1 DEF IInv, PendingIsNewest, HistoryIsPast
  <2>2. QED
    BY <1>0, <2>1, UncountedMeansInTime
<1> HIDE DEF r
<1>5. HistoryIsPast'
  BY <1>0, <1>1, <1>2 DEF IInv, HistoryIsPast
<1>6. PendingIsNewest'
  BY <1>0, <1>1, <1>3 DEF IInv, PendingIsNewest, IsPending
<1>7. EverySendAccounted'
  <2> SUFFICES ASSUME NEW n \in Modules, NEW s \in sent[n]
               PROVE  s \in lost'[n] \/ timing'[n].pending = s \/ Excused(n, s)'
    BY <1>1 DEF EverySendAccounted
  <2>1. CASE s \in lost[n] \/ Excused(n, s)
    BY <2>1, <1>0, <1>1 DEF Excused
  <2>2. CASE s = timing[n].pending
    BY <2>2, <1>0, <1>1, <1>4 DEF IsPending, NotPending
  <2>3. QED
    BY <2>1, <2>2 DEF IInv, EverySendAccounted
<1>8. QED
  BY <1>5, <1>6, <1>7

\* Every step preserves the inductive invariant, the types aside.
LEMMA StepPreserves ==
  ASSUME IInv, TypeOK', [Next]_vars
  PROVE  IInv'
<1>0. now \in Nat
  BY DEF IInv, TypeOK
<1>1. ASSUME NEW t \in Nat, NEW m \in Modules, Send(m, t) PROVE IInv'
  <2>1. t >= now /\ now' = t /\ Record(m, NoteSend(timing[m], t))
        /\ heard' = heard /\ sent' = [sent EXCEPT ![m] = @ \cup {t}]
    BY <1>1 DEF Send
  <2>2. \A n \in Modules :
          /\ sent[n] \subseteq sent'[n] /\ heard[n] \subseteq heard'[n]
          /\ \A x \in (sent'[n] \ sent[n]) \cup (heard'[n] \ heard[n]) : x = t
    BY <2>1 DEF IInv, TypeOK
  <2>3. QED
    BY <1>1, <2>1, <2>2, SendPreserves, RecordCounts, RecordIsReal DEF IInv
<1>2. ASSUME NEW t \in Nat, NEW m \in Modules, Reply(m, t) PROVE IInv'
  <2>1. t >= now /\ now' = t /\ Record(m, NoteReply(timing[m], t))
        /\ sent' = sent /\ heard' = [heard EXCEPT ![m] = @ \cup {t}]
    BY <1>2 DEF Reply
  <2>2. \A n \in Modules :
          /\ sent[n] \subseteq sent'[n] /\ heard[n] \subseteq heard'[n]
          /\ \A x \in (sent'[n] \ sent[n]) \cup (heard'[n] \ heard[n]) : x = t
    BY <2>1 DEF IInv, TypeOK
  <2>3. QED
    BY <1>2, <2>1, <2>2, ReplyPreserves, RecordCounts, RecordIsReal DEF IInv
<1>3. ASSUME NEW t \in Nat, NEW m \in Modules, CommandTimedOut(m, t) PROVE IInv'
  <2>1. t >= now /\ now' = t /\ Record(m, NoteTimeout(timing[m], t))
        /\ sent' = sent /\ heard' = heard
    BY <1>3 DEF CommandTimedOut
  <2>2. QED
    BY <1>3, <2>1, TimedOutPreserves, RecordCounts, RecordIsReal DEF IInv
<1>4. ASSUME NEW t \in Nat, Elapse(t) PROVE IInv'
  BY <1>4, <1>0, TimeoutAssumption
     DEF Elapse, IInv, TypeOK, HistoryIsPast, PendingIsNewest, EverySendAccounted,
         Excused, MissedCountsSends, MissesAreReal, PossiblyMissed
<1>5. CASE UNCHANGED vars
  BY <1>5 DEF vars, IInv, TypeOK, HistoryIsPast, PendingIsNewest,
         EverySendAccounted, Excused, MissedCountsSends, MissesAreReal, PossiblyMissed
<1>6. QED
  BY <1>1, <1>2, <1>3, <1>4, <1>5 DEF Next, StepAt

LEMMA InitEstablishes == Init => IInv
<1> SUFFICES ASSUME Init PROVE IInv
  OBVIOUS
<1>1. TypeOK
  BY DEF Init, TypeOK, NewTiming, Timing
<1>2. MissedCountsSends
  BY FS_EmptySet DEF Init, MissedCountsSends, NewTiming
<1>3. QED
  BY <1>1, <1>2 DEF Init, IInv, HistoryIsPast, PendingIsNewest, IsPending,
     EverySendAccounted, MissesAreReal, NewTiming

LEMMA Inductive == Spec => []IInv
<1>1. TypeOK /\ TypeOK' /\ IInv /\ [Next]_vars => IInv'
  BY StepPreserves
<1>2. QED
  BY InitEstablishes, <1>1, TypeCorrect, PTL DEF Spec

\* missed_replies is the number of different sends that were counted, and
\* every one of them is a real miss: no answered, replaced or open send.
THEOREM MissesAreExact == Spec => [](MissedCountsSends /\ MissesAreReal)
<1>1. IInv => MissedCountsSends /\ MissesAreReal
  BY DEF IInv
<1>2. QED
  BY <1>1, Inductive, PTL

\* The tracker forgets no miss: a send with neither packet nor newer send in
\* its window is counted or still pending.
THEOREM NoMissIsForgotten == Spec => []NoMissForgotten
<1>1. IInv => NoMissForgotten
  BY DEF IInv, EverySendAccounted, Excused, NoMissForgotten, ClearlyMissed
<1>2. QED
  BY <1>1, Inductive, PTL

-----------------------------------------------------------------------------
\* A handler keeps every sample inside the reply window, and the list short.
LEMMA PushKeepsWindow ==
  ASSUME NEW q \in Seq(Nat), Len(q) <= AvgSamples,
         \A i \in 1 .. Len(q) : q[i] <= Timeout,
         NEW x \in Nat, x <= Timeout
  PROVE  /\ Len(PushSample(q, x)) <= AvgSamples
         /\ \A i \in 1 .. Len(PushSample(q, x)) : PushSample(q, x)[i] <= Timeout
<1> USE AvgSamplesAssumption, TimeoutAssumption
<1>1. CASE Len(q) < AvgSamples
  BY <1>1 DEF PushSample
<1>2. CASE Len(q) >= AvgSamples
  <2>1. q # <<>> /\ PushSample(q, x) = Append(Tail(q), x)
    BY <1>2 DEF PushSample
  <2>2. Tail(q) \in Seq(Nat) /\ Len(Tail(q)) = Len(q) - 1
        /\ \A i \in 1 .. Len(Tail(q)) : Tail(q)[i] = q[i + 1]
    BY <2>1
  <2>3. \A i \in 1 .. Len(Tail(q)) : Tail(q)[i] <= Timeout
    BY <2>2
  <2>4. ASSUME NEW u \in Seq(Nat), Len(u) < AvgSamples,
               \A i \in 1 .. Len(u) : u[i] <= Timeout
        PROVE  /\ Len(Append(u, x)) <= AvgSamples
               /\ \A i \in 1 .. Len(Append(u, x)) : Append(u, x)[i] <= Timeout
    BY <2>4
  <2>5. Len(Tail(q)) < AvgSamples
    BY <1>2, <2>2
  <2>6. QED
    BY <2>1, <2>2, <2>3, <2>4, <2>5
<1>3. QED
  BY <1>1, <1>2

LEMMA HandlersKeepWindow ==
  ASSUME NEW s \in Timing, SamplesOK(s), NEW t \in Nat
  PROVE  \A r \in {NoteSend(s, t), NoteReply(s, t), NoteTimeout(s, t)} : SamplesOK(r)
<1>1. NoteSend(s, t).samples = s.samples /\ NoteTimeout(s, t).samples = s.samples
  BY DEF NoteSend, NoteTimeout
<1>2. \/ NoteReply(s, t).samples = s.samples
      \/ /\ NoteReply(s, t).samples = PushSample(s.samples, t - s.pending)
         /\ t - s.pending \in Nat /\ t - s.pending <= Timeout
  BY TimeoutAssumption DEF NoteReply, Overdue, IsPending, NotPending, Timing
<1>3. SamplesOK(NoteReply(s, t))
  BY <1>2, PushKeepsWindow DEF SamplesOK, Timing
<1>4. QED
  BY <1>1, <1>3 DEF SamplesOK

\* Every response time that enters the average is at most the reply window.
THEOREM SamplesStayInWindow == Spec => []SamplesInWindow
<1> DEFINE SInv == \A m \in Modules : SamplesOK(timing[m])
<1>1. Init => SInv
  BY AvgSamplesAssumption DEF Init, NewTiming, SamplesOK
<1>2. TypeOK /\ SInv /\ [Next]_vars => SInv'
  <2> SUFFICES ASSUME TypeOK, SInv, [Next]_vars PROVE SInv'
    OBVIOUS
  <2>1. ASSUME NEW t \in Nat, NEW m \in Modules,
               NEW r \in {NoteSend(timing[m], t), NoteReply(timing[m], t),
                          NoteTimeout(timing[m], t)},
               timing' = [timing EXCEPT ![m] = r]
        PROVE  SInv'
    <3>1. timing[m] \in Timing /\ timing \in [Modules -> Timing] /\ SamplesOK(r)
      BY HandlersKeepWindow DEF TypeOK
    <3>2. QED
      BY <2>1, <3>1 DEF SamplesOK
  <2>2. CASE timing' = timing
    BY <2>2 DEF SamplesOK
  <2>3. \/ timing' = timing
        \/ \E t \in Nat, m \in Modules :
             \E r \in {NoteSend(timing[m], t), NoteReply(timing[m], t),
                       NoteTimeout(timing[m], t)} :
               timing' = [timing EXCEPT ![m] = r]
    BY DEF Next, StepAt, vars, Send, Reply, CommandTimedOut, Elapse, Record
  <2>4. QED
    BY <2>1, <2>2, <2>3
<1>3. SInv => SamplesInWindow
  BY DEF SamplesOK, SamplesInWindow
<1>4. QED
  BY <1>1, <1>2, <1>3, TypeCorrect, PTL DEF Spec
=============================================================================
