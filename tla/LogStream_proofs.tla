--------------------------- MODULE LogStream_proofs ---------------------------
(***************************************************************************)
(* The temporary levels of the root logger and the lines that subscribers  *)
(* get, proved for every number of clients and requests, all levels, ttls  *)
(* and delays of timers, and all sizes of the buffer and the queues.       *)
(***************************************************************************)
EXTENDS LogStream, FiniteSetTheorems, WellFoundedInduction, TLAPS

Promise == [level : Levels \cup {None}, left : Int]

LevelsTypeOK ==
  /\ level \in [Owners -> Levels \cup {None}]
  /\ timers \in [Owners -> SUBSET Int]
  /\ promise \in [Owners -> Promise]

\* The root logger has the level that serves all requests, and the one from
\* configuration is what is put back.
RootServes ==
  /\ root = Effective(level)
  /\ saved = Baseline \/ (saved = None /\ root = Baseline)

\* A request that is there has one timer, and its owner was promised what the
\* timer has left; a promise without a request is over.
TimerOfRequest ==
  \A o \in Owners :
    IF level[o] = None THEN timers[o] = {} /\ promise[o].left <= 0
    ELSE /\ timers[o] = {promise[o].left}
         /\ promise[o].level = level[o]
         /\ promise[o].left >= -Lag

LevelsInv == LevelsTypeOK /\ RootServes /\ TimerOfRequest

-----------------------------------------------------------------------------
\* A set of numbers has a least one.
LEMMA LeastExists ==
  ASSUME NEW S \in SUBSET Nat, S # {}
  PROVE  Min(S) \in S /\ \A y \in S : Min(S) <= y
<1>1. OpToRel(<, Nat) = {p \in Nat \X Nat : p[1] < p[2]}
  BY Zenon DEF OpToRel
<1>2. IsWellFoundedOn({p \in Nat \X Nat : p[1] < p[2]}, Nat)
  BY <1>1, NatLessThanWellFounded, Zenon
<1>3. PICK x \in S : \A y \in S : ~ (<<y, x>> \in {p \in Nat \X Nat : p[1] < p[2]})
  BY <1>2, WFMin, Zenon
<1>4. ASSUME NEW y \in S PROVE x <= y
  <2>1. x \in Nat /\ y \in Nat
    OBVIOUS
  <2>2. y < x => <<y, x>> \in {p \in Nat \X Nat : p[1] < p[2]}
    BY <2>1
  <2>3. ~ (y < x)
    BY <1>3, <2>2, Zenon
  <2>4. QED
    BY <2>1, <2>3
<1>5. QED
  BY <1>4 DEF Min

\* The level that serves all requests r: one of them or the one from configuration,
\* and none is lower.
LEMMA EffectiveServes ==
  ASSUME NEW r \in [Owners -> Levels \cup {None}]
  PROVE  /\ Effective(r) \in Nat
         /\ Effective(r) <= Baseline
         /\ \A o \in Owners : r[o] # None => Effective(r) <= r[o]
         /\ (\A o \in Owners : r[o] = None) => Effective(r) = Baseline
<1> DEFINE asked == {r[o] : o \in {p \in Owners : r[p] # None}}
<1>1. asked \in SUBSET Nat
  BY LevelsAssumption DEF None
<1>2. {Baseline} \cup asked \in SUBSET Nat
  BY <1>1, LevelsAssumption
<1>3. /\ Effective(r) \in {Baseline} \cup asked
      /\ \A y \in {Baseline} \cup asked : Effective(r) <= y
  BY <1>2, LeastExists DEF Effective
<1>4. (\A o \in Owners : r[o] = None) => asked = {}
  OBVIOUS
<1>5. \A o \in Owners : r[o] # None => r[o] \in asked
  OBVIOUS
<1>6. QED
  BY <1>2, <1>3, <1>4, <1>5

\* After _apply_level the root logger serves the requests as they are then.
LEMMA ApplyServes ==
  ASSUME RootServes, LevelsTypeOK, ApplyLevel(level')
  PROVE  RootServes'
<1>1. root' = Effective(level)'
  BY DEF ApplyLevel, Effective
<1>2. saved' = Baseline
  BY LevelsAssumption DEF ApplyLevel, RootServes, None
<1>3. QED
  BY <1>1, <1>2 DEF RootServes

-----------------------------------------------------------------------------
LEMMA LevelsInit == Init => LevelsInv
<1> SUFFICES ASSUME Init PROVE LevelsInv
  OBVIOUS
<1>1. LevelsTypeOK
  BY LagAssumption DEF Init, LevelsTypeOK, Promise, NoPromise, Over, None
<1>2. RootServes
  BY <1>1, EffectiveServes DEF Init, LevelsTypeOK, RootServes
<1>3. TimerOfRequest
  BY LagAssumption DEF Init, TimerOfRequest, NoPromise, Over
<1>4. QED
  BY <1>1, <1>2, <1>3 DEF LevelsInv

\* A new request of o.
LEMMA SetLevelKeeps ==
  ASSUME LevelsInv, NEW o \in Owners, NEW l \in Levels, NEW ttl \in Ttls, SetLevel(o, l, ttl)
  PROVE  LevelsInv'
<1>1. /\ level' = [level EXCEPT ![o] = l]
      /\ timers' = [timers EXCEPT ![o] = {ttl}]
      /\ promise' = [promise EXCEPT ![o] = [level |-> l, left |-> ttl]]
      /\ ttl \in Nat /\ ttl >= 1
      /\ l \in Levels /\ l # None
  BY LevelsAssumption, TtlsAssumption DEF SetLevel, ReplaceRequest, ValidTtl, None
<1>2. LevelsTypeOK'
  BY <1>1 DEF LevelsInv, LevelsTypeOK, Promise
<1>3. RootServes'
  BY ApplyServes DEF LevelsInv, SetLevel
<1>4. TimerOfRequest'
  BY <1>1, LagAssumption DEF LevelsInv, LevelsTypeOK, TimerOfRequest
<1>5. QED
  BY <1>2, <1>3, <1>4 DEF LevelsInv

\* A timer runs out.
LEMMA ExpireKeeps ==
  ASSUME LevelsInv, NEW o \in Owners, Expire(o)
  PROVE  LevelsInv'
<1>1. PICK t \in timers[o] : t <= 0 /\ timers' = [timers EXCEPT ![o] = @ \ {t}]
  BY DEF Expire
<1>2. level[o] # None /\ timers[o] = {promise[o].left} /\ t = promise[o].left
  BY <1>1 DEF LevelsInv, TimerOfRequest
<1>3. /\ level' = [level EXCEPT ![o] = None]
      /\ timers' = [timers EXCEPT ![o] = {}]
      /\ promise' = promise
      /\ promise[o].left <= 0
  <2>1. timers[o] \ {t} = {}
    BY <1>2
  <2>2. QED
    BY <1>1, <1>2, <2>1 DEF Expire
<1>4. LevelsTypeOK'
  BY <1>3 DEF LevelsInv, LevelsTypeOK
<1>5. RootServes'
  BY <1>2, ApplyServes DEF LevelsInv, Expire
<1>6. TimerOfRequest'
  BY <1>3 DEF LevelsInv, LevelsTypeOK, TimerOfRequest
<1>7. QED
  BY <1>4, <1>5, <1>6 DEF LevelsInv

\* The client c takes its request back, or is gone.
LEMMA LeaveKeeps ==
  ASSUME LevelsInv, NEW c \in Clients, Leave(c)
  PROVE  LevelsInv'
<1>1. c \in Owners
  BY DEF Owners
<1>2. /\ level' = [level EXCEPT ![c] = None]
      /\ timers' = [timers EXCEPT ![c] = {}]
      /\ promise' = [promise EXCEPT ![c] = NoPromise]
  BY DEF Leave, CancelRequest
<1>3. NoPromise \in Promise /\ NoPromise.left <= 0
  BY LagAssumption DEF NoPromise, Promise, Over, None
<1>4. LevelsTypeOK'
  BY <1>1, <1>2, <1>3 DEF LevelsInv, LevelsTypeOK
<1>5. RootServes'
  <2>1. CASE level[c] = None
    <3>1. level' = level /\ UNCHANGED <<root, saved>>
      BY <1>2, <2>1 DEF LevelsInv, LevelsTypeOK, Leave
    <3>2. QED
      BY <3>1 DEF LevelsInv, RootServes, Effective
  <2>2. CASE level[c] # None
    BY <2>2, ApplyServes DEF LevelsInv, Leave
  <2>3. QED
    BY <2>1, <2>2
<1>6. TimerOfRequest'
  BY <1>1, <1>2, <1>3 DEF LevelsInv, LevelsTypeOK, TimerOfRequest
<1>7. QED
  BY <1>4, <1>5, <1>6 DEF LevelsInv

\* The stop.
LEMMA DetachKeeps ==
  ASSUME LevelsInv, Detach
  PROVE  LevelsInv'
<1>1. /\ level' = [o \in Owners |-> None]
      /\ timers' = [o \in Owners |-> {}]
      /\ promise' = [o \in Owners |-> NoPromise]
  BY DEF Detach
<1>2. NoPromise \in Promise /\ NoPromise.left <= 0
  BY LagAssumption DEF NoPromise, Promise, Over, None
<1>3. LevelsTypeOK'
  BY <1>1, <1>2 DEF LevelsTypeOK
<1>4. RootServes'
  <2>1. root' = Baseline /\ saved' = None
    BY LevelsAssumption DEF LevelsInv, RootServes, Detach, None
  <2>2. Effective(level') = Baseline
    BY <1>1, EffectiveServes
  <2>3. QED
    BY <2>1, <2>2 DEF RootServes, Effective
<1>5. TimerOfRequest'
  BY <1>1, <1>2 DEF TimerOfRequest
<1>6. QED
  BY <1>3, <1>4, <1>5 DEF LevelsInv

\* Time passes: a promise is forgotten only when its timer must have run.
LEMMA TickKeeps ==
  ASSUME LevelsInv, Tick
  PROVE  LevelsInv'
<1>1. /\ UNCHANGED <<root, saved, level>>
      /\ timers' = [o \in Owners |-> {t - 1 : t \in timers[o]}]
      /\ \A o \in Owners : \A t \in timers[o] : t > -Lag
  BY DEF Tick
<1>2. \A o \in Owners :
        promise'[o] = IF promise[o].left = Over + 1 THEN NoPromise
                      ELSE IF promise[o] = NoPromise THEN NoPromise
                      ELSE [promise[o] EXCEPT !.left = @ - 1]
  BY DEF Tick
<1>3. /\ NoPromise \in Promise /\ NoPromise.left = Over
      /\ Over \in Int /\ Over + 1 = -Lag /\ Over < 0
  BY LagAssumption DEF NoPromise, Promise, Over, None
<1>4. ASSUME NEW o \in Owners
      PROVE  /\ promise'[o] \in Promise
             /\ promise[o].left <= 0 => promise'[o].left <= 0
             /\ promise[o].left > -Lag => /\ promise'[o].left = promise[o].left - 1
                                          /\ promise'[o].level = promise[o].level
  <2>1. promise[o] \in Promise
    BY DEF LevelsInv, LevelsTypeOK
  <2>2. promise[o].left \in Int /\ -Lag \in Int
    BY <2>1, LagAssumption DEF Promise
  <2>3. CASE promise'[o] = NoPromise
    <3>1. ~ (promise[o].left > -Lag)
      <4>1. CASE promise[o].left = Over + 1 \/ promise[o] = NoPromise
        BY <1>3, <2>2, <4>1
      <4>2. CASE ~ (promise[o].left = Over + 1 \/ promise[o] = NoPromise)
        <5>1. promise'[o].left = promise[o].left - 1
          BY <1>2, <2>1, <4>2 DEF Promise
        <5>2. QED
          BY <1>3, <2>2, <2>3, <5>1
      <4>3. QED
        BY <4>1, <4>2
    <3>2. QED
      BY <1>3, <2>3, <3>1
  <2>4. CASE promise'[o] # NoPromise
    <3>1. promise'[o] = [promise[o] EXCEPT !.left = @ - 1]
      BY <1>2, <2>4
    <3>2. /\ promise'[o].left = promise[o].left - 1
          /\ promise'[o].level = promise[o].level
          /\ promise'[o] \in Promise
      BY <2>1, <3>1 DEF Promise
    <3>3. QED
      BY <2>2, <3>2
  <2>5. QED
    BY <2>3, <2>4
<1>5. LevelsTypeOK'
  <2>1. timers' \in [Owners -> SUBSET Int]
    BY <1>1 DEF LevelsInv, LevelsTypeOK
  <2>2. promise' \in [Owners -> Promise]
    BY <1>4 DEF Tick
  <2>3. QED
    BY <1>1, <2>1, <2>2 DEF LevelsInv, LevelsTypeOK
<1>6. RootServes'
  BY <1>1 DEF LevelsInv, RootServes, Effective
<1>7. TimerOfRequest'
  <2> SUFFICES ASSUME NEW o \in Owners
               PROVE  IF level[o] = None THEN timers'[o] = {} /\ promise'[o].left <= 0
                      ELSE /\ timers'[o] = {promise'[o].left}
                           /\ promise'[o].level = level[o]
                           /\ promise'[o].left >= -Lag
    BY <1>1 DEF TimerOfRequest
  <2>1. CASE level[o] = None
    <3>1. timers[o] = {} /\ promise[o].left <= 0
      BY <2>1 DEF LevelsInv, TimerOfRequest
    <3>2. QED
      BY <1>1, <1>4, <2>1, <3>1
  <2>2. CASE level[o] # None
    <3>1. /\ timers[o] = {promise[o].left}
          /\ promise[o].level = level[o]
          /\ promise[o].left \in Int
      BY <2>2 DEF LevelsInv, TimerOfRequest, LevelsTypeOK, Promise
    <3>2. promise[o].left > -Lag
      BY <1>1, <3>1
    <3>3. timers'[o] = {promise[o].left - 1}
      BY <1>1, <3>1
    <3>4. QED
      BY <1>4, <2>2, <3>1, <3>2, <3>3, LagAssumption
  <2>3. QED
    BY <2>1, <2>2
<1>8. QED
  BY <1>5, <1>6, <1>7 DEF LevelsInv

LEMMA LevelsStep == LevelsInv /\ [Next]_vars => LevelsInv'
<1> SUFFICES ASSUME LevelsInv, [Next]_vars PROVE LevelsInv'
  OBVIOUS
<1>1. ASSUME UNCHANGED <<root, saved, level, timers, promise>> PROVE LevelsInv'
  BY <1>1 DEF LevelsInv, LevelsTypeOK, RootServes, TimerOfRequest, Effective
<1>2. ASSUME NEW l \in Levels, Line(l) PROVE LevelsInv'
  BY <1>1, <1>2 DEF Line, levels
<1>3. ASSUME NEW c \in Clients, ClientStep(c) PROVE LevelsInv'
  <2>1. CASE \E l \in Levels : Subscribe(c, l)
    BY <1>1, <2>1 DEF Subscribe, levels
  <2>2. CASE Leave(c)
    BY <2>2, LeaveKeeps
  <2>3. CASE ChangesLevel(c)
    BY <2>3, SetLevelKeeps DEF ChangesLevel, Owners
  <2>4. CASE SendReplay(c) \/ Drain(c) \/ SendHand(c) \/ SendFails(c)
    BY <1>1, <2>4 DEF SendReplay, Drain, SendHand, SendFails, levels
  <2>5. QED
    BY <1>3, <2>1, <2>2, <2>3, <2>4 DEF ClientStep, ClientAsks, Disconnect
<1>4. ASSUME NEW q \in Rest, RestAsks(q) PROVE LevelsInv'
  BY <1>4, SetLevelKeeps DEF RestAsks, ChangesLevel, Owners
<1>5. ASSUME NEW o \in Owners, Expire(o) PROVE LevelsInv'
  BY <1>5, ExpireKeeps
<1>6. CASE UNCHANGED vars
  BY <1>1, <1>6 DEF vars, levels
<1>7. QED
  BY <1>2, <1>3, <1>4, <1>5, <1>6, DetachKeeps, TickKeeps DEF Next

-----------------------------------------------------------------------------
LEMMA LevelsAlways == Spec => []LevelsInv
<1>1. QED
  BY LevelsInit, LevelsStep, PTL DEF Spec

\* Whoever asked for a level gets lines at least that verbose for the whole ttl
\* (_replace_request, _on_expire, _effective_level).
THEOREM PromisesAreKept == Spec => []PromiseKept
<1>1. ASSUME LevelsInv PROVE PromiseKept
  <2>1. root <= Baseline /\ \A o \in Owners : level[o] # None => root <= level[o]
    BY <1>1, EffectiveServes DEF LevelsInv, LevelsTypeOK, RootServes
  <2>2. ASSUME NEW o \in Owners, promise[o].left > 0
        PROVE  level[o] # None /\ promise[o].level = level[o]
    <3>1. promise[o].left \in Int
      BY <1>1 DEF LevelsInv, LevelsTypeOK, Promise
    <3>2. QED
      BY <1>1, <2>2, <3>1 DEF LevelsInv, TimerOfRequest
  <2>3. QED
    BY <2>1, <2>2 DEF PromiseKept
<1>2. QED
  BY <1>1, LevelsAlways, PTL

\* The level from configuration is back when nothing is asked for any more, and
\* after the stop (_apply_level, detach).
THEOREM ConfiguredLevelComesBack == Spec => []LevelComesBack
<1>1. ASSUME LevelsInv PROVE LevelComesBack
  <2> SUFFICES ASSUME \A o \in Owners : promise[o] = NoPromise
               PROVE  root = Baseline
    BY DEF LevelComesBack
  <2>1. NoPromise.left < -Lag /\ ~ (NoPromise.left >= -Lag)
    BY LagAssumption DEF NoPromise, Over
  <2>2. \A o \in Owners : level[o] = None
    BY <1>1, <2>1 DEF LevelsInv, TimerOfRequest
  <2>3. QED
    BY <1>1, <2>2, EffectiveServes DEF LevelsInv, LevelsTypeOK, RootServes
<1>2. QED
  BY <1>1, LevelsAlways, PTL

-----------------------------------------------------------------------------
(***************************************************************************)
(* What subscribers get                                                    *)
(***************************************************************************)
LineRec == [n : Nat, level : Levels]

\* The lines of q are in the order of the log, after number lo and up to hi.
InOrder(q, lo, hi) ==
  /\ \A i \in DOMAIN q : lo < q[i].n /\ q[i].n <= hi
  /\ \A i, j \in DOMAIN q : i < j => q[i].n < q[j].n

\* All lines of p are before those of q.
Before(p, q) == \A i \in DOMAIN p, j \in DOMAIN q : p[i].n < q[j].n

Subscriber == [phase : {"none", "replay", "ready", "telling"}, min : Nat,
               replay : Seq(LineRec), queue : Seq(LineRec), dropped : Nat,
               hand : Seq(LineRec), offered : Nat, got : Nat, told : Nat, last : Nat]

\* What is on its way to a subscriber, when hi lines were logged: each part in
\* order, after its last line, and the queue after what goes before it.
Ahead(s, hi) ==
  /\ s.last <= hi
  /\ InOrder(s.replay, s.last, hi) /\ InOrder(s.hand, s.last, hi) /\ InOrder(s.queue, s.last, hi)
  /\ Before(s.replay, s.queue) /\ Before(s.hand, s.queue)

\* Where the lines offered to a subscriber are.
Accounts(s) ==
  /\ s.phase # "replay" => s.replay = <<>>
  /\ s.phase = "telling" => Len(s.hand) = 1
  /\ s.phase # "telling" => s.hand = <<>>
  /\ s.offered = s.got + s.told + s.dropped + Len(s.replay) + Len(s.hand) + Len(s.queue)
  /\ s.dropped > 0 => s.queue # <<>>

SubOK(s, hi) == s \in Subscriber /\ Ahead(s, hi) /\ Accounts(s)

\* The buffer is in order, and every subscription.
DeliveryInv ==
  /\ lines \in Nat
  /\ buffer \in Seq(LineRec) /\ InOrder(buffer, 0, lines)
  /\ sub = [c \in Clients |-> sub[c]]
  /\ \A c \in Clients : SubOK(sub[c], lines)

UpTo(S, i) == {j \in S : j <= i}

\* A finite set of numbers has an n-th one for every n up to its size.
LEMMA NthIsThere ==
  ASSUME NEW S \in SUBSET Nat, IsFiniteSet(S), NEW n \in 1 .. Cardinality(S)
  PROVE  Nth(S, n) \in S /\ Cardinality(UpTo(S, Nth(S, n))) = n
<1> DEFINE size == Cardinality(S)
           rank == [i \in S |-> Cardinality(UpTo(S, i))]
<1>1. size \in Nat
  BY FS_CardinalityType
<1>2. ASSUME NEW i \in S
      PROVE  /\ IsFiniteSet(UpTo(S, i))
             /\ Cardinality(UpTo(S, i)) \in 1 .. size
  <2>1. UpTo(S, i) \in SUBSET S /\ i \in UpTo(S, i)
    BY DEF UpTo
  <2>2. IsFiniteSet(UpTo(S, i)) /\ Cardinality(UpTo(S, i)) <= size
    BY <2>1, FS_Subset
  <2>3. Cardinality(UpTo(S, i)) \in Nat /\ Cardinality(UpTo(S, i)) # 0
    BY <2>1, <2>2, FS_CardinalityType, FS_EmptySet
  <2>4. QED
    BY <1>1, <2>2, <2>3
<1>3. ASSUME NEW i \in S, NEW j \in S, i < j
      PROVE  Cardinality(UpTo(S, i)) # Cardinality(UpTo(S, j))
  <2>1. UpTo(S, i) \in SUBSET UpTo(S, j) /\ j \in UpTo(S, j) /\ j \notin UpTo(S, i)
    <3>1. i \in Nat /\ j \in Nat /\ \A x \in S : x \in Nat
      OBVIOUS
    <3>2. \A x \in S : x <= i => x <= j
      BY <1>3, <3>1
    <3>3. j <= j /\ ~ (j <= i)
      BY <1>3, <3>1
    <3>4. QED
      BY <3>2, <3>3 DEF UpTo
  <2>2. QED
    BY <1>2, <2>1, FS_Subset
<1>4. rank \in Injection(S, 1 .. size)
  <2>1. rank \in [S -> 1 .. size]
    BY <1>2
  <2>2. ASSUME NEW i \in S, NEW j \in S, rank[i] = rank[j] PROVE i = j
    <3>1. i \in Nat /\ j \in Nat /\ (i < j \/ j < i \/ i = j)
      OBVIOUS
    <3>2. QED
      BY <1>3, <2>2, <3>1
  <2>3. QED
    BY <2>1, <2>2 DEF Injection, IsInjective
<1>5. rank \in Surjection(S, 1 .. size)
  <2>1. IsFiniteSet(1 .. size) /\ Cardinality(1 .. size) = size
    BY <1>1, FS_Interval
  <2>2. QED
    BY <1>4, <2>1, FS_Injection
<1>6. PICK i \in S : Cardinality(UpTo(S, i)) = n
  BY <1>5 DEF Surjection
<1>7. QED
  BY <1>6 DEF Nth, UpTo

\* They are in order.
LEMMA NthInOrder ==
  ASSUME NEW S \in SUBSET Nat, IsFiniteSet(S),
         NEW m \in 1 .. Cardinality(S), NEW n \in 1 .. Cardinality(S), m < n
  PROVE  Nth(S, m) < Nth(S, n)
<1>1. /\ Nth(S, m) \in S /\ Cardinality(UpTo(S, Nth(S, m))) = m
      /\ Nth(S, n) \in S /\ Cardinality(UpTo(S, Nth(S, n))) = n
  BY NthIsThere
<1>2. ASSUME Nth(S, n) <= Nth(S, m) PROVE FALSE
  <2>1. UpTo(S, Nth(S, n)) \in SUBSET UpTo(S, Nth(S, m))
    <3>1. \A x, y, z \in S : x <= y /\ y <= z => x <= z
      OBVIOUS
    <3>2. \A x \in S : x <= Nth(S, n) => x <= Nth(S, m)
      BY <1>1, <1>2, <3>1, Zenon
    <3>3. QED
      BY <3>2 DEF UpTo
  <2>2. IsFiniteSet(UpTo(S, Nth(S, m)))
    BY FS_Subset DEF UpTo
  <2>3. n <= m
    BY <1>1, <2>1, <2>2, FS_Subset
  <2>4. m \in Int /\ n \in Int
    BY FS_CardinalityType
  <2>5. QED
    BY <2>3, <2>4
<1>3. Nth(S, n) \in Nat /\ Nth(S, m) \in Nat
  BY <1>1
<1>4. QED
  BY <1>2, <1>3

\* The lines to replay are lines of the buffer, in its order.
LEMMA ReplayInOrder ==
  ASSUME NEW min, NEW hi \in Nat,
         buffer \in Seq(LineRec), InOrder(buffer, 0, hi)
  PROVE  /\ Replay(min) \in Seq(LineRec)
         /\ InOrder(Replay(min), 0, hi)
<1> DEFINE kept == {i \in DOMAIN buffer : buffer[i].level >= min}
           size == Cardinality(kept)
<1>1. /\ kept \in SUBSET Nat
      /\ \A i \in kept : i \in DOMAIN buffer
      /\ IsFiniteSet(kept) /\ size \in Nat
  <2>1. DOMAIN buffer = 1 .. Len(buffer) /\ Len(buffer) \in Nat
    OBVIOUS
  <2>2. IsFiniteSet(1 .. Len(buffer)) /\ kept \in SUBSET (1 .. Len(buffer))
    BY <2>1, FS_Interval
  <2>3. IsFiniteSet(kept)
    BY <2>2, FS_Subset
  <2>4. QED
    BY <2>1, <2>2, <2>3, FS_CardinalityType
<1>2. Replay(min) = [n \in 1 .. size |-> buffer[Nth(kept, n)]]
  BY DEF Replay
<1>3. \A n \in 1 .. size : Nth(kept, n) \in DOMAIN buffer
  BY <1>1, NthIsThere
<1>4. \A m, n \in 1 .. size : m < n => Nth(kept, m) < Nth(kept, n)
  BY <1>1, NthInOrder
<1> HIDE DEF kept, size
<1>5. \A i \in DOMAIN buffer : buffer[i] \in LineRec
  OBVIOUS
<1>6. Replay(min) \in Seq(LineRec)
  BY <1>1, <1>2, <1>3, <1>5
<1>7. InOrder(Replay(min), 0, hi)
  BY <1>2, <1>3, <1>4 DEF InOrder
<1>8. QED
  BY <1>6, <1>7

\* Nothing is in any order.
LEMMA EmptyInOrder ==
  /\ <<>> \in Seq(LineRec) /\ Len(<<>>) = 0
  /\ \A lo, hi : InOrder(<<>>, lo, hi)
  /\ \A p : Before(p, <<>>) /\ Before(<<>>, p)
<1>1. DOMAIN <<>> = {}
  OBVIOUS
<1>2. <<>> \in Seq(LineRec) /\ Len(<<>>) = 0
  OBVIOUS
<1>3. QED
  BY <1>1, <1>2 DEF InOrder, Before

\* The first line, and the rest that is after it.
LEMMA FirstInOrder ==
  ASSUME NEW q \in Seq(LineRec), q # <<>>, NEW lo \in Nat, NEW hi \in Nat, InOrder(q, lo, hi)
  PROVE  /\ Head(q) \in LineRec /\ lo < Head(q).n /\ Head(q).n <= hi
         /\ Tail(q) \in Seq(LineRec) /\ Len(Tail(q)) = Len(q) - 1
         /\ InOrder(Tail(q), Head(q).n, hi)
         /\ \A p : Before(q, p) => Before(Tail(q), p) /\ \A j \in DOMAIN p : Head(q).n < p[j].n
<1>1. /\ Len(q) \in Nat /\ Len(q) >= 1 /\ DOMAIN q = 1 .. Len(q)
      /\ Head(q) = q[1] /\ q[1] \in LineRec
      /\ Tail(q) \in Seq(LineRec) /\ Len(Tail(q)) = Len(q) - 1
      /\ DOMAIN Tail(q) = 1 .. Len(q) - 1
      /\ \A i \in 1 .. Len(q) - 1 : Tail(q)[i] = q[i + 1]
  OBVIOUS
<1>2. lo < Head(q).n /\ Head(q).n <= hi
  BY <1>1 DEF InOrder
<1>3. \A i \in DOMAIN Tail(q) : i + 1 \in DOMAIN q /\ Tail(q)[i] = q[i + 1] /\ 1 < i + 1
  BY <1>1
<1>4. \A i, j \in DOMAIN Tail(q) : i < j => i + 1 < j + 1
  BY <1>1
<1>5. 1 \in DOMAIN q
  BY <1>1
<1>6. InOrder(Tail(q), Head(q).n, hi)
  BY <1>1, <1>3, <1>4, <1>5, Zenon DEF InOrder
<1>7. \A p : Before(q, p) => Before(Tail(q), p) /\ \A j \in DOMAIN p : Head(q).n < p[j].n
  BY <1>1, <1>3, <1>5, Zenon DEF Before
<1>8. QED
  BY <1>1, <1>2, <1>6, <1>7

\* The lines that are after line m.
LEMMA AfterInOrder ==
  ASSUME NEW q, NEW lo, NEW m, NEW hi, InOrder(q, lo, hi), \A j \in DOMAIN q : m < q[j].n
  PROVE  InOrder(q, m, hi)
<1>1. QED
  BY DEF InOrder

LEMMA LinesHaveNumbers ==
  ASSUME NEW q \in Seq(LineRec), NEW i \in DOMAIN q
  PROVE  q[i].n \in Nat
<1>1. q[i] \in LineRec
  OBVIOUS
<1>2. QED
  BY <1>1 DEF LineRec

\* One more line was logged.
LEMMA LaterInOrder ==
  ASSUME NEW q \in Seq(LineRec), NEW lo \in Nat, NEW hi \in Nat, InOrder(q, lo, hi)
  PROVE  InOrder(q, lo, hi + 1)
<1>1. \A i \in DOMAIN q : q[i].n \in Nat
  BY LinesHaveNumbers
<1>2. QED
  BY <1>1 DEF InOrder

\* The next line goes to the end.
LEMMA NextInOrder ==
  ASSUME NEW q \in Seq(LineRec), NEW lo \in Nat, NEW hi \in Nat, InOrder(q, lo, hi), lo <= hi,
         NEW line \in LineRec, line.n = hi + 1
  PROVE  /\ Append(q, line) \in Seq(LineRec) /\ Len(Append(q, line)) = Len(q) + 1
         /\ InOrder(Append(q, line), lo, hi + 1)
         /\ Append(q, line) # <<>>
         /\ \A p \in Seq(LineRec) : Before(p, q) /\ InOrder(p, lo, hi) => Before(p, Append(q, line))
<1> DEFINE r == Append(q, line)
<1>1. /\ r \in Seq(LineRec) /\ Len(r) = Len(q) + 1 /\ Len(q) \in Nat
      /\ DOMAIN r = 1 .. Len(q) + 1 /\ DOMAIN q = 1 .. Len(q)
      /\ \A i \in 1 .. Len(q) : r[i] = q[i]
      /\ r[Len(q) + 1] = line
  OBVIOUS
<1>2. r # <<>>
  BY <1>1
<1> HIDE DEF r
<1>3. \A i \in DOMAIN q : lo < q[i].n /\ q[i].n <= hi /\ q[i].n \in Nat
  BY LinesHaveNumbers DEF InOrder
<1>4. \A i \in DOMAIN r : IF i \in DOMAIN q THEN r[i] = q[i] ELSE i = Len(q) + 1 /\ r[i].n = hi + 1
  BY <1>1
<1>5. \A i \in DOMAIN r : lo < r[i].n /\ r[i].n <= hi + 1
  BY <1>3, <1>4
<1>6. ASSUME NEW i \in DOMAIN r, NEW j \in DOMAIN r, i < j PROVE r[i].n < r[j].n
  <2>1. i \in DOMAIN q
    BY <1>1, <1>6
  <2>2. CASE j \in DOMAIN q
    BY <1>4, <1>6, <2>1, <2>2 DEF InOrder
  <2>3. CASE j \notin DOMAIN q
    BY <1>3, <1>4, <2>1, <2>3
  <2>4. QED
    BY <2>2, <2>3
<1>7. InOrder(r, lo, hi + 1)
  BY <1>5, <1>6 DEF InOrder
<1>8. ASSUME NEW p \in Seq(LineRec), Before(p, q), InOrder(p, lo, hi),
             NEW i \in DOMAIN p, NEW j \in DOMAIN r
      PROVE  p[i].n < r[j].n
  <2>1. p[i].n <= hi /\ p[i].n \in Nat
    BY <1>8, LinesHaveNumbers DEF InOrder
  <2>2. CASE j \in DOMAIN q
    BY <1>4, <1>8, <2>2 DEF Before
  <2>3. CASE j \notin DOMAIN q
    BY <1>4, <2>1, <2>3
  <2>4. QED
    BY <2>2, <2>3
<1>9. \A p \in Seq(LineRec) : Before(p, q) /\ InOrder(p, lo, hi) => Before(p, r)
  BY <1>8 DEF Before
<1>10. QED
  BY <1>1, <1>2, <1>7, <1>9 DEF r

\* The last lines of a buffer in order are in order.
LEMMA KeptInOrder ==
  ASSUME NEW q \in Seq(LineRec), NEW hi \in Nat, InOrder(q, 0, hi), NEW n \in Nat
  PROVE  KeepLast(q, n) \in Seq(LineRec) /\ InOrder(KeepLast(q, n), 0, hi)
<1> DEFINE a == IF Len(q) > n THEN Len(q) - n + 1 ELSE 1
           r == SubSeq(q, a, Len(q))
<1>1. Len(q) \in Nat /\ a \in Nat /\ a >= 1 /\ DOMAIN q = 1 .. Len(q)
  OBVIOUS
<1> HIDE DEF a
<1>2. /\ r \in Seq(LineRec)
      /\ DOMAIN r = 1 .. Len(q) - a + 1
      /\ \A i \in 1 .. Len(q) - a + 1 : r[i] = q[a + i - 1]
  <2>1. a <= Len(q) + 1
    BY DEF a
  <2>2. r \in Seq(LineRec) /\ Len(r) = Len(q) - a + 1
    BY <1>1, <2>1
  <2>3. \A i \in 1 .. Len(q) - a + 1 : r[i] = q[a + i - 1]
    BY <1>1, <2>1
  <2>4. QED
    BY <2>2, <2>3
<1>3. \A i \in DOMAIN r : a + i - 1 \in DOMAIN q /\ r[i] = q[a + i - 1]
  BY <1>1, <1>2
<1>4. \A i, j \in DOMAIN r : i < j => a + i - 1 < a + j - 1
  BY <1>1, <1>2
<1>5. KeepLast(q, n) = r
  BY DEF KeepLast, a
<1> HIDE DEF r
<1>6. InOrder(r, 0, hi)
  BY <1>3, <1>4, Zenon DEF InOrder
<1>7. QED
  BY <1>2, <1>5, <1>6

LEMMA NoSubOK == ASSUME NEW hi \in Nat PROVE SubOK(NoSub, hi)
<1>1. NoSub \in Subscriber
  BY EmptyInOrder DEF NoSub, Subscriber, None
<1>2. Ahead(NoSub, hi)
  BY EmptyInOrder DEF NoSub, Ahead
<1>3. Accounts(NoSub)
  BY EmptyInOrder DEF NoSub, Accounts
<1>4. QED
  BY <1>1, <1>2, <1>3 DEF SubOK

\* What a subscriber consists of.
LEMMA SubFields ==
  ASSUME NEW hi \in Nat, NEW s, SubOK(s, hi)
  PROVE  /\ s.phase \in {"none", "replay", "ready", "telling"}
         /\ s.last \in Nat /\ s.last <= hi
         /\ s.replay \in Seq(LineRec) /\ s.hand \in Seq(LineRec) /\ s.queue \in Seq(LineRec)
         /\ Len(s.replay) \in Nat /\ Len(s.hand) \in Nat /\ Len(s.queue) \in Nat
         /\ s.offered \in Nat /\ s.got \in Nat /\ s.told \in Nat /\ s.dropped \in Nat
         /\ InOrder(s.replay, s.last, hi) /\ InOrder(s.hand, s.last, hi)
         /\ InOrder(s.queue, s.last, hi)
         /\ Before(s.replay, s.queue) /\ Before(s.hand, s.queue)
<1>1. QED
  BY DEF SubOK, Subscriber, Ahead

\* A line that is offered, or goes from one place to the next, keeps the account.
LEMMA Moves ==
  ASSUME NEW hi \in Nat, NEW s, SubOK(s, hi)
  PROVE  LET a == s.got  b == s.told  c == s.dropped
             d == Len(s.replay)  e == Len(s.hand)  f == Len(s.queue)
         IN /\ s.offered + 1 = a + b + c + d + e + (f + 1)
            /\ s.offered + 1 = a + b + (c + 1) + d + e + f
            /\ s.offered = (a + 1) + b + c + (d - 1) + e + f
            /\ s.offered = (a + 1) + b + c + d + (e - 1) + f
            /\ s.offered = (a + 1) + b + c + d + e + (f - 1)
            /\ s.offered = a + (b + c) + 0 + d + (e + 1) + (f - 1)
<1> DEFINE o == s.offered
           a == s.got
           b == s.told
           c == s.dropped
           d == Len(s.replay)
           e == Len(s.hand)
           f == Len(s.queue)
<1>1. /\ o \in Nat /\ a \in Nat /\ b \in Nat /\ c \in Nat /\ d \in Nat /\ e \in Nat /\ f \in Nat
      /\ o = a + b + c + d + e + f
  BY SubFields DEF SubOK, Accounts
<1> HIDE DEF o, a, b, c, d, e, f
<1>2. /\ o + 1 = a + b + c + d + e + (f + 1)
      /\ o + 1 = a + b + (c + 1) + d + e + f
  BY <1>1
<1>3. /\ o = (a + 1) + b + c + (d - 1) + e + f
      /\ o = (a + 1) + b + c + d + (e - 1) + f
      /\ o = (a + 1) + b + c + d + e + (f - 1)
      /\ o = a + (b + c) + 0 + d + (e + 1) + (f - 1)
  BY <1>1
<1>4. QED
  BY <1>2, <1>3, Zenon DEF o, a, b, c, d, e, f

\* _on_entry: the line is queued, or one more is dropped and the queue is full.
LEMMA OfferKeeps ==
  ASSUME NEW hi \in Nat, NEW s, SubOK(s, hi), NEW l \in Levels
  PROVE  SubOK(Offer(s, [n |-> hi + 1, level |-> l]), hi + 1)
<1> DEFINE line == [n |-> hi + 1, level |-> l]
           next == hi + 1
           t == Offer(s, line)
<1> USE SubFields
<1>1. line \in LineRec /\ line.n = hi + 1 /\ next \in Nat
  BY DEF LineRec
<1>2. \/ t = s
      \/ t = [s EXCEPT !.offered = @ + 1, !.queue = Append(@, line)]
      \/ /\ ~ (Len(s.queue) < QueueSize)
         /\ t = [s EXCEPT !.offered = @ + 1, !.dropped = @ + 1]
  BY Zenon DEF Offer
<1> HIDE DEF line, t
<1>3. s \in Subscriber /\ s.offered + 1 \in Nat /\ s.dropped + 1 \in Nat
  BY DEF SubOK
<1>4. /\ InOrder(s.replay, s.last, next) /\ InOrder(s.hand, s.last, next)
      /\ InOrder(s.queue, s.last, next)
  BY LaterInOrder
<1>5. s.last <= next
  OBVIOUS
<1>6. CASE t = s
  <2>1. Ahead(s, next)
    BY <1>4, <1>5 DEF Ahead
  <2>2. QED
    BY <1>3, <1>6, <2>1 DEF SubOK, t, line
<1>7. CASE t = [s EXCEPT !.offered = @ + 1, !.queue = Append(@, line)]
  <2> DEFINE r == Append(s.queue, line)
             n == s.offered + 1
  <2>1. /\ r \in Seq(LineRec) /\ Len(r) = Len(s.queue) + 1
        /\ InOrder(r, s.last, next) /\ r # <<>>
        /\ Before(s.replay, r) /\ Before(s.hand, r)
    BY <1>1, NextInOrder
  <2>2. t = [s EXCEPT !.offered = n, !.queue = r]
    BY <1>7
  <2>3. n \in Nat
    BY <1>3
  <2> HIDE DEF r, n
  <2>4. t \in Subscriber
    BY ONLY <1>3, <2>1, <2>2, <2>3 DEF Subscriber
  <2>5. /\ t.phase = s.phase /\ t.replay = s.replay /\ t.hand = s.hand /\ t.last = s.last
        /\ t.got = s.got /\ t.told = s.told /\ t.dropped = s.dropped
        /\ t.queue = r /\ t.offered = n
    BY ONLY <1>3, <2>2 DEF Subscriber
  <2>6. Ahead(t, next)
    BY <1>4, <1>5, <2>1, <2>5 DEF Ahead
  <2>7. Accounts(t)
    <3>1. s.offered + 1 = s.got + s.told + s.dropped
                           + Len(s.replay) + Len(s.hand) + (Len(s.queue) + 1)
      BY Moves, Zenon
    <3>2. t.offered = t.got + t.told + t.dropped + Len(t.replay) + Len(t.hand) + Len(t.queue)
      BY <2>1, <2>5, <3>1, Zenon DEF n
    <3>3. QED
      BY <2>1, <2>5, <3>2 DEF SubOK, Accounts
  <2>8. QED
    BY <2>4, <2>6, <2>7 DEF SubOK, t, line
<1>8. CASE t = [s EXCEPT !.offered = @ + 1, !.dropped = @ + 1] /\ ~ (Len(s.queue) < QueueSize)
  <2> DEFINE n == s.offered + 1
             d == s.dropped + 1
  <2>1. t = [s EXCEPT !.offered = n, !.dropped = d]
    BY <1>8
  <2>2. n \in Nat /\ d \in Nat
    BY <1>3
  <2> HIDE DEF n, d
  <2>3. t \in Subscriber
    BY ONLY <1>3, <2>1, <2>2 DEF Subscriber
  <2>4. /\ t.phase = s.phase /\ t.replay = s.replay /\ t.hand = s.hand /\ t.last = s.last
        /\ t.got = s.got /\ t.told = s.told /\ t.dropped = d
        /\ t.queue = s.queue /\ t.offered = n
    BY ONLY <1>3, <2>1 DEF Subscriber
  <2>5. Ahead(t, next)
    BY <1>4, <1>5, <2>4 DEF Ahead
  <2>6. s.queue # <<>>
    BY <1>8, SizesAssumption, EmptyInOrder
  <2>7. Accounts(t)
    <3>1. s.offered + 1 = s.got + s.told + (s.dropped + 1)
                           + Len(s.replay) + Len(s.hand) + Len(s.queue)
      BY Moves, Zenon
    <3>2. t.offered = t.got + t.told + t.dropped + Len(t.replay) + Len(t.hand) + Len(t.queue)
      BY <2>4, <3>1, Zenon DEF n, d
    <3>3. QED
      BY <2>4, <2>6, <3>2 DEF SubOK, Accounts
  <2>8. QED
    BY <2>3, <2>5, <2>7 DEF SubOK, t, line
<1>9. QED
  BY <1>2, <1>6, <1>7, <1>8

\* A new subscription, with r to replay.
LEMMA SubscribeOK ==
  ASSUME NEW hi \in Nat, NEW r \in Seq(LineRec), InOrder(r, 0, hi), NEW min \in Levels
  PROVE  SubOK([NoSub EXCEPT !.phase = "replay", !.min = min, !.replay = r,
                             !.offered = Len(r)], hi)
<1> DEFINE t == [NoSub EXCEPT !.phase = "replay", !.min = min, !.replay = r, !.offered = Len(r)]
<1>1. min \in Nat /\ Len(r) \in Nat
  BY LevelsAssumption
<1>2. /\ t.phase = "replay" /\ t.min = min /\ t.replay = r /\ t.queue = <<>> /\ t.dropped = 0
      /\ t.hand = <<>> /\ t.offered = Len(r) /\ t.got = 0 /\ t.told = 0 /\ t.last = 0
  BY DEF NoSub
<1>3. t \in Subscriber
  BY <1>1, EmptyInOrder DEF NoSub, Subscriber, None
<1> HIDE DEF t
<1>4. Ahead(t, hi)
  BY <1>2, EmptyInOrder DEF Ahead
<1>5. Accounts(t)
  BY <1>1, <1>2, EmptyInOrder DEF Accounts
<1>6. QED
  BY <1>3, <1>4, <1>5 DEF SubOK, t

\* A line of the replay is sent, or the drain task starts.
LEMMA ReplayKeeps ==
  ASSUME NEW hi \in Nat, NEW s, SubOK(s, hi), s.phase = "replay"
  PROVE  SubOK(IF s.replay = <<>> THEN [s EXCEPT !.phase = "ready"]
               ELSE [Got(s, Head(s.replay)) EXCEPT !.replay = Tail(s.replay)], hi)
<1> USE SubFields
<1>1. CASE s.replay = <<>>
  <2> DEFINE t == [s EXCEPT !.phase = "ready"]
  <2>1. t \in Subscriber
    BY DEF SubOK, Subscriber
  <2>2. /\ t.phase = "ready" /\ t.replay = s.replay /\ t.hand = s.hand /\ t.last = s.last
        /\ t.got = s.got /\ t.told = s.told /\ t.dropped = s.dropped
        /\ t.queue = s.queue /\ t.offered = s.offered
    BY DEF SubOK, Subscriber
  <2> HIDE DEF t
  <2>3. SubOK(t, hi)
    BY <1>1, <2>1, <2>2 DEF SubOK, Ahead, Accounts
  <2>4. QED
    BY <1>1, <2>3 DEF t
<1>2. CASE s.replay # <<>>
  <2> DEFINE line == Head(s.replay)
             r == Tail(s.replay)
             n == s.got + 1
             m == line.n
             t == [s EXCEPT !.got = n, !.last = m, !.replay = r]
  <2>1. /\ line \in LineRec /\ s.last < line.n /\ line.n <= hi
        /\ r \in Seq(LineRec) /\ Len(r) = Len(s.replay) - 1 /\ Len(r) \in Nat
        /\ InOrder(r, line.n, hi) /\ Before(r, s.queue)
        /\ InOrder(s.queue, line.n, hi)
    <3>1. /\ line \in LineRec /\ s.last < line.n /\ line.n <= hi
          /\ r \in Seq(LineRec) /\ Len(r) = Len(s.replay) - 1
          /\ InOrder(r, line.n, hi) /\ Before(r, s.queue)
          /\ \A j \in DOMAIN s.queue : line.n < s.queue[j].n
      BY <1>2, FirstInOrder
    <3>2. InOrder(s.queue, line.n, hi)
      BY <3>1, AfterInOrder
    <3>3. Len(r) \in Nat
      BY <3>1
    <3>4. QED
      BY <3>1, <3>2, <3>3
  <2>2. line.n \in Nat
    BY <2>1 DEF LineRec
  <2>3. s.hand = <<>>
    BY DEF SubOK, Accounts
  <2>4. [Got(s, line) EXCEPT !.replay = r] = t
    BY DEF Got, SubOK, Subscriber
  <2> HIDE DEF line, r
  <2>5. n \in Nat /\ s \in Subscriber
    BY DEF SubOK
  <2> HIDE DEF n, m
  <2>6. t \in Subscriber
    BY ONLY <2>1, <2>2, <2>5 DEF Subscriber, m
  <2>7. /\ t.phase = s.phase /\ t.replay = r /\ t.hand = s.hand /\ t.last = m
        /\ t.got = n /\ t.told = s.told /\ t.dropped = s.dropped
        /\ t.queue = s.queue /\ t.offered = s.offered
    BY ONLY <2>5 DEF Subscriber
  <2> HIDE DEF t
  <2>8. Ahead(t, hi)
    BY <2>1, <2>2, <2>3, <2>7, EmptyInOrder DEF Ahead, m
  <2>9. Accounts(t)
    <3>1. s.offered = (s.got + 1) + s.told + s.dropped
                       + (Len(s.replay) - 1) + Len(s.hand) + Len(s.queue)
      BY Moves, Zenon
    <3>2. t.offered = t.got + t.told + t.dropped + Len(t.replay) + Len(t.hand) + Len(t.queue)
      BY <2>1, <2>7, <3>1, Zenon DEF n
    <3>3. QED
      BY <2>1, <2>3, <2>7, <3>2 DEF SubOK, Accounts
  <2>10. QED
    BY <1>2, <2>4, <2>6, <2>8, <2>9 DEF SubOK, line, r, n, m
<1>3. QED
  BY <1>1, <1>2

\* One line in hand.
LEMMA LineInOrder ==
  ASSUME NEW line \in LineRec, NEW lo \in Nat, NEW hi \in Nat, lo < line.n, line.n <= hi,
         NEW q, InOrder(q, line.n, hi)
  PROVE  /\ <<line>> \in Seq(LineRec) /\ Len(<<line>>) = 1
         /\ InOrder(<<line>>, lo, hi)
         /\ Before(<<line>>, q)
<1>1. /\ <<line>> \in Seq(LineRec) /\ Len(<<line>>) = 1
      /\ DOMAIN <<line>> = {1} /\ <<line>>[1] = line
  OBVIOUS
<1>2. \A i, j \in {1} : ~ (i < j)
  OBVIOUS
<1>3. InOrder(<<line>>, lo, hi)
  BY <1>1, <1>2, Zenon DEF InOrder
<1>4. Before(<<line>>, q)
  BY <1>1, Zenon DEF InOrder, Before
<1>5. QED
  BY <1>1, <1>3, <1>4

\* _drain takes a line out of the queue: to the client, or into its hand.
LEMMA DrainKeeps ==
  ASSUME NEW hi \in Nat, NEW s, SubOK(s, hi), s.phase = "ready", s.queue # <<>>
  PROVE  /\ s.dropped = 0 => SubOK([Got(s, Head(s.queue)) EXCEPT !.queue = Tail(s.queue)], hi)
         /\ s.dropped # 0 =>
              SubOK([s EXCEPT !.phase = "telling", !.hand = <<Head(s.queue)>>,
                              !.queue = Tail(s.queue), !.told = s.told + s.dropped,
                              !.dropped = 0], hi)
<1> USE SubFields
<1> DEFINE line == Head(s.queue)
           m == line.n
           r == Tail(s.queue)
<1>1. /\ line \in LineRec /\ s.last < m /\ m <= hi
      /\ r \in Seq(LineRec) /\ Len(r) = Len(s.queue) - 1
      /\ InOrder(r, m, hi)
      /\ \A p : Before(s.queue, p) => Before(r, p)
  BY FirstInOrder
<1>2. m \in Nat
  BY <1>1 DEF LineRec
<1>3. s \in Subscriber /\ s.replay = <<>> /\ s.hand = <<>> /\ s.got + 1 \in Nat
  BY DEF SubOK, Accounts
<1> HIDE DEF line, m, r
<1>4. ASSUME s.dropped = 0 PROVE SubOK([Got(s, line) EXCEPT !.queue = r], hi)
  <2> DEFINE n == s.got + 1
             t == [s EXCEPT !.got = n, !.last = m, !.queue = r]
  <2>1. [Got(s, line) EXCEPT !.queue = r] = t
    BY <1>3 DEF Got, Subscriber, m
  <2>2. n \in Nat
    BY <1>3
  <2> HIDE DEF n
  <2>3. t \in Subscriber
    BY ONLY <1>1, <1>2, <1>3, <2>2 DEF Subscriber
  <2>4. /\ t.phase = s.phase /\ t.replay = s.replay /\ t.hand = s.hand /\ t.last = m
        /\ t.got = n /\ t.told = s.told /\ t.dropped = s.dropped
        /\ t.queue = r /\ t.offered = s.offered
    BY ONLY <1>3 DEF Subscriber
  <2> HIDE DEF t
  <2>5. Ahead(t, hi)
    BY <1>1, <1>3, <2>4, EmptyInOrder DEF Ahead
  <2>6. Accounts(t)
    <3>1. s.offered = (s.got + 1) + s.told + s.dropped
                       + Len(s.replay) + Len(s.hand) + (Len(s.queue) - 1)
      BY Moves, Zenon
    <3>2. t.offered = t.got + t.told + t.dropped + Len(t.replay) + Len(t.hand) + Len(t.queue)
      BY <1>1, <2>4, <3>1, Zenon DEF n
    <3>3. QED
      BY <1>3, <1>4, <2>4, <3>2 DEF Accounts
  <2>7. QED
    BY <2>1, <2>3, <2>5, <2>6 DEF SubOK
<1>5. ASSUME s.dropped # 0
      PROVE  SubOK([s EXCEPT !.phase = "telling", !.hand = <<line>>, !.queue = r,
                             !.told = s.told + s.dropped, !.dropped = 0], hi)
  <2> DEFINE n == s.told + s.dropped
             h == <<line>>
             t == [s EXCEPT !.phase = "telling", !.hand = h, !.queue = r,
                            !.told = n, !.dropped = 0]
  <2>1. /\ h \in Seq(LineRec) /\ Len(h) = 1 /\ InOrder(h, s.last, hi) /\ Before(h, r)
    BY <1>1, <1>2, LineInOrder DEF m
  <2>2. InOrder(r, s.last, hi)
    <3>1. \A j \in DOMAIN r : r[j].n \in Nat
      BY <1>1, LinesHaveNumbers
    <3>2. QED
      BY <1>1, <1>2, <3>1 DEF InOrder
  <2>3. n \in Nat
    OBVIOUS
  <2> HIDE DEF n, h
  <2>4. t \in Subscriber
    BY ONLY <1>1, <1>3, <2>1, <2>3 DEF Subscriber
  <2>5. /\ t.phase = "telling" /\ t.replay = s.replay /\ t.hand = h /\ t.last = s.last
        /\ t.got = s.got /\ t.told = n /\ t.dropped = 0
        /\ t.queue = r /\ t.offered = s.offered
    BY ONLY <1>3 DEF Subscriber
  <2> HIDE DEF t
  <2>6. Ahead(t, hi)
    BY <1>3, <2>1, <2>2, <2>5, EmptyInOrder DEF Ahead
  <2>7. Accounts(t)
    <3>1. s.offered = s.got + (s.told + s.dropped) + 0
                       + Len(s.replay) + (Len(s.hand) + 1) + (Len(s.queue) - 1)
      BY Moves, Zenon
    <3>2. Len(s.hand) + 1 = Len(h)
      BY <1>3, <2>1, EmptyInOrder
    <3>3. t.offered = t.got + t.told + t.dropped + Len(t.replay) + Len(t.hand) + Len(t.queue)
      BY <1>1, <2>5, <3>1, <3>2, Zenon DEF n
    <3>4. QED
      BY <1>3, <2>1, <2>5, <3>3 DEF Accounts
  <2>8. QED
    BY <2>4, <2>6, <2>7 DEF SubOK, t, n, h
<1>6. QED
  BY <1>4, <1>5 DEF line, r

\* The line in hand goes to the client.
LEMMA HandKeeps ==
  ASSUME NEW hi \in Nat, NEW s, SubOK(s, hi), s.phase = "telling"
  PROVE  SubOK([Got(s, s.hand[1]) EXCEPT !.phase = "ready", !.hand = <<>>], hi)
<1> USE SubFields
<1> DEFINE line == s.hand[1]
           m == line.n
           n == s.got + 1
           t == [s EXCEPT !.got = n, !.last = m, !.phase = "ready", !.hand = <<>>]
<1>1. s \in Subscriber /\ Len(s.hand) = 1 /\ s.replay = <<>> /\ n \in Nat
  <2>1. s \in Subscriber /\ Accounts(s)
    BY DEF SubOK
  <2>2. s.phase # "replay" /\ s.phase = "telling"
    OBVIOUS
  <2>3. Len(s.hand) = 1 /\ s.replay = <<>>
    BY <2>1, <2>2, Zenon DEF Accounts
  <2>4. n \in Nat
    BY SubFields
  <2>5. QED
    BY <2>1, <2>3, <2>4
<1>2. 1 \in DOMAIN s.hand
  BY <1>1
<1>3. s.last < m /\ m <= hi /\ InOrder(s.queue, m, hi)
  BY <1>2 DEF InOrder, Before
<1>4. m \in Nat
  BY <1>2, LinesHaveNumbers
<1>5. [Got(s, line) EXCEPT !.phase = "ready", !.hand = <<>>] = t
  BY <1>1 DEF Got, Subscriber
<1> HIDE DEF line, m, n
<1>6. t \in Subscriber
  BY ONLY <1>1, <1>4, EmptyInOrder DEF Subscriber
<1>7. /\ t.phase = "ready" /\ t.replay = s.replay /\ t.hand = <<>> /\ t.last = m
      /\ t.got = n /\ t.told = s.told /\ t.dropped = s.dropped
      /\ t.queue = s.queue /\ t.offered = s.offered
  BY ONLY <1>1 DEF Subscriber
<1> HIDE DEF t
<1>8. Ahead(t, hi)
  BY <1>1, <1>3, <1>7, EmptyInOrder DEF Ahead
<1>9. Accounts(t)
  <2>1. s.offered = (s.got + 1) + s.told + s.dropped
                     + Len(s.replay) + (Len(s.hand) - 1) + Len(s.queue)
    BY Moves, Zenon
  <2>2. Len(s.hand) - 1 = Len(<<>>)
    BY <1>1, EmptyInOrder
  <2>3. t.offered = t.got + t.told + t.dropped + Len(t.replay) + Len(t.hand) + Len(t.queue)
    BY <1>7, <2>1, <2>2, Zenon DEF n
  <2>4. QED
    BY <1>1, <1>7, <2>3 DEF SubOK, Accounts
<1>10. QED
  BY <1>5, <1>6, <1>8, <1>9 DEF SubOK, line

LEMMA DeliveryInit == Init => DeliveryInv
<1> SUFFICES ASSUME Init PROVE DeliveryInv
  OBVIOUS
<1>1. lines = 0 /\ buffer = <<>> /\ sub = [c \in Clients |-> NoSub]
  BY DEF Init
<1>2. lines \in Nat
  BY <1>1
<1>3. \A c \in Clients : sub[c] = NoSub /\ SubOK(sub[c], lines)
  BY <1>1, <1>2, NoSubOK
<1>4. sub = [c \in Clients |-> sub[c]]
  BY <1>1
<1>5. QED
  BY <1>1, <1>2, <1>3, <1>4, EmptyInOrder DEF DeliveryInv

\* A step that changes the subscription of one client.
LEMMA OneChanges ==
  ASSUME DeliveryInv, UNCHANGED <<buffer, lines>>, NEW c \in Clients, NEW t,
         sub' = [sub EXCEPT ![c] = t], SubOK(t, lines)
  PROVE  DeliveryInv'
<1>1. \A x \in Clients : sub'[x] = IF x = c THEN t ELSE sub[x]
  BY DEF DeliveryInv
<1>2. sub' = [x \in Clients |-> sub'[x]]
  BY DEF DeliveryInv
<1>3. \A x \in Clients : SubOK(sub'[x], lines)
  BY <1>1 DEF DeliveryInv
<1>4. QED
  BY <1>2, <1>3 DEF DeliveryInv

LEMMA DeliveryStep == DeliveryInv /\ [Next]_vars => DeliveryInv'
<1> SUFFICES ASSUME DeliveryInv, [Next]_vars PROVE DeliveryInv'
  OBVIOUS
<1>1. ASSUME UNCHANGED delivery PROVE DeliveryInv'
  BY <1>1 DEF DeliveryInv, delivery
<1>2. ASSUME NEW l \in Levels, Line(l) PROVE DeliveryInv'
  <2> DEFINE line == [n |-> lines + 1, level |-> l]
  <2>1. /\ lines' = lines + 1 /\ lines \in Nat /\ lines' \in Nat
        /\ buffer' = KeepLast(Append(buffer, line), BufferSize)
        /\ sub' = [c \in Clients |-> Offer(sub[c], line)]
    BY <1>2 DEF Line, DeliveryInv
  <2>2. line \in LineRec /\ line.n = lines + 1
    BY <2>1 DEF LineRec
  <2>3. \A c \in Clients : SubOK(sub'[c], lines')
    BY <2>1, OfferKeeps DEF DeliveryInv
  <2> HIDE DEF line
  <2>4. /\ Append(buffer, line) \in Seq(LineRec)
        /\ InOrder(Append(buffer, line), 0, lines + 1)
    <3>1. buffer \in Seq(LineRec) /\ InOrder(buffer, 0, lines) /\ 0 \in Nat /\ 0 <= lines
      BY <2>1 DEF DeliveryInv
    <3>2. QED
      BY <2>1, <2>2, <3>1, NextInOrder
  <2>5. buffer' \in Seq(LineRec) /\ InOrder(buffer', 0, lines')
    BY <2>1, <2>4, KeptInOrder, SizesAssumption
  <2>6. sub' = [c \in Clients |-> sub'[c]]
    BY <2>1
  <2>7. QED
    BY <2>1, <2>3, <2>5, <2>6 DEF DeliveryInv
<1>3. ASSUME NEW c \in Clients, ClientStep(c) PROVE DeliveryInv'
  <2> DEFINE s == sub[c]
  <2>1. SubOK(s, lines) /\ lines \in Nat
    BY DEF DeliveryInv
  <2> HIDE DEF s
  <2>2. ASSUME NEW min \in Levels, Subscribe(c, min) PROVE DeliveryInv'
    <3>1. Replay(min) \in Seq(LineRec) /\ InOrder(Replay(min), 0, lines)
      BY ReplayInOrder DEF DeliveryInv
    <3> DEFINE r == Replay(min)
               t == [NoSub EXCEPT !.phase = "replay", !.min = min, !.replay = r,
                                  !.offered = Len(r)]
    <3> HIDE DEF r
    <3>2. SubOK(t, lines)
      BY <2>1, <3>1, SubscribeOK, Zenon DEF r
    <3>3. sub' = [sub EXCEPT ![c] = t] /\ UNCHANGED <<buffer, lines>>
      BY <2>2 DEF Subscribe, r
    <3> HIDE DEF t
    <3>4. QED
      BY <3>2, <3>3, OneChanges
  <2>3. CASE Leave(c) \/ SendFails(c)
    BY <2>1, <2>3, NoSubOK, OneChanges DEF Leave, SendFails
  <2>4. CASE ChangesLevel(c)
    BY <1>1, <2>4 DEF ChangesLevel, SetLevel
  <2>5. CASE SendReplay(c)
    <3> DEFINE t == IF s.replay = <<>> THEN [s EXCEPT !.phase = "ready"]
                    ELSE [Got(s, Head(s.replay)) EXCEPT !.replay = Tail(s.replay)]
    <3>1. s.phase = "replay"
      BY <2>5, Zenon DEF SendReplay, s
    <3>2. SubOK(t, lines)
      BY <2>1, <3>1, ReplayKeeps, Zenon
    <3>3. sub' = [sub EXCEPT ![c] = t] /\ UNCHANGED <<buffer, lines>>
      BY <2>5 DEF SendReplay, s
    <3> HIDE DEF t
    <3>4. QED
      BY <3>2, <3>3, OneChanges
  <2>6. CASE Drain(c)
    <3> DEFINE t == IF s.dropped = 0
                    THEN [Got(s, Head(s.queue)) EXCEPT !.queue = Tail(s.queue)]
                    ELSE [s EXCEPT !.phase = "telling", !.hand = <<Head(s.queue)>>,
                                   !.queue = Tail(s.queue), !.told = s.told + s.dropped,
                                   !.dropped = 0]
    <3>1. s.phase = "ready" /\ s.queue # <<>>
      BY <2>6 DEF Drain, s
    <3>2. SubOK(t, lines)
      BY <2>1, <3>1, DrainKeeps, Zenon
    <3>3. \A line : Got(s, line).queue = s.queue
      BY <2>1 DEF Got, SubOK, Subscriber
    <3>4. sub' = [sub EXCEPT ![c] = t] /\ UNCHANGED <<buffer, lines>>
      BY <2>6, <3>3 DEF Drain, s
    <3> HIDE DEF t
    <3>5. QED
      BY <3>2, <3>4, OneChanges
  <2>7. CASE SendHand(c)
    <3> DEFINE t == [Got(s, s.hand[1]) EXCEPT !.phase = "ready", !.hand = <<>>]
    <3>1. s.phase = "telling"
      BY <2>7 DEF SendHand, s
    <3>2. SubOK(t, lines)
      BY <2>1, <3>1, HandKeeps, Zenon
    <3>3. sub' = [sub EXCEPT ![c] = t] /\ UNCHANGED <<buffer, lines>>
      BY <2>7 DEF SendHand, s
    <3> HIDE DEF t
    <3>4. QED
      BY <3>2, <3>3, OneChanges
  <2>8. QED
    BY <1>3, <2>2, <2>3, <2>4, <2>5, <2>6, <2>7 DEF ClientStep, ClientAsks, Disconnect
<1>4. ASSUME NEW q \in Rest, RestAsks(q) PROVE DeliveryInv'
  BY <1>1, <1>4 DEF RestAsks, ChangesLevel, SetLevel
<1>5. ASSUME NEW o \in Owners, Expire(o) PROVE DeliveryInv'
  BY <1>1, <1>5 DEF Expire
<1>6. CASE Detach
  <2>1. sub' = [c \in Clients |-> NoSub] /\ UNCHANGED <<buffer, lines>>
    BY <1>6 DEF Detach
  <2>2. \A c \in Clients : SubOK(sub'[c], lines)
    BY <2>1, NoSubOK DEF DeliveryInv
  <2>3. QED
    BY <2>1, <2>2 DEF DeliveryInv
<1>7. CASE Tick
  BY <1>1, <1>7 DEF Tick
<1>8. CASE UNCHANGED vars
  BY <1>1, <1>8 DEF vars
<1>9. QED
  BY <1>2, <1>3, <1>4, <1>5, <1>6, <1>7, <1>8 DEF Next

LEMMA DeliveryAlways == Spec => []DeliveryInv
<1>1. QED
  BY DeliveryInit, DeliveryStep, PTL DEF Spec

\* Every line a subscriber should get was delivered, is on its way, or was or will
\* be told as dropped, with a line in the queue that the telling comes with
\* (_on_entry, subscribe, _drain).
THEOREM DropsAreAlwaysTold == Spec => []DropsAreTold
<1>1. DeliveryInv => DropsAreTold
  BY DEF DeliveryInv, SubOK, Accounts, DropsAreTold
<1>2. QED
  BY <1>1, DeliveryAlways, PTL

\* Two sequences in a row.
LEMMA RowInOrder ==
  ASSUME NEW p \in Seq(LineRec), NEW q \in Seq(LineRec), NEW lo \in Nat, NEW hi \in Nat,
         InOrder(p, lo, hi), InOrder(q, lo, hi), Before(p, q)
  PROVE  p \o q \in Seq(LineRec) /\ InOrder(p \o q, lo, hi)
<1> DEFINE r == p \o q
<1>1. /\ r \in Seq(LineRec) /\ Len(p) \in Nat /\ Len(q) \in Nat
      /\ DOMAIN p = 1 .. Len(p) /\ DOMAIN q = 1 .. Len(q)
      /\ DOMAIN r = 1 .. Len(p) + Len(q)
      /\ \A i \in 1 .. Len(p) + Len(q) : r[i] = IF i <= Len(p) THEN p[i] ELSE q[i - Len(p)]
  OBVIOUS
<1> HIDE DEF r
<1>2. \A i \in DOMAIN r : \/ i \in DOMAIN p /\ r[i] = p[i]
                          \/ /\ i > Len(p) /\ i - Len(p) \in DOMAIN q
                             /\ r[i] = q[i - Len(p)]
  BY <1>1
<1>3. \A i \in DOMAIN r : lo < r[i].n /\ r[i].n <= hi
  BY <1>2, Zenon DEF InOrder
<1>4. ASSUME NEW i \in DOMAIN r, NEW j \in DOMAIN r, i < j PROVE r[i].n < r[j].n
  <2>1. CASE i \in DOMAIN p /\ r[i] = p[i] /\ j \in DOMAIN p /\ r[j] = p[j]
    BY <1>4, <2>1 DEF InOrder
  <2>2. CASE /\ i \in DOMAIN p /\ r[i] = p[i]
             /\ j - Len(p) \in DOMAIN q /\ r[j] = q[j - Len(p)]
    BY <2>2, Zenon DEF Before
  <2>3. CASE /\ i > Len(p) /\ i - Len(p) \in DOMAIN q /\ r[i] = q[i - Len(p)]
             /\ j - Len(p) \in DOMAIN q /\ r[j] = q[j - Len(p)]
    <3>1. i - Len(p) < j - Len(p)
      BY <1>1, <1>4
    <3>2. QED
      BY <2>3, <3>1, Zenon DEF InOrder
  <2>4. ~ (i > Len(p) /\ j \in DOMAIN p)
    BY <1>1, <1>4
  <2>5. QED
    BY <1>2, <2>1, <2>2, <2>3, <2>4, Zenon
<1>5. QED
  BY <1>1, <1>3, <1>4 DEF InOrder, r

\* A subscriber gets the lines in the order of the log and none twice, over the
\* end of the replay too (_on_entry, subscribe, _drain).
THEOREM LinesStayInOrder == Spec => []LinesInOrder
<1>1. ASSUME DeliveryInv PROVE LinesInOrder
  <2> SUFFICES ASSUME NEW c \in Clients
               PROVE  LET ahead == sub[c].replay \o sub[c].hand \o sub[c].queue
                      IN /\ \A i \in DOMAIN ahead : sub[c].last < ahead[i].n
                         /\ \A i, j \in DOMAIN ahead : i < j => ahead[i].n < ahead[j].n
    BY DEF LinesInOrder
  <2> DEFINE s == sub[c]
             p == s.replay \o s.hand
  <2>1. SubOK(s, lines) /\ lines \in Nat
    BY <1>1 DEF DeliveryInv
  <2>2. s.replay = <<>> \/ s.hand = <<>>
    BY <2>1 DEF SubOK, Accounts
  <2>3. /\ p \in Seq(LineRec) /\ InOrder(p, s.last, lines) /\ Before(p, s.queue)
    <3>1. \A q \in Seq(LineRec) : q \o <<>> = q /\ <<>> \o q = q
      OBVIOUS
    <3>2. p = s.replay \/ p = s.hand
      BY <2>1, <2>2, <3>1, SubFields, Zenon
    <3>3. QED
      BY <2>1, <3>2, SubFields
  <2>4. InOrder(p \o s.queue, s.last, lines)
    BY <2>1, <2>3, SubFields, RowInOrder
  <2>5. QED
    BY <2>4 DEF InOrder
<1>2. QED
  BY <1>1, DeliveryAlways, PTL
=============================================================================
