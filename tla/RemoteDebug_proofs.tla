-------------------------- MODULE RemoteDebug_proofs --------------------------
(***************************************************************************)
(* The rate limits of raw sends and the accounting of frames, proved for   *)
(* every number of clients, every limit and every queue size.              *)
(***************************************************************************)
EXTENDS RemoteDebug, FiniteSetTheorems, TLAPS

-----------------------------------------------------------------------------
(***************************************************************************)
(* The rate limits                                                         *)
(***************************************************************************)
Slot == [client : Senders, t : Nat]

\* The slots that a send at time t may not forget.
Fresh(i, t) == i \in DOMAIN slots /\ t - slots[i].t < RateWindow

RatesTypeOK ==
  /\ now \in Nat
  /\ slots \in Seq(Slot)
  /\ globalHits \subseteq DOMAIN slots
  /\ IsFiniteSet(DOMAIN hits)
  /\ hits \in [DOMAIN hits -> SUBSET DOMAIN slots]

\* Both tables hold slots that were taken, and every fresh one: that of the
\* clients although it forgets clients.
TablesAreKept ==
  /\ \A i \in DOMAIN slots : slots[i].t <= now
  /\ \A c \in DOMAIN hits : \A i \in hits[c] : slots[i].client = c
  /\ \A i \in DOMAIN slots : Fresh(i, now) =>
       /\ i \in globalHits
       /\ slots[i].client \in DOMAIN hits
       /\ i \in hits[slots[i].client]

\* The limits in every window, not only in those that end with a slot.
LimitsHoldAlways ==
  \A t \in Nat :
    /\ Cardinality(InWindow(t)) <= GlobalLimit
    /\ \A c \in Senders : Cardinality({i \in InWindow(t) : slots[i].client = c}) <= ClientLimit

RatesInv == RatesTypeOK /\ TablesAreKept /\ LimitsHoldAlways

-----------------------------------------------------------------------------
\* Sets of slots are finite.
LEMMA SlotsAreFinite ==
  ASSUME slots \in Seq(Slot), NEW S \in SUBSET DOMAIN slots
  PROVE  IsFiniteSet(S) /\ Cardinality(S) \in Nat
<1>1. IsFiniteSet(DOMAIN slots)
  BY FS_Interval, 1 \in Int, Len(slots) \in Int
<1>2. IsFiniteSet(S)
  BY <1>1, FS_Subset
<1>3. QED
  BY <1>2, FS_CardinalityType

\* A client that is removed from a table with too many, because its last slot is
\* the oldest, has no slot in the window: else every client of the table had one,
\* and these are more than the global limit lets through.
LEMMA OldestIsStale ==
  ASSUME RatesTypeOK, TablesAreKept, NEW t \in Nat, t >= now,
         Cardinality(Recent(globalHits, t)) < GlobalLimit,
         NEW h, IsFiniteSet(DOMAIN h), Cardinality(DOMAIN h) > MaxClients,
         \A e \in DOMAIN h : h[e] \subseteq {i \in DOMAIN slots : slots[i].client = e},
         NEW d \in Oldest(h), NEW i \in h[d]
  PROVE  ~Fresh(i, t)
<1>1. SUFFICES ASSUME Fresh(i, t) PROVE FALSE
  OBVIOUS
<1> DEFINE R == Recent(globalHits, t)
           last == [e \in DOMAIN h |-> CHOOSE j \in h[e] : slots[i].t <= slots[j].t]
<1>2. ASSUME NEW e \in DOMAIN h
      PROVE  last[e] \in R /\ slots[last[e]].client = e
  <2>1. \E j \in h[e] : slots[i].t <= slots[j].t
    BY DEF Oldest, Older
  <2>2. last[e] \in h[e] /\ slots[i].t <= slots[last[e]].t
    BY <2>1
  <2>3. last[e] \in DOMAIN slots /\ slots[last[e]].client = e
    BY <2>2
  <2>4. i \in DOMAIN slots /\ slots[i].t \in Nat /\ slots[last[e]].t \in Nat
    <3>1. i \in DOMAIN slots
      BY <1>1 DEF Fresh
    <3>2. \A k \in DOMAIN slots : slots[k] \in Slot
      BY DEF RatesTypeOK
    <3>3. QED
      BY <2>3, <3>1, <3>2 DEF Slot
  <2>5. t - slots[last[e]].t < RateWindow /\ now - slots[last[e]].t < RateWindow
    <3>1. PICK a, b \in Nat : slots[i].t = a /\ slots[last[e]].t = b
      BY <2>4
    <3>2. a <= b /\ t - a < RateWindow
      BY <1>1, <2>2, <3>1 DEF Fresh
    <3>3. t - b < RateWindow /\ now - b < RateWindow
      BY <3>2, LimitsAssumption DEF RatesTypeOK
    <3>4. QED
      BY <3>1, <3>3
  <2>6. last[e] \in globalHits
    BY <2>3, <2>5 DEF Fresh, TablesAreKept
  <2>7. QED
    BY <2>3, <2>5, <2>6 DEF Recent
<1>3. IsFiniteSet(R) /\ Cardinality(R) \in Nat
  <2>1. R \in SUBSET DOMAIN slots
    BY DEF Recent, RatesTypeOK
  <2>2. QED
    BY <2>1, SlotsAreFinite DEF RatesTypeOK
<1>4. Cardinality(R) < Cardinality(DOMAIN h)
  BY <1>3, FS_CardinalityType, LimitsAssumption
<1>5. last \in [DOMAIN h -> R]
  BY <1>2
<1>6. \E x, y \in DOMAIN h : x # y /\ last[x] = last[y]
  <2> HIDE DEF last, R
  <2>1. QED
    BY <1>3, <1>4, <1>5, FS_PigeonHole
<1>7. QED
  BY <1>2, <1>6

\* One more element, of a set that is below a limit.
LEMMA OneMore ==
  ASSUME NEW T, IsFiniteSet(T), NEW L \in Nat, Cardinality(T) < L,
         NEW i, NEW S \in SUBSET (T \cup {i})
  PROVE  Cardinality(S) <= L
<1>1. IsFiniteSet(T \cup {i}) /\ Cardinality(T \cup {i}) <= Cardinality(T) + 1
  <2>1. /\ IsFiniteSet(T \cup {i})
        /\ \/ Cardinality(T \cup {i}) = Cardinality(T)
           \/ Cardinality(T \cup {i}) = Cardinality(T) + 1
    BY FS_AddElement
  <2>2. Cardinality(T) \in Nat
    BY FS_CardinalityType
  <2>3. QED
    BY <2>1, <2>2
<1>2. Cardinality(S) <= Cardinality(T \cup {i}) /\ Cardinality(S) \in Nat
  BY <1>1, FS_Subset, FS_CardinalityType
<1>3. Cardinality(T) \in Nat /\ Cardinality(T \cup {i}) \in Nat
  BY <1>1, FS_CardinalityType
<1>4. QED
  BY <1>1, <1>2, <1>3

\* A send that takes a slot.
LEMMA TakeSlotKeepsRates ==
  ASSUME RatesInv, NEW c \in Senders, NEW t \in Nat, t >= now, now' = t,
         TakeSlot(c, t)
  PROVE  RatesInv'
<1> DEFINE i == Len(slots) + 1
           pruned == [d \in DOMAIN hits \cup {c} |->
                        IF d = c THEN Recent(HitsOf(c), t) ELSE hits[d]]
<1>1. /\ now \in Nat /\ RateWindow \in Nat /\ GlobalLimit \in Nat /\ ClientLimit \in Nat
      /\ \A k \in DOMAIN slots : slots[k].t \in Nat /\ slots[k].client \in Senders
      /\ \A k \in DOMAIN slots : slots[k].t <= t
      /\ \A k : Fresh(k, t) => Fresh(k, now)
  <2>1. \A k \in DOMAIN slots : slots[k] \in Slot
    BY DEF RatesInv, RatesTypeOK
  <2>2. now \in Nat
    BY DEF RatesInv, RatesTypeOK
  <2>3. \A k \in DOMAIN slots : slots[k].t <= now
    BY DEF RatesInv, TablesAreKept
  <2>4. \A k \in DOMAIN slots : slots[k].t \in Nat /\ slots[k].client \in Senders
    BY <2>1 DEF Slot
  <2>5. \A x \in Nat : x <= now => x <= t
    BY <2>2
  <2>6. \A x \in Nat : t - x < RateWindow => now - x < RateWindow
    BY <2>2, LimitsAssumption
  <2>7. \A k : Fresh(k, t) => Fresh(k, now)
    BY <2>4, <2>6 DEF Fresh
  <2>8. QED
    BY <2>2, <2>3, <2>4, <2>5, <2>7, LimitsAssumption
<1>2. /\ IsFiniteSet(DOMAIN pruned)
      /\ DOMAIN pruned = DOMAIN hits \cup {c}
      /\ \A e \in DOMAIN pruned : pruned[e] \subseteq {k \in DOMAIN slots : slots[k].client = e}
      /\ \A k : Fresh(k, t) => /\ slots[k].client \in DOMAIN pruned
                               /\ k \in pruned[slots[k].client]
  <2>1. IsFiniteSet(DOMAIN pruned)
    BY FS_AddElement DEF RatesInv, RatesTypeOK
  <2>2. \A e \in DOMAIN hits : hits[e] \subseteq {k \in DOMAIN slots : slots[k].client = e}
    BY DEF RatesInv, RatesTypeOK, TablesAreKept
  <2>3. HitsOf(c) \subseteq {k \in DOMAIN slots : slots[k].client = c}
    BY <2>2 DEF HitsOf
  <2>4. \A k : Fresh(k, t) => slots[k].client \in DOMAIN hits /\ k \in hits[slots[k].client]
    BY <1>1 DEF RatesInv, TablesAreKept, Fresh
  <2>5. \A k : Fresh(k, t) /\ slots[k].client = c => k \in Recent(HitsOf(c), t)
    BY <2>4 DEF Recent, HitsOf, Fresh
  <2>6. QED
    BY <2>1, <2>2, <2>3, <2>4, <2>5 DEF Recent
<1>3. PICK h \in Evicted(pruned, c) : hits' = [h EXCEPT ![c] = @ \cup {i}]
  BY DEF TakeSlot
<1>4. /\ IsFiniteSet(DOMAIN h) /\ c \in DOMAIN h
      /\ h = [e \in DOMAIN h |-> h[e]]
      /\ \A e \in DOMAIN h : h[e] \subseteq {k \in DOMAIN slots : slots[k].client = e}
      /\ \A k : Fresh(k, t) => slots[k].client \in DOMAIN h /\ k \in h[slots[k].client]
  <2> HIDE DEF pruned
  <2>0. pruned = [e \in DOMAIN pruned |-> pruned[e]]
    BY DEF pruned
  <2>1. CASE h = pruned
    <3>1. c \in DOMAIN h
      BY <2>1, <1>2
    <3>2. h = [e \in DOMAIN h |-> h[e]]
      BY <2>0, <2>1
    <3>3. QED
      BY <2>1, <3>1, <3>2, <1>2
  <2>2. CASE /\ Cardinality(DOMAIN pruned) > MaxClients
             /\ \E d \in Oldest(pruned) : d # c /\ h = [e \in DOMAIN pruned \ {d} |-> pruned[e]]
    <3>1. PICK d \in Oldest(pruned) : d # c /\ h = [e \in DOMAIN pruned \ {d} |-> pruned[e]]
      BY <2>2
    <3>2. \A k \in pruned[d] : ~Fresh(k, t)
      BY <1>2, <2>2, OldestIsStale DEF RatesInv, TakeSlot, HasSlot
    <3>3. IsFiniteSet(DOMAIN h)
      BY <1>2, <3>1, FS_Subset, DOMAIN h \subseteq DOMAIN pruned
    <3>4. QED
      BY <1>2, <3>1, <3>2, <3>3
  <2>3. QED
    <3>1. \/ Cardinality(DOMAIN pruned) <= MaxClients /\ h = pruned
          \/ /\ ~(Cardinality(DOMAIN pruned) <= MaxClients)
             /\ \E d \in Oldest(pruned) :
                  h = IF d = c THEN pruned ELSE [e \in DOMAIN pruned \ {d} |-> pruned[e]]
      BY <1>3 DEF Evicted
    <3>2. Cardinality(DOMAIN pruned) \in Nat
      BY <1>2, FS_CardinalityType
    <3>3. Cardinality(DOMAIN pruned) <= MaxClients \/ Cardinality(DOMAIN pruned) > MaxClients
      BY <3>2, LimitsAssumption
    <3>4. h = pruned \/ \E d \in Oldest(pruned) :
                          d # c /\ h = [e \in DOMAIN pruned \ {d} |-> pruned[e]]
      BY <3>1
    <3>5. QED
      BY <2>1, <2>2, <3>1, <3>3, <3>4, Zenon
<1>5. /\ slots' \in Seq(Slot)
      /\ i \notin DOMAIN slots /\ DOMAIN slots' = DOMAIN slots \cup {i}
      /\ slots'[i] = [client |-> c, t |-> t]
      /\ \A k \in DOMAIN slots : slots'[k] = slots[k]
  BY DEF TakeSlot, RatesInv, RatesTypeOK, Slot
<1>6. RatesTypeOK'
  <2>1. globalHits' \subseteq DOMAIN slots'
    BY <1>5 DEF TakeSlot, Recent, RatesInv, RatesTypeOK
  <2>2. DOMAIN hits' = DOMAIN h /\ hits' \in [DOMAIN h -> SUBSET DOMAIN slots']
    BY <1>3, <1>4, <1>5
  <2>3. QED
    BY <1>4, <1>5, <2>1, <2>2 DEF RatesTypeOK
<1>7. TablesAreKept'
  <2>1. \A k \in DOMAIN slots' : slots'[k].t <= now'
    BY <1>1, <1>5
  <2>2. \A e \in DOMAIN hits' : \A k \in hits'[e] : slots'[k].client = e
    BY <1>3, <1>4, <1>5
  <2>3. ASSUME NEW k \in DOMAIN slots', t - slots'[k].t < RateWindow
        PROVE  /\ k \in globalHits' /\ slots'[k].client \in DOMAIN hits'
               /\ k \in hits'[slots'[k].client]
    <3>1. CASE k = i
      BY <3>1, <1>3, <1>4, <1>5 DEF TakeSlot
    <3>2. CASE k \in DOMAIN slots
      <4>1. Fresh(k, t) /\ Fresh(k, now)
        BY <2>3, <3>2, <1>1, <1>5 DEF Fresh
      <4>2. k \in globalHits'
        BY <4>1 DEF TakeSlot, Recent, RatesInv, TablesAreKept, Fresh
      <4>3. QED
        BY <4>1, <4>2, <3>2, <1>3, <1>4, <1>5
    <3>3. QED
      BY <3>1, <3>2, <1>5
  <2>4. QED
    BY <2>1, <2>2, <2>3 DEF TablesAreKept, Fresh
<1>8. LimitsHoldAlways'
  <2> SUFFICES ASSUME NEW w \in Nat, NEW e \in Senders
               PROVE  /\ Cardinality(InWindow(w)') <= GlobalLimit
                      /\ Cardinality({k \in InWindow(w)' : slots'[k].client = e}) <= ClientLimit
    <3>1. Senders # {}
      OBVIOUS
    <3>2. QED
      BY <3>1 DEF LimitsHoldAlways
  <2> DEFINE Of(W) == {k \in W : slots[k].client = e}
  <2>1. Cardinality(InWindow(w)) <= GlobalLimit /\ Cardinality(Of(InWindow(w))) <= ClientLimit
    BY DEF RatesInv, LimitsHoldAlways
  <2>2. CASE ~(t <= w /\ w - t < RateWindow)
    <3>1. InWindow(w)' = InWindow(w)
      BY <1>5, <2>2 DEF InWindow
    <3>2. {k \in InWindow(w)' : slots'[k].client = e} = Of(InWindow(w))
      BY <1>5, <3>1 DEF InWindow
    <3>3. QED
      BY <2>1, <3>1, <3>2
  <2>3. CASE t <= w /\ w - t < RateWindow
    <3>1. \A k \in InWindow(w) : Fresh(k, t)
      BY <1>1, <2>3 DEF InWindow, Fresh
    <3>2. InWindow(w) \subseteq Recent(globalHits, t)
      BY <1>1, <3>1 DEF Recent, RatesInv, TablesAreKept, Fresh
    <3>3. {k \in InWindow(w) : slots[k].client = c} \subseteq Recent(HitsOf(c), t)
      BY <1>1, <3>1 DEF Recent, HitsOf, RatesInv, TablesAreKept, Fresh
    <3>4. InWindow(w)' \subseteq InWindow(w) \cup {i}
      BY <1>5 DEF InWindow
    <3>5. Cardinality(InWindow(w)') <= GlobalLimit
      <4>1. IsFiniteSet(Recent(globalHits, t))
        BY SlotsAreFinite DEF Recent, RatesInv, RatesTypeOK
      <4>2. InWindow(w)' \in SUBSET (Recent(globalHits, t) \cup {i})
        BY <3>2, <3>4
      <4>3. QED
        BY <1>1, <4>1, <4>2, OneMore DEF TakeSlot, HasSlot
    <3>6. CASE e = c
      <4>1. IsFiniteSet(Recent(HitsOf(c), t))
        BY SlotsAreFinite DEF Recent, HitsOf, RatesInv, RatesTypeOK
      <4>2. {k \in InWindow(w)' : slots'[k].client = e} \in SUBSET (Recent(HitsOf(c), t) \cup {i})
        BY <1>5, <3>3, <3>4, <3>6 DEF InWindow
      <4>3. QED
        BY <1>1, <3>5, <4>1, <4>2, OneMore DEF TakeSlot, HasSlot
    <3>7. CASE e # c
      <4>1. {k \in InWindow(w)' : slots'[k].client = e} = Of(InWindow(w))
        BY <1>5, <3>7 DEF InWindow
      <4>2. QED
        BY <2>1, <3>5, <4>1
    <3>8. QED
      BY <3>6, <3>7
  <2>4. QED
    BY <2>2, <2>3
<1>9. QED
  BY <1>6, <1>7, <1>8 DEF RatesInv

\* Time goes on, or tables are pruned: what is still fresh was fresh.
LEMMA PruningKeepsRates ==
  ASSUME RatesInv, NEW t \in Nat, t >= now, now' = t, UNCHANGED slots,
         globalHits' \in SUBSET globalHits,
         \A k \in globalHits : Fresh(k, t) => k \in globalHits',
         IsFiniteSet(DOMAIN hits'), DOMAIN hits \subseteq DOMAIN hits',
         hits' = [d \in DOMAIN hits' |-> hits'[d]],
         \A d \in DOMAIN hits' : hits'[d] \subseteq HitsOf(d),
         \A d \in DOMAIN hits : \A k \in hits[d] : Fresh(k, t) => k \in hits'[d]
  PROVE  RatesInv'
<1>1. \A k \in DOMAIN slots : slots[k].t \in Nat
  <2>1. \A k \in DOMAIN slots : slots[k] \in Slot
    BY DEF RatesInv, RatesTypeOK
  <2>2. QED
    BY <2>1 DEF Slot
<1>2. now \in Nat /\ RateWindow \in Nat
  BY LimitsAssumption DEF RatesInv, RatesTypeOK
<1>3. \A k : Fresh(k, t) => Fresh(k, now)
  BY <1>1, <1>2 DEF Fresh
<1>4. \A d \in DOMAIN hits : hits[d] \subseteq DOMAIN slots /\ \A k \in hits[d] : slots[k].client = d
  BY DEF RatesInv, RatesTypeOK, TablesAreKept
<1>5. \A d \in DOMAIN hits' : hits'[d] \subseteq DOMAIN slots /\ \A k \in hits'[d] : slots[k].client = d
  BY <1>4 DEF HitsOf
<1>6. RatesTypeOK'
  BY <1>5 DEF RatesInv, RatesTypeOK
<1>7. TablesAreKept'
  <2>1. \A k \in DOMAIN slots : slots[k].t <= now'
    BY <1>1, <1>2 DEF RatesInv, TablesAreKept
  <2>2. ASSUME NEW k \in DOMAIN slots, Fresh(k, t)
        PROVE  k \in globalHits' /\ slots[k].client \in DOMAIN hits' /\ k \in hits'[slots[k].client]
    <3>1. k \in globalHits /\ slots[k].client \in DOMAIN hits /\ k \in hits[slots[k].client]
      BY <1>3, <2>2 DEF RatesInv, TablesAreKept
    <3>2. QED
      BY <2>2, <3>1
  <2>3. QED
    BY <1>5, <2>1, <2>2 DEF TablesAreKept, Fresh
<1>8. LimitsHoldAlways'
  BY DEF RatesInv, LimitsHoldAlways, InWindow
<1>9. QED
  BY <1>6, <1>7, <1>8 DEF RatesInv

LEMMA RatesInit == Init => RatesInv
<1> SUFFICES ASSUME Init PROVE RatesInv
  OBVIOUS
<1>1. DOMAIN hits = {} /\ DOMAIN slots = {} /\ globalHits = {}
  BY DEF Init
<1>2. hits \in [DOMAIN hits -> SUBSET DOMAIN slots] /\ slots \in Seq(Slot) /\ now \in Nat
  BY DEF Init
<1>3. RatesTypeOK
  BY <1>1, <1>2, FS_EmptySet DEF RatesTypeOK
<1>4. TablesAreKept
  BY <1>1 DEF TablesAreKept, Fresh
<1>5. LimitsHoldAlways
  <2> SUFFICES ASSUME NEW t \in Nat
               PROVE  /\ Cardinality(InWindow(t)) <= GlobalLimit
                      /\ \A c \in Senders :
                           Cardinality({i \in InWindow(t) : slots[i].client = c}) <= ClientLimit
    BY DEF LimitsHoldAlways
  <2>1. InWindow(t) = {}
    BY <1>1 DEF InWindow
  <2>2. \A c \in Senders : {i \in InWindow(t) : slots[i].client = c} = {}
    BY <2>1
  <2>3. Cardinality({}) = 0
    BY FS_EmptySet
  <2>4. QED
    BY <2>1, <2>2, <2>3, LimitsAssumption
<1>6. QED
  BY <1>3, <1>4, <1>5 DEF RatesInv

LEMMA RatesStep == RatesInv /\ [Next]_vars => RatesInv'
<1> SUFFICES ASSUME RatesInv, [Next]_vars PROVE RatesInv'
  OBVIOUS
<1>0. now \in Nat /\ hits = [d \in DOMAIN hits |-> hits[d]] /\ IsFiniteSet(DOMAIN hits)
  BY DEF RatesInv, RatesTypeOK
<1>1. CASE UNCHANGED <<now, rates>>
  <2>1. now' = now /\ slots' = slots /\ hits' = hits /\ globalHits' = globalHits
    BY <1>1 DEF rates
  <2>2. RatesTypeOK'
    BY <2>1 DEF RatesInv, RatesTypeOK
  <2>3. TablesAreKept'
    BY <2>1 DEF RatesInv, TablesAreKept, Fresh
  <2>4. LimitsHoldAlways'
    BY <2>1 DEF RatesInv, LimitsHoldAlways, InWindow
  <2>5. QED
    BY <2>2, <2>3, <2>4 DEF RatesInv
<1>2. ASSUME NEW t \in Nat, NEW c \in Senders, RawSend(c, t) PROVE RatesInv'
  BY <1>2, TakeSlotKeepsRates DEF RawSend
<1>3. ASSUME NEW t \in Nat, NEW c \in Senders, RawSendRefused(c, t) PROVE RatesInv'
  <2>1. /\ t >= now /\ now' = t /\ UNCHANGED slots /\ globalHits' = Recent(globalHits, t)
        /\ \/ hits' = hits
           \/ hits' = [d \in DOMAIN hits \cup {c} |->
                         IF d = c THEN Recent(HitsOf(c), t) ELSE hits[d]]
    BY <1>3 DEF RawSendRefused
  <2>2. IsFiniteSet(DOMAIN hits \cup {c})
    BY <1>0, FS_AddElement
  <2>3. globalHits' \in SUBSET globalHits /\ \A k \in globalHits : Fresh(k, t) => k \in globalHits'
    BY <2>1 DEF Recent, Fresh
  <2>4. /\ IsFiniteSet(DOMAIN hits') /\ DOMAIN hits \subseteq DOMAIN hits'
        /\ hits' = [d \in DOMAIN hits' |-> hits'[d]]
    BY <1>0, <2>1, <2>2
  <2>5. \A d \in DOMAIN hits' : hits'[d] \subseteq HitsOf(d)
    BY <2>1 DEF Recent, HitsOf
  <2>6. \A d \in DOMAIN hits : \A k \in hits[d] : Fresh(k, t) => k \in hits'[d]
    BY <2>1 DEF Recent, HitsOf, Fresh
  <2>7. QED
    BY <2>1, <2>3, <2>4, <2>5, <2>6, PruningKeepsRates
<1>4. ASSUME NEW t \in Nat, Elapse(t) PROVE RatesInv'
  <2>1. t >= now /\ now' = t /\ UNCHANGED rates
    BY <1>0, <1>4 DEF Elapse, raw
  <2>2. \A d \in DOMAIN hits' : hits'[d] \subseteq HitsOf(d)
    BY <2>1 DEF rates, HitsOf
  <2>3. QED
    BY <1>0, <2>1, <2>2, PruningKeepsRates DEF rates
<1>5. CASE Traffic \/ (\E c \in Clients : ClientStep(c)) \/ RawSendDone \/ StopApi \/ StopBus
  <2>1. UNCHANGED <<now, rates>>
    BY <1>5 DEF Traffic, ClientStep, Subscribe, Subscribed, Drain, SendHand, Leave,
                RawSendDone, StopApi, StopBus, raw
  <2>2. QED
    BY <1>1, <2>1
<1>6. CASE UNCHANGED vars
  BY <1>1, <1>6 DEF vars, raw
<1>7. QED
  BY <1>2, <1>3, <1>4, <1>5, <1>6 DEF Next, StepAt

\* docs/api/rest.md: no client gets more raw sends through than its limit, and
\* all together no more than the global limit, in any window (_take_slot),
\* whatever the table of clients forgets and in whatever order clients come.
THEOREM LimitsAlwaysHold == Spec => []LimitsHold
<1>1. RatesInv => LimitsHold
  <2> SUFFICES ASSUME RatesInv PROVE LimitsHold
    OBVIOUS
  <2>1. \A i \in DOMAIN slots : slots[i] \in Slot
    BY DEF RatesInv, RatesTypeOK
  <2>2. {slots[i].t : i \in DOMAIN slots} \subseteq Nat
    BY <2>1 DEF Slot
  <2>3. QED
    BY <2>2 DEF RatesInv, LimitsHoldAlways, LimitsHold
<1>2. QED
  BY <1>1, RatesInit, RatesStep, PTL DEF Spec
-----------------------------------------------------------------------------
(***************************************************************************)
(* Frames                                                                  *)
(***************************************************************************)
Phases == {"none", "asking", "ready", "telling"}
Subscription == [phase : Phases, queue : Seq(Nat), dropped : Nat, hand : Seq(Nat),
                 from : Nat, got : Nat, told : Nat, last : Nat]

\* The frame in hand of a client that is told of dropped ones, and no other.
HandFits(s) == Len(s.hand) = IF s.phase = "telling" THEN 1 ELSE 0

\* Every frame of the first n since the client asked is in one place, and what
\* is dropped will be told with a frame of the queue.
Accounted(s, n) ==
  /\ n - s.from = s.got + s.told + s.dropped + Len(s.hand) + Len(s.queue)
  /\ s.dropped > 0 => Len(s.queue) > 0

\* What the client gets next is newer than what it got, in the order of the bus.
Ascending(s, n) ==
  /\ s.last <= n
  /\ \A i \in DOMAIN s.queue : s.last < s.queue[i] /\ s.queue[i] <= n
  /\ \A i, j \in DOMAIN s.queue : i < j => s.queue[i] < s.queue[j]
  /\ s.phase = "telling" =>
       /\ s.last < s.hand[1] /\ s.hand[1] <= n
       /\ \A i \in DOMAIN s.queue : s.hand[1] < s.queue[i]

Good(s, n) ==
  /\ s \in Subscription
  /\ s.phase # "none" => HandFits(s) /\ Accounted(s, n) /\ Ascending(s, n)

HubInv ==
  /\ frames \in Nat
  /\ \A c \in Clients : sub[c].phase # "none" => attached
  /\ sub = [c \in Clients |-> sub[c]]
  /\ \A c \in Clients : Good(sub[c], frames)

\* The fields of a subscription.
LEMMA Fields ==
  ASSUME NEW s \in Subscription
  PROVE  /\ s.phase \in Phases /\ s.queue \in Seq(Nat) /\ s.hand \in Seq(Nat)
         /\ s.dropped \in Nat /\ s.from \in Nat /\ s.got \in Nat /\ s.told \in Nat /\ s.last \in Nat
BY DEF Subscription

\* A subscriber is offered the next frame.
LEMMA OfferKeepsGood ==
  ASSUME NEW n \in Nat, NEW s, Good(s, n)
  PROVE  Good(Offer(s, n + 1), n + 1) /\ Offer(s, n + 1).phase = s.phase
<1>0. s \in Subscription
  BY DEF Good
<1>00. /\ s.queue \in Seq(Nat) /\ s.hand \in Seq(Nat) /\ Len(s.queue) \in Nat /\ Len(s.hand) \in Nat
       /\ s.dropped \in Nat /\ s.from \in Nat /\ s.got \in Nat /\ s.told \in Nat /\ s.last \in Nat
  BY <1>0, Fields
<1>01. PICK f, g, t, d, h, l \in Nat : /\ s.from = f /\ s.got = g /\ s.told = t /\ s.dropped = d
                                       /\ Len(s.hand) = h /\ Len(s.queue) = l
  BY <1>00
<1>1. CASE s.phase = "none"
  BY <1>1 DEF Offer, Good
<1>2. CASE s.phase # "none" /\ Len(s.queue) < QueueSize
  <2> DEFINE q == Append(s.queue, n + 1)
             o == [s EXCEPT !.queue = q]
  <2>0. q \in Seq(Nat) /\ Len(q) = Len(s.queue) + 1 /\ DOMAIN q = 1..Len(q)
        /\ DOMAIN s.queue = 1..Len(s.queue) /\ Len(s.queue) \in Nat
        /\ \A i \in DOMAIN q : q[i] = IF i = Len(q) THEN n + 1 ELSE s.queue[i]
    BY <1>0, Fields
  <2>1. Offer(s, n + 1) = o
    BY <1>2 DEF Offer
  <2> HIDE DEF q
  <2>2. o \in Subscription
    BY <1>0, <2>0 DEF Subscription
  <2>3. o.queue = q /\ o.hand = s.hand /\ o.phase = s.phase
    BY <1>0 DEF Subscription
  <2>4. o.dropped = s.dropped /\ o.from = s.from /\ o.got = s.got /\ o.told = s.told /\ o.last = s.last
    BY <1>0 DEF Subscription
  <2> HIDE DEF o
  <2>5. HandFits(o)
    BY <1>2, <2>3 DEF Good, HandFits
  <2>6. Accounted(o, n + 1)
    <3>1. Accounted(s, n) /\ Len(s.hand) \in Nat
      BY <1>2, <1>0, Fields DEF Good
    <3>2. QED
      <4>1. Len(o.queue) = Len(s.queue) + 1 /\ Len(o.hand) = Len(s.hand)
        BY <2>0, <2>3
      <4>2. n - f = g + t + d + h + l
        BY <1>01, <3>1 DEF Accounted
      <4>3. (n + 1) - f = g + t + d + h + (l + 1) /\ l + 1 > 0
        BY <4>2
      <4>4. QED
        BY <1>01, <2>4, <4>1, <4>3 DEF Accounted
  <2>7. Ascending(o, n + 1)
    <3>1. Ascending(s, n)
      BY <1>2 DEF Good
    <3>2. \A i \in DOMAIN s.queue : s.queue[i] \in Nat
      BY <1>0, Fields
    <3>3. s.phase = "telling" => s.hand[1] \in Nat
      BY <1>2, <1>0, Fields DEF Good, HandFits
    <3>4. QED
      <4>1. \A x \in Nat : x <= n => x <= n + 1 /\ x < n + 1
        OBVIOUS
      <4>2. \A i \in DOMAIN q : \/ q[i] = n + 1 /\ i = Len(q)
                                \/ i \in DOMAIN s.queue /\ q[i] = s.queue[i]
        BY <2>0
      <4>3. o.last <= n + 1 /\ \A i \in DOMAIN q : o.last < q[i] /\ q[i] <= n + 1
        <5>1. s.last <= n /\ s.last \in Nat
          BY <1>00, <3>1 DEF Ascending
        <5>2. \A i \in DOMAIN s.queue : s.last < s.queue[i] /\ s.queue[i] <= n + 1
          BY <3>1, <3>2, <4>1 DEF Ascending
        <5>3. n + 1 <= n + 1 /\ s.last <= n + 1 /\ s.last < n + 1
          BY <4>1, <5>1
        <5>4. QED
          BY <2>4, <4>2, <5>2, <5>3
      <4>4. \A i, j \in DOMAIN q : i < j => q[i] < q[j]
        <5>1. \A i, j \in DOMAIN q : i < j => i # Len(q)
          BY <2>0
        <5>2. \A i \in DOMAIN s.queue : s.queue[i] < n + 1
          BY <3>1, <3>2, <4>1 DEF Ascending
        <5>3. \A i, j \in DOMAIN s.queue : i < j => s.queue[i] < s.queue[j]
          BY <3>1 DEF Ascending
        <5>4. QED
          BY <4>2, <5>1, <5>2, <5>3
      <4>5. s.phase = "telling" => /\ s.last < s.hand[1] /\ s.hand[1] <= n + 1
                                   /\ \A i \in DOMAIN q : s.hand[1] < q[i]
        <5>1. s.phase = "telling" => /\ s.last < s.hand[1] /\ s.hand[1] <= n
                                     /\ \A i \in DOMAIN s.queue : s.hand[1] < s.queue[i]
          BY <3>1 DEF Ascending
        <5>2. QED
          BY <3>3, <4>1, <4>2, <5>1
      <4>6. QED
        BY <2>3, <2>4, <4>3, <4>4, <4>5 DEF Ascending
  <2>8. QED
    BY <2>1, <2>2, <2>3, <2>5, <2>6, <2>7 DEF Good
<1>3. CASE s.phase # "none" /\ ~(Len(s.queue) < QueueSize)
  <2>0. PICK e \in Nat : e = d + 1
    OBVIOUS
  <2> DEFINE o == [s EXCEPT !.dropped = e]
  <2>1. Offer(s, n + 1) = o
    BY <1>01, <1>3, <2>0 DEF Offer
  <2>2. o \in Subscription
    BY <1>0 DEF Subscription
  <2>3. o.queue = s.queue /\ o.hand = s.hand /\ o.phase = s.phase
    BY <1>0 DEF Subscription
  <2>4. o.dropped = e /\ o.from = s.from /\ o.got = s.got /\ o.told = s.told /\ o.last = s.last
    BY <1>0 DEF Subscription
  <2> HIDE DEF o
  <2>5. HandFits(o)
    BY <1>3, <2>3 DEF Good, HandFits
  <2>6. Accounted(o, n + 1)
    <3>1. Accounted(s, n) /\ Len(s.hand) \in Nat /\ Len(s.queue) \in Nat
      BY <1>3, <1>0, Fields DEF Good
    <3>2. QED
      <4>1. Len(o.queue) = Len(s.queue) /\ Len(o.hand) = Len(s.hand) /\ Len(s.queue) > 0
        BY <1>00, <1>3, <2>3, QueueSizeAssumption
      <4>2. n - f = g + t + d + h + l
        BY <1>01, <3>1 DEF Accounted
      <4>3. (n + 1) - f = g + t + (d + 1) + h + l
        BY <4>2
      <4>4. QED
        BY <1>01, <2>0, <2>4, <4>1, <4>3 DEF Accounted
  <2>7. Ascending(o, n + 1)
    <3>1. Ascending(s, n)
      BY <1>3 DEF Good
    <3>2. \A i \in DOMAIN s.queue : s.queue[i] \in Nat
      BY <1>0, Fields
    <3>3. s.phase = "telling" => s.hand[1] \in Nat
      BY <1>3, <1>0, Fields DEF Good, HandFits
    <3>4. QED
      BY <2>3, <2>4, <3>1, <3>2, <3>3, <1>0, Fields DEF Ascending
  <2>8. QED
    BY <2>1, <2>2, <2>3, <2>5, <2>6, <2>7 DEF Good
<1>4. QED
  BY <1>1, <1>2, <1>3

\* The drain task takes the next frame from a queue.
LEMMA DrainKeepsGood ==
  ASSUME NEW n \in Nat, NEW s, Good(s, n), s.phase = "ready", s.queue # <<>>
  PROVE  /\ s.dropped = 0 => Good([Got(s, Head(s.queue)) EXCEPT !.queue = Tail(@)], n)
         /\ Good([s EXCEPT !.phase = "telling", !.hand = <<Head(s.queue)>>, !.queue = Tail(@),
                             !.told = @ + s.dropped, !.dropped = 0], n)
<1>0. s \in Subscription /\ HandFits(s) /\ Accounted(s, n) /\ Ascending(s, n)
  BY DEF Good
<1>1. /\ s.queue \in Seq(Nat) /\ s.hand \in Seq(Nat) /\ s.dropped \in Nat /\ s.from \in Nat
      /\ s.got \in Nat /\ s.told \in Nat /\ s.last \in Nat
  BY <1>0, Fields
<1>2. PICK q \in Seq(Nat), m \in Nat : q = Tail(s.queue) /\ m = Head(s.queue)
  <2>1. Tail(s.queue) \in Seq(Nat)
    BY <1>1
  <2>2. Head(s.queue) \in Nat
    BY <1>1
  <2>3. QED
    BY <2>1, <2>2
<1>3. /\ Len(q) \in Nat /\ Len(s.queue) = Len(q) + 1 /\ DOMAIN q = 1..Len(q)
      /\ DOMAIN s.queue = 1..Len(s.queue)
  BY <1>1, <1>2
<1>4. m = s.queue[1] /\ \A i \in DOMAIN q : q[i] = s.queue[i + 1]
  BY <1>1, <1>2, <1>3
<1>5. 1 \in DOMAIN s.queue /\ \A i \in DOMAIN q : i \in Int /\ i + 1 \in DOMAIN s.queue /\ 1 < i + 1
  BY <1>3
<1>6. Len(s.hand) = 0
  BY <1>0 DEF HandFits
<1>7. PICK f, g, t, d, l \in Nat : /\ s.from = f /\ s.got = g /\ s.told = t /\ s.dropped = d
                                   /\ Len(q) = l /\ Len(s.queue) = l + 1
  BY <1>1, <1>3
<1>8. n - f = g + t + d + 0 + (l + 1)
  BY <1>0, <1>6, <1>7 DEF Accounted
<1>9. /\ s.last < m /\ m <= n
      /\ \A i \in DOMAIN q : m < q[i] /\ q[i] <= n
      /\ \A i \in DOMAIN q : s.last < q[i]
  BY <1>0, <1>4, <1>5 DEF Ascending
<1>10. \A i, j \in DOMAIN q : i < j => q[i] < q[j]
  <2>1. \A i, j \in DOMAIN q : i < j => i + 1 < j + 1
    BY <1>5
  <2>2. QED
    BY <1>0, <1>4, <1>5, <2>1 DEF Ascending
<1>11. ASSUME s.dropped = 0 PROVE Good([Got(s, Head(s.queue)) EXCEPT !.queue = Tail(@)], n)
  <2>0. PICK e \in Nat : e = g + 1
    OBVIOUS
  <2> DEFINE o == [s EXCEPT !.got = e, !.last = m, !.queue = q]
  <2>1. [Got(s, Head(s.queue)) EXCEPT !.queue = Tail(@)] = o
    BY <1>0, <1>2, <1>7, <2>0 DEF Got, Subscription
  <2>2. o \in Subscription
    BY <1>0 DEF Subscription
  <2>3. o.queue = q /\ o.hand = s.hand /\ o.phase = "ready" /\ o.last = m
    BY <1>0 DEF Subscription
  <2>4. o.dropped = d /\ o.from = f /\ o.got = e /\ o.told = t
    BY <1>0, <1>7 DEF Subscription
  <2> HIDE DEF o
  <2>5. HandFits(o)
    BY <1>6, <2>3 DEF HandFits
  <2>6. Accounted(o, n)
    <3>1. n - f = e + t + d + 0 + l /\ ~(d > 0)
      BY <1>7, <1>8, <1>11, <2>0
    <3>2. Len(o.hand) = 0 /\ Len(o.queue) = l
      BY <1>6, <1>7, <2>3
    <3>3. QED
      BY <2>4, <3>1, <3>2 DEF Accounted
  <2>7. Ascending(o, n)
    BY <1>9, <1>10, <2>3 DEF Ascending
  <2>8. QED
    BY <2>1, <2>2, <2>5, <2>6, <2>7 DEF Good
<1>12. Good([s EXCEPT !.phase = "telling", !.hand = <<Head(s.queue)>>, !.queue = Tail(@),
                      !.told = @ + s.dropped, !.dropped = 0], n)
  <2>0. PICK e \in Nat : e = t + d
    OBVIOUS
  <2>00. PICK w \in Seq(Nat) : w = <<m>> /\ Len(w) = 1 /\ w[1] = m
    <3>1. <<m>> \in Seq(Nat) /\ Len(<<m>>) = 1 /\ <<m>>[1] = m
      OBVIOUS
    <3>2. QED
      BY <3>1
  <2> DEFINE o == [s EXCEPT !.phase = "telling", !.hand = w, !.queue = q, !.told = e, !.dropped = 0]
  <2>1. [s EXCEPT !.phase = "telling", !.hand = <<Head(s.queue)>>, !.queue = Tail(@),
                  !.told = @ + s.dropped, !.dropped = 0] = o
    BY <1>0, <1>2, <1>7, <2>0, <2>00 DEF Subscription
  <2>2. o \in Subscription
    BY <1>0 DEF Subscription, Phases
  <2>3. o.queue = q /\ o.hand = w /\ o.phase = "telling" /\ o.last = s.last
    BY <1>0 DEF Subscription
  <2>4. o.dropped = 0 /\ o.from = f /\ o.got = g /\ o.told = e
    BY <1>0, <1>7 DEF Subscription
  <2> HIDE DEF o
  <2>5. HandFits(o)
    BY <2>00, <2>3 DEF HandFits
  <2>6. Accounted(o, n)
    <3>1. n - f = g + (t + d) + 0 + 1 + l
      BY <1>8
    <3>2. QED
      BY <1>7, <2>0, <2>00, <2>3, <2>4, <3>1 DEF Accounted
  <2>7. Ascending(o, n)
    <3>1. s.last <= n
      BY <1>0 DEF Ascending
    <3>2. QED
      BY <1>9, <1>10, <2>00, <2>3, <3>1 DEF Ascending
  <2>8. QED
    BY <2>1, <2>2, <2>5, <2>6, <2>7 DEF Good
<1>13. QED
  BY <1>11, <1>12

\* The client took the telling: the frame in hand is delivered.
LEMMA SendHandKeepsGood ==
  ASSUME NEW n \in Nat, NEW s, Good(s, n), s.phase = "telling"
  PROVE  Good([Got(s, s.hand[1]) EXCEPT !.phase = "ready", !.hand = <<>>], n)
<1>0. s \in Subscription /\ HandFits(s) /\ Accounted(s, n) /\ Ascending(s, n)
  BY DEF Good
<1>1. /\ s.queue \in Seq(Nat) /\ s.hand \in Seq(Nat) /\ s.dropped \in Nat /\ s.from \in Nat
      /\ s.got \in Nat /\ s.told \in Nat /\ s.last \in Nat
  BY <1>0, Fields
<1>2. Len(s.hand) = 1
  BY <1>0 DEF HandFits
<1>3. PICK f, g, t, d, l, m \in Nat : /\ s.from = f /\ s.got = g /\ s.told = t /\ s.dropped = d
                                      /\ Len(s.queue) = l /\ s.hand[1] = m
  <2>1. s.hand[1] \in Nat /\ Len(s.queue) \in Nat
    BY <1>1, <1>2
  <2>2. QED
    BY <1>1, <2>1
<1>4. n - f = g + t + d + 1 + l /\ (d > 0 => l > 0)
  BY <1>0, <1>2, <1>3 DEF Accounted
<1>5. PICK e \in Nat : e = g + 1
  OBVIOUS
<1>6. PICK w \in Seq(Nat) : w = <<>> /\ Len(w) = 0
  <2>1. <<>> \in Seq(Nat) /\ Len(<<>>) = 0
    OBVIOUS
  <2>2. QED
    BY <2>1
<1> DEFINE o == [s EXCEPT !.got = e, !.last = m, !.phase = "ready", !.hand = w]
<1>7. [Got(s, s.hand[1]) EXCEPT !.phase = "ready", !.hand = <<>>] = o
  BY <1>0, <1>3, <1>5, <1>6 DEF Got, Subscription
<1>8. o \in Subscription
  BY <1>0 DEF Subscription, Phases
<1>9. o.queue = s.queue /\ o.hand = w /\ o.phase = "ready" /\ o.last = m
  BY <1>0 DEF Subscription
<1>10. o.dropped = d /\ o.from = f /\ o.got = e /\ o.told = t
  BY <1>0, <1>3 DEF Subscription
<1> HIDE DEF o
<1>11. HandFits(o)
  BY <1>6, <1>9 DEF HandFits
<1>12. Accounted(o, n)
  <2>1. n - f = (g + 1) + t + d + 0 + l
    BY <1>4
  <2>2. QED
    BY <1>3, <1>4, <1>5, <1>6, <1>9, <1>10, <2>1 DEF Accounted
<1>13. Ascending(o, n)
  BY <1>0, <1>3, <1>9 DEF Ascending
<1>14. QED
  BY <1>7, <1>8, <1>11, <1>12, <1>13 DEF Good

\* A new subscription starts with the next frame, an ended one says nothing.
LEMMA NewIsGood ==
  ASSUME frames \in Nat
  PROVE  /\ Good(Asking, frames) /\ Asking.phase = "asking"
         /\ \A n \in Nat : Good(NoSub, n) /\ NoSub.phase = "none"
<1>1. NoSub \in Subscription /\ NoSub.phase = "none"
  BY DEF NoSub, Subscription, Phases
<1>2. /\ NoSub.queue = <<>> /\ NoSub.hand = <<>> /\ NoSub.dropped = 0
      /\ NoSub.got = 0 /\ NoSub.told = 0
  BY DEF NoSub
<1>3. Asking \in Subscription
  BY <1>1 DEF Asking, Subscription, Phases
<1>4. /\ Asking.phase = "asking" /\ Asking.from = frames /\ Asking.last = frames
      /\ Asking.queue = NoSub.queue /\ Asking.hand = NoSub.hand /\ Asking.dropped = NoSub.dropped
      /\ Asking.got = NoSub.got /\ Asking.told = NoSub.told
  BY <1>1 DEF Asking, Subscription
<1>5. HandFits(Asking)
  BY <1>2, <1>4 DEF HandFits
<1>6. Accounted(Asking, frames)
  BY <1>2, <1>4 DEF Accounted
<1>7. Ascending(Asking, frames)
  BY <1>2, <1>4 DEF Ascending
<1>8. QED
  BY <1>1, <1>3, <1>4, <1>5, <1>6, <1>7 DEF Good

LEMMA HubInit == Init => HubInv
<1> SUFFICES ASSUME Init PROVE HubInv
  OBVIOUS
<1>1. frames \in Nat /\ sub = [c \in Clients |-> NoSub]
  BY DEF Init
<1>2. QED
  BY <1>1, NewIsGood DEF HubInv

\* A step of one client.
LEMMA OneClientKeepsHub ==
  ASSUME HubInv, NEW c \in Clients, NEW s, Good(s, frames),
         s.phase # "none" => attached', sub[c].phase = "none" \/ attached',
         UNCHANGED frames, attached => attached',
         sub' = [sub EXCEPT ![c] = s]
  PROVE  HubInv'
<1>1. sub = [d \in Clients |-> sub[d]]
  BY DEF HubInv
<1>2. sub' = [d \in Clients |-> IF d = c THEN s ELSE sub[d]]
  BY <1>1
<1>3. QED
  BY <1>2 DEF HubInv

\* A frame on the bus.
LEMMA EmitKeepsHub == HubInv /\ Emit => HubInv'
<1> SUFFICES ASSUME HubInv, Emit PROVE HubInv'
  OBVIOUS
<1>1. frames \in Nat /\ frames' = frames + 1 /\ attached' = attached
  BY DEF HubInv, Emit
<1>2. CASE attached
  <2>1. sub' = [c \in Clients |-> Offer(sub[c], frames + 1)]
    BY <1>1, <1>2 DEF Emit
  <2>2. \A c \in Clients : Good(Offer(sub[c], frames + 1), frames + 1)
    BY <1>1, OfferKeepsGood DEF HubInv
  <2>3. QED
    BY <1>1, <1>2, <2>1, <2>2 DEF HubInv
<1>3. CASE ~attached
  <2>1. sub' = sub
    BY <1>3 DEF Emit
  <2>2. \A c \in Clients : Good(sub[c], frames + 1)
    BY <1>3 DEF HubInv, Good
  <2>3. QED
    BY <1>1, <1>3, <2>1, <2>2 DEF HubInv
<1>4. QED
  BY <1>2, <1>3

LEMMA HubStep == HubInv /\ [Next]_vars => HubInv'
<1> SUFFICES ASSUME HubInv, [Next]_vars PROVE HubInv'
  OBVIOUS
<1>0. frames \in Nat /\ \A c \in Clients : Good(sub[c], frames)
  BY DEF HubInv
<1>1. CASE Traffic \/ \E t \in Nat, c \in Senders : RawSend(c, t)
  BY <1>1, EmitKeepsHub DEF Traffic, RawSend
<1>2. ASSUME NEW c \in Clients, Subscribe(c) PROVE HubInv'
  <2>1. Good(Asking, frames) /\ attached' /\ frames' = frames /\ sub' = [sub EXCEPT ![c] = Asking]
    BY <1>0, <1>2, NewIsGood DEF Subscribe
  <2>2. QED
    BY <2>1, OneClientKeepsHub
<1>3. ASSUME NEW c \in Clients, Subscribed(c) PROVE HubInv'
  <2> DEFINE s == [sub[c] EXCEPT !.phase = "ready"]
  <2>1. Good(s, frames)
    <3>1. sub[c] \in Subscription
      BY <1>0 DEF Good
    <3>2. s \in Subscription
      BY <3>1 DEF Subscription, Phases
    <3>3. /\ s.phase = "ready" /\ s.queue = sub[c].queue /\ s.hand = sub[c].hand
          /\ s.dropped = sub[c].dropped /\ s.from = sub[c].from /\ s.got = sub[c].got
          /\ s.told = sub[c].told /\ s.last = sub[c].last
      BY <3>1 DEF Subscription
    <3> HIDE DEF s
    <3>4. HandFits(sub[c]) /\ Accounted(sub[c], frames) /\ Ascending(sub[c], frames)
          /\ sub[c].phase = "asking"
      BY <1>0, <1>3 DEF Good, Subscribed
    <3>5. HandFits(s)
      BY <3>3, <3>4 DEF HandFits
    <3>6. Accounted(s, frames)
      BY <3>3, <3>4 DEF Accounted
    <3>7. Ascending(s, frames)
      BY <3>3, <3>4 DEF Ascending
    <3>8. QED
      BY <3>2, <3>5, <3>6, <3>7 DEF Good
  <2>2. attached' = attached /\ attached /\ frames' = frames /\ sub' = [sub EXCEPT ![c] = s]
    BY <1>3 DEF Subscribed, HubInv
  <2> HIDE DEF s
  <2>3. QED
    BY <2>1, <2>2, OneClientKeepsHub
<1>4. ASSUME NEW c \in Clients, Drain(c) PROVE HubInv'
  <2>1. attached' = attached /\ attached /\ frames' = frames
    BY <1>4 DEF Drain, HubInv
  <2>2. PICK s : Good(s, frames) /\ sub' = [sub EXCEPT ![c] = s]
    BY <1>0, <1>4, DrainKeepsGood DEF Drain
  <2>3. QED
    BY <2>1, <2>2, OneClientKeepsHub
<1>5. ASSUME NEW c \in Clients, SendHand(c) PROVE HubInv'
  <2>1. attached' = attached /\ attached /\ frames' = frames
    BY <1>5 DEF SendHand, HubInv
  <2>2. PICK s : Good(s, frames) /\ sub' = [sub EXCEPT ![c] = s]
    BY <1>0, <1>5, SendHandKeepsGood DEF SendHand
  <2>3. QED
    BY <2>1, <2>2, OneClientKeepsHub
<1>6. ASSUME NEW c \in Clients, Leave(c) PROVE HubInv'
  <2>1. attached' = attached /\ attached /\ frames' = frames /\ sub' = [sub EXCEPT ![c] = NoSub]
    BY <1>6 DEF Leave, HubInv
  <2>2. QED
    BY <1>0, <2>1, NewIsGood, OneClientKeepsHub
<1>7. CASE StopApi
  <2>1. frames' = frames /\ sub' = [c \in Clients |-> NoSub]
    BY <1>7 DEF StopApi
  <2>2. QED
    BY <1>0, <2>1, NewIsGood DEF HubInv
<1>8. CASE UNCHANGED <<frames, attached, sub>>
  BY <1>8 DEF HubInv
<1>9. CASE RawSendDone \/ StopBus \/ (\E t \in Nat : Elapse(t)) \/ UNCHANGED vars
           \/ \E t \in Nat, c \in Senders : RawSendRefused(c, t)
  BY <1>8, <1>9 DEF RawSendDone, StopBus, Elapse, RawSendRefused, vars, hub
<1>10. QED
  BY <1>1, <1>2, <1>3, <1>4, <1>5, <1>6, <1>7, <1>9 DEF Next, StepAt, ClientStep

\* Two sequences, one after the other.
LEMMA Joined ==
  ASSUME NEW p \in Seq(Nat), NEW q \in Seq(Nat)
  PROVE  /\ Len(p \o q) = Len(p) + Len(q) /\ DOMAIN (p \o q) = 1..Len(p \o q)
         /\ \A i \in DOMAIN (p \o q) : (p \o q)[i] = IF i <= Len(p) THEN p[i] ELSE q[i - Len(p)]
OBVIOUS

\* UdpFrameHub: no frame disappears without a word to a client that subscribed,
\* whatever the size of its queue, however slow it is, and however often it asks
\* again: frames that are neither delivered nor waiting are told as dropped.
THEOREM FramesAreAccounted == Spec => []FramesAreTold
<1>1. HubInv => FramesAreTold
  <2> SUFFICES ASSUME HubInv, NEW c \in Clients, sub[c].phase # "none"
               PROVE  LET s == sub[c]
                          ahead == s.hand \o s.queue
                      IN /\ frames - s.from = s.got + s.told + s.dropped + Len(ahead)
                         /\ s.dropped > 0 => s.queue # <<>>
                         /\ \A i \in DOMAIN ahead : s.last < ahead[i]
                         /\ \A i, j \in DOMAIN ahead : i < j => ahead[i] < ahead[j]
    BY DEF FramesAreTold
  <2> DEFINE s == sub[c]
             ahead == s.hand \o s.queue
  <2>1. s \in Subscription /\ HandFits(s) /\ Accounted(s, frames) /\ Ascending(s, frames)
    BY DEF HubInv, Good
  <2> HIDE DEF s
  <2>2. /\ s.queue \in Seq(Nat) /\ s.hand \in Seq(Nat) /\ s.dropped \in Nat /\ s.from \in Nat
        /\ s.got \in Nat /\ s.told \in Nat /\ s.last \in Nat
    BY <2>1, Fields
  <2>3. PICK h, l \in Nat : /\ Len(s.hand) = h /\ Len(s.queue) = l /\ Len(ahead) = h + l
                            /\ DOMAIN s.queue = 1..l /\ DOMAIN ahead = 1..(h + l)
    <3>1. Len(s.hand) \in Nat /\ Len(s.queue) \in Nat /\ DOMAIN s.queue = 1..Len(s.queue)
      BY <2>2
    <3>2. Len(ahead) = Len(s.hand) + Len(s.queue) /\ DOMAIN ahead = 1..Len(ahead)
      BY <2>2, Joined
    <3>3. QED
      BY <3>1, <3>2
  <2>4. \A i \in DOMAIN ahead : ahead[i] = IF i <= h THEN s.hand[i] ELSE s.queue[i - h]
    BY <2>2, <2>3, Joined
  <2> HIDE DEF ahead
  <2>5. frames - s.from = s.got + s.told + s.dropped + Len(ahead)
    <3>1. PICK f, g, t, d \in Nat : s.from = f /\ s.got = g /\ s.told = t /\ s.dropped = d
      BY <2>2
    <3>2. frames - f = g + t + d + h + l
      BY <2>1, <2>3, <3>1 DEF Accounted
    <3>3. frames - f = g + t + d + (h + l)
      BY <3>2 DEF HubInv
    <3>4. QED
      BY <2>3, <3>1, <3>3
  <2>6. s.dropped > 0 => s.queue # <<>>
    BY <2>1 DEF Accounted
  <2>7. CASE s.phase = "telling"
    <3>1. h = 1
      BY <2>1, <2>3, <2>7 DEF HandFits
    <3>2. ahead[1] = s.hand[1] /\ \A i \in DOMAIN ahead : i # 1 => i - 1 \in DOMAIN s.queue /\ ahead[i] = s.queue[i - 1]
      BY <2>3, <2>4, <3>1
    <3>3. \A i \in DOMAIN ahead : s.last < ahead[i]
      BY <2>1, <2>7, <3>2 DEF Ascending
    <3>4. ASSUME NEW i \in DOMAIN ahead, NEW j \in DOMAIN ahead, i < j
          PROVE  ahead[i] < ahead[j]
      <4>1. j # 1 /\ i - 1 < j - 1
        BY <2>3, <3>4
      <4>2. QED
        BY <2>1, <2>7, <3>2, <4>1 DEF Ascending
    <3>5. QED
      BY <2>5, <2>6, <3>3, <3>4 DEF s, ahead
  <2>8. CASE s.phase # "telling"
    <3>1. h = 0
      BY <2>1, <2>3, <2>8 DEF HandFits
    <3>2. \A i \in DOMAIN ahead : i \in DOMAIN s.queue /\ ahead[i] = s.queue[i]
      BY <2>3, <2>4, <3>1
    <3>3. /\ \A i \in DOMAIN ahead : s.last < ahead[i]
          /\ \A i, j \in DOMAIN ahead : i < j => ahead[i] < ahead[j]
      BY <2>1, <3>2 DEF Ascending
    <3>4. QED
      BY <2>5, <2>6, <3>3 DEF s, ahead
  <2>9. QED
    BY <2>7, <2>8
<1>2. QED
  BY <1>1, HubInit, HubStep, PTL DEF Spec
===============================================================================
