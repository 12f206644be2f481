-------------------------- MODULE Northbound_proofs --------------------------
(***************************************************************************)
(* Clients end with what is true, and hear of no press of a button before *)
(* they hear of the button, proved for every number of connections,       *)
(* messages and edits.                                                     *)
(***************************************************************************)
EXTENDS Northbound, FiniteSetTheorems, TLAPS

Configs == [edits : Nat, button : BOOLEAN]

Messages ==
  [id : Nat, kind : {"snapshot"}, state : Nat, config : Configs] \cup
  [id : Nat, kind : {"state_changed"}, state : Nat] \cup
  [id : Nat, kind : {"device_added"}] \cup
  [id : Nat, kind : {"button_event"}, known : BOOLEAN]

Tasks ==
  [msg : Messages, todo : Seq(Clients), started : BOOLEAN,
   at : Clients \cup {Nobody}, dead : SUBSET Clients]

Views == [state : Nat, config : Configs]

TypeOK ==
  /\ state \in Nat /\ file \in Configs /\ config \in Configs
  /\ reloads \in Nat /\ made \in Nat /\ removed \in Nat
  /\ ready \in Seq(Tasks) /\ waiting \in Seq(Tasks)
  /\ clients \in SUBSET Clients /\ open \in SUBSET clients
  /\ view \in [Clients -> Views]

\* What is left of a task that has begun is for connections that stood behind a
\* slow one, and those it found closed are closed.
TaskOK(t, alive, late, n) ==
  /\ t.started => \A i \in DOMAIN t.todo : t.todo[i] \in alive => t.todo[i] \in late
  /\ t.dead \cap alive = {}
  /\ t.msg.id <= n

TasksOK ==
  /\ \A i \in DOMAIN ready : TaskOK(ready[i], open, behind, made)
  /\ \A i \in DOMAIN waiting :
       TaskOK(waiting[i], open, behind, made) /\ waiting[i].started

\* The parts of what a client shows, and what a message says of each.
Fields == {"state", "edits", "button"}

Part(v, f) ==
  IF f = "state" THEN v.state
  ELSE IF f = "edits" THEN v.config.edits ELSE v.config.button

Says(msg, f) ==
  \/ msg.kind = "snapshot"
  \/ msg.kind = "state_changed" /\ f = "state"
  \/ msg.kind = "device_added" /\ f = "button"

Word(msg, f) ==
  IF f = "state" THEN msg.state
  ELSE IF f = "edits" THEN msg.config.edits
  ELSE IF msg.kind = "snapshot" THEN msg.config.button ELSE TRUE

\* A task that has not begun will say x of f to all, or something else.
Brings(t, f, x) == ~t.started /\ Says(t.msg, f) /\ Word(t.msg, f) = x
Spoils(t, f, x) == ~t.started /\ Says(t.msg, f) /\ Word(t.msg, f) # x

\* The first n tasks in line leave everyone of who with x: one that says
\* something else is followed by one that says x, and when none says x all show it.
Settles(line, n, who, v, f, x) ==
  /\ \A i \in 1 .. n : Spoils(line[i], f, x) => \E j \in (i + 1) .. n : Brings(line[j], f, x)
  /\ \/ \E j \in 1 .. n : Brings(line[j], f, x)
     \/ \A c \in who : Part(v[c], f) = x

\* The line leaves everyone with what is true; of edits only when their r
\* handlers have gone on.
TruthHolds(line, who, v, now, r) ==
  \A f \in Fields : (f = "edits" => r = 0) =>
    Settles(line, Len(line), who, v, f, Part(now, f))

\* A press of a button that was not removed since.
Presses(msg, n) == msg.kind = "button_event" /\ msg.known /\ msg.id > n

\* What stands in line before such a press leaves everyone with the button.
PressHolds(line, who, v, now, n) ==
  \A e \in DOMAIN line : ~line[e].started /\ Presses(line[e].msg, n) =>
    now.config.button /\ Settles(line, e - 1, who, v, "button", TRUE)

Now == [state |-> state, config |-> config]

TruthOK == TruthHolds(ready, open \ behind, view, Now, reloads)
PressOK == PressHolds(ready, open \ behind, view, Now, removed)

IInv ==
  /\ TypeOK /\ TasksOK /\ TruthOK /\ PressOK
  /\ reloads = 0 => config = file
  /\ stray \subseteq behind

-----------------------------------------------------------------------------
(***************************************************************************)
(* Parts of a sequence                                                     *)
(***************************************************************************)

UpTo(S, i) == {j \in S : j <= i}

\* A finite set of numbers has an n-th one for every n up to its size.
LEMMA NthIsThere ==
  ASSUME NEW S \in SUBSET Nat, IsFiniteSet(S), NEW n \in 1 .. Cardinality(S)
  PROVE  Nth(S, n) \in S /\ Cardinality(UpTo(S, Nth(S, n))) = n
<1> DEFINE size == Cardinality(S)
           rank == [i \in S |-> Cardinality(UpTo(S, i))]
<1>1. size \in Nat
  BY FS_CardinalityType
<1>2. ASSUME NEW i \in S
      PROVE  /\ IsFiniteSet(UpTo(S, i))
             /\ Cardinality(UpTo(S, i)) \in 1 .. size
  <2>1. UpTo(S, i) \in SUBSET S /\ i \in UpTo(S, i)
    BY DEF UpTo
  <2>2. IsFiniteSet(UpTo(S, i)) /\ Cardinality(UpTo(S, i)) <= size
    BY <2>1, FS_Subset
  <2>3. Cardinality(UpTo(S, i)) \in Nat /\ Cardinality(UpTo(S, i)) # 0
    BY <2>1, <2>2, FS_CardinalityType, FS_EmptySet
  <2>4. QED
    BY <1>1, <2>2, <2>3
<1>3. ASSUME NEW i \in S, NEW j \in S, i < j
      PROVE  Cardinality(UpTo(S, i)) # Cardinality(UpTo(S, j))
  <2>1. UpTo(S, i) \in SUBSET UpTo(S, j) /\ j \in UpTo(S, j) /\ j \notin UpTo(S, i)
    <3>1. i \in Nat /\ j \in Nat /\ \A x \in S : x \in Nat
      OBVIOUS
    <3>2. \A x \in S : x <= i => x <= j
      BY <1>3, <3>1
    <3>3. j <= j /\ ~ (j <= i)
      BY <1>3, <3>1
    <3>4. QED
      BY <3>2, <3>3 DEF UpTo
  <2>2. QED
    BY <1>2, <2>1, FS_Subset
<1>4. rank \in Injection(S, 1 .. size)
  <2>1. rank \in [S -> 1 .. size]
    BY <1>2
  <2>2. ASSUME NEW i \in S, NEW j \in S, rank[i] = rank[j] PROVE i = j
    <3>1. i \in Nat /\ j \in Nat /\ (i < j \/ j < i \/ i = j)
      OBVIOUS
    <3>2. QED
      BY <1>3, <2>2, <3>1
  <2>3. QED
    BY <2>1, <2>2 DEF Injection, IsInjective
<1>5. rank \in Surjection(S, 1 .. size)
  <2>1. IsFiniteSet(1 .. size) /\ Cardinality(1 .. size) = size
    BY <1>1, FS_Interval
  <2>2. QED
    BY <1>4, <2>1, FS_Injection
<1>6. PICK i \in S : Cardinality(UpTo(S, i)) = n
  BY <1>5 DEF Surjection
<1>7. QED
  BY <1>6 DEF Nth, UpTo
\* And every one of its members is one of these.
LEMMA NthIsAll ==
  ASSUME NEW S \in SUBSET Nat, IsFiniteSet(S), NEW i \in S
  PROVE  \E n \in 1 .. Cardinality(S) : Nth(S, n) = i
<1> DEFINE n == Cardinality(UpTo(S, i))
<1>1. UpTo(S, i) \in SUBSET S /\ i \in UpTo(S, i)
  BY DEF UpTo
<1>2. /\ IsFiniteSet(UpTo(S, i)) /\ n <= Cardinality(S)
      /\ n \in Nat /\ n # 0 /\ Cardinality(S) \in Nat
  BY <1>1, FS_Subset, FS_CardinalityType, FS_EmptySet
<1>3. n \in 1 .. Cardinality(S)
  BY <1>2
<1>4. Nth(S, n) \in S /\ Cardinality(UpTo(S, Nth(S, n))) = n
  BY <1>3, NthIsThere
<1>5. ASSUME NEW j \in S, NEW k \in S, j < k
      PROVE  Cardinality(UpTo(S, j)) # Cardinality(UpTo(S, k))
  <2>1. j \in Nat /\ k \in Nat /\ \A x \in S : x \in Nat
    OBVIOUS
  <2>2. \A x \in S : x <= j => x <= k
    BY <1>5, <2>1
  <2>3. k <= k /\ ~ (k <= j)
    BY <1>5, <2>1
  <2>4. UpTo(S, j) \in SUBSET UpTo(S, k) /\ k \in UpTo(S, k) /\ k \notin UpTo(S, j)
    BY <2>2, <2>3 DEF UpTo
  <2>5. IsFiniteSet(UpTo(S, k))
    BY FS_Subset DEF UpTo
  <2>6. QED
    BY <2>4, <2>5, FS_Subset
<1> HIDE DEF n
<1>6. Nth(S, n) \in Nat /\ i \in Nat
  BY <1>4
<1>7. Cardinality(UpTo(S, i)) = n
  BY DEF n
<1>8. ~ (Nth(S, n) < i) /\ ~ (i < Nth(S, n))
  BY <1>4, <1>5, <1>7
<1>9. Nth(S, n) = i
  BY <1>6, <1>8
<1> QED
  BY <1>3, <1>9

\* A part has what its indices have, and nothing else.
LEMMA PickedIsPart ==
  ASSUME NEW T, NEW s \in Seq(T), NEW S \in SUBSET DOMAIN s
  PROVE  /\ Picked(s, S) \in Seq(T)
         /\ \A n \in DOMAIN Picked(s, S) : \E i \in S : Picked(s, S)[n] = s[i]
         /\ \A i \in S : \E n \in DOMAIN Picked(s, S) : Picked(s, S)[n] = s[i]
<1>1. S \in SUBSET Nat /\ IsFiniteSet(S) /\ Cardinality(S) \in Nat
  <2>1. DOMAIN s = 1 .. Len(s) /\ Len(s) \in Nat
    OBVIOUS
  <2>2. IsFiniteSet(DOMAIN s)
    BY <2>1, FS_Interval
  <2>3. IsFiniteSet(S)
    BY <2>2, FS_Subset
  <2>4. QED
    BY <2>1, <2>3, FS_CardinalityType
<1>2. \A n \in 1 .. Cardinality(S) : Nth(S, n) \in S
  BY <1>1, NthIsThere
<1>3. \A i \in S : s[i] \in T
  OBVIOUS
<1>4. Picked(s, S) \in [1 .. Cardinality(S) -> T]
  BY <1>2, <1>3 DEF Picked
<1>5. Picked(s, S) \in Seq(T)
  BY <1>1, <1>4
<1>6. DOMAIN Picked(s, S) = 1 .. Cardinality(S)
  BY DEF Picked
<1>7. \A n \in 1 .. Cardinality(S) : Picked(s, S)[n] = s[Nth(S, n)]
  BY DEF Picked
<1>8. \A i \in S : \E n \in 1 .. Cardinality(S) : Nth(S, n) = i
  BY <1>1, NthIsAll
<1> QED
  BY <1>2, <1>5, <1>6, <1>7, <1>8

\* The list of clients has exactly these.
LEMMA ListedOK ==
  ASSUME clients \in SUBSET Clients
  PROVE  /\ Listed \in Seq(Clients)
         /\ \A c \in clients : \E i \in DOMAIN Listed : Listed[i] = c
<1> DEFINE S == {i \in DOMAIN Order : Order[i] \in clients}
<1>1. /\ Picked(Order, S) \in Seq(Clients)
      /\ \A i \in S : \E n \in DOMAIN Picked(Order, S) : Picked(Order, S)[n] = Order[i]
  <2>1. S \in SUBSET DOMAIN Order /\ Order \in Seq(Clients)
    BY OrderAssumption
  <2> HIDE DEF S
  <2>2. QED
    BY <2>1, PickedIsPart
<1>2. \A c \in clients : \E i \in S : Order[i] = c
  BY DEF Clients, ToSet
<1> QED
  BY <1>1, <1>2 DEF Listed

-----------------------------------------------------------------------------
(***************************************************************************)
(* What the line leaves clients with                                       *)
(***************************************************************************)

\* The first one in line has gone, and its message has come to all of who2.
LEMMA FirstTold ==
  ASSUME NEW line \in Seq(Tasks), line # <<>>, NEW n \in 1 .. Len(line),
         NEW who, NEW who2 \in SUBSET who, NEW v, NEW v2, NEW f, NEW x,
         Settles(line, n, who, v, f, x),
         \A c \in who2 :
           Part(v2[c], f) = IF ~line[1].started /\ Says(line[1].msg, f)
                            THEN Word(line[1].msg, f) ELSE Part(v[c], f)
  PROVE  Settles(Tail(line), n - 1, who2, v2, f, x)
<1> DEFINE rest == Tail(line)
<1>1. /\ \A i \in 1 .. (n - 1) : rest[i] = line[i + 1] /\ i + 1 \in 1 .. n
      /\ \A j \in 2 .. n : rest[j - 1] = line[j] /\ j - 1 \in 1 .. (n - 1)
  <2>1. /\ \A i \in 1 .. (n - 1) : rest[i] = line[i + 1] /\ i + 1 \in 1 .. n
        /\ n \in Int
    OBVIOUS
  <2> HIDE DEF rest
  <2>2. \A j \in 2 .. n : j - 1 \in 1 .. (n - 1) /\ (j - 1) + 1 = j
    BY <2>1
  <2>3. QED
    BY <2>1, <2>2
<1> HIDE DEF rest
<1>2. ASSUME NEW i \in 1 .. (n - 1), Spoils(rest[i], f, x)
      PROVE  \E j \in (i + 1) .. (n - 1) : Brings(rest[j], f, x)
  <2>1. Spoils(line[i + 1], f, x)
    BY <1>1, <1>2
  <2>2. PICK j \in (i + 2) .. n : Brings(line[j], f, x)
    <3>1. (i + 1) + 1 = i + 2
      OBVIOUS
    <3>2. QED
      BY <1>1, <2>1, <3>1 DEF Settles
  <2>3. j \in 2 .. n /\ j - 1 \in (i + 1) .. (n - 1)
    OBVIOUS
  <2>4. QED
    BY <1>1, <2>2, <2>3
<1>3. \/ \E j \in 1 .. (n - 1) : Brings(rest[j], f, x)
      \/ \A c \in who2 : Part(v2[c], f) = x
  <2>1. CASE \E j \in 2 .. n : Brings(line[j], f, x)
    BY <1>1, <2>1
  <2>2. CASE ~ \E j \in 2 .. n : Brings(line[j], f, x)
    <3>1. 1 \in 1 .. n /\ 1 + 1 = 2 /\ \A j \in 1 .. n : j = 1 \/ j \in 2 .. n
      OBVIOUS
    <3>2. ~ Spoils(line[1], f, x)
      BY <2>2, <3>1 DEF Settles
    <3>3. Brings(line[1], f, x) \/ \A c \in who : Part(v[c], f) = x
      BY <2>2, <3>1 DEF Settles
    <3>4. QED
      BY <3>2, <3>3 DEF Brings, Spoils
  <2>3. QED
    BY <2>1, <2>2
<1> QED
  BY <1>2, <1>3 DEF Settles, rest

\* The line has grown by tasks that say nothing else, and views have changed only
\* to x.
LEMMA NothingElseSaid ==
  ASSUME NEW line \in Seq(Tasks), NEW line2 \in Seq(Tasks), NEW n \in Nat, NEW n2 \in Nat, NEW f, NEW x,
         n <= n2,
         \A i \in 1 .. n : line2[i] = line[i],
         \A i \in (n + 1) .. n2 : ~ Spoils(line2[i], f, x),
         NEW who, NEW who2, NEW v, NEW v2,
         Settles(line, n, who, v, f, x),
         \A c \in who2 : Part(v2[c], f) = x \/ (c \in who /\ Part(v2[c], f) = Part(v[c], f))
  PROVE  Settles(line2, n2, who2, v2, f, x)
<1>1. \A i \in 1 .. n2 : i \in 1 .. n \/ i \in (n + 1) .. n2
  OBVIOUS
<1>2. \A i \in 1 .. n : \A j \in (i + 1) .. n : j \in 1 .. n /\ j \in (i + 1) .. n2
  OBVIOUS
<1>3. 1 .. n \subseteq 1 .. n2
  OBVIOUS
<1>4. ASSUME NEW i \in 1 .. n2, Spoils(line2[i], f, x)
      PROVE  \E j \in (i + 1) .. n2 : Brings(line2[j], f, x)
  <2>1. i \in 1 .. n /\ Spoils(line[i], f, x)
    BY <1>1, <1>4
  <2>2. PICK j \in (i + 1) .. n : Brings(line[j], f, x)
    BY <2>1 DEF Settles
  <2>3. QED
    BY <1>2, <2>1, <2>2
<1>5. \/ \E j \in 1 .. n2 : Brings(line2[j], f, x)
      \/ \A c \in who2 : Part(v2[c], f) = x
  <2>1. CASE \E j \in 1 .. n : Brings(line[j], f, x)
    BY <1>3, <2>1
  <2>2. CASE \A c \in who : Part(v[c], f) = x
    BY <2>2
  <2>3. QED
    BY <2>1, <2>2 DEF Settles
<1> QED
  BY <1>4, <1>5 DEF Settles

\* One in line says x, and no one after it says something else.
LEMMA LastWord ==
  ASSUME NEW line, NEW n \in Nat, NEW k \in 1 .. n, NEW f, NEW x,
         Brings(line[k], f, x),
         \A i \in (k + 1) .. n : ~ Spoils(line[i], f, x),
         NEW who, NEW v
  PROVE  Settles(line, n, who, v, f, x)
<1>1. ASSUME NEW i \in 1 .. n, Spoils(line[i], f, x)
      PROVE  \E j \in (i + 1) .. n : Brings(line[j], f, x)
  <2>1. i # k
    BY <1>1 DEF Brings, Spoils
  <2>2. k \in (i + 1) .. n \/ i \in (k + 1) .. n
    BY <2>1
  <2>3. QED
    BY <1>1, <2>2
<1> QED
  BY <1>1 DEF Settles

-----------------------------------------------------------------------------
(***************************************************************************)
(* Messages and tasks                                                      *)
(***************************************************************************)

\* The messages of the code are messages.
LEMMA MessagesTyped ==
  ASSUME state \in Nat, NEW n \in Nat, NEW cfg \in Configs, NEW s \in Nat, NEW known \in BOOLEAN
  PROVE  /\ Snapshot(n, cfg) \in Messages /\ StateChanged(n, s) \in Messages
         /\ DeviceAdded(n) \in Messages /\ ButtonEvent(n, known) \in Messages
BY DEF Snapshot, StateChanged, DeviceAdded, ButtonEvent, Messages

\* After a message a client shows what it said, and the rest as before.
LEMMA ShowsWhatItSays ==
  ASSUME NEW v \in Views, NEW msg \in Messages
  PROVE  /\ Shows(v, msg) \in Views
         /\ \A f \in Fields :
              Part(Shows(v, msg), f) = IF Says(msg, f) THEN Word(msg, f) ELSE Part(v, f)
<1>1. CASE msg \in [id : Nat, kind : {"snapshot"}, state : Nat, config : Configs]
  <2>1. msg.kind = "snapshot" /\ msg.state \in Nat /\ msg.config \in Configs
    BY <1>1
  <2>2. Shows(v, msg) = [state |-> msg.state, config |-> msg.config]
    BY <2>1 DEF Shows
  <2>3. QED
    BY <2>1, <2>2 DEF Views, Fields, Part, Says, Word
<1>2. CASE msg \in [id : Nat, kind : {"state_changed"}, state : Nat]
  <2>1. msg.kind = "state_changed" /\ msg.state \in Nat
    BY <1>2
  <2>2. Shows(v, msg) = [v EXCEPT !.state = msg.state]
    BY <2>1 DEF Shows
  <2>3. QED
    BY <2>1, <2>2 DEF Views, Fields, Part, Says, Word
<1>3. CASE msg \in [id : Nat, kind : {"device_added"}]
  <2>1. msg.kind = "device_added"
    BY <1>3
  <2>2. Shows(v, msg) = [v EXCEPT !.config.button = TRUE]
    BY <2>1 DEF Shows
  <2>3. Shows(v, msg) = [state |-> v.state, config |-> [edits |-> v.config.edits, button |-> TRUE]]
    BY <2>2 DEF Views, Configs
  <2>4. Shows(v, msg) \in Views /\ Part(Shows(v, msg), "state") = Part(v, "state")
        /\ Part(Shows(v, msg), "edits") = Part(v, "edits") /\ Part(Shows(v, msg), "button") = TRUE
    BY <2>3 DEF Views, Configs, Part
  <2>5. ~Says(msg, "state") /\ ~Says(msg, "edits") /\ Word(msg, "button") = TRUE
        /\ Says(msg, "button")
    BY <2>1 DEF Says, Word
  <2>6. QED
    BY <2>4, <2>5 DEF Fields
<1>4. CASE msg \in [id : Nat, kind : {"button_event"}, known : BOOLEAN]
  <2>1. msg.kind = "button_event"
    BY <1>4
  <2>2. Shows(v, msg) = v
    BY <2>1 DEF Shows
  <2>3. QED
    BY <2>1, <2>2 DEF Fields, Part, Says, Word
<1> QED
  BY <1>1, <1>2, <1>3, <1>4 DEF Messages

\* A task that has just been made.
LEMMA NewTaskOK ==
  ASSUME NEW msg \in Messages
  PROVE  /\ NewTask(msg) \in Tasks /\ NewTask(msg).msg = msg
         /\ ~ NewTask(msg).started /\ NewTask(msg).dead = {}
<1>1. <<>> \in Seq(Clients)
  OBVIOUS
<1> QED
  BY <1>1 DEF NewTask, Tasks

\* The press that is told now finds everyone who is not behind with the button.
PressIsKnown(task) ==
  Presses(task.msg, removed) /\ ~task.started =>
    \A c \in open \ behind : view[c].config.button

\* What is left of a sequence after its first n elements.
LEMMA RestOfSeq ==
  ASSUME NEW T, NEW s \in Seq(T), NEW n \in 1 .. Len(s)
  PROVE  \A j \in 1 .. (Len(s) - n) :
           SubSeq(s, n + 1, Len(s))[j] = s[j + n] /\ j + n \in 1 .. Len(s)
<1>1. Len(s) \in Nat /\ n \in Nat /\ n <= Len(s)
  OBVIOUS
<1>2. SubSeq(s, n + 1, Len(s)) = [i \in 1 .. (Len(s) - n) |-> s[i + n]]
  BY <1>1
<1>3. \A j \in 1 .. (Len(s) - n) : j + n \in 1 .. Len(s)
  BY <1>1
<1> QED
  BY <1>2, <1>3

\* What a run of a task does: a message that was not sent to anyone yet comes to
\* all clients but those that are behind then, one that was sent to some comes
\* only to clients that are behind already.
LEMMA BroadcastStep ==
  ASSUME TypeOK, NEW task \in Tasks, NEW others \in Seq(Tasks), NEW n,
         TaskOK(task, open, behind, n), PressIsKnown(task), stray \subseteq behind,
         Broadcast(task, others)
  PROVE  /\ waiting' \in Seq(Tasks)
         /\ \A i \in DOMAIN waiting' :
              \/ \E j \in DOMAIN others : waiting'[i] = others[j]
              \/ waiting'[i].started /\ TaskOK(waiting'[i], open, behind', n)
         /\ clients' \in SUBSET Clients /\ open \subseteq clients'
         /\ behind \subseteq behind' /\ stray' \subseteq behind'
         /\ view' \in [Clients -> Views]
         /\ \A c \in open \ behind' :
              view'[c] = IF task.started THEN view[c] ELSE Shows(view[c], task.msg)
<1> DEFINE todo == IF task.started THEN task.todo ELSE Listed
           dead(k) == task.dead \cup {todo[i] : i \in {j \in 1 .. k : todo[j] \notin open}}
           reached(k) == {todo[i] : i \in 1 .. k} \cap open
<1>1. /\ todo \in Seq(Clients)
      /\ ~task.started => \A c \in open : \E i \in DOMAIN todo : todo[i] = c
      /\ task.started => \A i \in DOMAIN todo : todo[i] \in open => todo[i] \in behind
  <2>1. clients \in SUBSET Clients /\ open \subseteq clients
    BY DEF TypeOK
  <2>2. Listed \in Seq(Clients) /\ \A c \in clients : \E i \in DOMAIN Listed : Listed[i] = c
    BY <2>1, ListedOK
  <2>3. task.todo \in Seq(Clients)
    BY DEF Tasks
  <2>4. QED
    BY <2>1, <2>2, <2>3 DEF TaskOK
<1>2. task.dead \cap open = {} /\ task.dead \in SUBSET Clients
  BY DEF TaskOK, Tasks
<1> HIDE DEF todo
<1>3. \A k \in DOMAIN todo : 1 .. k \subseteq DOMAIN todo
  BY <1>1
<1>4. DOMAIN todo = 1 .. Len(todo) /\ \A i \in DOMAIN todo : todo[i] \in Clients
  BY <1>1
<1>5. ASSUME NEW to \in SUBSET open, Sent(task.msg, to),
             NEW late, behind \subseteq late,
             task.started => to \subseteq late,
             ~task.started => open \ late \subseteq to
      PROVE  /\ stray' \subseteq late
             /\ view' \in [Clients -> Views]
             /\ \A c \in open \ late :
                  view'[c] = IF task.started THEN view[c] ELSE Shows(view[c], task.msg)
  <2>1. /\ view' = [c \in Clients |-> IF c \in to THEN Shows(view[c], task.msg) ELSE view[c]]
        /\ stray' = IF task.msg.kind = "button_event" /\ task.msg.known /\ task.msg.id > removed
                    THEN stray \cup {c \in to : ~view[c].config.button} ELSE stray
    BY <1>5 DEF Sent
  <2>2. task.msg \in Messages /\ task.started \in BOOLEAN
    BY DEF Tasks
  <2>3. /\ view \in [Clients -> Views] /\ open \subseteq Clients
    BY DEF TypeOK
  <2>4. \A c \in Clients : Shows(view[c], task.msg) \in Views
    BY <2>2, <2>3, ShowsWhatItSays
  <2>5. view' \in [Clients -> Views]
    BY <2>1, <2>3, <2>4
  <2>6. \A c \in to : Presses(task.msg, removed) /\ ~view[c].config.button => c \in late
    BY <1>5 DEF PressIsKnown
  <2>7. stray' \subseteq late
    BY <1>5, <2>1, <2>6 DEF Presses
  <2>8. ASSUME NEW c \in open \ late
        PROVE  view'[c] = IF task.started THEN view[c] ELSE Shows(view[c], task.msg)
    <3>1. c \in Clients
      BY <2>3
    <3>2. view'[c] = IF c \in to THEN Shows(view[c], task.msg) ELSE view[c]
      BY <2>1, <3>1
    <3>3. task.started => c \notin to
      BY <1>5
    <3>4. ~task.started => c \in to
      BY <1>5
    <3>5. QED
      BY <3>2, <3>3, <3>4
  <2>9. QED
    BY <2>5, <2>7, <2>8
<1>6. CASE /\ Sent(task.msg, reached(Len(todo)))
           /\ waiting' = others
           /\ clients' = clients \ dead(Len(todo))
           /\ UNCHANGED behind
  <2>1. reached(Len(todo)) \in SUBSET open
    OBVIOUS
  <2>2. task.started => reached(Len(todo)) \subseteq behind
    BY <1>1, <1>4
  <2>3. ~task.started => open \ behind \subseteq reached(Len(todo))
    BY <1>1, <1>4
  <2>4. /\ stray' \subseteq behind
        /\ view' \in [Clients -> Views]
        /\ \A c \in open \ behind :
             view'[c] = IF task.started THEN view[c] ELSE Shows(view[c], task.msg)
    BY <1>5, <1>6, <2>1, <2>2, <2>3
  <2>5. clients' \in SUBSET Clients /\ open \subseteq clients'
    BY <1>2, <1>6 DEF TypeOK
  <2>6. QED
    BY <1>6, <2>4, <2>5
<1>7. ASSUME NEW stop \in DOMAIN todo,
             todo[stop] \in open,
             Sent(task.msg, reached(stop)),
             waiting' = Append(others, [task EXCEPT !.started = TRUE,
                                 !.todo = SubSeq(todo, stop + 1, Len(todo)),
                                 !.at = todo[stop], !.dead = dead(stop)]),
             behind' = behind \cup (ToSet(SubSeq(todo, stop + 1, Len(todo))) \cap open),
             UNCHANGED clients
      PROVE  /\ waiting' \in Seq(Tasks)
             /\ \A i \in DOMAIN waiting' :
                  \/ \E j \in DOMAIN others : waiting'[i] = others[j]
                  \/ waiting'[i].started /\ TaskOK(waiting'[i], open, behind', n)
             /\ clients' \in SUBSET Clients /\ open \subseteq clients'
             /\ behind \subseteq behind' /\ stray' \subseteq behind'
             /\ view' \in [Clients -> Views]
             /\ \A c \in open \ behind' :
                  view'[c] = IF task.started THEN view[c] ELSE Shows(view[c], task.msg)
  <2> DEFINE rest == SubSeq(todo, stop + 1, Len(todo))
             gone == [task EXCEPT !.started = TRUE, !.todo = rest,
                                  !.at = todo[stop], !.dead = dead(stop)]
  <2>1. /\ rest \in Seq(Clients)
        /\ \A i \in DOMAIN todo : i \in 1 .. stop \/ \E j \in DOMAIN rest : rest[j] = todo[i]
        /\ \A j \in DOMAIN rest : \E i \in DOMAIN todo : rest[j] = todo[i]
    <3>1. stop \in 1 .. Len(todo) /\ Len(todo) \in Nat
      BY <1>1
    <3>2. rest \in Seq(Clients) /\ Len(rest) = Len(todo) - stop
      BY <1>1, <3>1
    <3>3. \A j \in 1 .. (Len(todo) - stop) : rest[j] = todo[j + stop] /\ j + stop \in 1 .. Len(todo)
      BY <1>1, <3>1, RestOfSeq
    <3> HIDE DEF rest
    <3>4. DOMAIN rest = 1 .. (Len(todo) - stop)
      BY <3>2
    <3>5. \A i \in 1 .. Len(todo) : i \in 1 .. stop \/
             (i - stop \in 1 .. (Len(todo) - stop) /\ (i - stop) + stop = i)
      BY <3>1
    <3>6. \A i \in 1 .. Len(todo) : i \in 1 .. stop \/ \E j \in DOMAIN rest : rest[j] = todo[i]
      BY <3>3, <3>4, <3>5
    <3>7. QED
      BY <1>4, <3>2, <3>3, <3>4, <3>6
  <2>2. 1 .. stop \subseteq DOMAIN todo
    BY <1>3
  <2>3. ToSet(rest) = {rest[j] : j \in DOMAIN rest}
    BY DEF ToSet
  <2>4. dead(stop) \in SUBSET Clients /\ dead(stop) \cap open = {}
    BY <1>2, <1>4, <2>2
  <2>5. /\ gone \in Tasks
        /\ gone.started /\ gone.todo = rest /\ gone.dead = dead(stop) /\ gone.msg = task.msg
    <3>1. todo[stop] \in Clients
      BY <1>4
    <3> HIDE DEF rest, dead
    <3>2. QED
      BY <2>1, <2>4, <3>1 DEF Tasks
  <2> HIDE DEF rest, gone, dead
  <2>6. waiting' = Append(others, gone) /\ behind' = behind \cup (ToSet(rest) \cap open)
    BY <1>7 DEF rest, gone
  <2>7. waiting' \in Seq(Tasks)
    BY <2>5, <2>6
  <2>8. \A i \in DOMAIN waiting' : (\E j \in DOMAIN others : waiting'[i] = others[j]) \/ waiting'[i] = gone
    BY <2>5, <2>6
  <2>9. TaskOK(gone, open, behind', n)
    BY <2>3, <2>4, <2>5, <2>6 DEF TaskOK
  <2>10. reached(stop) \in SUBSET open
    OBVIOUS
  <2>11. task.started => reached(stop) \subseteq behind'
    BY <1>1, <2>2, <2>6
  <2>12. ~task.started => open \ behind' \subseteq reached(stop)
    BY <1>1, <2>1, <2>3, <2>6
  <2>13. behind \subseteq behind'
    BY <2>6
  <2>14. /\ stray' \subseteq behind'
         /\ view' \in [Clients -> Views]
         /\ \A c \in open \ behind' :
              view'[c] = IF task.started THEN view[c] ELSE Shows(view[c], task.msg)
    <3>1. PICK to : to = reached(stop)
      OBVIOUS
    <3>2. PICK late : late = behind'
      OBVIOUS
    <3>3. Sent(task.msg, to) /\ to \in SUBSET open
      BY <1>7, <2>10, <3>1
    <3>4. /\ behind \subseteq late /\ (task.started => to \subseteq late)
          /\ (~task.started => open \ late \subseteq to)
      BY <2>11, <2>12, <2>13, <3>1, <3>2
    <3> HIDE DEF reached
    <3>5. /\ stray' \subseteq late
          /\ view' \in [Clients -> Views]
          /\ \A c \in open \ late :
               view'[c] = IF task.started THEN view[c] ELSE Shows(view[c], task.msg)
      BY <1>5, <3>3, <3>4
    <3>6. QED
      BY <3>2, <3>5
  <2>15. clients' \in SUBSET Clients /\ open \subseteq clients'
    BY <1>7 DEF TypeOK
  <2>16. QED
    BY <2>5, <2>7, <2>8, <2>9, <2>13, <2>14, <2>15
<1>8. QED
  <2>1. \/ /\ Sent(task.msg, reached(Len(todo)))
           /\ waiting' = others
           /\ clients' = clients \ dead(Len(todo))
           /\ UNCHANGED behind
        \/ \E stop \in DOMAIN todo :
             /\ todo[stop] \in open
             /\ Sent(task.msg, reached(stop))
             /\ waiting' = Append(others, [task EXCEPT !.started = TRUE,
                                 !.todo = SubSeq(todo, stop + 1, Len(todo)),
                                 !.at = todo[stop], !.dead = dead(stop)])
             /\ behind' = behind \cup (ToSet(SubSeq(todo, stop + 1, Len(todo))) \cap open)
             /\ UNCHANGED clients
    BY Zenon DEF Broadcast, todo, dead, reached
  <2>2. CASE /\ Sent(task.msg, reached(Len(todo)))
             /\ waiting' = others
             /\ clients' = clients \ dead(Len(todo))
             /\ UNCHANGED behind
    <3>1. \A i \in DOMAIN waiting' : \E j \in DOMAIN others : waiting'[i] = others[j]
      BY <2>2
    <3>2. QED
      BY <1>6, <2>2, <3>1
  <2> HIDE DEF dead, reached
  <2>3. CASE \E stop \in DOMAIN todo :
             /\ todo[stop] \in open
             /\ Sent(task.msg, reached(stop))
             /\ waiting' = Append(others, [task EXCEPT !.started = TRUE,
                                 !.todo = SubSeq(todo, stop + 1, Len(todo)),
                                 !.at = todo[stop], !.dead = dead(stop)])
             /\ behind' = behind \cup (ToSet(SubSeq(todo, stop + 1, Len(todo))) \cap open)
             /\ UNCHANGED clients
    <3>1. PICK stop \in DOMAIN todo :
             /\ todo[stop] \in open
             /\ Sent(task.msg, reached(stop))
             /\ waiting' = Append(others, [task EXCEPT !.started = TRUE,
                                 !.todo = SubSeq(todo, stop + 1, Len(todo)),
                                 !.at = todo[stop], !.dead = dead(stop)])
             /\ behind' = behind \cup (ToSet(SubSeq(todo, stop + 1, Len(todo))) \cap open)
             /\ UNCHANGED clients
      BY <2>3, Zenon
    <3>2. QED
      BY <1>7, <3>1, Zenon
  <2>4. QED
    BY <2>1, <2>2, <2>3, Zenon

-----------------------------------------------------------------------------
(***************************************************************************)
(* Steps                                                                   *)
(***************************************************************************)

\* The line has grown by tasks that have begun, and who shows something else than
\* before shows what is true.
LEMMA NothingSaid ==
  ASSUME IInv, ready' \in Seq(Tasks), Len(ready) <= Len(ready'),
         \A i \in 1 .. Len(ready) : ready'[i] = ready[i],
         \A i \in (Len(ready) + 1) .. Len(ready') : ready'[i].started,
         UNCHANGED <<state, config, removed>>, reloads' = 0 => reloads = 0,
         \A c \in open' \ behind' :
           \/ view'[c] = [state |-> state, config |-> config]
           \/ c \in open \ behind /\ view'[c] = view[c]
  PROVE  TruthOK' /\ PressOK'
<1>1. ready \in Seq(Tasks) /\ Len(ready) \in Nat /\ Len(ready') \in Nat
  BY DEF IInv, TypeOK
<1>2. DOMAIN ready = 1 .. Len(ready) /\ DOMAIN ready' = 1 .. Len(ready')
  BY <1>1
<1>3. ASSUME NEW f \in Fields, f = "edits" => reloads' = 0
      PROVE  Settles(ready', Len(ready'), open' \ behind', view', f, Part(Now, f))
  <2>1. Settles(ready, Len(ready), open \ behind, view, f, Part(Now, f))
    BY <1>3 DEF IInv, TruthOK, TruthHolds
  <2>2. \A c \in open' \ behind' :
          Part(view'[c], f) = Part(Now, f) \/ (c \in open \ behind /\ Part(view'[c], f) = Part(view[c], f))
    BY DEF Now
  <2>3. \A i \in (Len(ready) + 1) .. Len(ready') : ~Spoils(ready'[i], f, Part(Now, f))
    BY DEF Spoils
  <2>4. PICK n \in Nat, n2 \in Nat : n = Len(ready) /\ n2 = Len(ready')
    BY <1>1
  <2>5. PICK x : x = Part(Now, f)
    OBVIOUS
  <2> DEFINE who == open \ behind
             who2 == open' \ behind'
  <2>6. /\ ready \in Seq(Tasks) /\ ready' \in Seq(Tasks) /\ n <= n2
        /\ \A i \in 1 .. n : ready'[i] = ready[i]
        /\ \A i \in (n + 1) .. n2 : ~Spoils(ready'[i], f, x)
        /\ Settles(ready, n, who, view, f, x)
        /\ \A c \in who2 : Part(view'[c], f) = x \/ (c \in who /\ Part(view'[c], f) = Part(view[c], f))
    BY <1>1, <2>1, <2>2, <2>3, <2>4, <2>5
  <2> HIDE DEF who, who2
  <2>7. Settles(ready', n2, who2, view', f, x)
    BY ONLY <2>6, n \in Nat, n2 \in Nat, NothingElseSaid
  <2>8. QED
    BY <2>4, <2>5, <2>7 DEF who2
<1>4. TruthOK'
  <2>1. Now' = Now
    BY DEF Now
  <2>2. QED
    BY <1>3, <2>1 DEF TruthOK, TruthHolds
<1>5. ASSUME NEW e \in DOMAIN ready', ~ready'[e].started, Presses(ready'[e].msg, removed)
      PROVE  config.button /\ Settles(ready', e - 1, open' \ behind', view', "button", TRUE)
  <2>1. e \in 1 .. Len(ready)
    <3>1. e \in 1 .. Len(ready) \/ e \in (Len(ready) + 1) .. Len(ready')
      BY <1>1, <1>2
    <3>2. QED
      BY <1>5, <3>1
  <2>2. ready'[e] = ready[e] /\ e \in DOMAIN ready
    BY <1>2, <2>1
  <2>3. config.button /\ Settles(ready, e - 1, open \ behind, view, "button", TRUE)
    BY <1>5, <2>2 DEF IInv, PressOK, PressHolds, Now
  <2>4. config.button = TRUE
    BY <2>3 DEF IInv, TypeOK, Configs
  <2>5. e - 1 \in Nat /\ \A i \in 1 .. (e - 1) : ready'[i] = ready[i]
    BY <1>1, <2>1
  <2>6. \A c \in open' \ behind' :
          Part(view'[c], "button") = TRUE \/
          (c \in open \ behind /\ Part(view'[c], "button") = Part(view[c], "button"))
    BY <2>4 DEF Part
  <2>7. PICK n \in Nat : n = e - 1
    BY <2>5
  <2>8. n <= n /\ \A i \in (n + 1) .. n : FALSE
    OBVIOUS
  <2>9. PICK x : x = TRUE
    OBVIOUS
  <2> DEFINE who == open \ behind
             who2 == open' \ behind'
  <2>10. /\ Settles(ready, n, who, view, "button", x)
         /\ \A i \in 1 .. n : ready'[i] = ready[i]
         /\ \A c \in who2 : Part(view'[c], "button") = x \/
              (c \in who /\ Part(view'[c], "button") = Part(view[c], "button"))
    BY <2>3, <2>5, <2>6, <2>7, <2>9
  <2> HIDE DEF who, who2
  <2>11. \A i \in (n + 1) .. n : ~Spoils(ready'[i], "button", x)
    BY <2>8, Zenon
  <2>12. Settles(ready', n, who2, view', "button", x)
    BY <1>1, <2>8, <2>10, <2>11, NothingElseSaid, Zenon
  <2>13. QED
    BY <2>3, <2>7, <2>9, <2>12 DEF who2
<1>6. PressOK'
  <2>1. Now' = Now /\ removed' = removed
    BY DEF Now
  <2>2. QED
    BY <1>5, <2>1 DEF PressOK, PressHolds, Now
<1> QED
  BY <1>4, <1>6

\* A message that says what is true of what it says.
LEMMA OneTold ==
  ASSUME NEW line \in Seq(Tasks), NEW msg \in Messages, NEW who, NEW v, NEW f, NEW x,
         Says(msg, f) => Word(msg, f) = x,
         ~Says(msg, f) => Settles(line, Len(line), who, v, f, x)
  PROVE  LET line2 == Append(line, NewTask(msg)) IN
         /\ line2 \in Seq(Tasks) /\ Len(line2) = Len(line) + 1
         /\ \A i \in 1 .. Len(line) : line2[i] = line[i]
         /\ line2[Len(line) + 1] = NewTask(msg)
         /\ Settles(line2, Len(line2), who, v, f, x)
<1> DEFINE t == NewTask(msg)
           line2 == Append(line, t)
<1>1. t \in Tasks /\ t.msg = msg /\ ~t.started
  BY NewTaskOK
<1> HIDE DEF t
<1>2. /\ line2 \in Seq(Tasks) /\ Len(line2) = Len(line) + 1 /\ Len(line) \in Nat
      /\ \A i \in 1 .. Len(line) : line2[i] = line[i]
      /\ line2[Len(line) + 1] = t
  BY <1>1
<1> HIDE DEF line2
<1>3. ~Spoils(t, f, x) /\ (Says(msg, f) => Brings(t, f, x))
  BY <1>1 DEF Spoils, Brings
<1>4. Settles(line2, Len(line) + 1, who, v, f, x)
  <2>1. CASE Says(msg, f)
    <3>1. Len(line) + 1 \in 1 .. (Len(line) + 1) /\ Len(line) + 1 \in Nat
          /\ \A i \in (Len(line) + 1 + 1) .. (Len(line) + 1) : FALSE
      BY <1>2
    <3>2. Brings(line2[Len(line) + 1], f, x)
      BY <1>2, <1>3, <2>1
    <3>3. QED
      BY <3>1, <3>2, LastWord
  <2>2. CASE ~Says(msg, f)
    <3>1. /\ Len(line) <= Len(line) + 1 /\ Len(line) + 1 \in Nat
          /\ \A i \in (Len(line) + 1) .. (Len(line) + 1) : i = Len(line) + 1
      BY <1>2
    <3>2. \A i \in (Len(line) + 1) .. (Len(line) + 1) : ~Spoils(line2[i], f, x)
      BY <1>2, <1>3, <3>1
    <3>3. \A c \in who : Part(v[c], f) = Part(v[c], f)
      OBVIOUS
    <3>4. PICK n \in Nat, n2 \in Nat : n = Len(line) /\ n2 = Len(line) + 1
      BY <1>2
    <3>5. /\ n <= n2 /\ (\A i \in 1 .. n : line2[i] = line[i])
          /\ \A i \in (n + 1) .. n2 : ~Spoils(line2[i], f, x)
          /\ Settles(line, n, who, v, f, x)
      BY <1>2, <2>2, <3>1, <3>2, <3>4
    <3>6. line2 \in Seq(Tasks)
      BY <1>2
    <3>7. Settles(line2, n2, who, v, f, x)
      BY <3>3, <3>5, <3>6, NothingElseSaid, Zenon
    <3>8. QED
      BY <3>4, <3>7
  <2>3. QED
    BY <2>1, <2>2
<1> QED
  BY <1>2, <1>4 DEF line2, t

\* What Tell does for one message, and for two.
LEMMA TellOne ==
  ASSUME NEW line \in Seq(Tasks), NEW m
  PROVE  line \o [i \in DOMAIN <<m>> |-> NewTask(<<m>>[i])] = Append(line, NewTask(m))
<1>1. [i \in DOMAIN <<m>> |-> NewTask(<<m>>[i])] = <<NewTask(m)>>
  OBVIOUS
<1>2. PICK t : t = NewTask(m)
  OBVIOUS
<1>3. line \o <<t>> = Append(line, t)
  OBVIOUS
<1> QED
  BY <1>1, <1>2, <1>3

LEMMA TellTwo ==
  ASSUME NEW line \in Seq(Tasks), NEW m \in Messages, NEW n \in Messages
  PROVE  line \o [i \in DOMAIN <<m, n>> |-> NewTask(<<m, n>>[i])]
           = Append(Append(line, NewTask(m)), NewTask(n))
<1>1. [i \in DOMAIN <<m, n>> |-> NewTask(<<m, n>>[i])] = <<NewTask(m), NewTask(n)>>
  OBVIOUS
<1>2. PICK t \in Tasks : t = NewTask(m)
  BY NewTaskOK
<1>3. PICK u \in Tasks : u = NewTask(n)
  BY NewTaskOK
<1>4. line \o <<t, u>> = Append(Append(line, t), u)
  OBVIOUS
<1> QED
  BY <1>1, <1>2, <1>3, <1>4

\* Those that waited for c stand in line again, the others go on waiting.
LEMMA WakeStep ==
  ASSUME TypeOK, NEW c \in Clients, NEW lost \in SUBSET Clients, Wake(c, lost)
  PROVE  /\ ready' \in Seq(Tasks) /\ Len(ready) <= Len(ready')
         /\ \A i \in 1 .. Len(ready) : ready'[i] = ready[i]
         /\ \A i \in (Len(ready) + 1) .. Len(ready') : \E j \in DOMAIN waiting :
              /\ ready'[i].started = waiting[j].started /\ ready'[i].msg = waiting[j].msg
              /\ ready'[i].todo = waiting[j].todo
              /\ ready'[i].dead \subseteq waiting[j].dead \cup lost
         /\ waiting' \in Seq(Tasks)
         /\ \A i \in DOMAIN waiting' : \E j \in DOMAIN waiting : waiting'[i] = waiting[j]
<1> DEFINE S == {i \in DOMAIN waiting : waiting[i].at = c}
           R == {i \in DOMAIN waiting : waiting[i].at # c}
           woken == Picked(waiting, S)
<1>1. waiting \in Seq(Tasks) /\ ready \in Seq(Tasks)
  BY DEF TypeOK
<1>2. PICK raises \in SUBSET lost :
        ready' = ready \o [i \in DOMAIN woken |-> [woken[i] EXCEPT !.at = Nobody, !.dead = woken[i].dead \cup raises]]
  BY Zenon DEF Wake
<1>3. waiting' = Picked(waiting, R)
  BY Zenon DEF Wake
<1>4. S \in SUBSET DOMAIN waiting /\ R \in SUBSET DOMAIN waiting
  OBVIOUS
<1> HIDE DEF S, R
<1>5. woken \in Seq(Tasks) /\ \A i \in DOMAIN woken : \E j \in DOMAIN waiting : woken[i] = waiting[j]
  BY <1>1, <1>4, PickedIsPart
<1>6. waiting' \in Seq(Tasks) /\ \A i \in DOMAIN waiting' : \E j \in DOMAIN waiting : waiting'[i] = waiting[j]
  BY <1>1, <1>3, <1>4, PickedIsPart
<1> HIDE DEF woken
<1> DEFINE on == [i \in DOMAIN woken |-> [woken[i] EXCEPT !.at = Nobody, !.dead = woken[i].dead \cup raises]]
<1>7. /\ DOMAIN on = DOMAIN woken
      /\ \A i \in DOMAIN woken :
           /\ on[i] \in Tasks /\ on[i].started = woken[i].started /\ on[i].msg = woken[i].msg
           /\ on[i].todo = woken[i].todo /\ on[i].dead \subseteq woken[i].dead \cup lost
  <2>1. \A i \in DOMAIN woken : woken[i] \in Tasks
    BY <1>5
  <2>2. raises \in SUBSET Clients
    OBVIOUS
  <2>3. ASSUME NEW t \in Tasks, NEW u,
               u = [t EXCEPT !.at = Nobody, !.dead = t.dead \cup raises]
        PROVE  /\ u \in Tasks /\ u.started = t.started /\ u.msg = t.msg
               /\ u.todo = t.todo /\ u.dead \subseteq t.dead \cup lost
    BY <2>2, <2>3 DEF Tasks
  <2>4. DOMAIN on = DOMAIN woken /\ \A i \in DOMAIN woken :
          on[i] = [woken[i] EXCEPT !.at = Nobody, !.dead = woken[i].dead \cup raises]
    OBVIOUS
  <2> HIDE DEF on
  <2>5. ASSUME NEW i \in DOMAIN woken
        PROVE  /\ on[i] \in Tasks /\ on[i].started = woken[i].started /\ on[i].msg = woken[i].msg
               /\ on[i].todo = woken[i].todo /\ on[i].dead \subseteq woken[i].dead \cup lost
    BY <2>1, <2>3, <2>4, Zenon
  <2>6. QED
    BY <2>4, <2>5, Zenon
<1>8. on \in Seq(Tasks) /\ Len(on) \in Nat /\ DOMAIN on = 1 .. Len(on)
  <2>1. DOMAIN woken = 1 .. Len(woken) /\ Len(woken) \in Nat
    BY <1>5
  <2> HIDE DEF on
  <2>2. on = [i \in 1 .. Len(woken) |-> on[i]]
    BY <2>1 DEF on
  <2>3. on \in [1 .. Len(woken) -> Tasks]
    BY <1>7, <2>1, <2>2
  <2>4. on \in Seq(Tasks)
    BY <2>1, <2>3
  <2>5. QED
    BY <2>4
<1>9. ready' = ready \o on
  BY <1>2, Zenon
<1> HIDE DEF on
<1>10. /\ ready' \in Seq(Tasks) /\ Len(ready') = Len(ready) + Len(on) /\ Len(ready) \in Nat
       /\ \A i \in 1 .. Len(ready) : ready'[i] = ready[i]
       /\ \A i \in (Len(ready) + 1) .. Len(ready') :
            ready'[i] = on[i - Len(ready)] /\ i - Len(ready) \in 1 .. Len(on)
  BY <1>1, <1>8, <1>9
<1>11. ASSUME NEW i \in (Len(ready) + 1) .. Len(ready')
       PROVE  \E j \in DOMAIN waiting :
              /\ ready'[i].started = waiting[j].started /\ ready'[i].msg = waiting[j].msg
              /\ ready'[i].todo = waiting[j].todo
              /\ ready'[i].dead \subseteq waiting[j].dead \cup lost
  <2>1. PICK k \in DOMAIN on : ready'[i] = on[k]
    BY <1>8, <1>10
  <2>2. PICK j \in DOMAIN waiting : woken[k] = waiting[j]
    BY <1>5, <1>7, <2>1
  <2>3. QED
    BY <1>7, <2>1, <2>2
<1> QED
  BY <1>6, <1>8, <1>10, <1>11

\* A message fits what has become true: it says what is true of what it says, and
\* the rest is as before; a press of a known button changes nothing of it.
Fits(msg, now, now2, r, r2) ==
  /\ \A f \in Fields : Says(msg, f) => Word(msg, f) = Part(now2, f)
  /\ \A f \in Fields : ~Says(msg, f) /\ (f = "edits" => r2 = 0) =>
       Part(now2, f) = Part(now, f) /\ (f = "edits" => r = 0)
  /\ msg.kind = "button_event" /\ msg.known => now.config.button /\ now2.config.button

\* The button was not removed, or all presses in line came before that.
Counts(line, now, now2, n, n2) ==
  \/ n2 = n /\ (now.config.button => now2.config.button)
  \/ \A i \in DOMAIN line : line[i].msg.id <= n2

\* The same for a whole line: the truth it leaves, and its presses.
Holds(line, who, v, now, r, n) ==
  TruthHolds(line, who, v, now, r) /\ PressHolds(line, who, v, now, n)

Follows(line, msg, now, now2, r, r2, n, n2) ==
  /\ now \in Views /\ now2 \in Views /\ n \in Nat /\ n2 \in Nat
  /\ Fits(msg, now, now2, r, r2) /\ Counts(line, now, now2, n, n2)

LEMMA Grown ==
  ASSUME NEW line \in Seq(Tasks), NEW msg \in Messages
  PROVE  LET line2 == Append(line, NewTask(msg)) IN
         /\ line2 \in Seq(Tasks) /\ Len(line2) = Len(line) + 1 /\ Len(line) \in Nat
         /\ \A i \in 1 .. Len(line) : line2[i] = line[i]
         /\ line2[Len(line) + 1] = NewTask(msg)
         /\ DOMAIN line = 1 .. Len(line) /\ DOMAIN line2 = 1 .. (Len(line) + 1)
<1>1. PICK t \in Tasks : t = NewTask(msg)
  BY NewTaskOK
<1> HIDE DEF NewTask
<1> QED
  BY <1>1

LEMMA Told ==
  ASSUME NEW line \in Seq(Tasks), NEW msg \in Messages, NEW who, NEW v,
         NEW now, NEW now2, NEW r, NEW r2, NEW n, NEW n2,
         Holds(line, who, v, now, r, n), Follows(line, msg, now, now2, r, r2, n, n2)
  PROVE  Holds(Append(line, NewTask(msg)), who, v, now2, r2, n2)
<1> DEFINE line2 == Append(line, NewTask(msg))
<1>0. /\ now \in Views /\ now2 \in Views /\ n \in Nat /\ n2 \in Nat
      /\ Fits(msg, now, now2, r, r2) /\ Counts(line, now, now2, n, n2)
      /\ TruthHolds(line, who, v, now, r) /\ PressHolds(line, who, v, now, n)
  BY DEF Holds, Follows
<1>1. NewTask(msg).msg = msg
  BY NewTaskOK
<1>2. /\ line2 \in Seq(Tasks) /\ Len(line2) = Len(line) + 1 /\ Len(line) \in Nat
      /\ \A i \in 1 .. Len(line) : line2[i] = line[i]
      /\ line2[Len(line) + 1] = NewTask(msg)
      /\ DOMAIN line = 1 .. Len(line) /\ DOMAIN line2 = 1 .. (Len(line) + 1)
  BY Grown
<1>3. ASSUME NEW f \in Fields, f = "edits" => r2 = 0
      PROVE  Settles(line2, Len(line2), who, v, f, Part(now2, f))
  <2>1. PICK x : x = Part(now2, f)
    OBVIOUS
  <2>2. Says(msg, f) => Word(msg, f) = x
    BY <1>0, <2>1 DEF Fits
  <2>3. ~Says(msg, f) => Settles(line, Len(line), who, v, f, x)
    BY <1>0, <1>3, <2>1 DEF TruthHolds, Fits
  <2>4. Settles(line2, Len(line2), who, v, f, x)
    BY <2>2, <2>3, OneTold
  <2>5. QED
    BY <2>1, <2>4
<1> HIDE DEF line2
<1>4. ASSUME NEW e \in DOMAIN line2, ~line2[e].started, Presses(line2[e].msg, n2)
      PROVE  now2.config.button /\ Settles(line2, e - 1, who, v, "button", TRUE)
  <2>1. PICK k \in Nat : k = e - 1 /\ k <= Len(line)
    BY <1>2
  <2>2. now2.config.button /\ Settles(line, k, who, v, "button", TRUE)
    <3>1. CASE e \in 1 .. Len(line)
      <4>1. line2[e] = line[e] /\ e \in DOMAIN line /\ line[e].msg.id \in Nat
        <5>1. line[e].msg \in Messages
          <6>1. line[e] \in Tasks
            BY <1>2, <3>1
          <6>2. QED
            BY <6>1 DEF Tasks
        <5>2. QED
          BY <1>2, <3>1, <5>1 DEF Messages
      <4>2. n2 = n /\ (now.config.button => now2.config.button)
        BY <1>0, <1>4, <4>1 DEF Presses, Counts
      <4>3. QED
        BY <1>0, <1>4, <2>1, <4>1, <4>2 DEF PressHolds
    <3>2. CASE e = Len(line) + 1
      <4>1. msg.kind = "button_event" /\ msg.known
        BY <1>1, <1>2, <1>4, <3>2 DEF Presses
      <4>2. now.config.button /\ now2.config.button
        BY <1>0, <4>1 DEF Fits
      <4>3. Part(now, "button") = TRUE
        BY <1>0, <4>2 DEF Part, Views, Configs
      <4>4. Settles(line, Len(line), who, v, "button", Part(now, "button"))
        BY <1>0 DEF TruthHolds, Fields
      <4>5. k = Len(line)
        BY <1>2, <2>1, <3>2
      <4>6. QED
        BY <4>2, <4>3, <4>4, <4>5
    <3>3. e \in 1 .. Len(line) \/ e = Len(line) + 1
      BY <1>2
    <3>4. QED
      BY <3>1, <3>2, <3>3
  <2>3. /\ k <= k /\ \A i \in (k + 1) .. k : FALSE
        /\ \A i \in 1 .. k : line2[i] = line[i]
    BY <1>2, <2>1
  <2>4. PICK x : x = TRUE
    OBVIOUS
  <2>5. Settles(line, k, who, v, "button", x)
    BY <2>2, <2>4
  <2>6. \A i \in (k + 1) .. k : ~Spoils(line2[i], "button", x)
    BY <2>3, Zenon
  <2>7. \A c \in who : Part(v[c], "button") = Part(v[c], "button")
    OBVIOUS
  <2>8. Settles(line2, k, who, v, "button", x)
    BY <1>2, <2>3, <2>5, <2>6, <2>7, NothingElseSaid, Zenon
  <2>9. QED
    BY <2>1, <2>2, <2>4, <2>8
<1>5. TruthHolds(line2, who, v, now2, r2)
  BY <1>3 DEF TruthHolds
<1>6. PressHolds(line2, who, v, now2, n2)
  BY <1>4 DEF PressHolds
<1> QED
  BY <1>5, <1>6 DEF Holds, line2

\* The first in line runs.
LEMMA RunStep ==
  ASSUME IInv, Run
  PROVE  IInv'
<1> DEFINE t == ready[1]
<1>1. /\ ready \in Seq(Tasks) /\ ready # <<>> /\ Len(ready) \in Nat
      /\ ready' = Tail(ready) /\ UNCHANGED <<data, made, open, removed>>
      /\ Broadcast(t, waiting) /\ waiting \in Seq(Tasks)
  <2>1. Head(ready) = ready[1]
    BY DEF IInv, TypeOK
  <2>2. Broadcast(Head(ready), waiting)
    BY DEF Run
  <2>3. Broadcast(t, waiting)
    BY <2>1, <2>2
  <2>4. QED
    BY <2>3 DEF IInv, TypeOK, Run
<1>2. /\ t \in Tasks /\ 1 \in DOMAIN ready /\ 1 \in 1 .. Len(ready)
      /\ ready' \in Seq(Tasks) /\ Len(ready') = Len(ready) - 1
      /\ DOMAIN ready' = 1 .. (Len(ready) - 1) /\ DOMAIN ready = 1 .. Len(ready)
      /\ \A i \in 1 .. (Len(ready) - 1) : ready'[i] = ready[i + 1] /\ i + 1 \in DOMAIN ready
  BY <1>1
<1> HIDE DEF t
<1>3. TaskOK(t, open, behind, made)
  BY <1>2 DEF t, IInv, TasksOK
<1>4. PressIsKnown(t)
  <2>1. SUFFICES ASSUME Presses(t.msg, removed), ~t.started, NEW c \in open \ behind
                 PROVE  view[c].config.button
    BY DEF PressIsKnown
  <2>2. Settles(ready, 1 - 1, open \ behind, view, "button", TRUE)
    BY <1>2, <2>1 DEF t, IInv, PressOK, PressHolds
  <2>3. \A j \in 1 .. (1 - 1) : FALSE
    OBVIOUS
  <2>4. Part(view[c], "button") = TRUE
    BY <2>2, <2>3 DEF Settles
  <2>5. QED
    BY <2>4 DEF Part
<1>5. /\ waiting' \in Seq(Tasks)
      /\ \A i \in DOMAIN waiting' :
           \/ \E j \in DOMAIN waiting : waiting'[i] = waiting[j]
           \/ waiting'[i].started /\ TaskOK(waiting'[i], open, behind', made)
      /\ clients' \in SUBSET Clients /\ open \subseteq clients'
      /\ behind \subseteq behind' /\ stray' \subseteq behind'
      /\ view' \in [Clients -> Views]
      /\ \A c \in open \ behind' :
           view'[c] = IF t.started THEN view[c] ELSE Shows(view[c], t.msg)
  BY <1>1, <1>2, <1>3, <1>4, BroadcastStep DEF IInv
<1>6. \A s : TaskOK(s, open, behind, made) => TaskOK(s, open, behind', made)
  BY <1>5 DEF TaskOK
<1>7. TypeOK'
  BY <1>1, <1>2, <1>5 DEF IInv, TypeOK, data
<1>8. TasksOK'
  <2>1. \A i \in DOMAIN ready' : TaskOK(ready'[i], open, behind', made)
    BY <1>2, <1>6 DEF IInv, TasksOK
  <2>2. \A i \in DOMAIN waiting' : TaskOK(waiting'[i], open, behind', made) /\ waiting'[i].started
    BY <1>5, <1>6 DEF IInv, TasksOK
  <2>3. QED
    BY <1>1, <2>1, <2>2 DEF TasksOK
<1>9. ASSUME NEW f \in Fields, NEW c \in open \ behind'
      PROVE  Part(view'[c], f) = IF ~ready[1].started /\ Says(ready[1].msg, f)
                                 THEN Word(ready[1].msg, f) ELSE Part(view[c], f)
  <2>1. view[c] \in Views /\ t.msg \in Messages
    BY <1>2 DEF IInv, TypeOK, Tasks
  <2>2. Part(Shows(view[c], t.msg), f) = IF Says(t.msg, f) THEN Word(t.msg, f) ELSE Part(view[c], f)
    BY <2>1, ShowsWhatItSays
  <2>3. QED
    BY <1>5, <2>2 DEF t
<1>10. open \ behind' \in SUBSET (open \ behind)
  BY <1>5
<1>11. Now' = Now /\ reloads' = reloads /\ removed' = removed /\ open' = open
  BY <1>1 DEF Now, data
<1>12. TruthOK'
  <2>1. ASSUME NEW f \in Fields, f = "edits" => reloads = 0
        PROVE  Settles(ready', Len(ready'), open \ behind', view', f, Part(Now, f))
    <3>1. Settles(ready, Len(ready), open \ behind, view, f, Part(Now, f))
      BY <2>1 DEF IInv, TruthOK, TruthHolds
    <3>2. Len(ready) \in 1 .. Len(ready)
      BY <1>1, <1>2
    <3>3. Settles(Tail(ready), Len(ready) - 1, open \ behind', view', f, Part(Now, f))
      BY <1>1, <1>9, <1>10, <3>1, <3>2, FirstTold
    <3>4. QED
      BY <1>1, <1>2, <3>3
  <2>2. QED
    BY <1>11, <2>1 DEF TruthOK, TruthHolds
<1>13. PressOK'
  <2>1. ASSUME NEW e \in DOMAIN ready', ~ready'[e].started, Presses(ready'[e].msg, removed)
        PROVE  config.button /\ Settles(ready', e - 1, open \ behind', view', "button", TRUE)
    <3>1. PICK k \in DOMAIN ready : k = e + 1 /\ ready'[e] = ready[k]
      BY <1>2
    <3>2. config.button /\ Settles(ready, k - 1, open \ behind, view, "button", TRUE)
      BY <2>1, <3>1 DEF IInv, PressOK, PressHolds, Now
    <3>3. k - 1 \in 1 .. Len(ready) /\ k - 1 = e
      BY <1>2, <3>1
    <3>4. "button" \in Fields
      BY DEF Fields
    <3>5. PICK x : x = TRUE
      OBVIOUS
    <3>6. Settles(ready, e, open \ behind, view, "button", x)
      BY <3>2, <3>3, <3>5
    <3>7. Settles(Tail(ready), e - 1, open \ behind', view', "button", x)
      BY <1>1, <1>9, <1>10, <3>3, <3>4, <3>6, FirstTold
    <3>8. QED
      BY <1>1, <3>2, <3>5, <3>7
  <2>2. QED
    BY <1>11, <2>1 DEF PressOK, PressHolds, Now
<1>14. reloads' = 0 => config' = file'
  BY <1>1 DEF IInv, data
<1> QED
  BY <1>5, <1>7, <1>8, <1>12, <1>13, <1>14 DEF IInv

\* New tasks in line leave the other parts of the invariant as they are.
LEMMA LineStep ==
  ASSUME IInv, ready' \in Seq(Tasks),
         \A i \in DOMAIN ready' :
           \/ i \in DOMAIN ready /\ ready'[i] = ready[i]
           \/ \E msg \in Messages : ready'[i] = NewTask(msg) /\ msg.id <= made',
         made <= made', made' \in Nat,
         UNCHANGED <<waiting, clients, open, view, stray, behind>>,
         state' \in Nat, file' \in Configs, config' \in Configs,
         reloads' \in Nat, removed' \in Nat,
         Holds(ready', open \ behind, view, Now', reloads', removed'),
         reloads' = 0 => config' = file'
  PROVE  IInv'
<1>1. TruthOK' /\ PressOK'
  BY DEF TruthOK, PressOK, Holds
<1>2. TypeOK'
  BY DEF IInv, TypeOK
<1>3. TasksOK'
  <2>1. ASSUME NEW t \in Tasks, TaskOK(t, open, behind, made)
        PROVE  TaskOK(t, open, behind, made')
    <3>1. t.msg.id \in Nat
      BY DEF Tasks, Messages
    <3>2. made \in Nat
      BY DEF IInv, TypeOK
    <3>3. \A i, m, n \in Nat : i <= m /\ m <= n => i <= n
      OBVIOUS
    <3>4. t.msg.id <= made'
      BY <2>1, <3>1, <3>2, <3>3, Zenon DEF TaskOK
    <3>5. QED
      BY <2>1, <3>4, Zenon DEF TaskOK
  <2>2. \A msg \in Messages : msg.id <= made' => TaskOK(NewTask(msg), open, behind, made')
    BY NewTaskOK DEF TaskOK
  <2>3. \A i \in DOMAIN ready' : TaskOK(ready'[i], open, behind, made')
    BY <2>1, <2>2 DEF IInv, TasksOK, TypeOK
  <2>4. \A i \in DOMAIN waiting : TaskOK(waiting[i], open, behind, made') /\ waiting[i].started
    BY <2>1 DEF IInv, TasksOK, TypeOK
  <2>5. QED
    BY <2>3, <2>4 DEF TasksOK
<1> QED
  BY <1>1, <1>2, <1>3 DEF IInv

\* One message is told after a change of the state or the installation.
LEMMA ToldStep ==
  ASSUME IInv, NEW msg \in Messages,
         ready' = Append(ready, NewTask(msg)), msg.id <= made', made <= made', made' \in Nat,
         UNCHANGED <<waiting, clients, open, view, stray, behind>>,
         state' \in Nat, file' \in Configs, config' \in Configs,
         reloads' \in Nat, removed' \in Nat,
         Fits(msg, Now, Now', reloads, reloads'),
         (removed' = removed /\ (config.button => config'.button)) \/ removed' = made,
         reloads' = 0 => config' = file'
  PROVE  IInv'
<1>1. ready \in Seq(Tasks) /\ Len(ready) \in Nat /\ DOMAIN ready = 1 .. Len(ready)
  BY DEF IInv, TypeOK
<1>2. Now \in Views /\ Now' \in Views /\ removed \in Nat
  BY DEF IInv, TypeOK, Now, Views
<1>3. Now.config = config /\ Now'.config = config'
  BY DEF Now
<1>4. \A i \in DOMAIN ready : ready[i].msg.id <= made
  BY DEF IInv, TasksOK, TaskOK
<1>5. PICK now2 : now2 = Now'
  OBVIOUS
<1>6. PICK r2 : r2 = reloads'
  OBVIOUS
<1>7. PICK n2 : n2 = removed'
  OBVIOUS
<1>8. Follows(ready, msg, Now, now2, reloads, r2, removed, n2)
  BY <1>2, <1>3, <1>4, <1>5, <1>6, <1>7 DEF Follows, Counts
<1>9. Holds(ready, open \ behind, view, Now, reloads, removed)
  BY DEF IInv, TruthOK, PressOK, Holds
<1>10. Holds(Append(ready, NewTask(msg)), open \ behind, view, now2, r2, n2)
  BY <1>1, <1>8, <1>9, Told
<1>11. /\ ready' \in Seq(Tasks) /\ DOMAIN ready' = 1 .. (Len(ready) + 1)
       /\ \A i \in 1 .. Len(ready) : ready'[i] = ready[i]
       /\ ready'[Len(ready) + 1] = NewTask(msg)
  BY <1>1, Grown
<1>12. Holds(ready', open \ behind, view, Now', reloads', removed')
  BY <1>5, <1>6, <1>7, <1>10
<1>13. \A i \in DOMAIN ready' :
         \/ i \in DOMAIN ready /\ ready'[i] = ready[i]
         \/ ready'[i] = NewTask(msg) /\ msg.id <= made'
  <2>1. \A n \in Nat : \A i \in 1 .. (n + 1) : i \in 1 .. n \/ i = n + 1
    OBVIOUS
  <2>2. QED
    BY <1>1, <1>11, <2>1, Zenon
<1> QED
  BY <1>11, <1>12, <1>13, LineStep

LEMMA StateStep ==
  ASSUME IInv, StateChanges
  PROVE  IInv'
<1>1. PICK s \in Nat : s = state' /\ s = state + 1
  BY DEF IInv, TypeOK, StateChanges
<1> DEFINE msg == StateChanged(made + 1, s)
<1>2. Tell(<<msg>>)
  BY <1>1 DEF StateChanges
<1>3. /\ msg \in Messages /\ msg.id = made + 1 /\ msg.kind = "state_changed" /\ msg.state = s
      /\ made \in Nat /\ ready \in Seq(Tasks)
  BY DEF IInv, TypeOK, StateChanged, Messages
<1> HIDE DEF msg
<1>4. /\ made' = made + 1 /\ ready' = Append(ready, NewTask(msg))
      /\ UNCHANGED <<waiting, clients, open, view, stray, behind>>
  BY <1>2, <1>3, TellOne DEF Tell, sockets, told
<1>5. UNCHANGED <<file, config, reloads, removed>>
  BY DEF StateChanges
<1>6. Fits(msg, Now, Now', reloads, reloads')
  BY <1>1, <1>3, <1>5 DEF Fits, Says, Word, Part, Fields, Now
<1> QED
  BY <1>1, <1>3, <1>4, <1>5, <1>6, ToldStep DEF IInv, TypeOK

\* A snapshot of what is true.
LEMMA SnapshotFits ==
  ASSUME NEW n, NEW cfg, NEW now, NEW now2, NEW r, NEW r2,
         now2 = [state |-> state, config |-> cfg]
  PROVE  Fits(Snapshot(n, cfg), now, now2, r, r2)
BY DEF Fits, Says, Word, Part, Fields, Snapshot

LEMMA ReloadStep ==
  ASSUME IInv, Reload
  PROVE  IInv'
<1> DEFINE msg == Snapshot(made + 1, file)
<1>1. /\ msg \in Messages /\ msg.id = made + 1
      /\ made \in Nat /\ ready \in Seq(Tasks) /\ reloads \in Nat /\ removed \in Nat
      /\ config \in Configs /\ file \in Configs /\ state \in Nat
  <2>1. /\ made \in Nat /\ ready \in Seq(Tasks) /\ reloads \in Nat /\ removed \in Nat
        /\ config \in Configs /\ file \in Configs /\ state \in Nat
    BY DEF IInv, TypeOK
  <2>2. made + 1 \in Nat
    BY <2>1
  <2>3. QED
    BY <2>1, <2>2 DEF Snapshot, Messages
<1>2. /\ Tell(<<msg>>) /\ UNCHANGED <<state, file>> /\ config' = file
      /\ reloads > 0 /\ reloads' = reloads - 1
      /\ removed' = IF config.button /\ ~file.button THEN made ELSE removed
  BY DEF Reload
<1>3. Fits(msg, Now, Now', reloads, reloads')
  <2>1. PICK now2 : now2 = Now'
    OBVIOUS
  <2>2. PICK r2 : r2 = reloads'
    OBVIOUS
  <2>3. now2 = [state |-> state, config |-> file]
    BY <1>2, <2>1 DEF Now
  <2>4. Fits(msg, Now, now2, reloads, r2)
    BY <2>3, SnapshotFits
  <2>5. QED
    BY <2>1, <2>2, <2>4
<1>4. msg.kind = "snapshot"
  BY DEF Snapshot
<1> HIDE DEF msg
<1>5. /\ made' = made + 1 /\ ready' = Append(ready, NewTask(msg))
      /\ UNCHANGED <<waiting, clients, open, view, stray, behind>>
  BY <1>1, <1>2, TellOne DEF Tell, sockets, told
<1>6. reloads' \in Nat /\ removed' \in Nat
  BY <1>1, <1>2
<1>7. (removed' = removed /\ (config.button => config'.button)) \/ removed' = made
  BY <1>2
<1> QED
  BY <1>1, <1>2, <1>3, <1>5, <1>6, <1>7, ToldStep

LEMMA RefreshedStep ==
  ASSUME IInv, Refreshed
  PROVE  IInv'
<1> DEFINE msg == Snapshot(made + 1, config)
<1>1. /\ msg \in Messages /\ msg.id = made + 1
      /\ made \in Nat /\ ready \in Seq(Tasks) /\ reloads \in Nat /\ removed \in Nat
      /\ config \in Configs /\ file \in Configs /\ state \in Nat
  <2>1. /\ made \in Nat /\ ready \in Seq(Tasks) /\ reloads \in Nat /\ removed \in Nat
        /\ config \in Configs /\ file \in Configs /\ state \in Nat
    BY DEF IInv, TypeOK
  <2>2. made + 1 \in Nat
    BY <2>1
  <2>3. QED
    BY <2>1, <2>2 DEF Snapshot, Messages
<1>2. Tell(<<msg>>) /\ UNCHANGED <<state, file, config, reloads, removed>>
  BY DEF Refreshed, data
<1>3. Now' = Now /\ Fits(msg, Now, Now, reloads, reloads)
  BY <1>2, SnapshotFits DEF Now
<1> HIDE DEF msg
<1>4. /\ made' = made + 1 /\ ready' = Append(ready, NewTask(msg))
      /\ UNCHANGED <<waiting, clients, open, view, stray, behind>>
  BY <1>1, <1>2, TellOne DEF Tell, sockets, told
<1>5. Fits(msg, Now, Now', reloads, reloads')
  BY <1>2, <1>3
<1> QED
  BY <1>1, <1>2, <1>4, <1>5, ToldStep DEF IInv

LEMMA PressStep ==
  ASSUME IInv, NEW ok \in BOOLEAN, Press(ok)
  PROVE  IInv'
<1>1. /\ made \in Nat /\ ready \in Seq(Tasks) /\ reloads \in Nat /\ removed \in Nat
      /\ config \in Configs /\ file \in Configs /\ state \in Nat
      /\ reloads = 0 => config = file
      /\ Len(ready) \in Nat /\ DOMAIN ready = 1 .. Len(ready)
  BY DEF IInv, TypeOK
<1>2. UNCHANGED <<state, reloads, removed>> /\ Learn(ok)
  BY DEF Press
<1>3. CASE ~Learns(ok)
  <2> DEFINE msg == ButtonEvent(made + 1, config.button)
  <2>1. /\ msg \in Messages /\ msg.id = made + 1 /\ msg.kind = "button_event"
        /\ msg.known = config.button
    BY <1>1, MessagesTyped DEF ButtonEvent, Configs
  <2>2. Tell(<<msg>>) /\ UNCHANGED <<file, config>>
    BY <1>2, <1>3 DEF Press, Learn
  <2> HIDE DEF msg
  <2>3. /\ made' = made + 1 /\ ready' = Append(ready, NewTask(msg))
        /\ UNCHANGED <<waiting, clients, open, view, stray, behind>>
    BY <1>1, <2>2, TellOne DEF Tell, sockets, told
  <2>4. Fits(msg, Now, Now, reloads, reloads)
    BY <2>1 DEF Fits, Says, Now
  <2>5. Now' = Now /\ reloads' = reloads
    BY <1>2, <2>2 DEF Now
  <2>6. Fits(msg, Now, Now', reloads, reloads')
    BY <2>4, <2>5
  <2>7. QED
    BY <1>1, <1>2, <2>1, <2>2, <2>3, <2>6, ToldStep
<1>4. CASE Learns(ok)
  <2> DEFINE added == DeviceAdded(made + 1)
             event == ButtonEvent(made + 2, TRUE)
  <2>1. /\ added \in Messages /\ added.id = made + 1 /\ added.kind = "device_added"
        /\ event \in Messages /\ event.id = made + 2 /\ event.kind = "button_event"
    <3>1. made + 1 \in Nat /\ made + 2 \in Nat
      BY <1>1
    <3>2. added \in Messages /\ event \in Messages
      BY <3>1 DEF DeviceAdded, ButtonEvent, Messages
    <3>3. QED
      BY <3>2 DEF DeviceAdded, ButtonEvent
  <2>2. /\ Tell(<<added, event>>) /\ config' = file' /\ file' = [file EXCEPT !.button = TRUE]
    BY <1>2, <1>4 DEF Press, Learn
  <2> HIDE DEF added, event
  <2>3. /\ made' = made + 2
        /\ ready' = Append(Append(ready, NewTask(added)), NewTask(event))
        /\ UNCHANGED <<waiting, clients, open, view, stray, behind>>
    <3>1. Len(<<added, event>>) = 2
      OBVIOUS
    <3>2. QED
      BY <1>1, <2>1, <2>2, <3>1, TellTwo DEF Tell, sockets, told
  <2>4. config' \in Configs /\ config'.button = TRUE /\ config'.edits = file.edits
    BY <1>1, <2>2 DEF Configs
  <2>5. PICK now2 \in Views : now2 = Now' /\ now2.config.button = TRUE /\ now2.state = state
                              /\ now2.config.edits = file.edits
    <3>1. Now' = [state |-> state, config |-> config']
      BY <1>2 DEF Now
    <3>2. PICK cfg : cfg = config'
      OBVIOUS
    <3>3. [state |-> state, config |-> cfg] \in Views
      BY <1>1, <2>4, <3>2 DEF Views
    <3>4. PICK now2 : now2 = [state |-> state, config |-> cfg]
      OBVIOUS
    <3>5. now2 = Now' /\ now2.config = cfg /\ now2.state = state /\ now2 \in Views
      BY <3>1, <3>2, <3>3, <3>4
    <3>6. QED
      BY <2>4, <3>2, <3>5
  <2>6. Fits(added, Now, now2, reloads, reloads) /\ Fits(event, now2, now2, reloads, reloads)
    BY <1>1, <2>1, <2>5 DEF Fits, Says, Word, Part, Fields, Now
  <2>7. Now \in Views
    BY <1>1 DEF Now, Views
  <2>8. Follows(ready, added, Now, now2, reloads, reloads, removed, removed)
    BY <1>1, <2>5, <2>6, <2>7 DEF Follows, Counts
  <2> DEFINE line == Append(ready, NewTask(added))
  <2>9. Follows(line, event, now2, now2, reloads, reloads, removed, removed)
    BY <1>1, <2>5, <2>6 DEF Follows, Counts
  <2>10. Holds(ready, open \ behind, view, Now, reloads, removed)
    BY DEF IInv, TruthOK, PressOK, Holds
  <2>11. Holds(line, open \ behind, view, now2, reloads, removed)
    BY <1>1, <2>1, <2>8, <2>10, Told
  <2>12. /\ line \in Seq(Tasks) /\ Len(line) = Len(ready) + 1
         /\ \A i \in 1 .. Len(ready) : line[i] = ready[i]
         /\ line[Len(ready) + 1] = NewTask(added)
    BY <1>1, <2>1, Grown
  <2>13. ready' = Append(line, NewTask(event))
    BY <2>3
  <2> HIDE DEF line
  <2>14. Holds(ready', open \ behind, view, now2, reloads, removed)
    BY <2>1, <2>9, <2>11, <2>12, <2>13, Told
  <2>15. /\ ready' \in Seq(Tasks) /\ DOMAIN ready' = 1 .. (Len(line) + 1)
         /\ \A i \in 1 .. Len(line) : ready'[i] = line[i]
         /\ ready'[Len(line) + 1] = NewTask(event)
    BY <2>1, <2>12, <2>13, Grown
  <2>16. \A i \in DOMAIN ready' :
           \/ i \in DOMAIN ready /\ ready'[i] = ready[i]
           \/ \E msg \in Messages : ready'[i] = NewTask(msg) /\ msg.id <= made'
    <3>1. \A n \in Nat : \A i \in 1 .. (n + 1 + 1) :
            (i \in 1 .. n /\ i \in 1 .. (n + 1)) \/ (i = n + 1 /\ i \in 1 .. (n + 1)) \/ i = n + 1 + 1
      OBVIOUS
    <3>2. added.id <= made' /\ event.id <= made'
      BY <1>1, <2>1, <2>3
    <3>3. QED
      BY <1>1, <2>1, <2>12, <2>15, <3>1, <3>2
  <2>17. Holds(ready', open \ behind, view, Now', reloads', removed')
    BY <1>2, <2>5, <2>14
  <2>18. made' \in Nat /\ made <= made' /\ config' = file' /\ file' \in Configs
    BY <1>1, <2>2, <2>3, <2>4
  <2>19. QED
    BY <1>1, <1>2, <2>3, <2>4, <2>15, <2>16, <2>17, <2>18, LineStep
<1> QED
  BY <1>3, <1>4

\* The snapshot at the end of a sweep is sent before the line is.
LEMMA SnapshotNowStep ==
  ASSUME IInv, SnapshotNow
  PROVE  IInv'
<1> DEFINE msg == Snapshot(made + 1, config)
           t == NewTask(msg)
<1>1. /\ made \in Nat /\ ready \in Seq(Tasks) /\ waiting \in Seq(Tasks) /\ reloads \in Nat
      /\ config \in Configs /\ state \in Nat /\ view \in [Clients -> Views] /\ open \in SUBSET Clients
  BY DEF IInv, TypeOK
<1>2. /\ made' = made + 1 /\ Broadcast(t, waiting)
      /\ UNCHANGED <<state, file, config, reloads, ready, open, removed>>
  BY DEF SnapshotNow, data
<1>3. /\ msg \in Messages /\ msg.id = made + 1 /\ msg.kind = "snapshot"
      /\ msg.state = state /\ msg.config = config
  <2>1. made + 1 \in Nat
    BY <1>1
  <2>2. QED
    BY <1>1, <2>1 DEF Snapshot, Messages
<1> HIDE DEF msg
<1>4. t \in Tasks /\ t.msg = msg /\ ~t.started /\ t.dead = {}
  BY <1>3, NewTaskOK
<1> HIDE DEF t
<1>5. TaskOK(t, open, behind, made + 1)
  <2>1. made + 1 <= made + 1
    BY <1>1
  <2>2. QED
    BY <1>3, <1>4, <2>1 DEF TaskOK
<1>6. PressIsKnown(t)
  BY <1>3, <1>4 DEF PressIsKnown, Presses
<1>7. PICK n \in Nat : n = made + 1 /\ n = made'
  BY <1>1, <1>2
<1>8. /\ waiting' \in Seq(Tasks)
      /\ \A i \in DOMAIN waiting' :
           \/ \E j \in DOMAIN waiting : waiting'[i] = waiting[j]
           \/ waiting'[i].started /\ TaskOK(waiting'[i], open, behind', n)
      /\ clients' \in SUBSET Clients /\ open \subseteq clients'
      /\ behind \subseteq behind' /\ stray' \subseteq behind'
      /\ view' \in [Clients -> Views]
      /\ \A c \in open \ behind' :
           view'[c] = IF t.started THEN view[c] ELSE Shows(view[c], t.msg)
  BY <1>1, <1>2, <1>4, <1>5, <1>6, <1>7, BroadcastStep DEF IInv
<1>9. ASSUME NEW s \in Tasks, TaskOK(s, open, behind, made)
      PROVE  TaskOK(s, open, behind', n)
  <2>1. s.msg.id \in Nat
    BY DEF Tasks, Messages
  <2>2. s.msg.id <= n
    BY <1>1, <1>7, <1>9, <2>1 DEF TaskOK
  <2>3. behind \subseteq behind'
    BY <1>8
  <2>4. QED
    BY <1>9, <2>2, <2>3, Zenon DEF TaskOK
<1>10. TypeOK'
  BY <1>1, <1>2, <1>7, <1>8 DEF IInv, TypeOK
<1>11. TasksOK'
  <2>1. \A i \in DOMAIN ready : TaskOK(ready[i], open, behind', n)
    BY <1>1, <1>9 DEF IInv, TasksOK
  <2>2. \A i \in DOMAIN waiting' : TaskOK(waiting'[i], open, behind', n) /\ waiting'[i].started
    BY <1>1, <1>8, <1>9 DEF IInv, TasksOK
  <2>3. QED
    BY <1>2, <1>7, <2>1, <2>2 DEF TasksOK
<1>12. \A c \in open' \ behind' : view'[c] = [state |-> state, config |-> config]
  BY <1>2, <1>3, <1>4, <1>8 DEF Shows
<1>13. TruthOK' /\ PressOK'
  <2>1. ready' = ready /\ Len(ready) <= Len(ready') /\ \A i \in (Len(ready) + 1) .. Len(ready') : FALSE
    BY <1>1, <1>2
  <2>2. QED
    BY <1>1, <1>2, <1>12, <2>1, NothingSaid
<1> QED
  BY <1>2, <1>8, <1>10, <1>11, <1>13 DEF IInv

LEMMA EditStep ==
  ASSUME IInv, NEW keeps \in BOOLEAN, Edit(keeps)
  PROVE  IInv'
<1>1. /\ reloads \in Nat /\ reloads' = reloads + 1 /\ ready \in Seq(Tasks)
      /\ file' = [edits |-> file.edits + 1, button |-> keeps /\ file.button]
      /\ UNCHANGED <<state, config, made, ready, waiting, clients, open, view, stray, behind, removed>>
  BY DEF IInv, TypeOK, Edit, tasks, sockets, told
<1>2. reloads' \in Nat /\ reloads' # 0
  BY <1>1
<1>3. file' \in Configs
  BY <1>1 DEF IInv, TypeOK, Configs
<1>4. TypeOK'
  BY <1>1, <1>2, <1>3 DEF IInv, TypeOK
<1>5. TasksOK'
  BY <1>1 DEF IInv, TasksOK
<1>6. TruthOK' /\ PressOK'
  <2>1. ready' = ready /\ Len(ready) <= Len(ready') /\ \A i \in (Len(ready) + 1) .. Len(ready') : FALSE
    BY <1>1
  <2>2. QED
    BY <1>1, <1>2, <2>1, NothingSaid
<1> QED
  BY <1>1, <1>2, <1>4, <1>5, <1>6 DEF IInv

LEMMA ConnectStep ==
  ASSUME IInv, NEW c \in Clients, Connect(c)
  PROVE  IInv'
<1>1. /\ view \in [Clients -> Views] /\ config \in Configs /\ state \in Nat
      /\ ready \in Seq(Tasks) /\ open \in SUBSET clients /\ clients \in SUBSET Clients
  BY DEF IInv, TypeOK
<1>2. /\ clients' = clients \cup {c} /\ open' = open \cup {c}
      /\ UNCHANGED <<state, file, config, reloads, made, ready, waiting, stray, behind, removed>>
      /\ view' = [view EXCEPT ![c] = Shows(@, Snapshot(0, config))]
  BY DEF Connect, data, tasks
<1>3. Shows(view[c], Snapshot(0, config)) = [state |-> state, config |-> config]
  BY DEF Shows, Snapshot
<1>4. /\ view' \in [Clients -> Views] /\ view'[c] = [state |-> state, config |-> config]
      /\ \A d \in Clients : d # c => view'[d] = view[d]
  <2>1. [state |-> state, config |-> config] \in Views
    BY <1>1 DEF Views
  <2>2. view' = [view EXCEPT ![c] = [state |-> state, config |-> config]]
    BY <1>2, <1>3
  <2>3. QED
    BY <1>1, <2>1, <2>2
<1>5. \A t : t \in ToSet(ready) \/ t \in ToSet(waiting) =>
        (\A i \in DOMAIN t.todo : t.todo[i] # c) /\ c \notin t.dead
  BY DEF Connect, Fresh, ToSet
<1>6. ASSUME NEW t, TaskOK(t, open, behind, made), t \in ToSet(ready) \/ t \in ToSet(waiting)
      PROVE  TaskOK(t, open', behind', made')
  BY <1>2, <1>5, <1>6 DEF TaskOK
<1>7. TasksOK'
  <2>1. \A i \in DOMAIN ready : ready[i] \in ToSet(ready)
    BY DEF ToSet
  <2>2. \A i \in DOMAIN waiting : waiting[i] \in ToSet(waiting)
    BY DEF ToSet
  <2>3. QED
    BY <1>2, <1>6, <2>1, <2>2 DEF IInv, TasksOK
<1>8. TypeOK'
  BY <1>1, <1>2, <1>4 DEF IInv, TypeOK
<1>9. \A d \in open' \ behind' :
        \/ view'[d] = [state |-> state, config |-> config]
        \/ d \in open \ behind /\ view'[d] = view[d]
  BY <1>1, <1>2, <1>4
<1>10. TruthOK' /\ PressOK'
  <2>1. ready' = ready /\ Len(ready) <= Len(ready') /\ \A i \in (Len(ready) + 1) .. Len(ready') : FALSE
    BY <1>1, <1>2
  <2>2. QED
    BY <1>1, <1>2, <1>9, <2>1, NothingSaid
<1> QED
  BY <1>2, <1>7, <1>8, <1>10 DEF IInv

\* Tasks that waited stand in line, of clients that are still there or not.
LEMMA WokenStep ==
  ASSUME IInv, NEW c \in Clients, NEW lost \in SUBSET Clients, Wake(c, lost),
         open' \in SUBSET (open \ lost), behind \cap open' \subseteq behind',
         clients' = clients, view' \in [Clients -> Views], stray' \subseteq behind',
         \A d \in open' \ behind' : d \in open \ behind /\ view'[d] = view[d],
         UNCHANGED <<state, file, config, reloads, removed>>
  PROVE  IInv'
<1>1. /\ ready' \in Seq(Tasks) /\ Len(ready) <= Len(ready')
      /\ \A i \in 1 .. Len(ready) : ready'[i] = ready[i]
      /\ \A i \in (Len(ready) + 1) .. Len(ready') : \E j \in DOMAIN waiting :
           /\ ready'[i].started = waiting[j].started /\ ready'[i].msg = waiting[j].msg
           /\ ready'[i].todo = waiting[j].todo
           /\ ready'[i].dead \subseteq waiting[j].dead \cup lost
      /\ waiting' \in Seq(Tasks)
      /\ \A i \in DOMAIN waiting' : \E j \in DOMAIN waiting : waiting'[i] = waiting[j]
  BY WakeStep DEF IInv
<1>2. made' = made /\ ready \in Seq(Tasks)
  <2>1. made' = made
    BY Zenon DEF Wake
  <2>2. QED
    BY <2>1 DEF IInv, TypeOK
<1>3. TypeOK'
  BY <1>1, <1>2 DEF IInv, TypeOK
<1>4. ASSUME NEW t, NEW u, TaskOK(t, open, behind, made),
             u.started = t.started, u.msg = t.msg, u.todo = t.todo, u.dead \subseteq t.dead \cup lost
      PROVE  TaskOK(u, open', behind', made')
  BY <1>2, <1>4 DEF TaskOK
<1>5. TasksOK'
  <2>1. \A t : TaskOK(t, open, behind, made) => TaskOK(t, open', behind', made')
    BY <1>4
  <2>2. \A i \in 1 .. Len(ready) : TaskOK(ready'[i], open', behind', made')
    BY <1>1, <1>2, <2>1 DEF IInv, TasksOK
  <2>3. \A i \in (Len(ready) + 1) .. Len(ready') : TaskOK(ready'[i], open', behind', made')
    BY <1>1, <1>4 DEF IInv, TasksOK
  <2>4. \A i \in DOMAIN ready' : i \in 1 .. Len(ready) \/ i \in (Len(ready) + 1) .. Len(ready')
    BY <1>1, <1>2
  <2>5. \A i \in DOMAIN waiting' : TaskOK(waiting'[i], open', behind', made') /\ waiting'[i].started
    BY <1>1, <2>1 DEF IInv, TasksOK
  <2>6. QED
    BY <2>2, <2>3, <2>4, <2>5 DEF TasksOK
<1>6. TruthOK' /\ PressOK'
  <2>1. \A i \in (Len(ready) + 1) .. Len(ready') : ready'[i].started
    BY <1>1 DEF IInv, TasksOK
  <2>2. QED
    BY <1>1, <2>1, NothingSaid
<1> QED
  BY <1>3, <1>5, <1>6 DEF IInv

LEMMA ConnectionStep ==
  ASSUME IInv, NEW c \in Clients, Connection(c)
  PROVE  IInv'
<1>1. CASE Connect(c)
  BY <1>1, ConnectStep
<1>2. CASE CatchesUp(c)
  <2>1. Wake(c, {}) /\ UNCHANGED <<state, file, config, reloads, clients, open, view, stray, behind, removed>>
    BY <1>2 DEF CatchesUp, data, sockets, told
  <2>2. view' \in [Clients -> Views] /\ stray' \subseteq behind' /\ open' \in SUBSET (open \ {})
        /\ behind \cap open' \subseteq behind'
        /\ \A d \in open' \ behind' : d \in open \ behind /\ view'[d] = view[d]
    BY <2>1 DEF IInv, TypeOK
  <2>3. QED
    BY <2>1, <2>2, WokenStep
<1>3. CASE Closes(c)
  <2>1. /\ Wake(c, {c}) /\ UNCHANGED <<state, file, config, reloads, clients, removed>>
        /\ open' = open \ {c} /\ view' = [view EXCEPT ![c] = NoView]
        /\ stray' = stray \ {c} /\ behind' = behind \ {c}
    BY <1>3 DEF Closes, data
  <2>2. NoView \in Views
    BY DEF NoView, Initially, Views, Configs
  <2>3. view' \in [Clients -> Views] /\ \A d \in Clients : d # c => view'[d] = view[d]
    BY <2>1, <2>2 DEF IInv, TypeOK
  <2>4. open \subseteq Clients
    BY DEF IInv, TypeOK
  <2>5. stray' \subseteq behind' /\ open' \in SUBSET (open \ {c})
        /\ behind \cap open' \subseteq behind'
        /\ \A d \in open' \ behind' : d \in open \ behind /\ view'[d] = view[d]
    BY <2>1, <2>3, <2>4 DEF IInv
  <2>6. {c} \in SUBSET Clients
    OBVIOUS
  <2>7. QED
    BY <2>1, <2>3, <2>5, <2>6, WokenStep
<1>4. CASE Leaves(c)
  <2>1. /\ c \notin open /\ clients' = clients \ {c}
        /\ UNCHANGED <<state, file, config, reloads, made, ready, waiting, open, view, stray, behind, removed>>
    BY <1>4 DEF Leaves, data, tasks, told
  <2>2. TypeOK'
    BY <2>1 DEF IInv, TypeOK
  <2>3. TasksOK'
    BY <2>1 DEF IInv, TasksOK
  <2>4. Now' = Now
    BY <2>1 DEF Now
  <2>5. TruthOK' /\ PressOK'
    BY <2>1, <2>4 DEF IInv, TruthOK, PressOK
  <2>6. QED
    BY <2>1, <2>2, <2>3, <2>5 DEF IInv
<1> QED
  BY <1>1, <1>2, <1>3, <1>4 DEF Connection

LEMMA Invariant == Spec => []IInv
<1>1. Init => IInv
  <2>1. SUFFICES ASSUME Init PROVE IInv
    OBVIOUS
  <2>2. TypeOK
    <3>1. Initially \in Configs /\ NoView \in Views
      BY DEF NoView, Initially, Views, Configs
    <3>2. <<>> \in Seq(Tasks)
      OBVIOUS
    <3>3. QED
      BY <2>1, <3>1, <3>2 DEF Init, TypeOK
  <2>3. DOMAIN ready = {} /\ DOMAIN waiting = {} /\ Len(ready) = 0 /\ open = {}
    BY <2>1 DEF Init
  <2>4. TasksOK /\ PressOK
    BY <2>3 DEF TasksOK, PressOK, PressHolds
  <2>5. TruthOK
    <3>1. \A i \in 1 .. 0 : FALSE
      OBVIOUS
    <3>2. QED
      BY <2>3, <3>1 DEF TruthOK, TruthHolds, Settles
  <2>6. QED
    BY <2>1, <2>2, <2>4, <2>5 DEF Init, IInv
<1>2. IInv /\ [Next]_vars => IInv'
  <2>1. SUFFICES ASSUME IInv, [Next]_vars PROVE IInv'
    OBVIOUS
  <2>2. CASE Run
    BY <2>1, <2>2, RunStep
  <2>3. CASE Change
    BY <2>1, <2>3, StateStep, ReloadStep, RefreshedStep, SnapshotNowStep, EditStep, PressStep
       DEF Change
  <2>4. CASE \E c \in Clients : Connection(c)
    BY <2>1, <2>4, ConnectionStep
  <2>5. CASE UNCHANGED vars
    <3>1. UNCHANGED <<state, file, config, reloads, made, ready, waiting, clients, open, view,
                      stray, behind, removed>>
      BY <2>5 DEF vars, data, tasks, sockets, told
    <3>2. Now' = Now
      BY <3>1 DEF Now
    <3>3. QED
      BY <2>1, <3>1, <3>2 DEF IInv, TypeOK, TasksOK, TruthOK, PressOK
  <2>6. QED
    BY <2>1, <2>2, <2>3, <2>4, <2>5 DEF Next
<1>3. QED
  BY <1>1, <1>2, PTL DEF Spec

-----------------------------------------------------------------------------
(***************************************************************************)
(* Theorems                                                                *)
(***************************************************************************)

\* When nothing is left to do, every client that never stood behind a slow one
\* shows the registry and the file as they are, however changes, edits, sweeps
\* and connections were mixed.
THEOREM ClientsEndCurrent == Spec => []CurrentUnlessBehindSlow
<1>1. IInv => CurrentUnlessBehindSlow
  <2>1. SUFFICES ASSUME IInv, ready = <<>>, reloads = 0, NEW c \in open \ behind
                 PROVE  view[c] = [state |-> state, config |-> file]
    BY DEF CurrentUnlessBehindSlow
  <2>2. Len(ready) = 0 /\ \A i \in 1 .. 0 : FALSE
    BY <2>1
  <2>3. \A f \in Fields : Part(view[c], f) = Part(Now, f)
    BY <2>1, <2>2 DEF IInv, TruthOK, TruthHolds, Settles
  <2>4. /\ Part(view[c], "state") = Part(Now, "state")
        /\ Part(view[c], "edits") = Part(Now, "edits")
        /\ Part(view[c], "button") = Part(Now, "button")
    BY <2>3 DEF Fields
  <2>5. /\ view[c].state = state /\ view[c].config.edits = config.edits
        /\ view[c].config.button = config.button
    BY <2>4 DEF Part, Now
  <2>6. view[c] \in Views /\ config \in Configs /\ config = file
    BY <2>1 DEF IInv, TypeOK
  <2>7. view[c].config = config
    BY <2>5, <2>6 DEF Views, Configs
  <2>8. QED
    BY <2>5, <2>6, <2>7 DEF Views
<1>2. QED
  BY <1>1, Invariant, PTL

\* A press of a button that was learned, and not removed since, never comes to a
\* client before the button does, unless that client once stood behind a slow one.
THEOREM ButtonsComeFirst == Spec => []AddedBeforeEvent
<1>1. IInv => AddedBeforeEvent
  BY DEF IInv, AddedBeforeEvent
<1>2. QED
  BY <1>1, Invariant, PTL

=============================================================================
