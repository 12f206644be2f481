------------------------ MODULE Installation_proofs ------------------------
(***************************************************************************)
(* devices.json: the calls that write it, and what is in it, with any      *)
(* number of calls, modules, addresses, channels and buttons.              *)
(*                                                                         *)
(* First AtomicWriter.  "Hold the lock across read -> mutate -> write" is  *)
(* not proved of it: a run refutes it.  The proofs say how far the damage  *)
(* goes: two calls at work need a third that removed the lock file,        *)
(* changes get lost only when calls overlap, and a failure never leaves    *)
(* anything in the file.                                                   *)
(*                                                                         *)
(* Then what is written (Installation): lemmas about each change of a      *)
(* document, about a scan and about its merge; Core, an invariant whatever *)
(* the hardware does; and Clean, one that lasts until something is mixed   *)
(* up.  No fact about the history variable mixed is used but that it       *)
(* becomes true when Mixed does, and stays so.                             *)
(***************************************************************************)
EXTENDS Installation, AtomicWriter, FiniteSetTheorems, TLAPS

Steps == {"idle", "loaded", "opened", "locked", "read", "leaving", "closed", "done"}
Results == {"none", "ok", "timeout", "error"}

FileTypeOK ==
  /\ stage \in [Callers -> Steps]
  /\ result \in [Callers -> Results]
  /\ seen \in [Callers -> SUBSET Callers]
  /\ content \subseteq Callers

\* A result is final, and only what was written can be read.
ResultsAreFinal == \A p \in Callers : result[p] # "none" => stage[p] \in {"leaving", "closed", "done"}
OnlyWritesShow ==
  /\ \A p \in content : result[p] = "ok"
  /\ \A q \in Callers : \A p \in seen[q] : result[p] = "ok"

FileInv == FileTypeOK /\ ResultsAreFinal /\ OnlyWritesShow

-----------------------------------------------------------------------------
LEMMA FileInit == WriterInit => FileInv
BY DEF WriterInit, FileInv, FileTypeOK, ResultsAreFinal, OnlyWritesShow, Steps, Results

LEMMA FileStep == FileInv /\ [WriterNext]_writerVars => FileInv'
<1> SUFFICES ASSUME FileInv, [WriterNext]_writerVars PROVE FileInv'
  OBVIOUS
<1> USE DEF FileInv, FileTypeOK, ResultsAreFinal, OnlyWritesShow, Moves, Steps, Results
<1>1. ASSUME NEW p \in Callers, LoadUnlocked(p) \/ Read(p) PROVE FileInv'
  BY <1>1 DEF LoadUnlocked, Read
<1>2. ASSUME NEW p \in Callers, Open(p) PROVE FileInv'
  BY <1>2 DEF Open
<1>3. ASSUME NEW p \in Callers, OpenFails(p) PROVE FileInv'
  BY <1>3 DEF OpenFails
<1>4. ASSUME NEW p \in Callers, Lock(p) \/ Unlock(p) \/ Unlink(p) PROVE FileInv'
  BY <1>4 DEF Lock, Unlock, Unlink
<1>5. ASSUME NEW p \in Callers, LockTimesOut(p) PROVE FileInv'
  BY <1>5 DEF LockTimesOut
<1>6. ASSUME NEW p \in Callers, Write(p) PROVE FileInv'
  BY <1>6 DEF Write, ReadyToWrite
<1>7. ASSUME NEW p \in Callers, WorkFails(p) PROVE FileInv'
  BY <1>7 DEF WorkFails
<1>8. CASE UNCHANGED writerVars
  BY <1>8 DEF writerVars
<1> QED
  BY <1>1, <1>2, <1>3, <1>4, <1>5, <1>6, <1>7, <1>8 DEF WriterNext

\* A call that returned False or raised left nothing in the file, nor in a copy
\* that another call may still write.
THEOREM FailuresAreClean == WriterSpec => []FailuresLeaveNoTrace
<1>1. FileInv => FailuresLeaveNoTrace
  BY DEF FileInv, FileTypeOK, OnlyWritesShow, FailuresLeaveNoTrace
<1> QED
  BY <1>1, FileInit, FileStep, PTL DEF WriterSpec

-----------------------------------------------------------------------------
(***************************************************************************)
(* Calls that do not overlap.                                              *)
(***************************************************************************)

\* One call at work, and its copy is the file.
Alone ==
  /\ overlap \in BOOLEAN
  /\ ~overlap =>
       /\ \A p, q \in AtWork : p = q
       /\ \A p \in Editors : stage[p] = "read" => seen[p] = content

EditInv == FileInv /\ Alone /\ ChangesSurvive

LEMMA EditInit == WriterInit => EditInv
<1> SUFFICES ASSUME WriterInit PROVE Alone /\ ChangesSurvive
  BY FileInit DEF EditInv
<1> QED
  BY DEF WriterInit, Alone, ChangesSurvive, AtWork, Callers

LEMMA EditStep == EditInv /\ [WriterNext]_writerVars => EditInv'
<1> SUFFICES ASSUME EditInv, [WriterNext]_writerVars PROVE Alone' /\ ChangesSurvive'
  BY FileStep DEF EditInv
<1> USE DEF EditInv, FileInv, FileTypeOK, ResultsAreFinal, Alone, ChangesSurvive, AtWork, Moves, Steps,
            Callers
<1>1. ASSUME NEW p \in Callers, LoadUnlocked(p) PROVE Alone' /\ ChangesSurvive'
  BY <1>1 DEF LoadUnlocked
<1>2. ASSUME NEW p \in Callers, Open(p) PROVE Alone' /\ ChangesSurvive'
  BY <1>2 DEF Open
<1>3. ASSUME NEW p \in Callers, OpenFails(p) \/ LockTimesOut(p) PROVE Alone' /\ ChangesSurvive'
  BY <1>3 DEF OpenFails, LockTimesOut
<1>4. ASSUME NEW p \in Callers, Lock(p) PROVE Alone' /\ ChangesSurvive'
  BY <1>4 DEF Lock
<1>5. ASSUME NEW p \in Callers, Read(p) PROVE Alone' /\ ChangesSurvive'
  BY <1>5 DEF Read
<1>6. ASSUME NEW p \in Editors, Write(p) PROVE Alone' /\ ChangesSurvive'
  BY <1>6, DisjointAssumption DEF Write, ReadyToWrite
<1>7. ASSUME NEW p \in Replacers, Write(p) PROVE Alone' /\ ChangesSurvive'
  BY <1>7, DisjointAssumption DEF Write, ReadyToWrite
<1>8. ASSUME NEW p \in Callers, WorkFails(p) PROVE Alone' /\ ChangesSurvive'
  BY <1>8 DEF WorkFails
<1>9. ASSUME NEW p \in Callers, Unlock(p) \/ Unlink(p) PROVE Alone' /\ ChangesSurvive'
  BY <1>9 DEF Unlock, Unlink
<1>10. CASE UNCHANGED writerVars
  BY <1>10 DEF writerVars
<1> QED
  BY <1>1, <1>2, <1>3, <1>4, <1>5, <1>6, <1>7, <1>8, <1>9, <1>10 DEF WriterNext

\* Without two calls at work at once, a change that was written stays, unless a
\* discovery wrote what it had loaded before.
THEOREM ChangesAreKept == WriterSpec => []ChangesSurvive
<1>1. EditInv => ChangesSurvive
  BY DEF EditInv
<1> QED
  BY <1>1, EditInit, EditStep, PTL DEF WriterSpec

-----------------------------------------------------------------------------
(***************************************************************************)
(* How calls come to overlap.                                              *)
(***************************************************************************)
Active == {p \in Callers : stage[p] \notin {"idle", "loaded"}}
Inside == {p \in Callers : stage[p] \in {"locked", "read", "leaving"}}
Openers == {p \in Callers : stage[p] \in {"opened", "locked", "read", "leaving"}}

LockTypeOK ==
  /\ stage \in [Callers -> Steps]
  /\ path \in Callers \cup {Nobody}
  /\ holder \in [Callers -> Callers \cup {Nobody}]
  /\ fd \in [Callers -> Callers \cup {Nobody}]

\* Who is inside holds the inode it opened.  As long as no call is done, that
\* is the one inode which all opened.
LocksAreHeld ==
  /\ \A p \in Openers : fd[p] \in Callers
  /\ \A p \in Inside : holder[fd[p]] = p
OneLockFile ==
  \/ \E r \in Callers : stage[r] = "done"
  \/ \A p \in Openers : fd[p] = path

ThreeActive == overlap => \E p, q, r \in Active : p # q /\ p # r /\ q # r

LockInv == LockTypeOK /\ LocksAreHeld /\ OneLockFile /\ ThreeActive

LEMMA LockInit == WriterInit => LockInv
BY DEF WriterInit, LockInv, LockTypeOK, LocksAreHeld, OneLockFile, ThreeActive, Inside, Openers, Steps

LEMMA LockStep == LockInv /\ [WriterNext]_writerVars => LockInv'
<1> SUFFICES ASSUME LockInv, [WriterNext]_writerVars PROVE LockInv'
  OBVIOUS
<1> USE NobodyAssumption DEF LockInv, LockTypeOK, LocksAreHeld, OneLockFile, Inside, Openers, Moves,
           Steps, lockFile
<1>1. CASE UNCHANGED writerVars
  BY <1>1 DEF writerVars, ThreeActive, Active
<1>2. ASSUME NEW p \in Callers,
             \/ LoadUnlocked(p) \/ Open(p) \/ OpenFails(p) \/ Lock(p) \/ LockTimesOut(p)
             \/ Read(p) \/ Write(p) \/ WorkFails(p) \/ Unlock(p) \/ Unlink(p)
      PROVE  LockInv'
  <2>1. Active \subseteq Active'
    BY <1>2 DEF Active, LoadUnlocked, Open, OpenFails, Lock, LockTimesOut, Read, Write, WorkFails,
                Unlock, Unlink, ReadyToWrite
  <2>2. CASE LoadUnlocked(p)
    <3>1. ThreeActive'
      BY <2>1, <2>2 DEF LoadUnlocked, ThreeActive
    <3> QED
      BY <2>2, <3>1 DEF LoadUnlocked
  <2>3. CASE Open(p)
    <3>1. ThreeActive'
      BY <2>1, <2>3 DEF Open, ThreeActive
    <3> QED
      BY <2>3, <3>1 DEF Open
  <2>4. CASE OpenFails(p) \/ LockTimesOut(p)
    <3>1. ThreeActive'
      BY <2>1, <2>4 DEF OpenFails, LockTimesOut, ThreeActive
    <3> QED
      BY <2>4, <3>1 DEF OpenFails, LockTimesOut
  <2>5. CASE Lock(p)
    <3>1. ThreeActive'
      <4>1. CASE AtWork = {}
        BY <2>1, <2>5, <4>1 DEF Lock, ThreeActive
      <4>2. CASE AtWork # {}
        <5>1. PICK q \in Callers : stage[q] \in {"locked", "read"}
          BY <4>2 DEF AtWork
        <5>2. p # q /\ stage[p] = "opened" /\ holder[fd[p]] = Nobody
          BY <2>5, <5>1 DEF Lock
        <5>3. fd[p] # fd[q]
          BY <5>1, <5>2
        <5>4. PICK r \in Callers : stage[r] = "done"
          BY <5>1, <5>2, <5>3
        <5>5. p \in Active /\ q \in Active /\ r \in Active /\ r # p /\ r # q
          BY <5>1, <5>2, <5>4 DEF Active
        <5> QED
          BY <2>1, <5>2, <5>5 DEF ThreeActive
      <4> QED
        BY <4>1, <4>2
    <3> QED
      BY <2>5, <3>1 DEF Lock
  <2>6. CASE Read(p)
    <3>1. ThreeActive'
      BY <2>1, <2>6 DEF Read, ThreeActive
    <3> QED
      BY <2>6, <3>1 DEF Read
  <2>7. CASE Write(p) \/ WorkFails(p)
    <3>1. ThreeActive'
      BY <2>1, <2>7 DEF Write, WorkFails, ThreeActive
    <3> QED
      BY <2>7, <3>1 DEF Write, WorkFails, ReadyToWrite
  <2>8. CASE Unlock(p)
    <3>1. ThreeActive'
      BY <2>1, <2>8 DEF Unlock, ThreeActive
    <3> QED
      BY <2>8, <3>1 DEF Unlock
  <2>9. CASE Unlink(p)
    <3>1. ThreeActive'
      BY <2>1, <2>9 DEF Unlink, ThreeActive
    <3> QED
      BY <2>9, <3>1 DEF Unlink
  <2> QED
    BY <1>2, <2>2, <2>3, <2>4, <2>5, <2>6, <2>7, <2>8, <2>9
<1> QED
  BY <1>1, <1>2 DEF WriterNext

\* Three members make a finite set at least that big.
LEMMA ThreeMembers ==
  ASSUME NEW S, IsFiniteSet(S), NEW p \in S, NEW q \in S, NEW r \in S, p # q, p # r, q # r
  PROVE  Cardinality(S) >= 3
<1>1. Cardinality({p}) = 1 /\ IsFiniteSet({p})
  BY FS_Singleton
<1>2. Cardinality({p} \cup {q}) = Cardinality({p}) + 1 /\ IsFiniteSet({p} \cup {q})
  BY <1>1, FS_AddElement, q \notin {p}
<1>3. Cardinality(({p} \cup {q}) \cup {r}) = Cardinality({p} \cup {q}) + 1
  BY <1>2, FS_AddElement, r \notin {p} \cup {q}
<1>4. Cardinality(({p} \cup {q}) \cup {r}) <= Cardinality(S)
  BY FS_Subset
<1>5. Cardinality(S) \in Nat
  BY FS_CardinalityType
<1> QED
  BY <1>1, <1>2, <1>3, <1>4, <1>5

\* Two calls are at work at once only when a third has removed the lock file
\* between their opens of it.
THEOREM OverlapTakesThree == WriterSpec => []OverlapNeedsThree
<1>1. LockInv => OverlapNeedsThree
  <2> SUFFICES ASSUME LockInv, overlap PROVE Cardinality(Active) >= 3
    BY DEF OverlapNeedsThree, Active
  <2>1. PICK p, q, r \in Active : p # q /\ p # r /\ q # r
    BY DEF LockInv, ThreeActive
  <2>2. IsFiniteSet(Active)
    BY FiniteAssumption, FS_Subset DEF Active
  <2> QED
    BY <2>1, <2>2, ThreeMembers
<1> QED
  BY <1>1, LockInit, LockStep, PTL DEF WriterSpec

-----------------------------------------------------------------------------
(***************************************************************************)
(* What a document is, and how it is changed.                              *)
(***************************************************************************)

\* The devices that a module of a type can have.
DevicesFor(type) == Devices(IF type = "input" THEN Buttons ELSE Channels)

\* Devices, one by one.
LEMMA DevicesAre ==
  ASSUME NEW ids, NEW f
  PROVE  /\ f \in Devices(ids) <=> /\ DOMAIN f \subseteq ids
                                   /\ f \in [DOMAIN f -> Device]
<1>1. ASSUME f \in Devices(ids) PROVE DOMAIN f \subseteq ids /\ f \in [DOMAIN f -> Device]
  <2>1. PICK S \in SUBSET ids : f \in [S -> Device]
    BY <1>1 DEF Devices
  <2>2. DOMAIN f = S
    BY <2>1
  <2> QED
    BY <2>1, <2>2
<1>2. ASSUME DOMAIN f \subseteq ids, f \in [DOMAIN f -> Device] PROVE f \in Devices(ids)
  BY <1>2 DEF Devices
<1> QED
  BY <1>1, <1>2

\* The fields of a module, and a module with other devices.
LEMMA ModuleIs ==
  ASSUME NEW r \in ModuleConfig
  PROVE  /\ r.mac \in Macs \cup {NoMac} /\ r.ip \in Ips /\ r.type \in Types
         /\ r.devices \in DevicesFor(r.type)
         /\ \A f \in DevicesFor(r.type) :
              /\ [r EXCEPT !.devices = f] \in ModuleConfig
              /\ [r EXCEPT !.devices = f].mac = r.mac
              /\ [r EXCEPT !.devices = f].ip = r.ip
              /\ [r EXCEPT !.devices = f].type = r.type
              /\ [r EXCEPT !.devices = f].devices = f
<1> DEFINE I == [mac : Macs \cup {NoMac}, ip : Ips, type : {"input"}, devices : Devices(Buttons)]
           A == [mac : Macs \cup {NoMac}, ip : Ips, type : {"actuator"}, devices : Devices(Channels)]
<1>1. r \in I \/ r \in A
  BY DEF ModuleConfig
<1>2. CASE r \in I
  <2>1. r.type = "input" /\ DevicesFor(r.type) = Devices(Buttons)
    BY <1>2 DEF DevicesFor
  <2>2. \A f \in Devices(Buttons) : [r EXCEPT !.devices = f] \in I
    BY <1>2
  <2> QED
    BY <1>2, <2>1, <2>2 DEF ModuleConfig, Types
<1>3. CASE r \in A
  <2>1. r.type = "actuator" /\ DevicesFor(r.type) = Devices(Channels)
    BY <1>3 DEF DevicesFor
  <2>2. \A f \in Devices(Channels) : [r EXCEPT !.devices = f] \in A
    BY <1>3
  <2> QED
    BY <1>3, <2>1, <2>2 DEF ModuleConfig, Types
<1> QED
  BY <1>1, <1>2, <1>3

LEMMA ModuleMade ==
  ASSUME NEW mac \in Macs \cup {NoMac}, NEW ip \in Ips, NEW type \in Types, NEW f \in DevicesFor(type)
  PROVE  [mac |-> mac, ip |-> ip, type |-> type, devices |-> f] \in ModuleConfig
BY DEF ModuleConfig, Types, DevicesFor

\* The modules of a document, and a document made of modules.
LEMMA DocumentIs ==
  ASSUME NEW doc \in InstallationConfig
  PROVE  /\ DOMAIN doc = 1 .. Len(doc) /\ Len(doc) \in Nat
         /\ \A i \in DOMAIN doc : doc[i] \in ModuleConfig
         /\ \A i \in DOMAIN doc :
              /\ doc[i].mac \in Macs \cup {NoMac} /\ doc[i].ip \in Ips /\ doc[i].type \in Types
              /\ doc[i].devices \in DevicesFor(doc[i].type)
              /\ doc[i].devices \in [DOMAIN doc[i].devices -> Device]
              /\ DOMAIN doc[i].devices \subseteq IF doc[i].type = "input" THEN Buttons ELSE Channels
         /\ doc # None
<1>1. /\ DOMAIN doc = 1 .. Len(doc) /\ Len(doc) \in Nat
      /\ \A i \in DOMAIN doc : doc[i] \in ModuleConfig
  BY DEF InstallationConfig
<1>2. doc # None
  BY NoneAssumption
<1> QED
  BY <1>1, <1>2, ModuleIs, DevicesAre, Zenon DEF DevicesFor

LEMMA DocumentMade ==
  ASSUME NEW doc \in InstallationConfig, NEW new, DOMAIN new = DOMAIN doc,
         new = [i \in DOMAIN new |-> new[i]],
         \A i \in DOMAIN doc : new[i] \in ModuleConfig
  PROVE  new \in InstallationConfig
<1>1. DOMAIN doc = 1 .. Len(doc) /\ Len(doc) \in Nat
  BY DocumentIs
<1> QED
  BY <1>1 DEF InstallationConfig

-----------------------------------------------------------------------------
\* A document with the modules of another one, which may have more devices.
SameModules(doc, new) ==
  /\ new \in InstallationConfig /\ DOMAIN new = DOMAIN doc
  /\ \A i \in DOMAIN doc :
       /\ new[i].mac = doc[i].mac /\ new[i].ip = doc[i].ip /\ new[i].type = doc[i].type
       /\ DOMAIN doc[i].devices \subseteq DOMAIN new[i].devices

IsOperators(label) == label # Blank /\ label[1] = "operator"

\* What the operator said of a device is still said of it.
KeepsEdits(doc, new) ==
  /\ DOMAIN doc \subseteq DOMAIN new
  /\ \A i \in DOMAIN doc : doc[i].mac # NoMac =>
       /\ new[i].mac = doc[i].mac
       /\ \A d \in DOMAIN doc[i].devices :
            /\ d \in DOMAIN new[i].devices
            /\ IsOperators(doc[i].devices[d].label) => IsOperators(new[i].devices[d].label)
            /\ d \in Buttons => new[i].devices[d].active = doc[i].devices[d].active

OwnLabels(m) == {Blank} \cup ({"operator", "wire"} \X {m, NoMac})

\* An edit changes the one device.
LEMMA PatchedIs ==
  ASSUME NEW doc \in InstallationConfig, NEW i \in DOMAIN doc, NEW d \in DOMAIN doc[i].devices,
         NEW label \in Labels
  PROVE  LET new == Patched(doc, i, d, label) IN
         /\ SameModules(doc, new)
         /\ \A j \in DOMAIN doc : DOMAIN new[j].devices = DOMAIN doc[j].devices
         /\ \A j \in DOMAIN doc \ {i} : new[j] = doc[j]
         /\ new[i].devices[d] = [label |-> label, active |-> FALSE]
         /\ \A e \in DOMAIN doc[i].devices \ {d} : new[i].devices[e] = doc[i].devices[e]
<1> DEFINE f == [doc[i].devices EXCEPT ![d] = [label |-> label, active |-> FALSE]]
           r == [doc[i] EXCEPT !.devices = f]
           new == Patched(doc, i, d, label)
<1>1. /\ doc[i] \in ModuleConfig /\ doc[i].devices \in DevicesFor(doc[i].type)
      /\ doc[i].devices \in [DOMAIN doc[i].devices -> Device]
      /\ DOMAIN doc[i].devices \subseteq IF doc[i].type = "input" THEN Buttons ELSE Channels
  BY DocumentIs
<1>2. [label |-> label, active |-> FALSE] \in Device
  BY DEF Device
<1>3. /\ f \in [DOMAIN doc[i].devices -> Device] /\ DOMAIN f = DOMAIN doc[i].devices
      /\ f[d] = [label |-> label, active |-> FALSE]
      /\ \A e \in DOMAIN doc[i].devices \ {d} : f[e] = doc[i].devices[e]
  BY <1>1, <1>2
<1>4. f \in DevicesFor(doc[i].type)
  BY <1>1, <1>3, DevicesAre DEF DevicesFor
<1>5. new = [doc EXCEPT ![i] = r]
  BY DEF Patched
<1> HIDE DEF f
<1>6. /\ r \in ModuleConfig /\ r.mac = doc[i].mac /\ r.ip = doc[i].ip /\ r.type = doc[i].type
      /\ r.devices = f
  BY <1>1, <1>4, ModuleIs
<1> HIDE DEF r, new
<1>7. /\ DOMAIN new = DOMAIN doc /\ new[i] = r /\ \A j \in DOMAIN doc \ {i} : new[j] = doc[j]
      /\ new = [j \in DOMAIN new |-> new[j]]
  BY <1>5
<1>8. \A j \in DOMAIN doc : new[j] \in ModuleConfig
  BY <1>6, <1>7, DocumentIs
<1>9. new \in InstallationConfig
  BY <1>7, <1>8, DocumentMade
<1>10. SameModules(doc, new)
  BY <1>3, <1>6, <1>7, <1>9 DEF SameModules
<1> QED
  BY <1>3, <1>6, <1>7, <1>10 DEF new

\* A button that is learned is added without a label.
LEMMA LearnedIs ==
  ASSUME NEW doc \in InstallationConfig, NEW i \in DOMAIN doc, NEW b \in Buttons, doc[i].type = "input"
  PROVE  LET new == Learned(doc, i, b) IN
         /\ SameModules(doc, new) /\ KeepsEdits(doc, new)
         /\ \A j \in DOMAIN doc \ {i} : new[j] = doc[j]
         /\ DOMAIN new[i].devices = DOMAIN doc[i].devices \cup {b}
         /\ \A d \in DOMAIN new[i].devices :
              new[i].devices[d].label = Blank \/ (d \in DOMAIN doc[i].devices /\ new[i].devices[d] = doc[i].devices[d])
<1> DEFINE mine == doc[i].devices
           stub == [label |-> Blank, active |-> TRUE]
           f == [d \in DOMAIN mine \cup {b} |-> IF d \in DOMAIN mine THEN mine[d] ELSE stub]
           r == [doc[i] EXCEPT !.devices = f]
           new == Learned(doc, i, b)
<1>1. /\ doc[i] \in ModuleConfig /\ mine \in [DOMAIN mine -> Device] /\ DOMAIN mine \subseteq Buttons
  BY DocumentIs
<1>2. stub \in Device
  BY DEF Device, Labels
<1> HIDE DEF mine
<1>3. /\ DOMAIN f = DOMAIN mine \cup {b} /\ f \in [DOMAIN f -> Device]
      /\ \A d \in DOMAIN mine : f[d] = mine[d]
      /\ \A d \in DOMAIN f : f[d].label = Blank \/ (d \in DOMAIN mine /\ f[d] = mine[d])
  BY <1>1, <1>2
<1>4. f \in DevicesFor(doc[i].type)
  BY <1>1, <1>3, DevicesAre DEF DevicesFor
<1>5. new = [doc EXCEPT ![i] = r]
  BY Zenon DEF Learned, mine
<1> HIDE DEF f
<1>6. /\ r \in ModuleConfig /\ r.mac = doc[i].mac /\ r.ip = doc[i].ip /\ r.type = doc[i].type
      /\ r.devices = f
  BY <1>1, <1>4, ModuleIs
<1> HIDE DEF r, new
<1>7. /\ DOMAIN new = DOMAIN doc /\ new[i] = r /\ \A j \in DOMAIN doc \ {i} : new[j] = doc[j]
      /\ new = [j \in DOMAIN new |-> new[j]]
  BY <1>5
<1>8. \A j \in DOMAIN doc : new[j] \in ModuleConfig
  BY <1>6, <1>7, DocumentIs
<1>9. new \in InstallationConfig
  BY <1>7, <1>8, DocumentMade
<1>10. SameModules(doc, new)
  BY <1>3, <1>6, <1>7, <1>9 DEF SameModules, mine
<1>11. KeepsEdits(doc, new)
  BY <1>3, <1>6, <1>7 DEF KeepsEdits, mine
<1> QED
  BY <1>3, <1>6, <1>7, <1>10, <1>11 DEF new, mine

\* What a synchronisation keeps and what it takes from the wire.
SyncOK(mine, wire, new) ==
  /\ DOMAIN new = DOMAIN mine \cup DOMAIN wire
  /\ new \in [DOMAIN new -> Device]
  /\ \A d \in DOMAIN new :
       \/ d \in DOMAIN mine /\ new[d].label = mine[d].label
       \/ d \in DOMAIN wire /\ new[d].label = wire[d].label
  /\ \A d \in DOMAIN mine : mine[d].label # Blank => new[d].label = mine[d].label

LEMMA SyncedAre ==
  ASSUME NEW ids, NEW mine \in Devices(ids), NEW wire \in Devices(ids)
  PROVE  /\ SyncOK(mine, wire, SyncedChannels(mine, wire))
         /\ SyncOK(mine, wire, SyncedButtons(mine, wire))
         /\ SyncedChannels(mine, wire) \in Devices(ids)
         /\ SyncedButtons(mine, wire) \in Devices(ids)
         /\ \A d \in DOMAIN mine : SyncedButtons(mine, wire)[d].active = mine[d].active
<1> DEFINE C == SyncedChannels(mine, wire)
           B == SyncedButtons(mine, wire)
<1>1. /\ mine \in [DOMAIN mine -> Device] /\ DOMAIN mine \subseteq ids
      /\ wire \in [DOMAIN wire -> Device] /\ DOMAIN wire \subseteq ids
  BY DevicesAre
<1>2. /\ DOMAIN C = DOMAIN mine \cup DOMAIN wire /\ C = [d \in DOMAIN C |-> C[d]]
      /\ \A d \in DOMAIN mine \ DOMAIN wire : C[d] = mine[d]
      /\ \A d \in DOMAIN wire \ DOMAIN mine : C[d] = wire[d]
      /\ \A d \in DOMAIN mine \cap DOMAIN wire :
           C[d] = [label |-> Filled(mine[d].label, wire[d].label), active |-> wire[d].active]
  BY DEF SyncedChannels
<1>3. /\ DOMAIN B = DOMAIN mine \cup DOMAIN wire /\ B = [d \in DOMAIN B |-> B[d]]
      /\ \A d \in DOMAIN mine \ DOMAIN wire : B[d] = mine[d]
      /\ \A d \in DOMAIN wire \ DOMAIN mine : B[d] = wire[d]
      /\ \A d \in DOMAIN mine \cap DOMAIN wire :
           B[d] = [label |-> Filled(mine[d].label, wire[d].label), active |-> mine[d].active]
  BY DEF SyncedButtons
<1> HIDE DEF C, B
<1>4. \A d \in DOMAIN mine : mine[d] \in Device /\ mine[d].label \in Labels /\ mine[d].active \in BOOLEAN
  BY <1>1 DEF Device
<1>5. \A d \in DOMAIN wire : wire[d] \in Device /\ wire[d].label \in Labels /\ wire[d].active \in BOOLEAN
  BY <1>1 DEF Device
<1>6. \A d \in DOMAIN mine \cap DOMAIN wire :
        /\ Filled(mine[d].label, wire[d].label) \in Labels
        /\ Filled(mine[d].label, wire[d].label) \in {mine[d].label, wire[d].label}
        /\ mine[d].label # Blank => Filled(mine[d].label, wire[d].label) = mine[d].label
  BY <1>4, <1>5 DEF Filled
<1>7. \A d \in DOMAIN mine \cap DOMAIN wire :
        /\ C[d] \in Device /\ C[d].label = Filled(mine[d].label, wire[d].label)
        /\ B[d] \in Device /\ B[d].label = Filled(mine[d].label, wire[d].label)
        /\ B[d].active = mine[d].active
  BY <1>2, <1>3, <1>4, <1>5, <1>6 DEF Device
<1>8. SyncOK(mine, wire, C)
  <2>1. \A d \in DOMAIN C : C[d] \in Device
    BY <1>2, <1>4, <1>5, <1>7
  <2> QED
    BY <1>2, <1>6, <1>7, <2>1 DEF SyncOK
<1>9. SyncOK(mine, wire, B)
  <2>1. \A d \in DOMAIN B : B[d] \in Device
    BY <1>3, <1>4, <1>5, <1>7
  <2> QED
    BY <1>3, <1>6, <1>7, <2>1 DEF SyncOK
<1>10. C \in Devices(ids) /\ B \in Devices(ids)
  BY <1>1, <1>2, <1>3, <1>8, <1>9, DevicesAre DEF SyncOK
<1>11. \A d \in DOMAIN mine : B[d].active = mine[d].active
  BY <1>3, <1>7
<1> QED
  BY <1>8, <1>9, <1>10, <1>11 DEF C, B

\* A label that is kept is the operator's if it was.
LEMMA SyncKeeps ==
  ASSUME NEW mine, NEW wire, NEW new, SyncOK(mine, wire, new), NEW d \in DOMAIN mine
  PROVE  d \in DOMAIN new /\ (IsOperators(mine[d].label) => IsOperators(new[d].label))
BY DEF SyncOK, IsOperators

\* Where the labels of the devices of a module come from.
LabelsFrom(doc, new, wire) ==
  \A i \in DOMAIN doc : \A d \in DOMAIN new[i].devices :
    \/ d \in DOMAIN doc[i].devices /\ new[i].devices[d].label = doc[i].devices[d].label
    \/ doc[i].mac # NoMac /\ d \in DOMAIN wire[doc[i].mac]
         /\ new[i].devices[d].label = wire[doc[i].mac][d].label

\* A document with what the modules say: the same modules, every edit kept, and
\* each label either the one that was there or that of the module itself.
LEMMA WithWireButtonsIs ==
  ASSUME NEW doc \in InstallationConfig, NEW wire \in [Macs -> Devices(Buttons)]
  PROVE  LET new == WithWireButtons(doc, wire) IN
         /\ SameModules(doc, new) /\ KeepsEdits(doc, new) /\ LabelsFrom(doc, new, wire)
         /\ \A i \in DOMAIN doc : doc[i].type = "input" =>
              DOMAIN new[i].devices =
                DOMAIN doc[i].devices \cup (IF doc[i].mac = NoMac THEN {} ELSE DOMAIN wire[doc[i].mac])
<1> DEFINE f(i) == SyncedButtons(doc[i].devices, wire[doc[i].mac])
           at(i) == doc[i].type = "input" /\ doc[i].mac # NoMac
           new == WithWireButtons(doc, wire)
<1>1. /\ DOMAIN new = DOMAIN doc /\ new = [i \in DOMAIN new |-> new[i]]
      /\ \A i \in DOMAIN doc : new[i] = IF at(i) THEN [doc[i] EXCEPT !.devices = f(i)] ELSE doc[i]
  BY DEF WithWireButtons
<1> HIDE DEF new
<1>2. ASSUME NEW i \in DOMAIN doc, at(i)
      PROVE  /\ new[i] \in ModuleConfig
             /\ new[i].mac = doc[i].mac /\ new[i].ip = doc[i].ip /\ new[i].type = doc[i].type
             /\ SyncOK(doc[i].devices, wire[doc[i].mac], new[i].devices)
             /\ \A d \in DOMAIN doc[i].devices : new[i].devices[d].active = doc[i].devices[d].active
  <2>1. /\ doc[i] \in ModuleConfig /\ doc[i].devices \in Devices(Buttons)
        /\ wire[doc[i].mac] \in Devices(Buttons) /\ DevicesFor(doc[i].type) = Devices(Buttons)
    BY <1>2, DocumentIs DEF DevicesFor
  <2>2. /\ SyncOK(doc[i].devices, wire[doc[i].mac], f(i)) /\ f(i) \in Devices(Buttons)
        /\ \A d \in DOMAIN doc[i].devices : f(i)[d].active = doc[i].devices[d].active
    BY <2>1, SyncedAre
  <2>3. new[i] = [doc[i] EXCEPT !.devices = f(i)]
    BY <1>1, <1>2
  <2> HIDE DEF f
  <2> QED
    BY <2>1, <2>2, <2>3, ModuleIs
<1>3. ASSUME NEW i \in DOMAIN doc, ~at(i) PROVE new[i] = doc[i] /\ new[i] \in ModuleConfig
  BY <1>1, <1>3, DocumentIs
<1>4. new \in InstallationConfig
  BY <1>1, <1>2, <1>3, DocumentMade
<1>5. SameModules(doc, new)
  BY <1>1, <1>2, <1>3, <1>4 DEF SameModules, SyncOK
<1>6. KeepsEdits(doc, new)
  <2>1. ASSUME NEW i \in DOMAIN doc, NEW d \in DOMAIN doc[i].devices
        PROVE  /\ d \in DOMAIN new[i].devices
               /\ IsOperators(doc[i].devices[d].label) => IsOperators(new[i].devices[d].label)
               /\ d \in Buttons => new[i].devices[d].active = doc[i].devices[d].active
    BY <1>2, <1>3, SyncKeeps
  <2> QED
    BY <1>5, <2>1 DEF KeepsEdits, SameModules
<1>7. LabelsFrom(doc, new, wire)
  BY <1>2, <1>3 DEF LabelsFrom, SyncOK
<1>8. \A i \in DOMAIN doc : doc[i].type = "input" =>
        DOMAIN new[i].devices =
          DOMAIN doc[i].devices \cup (IF doc[i].mac = NoMac THEN {} ELSE DOMAIN wire[doc[i].mac])
  BY <1>2, <1>3 DEF SyncOK
<1> QED
  BY <1>5, <1>6, <1>7, <1>8 DEF new

LEMMA WithWireChannelsIs ==
  ASSUME NEW doc \in InstallationConfig, NEW wire \in [Macs -> Devices(Channels)]
  PROVE  LET new == WithWireChannels(doc, wire) IN
         /\ SameModules(doc, new) /\ KeepsEdits(doc, new) /\ LabelsFrom(doc, new, wire)
         /\ \A i \in DOMAIN doc : doc[i].type = "input" => new[i] = doc[i]
<1> DEFINE f(i) == SyncedChannels(doc[i].devices, wire[doc[i].mac])
           at(i) == doc[i].type # "input" /\ doc[i].mac # NoMac
           new == WithWireChannels(doc, wire)
<1>1. /\ DOMAIN new = DOMAIN doc /\ new = [i \in DOMAIN new |-> new[i]]
      /\ \A i \in DOMAIN doc : new[i] = IF at(i) THEN [doc[i] EXCEPT !.devices = f(i)] ELSE doc[i]
  BY DEF WithWireChannels
<1> HIDE DEF new
<1>2. ASSUME NEW i \in DOMAIN doc, at(i)
      PROVE  /\ new[i] \in ModuleConfig
             /\ new[i].mac = doc[i].mac /\ new[i].ip = doc[i].ip /\ new[i].type = doc[i].type
             /\ SyncOK(doc[i].devices, wire[doc[i].mac], new[i].devices)
             /\ DOMAIN doc[i].devices \cap Buttons = {}
  <2>1. /\ doc[i] \in ModuleConfig /\ doc[i].devices \in Devices(Channels)
        /\ wire[doc[i].mac] \in Devices(Channels) /\ DevicesFor(doc[i].type) = Devices(Channels)
    BY <1>2, DocumentIs DEF DevicesFor
  <2>2. /\ SyncOK(doc[i].devices, wire[doc[i].mac], f(i)) /\ f(i) \in Devices(Channels)
    BY <2>1, SyncedAre
  <2>3. new[i] = [doc[i] EXCEPT !.devices = f(i)]
    BY <1>1, <1>2
  <2>4. DOMAIN doc[i].devices \cap Buttons = {}
    BY <1>2, DocumentIs, IdsAssumption
  <2> HIDE DEF f
  <2> QED
    BY <2>1, <2>2, <2>3, <2>4, ModuleIs
<1>3. ASSUME NEW i \in DOMAIN doc, ~at(i) PROVE new[i] = doc[i] /\ new[i] \in ModuleConfig
  BY <1>1, <1>3, DocumentIs
<1>4. new \in InstallationConfig
  BY <1>1, <1>2, <1>3, DocumentMade
<1>5. SameModules(doc, new)
  BY <1>1, <1>2, <1>3, <1>4 DEF SameModules, SyncOK
<1>6. KeepsEdits(doc, new)
  <2>1. ASSUME NEW i \in DOMAIN doc, NEW d \in DOMAIN doc[i].devices
        PROVE  /\ d \in DOMAIN new[i].devices
               /\ IsOperators(doc[i].devices[d].label) => IsOperators(new[i].devices[d].label)
               /\ d \in Buttons => new[i].devices[d].active = doc[i].devices[d].active
    BY <1>2, <1>3, SyncKeeps
  <2> QED
    BY <1>5, <2>1 DEF KeepsEdits, SameModules
<1>7. LabelsFrom(doc, new, wire)
  BY <1>2, <1>3 DEF LabelsFrom, SyncOK
<1> QED
  BY <1>3, <1>5, <1>6, <1>7 DEF new

\* A document that loads still does with more devices in it, unless two input
\* modules now have one button.
LEMMA SameModulesLoad ==
  ASSUME NEW doc \in InstallationConfig, NEW new, SameModules(doc, new), Loads(doc),
         \A i, j \in DOMAIN doc : i # j /\ doc[i].type = "input" /\ doc[j].type = "input" =>
           DOMAIN new[i].devices \cap DOMAIN new[j].devices = {}
  PROVE  Loads(new)
BY DEF Loads, SameModules

\* The edits E are in a document.
HoldsEdits(E, doc) ==
  \A e \in E :
    /\ doc # None
    /\ \E i \in WithMac(doc, e[1]) :
         /\ e[2] \in DOMAIN doc[i].devices
         /\ IsOperators(doc[i].devices[e[2]].label)
         /\ e[2] \in Buttons => doc[i].devices[e[2]].active = e[3]

\* What keeps the edits holds those that were held.
LEMMA EditsKept ==
  ASSUME NEW doc \in InstallationConfig, NEW new \in InstallationConfig, KeepsEdits(doc, new),
         NEW E, HoldsEdits(E, doc)
  PROVE  HoldsEdits(E, new)
<1>1. new # None
  BY DocumentIs
<1>2. ASSUME NEW e \in E
      PROVE  \E i \in WithMac(new, e[1]) :
               /\ e[2] \in DOMAIN new[i].devices
               /\ IsOperators(new[i].devices[e[2]].label)
               /\ e[2] \in Buttons => new[i].devices[e[2]].active = e[3]
  <2>1. PICK i \in WithMac(doc, e[1]) :
               /\ e[2] \in DOMAIN doc[i].devices
               /\ IsOperators(doc[i].devices[e[2]].label)
               /\ e[2] \in Buttons => doc[i].devices[e[2]].active = e[3]
    BY DEF HoldsEdits
  <2>2. i \in WithMac(new, e[1])
    BY DEF WithMac, KeepsEdits
  <2> QED
    BY <2>1, <2>2 DEF KeepsEdits, WithMac
<1> QED
  BY <1>1, <1>2 DEF HoldsEdits

\* What module m says of its devices.
Says(m, f) == \A d \in DOMAIN f : f[d].label \in {Blank, <<"wire", m>>}

\* Labels stay own when each module says its own.
LEMMA LabelsStayOwn ==
  ASSUME NEW doc \in InstallationConfig, NEW new, SameModules(doc, new), HasOwnLabels(doc),
         NEW wire, LabelsFrom(doc, new, wire),
         \A m \in Macs : Says(m, wire[m])
  PROVE  HasOwnLabels(new)
<1> SUFFICES ASSUME NEW i \in DOMAIN doc, NEW d \in DOMAIN new[i].devices, doc[i].mac # NoMac
             PROVE  new[i].devices[d].label = Blank \/ new[i].devices[d].label[2] \in {doc[i].mac, NoMac}
  BY DEF HasOwnLabels, SameModules
<1>1. doc[i].mac \in Macs
  BY DocumentIs
<1>2. CASE d \in DOMAIN doc[i].devices /\ new[i].devices[d].label = doc[i].devices[d].label
  BY <1>2 DEF HasOwnLabels
<1>3. CASE d \in DOMAIN wire[doc[i].mac] /\ new[i].devices[d].label = wire[doc[i].mac][d].label
  BY <1>1, <1>3 DEF Says
<1> QED
  BY <1>2, <1>3 DEF LabelsFrom

-----------------------------------------------------------------------------
(***************************************************************************)
(* What a scan finds.                                                      *)
(***************************************************************************)

\* f is what a scan finds of module m.
FoundOf(f, m) ==
  /\ f.mac \in {m, NoMac} /\ f.ip = hw[m].ip
  /\ f.devices \in Devices(Channels) /\ Says(m, f.devices)
  /\ f.type = "input" => f.devices = NoDevices

\* The n modules of a scan, of which the k-th is w[k].
IsScan(found, n, w) ==
  /\ n \in Nat /\ DOMAIN found = 1 .. n
  /\ w \in [1 .. n -> Online]
  /\ \A j, k \in 1 .. n : w[j] = w[k] => j = k
  /\ \A k \in 1 .. n : FoundOf(found[k], w[k])

\* What a module says of itself.
LEMMA NoDevicesAre == \A ids : NoDevices \in Devices(ids) /\ DOMAIN NoDevices = {}
<1>1. DOMAIN NoDevices = {} /\ NoDevices \in [{} -> Device]
  BY DEF NoDevices
<1> QED
  BY <1>1 DEF Devices

LEMMA ChannelsAre ==
  ASSUME NEW m \in Macs PROVE ChannelsOf(m) \in Devices(Channels) /\ Says(m, ChannelsOf(m))
<1>1. <<"wire", m>> \in Labels /\ Blank \in Labels
  BY DEF Labels
<1>2. ChannelsOf(m) \in [Channels -> Device]
  BY <1>1 DEF ChannelsOf, Device
<1>3. \A c \in Channels : ChannelsOf(m)[c].label \in {Blank, <<"wire", m>>}
  BY DEF ChannelsOf
<1> QED
  BY <1>2, <1>3, DevicesAre DEF Says

LEMMA ButtonsAre ==
  ASSUME IsHardware(hw), NEW m \in InputMacs
  PROVE  /\ ButtonsOf(m) \in Devices(Buttons) /\ Says(m, ButtonsOf(m))
         /\ DOMAIN ButtonsOf(m) = hw[m].wire
<1>1. <<"wire", m>> \in Labels /\ m \in Macs
  BY InputAssumption DEF Labels
<1>2. hw[m].wire \subseteq Buttons
  BY <1>1 DEF IsHardware
<1>3. ButtonsOf(m) \in [hw[m].wire -> Device]
  BY <1>1 DEF ButtonsOf, Device
<1>4. \A b \in hw[m].wire : ButtonsOf(m)[b].label \in {Blank, <<"wire", m>>}
  BY DEF ButtonsOf
<1> QED
  BY <1>2, <1>3, <1>4, DevicesAre DEF Says

LEMMA FoundAre ==
  ASSUME NEW m \in Macs, NEW inArp
  PROVE  FoundOf(Identified(m, inArp), m) /\ FoundOf(Row(m), m)
<1>1. FoundOf(Row(m), m)
  BY NoDevicesAre DEF FoundOf, Row, Says
<1>2. FoundOf(Identified(m, inArp), m)
  <2>1. NoDevices \in Devices(Channels) /\ Says(m, NoDevices)
    BY NoDevicesAre DEF Says
  <2> QED
    BY <2>1, ChannelsAre DEF FoundOf, Identified, TypeOf
<1> QED
  BY <1>1, <1>2

\* A finite set of modules can be listed.
LEMMA ListingIs ==
  ASSUME NEW S, IsFiniteSet(S)
  PROVE  /\ Cardinality(S) \in Nat
         /\ Listing(S) \in [1 .. Cardinality(S) -> S]
         /\ \A j, k \in 1 .. Cardinality(S) : Listing(S)[j] = Listing(S)[k] => j = k
<1>1. Cardinality(S) \in Nat
  BY FS_CardinalityType
<1>2. PICK s \in Bijection(1 .. Cardinality(S), S) : TRUE
  BY FS_CardinalityType DEF ExistsBijection
<1>3. s \in [1 .. Cardinality(S) -> S] /\ \A j, k \in DOMAIN s : s[j] = s[k] => j = k
  BY <1>2 DEF Bijection, Injection, IsInjective
<1>4. /\ Listing(S) \in [1 .. Cardinality(S) -> S]
      /\ \A j, k \in DOMAIN Listing(S) : Listing(S)[j] = Listing(S)[k] => j = k
  BY <1>3, Zenon DEF Listing
<1> QED
  BY <1>1, <1>4

\* A scan finds modules that are online, each at most once.
LEMMA ScanIs ==
  ASSUME IsHardware(hw), NEW silent \in SUBSET Online, NEW inArp \in BOOLEAN
  PROVE  \E n, w : IsScan(Scan(inArp, silent), n, w)
<1> DEFINE P == IF inArp THEN Online ELSE Online \ silent
           f == [m \in P |-> IF m \in silent THEN Row(m) ELSE Identified(m, inArp)]
           S == {Identified(m, inArp) : m \in Online \ silent}
                  \cup IF inArp THEN {Row(m) : m \in Online \cap silent} ELSE {}
           found == Scan(inArp, silent)
           n == Cardinality(S)
<1>1. Online \subseteq Macs /\ P \subseteq Online
  BY DEF Online
<1>2. IsFiniteSet(P)
  BY <1>1, FiniteMacsAssumption, FS_Subset
<1>3. \A m \in P : f[m] \in S /\ FoundOf(f[m], m)
  BY <1>1, FoundAre
<1>4. \A x \in S : \E m \in P : f[m] = x
  OBVIOUS
<1>5. f \in Surjection(P, S)
  BY <1>3, <1>4 DEF Surjection
<1>6. IsFiniteSet(S)
  BY <1>2, <1>5, FS_Surjection
<1>7. found = Listing(S)
  BY DEF Scan
<1> HIDE DEF S, f, P, found
<1>8. /\ n \in Nat /\ found \in [1 .. n -> S]
      /\ \A j, k \in 1 .. n : found[j] = found[k] => j = k
  BY <1>6, <1>7, ListingIs
<1> HIDE DEF n
<1> DEFINE w == [k \in 1 .. n |-> CHOOSE m \in P : f[m] = found[k]]
<1>9. \A k \in 1 .. n : w[k] \in P /\ f[w[k]] = found[k]
  BY <1>4, <1>8
<1>10. w \in [1 .. n -> Online]
  BY <1>1, <1>9
<1>11. \A k \in 1 .. n : FoundOf(found[k], w[k])
  BY <1>3, <1>9
<1>12. \A j, k \in 1 .. n : w[j] = w[k] => j = k
  BY <1>8, <1>9
<1> HIDE DEF w
<1>13. IsScan(found, n, w)
  BY <1>8, <1>10, <1>11, <1>12 DEF IsScan
<1> QED
  BY <1>13 DEF found

-----------------------------------------------------------------------------
(***************************************************************************)
(* The entries of what was found, and the merge.                           *)
(***************************************************************************)

UpTo(S, i) == {j \in S : j <= i}

\* A finite set of numbers has an n-th one for every n up to its size.
LEMMA NthIsThere ==
  ASSUME NEW S \in SUBSET Nat, IsFiniteSet(S), NEW n \in 1 .. Cardinality(S)
  PROVE  Nth(S, n) \in S /\ Cardinality(UpTo(S, Nth(S, n))) = n
<1> DEFINE size == Cardinality(S)
           rank == [i \in S |-> Cardinality(UpTo(S, i))]
<1>1. size \in Nat
  BY FS_CardinalityType
<1>2. ASSUME NEW i \in S
      PROVE  /\ IsFiniteSet(UpTo(S, i))
             /\ Cardinality(UpTo(S, i)) \in 1 .. size
  <2>1. UpTo(S, i) \in SUBSET S /\ i \in UpTo(S, i)
    BY DEF UpTo
  <2>2. IsFiniteSet(UpTo(S, i)) /\ Cardinality(UpTo(S, i)) <= size
    BY <2>1, FS_Subset
  <2>3. Cardinality(UpTo(S, i)) \in Nat /\ Cardinality(UpTo(S, i)) # 0
    BY <2>1, <2>2, FS_CardinalityType, FS_EmptySet
  <2>4. QED
    BY <1>1, <2>2, <2>3
<1>3. ASSUME NEW i \in S, NEW j \in S, i < j
      PROVE  Cardinality(UpTo(S, i)) # Cardinality(UpTo(S, j))
  <2>1. UpTo(S, i) \in SUBSET UpTo(S, j) /\ j \in UpTo(S, j) /\ j \notin UpTo(S, i)
    <3>1. i \in Nat /\ j \in Nat /\ \A x \in S : x \in Nat
      OBVIOUS
    <3>2. \A x \in S : x <= i => x <= j
      BY <1>3, <3>1
    <3>3. j <= j /\ ~ (j <= i)
      BY <1>3, <3>1
    <3>4. QED
      BY <3>2, <3>3 DEF UpTo
  <2>2. QED
    BY <1>2, <2>1, FS_Subset
<1>4. rank \in Injection(S, 1 .. size)
  <2>1. rank \in [S -> 1 .. size]
    BY <1>2
  <2>2. ASSUME NEW i \in S, NEW j \in S, rank[i] = rank[j] PROVE i = j
    <3>1. i \in Nat /\ j \in Nat /\ (i < j \/ j < i \/ i = j)
      OBVIOUS
    <3>2. QED
      BY <1>3, <2>2, <3>1
  <2>3. QED
    BY <2>1, <2>2 DEF Injection, IsInjective
<1>5. rank \in Surjection(S, 1 .. size)
  <2>1. IsFiniteSet(1 .. size) /\ Cardinality(1 .. size) = size
    BY <1>1, FS_Interval
  <2>2. QED
    BY <1>4, <2>1, FS_Injection
<1>6. PICK i \in S : Cardinality(UpTo(S, i)) = n
  BY <1>5 DEF Surjection
<1>7. QED
  BY <1>6 DEF Nth, UpTo

\* What was found, as a module of a document.
LEMMA EntryIs ==
  ASSUME IsHardware(hw), NEW m \in Online, NEW f, FoundOf(f, m), IsLoadable(f)
  PROVE  /\ Entry(f) \in ModuleConfig
         /\ Entry(f).mac = f.mac /\ Entry(f).ip = f.ip /\ Entry(f).type = f.type
         /\ Entry(f).type = "input" => DOMAIN Entry(f).devices = {}
         /\ Says(m, Entry(f).devices)
<1>1. m \in Macs /\ hw[m].ip # None
  BY DEF Online
<1>2. f.ip \in Ips /\ f.mac \in Macs \cup {NoMac}
  BY <1>1 DEF FoundOf, IsHardware
<1> DEFINE d == IF f.type = "input" THEN NoDevices ELSE f.devices
<1>3. d \in DevicesFor(f.type) /\ Says(m, d) /\ (f.type = "input" => DOMAIN d = {})
  BY NoDevicesAre DEF DevicesFor, FoundOf, Says
<1>4. Entry(f) = [mac |-> f.mac, ip |-> f.ip, type |-> f.type, devices |-> d]
  BY DEF Entry
<1> HIDE DEF d
<1>5. Entry(f) \in ModuleConfig
  BY <1>2, <1>3, <1>4, ModuleMade DEF IsLoadable
<1> QED
  BY <1>3, <1>4, <1>5

LEMMA EntriesAre ==
  ASSUME IsHardware(hw), NEW found, NEW n, NEW w, IsScan(found, n, w),
         NEW S \in SUBSET DOMAIN found, \A k \in S : IsLoadable(found[k])
  PROVE  /\ Entries(found, S) \in InstallationConfig
         /\ \E src \in [DOMAIN Entries(found, S) -> S] :
              /\ \A i, j \in DOMAIN Entries(found, S) : src[i] = src[j] => i = j
              /\ \A i \in DOMAIN Entries(found, S) : Entries(found, S)[i] = Entry(found[src[i]])
<1>1. S \in SUBSET Nat /\ IsFiniteSet(S) /\ Cardinality(S) \in Nat
  <2>1. DOMAIN found = 1 .. n /\ n \in Nat
    BY DEF IsScan
  <2>2. IsFiniteSet(DOMAIN found)
    BY <2>1, FS_Interval
  <2> QED
    BY <2>1, <2>2, FS_Subset, FS_CardinalityType
<1> DEFINE src == [i \in 1 .. Cardinality(S) |-> Nth(S, i)]
           new == Entries(found, S)
<1>2. \A i \in 1 .. Cardinality(S) : Nth(S, i) \in S /\ Cardinality(UpTo(S, Nth(S, i))) = i
  BY <1>1, NthIsThere
<1>3. src \in [1 .. Cardinality(S) -> S] /\ \A i, j \in 1 .. Cardinality(S) : src[i] = src[j] => i = j
  BY <1>2
<1>4. DOMAIN new = 1 .. Cardinality(S) /\ \A i \in 1 .. Cardinality(S) : new[i] = Entry(found[src[i]])
  BY DEF Entries
<1>5. new = [i \in 1 .. Cardinality(S) |-> new[i]]
  BY DEF Entries
<1> HIDE DEF new, src
<1>6. \A i \in 1 .. Cardinality(S) : new[i] \in ModuleConfig
  <2>1. ASSUME NEW i \in 1 .. Cardinality(S) PROVE Entry(found[src[i]]) \in ModuleConfig
    <3>1. src[i] \in 1 .. n /\ src[i] \in S
      BY <1>3 DEF IsScan
    <3>2. w[src[i]] \in Online /\ FoundOf(found[src[i]], w[src[i]])
      BY <3>1 DEF IsScan
    <3> QED
      BY <3>1, <3>2, EntryIs
  <2> QED
    BY <1>4, <2>1
<1>7. new \in InstallationConfig
  BY <1>1, <1>5, <1>6 DEF InstallationConfig
<1> QED
  BY <1>3, <1>4, <1>7 DEF new

\* A module after the merge.
LEMMA MergedIs ==
  ASSUME IsHardware(hw), NEW found, NEW n, NEW w, IsScan(found, n, w), NEW r \in ModuleConfig
  PROVE  LET new == Merged(r, found) IN
         /\ new \in ModuleConfig
         /\ \/ new = r /\ \A k \in DOMAIN found : ~Matches(r, found[k])
            \/ \E k \in DOMAIN found :
                 /\ Matches(r, found[k])
                 /\ new.mac = IF r.mac = NoMac THEN found[k].mac ELSE r.mac
                 /\ new.ip = found[k].ip /\ new.type = r.type
                 /\ r.type = "input" => new.devices = r.devices
                 /\ r.type # "input" => SyncOK(r.devices, found[k].devices, new.devices)
<1>1. CASE ~\E k \in DOMAIN found : Matches(r, found[k])
  BY <1>1 DEF Merged
<1>2. CASE \E k \in DOMAIN found : Matches(r, found[k])
  <2>1. PICK k \in DOMAIN found :
          /\ Matches(r, found[k])
          /\ Merged(r, found) =
               [mac |-> IF r.mac = NoMac THEN found[k].mac ELSE r.mac, ip |-> found[k].ip, type |-> r.type,
                devices |-> IF r.type = "input" THEN r.devices ELSE SyncedChannels(r.devices, found[k].devices)]
    BY <1>2, Zenon DEF Merged
  <2> DEFINE f == found[k]
             mac == IF r.mac = NoMac THEN f.mac ELSE r.mac
             d == IF r.type = "input" THEN r.devices ELSE SyncedChannels(r.devices, f.devices)
  <2>2. k \in 1 .. n /\ w[k] \in Online /\ w[k] \in Macs /\ hw[w[k]].ip # None /\ FoundOf(f, w[k])
    BY DEF IsScan, Online
  <2>3. f.ip \in Ips /\ f.mac \in Macs \cup {NoMac} /\ f.devices \in Devices(Channels)
    BY <2>2 DEF FoundOf, IsHardware
  <2>4. r.mac \in Macs \cup {NoMac} /\ r.type \in Types /\ r.devices \in DevicesFor(r.type)
    BY ModuleIs
  <2>5. /\ d \in DevicesFor(r.type)
        /\ r.type = "input" => d = r.devices
        /\ r.type # "input" => SyncOK(r.devices, f.devices, d)
    <3>1. CASE r.type = "input"
      BY <2>4, <3>1
    <3>2. CASE r.type # "input"
      <4>1. r.devices \in Devices(Channels) /\ DevicesFor(r.type) = Devices(Channels)
        BY <2>4, <3>2 DEF DevicesFor
      <4> QED
        BY <2>3, <3>2, <4>1, SyncedAre
    <3> QED
      BY <3>1, <3>2
  <2>6. mac \in Macs \cup {NoMac}
    BY <2>3, <2>4
  <2>7. Merged(r, found) = [mac |-> mac, ip |-> f.ip, type |-> r.type, devices |-> d]
    BY <2>1
  <2> HIDE DEF d
  <2>8. Merged(r, found) \in ModuleConfig
    BY <2>3, <2>4, <2>5, <2>6, <2>7, ModuleMade
  <2> QED
    BY <2>1, <2>5, <2>7, <2>8
<1> QED
  BY <1>1, <1>2

\* new is the merge of doc with found; module i comes from what was found at
\* src[i], or was not found if that is 0.
IsMerge(doc, found, new, src) ==
  /\ new \in InstallationConfig /\ DOMAIN doc \subseteq DOMAIN new
  /\ \A i \in DOMAIN new : src[i] \in DOMAIN found \cup {0}
  /\ \A i \in DOMAIN new : src[i] = 0 =>
       i \in DOMAIN doc /\ new[i] = doc[i] /\ \A k \in DOMAIN found : ~Matches(doc[i], found[k])
  /\ \A i \in DOMAIN new : src[i] # 0 => new[i].ip = found[src[i]].ip
  /\ \A i \in DOMAIN doc : src[i] # 0 =>
       /\ Matches(doc[i], found[src[i]])
       /\ new[i].mac = IF doc[i].mac = NoMac THEN found[src[i]].mac ELSE doc[i].mac
       /\ new[i].type = doc[i].type
       /\ doc[i].type = "input" => new[i].devices = doc[i].devices
       /\ doc[i].type # "input" => SyncOK(doc[i].devices, found[src[i]].devices, new[i].devices)
  /\ \A i \in DOMAIN new \ DOMAIN doc :
       /\ src[i] # 0
       /\ new[i].mac = found[src[i]].mac /\ new[i].mac # NoMac
       /\ new[i].type = "input" => DOMAIN new[i].devices = {}
       /\ \A d \in DOMAIN new[i].devices :
            d \in DOMAIN found[src[i]].devices /\ new[i].devices[d] = found[src[i]].devices[d]
       /\ \A j \in DOMAIN doc : ~Matches(doc[j], found[src[i]])
  /\ \A i, j \in DOMAIN new \ DOMAIN doc : src[i] = src[j] => i = j

LEMMA ConcatIs ==
  ASSUME NEW T, NEW s \in Seq(T), NEW t \in Seq(T)
  PROVE  /\ s \o t \in Seq(T) /\ Len(s \o t) = Len(s) + Len(t)
         /\ DOMAIN (s \o t) = 1 .. (Len(s) + Len(t))
         /\ \A i \in 1 .. (Len(s) + Len(t)) : (s \o t)[i] = IF i <= Len(s) THEN s[i] ELSE t[i - Len(s)]
OBVIOUS

LEMMA MergeIs ==
  ASSUME IsHardware(hw), NEW doc \in InstallationConfig,
         NEW found, NEW n, NEW w, IsScan(found, n, w)
  PROVE  \E src : IsMerge(doc, found, Merge(doc, found), src)
<1> DEFINE a == [i \in DOMAIN doc |-> Merged(doc[i], found)]
           b == Entries(found, New(doc, found))
           new == Merge(doc, found)
           z == Len(doc)
<1>1. z \in Nat /\ DOMAIN doc = 1 .. z
  BY DocumentIs
<1>2. n \in Nat /\ DOMAIN found = 1 .. n
  BY DEF IsScan
<1>3. \A i \in DOMAIN doc :
        /\ a[i] \in ModuleConfig
        /\ \/ a[i] = doc[i] /\ \A k \in DOMAIN found : ~Matches(doc[i], found[k])
           \/ \E k \in DOMAIN found :
                /\ Matches(doc[i], found[k])
                /\ a[i].mac = IF doc[i].mac = NoMac THEN found[k].mac ELSE doc[i].mac
                /\ a[i].ip = found[k].ip /\ a[i].type = doc[i].type
                /\ doc[i].type = "input" => a[i].devices = doc[i].devices
                /\ doc[i].type # "input" => SyncOK(doc[i].devices, found[k].devices, a[i].devices)
  BY DocumentIs, MergedIs
<1>4. a \in Seq(ModuleConfig) /\ Len(a) = z
  <2>1. a \in [1 .. z -> ModuleConfig]
    BY <1>1, <1>3
  <2> QED
    BY <1>1, <2>1
<1>5. /\ b \in Seq(ModuleConfig)
      /\ \E s \in [DOMAIN b -> New(doc, found)] :
           /\ \A i, j \in DOMAIN b : s[i] = s[j] => i = j
           /\ \A i \in DOMAIN b : b[i] = Entry(found[s[i]])
  <2>1. New(doc, found) \in SUBSET DOMAIN found /\ \A k \in New(doc, found) : IsLoadable(found[k])
    BY DEF New
  <2> QED
    BY <2>1, EntriesAre DEF InstallationConfig
<1>6. PICK s \in [DOMAIN b -> New(doc, found)] :
        /\ \A i, j \in DOMAIN b : s[i] = s[j] => i = j
        /\ \A i \in DOMAIN b : b[i] = Entry(found[s[i]])
  BY <1>5
<1>7. new = a \o b
  BY DEF Merge
<1> DEFINE at == [i \in DOMAIN doc |-> IF \A k \in DOMAIN found : ~Matches(doc[i], found[k]) THEN 0
                      ELSE CHOOSE k \in DOMAIN found :
                             /\ Matches(doc[i], found[k])
                             /\ a[i].mac = IF doc[i].mac = NoMac THEN found[k].mac ELSE doc[i].mac
                             /\ a[i].ip = found[k].ip /\ a[i].type = doc[i].type
                             /\ doc[i].type = "input" => a[i].devices = doc[i].devices
                             /\ doc[i].type # "input" =>
                                  SyncOK(doc[i].devices, found[k].devices, a[i].devices)]
<1>8. \A i \in DOMAIN doc :
        \/ at[i] = 0 /\ a[i] = doc[i] /\ \A k \in DOMAIN found : ~Matches(doc[i], found[k])
        \/ /\ at[i] \in DOMAIN found
           /\ Matches(doc[i], found[at[i]])
           /\ a[i].mac = IF doc[i].mac = NoMac THEN found[at[i]].mac ELSE doc[i].mac
           /\ a[i].ip = found[at[i]].ip /\ a[i].type = doc[i].type
           /\ doc[i].type = "input" => a[i].devices = doc[i].devices
           /\ doc[i].type # "input" => SyncOK(doc[i].devices, found[at[i]].devices, a[i].devices)
  <2> HIDE DEF a
  <2>1. SUFFICES ASSUME NEW i \in DOMAIN doc
        PROVE \/ at[i] = 0 /\ a[i] = doc[i] /\ \A k \in DOMAIN found : ~Matches(doc[i], found[k])
              \/ /\ at[i] \in DOMAIN found
                 /\ Matches(doc[i], found[at[i]])
                 /\ a[i].mac = IF doc[i].mac = NoMac THEN found[at[i]].mac ELSE doc[i].mac
                 /\ a[i].ip = found[at[i]].ip /\ a[i].type = doc[i].type
                 /\ doc[i].type = "input" => a[i].devices = doc[i].devices
                 /\ doc[i].type # "input" => SyncOK(doc[i].devices, found[at[i]].devices, a[i].devices)
    BY Zenon
  <2>2. CASE \A k \in DOMAIN found : ~Matches(doc[i], found[k])
    <3>1. a[i] = doc[i]
      BY <1>3, <2>2
    <3> QED
      BY <2>2, <3>1
  <2>3. CASE ~\A k \in DOMAIN found : ~Matches(doc[i], found[k])
    <3>1. \E k \in DOMAIN found :
                /\ Matches(doc[i], found[k])
                /\ a[i].mac = IF doc[i].mac = NoMac THEN found[k].mac ELSE doc[i].mac
                /\ a[i].ip = found[k].ip /\ a[i].type = doc[i].type
                /\ doc[i].type = "input" => a[i].devices = doc[i].devices
                /\ doc[i].type # "input" => SyncOK(doc[i].devices, found[k].devices, a[i].devices)
      BY <1>3, <2>3, Zenon
    <3> QED
      BY <2>3, <3>1, Zenon
  <2> QED
    BY <2>2, <2>3
<1> HIDE DEF a, b, new, at, z
<1>9. /\ new \in InstallationConfig /\ DOMAIN new = 1 .. (z + Len(b)) /\ Len(b) \in Nat
      /\ \A i \in DOMAIN doc : i \in DOMAIN new /\ new[i] = a[i]
      /\ \A i \in DOMAIN new \ DOMAIN doc : i - z \in DOMAIN b /\ new[i] = b[i - z]
  <2>1. b \in Seq(ModuleConfig) /\ Len(b) \in Nat /\ DOMAIN b = 1 .. Len(b)
    BY <1>5
  <2>2. /\ new \in Seq(ModuleConfig) /\ Len(new) = z + Len(b) /\ DOMAIN new = 1 .. (z + Len(b))
        /\ \A i \in 1 .. (z + Len(b)) : new[i] = IF i <= z THEN a[i] ELSE b[i - z]
    BY <1>4, <1>7, <2>1, ConcatIs, Zenon
  <2>3. \A i \in 1 .. z : i \in 1 .. (z + Len(b)) /\ i <= z
    BY <1>1, <2>1
  <2>4. \A i \in (1 .. (z + Len(b))) \ (1 .. z) : i - z \in 1 .. Len(b) /\ ~(i <= z)
    BY <1>1, <2>1
  <2> QED
    BY <1>1, <2>1, <2>2, <2>3, <2>4 DEF InstallationConfig
<1> DEFINE src == [i \in DOMAIN new |-> IF i \in DOMAIN doc THEN at[i] ELSE s[i - z]]
<1>10. /\ \A i \in DOMAIN doc : src[i] = at[i]
       /\ \A i \in DOMAIN new \ DOMAIN doc : src[i] = s[i - z] /\ s[i - z] \in New(doc, found)
  BY <1>6, <1>9
<1>11. \A k \in New(doc, found) : /\ k \in DOMAIN found /\ k # 0
                                 /\ found[k].mac # NoMac /\ IsLoadable(found[k])
                                 /\ \A j \in DOMAIN doc : ~Matches(doc[j], found[k])
  BY <1>2 DEF New
<1>12. ASSUME NEW i \in DOMAIN new \ DOMAIN doc
       PROVE  /\ src[i] \in DOMAIN found /\ src[i] # 0
              /\ new[i] = Entry(found[src[i]]) /\ w[src[i]] \in Online
              /\ FoundOf(found[src[i]], w[src[i]]) /\ IsLoadable(found[src[i]])
              /\ found[src[i]].mac # NoMac /\ \A j \in DOMAIN doc : ~Matches(doc[j], found[src[i]])
  BY <1>6, <1>9, <1>10, <1>11 DEF IsScan
<1>13. \A i, j \in DOMAIN new \ DOMAIN doc : src[i] = src[j] => i = j
  <2> SUFFICES ASSUME NEW i \in DOMAIN new \ DOMAIN doc, NEW j \in DOMAIN new \ DOMAIN doc, src[i] = src[j]
               PROVE  i = j
    OBVIOUS
  <2>1. i - z \in DOMAIN b /\ j - z \in DOMAIN b /\ s[i - z] = s[j - z]
    BY <1>9, <1>10
  <2>2. i - z = j - z
    BY <1>6, <2>1
  <2>3. i \in Int /\ j \in Int
    BY <1>1, <1>9
  <2> QED
    BY <1>1, <2>2, <2>3
<1> HIDE DEF src
<1>14. \A i \in DOMAIN new \ DOMAIN doc :
         /\ new[i].mac = found[src[i]].mac /\ new[i].ip = found[src[i]].ip
         /\ new[i].type = "input" => DOMAIN new[i].devices = {}
         /\ \A d \in DOMAIN new[i].devices :
              d \in DOMAIN found[src[i]].devices /\ new[i].devices[d] = found[src[i]].devices[d]
  <2> SUFFICES ASSUME NEW i \in DOMAIN new \ DOMAIN doc
               PROVE  /\ new[i].mac = found[src[i]].mac /\ new[i].ip = found[src[i]].ip
                      /\ new[i].type = "input" => DOMAIN new[i].devices = {}
                      /\ \A d \in DOMAIN new[i].devices :
                           d \in DOMAIN found[src[i]].devices /\ new[i].devices[d] = found[src[i]].devices[d]
    BY Zenon
  <2>1. PICK f : f = found[src[i]]
    OBVIOUS
  <2>2. /\ Entry(f).mac = f.mac /\ Entry(f).ip = f.ip /\ Entry(f).type = f.type
        /\ Entry(f).type = "input" => DOMAIN Entry(f).devices = {}
    BY <1>12, <2>1, EntryIs
  <2>3. \A d \in DOMAIN Entry(f).devices : d \in DOMAIN f.devices /\ Entry(f).devices[d] = f.devices[d]
    BY NoDevicesAre DEF Entry
  <2> QED
    BY <1>12, <2>1, <2>2, <2>3
<1>15. \A i \in DOMAIN doc : src[i] = 0 => new[i] = doc[i] /\ \A k \in DOMAIN found : ~Matches(doc[i], found[k])
  BY <1>2, <1>8, <1>9, <1>10
<1>16. \A i \in DOMAIN doc : src[i] # 0 =>
         /\ src[i] \in DOMAIN found
         /\ Matches(doc[i], found[src[i]])
         /\ new[i].mac = IF doc[i].mac = NoMac THEN found[src[i]].mac ELSE doc[i].mac
         /\ new[i].ip = found[src[i]].ip /\ new[i].type = doc[i].type
         /\ doc[i].type = "input" => new[i].devices = doc[i].devices
         /\ doc[i].type # "input" => SyncOK(doc[i].devices, found[src[i]].devices, new[i].devices)
  BY <1>8, <1>9, <1>10
<1>17. IsMerge(doc, found, new, src)
  BY <1>9, <1>12, <1>13, <1>14, <1>15, <1>16 DEF IsMerge
<1> QED
  BY <1>17 DEF new

\* A document in which nothing is mixed up.
LEMMA InPlace ==
  ASSUME NEW doc, ~Mixes(doc)
  PROVE  /\ \A m \in Online : \A i \in DOMAIN doc : doc[i].ip = hw[m].ip =>
              /\ doc[i].mac # NoMac => doc[i].mac = m
              /\ doc[i].mac = NoMac => /\ \A j \in DOMAIN doc : doc[j].mac # m \/ m = NoMac
                                       /\ \A d \in DOMAIN doc[i].devices : doc[i].devices[d].label \in OwnLabels(m)
         /\ \A m \in InputMacs : \A b \in hw[m].wire : \A i \in DOMAIN doc :
              doc[i].type = "input" /\ b \in DOMAIN doc[i].devices => doc[i].mac = m
BY DEF Mixes, AddressOfAnother, ButtonOfAnother, AtIp, WithMac, WithButton, OwnLabels

LEMMA OnlineApart ==
  ASSUME IsHardware(hw)
  PROVE  /\ \A m \in Online : m \in Macs /\ m # NoMac /\ hw[m].ip \in Ips
         /\ \A m, n \in Online : hw[m].ip = hw[n].ip => m = n
BY NoMacAssumption DEF Online, IsHardware

\* Two modules of a merge are at different addresses.
LEMMA MergeApart ==
  ASSUME IsHardware(hw), NEW doc \in InstallationConfig, Loads(doc), ~Mixes(doc),
         NEW found, NEW n, NEW w, IsScan(found, n, w), NEW new, NEW src, IsMerge(doc, found, new, src),
         NEW i \in DOMAIN new, NEW j \in DOMAIN new, i # j
  PROVE  new[i].ip # new[j].ip
<1>1. \A k \in DOMAIN found : /\ w[k] \in Online /\ w[k] # NoMac
                             /\ found[k].ip = hw[w[k]].ip /\ found[k].mac \in {w[k], NoMac}
  BY OnlineApart DEF IsScan, FoundOf
<1>2. ASSUME NEW k \in DOMAIN found, NEW l \in DOMAIN found, found[k].ip = found[l].ip PROVE k = l
  BY <1>1, <1>2, OnlineApart DEF IsScan
<1>3. ASSUME NEW p \in DOMAIN doc, NEW q \in DOMAIN doc, p # q
      PROVE  doc[p].ip # doc[q].ip /\ (doc[p].mac = doc[q].mac => doc[p].mac = NoMac)
  BY <1>3 DEF Loads
<1>4. ASSUME NEW p \in DOMAIN new, NEW q \in DOMAIN new, p # q, src[p] = 0, src[q] # 0,
             new[p].ip = new[q].ip
      PROVE  FALSE
  <2>1. PICK k \in DOMAIN found : k = src[q]
    BY <1>4 DEF IsMerge
  <2>2. /\ p \in DOMAIN doc /\ doc[p].ip = found[k].ip /\ ~Matches(doc[p], found[k])
    BY <1>4, <2>1 DEF IsMerge
  <2>3. doc[p].mac # NoMac /\ found[k].mac # doc[p].mac
    BY <2>2 DEF Matches
  <2>4. doc[p].mac = w[k] /\ found[k].mac = NoMac
    BY <1>1, <2>2, <2>3, InPlace
  <2>5. q \in DOMAIN doc
    BY <1>4, <2>1, <2>4 DEF IsMerge
  <2>6. doc[q].mac = NoMac /\ doc[q].ip = found[k].ip
    BY <1>4, <2>1, <2>4, <2>5 DEF IsMerge, Matches
  <2> QED
    BY <1>3, <1>4, <2>2, <2>5, <2>6
<1>5. ASSUME src[i] # 0, src[j] # 0, new[i].ip = new[j].ip PROVE FALSE
  <2>1. PICK k \in DOMAIN found : k = src[i]
    BY <1>5 DEF IsMerge
  <2>2. src[j] = k
    <3>1. src[j] \in DOMAIN found /\ found[k].ip = found[src[j]].ip
      BY <1>5, <2>1 DEF IsMerge
    <3> QED
      BY <1>2, <3>1
  <2>3. CASE i \in DOMAIN doc /\ j \in DOMAIN doc
    <3>1. Matches(doc[i], found[k]) /\ Matches(doc[j], found[k])
      BY <1>5, <2>1, <2>2, <2>3 DEF IsMerge
    <3>2. doc[i].mac = NoMac \/ doc[j].mac = NoMac
      BY <1>3, <2>3, <3>1 DEF Matches
    <3>3. ~(doc[i].mac = NoMac /\ doc[j].mac = NoMac)
      BY <1>3, <2>3, <3>1 DEF Matches
    <3>4. ASSUME NEW p \in DOMAIN doc, NEW q \in DOMAIN doc, doc[p].mac = NoMac, doc[q].mac # NoMac,
                 Matches(doc[p], found[k]), Matches(doc[q], found[k])
          PROVE  FALSE
      <4>1. doc[p].ip = hw[w[k]].ip /\ doc[q].mac = w[k]
        BY <1>1, <3>4 DEF Matches
      <4> QED
        BY <1>1, <3>4, <4>1, InPlace
    <3> QED
      BY <2>3, <3>1, <3>2, <3>3, <3>4
  <2>4. CASE i \in DOMAIN doc /\ j \notin DOMAIN doc
    BY <1>5, <2>1, <2>2, <2>4 DEF IsMerge
  <2>5. CASE i \notin DOMAIN doc /\ j \in DOMAIN doc
    BY <1>5, <2>1, <2>2, <2>5 DEF IsMerge
  <2>6. CASE i \notin DOMAIN doc /\ j \notin DOMAIN doc
    BY <2>1, <2>2, <2>6 DEF IsMerge
  <2> QED
    BY <2>3, <2>4, <2>5, <2>6
<1>6. ASSUME src[i] = 0, src[j] = 0 PROVE new[i].ip # new[j].ip
  BY <1>3, <1>6 DEF IsMerge
<1> QED
  BY <1>4, <1>5, <1>6

\* The MAC of a module in a merge: where it is from.
LEMMA MergeMac ==
  ASSUME IsHardware(hw), NEW doc \in InstallationConfig, Loads(doc), ~Mixes(doc),
         NEW found, NEW n, NEW w, IsScan(found, n, w), NEW new, NEW src, IsMerge(doc, found, new, src),
         NEW i \in DOMAIN new, new[i].mac # NoMac
  PROVE  \/ i \in DOMAIN doc /\ doc[i].mac = new[i].mac
         \/ /\ src[i] \in DOMAIN found /\ found[src[i]].mac = new[i].mac /\ w[src[i]] = new[i].mac
            /\ \A j \in DOMAIN doc : doc[j].mac # new[i].mac
<1>1. \A k \in DOMAIN found : /\ w[k] \in Online /\ w[k] # NoMac
                             /\ found[k].ip = hw[w[k]].ip /\ found[k].mac \in {w[k], NoMac}
  BY OnlineApart DEF IsScan, FoundOf
<1>2. CASE i \in DOMAIN doc /\ (src[i] = 0 \/ doc[i].mac # NoMac)
  BY <1>2 DEF IsMerge
<1>3. CASE i \in DOMAIN doc /\ src[i] # 0 /\ doc[i].mac = NoMac
  <2>1. /\ src[i] \in DOMAIN found /\ found[src[i]].mac = new[i].mac /\ Matches(doc[i], found[src[i]])
    BY <1>3 DEF IsMerge
  <2>2. w[src[i]] = new[i].mac /\ doc[i].ip = hw[w[src[i]]].ip
    BY <1>1, <1>3, <2>1 DEF Matches
  <2> QED
    BY <1>1, <1>3, <2>1, <2>2, InPlace
<1>4. CASE i \notin DOMAIN doc
  <2>1. /\ src[i] \in DOMAIN found /\ found[src[i]].mac = new[i].mac
        /\ \A j \in DOMAIN doc : ~Matches(doc[j], found[src[i]])
    BY <1>4 DEF IsMerge
  <2> QED
    BY <1>1, <2>1 DEF Matches
<1> QED
  BY <1>2, <1>3, <1>4

\* The merge of a document in which nothing is mixed up loads, keeps every edit,
\* and gives no module the label of another one.
LEMMA MergeLoads ==
  ASSUME IsHardware(hw), NEW doc \in InstallationConfig, Loads(doc), ~Mixes(doc),
         NEW found, NEW n, NEW w, IsScan(found, n, w), NEW new, NEW src, IsMerge(doc, found, new, src)
  PROVE  Loads(new)
<1>1. \A i \in DOMAIN new : new[i].type \in Types
  BY DocumentIs DEF IsMerge
<1>2. ASSUME NEW i \in DOMAIN new, NEW j \in DOMAIN new, i # j, new[i].mac = new[j].mac, new[i].mac # NoMac
      PROVE  FALSE
  <2>1. \/ i \in DOMAIN doc /\ doc[i].mac = new[i].mac
        \/ /\ src[i] \in DOMAIN found /\ w[src[i]] = new[i].mac
           /\ \A k \in DOMAIN doc : doc[k].mac # new[i].mac
    BY <1>2, MergeMac
  <2>2. \/ j \in DOMAIN doc /\ doc[j].mac = new[j].mac
        \/ /\ src[j] \in DOMAIN found /\ w[src[j]] = new[j].mac
           /\ \A k \in DOMAIN doc : doc[k].mac # new[j].mac
    BY <1>2, MergeMac
  <2>3. ~(i \in DOMAIN doc /\ doc[i].mac = new[i].mac /\ j \in DOMAIN doc /\ doc[j].mac = new[j].mac)
    BY <1>2 DEF Loads
  <2>4. src[i] \in DOMAIN found /\ src[j] \in DOMAIN found /\ w[src[i]] = w[src[j]]
    BY <1>2, <2>1, <2>2, <2>3
  <2>5. src[i] = src[j] /\ src[i] # 0
    BY <2>4 DEF IsScan
  <2>6. new[i].ip = new[j].ip
    BY <2>5 DEF IsMerge
  <2> QED
    BY <1>2, <2>6, MergeApart
<1>3. ASSUME NEW i \in DOMAIN new, NEW j \in DOMAIN new, i # j, new[i].type = "input", new[j].type = "input"
      PROVE  DOMAIN new[i].devices \cap DOMAIN new[j].devices = {}
  <2>1. \A k \in DOMAIN new \ DOMAIN doc : new[k].type = "input" => DOMAIN new[k].devices = {}
    BY DEF IsMerge
  <2>2. \A k \in DOMAIN doc : new[k].type = "input" => doc[k].type = "input" /\ new[k].devices = doc[k].devices
    BY DEF IsMerge
  <2> QED
    BY <1>3, <2>1, <2>2 DEF Loads
<1>4. \A i, j \in DOMAIN new : i # j => new[i].ip # new[j].ip
  BY MergeApart
<1> QED
  BY <1>1, <1>2, <1>3, <1>4 DEF Loads

LEMMA MergeKeepsEdits ==
  ASSUME IsHardware(hw), NEW doc \in InstallationConfig,
         NEW found, NEW n, NEW w, IsScan(found, n, w), NEW new, NEW src, IsMerge(doc, found, new, src)
  PROVE  KeepsEdits(doc, new)
<1> SUFFICES ASSUME NEW i \in DOMAIN doc, doc[i].mac # NoMac
             PROVE  /\ new[i].mac = doc[i].mac
                    /\ \A d \in DOMAIN doc[i].devices :
                         /\ d \in DOMAIN new[i].devices
                         /\ IsOperators(doc[i].devices[d].label) => IsOperators(new[i].devices[d].label)
                         /\ d \in Buttons => new[i].devices[d].active = doc[i].devices[d].active
  BY DEF KeepsEdits, IsMerge
<1>1. CASE src[i] = 0
  BY <1>1 DEF IsMerge
<1>2. CASE src[i] # 0 /\ doc[i].type = "input"
  BY <1>2 DEF IsMerge
<1>3. CASE src[i] # 0 /\ doc[i].type # "input"
  <2>1. SyncOK(doc[i].devices, found[src[i]].devices, new[i].devices) /\ new[i].mac = doc[i].mac
    BY <1>3 DEF IsMerge
  <2>2. \A d \in DOMAIN doc[i].devices : d \notin Buttons
    BY <1>3, DocumentIs, IdsAssumption
  <2> QED
    BY <2>1, <2>2, SyncKeeps
<1> QED
  BY <1>1, <1>2, <1>3

LEMMA MergeKeepsLabels ==
  ASSUME IsHardware(hw), NEW doc \in InstallationConfig, Loads(doc), ~Mixes(doc), HasOwnLabels(doc),
         NEW found, NEW n, NEW w, IsScan(found, n, w), NEW new, NEW src, IsMerge(doc, found, new, src)
  PROVE  HasOwnLabels(new)
<1> SUFFICES ASSUME NEW i \in DOMAIN new, NEW d \in DOMAIN new[i].devices, new[i].mac # NoMac
             PROVE  new[i].devices[d].label = Blank \/ new[i].devices[d].label[2] \in {new[i].mac, NoMac}
  BY DEF HasOwnLabels
<1>1. \A k \in DOMAIN found : /\ w[k] \in Online /\ found[k].ip = hw[w[k]].ip /\ found[k].mac \in {w[k], NoMac}
                             /\ Says(w[k], found[k].devices)
  BY DEF IsScan, FoundOf
<1>2. CASE i \notin DOMAIN doc
  <2>1. PICK k \in DOMAIN found : k = src[i]
    BY <1>2 DEF IsMerge
  <2>2. /\ d \in DOMAIN found[k].devices /\ new[i].devices[d] = found[k].devices[d]
        /\ w[k] = new[i].mac
    BY <1>1, <1>2, <2>1 DEF IsMerge
  <2> QED
    BY <1>1, <2>2 DEF Says
<1>3. CASE i \in DOMAIN doc /\ src[i] = 0
  BY <1>3 DEF IsMerge, HasOwnLabels
<1>4. CASE i \in DOMAIN doc /\ src[i] # 0
  <2>1. PICK k \in DOMAIN found : k = src[i]
    BY <1>4 DEF IsMerge
  <2>2. /\ Matches(doc[i], found[k])
        /\ new[i].mac = IF doc[i].mac = NoMac THEN found[k].mac ELSE doc[i].mac
        /\ doc[i].type = "input" => new[i].devices = doc[i].devices
        /\ doc[i].type # "input" => SyncOK(doc[i].devices, found[k].devices, new[i].devices)
    BY <1>4, <2>1 DEF IsMerge
  <2>3. \A e \in DOMAIN doc[i].devices :
          doc[i].devices[e].label = Blank \/ doc[i].devices[e].label[2] \in {new[i].mac, NoMac}
    <3>1. CASE doc[i].mac # NoMac
      BY <1>4, <2>2, <3>1 DEF HasOwnLabels
    <3>2. CASE doc[i].mac = NoMac
      <4>1. w[k] = new[i].mac /\ doc[i].ip = hw[w[k]].ip
        BY <1>1, <2>2, <3>2 DEF Matches
      <4>2. \A e \in DOMAIN doc[i].devices : doc[i].devices[e].label \in OwnLabels(w[k])
        BY <1>1, <1>4, <3>2, <4>1, InPlace
      <4> QED
        BY <4>1, <4>2 DEF OwnLabels
    <3> QED
      BY <3>1, <3>2
  <2>4. CASE doc[i].type = "input"
    BY <2>2, <2>3, <2>4
  <2>5. CASE doc[i].type # "input"
    <3>1. \/ d \in DOMAIN doc[i].devices /\ new[i].devices[d].label = doc[i].devices[d].label
          \/ d \in DOMAIN found[k].devices /\ new[i].devices[d].label = found[k].devices[d].label
      BY <2>2, <2>5 DEF SyncOK
    <3>2. CASE d \in DOMAIN doc[i].devices /\ new[i].devices[d].label = doc[i].devices[d].label
      BY <2>3, <3>2
    <3>3. CASE d \in DOMAIN found[k].devices /\ new[i].devices[d].label = found[k].devices[d].label
      <4>1. new[i].devices[d].label \in {Blank, <<"wire", w[k]>>}
        BY <1>1, <3>3 DEF Says
      <4>2. w[k] = new[i].mac
        BY <1>1, <2>2, OnlineApart DEF Matches
      <4> QED
        BY <4>1, <4>2
    <3> QED
      BY <3>1, <3>2, <3>3
  <2> QED
    BY <2>4, <2>5
<1> QED
  BY <1>2, <1>3, <1>4

\* The document of the first sweep.
LEMMA DraftIs ==
  ASSUME IsHardware(hw), NEW found, NEW n, NEW w, IsScan(found, n, w)
  PROVE  /\ Drafted(found) \in InstallationConfig /\ Loads(Drafted(found))
         /\ HasOwnLabels(Drafted(found))
<1> DEFINE S == {k \in DOMAIN found : IsLoadable(found[k])}
           new == Drafted(found)
<1>1. new = Entries(found, S) /\ S \in SUBSET DOMAIN found /\ \A k \in S : IsLoadable(found[k])
  BY DEF Drafted
<1>2. /\ new \in InstallationConfig
      /\ \E src \in [DOMAIN new -> S] :
              /\ \A i, j \in DOMAIN new : src[i] = src[j] => i = j
              /\ \A i \in DOMAIN new : new[i] = Entry(found[src[i]])
  <2> HIDE DEF S
  <2> QED
    BY <1>1, EntriesAre
<1>3. PICK src \in [DOMAIN new -> S] :
              /\ \A i, j \in DOMAIN new : src[i] = src[j] => i = j
              /\ \A i \in DOMAIN new : new[i] = Entry(found[src[i]])
  BY <1>2
<1> HIDE DEF new
<1>4. ASSUME NEW i \in DOMAIN new
      PROVE  /\ src[i] \in DOMAIN found /\ w[src[i]] \in Online /\ w[src[i]] # NoMac
             /\ new[i].mac \in {w[src[i]], NoMac} /\ new[i].ip = hw[w[src[i]]].ip
             /\ new[i].type \in Types /\ (new[i].type = "input" => DOMAIN new[i].devices = {})
             /\ Says(w[src[i]], new[i].devices)
  <2>1. PICK k \in DOMAIN found : k = src[i] /\ IsLoadable(found[k])
    BY <1>3
  <2>2. PICK m \in Online : m = w[k] /\ FoundOf(found[k], m)
    BY DEF IsScan
  <2>3. PICK f : f = found[k]
    OBVIOUS
  <2>4. /\ Entry(f).mac = f.mac /\ Entry(f).ip = f.ip /\ Entry(f).type = f.type
        /\ Entry(f).type = "input" => DOMAIN Entry(f).devices = {}
        /\ Says(m, Entry(f).devices)
    BY <2>1, <2>2, <2>3, EntryIs
  <2>5. new[i] = Entry(f)
    BY <1>3, <2>1, <2>3
  <2> QED
    BY <2>1, <2>2, <2>3, <2>4, <2>5, OnlineApart DEF FoundOf, IsLoadable
<1>5. ASSUME NEW i \in DOMAIN new, NEW j \in DOMAIN new, w[src[i]] = w[src[j]] PROVE i = j
  <2>1. src[i] = src[j]
    BY <1>4, <1>5 DEF IsScan
  <2> QED
    BY <1>3, <2>1
<1>6. \A i, j \in DOMAIN new : i # j =>
        new[i].ip # new[j].ip /\ (new[i].mac = new[j].mac => new[i].mac = NoMac)
  BY <1>4, <1>5, OnlineApart
<1>7. Loads(new)
  BY <1>4, <1>6 DEF Loads
<1>8. HasOwnLabels(new)
  BY <1>4 DEF HasOwnLabels, Says
<1> QED
  BY <1>2, <1>7, <1>8 DEF new

-----------------------------------------------------------------------------
(***************************************************************************)
(* What the gateway keeps of a document, and what it reads for one.        *)
(***************************************************************************)

\* Every module of a document that loads is registered as its kind.
LEMMA RegisteredIs ==
  ASSUME NEW doc \in InstallationConfig, Loads(doc), NEW old \in [Ips -> Types \cup {"none"}]
  PROVE  /\ Registered(doc, old) \in [Ips -> Types \cup {"none"}]
         /\ \A i \in DOMAIN doc : Registered(doc, old)[doc[i].ip] = doc[i].type
<1> DEFINE at(ip) == CHOOSE i \in AtIp(doc, ip) : TRUE
           new == Registered(doc, old)
<1>1. \A ip \in Ips : AtIp(doc, ip) # {} => at(ip) \in DOMAIN doc /\ doc[at(ip)].ip = ip
  BY DEF AtIp
<1>2. /\ DOMAIN new = Ips /\ new = [ip \in DOMAIN new |-> new[ip]]
      /\ \A ip \in Ips : new[ip] = IF AtIp(doc, ip) = {} THEN old[ip] ELSE doc[at(ip)].type
  BY DEF Registered
<1> HIDE DEF at, new
<1>3. \A ip \in Ips : new[ip] \in Types \cup {"none"}
  BY <1>1, <1>2, DocumentIs
<1>4. ASSUME NEW i \in DOMAIN doc PROVE new[doc[i].ip] = doc[i].type
  <2>1. doc[i].ip \in Ips /\ AtIp(doc, doc[i].ip) # {}
    BY DocumentIs DEF AtIp
  <2>2. at(doc[i].ip) = i
    BY <1>1, <2>1 DEF Loads
  <2> QED
    BY <1>2, <2>1, <2>2
<1> QED
  BY <1>2, <1>3, <1>4 DEF new

\* Who answers at an address of a document.
LEMMA AnswersAre ==
  ASSUME NEW doc \in InstallationConfig, NEW i \in DOMAIN doc, NEW silent,
         NEW n \in Answers(doc[i].ip, silent)
  PROVE  /\ n \in Online /\ n \in Macs /\ doc[i].ip = hw[n].ip
         /\ ~Mixes(doc) => doc[i].mac \in {n, NoMac}
<1>1. n \in Macs /\ doc[i].ip = hw[n].ip
  BY DEF Answers
<1>2. n \in Online
  BY <1>1, DocumentIs, HardwareAssumption DEF Online
<1>3. ~Mixes(doc) => doc[i].mac \in {n, NoMac}
  BY <1>1, <1>2, InPlace
<1> QED
  BY <1>1, <1>2, <1>3

\* The cache after a refresh: what it holds of a module is nothing, what it
\* held, or the buttons of the module at the address that the document has.
LEMMA RefreshedIs ==
  ASSUME IsHardware(hw), meta \in [Macs -> Devices(Buttons)],
         NEW doc \in InstallationConfig, NEW silent, NEW mute
  PROVE  LET new == Refreshed(doc, silent, mute) IN
         /\ new \in [Macs -> Devices(Buttons)]
         /\ \A m \in Macs :
              \/ new[m] = NoDevices
              \/ new[m] = meta[m]
              \/ \E n \in InputMacs : new[m] = ButtonsOf(n) /\ (~Mixes(doc) => n = m)
<1> DEFINE at(m) == CHOOSE i \in WithMac(doc, m) : TRUE
           there(m) == Answers(doc[at(m)].ip, silent)
           who(m) == CHOOSE n \in there(m) : TRUE
           new == Refreshed(doc, silent, mute)
           one(m) == IF WithMac(doc, m) = {} THEN NoDevices
                     ELSE IF doc[at(m)].type # "input" THEN NoDevices
                     ELSE IF there(m) = {} THEN meta[m]
                     ELSE IF there(m) \subseteq InputMacs \ mute THEN ButtonsOf(who(m)) ELSE NoDevices
<1>1. new = [m \in Macs |-> one(m)]
  BY DEF Refreshed
<1>2. \A m \in Macs : WithMac(doc, m) # {} => at(m) \in DOMAIN doc /\ doc[at(m)].mac = m
  BY DEF WithMac
<1>3. \A m \in Macs : there(m) # {} => who(m) \in there(m)
  BY Zenon
<1>4. ASSUME NEW m \in Macs, WithMac(doc, m) # {}, there(m) # {}, there(m) \subseteq InputMacs \ mute
      PROVE  who(m) \in InputMacs /\ (~Mixes(doc) => who(m) = m)
  <2>1. at(m) \in DOMAIN doc /\ doc[at(m)].mac = m /\ who(m) \in there(m)
    BY <1>2, <1>3, <1>4
  <2> HIDE DEF at, who
  <2>2. ~Mixes(doc) => doc[at(m)].mac \in {who(m), NoMac}
    BY <2>1, AnswersAre
  <2> QED
    BY <1>4, <2>1, <2>2, NoMacAssumption
<1> HIDE DEF at, there, who, new
<1>5. ASSUME NEW m \in Macs
      PROVE  \/ one(m) = NoDevices
             \/ one(m) = meta[m]
             \/ \E n \in InputMacs : one(m) = ButtonsOf(n) /\ (~Mixes(doc) => n = m)
  BY <1>4, Zenon
<1> HIDE DEF one
<1>6. \A m \in Macs : one(m) \in Devices(Buttons)
  BY <1>5, NoDevicesAre, ButtonsAre
<1>7. new \in [Macs -> Devices(Buttons)]
  BY <1>1, <1>6
<1> QED
  BY <1>1, <1>5, <1>7 DEF new

LEMMA ChannelsReadIs ==
  ASSUME NEW doc \in InstallationConfig, NEW silent
  PROVE  LET new == ChannelsRead(doc, silent) IN
         /\ new \in [Macs -> Devices(Channels)]
         /\ ~Mixes(doc) => \A m \in Macs : Says(m, new[m])
<1> DEFINE at(m) == UNION {Answers(doc[i].ip, silent) : i \in WithMac(doc, m)} \ InputMacs
           who(m) == CHOOSE n \in at(m) : TRUE
           new == ChannelsRead(doc, silent)
           one(m) == IF at(m) = {} THEN NoDevices ELSE ChannelsOf(who(m))
<1>1. new = [m \in Macs |-> one(m)]
  BY DEF ChannelsRead
<1>2. ASSUME NEW m \in Macs, at(m) # {}
      PROVE  who(m) \in Macs /\ (~Mixes(doc) => who(m) = m)
  <2>1. who(m) \in at(m)
    BY <1>2, Zenon
  <2>2. PICK i \in WithMac(doc, m) : who(m) \in Answers(doc[i].ip, silent)
    BY <2>1
  <2>3. i \in DOMAIN doc /\ doc[i].mac = m
    BY <2>2 DEF WithMac
  <2> HIDE DEF who
  <2> QED
    BY <2>2, <2>3, AnswersAre, NoMacAssumption
<1> HIDE DEF at, who, new
<1>3. \A m \in Macs : one(m) \in Devices(Channels) /\ (~Mixes(doc) => Says(m, one(m)))
  <2> TAKE m \in Macs
  <2>1. CASE at(m) = {}
    <3>1. NoDevices \in Devices(Channels) /\ Says(m, NoDevices)
      BY NoDevicesAre DEF Says
    <3> QED
      BY <2>1, <3>1
  <2>2. CASE at(m) # {}
    BY <1>2, <2>2, ChannelsAre
  <2> QED
    BY <2>1, <2>2
<1> HIDE DEF one
<1> QED
  BY <1>1, <1>3 DEF new

\* A document holds the operator's labels in it.
LEMMA OperatorLabelsAreHeld ==
  ASSUME NEW doc \in InstallationConfig
  PROVE  HoldsEdits(OperatorLabels(doc), doc)
<1>1. doc # None
  BY DocumentIs
<1>2. ASSUME NEW e \in OperatorLabels(doc)
      PROVE  \E i \in WithMac(doc, e[1]) :
               /\ e[2] \in DOMAIN doc[i].devices
               /\ IsOperators(doc[i].devices[e[2]].label)
               /\ e[2] \in Buttons => doc[i].devices[e[2]].active = e[3]
  <2>1. PICK i \in DOMAIN doc : doc[i].mac # NoMac /\
          \E d \in DOMAIN doc[i].devices :
            doc[i].devices[d].label = <<"operator", doc[i].mac>> /\ e = <<doc[i].mac, d, doc[i].devices[d].active>>
    BY Zenon DEF OperatorLabels
  <2>2. PICK d \in DOMAIN doc[i].devices :
            doc[i].devices[d].label = <<"operator", doc[i].mac>> /\ e = <<doc[i].mac, d, doc[i].devices[d].active>>
    BY <2>1
  <2>3. e[1] = doc[i].mac /\ e[2] = d /\ e[3] = doc[i].devices[d].active
    BY <2>2
  <2>4. IsOperators(doc[i].devices[d].label)
    BY <2>2 DEF IsOperators, Blank
  <2> QED
    BY <2>1, <2>3, <2>4 DEF WithMac
<1> QED
  BY <1>1, <1>2 DEF HoldsEdits

-----------------------------------------------------------------------------
(***************************************************************************)
(* The file and the memory, whatever the hardware does.                    *)
(***************************************************************************)

Stages == {"idle", "queued", "written", "refreshing", "persisting", "persisted", "channels",
           "fetching", "storing", "stored", "scanning", "merging", "done"}

IsDocument(doc) == doc = None \/ doc \in InstallationConfig

InstallationTypeOK ==
  /\ phase \in {"down", "starting", "up"}
  /\ IsDocument(file) /\ IsDocument(runtime) /\ IsDocument(known)
  /\ registered \in [Ips -> Types \cup {"none"}]
  /\ meta \in [Macs -> Devices(Buttons)]
  /\ pc \in [Calls -> Stages]
  /\ arg = [c \in Calls |-> arg[c]]
  /\ merging # None => merging.doc \in InstallationConfig
  /\ IsHardware(hw)

\* What a call holds.
Holds(c) ==
  /\ c \in Patches /\ pc[c] = "queued" =>
       arg[c] \in [ip : Ips, id : Channels \cup Buttons, label : {"operator"} \X (Macs \cup {NoMac})]
  /\ c \in Imports /\ pc[c] = "queued" =>
       arg[c] \in InstallationConfig /\ Loads(arg[c]) /\ HasOwnLabels(arg[c])
  /\ pc[c] \in {"refreshing", "fetching"} => arg[c] \in InstallationConfig
  /\ pc[c] = "storing" => arg[c] \in [Macs -> Devices(Channels)]
  /\ pc[c] \in {"refreshing", "persisting", "persisted", "channels"} => runtime # None

\* Calls run while the process is up, and it starts with what the file holds.
PhaseOK ==
  /\ phase # "up" => merging = None /\ \A c \in Calls : pc[c] \in {"idle", "done"}
  /\ phase = "down" => meta = NoMeta /\ runtime = None /\ known = None
  /\ phase = "starting" => known = runtime /\ pc[Boot] = "idle" /\ (Load(file) # None => runtime = file)

\* What is served was loaded.
MemoryOK == (runtime # None => Loads(runtime)) /\ (known # None => Loads(known))

\* The modules of what is served and of what will be are registered.
KnownAs(doc) == \A i \in DOMAIN doc : registered[doc[i].ip] = doc[i].type
ServedOK ==
  phase # "down" /\ ~imported =>
    (runtime # None => KnownAs(runtime)) /\ (Load(file) # None => KnownAs(file))

Core ==
  /\ InstallationTypeOK
  /\ \A c \in Calls : Holds(c)
  /\ PhaseOK /\ MemoryOK /\ ServedOK /\ RuntimeFollowsFile

\* InstallationConfig.load gives the file or raises.
LEMMA LoadIs ==
  ASSUME NEW doc
  PROVE  /\ Load(doc) # None => doc # None /\ Loads(doc) /\ Load(doc) = doc
         /\ Load(doc) = None => doc = None \/ ~Loads(doc)
         /\ Load(doc) = None \/ Load(doc) = doc
BY DEF Load

LEMMA EmptyIs ==
  /\ <<>> \in InstallationConfig /\ DOMAIN <<>> = {} /\ Loads(<<>>) /\ <<>> # None
  /\ HasOwnLabels(<<>>) /\ Load(<<>>) = <<>>
<1>1. <<>> \in Seq(ModuleConfig) /\ DOMAIN <<>> = {}
  OBVIOUS
<1>2. <<>> \in InstallationConfig
  BY <1>1 DEF InstallationConfig
<1>3. Loads(<<>>) /\ HasOwnLabels(<<>>) /\ <<>> # None
  BY <1>1, <1>2, NoneAssumption DEF Loads, HasOwnLabels
<1> QED
  BY <1>1, <1>2, <1>3 DEF Load

\* No call is two calls.
LEMMA CallIs ==
  ASSUME NEW c \in Calls
  PROVE  /\ c \in Patches => c \notin Imports /\ c # Boot /\ c \notin Discoveries /\ c \notin Refreshes
         /\ c \in Imports => c \notin Patches /\ c # Boot /\ c \notin Discoveries /\ c \notin Refreshes
         /\ c \in Discoveries => c \notin Patches /\ c \notin Imports /\ c # Boot
         /\ c \in Refreshes => c \notin Patches /\ c \notin Imports /\ c # Boot
         /\ c = Boot => c \notin Patches /\ c \notin Imports
         /\ Boot \in Calls /\ Patches \subseteq Calls /\ Imports \subseteq Calls
BY CallsAssumption DEF Calls

\* A call that goes on leaves the others where they are.
LEMMA OthersStay ==
  ASSUME InstallationTypeOK, NEW c \in Calls, NEW from, NEW to, Go(c, from, to),
         arg' = arg \/ \E v : Keep(c, v)
  PROVE  /\ to \in Stages => pc' \in [Calls -> Stages]
         /\ arg' = [o \in Calls |-> arg'[o]]
         /\ pc[c] = from /\ pc'[c] = to
         /\ \A v : Keep(c, v) => arg'[c] = v
         /\ \A o \in Calls \ {c} : pc'[o] = pc[o] /\ arg'[o] = arg[o]
<1>1. pc \in [Calls -> Stages] /\ arg = [o \in Calls |-> arg[o]]
  BY DEF InstallationTypeOK
<1>2. pc[c] = from /\ pc' = [pc EXCEPT ![c] = to]
  BY DEF Go
<1>3. /\ to \in Stages => pc' \in [Calls -> Stages]
      /\ pc[c] = from /\ pc'[c] = to /\ \A o \in Calls \ {c} : pc'[o] = pc[o]
  BY <1>1, <1>2
<1>4. ASSUME NEW v, Keep(c, v)
      PROVE  arg'[c] = v /\ arg' = [o \in Calls |-> arg'[o]] /\ \A o \in Calls \ {c} : arg'[o] = arg[o]
  <2>1. arg' = [arg EXCEPT ![c] = v]
    BY <1>4 DEF Keep
  <2> QED
    BY <1>1, <2>1
<1> QED
  BY <1>1, <1>3, <1>4

\* What the other calls hold, they still hold.
LEMMA OthersHold ==
  ASSUME NEW c \in Calls, \A o \in Calls : Holds(o), runtime # None => runtime' # None,
         \A o \in Calls \ {c} : pc'[o] = pc[o] /\ arg'[o] = arg[o],
         Holds(c)'
  PROVE  \A o \in Calls : Holds(o)'
<1> TAKE o \in Calls
<1>1. CASE o = c
  BY <1>1
<1>2. CASE o # c
  BY <1>2 DEF Holds
<1> QED
  BY <1>1, <1>2

\* A call goes on; the document in the file and those in memory stay.
LEMMA CallGoesOn ==
  ASSUME Core, NEW c \in Calls, NEW from, NEW to \in Stages, Go(c, from, to),
         arg' = arg \/ \E v : Keep(c, v),
         phase = "up", from \notin {"written", "persisted", "stored"}, Holds(c)',
         meta' \in [Macs -> Devices(Buttons)],
         merging' = merging \/ (merging = None /\ merging'.doc \in InstallationConfig),
         UNCHANGED <<phase, file, runtime, known, registered, hw, imported>>
  PROVE  Core'
<1>1. /\ pc' \in [Calls -> Stages] /\ arg' = [o \in Calls |-> arg'[o]] /\ pc[c] = from
      /\ \A o \in Calls \ {c} : pc'[o] = pc[o] /\ arg'[o] = arg[o]
  BY OthersStay DEF Core
<1>2. InstallationTypeOK'
  <2>1. /\ IsDocument(file) /\ IsDocument(runtime) /\ IsDocument(known) /\ IsHardware(hw)
        /\ registered \in [Ips -> Types \cup {"none"}] /\ phase \in {"down", "starting", "up"}
        /\ merging # None => merging.doc \in InstallationConfig
    BY DEF Core, InstallationTypeOK
  <2> QED
    BY <1>1, <2>1 DEF InstallationTypeOK, IsHardware
<1>3. \A o \in Calls : Holds(o)'
  <2>1. \A o \in Calls : Holds(o)
    BY DEF Core
  <2> QED
    BY <1>1, <2>1, OthersHold
<1>4. PhaseOK' /\ MemoryOK' /\ ServedOK'
  BY DEF Core, PhaseOK, MemoryOK, ServedOK, KnownAs
<1>5. RuntimeFollowsFile'
  <2> SUFFICES ASSUME merging' = None, Load(file) # None,
                      \A o \in Calls : pc'[o] \notin {"written", "persisted", "stored"}
               PROVE  runtime = file \/ (runtime = None /\ file = <<>>)
    BY DEF RuntimeFollowsFile
  <2>1. \A o \in Calls : pc[o] \notin {"written", "persisted", "stored"}
    BY <1>1
  <2> QED
    BY <2>1 DEF Core, RuntimeFollowsFile
<1> QED
  BY <1>2, <1>3, <1>4, <1>5 DEF Core

\* A call reloads the file.
LEMMA CallReloads ==
  ASSUME Core, NEW c \in Calls, NEW from, NEW to \in Stages, Go(c, from, to), arg' = arg,
         phase = "up", Holds(c)', runtime' = Reloaded,
         meta' \in [Macs -> Devices(Buttons)],
         UNCHANGED <<phase, file, known, registered, merging, hw, imported>>
  PROVE  Core'
<1>1. /\ pc' \in [Calls -> Stages] /\ arg' = [o \in Calls |-> arg'[o]]
      /\ \A o \in Calls \ {c} : pc'[o] = pc[o] /\ arg'[o] = arg[o]
  BY OthersStay DEF Core
<1>2. \/ Load(file) = None /\ runtime' = runtime
      \/ Load(file) # None /\ runtime' = file /\ file # None /\ Loads(file)
  BY LoadIs DEF Reloaded
<1>3. InstallationTypeOK'
  <2>1. /\ IsDocument(file) /\ IsDocument(runtime) /\ IsDocument(known) /\ IsHardware(hw)
        /\ registered \in [Ips -> Types \cup {"none"}] /\ phase \in {"down", "starting", "up"}
        /\ merging # None => merging.doc \in InstallationConfig
    BY DEF Core, InstallationTypeOK
  <2> QED
    BY <1>1, <1>2, <2>1 DEF InstallationTypeOK, IsHardware
<1>4. \A o \in Calls : Holds(o)'
  <2>1. \A o \in Calls : Holds(o)
    BY DEF Core
  <2> QED
    BY <1>1, <1>2, <2>1, OthersHold
<1>5. PhaseOK' /\ MemoryOK' /\ ServedOK'
  BY <1>2 DEF Core, PhaseOK, MemoryOK, ServedOK, KnownAs
<1>6. RuntimeFollowsFile'
  BY <1>2 DEF RuntimeFollowsFile
<1> QED
  BY <1>3, <1>4, <1>5, <1>6 DEF Core

\* A call writes the file, and will reload it.
LEMMA CallWrites ==
  ASSUME Core, NEW c \in Calls, NEW from, NEW to \in {"written", "persisted", "stored"}, Go(c, from, to),
         arg' = arg \/ \E v : Keep(c, v),
         phase = "up", Holds(c)', file' \in InstallationConfig,
         imported' \/ (imported' = imported /\ Load(file) # None /\ SameModules(file, file')),
         UNCHANGED <<phase, runtime, known, registered, meta, merging, hw>>
  PROVE  Core'
<1>1. /\ pc' \in [Calls -> Stages] /\ arg' = [o \in Calls |-> arg'[o]] /\ pc'[c] = to
      /\ \A o \in Calls \ {c} : pc'[o] = pc[o] /\ arg'[o] = arg[o]
  BY OthersStay DEF Core, Stages
<1>2. InstallationTypeOK'
  <2>1. /\ IsDocument(runtime) /\ IsDocument(known) /\ IsHardware(hw)
        /\ registered \in [Ips -> Types \cup {"none"}] /\ phase \in {"down", "starting", "up"}
        /\ meta \in [Macs -> Devices(Buttons)]
        /\ merging # None => merging.doc \in InstallationConfig
    BY DEF Core, InstallationTypeOK
  <2> QED
    BY <1>1, <2>1 DEF InstallationTypeOK, IsHardware, IsDocument
<1>3. \A o \in Calls : Holds(o)'
  <2>1. \A o \in Calls : Holds(o)
    BY DEF Core
  <2> QED
    BY <1>1, <2>1, OthersHold
<1>4. PhaseOK' /\ MemoryOK'
  BY DEF Core, PhaseOK, MemoryOK
<1>5. ServedOK'
  BY DEF Core, ServedOK, KnownAs, SameModules
<1>6. RuntimeFollowsFile'
  BY <1>1 DEF RuntimeFollowsFile
<1> QED
  BY <1>2, <1>3, <1>4, <1>5, <1>6 DEF Core

\* The hardware changes.
LEMMA CoreChange ==
  ASSUME Core, IsHardware(hw'),
         UNCHANGED <<phase, file, memory, calls, imported>>
  PROVE  Core'
<1>1. UNCHANGED <<phase, file, runtime, known, registered, meta, pc, arg, merging, imported>>
  BY DEF memory, calls
<1>2. /\ IsDocument(file) /\ IsDocument(runtime) /\ IsDocument(known)
      /\ registered \in [Ips -> Types \cup {"none"}] /\ phase \in {"down", "starting", "up"}
      /\ meta \in [Macs -> Devices(Buttons)] /\ pc \in [Calls -> Stages] /\ arg = [c \in Calls |-> arg[c]]
      /\ merging # None => merging.doc \in InstallationConfig
  BY DEF Core, InstallationTypeOK
<1>3. InstallationTypeOK'
  BY <1>1, <1>2 DEF InstallationTypeOK, IsHardware, IsDocument
<1>4. (\A c \in Calls : Holds(c))' /\ PhaseOK' /\ MemoryOK' /\ ServedOK' /\ RuntimeFollowsFile'
  BY <1>1 DEF Core, Holds, PhaseOK, MemoryOK, ServedOK, KnownAs, RuntimeFollowsFile
<1> QED
  BY <1>3, <1>4 DEF Core

\* What the invariant says of the values.
LEMMA CoreParts ==
  ASSUME Core
  PROVE  /\ IsHardware(hw) /\ meta \in [Macs -> Devices(Buttons)]
         /\ registered \in [Ips -> Types \cup {"none"}]
         /\ \A c \in Calls : Holds(c)
         /\ file # None => file \in InstallationConfig
         /\ runtime # None => runtime \in InstallationConfig /\ Loads(runtime)
         /\ known # None => known \in InstallationConfig /\ Loads(known)
         /\ Load(file) # None => file # None /\ file \in InstallationConfig /\ Loads(file) /\ Load(file) = file
         /\ merging # None => merging.doc \in InstallationConfig
BY LoadIs DEF Core, InstallationTypeOK, IsDocument, MemoryOK

\* What a PATCH writes.
LEMMA PatchWriteIs ==
  ASSUME Core, NEW c \in Patches, PatchWrite(c)
  PROVE  /\ Load(file) # None /\ file' \in InstallationConfig
         /\ arg[c] \in [ip : Ips, id : Channels \cup Buttons, label : {"operator"} \X (Macs \cup {NoMac})]
         /\ \E i \in PatchTargets(file, arg[c].ip, arg[c].id) :
              /\ i \in DOMAIN file /\ arg[c].id \in DOMAIN file[i].devices
              /\ file' = Patched(file, i, arg[c].id, arg[c].label)
              /\ edits' = IF file[i].mac = NoMac THEN edits
                          ELSE {e \in edits : ~(e[1] = file[i].mac /\ e[2] = arg[c].id)}
                                 \cup {<<file[i].mac, arg[c].id, FALSE>>}
              /\ SameModules(file, file')
<1>1. c \in Calls /\ pc[c] = "queued" /\ Load(file) # None
  BY CallIs DEF PatchWrite, Go, Calls
<1>2. arg[c] \in [ip : Ips, id : Channels \cup Buttons, label : {"operator"} \X (Macs \cup {NoMac})]
  BY <1>1, CoreParts DEF Holds
<1>3. PICK i \in PatchTargets(file, arg[c].ip, arg[c].id) :
        /\ file' = Patched(file, i, arg[c].id, arg[c].label)
        /\ edits' = IF file[i].mac = NoMac THEN edits
                    ELSE {e \in edits : ~(e[1] = file[i].mac /\ e[2] = arg[c].id)}
                           \cup {<<file[i].mac, arg[c].id, FALSE>>}
  BY DEF PatchWrite
<1>4. i \in DOMAIN file /\ arg[c].id \in DOMAIN file[i].devices
  BY DEF PatchTargets, WithButton, AtIp
<1>5. file \in InstallationConfig
  BY <1>1, CoreParts
<1>6. arg[c].label \in Labels
  BY <1>2 DEF Labels
<1>7. SameModules(file, Patched(file, i, arg[c].id, arg[c].label))
  BY <1>4, <1>5, <1>6, PatchedIs
<1> QED
  BY <1>1, <1>2, <1>3, <1>4, <1>7 DEF SameModules

\* Each group of steps keeps it.
LEMMA CorePatch ==
  ASSUME Core, NEW c \in Patches,
         \/ \E i \in 1 .. Cardinality(Ips), d \in Channels \cup Buttons : Patch(c, i, d)
         \/ PatchWrite(c) \/ PatchFails(c) \/ PatchReload(c)
  PROVE  Core'
<1> c \in Calls /\ c \notin Imports
  BY CallIs DEF Calls
<1>1. ASSUME NEW i \in 1 .. Cardinality(Ips), NEW d \in Channels \cup Buttons, Patch(c, i, d) PROVE Core'
  <2> DEFINE a == [ip |-> runtime[i].ip, id |-> d, label |-> <<"operator", runtime[i].mac>>]
  <2>1. /\ Go(c, "idle", "queued") /\ Keep(c, a) /\ phase = "up"
        /\ UNCHANGED <<phase, file, runtime, known, registered, meta, hw, imported, merging>>
        /\ runtime # None /\ i \in DOMAIN runtime
    BY <1>1 DEF Patch, MayStart, OnLoop, memory
  <2>2. a \in [ip : Ips, id : Channels \cup Buttons, label : {"operator"} \X (Macs \cup {NoMac})]
    BY <2>1, CoreParts, DocumentIs
  <2>3. arg'[c] = a /\ pc'[c] = "queued"
    BY <2>1, OthersStay DEF Core
  <2>4. Holds(c)'
    BY <2>2, <2>3 DEF Holds
  <2>5. meta' \in [Macs -> Devices(Buttons)]
    BY <2>1, CoreParts
  <2> QED
    BY <2>1, <2>4, <2>5, CallGoesOn DEF Stages
<1>2. CASE PatchWrite(c)
  <2>1. /\ Go(c, "queued", "written") /\ Keep(c, None) /\ phase = "up"
        /\ UNCHANGED <<phase, runtime, known, registered, meta, merging, hw, imported>>
    BY <1>2 DEF PatchWrite, OnWorker, Drop, memory
  <2>2. Load(file) # None /\ file' \in InstallationConfig /\ SameModules(file, file')
    BY <1>2, PatchWriteIs
  <2>3. pc'[c] = "written"
    BY <2>1, OthersStay DEF Core
  <2>4. Holds(c)'
    BY <2>3 DEF Holds
  <2> QED
    BY <2>1, <2>2, <2>4, CallWrites
<1>3. CASE PatchFails(c)
  <2>1. /\ Go(c, "queued", "done") /\ Keep(c, None) /\ phase = "up"
        /\ UNCHANGED <<phase, file, runtime, known, registered, meta, merging, hw, imported>>
    BY <1>3 DEF PatchFails, OnWorker, Drop, memory
  <2>2. pc'[c] = "done"
    BY <2>1, OthersStay DEF Core
  <2>3. Holds(c)' /\ meta' \in [Macs -> Devices(Buttons)]
    BY <2>1, <2>2, CoreParts DEF Holds
  <2> QED
    BY <2>1, <2>3, CallGoesOn DEF Stages
<1>4. CASE PatchReload(c)
  <2>1. /\ Go(c, "written", "done") /\ phase = "up" /\ runtime' = Reloaded /\ arg' = arg
        /\ UNCHANGED <<phase, file, known, registered, meta, merging, hw, imported>>
    BY <1>4 DEF PatchReload, OnLoop
  <2>2. pc'[c] = "done"
    BY <2>1, OthersStay DEF Core
  <2>3. Holds(c)' /\ meta' \in [Macs -> Devices(Buttons)]
    BY <2>1, <2>2, CoreParts DEF Holds
  <2> QED
    BY <2>1, <2>3, CallReloads DEF Stages
<1> QED
  BY <1>1, <1>2, <1>3, <1>4

LEMMA NoMetaIs == NoMeta \in [Macs -> Devices(Buttons)] /\ \A m \in Macs : NoMeta[m] = NoDevices
BY NoDevicesAre DEF NoMeta

LEMMA CoreImport ==
  ASSUME Core, NEW c \in Imports,
         \/ \E doc \in Importable \cup {<<>>} : Import(c, doc)
         \/ ImportWrite(c) \/ ImportFails(c) \/ ImportReload(c)
  PROVE  Core'
<1> c \in Calls /\ c \notin Patches
  BY CallIs DEF Calls
<1>1. ASSUME NEW doc \in Importable \cup {<<>>}, Import(c, doc) PROVE Core'
  <2>1. /\ Go(c, "idle", "queued") /\ Keep(c, doc) /\ phase = "up" /\ Loads(doc)
        /\ UNCHANGED <<phase, file, runtime, known, registered, meta, hw, imported, merging>>
    BY <1>1 DEF Import, MayStart, OnLoop, memory
  <2>2. doc \in InstallationConfig /\ HasOwnLabels(doc)
    BY EmptyIs, DocumentsAssumption, OwnLabelsAssumption
  <2>3. arg'[c] = doc /\ pc'[c] = "queued"
    BY <2>1, OthersStay DEF Core
  <2>4. Holds(c)'
    BY <2>1, <2>2, <2>3 DEF Holds, Loads, HasOwnLabels
  <2>5. meta' \in [Macs -> Devices(Buttons)]
    BY <2>1, CoreParts
  <2> QED
    BY <2>1, <2>4, <2>5, CallGoesOn DEF Stages
<1>2. CASE ImportWrite(c)
  <2>1. /\ Go(c, "queued", "written") /\ Keep(c, None) /\ phase = "up" /\ file' = arg[c] /\ imported'
        /\ UNCHANGED <<phase, runtime, known, registered, meta, merging, hw>>
    BY <1>2 DEF ImportWrite, OnWorker, Drop, memory
  <2>2. pc'[c] = "written" /\ pc[c] = "queued"
    BY <2>1, OthersStay DEF Core
  <2>3. file' \in InstallationConfig
    BY <2>1, <2>2, CoreParts DEF Holds
  <2>4. Holds(c)'
    BY <2>2 DEF Holds
  <2> QED
    BY <2>1, <2>3, <2>4, CallWrites
<1>3. CASE ImportFails(c)
  <2>1. /\ Go(c, "queued", "done") /\ Keep(c, None) /\ phase = "up"
        /\ UNCHANGED <<phase, file, runtime, known, registered, meta, merging, hw, imported>>
    BY <1>3 DEF ImportFails, OnWorker, Drop, memory
  <2>2. pc'[c] = "done"
    BY <2>1, OthersStay DEF Core
  <2>3. Holds(c)' /\ meta' \in [Macs -> Devices(Buttons)]
    BY <2>1, <2>2, CoreParts DEF Holds
  <2> QED
    BY <2>1, <2>3, CallGoesOn DEF Stages
<1>4. CASE ImportReload(c)
  <2>1. /\ Go(c, "written", "done") /\ phase = "up" /\ runtime' = Reloaded /\ arg' = arg
        /\ meta' = IF Load(file) = None THEN meta ELSE NoMeta
        /\ UNCHANGED <<phase, file, known, registered, merging, hw, imported>>
    BY <1>4 DEF ImportReload, OnLoop
  <2>2. pc'[c] = "done"
    BY <2>1, OthersStay DEF Core
  <2>3. Holds(c)' /\ meta' \in [Macs -> Devices(Buttons)]
    BY <2>1, <2>2, CoreParts, NoMetaIs DEF Holds
  <2> QED
    BY <2>1, <2>3, CallReloads DEF Stages
<1> QED
  BY <1>1, <1>2, <1>3, <1>4

\* What the calls for the buttons and the channels write.
LEMMA PersistButtonsIs ==
  ASSUME Core, Load(file) # None, file' = WithWireButtons(file, meta)
  PROVE  /\ file' \in InstallationConfig /\ SameModules(file, file') /\ KeepsEdits(file, file')
         /\ LabelsFrom(file, file', meta)
         /\ \A i \in DOMAIN file : file[i].type = "input" =>
              DOMAIN file'[i].devices =
                DOMAIN file[i].devices \cup (IF file[i].mac = NoMac THEN {} ELSE DOMAIN meta[file[i].mac])
<1>1. file \in InstallationConfig /\ meta \in [Macs -> Devices(Buttons)]
  BY CoreParts
<1> QED
  BY <1>1, WithWireButtonsIs DEF SameModules

LEMMA StoreChannelsIs ==
  ASSUME Core, NEW c \in Calls, StoreChannels(c)
  PROVE  /\ file \in InstallationConfig /\ Loads(file) /\ Load(file) # None
         /\ file' \in InstallationConfig /\ SameModules(file, file') /\ KeepsEdits(file, file')
         /\ LabelsFrom(file, file', arg[c])
         /\ \A i \in DOMAIN file : file[i].type = "input" => file'[i] = file[i]
<1>1. pc[c] = "storing" /\ Load(file) # None /\ file' = WithWireChannels(file, arg[c])
  BY DEF StoreChannels, Go
<1>2. file \in InstallationConfig /\ Loads(file) /\ arg[c] \in [Macs -> Devices(Channels)]
  BY <1>1, CoreParts DEF Holds
<1> QED
  BY <1>1, <1>2, WithWireChannelsIs DEF SameModules

LEMMA CoreRefresh ==
  ASSUME Core, NEW c \in Calls,
         \/ c \in Refreshes /\ Refresh(c)
         \/ \E silent \in SUBSET Online, mute \in SUBSET InputMacs : CacheRefreshed(c, silent, mute)
         \/ PersistButtons(c) \/ PersistButtonsFails(c) \/ PersistButtonsReload(c)
  PROVE  Core'
<1>1. CASE c \in Refreshes /\ Refresh(c)
  <2>1. /\ Go(c, "idle", "refreshing") /\ Keep(c, runtime) /\ phase = "up" /\ runtime # None
        /\ UNCHANGED <<phase, file, runtime, known, registered, meta, hw, imported, merging>>
    BY <1>1 DEF Refresh, MayStart, OnLoop, memory
  <2>2. arg'[c] = runtime /\ pc'[c] = "refreshing" /\ runtime \in InstallationConfig
    BY <2>1, OthersStay, CoreParts DEF Core
  <2>3. Holds(c)' /\ meta' \in [Macs -> Devices(Buttons)]
    BY <2>1, <2>2, CoreParts DEF Holds
  <2> QED
    BY <2>1, <2>3, CallGoesOn DEF Stages
<1>2. ASSUME NEW silent, NEW mute, CacheRefreshed(c, silent, mute) PROVE Core'
  <2>1. /\ Go(c, "refreshing", "persisting") /\ Keep(c, None) /\ phase = "up"
        /\ meta' = Refreshed(arg[c], silent, mute)
        /\ UNCHANGED <<phase, file, runtime, known, registered, hw, imported, merging>>
    BY <1>2 DEF CacheRefreshed, OnLoop, Drop
  <2>2. pc'[c] = "persisting" /\ pc[c] = "refreshing"
    BY <2>1, OthersStay DEF Core
  <2>3. arg[c] \in InstallationConfig /\ runtime # None
    BY <2>2, CoreParts DEF Holds
  <2>4. meta' \in [Macs -> Devices(Buttons)]
    BY <2>1, <2>3, CoreParts, RefreshedIs
  <2>5. Holds(c)'
    BY <2>1, <2>2, <2>3 DEF Holds
  <2> QED
    BY <2>1, <2>4, <2>5, CallGoesOn DEF Stages
<1>3. CASE PersistButtons(c)
  <2>1. /\ Go(c, "persisting", "persisted") /\ arg' = arg /\ phase = "up"
        /\ Load(file) # None /\ file' = WithWireButtons(file, meta)
        /\ UNCHANGED <<phase, runtime, known, registered, meta, merging, hw, imported>>
    BY <1>3 DEF PersistButtons, OnWorker, memory
  <2>2. file' \in InstallationConfig /\ SameModules(file, file')
    BY <2>1, PersistButtonsIs
  <2>3. pc'[c] = "persisted" /\ pc[c] = "persisting"
    BY <2>1, OthersStay DEF Core
  <2>4. Holds(c)'
    BY <2>1, <2>3, CoreParts DEF Holds
  <2> QED
    BY <2>1, <2>2, <2>4, CallWrites
<1>4. CASE PersistButtonsFails(c)
  <2>1. /\ Go(c, "persisting", AfterButtons(c)) /\ arg' = arg /\ phase = "up"
        /\ UNCHANGED <<phase, file, runtime, known, registered, meta, merging, hw, imported>>
    BY <1>4 DEF PersistButtonsFails, OnWorker, memory
  <2>2. pc'[c] = AfterButtons(c) /\ pc[c] = "persisting" /\ AfterButtons(c) \in {"channels", "done"}
    BY <2>1, OthersStay DEF Core, AfterButtons
  <2>3. Holds(c)' /\ meta' \in [Macs -> Devices(Buttons)]
    BY <2>1, <2>2, CoreParts DEF Holds
  <2> QED
    BY <2>1, <2>2, <2>3, CallGoesOn DEF Stages
<1>5. CASE PersistButtonsReload(c)
  <2> DEFINE to == IF Load(file) = None THEN "done" ELSE AfterButtons(c)
  <2>1. /\ Go(c, "persisted", to) /\ arg' = arg /\ phase = "up" /\ runtime' = Reloaded
        /\ UNCHANGED <<phase, file, known, registered, meta, merging, hw, imported>>
    BY <1>5 DEF PersistButtonsReload, OnLoop
  <2>2. to \in {"channels", "done"}
    BY DEF AfterButtons
  <2> HIDE DEF to
  <2>3. pc'[c] = to /\ pc[c] = "persisted"
    BY <2>1, OthersStay DEF Core
  <2>4. runtime' # None
    BY <2>1, <2>3, CoreParts DEF Holds, Reloaded
  <2>5. Holds(c)' /\ meta' \in [Macs -> Devices(Buttons)]
    BY <2>1, <2>2, <2>3, <2>4, CoreParts DEF Holds
  <2> QED
    BY <2>1, <2>2, <2>5, CallReloads DEF Stages
<1> QED
  BY <1>1, <1>2, <1>3, <1>4, <1>5

LEMMA CoreChannels ==
  ASSUME Core, NEW c \in Calls,
         \/ c \in Refreshes /\ FetchChannels(c)
         \/ \E silent \in SUBSET Online : ChannelsFetched(c, silent)
         \/ StoreChannels(c) \/ StoreChannelsFails(c) \/ StoreChannelsReload(c)
  PROVE  Core'
<1>1. CASE c \in Refreshes /\ FetchChannels(c)
  <2>1. /\ Go(c, "channels", "fetching") /\ Keep(c, runtime) /\ phase = "up"
        /\ UNCHANGED <<phase, file, runtime, known, registered, meta, hw, imported, merging>>
    BY <1>1 DEF FetchChannels, OnLoop, memory
  <2>2. arg'[c] = runtime /\ pc'[c] = "fetching" /\ pc[c] = "channels"
    BY <2>1, OthersStay DEF Core
  <2>3. runtime # None /\ runtime \in InstallationConfig
    BY <2>2, CoreParts DEF Holds
  <2>4. Holds(c)' /\ meta' \in [Macs -> Devices(Buttons)]
    BY <2>1, <2>2, <2>3, CoreParts DEF Holds
  <2> QED
    BY <2>1, <2>4, CallGoesOn DEF Stages
<1>2. ASSUME NEW silent, ChannelsFetched(c, silent) PROVE Core'
  <2> DEFINE to == IF \E i \in DOMAIN arg[c] : arg[c][i].type # "input" /\ arg[c][i].mac # NoMac
                   THEN "storing" ELSE "done"
             read == ChannelsRead(arg[c], silent)
  <2>1. /\ Go(c, "fetching", to) /\ Keep(c, read) /\ phase = "up"
        /\ UNCHANGED <<phase, file, runtime, known, registered, meta, hw, imported, merging>>
    BY <1>2 DEF ChannelsFetched, OnLoop, memory
  <2>2. to \in {"storing", "done"}
    OBVIOUS
  <2>3. pc[c] = "fetching"
    BY <2>1 DEF Go
  <2>4. read \in [Macs -> Devices(Channels)]
    BY <2>3, CoreParts, ChannelsReadIs DEF Holds
  <2> HIDE DEF to, read
  <2>5. arg'[c] = read /\ pc'[c] = to
    BY <2>1, OthersStay DEF Core
  <2>6. Holds(c)' /\ meta' \in [Macs -> Devices(Buttons)]
    BY <2>1, <2>2, <2>4, <2>5, CoreParts DEF Holds
  <2> QED
    BY <2>1, <2>2, <2>6, CallGoesOn DEF Stages
<1>3. CASE StoreChannels(c)
  <2>1. /\ Go(c, "storing", "stored") /\ Keep(c, None) /\ phase = "up"
        /\ UNCHANGED <<phase, runtime, known, registered, meta, merging, hw, imported>>
    BY <1>3 DEF StoreChannels, OnWorker, Drop, memory
  <2>2. Load(file) # None /\ file' \in InstallationConfig /\ SameModules(file, file')
    BY <1>3, StoreChannelsIs
  <2>3. pc'[c] = "stored"
    BY <2>1, OthersStay DEF Core
  <2>4. Holds(c)'
    BY <2>3 DEF Holds
  <2> QED
    BY <2>1, <2>2, <2>4, CallWrites
<1>4. CASE StoreChannelsFails(c)
  <2>1. /\ Go(c, "storing", "done") /\ Keep(c, None) /\ phase = "up"
        /\ UNCHANGED <<phase, file, runtime, known, registered, meta, merging, hw, imported>>
    BY <1>4 DEF StoreChannelsFails, OnWorker, Drop, memory
  <2>2. pc'[c] = "done"
    BY <2>1, OthersStay DEF Core
  <2>3. Holds(c)' /\ meta' \in [Macs -> Devices(Buttons)]
    BY <2>1, <2>2, CoreParts DEF Holds
  <2> QED
    BY <2>1, <2>3, CallGoesOn DEF Stages
<1>5. CASE StoreChannelsReload(c)
  <2>1. /\ Go(c, "stored", "done") /\ phase = "up" /\ runtime' = Reloaded /\ arg' = arg
        /\ UNCHANGED <<phase, file, known, registered, meta, merging, hw, imported>>
    BY <1>5 DEF StoreChannelsReload, OnLoop
  <2>2. pc'[c] = "done"
    BY <2>1, OthersStay DEF Core
  <2>3. Holds(c)' /\ meta' \in [Macs -> Devices(Buttons)]
    BY <2>1, <2>2, CoreParts DEF Holds
  <2> QED
    BY <2>1, <2>3, CallReloads DEF Stages
<1> QED
  BY <1>1, <1>2, <1>3, <1>4, <1>5

\* What is written when a button is learned.
LEMMA LearnIs ==
  ASSUME Core, NEW m \in InputMacs, NEW b \in Buttons, Learn(m, b)
  PROVE  /\ file \in InstallationConfig /\ Loads(file) /\ Load(file) # None
         /\ file' \in InstallationConfig /\ Loads(file') /\ SameModules(file, file')
         /\ KeepsEdits(file, file') /\ runtime' = file'
         /\ HasOwnLabels(file) => HasOwnLabels(file')
<1>1. /\ file \in InstallationConfig /\ Loads(file) /\ Load(file) # None /\ runtime' = file'
  BY CoreParts DEF Learn
<1>2. \/ file' = file
      \/ WithButton(file, b) = {} /\ \E k \in DOMAIN file : file[k].type = "input" /\ file' = Learned(file, k, b)
  BY DEF Learn, LearnTargets, WithMac, AtIp
<1>3. CASE file' = file
  BY <1>1, <1>3 DEF SameModules, KeepsEdits
<1>4. ASSUME WithButton(file, b) = {}, NEW k \in DOMAIN file, file[k].type = "input", file' = Learned(file, k, b)
      PROVE  /\ file' \in InstallationConfig /\ Loads(file') /\ SameModules(file, file')
             /\ KeepsEdits(file, file')
             /\ HasOwnLabels(file) => HasOwnLabels(file')
  <2>1. /\ SameModules(file, file') /\ KeepsEdits(file, file')
        /\ \A j \in DOMAIN file \ {k} : file'[j] = file[j]
        /\ DOMAIN file'[k].devices = DOMAIN file[k].devices \cup {b}
        /\ \A d \in DOMAIN file'[k].devices :
              file'[k].devices[d].label = Blank
              \/ (d \in DOMAIN file[k].devices /\ file'[k].devices[d] = file[k].devices[d])
    BY <1>1, <1>4, LearnedIs
  <2>2. \A j \in DOMAIN file : file[j].type = "input" => b \notin DOMAIN file[j].devices
    BY <1>4 DEF WithButton
  <2>3. ASSUME NEW i \in DOMAIN file, NEW j \in DOMAIN file, i # j, file[i].type = "input", file[j].type = "input"
        PROVE  DOMAIN file'[i].devices \cap DOMAIN file'[j].devices = {}
    BY <1>1, <2>1, <2>2, <2>3 DEF Loads
  <2>4. Loads(file')
    BY <1>1, <2>1, <2>3, SameModulesLoad
  <2>5. HasOwnLabels(file) => HasOwnLabels(file')
    BY <2>1 DEF HasOwnLabels, SameModules
  <2> QED
    BY <2>1, <2>4, <2>5 DEF SameModules
<1> QED
  BY <1>1, <1>2, <1>3, <1>4

LEMMA CoreLearn ==
  ASSUME Core, NEW m \in InputMacs, NEW b \in Buttons, Learn(m, b)
  PROVE  Core'
<1>1. /\ UNCHANGED <<phase, known, registered, meta, pc, arg, merging, hw, imported>>
      /\ phase = "up" /\ runtime # None
  BY DEF Learn, calls, OnLoop
<1>2. /\ Load(file) # None
      /\ file' \in InstallationConfig /\ Loads(file') /\ SameModules(file, file') /\ runtime' = file'
      /\ file' # None /\ Load(file') = file'
  BY LearnIs, DocumentIs DEF Load
<1>3. InstallationTypeOK'
  <2>1. /\ IsDocument(known) /\ meta \in [Macs -> Devices(Buttons)]
        /\ registered \in [Ips -> Types \cup {"none"}] /\ phase \in {"down", "starting", "up"}
        /\ pc \in [Calls -> Stages] /\ arg = [c \in Calls |-> arg[c]] /\ IsHardware(hw)
        /\ merging # None => merging.doc \in InstallationConfig
    BY DEF Core, InstallationTypeOK
  <2> QED
    BY <1>1, <1>2, <2>1 DEF InstallationTypeOK, IsHardware, IsDocument
<1>4. (\A c \in Calls : Holds(c))'
  BY <1>1, <1>2, CoreParts DEF Holds
<1>5. PhaseOK' /\ MemoryOK'
  BY <1>1, <1>2 DEF Core, PhaseOK, MemoryOK
<1>6. ServedOK'
  BY <1>1, <1>2 DEF Core, ServedOK, KnownAs, SameModules
<1>7. RuntimeFollowsFile'
  BY <1>2 DEF RuntimeFollowsFile
<1> QED
  BY <1>3, <1>4, <1>5, <1>6, <1>7 DEF Core

\* What a discovery merges.
LEMMA MergeLoadIs ==
  ASSUME Core, NEW c \in Discoveries, NEW silent \in SUBSET Online, NEW arp \in BOOLEAN,
         MergeLoad(c, Scan(arp, silent))
  PROVE  \E doc, found, n, w, src :
           /\ doc \in InstallationConfig /\ doc = IF Load(file) = None THEN <<>> ELSE file
           /\ Loads(doc) /\ IsScan(found, n, w)
           /\ IsMerge(doc, found, merging'.doc, src)
           /\ merging'.edits = edits
<1>1. PICK doc : doc = IF Load(file) = None THEN <<>> ELSE file
  OBVIOUS
<1>2. doc \in InstallationConfig /\ Loads(doc)
  BY <1>1, EmptyIs, CoreParts
<1>3. PICK found : found = Scan(arp, silent)
  OBVIOUS
<1>4. PICK n, w : IsScan(found, n, w)
  BY <1>3, CoreParts, ScanIs
<1>5. PICK src : IsMerge(doc, found, Merge(doc, found), src)
  BY <1>2, <1>4, CoreParts, MergeIs
<1>6. merging'.doc = Merge(doc, found) /\ merging'.edits = edits
  BY <1>1, <1>3 DEF MergeLoad
<1> QED
  BY <1>1, <1>2, <1>4, <1>5, <1>6

\* What is known and served after a merge or a first sweep.
LEMMA KnownIs ==
  ASSUME Core, IsDocument(file'), known' = IF Load(file') = None THEN known ELSE file'
  PROVE  /\ IsDocument(known') /\ (known' # None => known' \in InstallationConfig /\ Loads(known'))
         /\ Load(file') # None => known' = file' /\ file' # None /\ known' # None
<1>1. /\ Load(file') # None => file' # None /\ Loads(file')
  BY LoadIs
<1>2. IsDocument(known) /\ (known # None => known \in InstallationConfig /\ Loads(known))
  BY CoreParts DEF IsDocument
<1> QED
  BY <1>1, <1>2 DEF IsDocument

LEMMA CoreMerge ==
  ASSUME Core, NEW c \in Discoveries,
         \/ Discover(c)
         \/ \E silent \in SUBSET Online, arp \in BOOLEAN : MergeLoad(c, Scan(arp, silent))
         \/ MergeWrite(c)
  PROVE  Core'
<1> c \in Calls
  BY DEF Calls
<1>1. CASE Discover(c)
  <2>1. /\ Go(c, "idle", "scanning") /\ arg' = arg /\ phase = "up"
        /\ UNCHANGED <<phase, file, runtime, known, registered, meta, hw, imported, merging>>
    BY <1>1 DEF Discover, MayStart, OnLoop, memory
  <2>2. pc'[c] = "scanning"
    BY <2>1, OthersStay DEF Core
  <2>3. Holds(c)' /\ meta' \in [Macs -> Devices(Buttons)]
    BY <2>1, <2>2, CoreParts DEF Holds
  <2> QED
    BY <2>1, <2>3, CallGoesOn DEF Stages
<1>2. ASSUME NEW silent \in SUBSET Online, NEW arp \in BOOLEAN, MergeLoad(c, Scan(arp, silent)) PROVE Core'
  <2>1. /\ Go(c, "scanning", "merging") /\ arg' = arg /\ phase = "up" /\ merging = None
        /\ UNCHANGED <<phase, file, runtime, known, registered, meta, hw, imported>>
    BY <1>2 DEF MergeLoad, OnLoop, memory
  <2>2. pc'[c] = "merging"
    BY <2>1, OthersStay DEF Core
  <2>3. Holds(c)' /\ meta' \in [Macs -> Devices(Buttons)]
    BY <2>1, <2>2, CoreParts DEF Holds
  <2>4. merging'.doc \in InstallationConfig
    BY <1>2, MergeLoadIs DEF IsMerge
  <2> QED
    BY <2>1, <2>3, <2>4, CallGoesOn DEF Stages
<1>3. CASE MergeWrite(c)
  <2>1. /\ phase = "up" /\ merging # None /\ merging' = None
        /\ known' = IF Load(file') = None THEN known ELSE file'
        /\ \/ known' = None /\ Keep(c, None) /\ Go(c, "merging", "done") /\ runtime' = runtime /\ registered' = registered
           \/ /\ known' # None /\ Keep(c, known') /\ Go(c, "merging", "refreshing")
              /\ runtime' = known' /\ registered' = Registered(known', registered)
        /\ imported' = (imported /\ Load(file') = None)
        /\ UNCHANGED <<phase, meta, hw>>
    BY <1>3 DEF MergeWrite, Apply, Drop
  <2>2. IsDocument(file')
    BY <1>3, CoreParts DEF MergeWrite, IsDocument
  <2>3. /\ IsDocument(known') /\ (known' # None => known' \in InstallationConfig /\ Loads(known'))
        /\ Load(file') # None => known' = file' /\ file' # None /\ known' # None
    BY <2>1, <2>2, KnownIs
  <2>4. IsDocument(runtime) /\ registered \in [Ips -> Types \cup {"none"}] /\ meta \in [Macs -> Devices(Buttons)]
        /\ IsHardware(hw)
    BY DEF Core, InstallationTypeOK
  <2>5. CASE known' = None
    <3>1. /\ pc' \in [Calls -> Stages] /\ arg' = [o \in Calls |-> arg'[o]] /\ pc'[c] = "done"
          /\ \A o \in Calls \ {c} : pc'[o] = pc[o] /\ arg'[o] = arg[o]
      BY <2>1, <2>5, OthersStay DEF Core, Stages
    <3>2. InstallationTypeOK'
      BY <2>1, <2>2, <2>3, <2>4, <2>5, <3>1 DEF InstallationTypeOK, IsHardware, IsDocument
    <3>3. Holds(c)' /\ \A o \in Calls : Holds(o)
      BY <3>1, CoreParts DEF Holds
    <3>4. \A o \in Calls : Holds(o)'
      BY <2>1, <2>5, <3>1, <3>3, OthersHold
    <3>5. PhaseOK' /\ MemoryOK'
      BY <2>1, <2>5 DEF Core, PhaseOK, MemoryOK
    <3>6. Load(file') = None
      BY <2>3, <2>5
    <3>7. ServedOK' /\ RuntimeFollowsFile'
      BY <2>1, <2>5, <3>6 DEF Core, ServedOK, KnownAs, RuntimeFollowsFile
    <3> QED
      BY <3>2, <3>4, <3>5, <3>7 DEF Core
  <2>6. CASE known' # None
    <3>1. /\ pc' \in [Calls -> Stages] /\ arg' = [o \in Calls |-> arg'[o]] /\ pc'[c] = "refreshing"
          /\ \A o \in Calls \ {c} : pc'[o] = pc[o] /\ arg'[o] = arg[o]
          /\ arg'[c] = known'
      BY <2>1, <2>6, OthersStay DEF Core, Stages
    <3>2. /\ Registered(known', registered) \in [Ips -> Types \cup {"none"}]
          /\ \A i \in DOMAIN known' : Registered(known', registered)[known'[i].ip] = known'[i].type
      BY <2>3, <2>4, <2>6, RegisteredIs
    <3>3. InstallationTypeOK'
      BY <2>1, <2>2, <2>3, <2>4, <2>6, <3>1, <3>2 DEF InstallationTypeOK, IsHardware, IsDocument
    <3>4. Holds(c)' /\ \A o \in Calls : Holds(o)
      BY <2>1, <2>3, <2>6, <3>1, CoreParts DEF Holds
    <3>5. \A o \in Calls : Holds(o)'
      BY <2>1, <2>6, <3>1, <3>4, OthersHold
    <3>6. PhaseOK' /\ MemoryOK'
      BY <2>1, <2>3, <2>6 DEF Core, PhaseOK, MemoryOK
    <3>7. ServedOK' /\ RuntimeFollowsFile'
      BY <2>1, <2>3, <2>6, <3>2 DEF ServedOK, KnownAs, RuntimeFollowsFile
    <3> QED
      BY <3>3, <3>5, <3>6, <3>7 DEF Core
  <2> QED
    BY <2>5, <2>6
<1> QED
  BY <1>1, <1>2, <1>3

\* What the start of the process leaves in the file and in memory.
LEMMA StartIs ==
  ASSUME Core, NEW silent, NEW mute, Start(silent, mute)
  PROVE  /\ phase = "down" /\ phase' = "starting" /\ known' = runtime'
         /\ pc' = [pc EXCEPT ![Boot] = "idle"]
         /\ ~imported' /\ UNCHANGED <<arg, merging, hw, edits>>
         /\ \/ /\ Load(file) = None /\ runtime' = None
               /\ UNCHANGED <<file, registered, meta>>
            \/ /\ Load(file) # None /\ registered' = Registered(file, Unknown)
               /\ meta' = Refreshed(file, silent, mute)
               /\ file' \in {file, WithWireButtons(file, meta')}
               /\ runtime' = IF Loads(file') THEN file' ELSE file
BY CoreParts DEF Start, Configured

LEMMA CoreStart ==
  ASSUME Core, NEW silent, NEW mute, Start(silent, mute)
  PROVE  Core'
<1>1. /\ phase = "down" /\ phase' = "starting" /\ known' = runtime'
      /\ pc' = [pc EXCEPT ![Boot] = "idle"]
      /\ ~imported' /\ UNCHANGED <<arg, merging, hw>>
  BY StartIs
<1>2. /\ merging = None /\ \A c \in Calls : pc[c] \in {"idle", "done"}
      /\ pc \in [Calls -> Stages] /\ arg = [c \in Calls |-> arg[c]]
      /\ IsHardware(hw) /\ IsDocument(file)
      /\ registered \in [Ips -> Types \cup {"none"}] /\ meta \in [Macs -> Devices(Buttons)]
  BY <1>1 DEF Core, PhaseOK, InstallationTypeOK
<1>3. pc' \in [Calls -> Stages] /\ pc'[Boot] = "idle" /\ \A c \in Calls : pc'[c] \in {"idle", "done"}
  BY <1>1, <1>2, CallIs DEF Stages, Calls
<1>4. \A c \in Calls : Holds(c)'
  BY <1>3 DEF Holds
<1>5. CASE Load(file) = None /\ runtime' = None /\ UNCHANGED <<file, registered, meta>>
  <2>1. InstallationTypeOK'
    BY <1>1, <1>2, <1>3, <1>5 DEF InstallationTypeOK, IsHardware, IsDocument
  <2>2. PhaseOK' /\ MemoryOK' /\ ServedOK' /\ RuntimeFollowsFile'
    BY <1>1, <1>2, <1>3, <1>5 DEF PhaseOK, MemoryOK, ServedOK, RuntimeFollowsFile
  <2> QED
    BY <1>4, <2>1, <2>2 DEF Core
<1>6. CASE /\ Load(file) # None /\ registered' = Registered(file, Unknown)
           /\ meta' = Refreshed(file, silent, mute)
           /\ file' \in {file, WithWireButtons(file, meta')}
           /\ runtime' = IF Loads(file') THEN file' ELSE file
  <2>1. file \in InstallationConfig /\ Loads(file)
    BY <1>6, CoreParts
  <2>2. Unknown \in [Ips -> Types \cup {"none"}]
    BY DEF Unknown
  <2>3. /\ registered' \in [Ips -> Types \cup {"none"}]
        /\ \A i \in DOMAIN file : registered'[file[i].ip] = file[i].type
    BY <1>6, <2>1, <2>2, RegisteredIs
  <2>4. meta' \in [Macs -> Devices(Buttons)]
    BY <1>2, <1>6, <2>1, RefreshedIs
  <2>5. file' = file \/ SameModules(file, file')
    BY <1>6, <2>1, <2>4, WithWireButtonsIs
  <2>6. /\ file' \in InstallationConfig /\ file' # None
        /\ \A i \in DOMAIN file' : registered'[file'[i].ip] = file'[i].type
    BY <2>1, <2>3, <2>5, NoneAssumption DEF SameModules
  <2>7. /\ runtime' \in InstallationConfig /\ runtime' # None /\ Loads(runtime')
        /\ \A i \in DOMAIN runtime' : registered'[runtime'[i].ip] = runtime'[i].type
        /\ Load(file') # None => runtime' = file'
    BY <1>6, <2>1, <2>3, <2>6, NoneAssumption, LoadIs
  <2>8. InstallationTypeOK'
    BY <1>1, <1>2, <1>3, <2>3, <2>4, <2>6, <2>7 DEF InstallationTypeOK, IsHardware, IsDocument
  <2>9. PhaseOK' /\ MemoryOK' /\ ServedOK' /\ RuntimeFollowsFile'
    BY <1>1, <1>2, <1>3, <2>6, <2>7 DEF PhaseOK, MemoryOK, ServedOK, KnownAs, RuntimeFollowsFile
  <2> QED
    BY <1>4, <2>8, <2>9 DEF Core
<1> QED
  BY <1>5, <1>6, StartIs

LEMMA CoreReady ==
  ASSUME Core, Ready \/ InitSweepFails
  PROVE  Core'
<1>1. /\ phase = "starting" /\ phase' = "up"
      /\ UNCHANGED <<file, runtime, known, registered, meta, pc, arg, merging, hw, imported>>
  BY DEF Ready, InitSweepFails, memory, calls
<1>2. InstallationTypeOK'
  BY <1>1 DEF Core, InstallationTypeOK, IsHardware, IsDocument
<1>3. (\A c \in Calls : Holds(c))' /\ PhaseOK' /\ MemoryOK' /\ ServedOK'
  BY <1>1 DEF Core, Holds, PhaseOK, MemoryOK, ServedOK, KnownAs
<1>4. RuntimeFollowsFile'
  BY <1>1 DEF Core, PhaseOK, RuntimeFollowsFile
<1> QED
  BY <1>2, <1>3, <1>4 DEF Core

\* What the first sweep writes.
LEMMA InitSweepIs ==
  ASSUME Core, NEW silent \in SUBSET Online, NEW arp \in BOOLEAN, InitSweep(Scan(arp, silent))
  PROVE  \/ file' = file
         \/ file' \in InstallationConfig /\ Loads(file') /\ HasOwnLabels(file')
<1>1. PICK found : found = Scan(arp, silent)
  OBVIOUS
<1>2. PICK n, w : IsScan(found, n, w)
  BY <1>1, CoreParts, ScanIs
<1>3. Drafted(found) \in InstallationConfig /\ Loads(Drafted(found)) /\ HasOwnLabels(Drafted(found))
  BY <1>2, CoreParts, DraftIs
<1>4. file' \in {file, Drafted(found)}
  BY <1>1 DEF InitSweep
<1> QED
  BY <1>3, <1>4, Zenon

LEMMA CoreSweep ==
  ASSUME Core, NEW silent \in SUBSET Online, NEW arp \in BOOLEAN, InitSweep(Scan(arp, silent))
  PROVE  Core'
<1>1. /\ phase = "starting" /\ phase' = "up"
      /\ known' = IF Load(file') = None THEN known ELSE file'
      /\ \/ known' = None /\ UNCHANGED <<runtime, registered, pc, arg, merging>>
         \/ /\ known' # None /\ runtime' = known' /\ registered' = Registered(known', registered)
            /\ Keep(Boot, known') /\ Go(Boot, "idle", "refreshing") /\ merging' = merging
      /\ UNCHANGED <<meta, hw, imported>>
  BY DEF InitSweep, Apply, calls
<1>2. IsDocument(file')
  BY InitSweepIs DEF Core, InstallationTypeOK, IsDocument
<1>3. /\ IsDocument(known') /\ (known' # None => known' \in InstallationConfig /\ Loads(known'))
      /\ Load(file') # None => known' = file' /\ file' # None /\ known' # None
  BY <1>1, <1>2, KnownIs
<1>4. IsDocument(runtime) /\ registered \in [Ips -> Types \cup {"none"}] /\ meta \in [Macs -> Devices(Buttons)]
      /\ IsHardware(hw) /\ known = runtime
  BY <1>1 DEF Core, InstallationTypeOK, PhaseOK
<1>5. CASE known' = None
  <2>1. UNCHANGED <<runtime, registered, pc, arg, merging>> /\ Load(file') = None /\ runtime = None
    BY <1>1, <1>3, <1>4, <1>5
  <2>2. InstallationTypeOK'
    BY <1>1, <1>2, <1>3, <1>4, <2>1 DEF Core, InstallationTypeOK, IsHardware, IsDocument
  <2>3. (\A c \in Calls : Holds(c))'
    BY <2>1, CoreParts DEF Holds
  <2>4. PhaseOK' /\ MemoryOK' /\ ServedOK' /\ RuntimeFollowsFile'
    BY <1>1, <1>5, <2>1 DEF PhaseOK, MemoryOK, ServedOK, RuntimeFollowsFile
  <2> QED
    BY <2>2, <2>3, <2>4 DEF Core
<1>6. CASE known' # None
  <2>1. Boot \in Calls
    BY DEF Calls
  <2>2. /\ pc' \in [Calls -> Stages] /\ arg' = [o \in Calls |-> arg'[o]] /\ pc'[Boot] = "refreshing"
        /\ \A o \in Calls \ {Boot} : pc'[o] = pc[o] /\ arg'[o] = arg[o]
        /\ arg'[Boot] = known'
    BY <1>1, <1>6, <2>1, OthersStay DEF Core, Stages
  <2>3. /\ Registered(known', registered) \in [Ips -> Types \cup {"none"}]
        /\ \A i \in DOMAIN known' : Registered(known', registered)[known'[i].ip] = known'[i].type
    BY <1>3, <1>4, <1>6, RegisteredIs
  <2>4. merging # None => merging.doc \in InstallationConfig
    BY CoreParts
  <2>5. InstallationTypeOK'
    BY <1>1, <1>2, <1>3, <1>4, <1>6, <2>2, <2>3, <2>4 DEF InstallationTypeOK, IsHardware, IsDocument
  <2>6. Holds(Boot)' /\ \A o \in Calls : Holds(o)
    BY <1>1, <1>3, <1>6, <2>2, CoreParts DEF Holds
  <2>7. \A o \in Calls : Holds(o)'
    BY <1>1, <1>6, <2>1, <2>2, <2>6, OthersHold
  <2>8. PhaseOK' /\ MemoryOK'
    BY <1>1, <1>3, <1>6 DEF PhaseOK, MemoryOK
  <2>9. ServedOK' /\ RuntimeFollowsFile'
    BY <1>1, <1>3, <1>6, <2>3 DEF ServedOK, KnownAs, RuntimeFollowsFile
  <2> QED
    BY <2>5, <2>7, <2>8, <2>9 DEF Core
<1> QED
  BY <1>5, <1>6

LEMMA CoreClear ==
  ASSUME Core, ClearUnloadable
  PROVE  Core'
<1>1. /\ phase = "starting" /\ phase' = "up" /\ known = None /\ file' = <<>> /\ known' = <<>>
      /\ UNCHANGED <<runtime, registered, meta, pc, arg, merging, hw, imported>>
  BY DEF ClearUnloadable, calls
<1>2. runtime = None
  BY <1>1 DEF Core, PhaseOK
<1>3. /\ file' \in InstallationConfig /\ DOMAIN file' = {} /\ Loads(file') /\ Load(file') = file'
      /\ known' \in InstallationConfig /\ Loads(known')
  BY <1>1, EmptyIs
<1>4. InstallationTypeOK'
  BY <1>1, <1>3 DEF Core, InstallationTypeOK, IsHardware, IsDocument
<1>5. (\A c \in Calls : Holds(c))' /\ PhaseOK' /\ MemoryOK' /\ RuntimeFollowsFile'
  BY <1>1, <1>2, <1>3, CoreParts DEF Holds, PhaseOK, MemoryOK, RuntimeFollowsFile
<1>6. ServedOK'
  BY <1>1, <1>2, <1>3 DEF ServedOK, KnownAs
<1> QED
  BY <1>4, <1>5, <1>6 DEF Core

LEMMA CoreStop ==
  ASSUME Core, Stop
  PROVE  Core'
<1>1. /\ phase' = "down" /\ runtime' = None /\ known' = None /\ registered' = Unknown /\ meta' = NoMeta
      /\ pc' = [c \in Calls |-> IF pc[c] = "idle" THEN "idle" ELSE "done"]
      /\ arg' = [c \in Calls |-> None] /\ merging' = None /\ UNCHANGED <<file, hw, imported>>
  BY DEF Stop
<1>2. /\ pc' \in [Calls -> Stages] /\ \A c \in Calls : pc'[c] \in {"idle", "done"}
  BY <1>1 DEF Stages
<1>3. arg' = [c \in Calls |-> arg'[c]]
  BY <1>1
<1>4. meta' \in [Macs -> Devices(Buttons)] /\ registered' \in [Ips -> Types \cup {"none"}]
  BY <1>1, NoMetaIs DEF Unknown
<1>5. InstallationTypeOK'
  BY <1>1, <1>2, <1>3, <1>4 DEF Core, InstallationTypeOK, IsHardware, IsDocument
<1>6. \A c \in Calls : Holds(c)'
  BY <1>2 DEF Holds
<1>7. PhaseOK' /\ MemoryOK' /\ RuntimeFollowsFile' /\ ServedOK'
  BY <1>1, <1>2 DEF PhaseOK, MemoryOK, RuntimeFollowsFile, ServedOK
<1> QED
  BY <1>5, <1>6, <1>7 DEF Core

\* The hardware stays what hardware can be.
LEMMA HardwareIs ==
  ASSUME IsHardware(hw),
         \/ \E m \in Macs, ip \in Ips \cup {None} : Move(m, ip)
         \/ \E m \in Macs : \E wire \in SUBSET (IF m \in InputMacs THEN Buttons ELSE Channels) :
              Configure(m, wire)
  PROVE  IsHardware(hw') /\ UNCHANGED <<phase, file, memory, calls, edits, imported>>
<1> DEFINE H == [ip : Ips \cup {None}, wire : SUBSET (Channels \cup Buttons)]
<1>1. /\ hw \in [Macs -> H]
      /\ \A m \in Macs : hw[m].wire \subseteq IF m \in InputMacs THEN Buttons ELSE Channels
      /\ \A m, n \in Macs : m # n /\ hw[m].ip = hw[n].ip => hw[m].ip = None
      /\ \A m, n \in InputMacs : m # n => hw[m].wire \cap hw[n].wire = {}
  BY DEF IsHardware
<1>2. ASSUME NEW m \in Macs, NEW ip \in Ips \cup {None}, Move(m, ip) PROVE IsHardware(hw')
  <2>1. /\ hw' = [hw EXCEPT ![m] = [hw[m] EXCEPT !.ip = ip]]
        /\ ip # None => \A n \in Macs : hw[n].ip # ip
    BY <1>2 DEF Move, Change
  <2>2. /\ hw' \in [Macs -> H] /\ hw'[m].ip = ip /\ \A n \in Macs : hw'[n].wire = hw[n].wire
        /\ \A n \in Macs \ {m} : hw'[n].ip = hw[n].ip
    BY <1>1, <2>1
  <2> QED
    BY <1>1, <2>1, <2>2, InputAssumption DEF IsHardware
<1>3. ASSUME NEW m \in Macs, NEW wire \in SUBSET (IF m \in InputMacs THEN Buttons ELSE Channels),
             Configure(m, wire)
      PROVE  IsHardware(hw')
  <2>1. /\ hw' = [hw EXCEPT ![m] = [hw[m] EXCEPT !.wire = wire]]
        /\ m \in InputMacs => \A n \in InputMacs \ {m} : hw[n].wire \cap wire = {}
    BY <1>3 DEF Configure, Change
  <2>2. /\ hw' \in [Macs -> H] /\ hw'[m].wire = wire /\ \A n \in Macs : hw'[n].ip = hw[n].ip
        /\ \A n \in Macs \ {m} : hw'[n].wire = hw[n].wire
    BY <1>1, <2>1
  <2>3. \A n \in Macs : hw'[n].wire \subseteq IF n \in InputMacs THEN Buttons ELSE Channels
    BY <1>1, <2>2
  <2>4. ASSUME NEW n \in InputMacs, NEW o \in InputMacs, n # o PROVE hw'[n].wire \cap hw'[o].wire = {}
    <3>1. n \in Macs /\ o \in Macs
      BY InputAssumption
    <3>2. CASE n = m
      BY <2>1, <2>2, <2>4, <3>1, <3>2
    <3>3. CASE o = m
      BY <2>1, <2>2, <2>4, <3>1, <3>3
    <3>4. CASE n # m /\ o # m
      BY <1>1, <2>2, <2>4, <3>1, <3>4
    <3> QED
      BY <3>2, <3>3, <3>4
  <2> QED
    BY <1>1, <2>2, <2>3, <2>4 DEF IsHardware
<1>4. UNCHANGED <<phase, file, memory, calls, edits, imported>>
  BY DEF Move, Configure, Change
<1> QED
  BY <1>2, <1>3, <1>4

\* It holds at first and after every step.
LEMMA CoreInit ==
  ASSUME Init PROVE Core
<1>1. /\ phase = "down" /\ file \in Documents /\ runtime = None /\ known = None /\ registered = Unknown
      /\ meta = NoMeta /\ pc = [c \in Calls |-> "idle"] /\ arg = [c \in Calls |-> None]
      /\ merging = None /\ hw \in Hardware
  BY DEF Init
<1>2. IsDocument(file) /\ IsHardware(hw)
  BY <1>1, DocumentsAssumption, HardwareAssumption DEF IsDocument
<1>3. registered \in [Ips -> Types \cup {"none"}] /\ meta \in [Macs -> Devices(Buttons)]
  BY <1>1, NoMetaIs DEF Unknown
<1>4. InstallationTypeOK
  BY <1>1, <1>2, <1>3 DEF InstallationTypeOK, IsDocument, Stages
<1>5. \A c \in Calls : Holds(c)
  BY <1>1 DEF Holds
<1>6. PhaseOK /\ MemoryOK /\ ServedOK /\ RuntimeFollowsFile
  BY <1>1 DEF PhaseOK, MemoryOK, ServedOK, RuntimeFollowsFile
<1> QED
  BY <1>4, <1>5, <1>6 DEF Core

LEMMA CoreStep ==
  ASSUME Core, Step PROVE Core'
<1>1. ASSUME NEW c \in Patches,
             \/ \E i \in 1 .. Cardinality(Ips), d \in Channels \cup Buttons : Patch(c, i, d)
             \/ PatchWrite(c) \/ PatchFails(c) \/ PatchReload(c)
      PROVE  Core'
  BY <1>1, CorePatch
<1>2. ASSUME NEW c \in Imports,
             \/ \E doc \in Importable \cup {<<>>} : Import(c, doc)
             \/ ImportWrite(c) \/ ImportFails(c) \/ ImportReload(c)
      PROVE  Core'
  BY <1>2, CoreImport
<1>3. ASSUME NEW c \in Refreshes, Refresh(c) \/ FetchChannels(c) PROVE Core'
  <2>1. c \in Calls
    BY DEF Calls
  <2> QED
    BY <1>3, <2>1, CoreRefresh, CoreChannels
<1>4. ASSUME NEW c \in Calls,
             \/ \E silent \in SUBSET Online, mute \in SUBSET InputMacs : CacheRefreshed(c, silent, mute)
             \/ \E silent \in SUBSET Online : ChannelsFetched(c, silent)
             \/ PersistButtons(c) \/ PersistButtonsFails(c) \/ PersistButtonsReload(c)
             \/ StoreChannels(c) \/ StoreChannelsFails(c) \/ StoreChannelsReload(c)
      PROVE  Core'
  BY <1>4, CoreRefresh, CoreChannels
<1>5. ASSUME NEW c \in Discoveries,
             \/ Discover(c)
             \/ \E silent \in SUBSET Online, arp \in BOOLEAN : MergeLoad(c, Scan(arp, silent))
             \/ MergeWrite(c)
      PROVE  Core'
  BY <1>5, CoreMerge
<1>6. ASSUME NEW m \in InputMacs, NEW b \in Buttons, Learn(m, b) PROVE Core'
  BY <1>6, CoreLearn
<1>7. ASSUME NEW silent \in SUBSET Online, NEW mute \in SUBSET InputMacs, Start(silent, mute) PROVE Core'
  BY <1>7, CoreStart
<1>8. ASSUME NEW silent \in SUBSET Online, NEW arp \in BOOLEAN, InitSweep(Scan(arp, silent)) PROVE Core'
  BY <1>8, CoreSweep
<1>9. CASE Ready \/ InitSweepFails \/ ClearUnloadable \/ Stop
  BY <1>9, CoreReady, CoreClear, CoreStop
<1>10. CASE \/ \E m \in Macs, ip \in Ips \cup {None} : Move(m, ip)
            \/ \E m \in Macs : \E wire \in SUBSET (IF m \in InputMacs THEN Buttons ELSE Channels) :
                 Configure(m, wire)
  <2>1. IsHardware(hw') /\ UNCHANGED <<phase, file, memory, calls, imported>>
    BY <1>10, CoreParts, HardwareIs
  <2> QED
    BY <2>1, CoreChange
<1> QED
  BY <1>1, <1>2, <1>3, <1>4, <1>5, <1>6, <1>7, <1>8, <1>9, <1>10, Zenon DEF Step

LEMMA CoreStays ==
  ASSUME Core, [Next]_vars PROVE Core'
<1>1. CASE Next
  BY <1>1, CoreStep DEF Next
<1>2. CASE UNCHANGED vars
  <2>1. IsHardware(hw') /\ UNCHANGED <<phase, file, memory, calls, imported>>
    BY <1>2, CoreParts DEF vars
  <2> QED
    BY <2>1, CoreChange
<1> QED
  BY <1>1, <1>2

\* When no call is between its write of devices.json and its reload of it, what
\* the gateway serves (cfg.installation) is what the file holds, unless this does
\* not load or was cleared at the start: every call that writes reloads.
THEOREM GatewayServesTheFile == Spec => []RuntimeFollowsFile
<1>1. Core => RuntimeFollowsFile
  BY DEF Core
<1> QED
  BY <1>1, CoreInit, CoreStays, PTL DEF Spec

\* Every module that is served is in the DeviceRegistry as its kind, so that its
\* packets are decoded, until an import, which does not register: the start, the
\* first sweep and a discovery do, and other writers add no module.
THEOREM GatewayKnowsWhatItServes == Spec => []ServedIsRegistered
<1>1. Core => ServedIsRegistered
  BY DEF Core, ServedOK, ServedIsRegistered, KnownAs
<1> QED
  BY <1>1, CoreInit, CoreStays, PTL DEF Spec

-----------------------------------------------------------------------------
(***************************************************************************)
(* What holds as long as nothing was mixed up.                             *)
(***************************************************************************)

\* The cache holds of each module what this one said, and no button twice.
CacheOK ==
  /\ \A m \in Macs : Says(m, meta[m])
  /\ \A m, n \in Macs : m # n => DOMAIN meta[m] \cap DOMAIN meta[n] = {}

\* A document that can be written: it loads, and holds what it must.
Writable(doc, E) == Loads(doc) /\ HoldsEdits(E, doc) /\ HasOwnLabels(doc)

Sound ==
  /\ IF file = None THEN edits = {} ELSE Writable(file, edits)
  /\ merging # None => Writable(merging.doc, merging.edits)
  /\ runtime # None => HasOwnLabels(runtime)
  /\ known # None => HasOwnLabels(known)
  /\ CacheOK
  /\ \A c \in Calls : pc[c] = "storing" => \A m \in Macs : Says(m, arg[c][m])

Clean == mixed \/ (~Mixed /\ Sound)

\* Steps that write nothing and read nothing.
LEMMA SoundStays ==
  ASSUME Core, Sound,
         UNCHANGED <<file, runtime, known, meta, edits>>, merging' \in {merging, None},
         \A c \in Calls : pc'[c] = "storing" => pc[c] = "storing" /\ arg'[c] = arg[c]
  PROVE  Sound'
BY DEF Sound, CacheOK

\* A call goes on, but not to the writing of channels.
LEMMA SoundGoesOn ==
  ASSUME Core, Sound, NEW c \in Calls, NEW from, NEW to, Go(c, from, to), to # "storing",
         arg' = arg \/ \E v : Keep(c, v)
  PROVE  \A o \in Calls : pc'[o] = "storing" => pc[o] = "storing" /\ arg'[o] = arg[o]
BY OthersStay DEF Core

\* A call writes the file.
LEMMA SoundWrite ==
  ASSUME Core, Sound, file' \in InstallationConfig, Writable(file', edits'),
         UNCHANGED <<known, meta, merging>>,
         runtime' # None => HasOwnLabels(runtime'),
         \A c \in Calls : pc'[c] = "storing" => pc[c] = "storing" /\ arg'[c] = arg[c]
  PROVE  Sound'
BY DocumentIs DEF Sound, CacheOK

\* A call reloads it.
LEMMA SoundReload ==
  ASSUME Core, Sound, runtime' = Reloaded, UNCHANGED <<file, known, edits, merging>>, CacheOK',
         \A c \in Calls : pc'[c] = "storing" => pc[c] = "storing" /\ arg'[c] = arg[c]
  PROVE  Sound'
<1>1. runtime' # None => HasOwnLabels(runtime')
  BY CoreParts DEF Sound, Reloaded, Writable
<1> QED
  BY <1>1 DEF Sound

LEMMA LoadedIs ==
  ASSUME Core, Sound
  PROVE  /\ file # None => file \in InstallationConfig /\ Writable(file, edits) /\ Load(file) = file
         /\ file = None => edits = {} /\ Load(file) = None
BY CoreParts DEF Sound, Writable, Load

\* The documents in use are not mixed up.
LEMMA NotMixed ==
  ASSUME ~Mixed
  PROVE  /\ file # None => ~Mixes(file)
         /\ \A c \in Calls : pc[c] \in {"refreshing", "fetching"} /\ arg[c] # None => ~Mixes(arg[c])
         /\ \A m \in InputMacs, n \in Macs : m # n => hw[m].wire \cap DOMAIN meta[n] = {}
         /\ file # None => \A m \in Macs : \A b \in DOMAIN meta[m] : ~ButtonOfAnother(file, b, m)
         /\ file # None => \A c \in Patches : pc[c] = "queued" /\ arg[c].label[2] # NoMac =>
              ~AddressOfAnother(file, arg[c].ip, arg[c].label[2]) /\ ~ButtonOfAnother(file, arg[c].id, arg[c].label[2])
BY DEF Mixed, InUse

\* The operator's label of a device is that of its module, and all other edits
\* are kept.
LEMMA CleanPatchWrite ==
  ASSUME Core, Sound, ~Mixed, NEW c \in Patches, PatchWrite(c)
  PROVE  Sound'
<1> DEFINE id == arg[c].id
           label == arg[c].label
<1>1. /\ Load(file) # None /\ file' \in InstallationConfig
      /\ arg[c].ip \in Ips /\ id \in Channels \cup Buttons /\ label \in {"operator"} \X (Macs \cup {NoMac})
      /\ pc[c] = "queued" /\ Go(c, "queued", "written") /\ Keep(c, None) /\ c \in Calls
      /\ UNCHANGED <<runtime, known, registered, meta, merging>>
  <2>1. /\ Load(file) # None /\ file' \in InstallationConfig
        /\ arg[c] \in [ip : Ips, id : Channels \cup Buttons, label : {"operator"} \X (Macs \cup {NoMac})]
    BY PatchWriteIs
  <2>2. Go(c, "queued", "written") /\ Keep(c, None) /\ UNCHANGED <<runtime, known, registered, meta, merging>>
    BY DEF PatchWrite, Drop, memory
  <2>3. c \in Calls /\ pc[c] = "queued"
    BY <2>2 DEF Go, Calls
  <2> QED
    BY <2>1, <2>2, <2>3
<1>2. file # None /\ file \in InstallationConfig /\ Writable(file, edits)
  BY <1>1, LoadedIs
<1>3. PICK i \in PatchTargets(file, arg[c].ip, id) :
        /\ i \in DOMAIN file /\ id \in DOMAIN file[i].devices
        /\ file' = Patched(file, i, id, label)
        /\ edits' = IF file[i].mac = NoMac THEN edits
                    ELSE {e \in edits : ~(e[1] = file[i].mac /\ e[2] = id)} \cup {<<file[i].mac, id, FALSE>>}
        /\ SameModules(file, file')
  BY PatchWriteIs
<1>4. label \in Labels /\ label[1] = "operator" /\ label # Blank
  <2>1. PICK m \in Macs \cup {NoMac} : label = <<"operator", m>>
    BY <1>1
  <2> QED
    BY <2>1 DEF Labels, Blank
<1> HIDE DEF id, label
<1>5. /\ \A j \in DOMAIN file : DOMAIN file'[j].devices = DOMAIN file[j].devices
      /\ \A j \in DOMAIN file \ {i} : file'[j] = file[j]
      /\ file'[i].devices[id] = [label |-> label, active |-> FALSE]
      /\ \A d \in DOMAIN file[i].devices \ {id} : file'[i].devices[d] = file[i].devices[d]
  BY <1>2, <1>3, <1>4, PatchedIs
<1>6. Loads(file')
  BY <1>2, <1>3, <1>5, SameModulesLoad DEF Writable, Loads
<1>7. HasOwnLabels(file')
  <2>1. file[i].mac # NoMac => label[2] \in {file[i].mac, NoMac}
    <3>1. label[2] # NoMac => /\ ~AddressOfAnother(file, arg[c].ip, label[2])
                              /\ ~ButtonOfAnother(file, id, label[2])
      BY <1>1, <1>2, NotMixed DEF id, label
    <3>2. i \in WithButton(file, id) \/ i \in AtIp(file, arg[c].ip)
      BY DEF PatchTargets
    <3> QED
      BY <3>1, <3>2 DEF AddressOfAnother, ButtonOfAnother
  <2> SUFFICES ASSUME NEW j \in DOMAIN file, NEW d \in DOMAIN file'[j].devices, file[j].mac # NoMac
               PROVE  file'[j].devices[d].label = Blank \/ file'[j].devices[d].label[2] \in {file[j].mac, NoMac}
    BY <1>3 DEF HasOwnLabels, SameModules
  <2>2. CASE j = i /\ d = id
    BY <1>5, <2>1, <2>2
  <2>3. CASE ~(j = i /\ d = id)
    BY <1>2, <1>5, <2>3 DEF Writable, HasOwnLabels
  <2> QED
    BY <2>2, <2>3
<1>8. HoldsEdits(edits', file')
  <2>1. ASSUME NEW e \in edits', e \in edits, file[i].mac # NoMac => ~(e[1] = file[i].mac /\ e[2] = id)
        PROVE  \E j \in WithMac(file', e[1]) :
                 /\ e[2] \in DOMAIN file'[j].devices
                 /\ IsOperators(file'[j].devices[e[2]].label)
                 /\ e[2] \in Buttons => file'[j].devices[e[2]].active = e[3]
    <3>1. PICK j \in WithMac(file, e[1]) :
                 /\ e[2] \in DOMAIN file[j].devices
                 /\ IsOperators(file[j].devices[e[2]].label)
                 /\ e[2] \in Buttons => file[j].devices[e[2]].active = e[3]
      BY <1>2, <2>1 DEF Writable, HoldsEdits
    <3>2. j \in DOMAIN file /\ j \in WithMac(file', e[1]) /\ ~(j = i /\ e[2] = id)
      BY <1>3, <2>1 DEF WithMac, SameModules
    <3>3. e[2] \in DOMAIN file'[j].devices /\ file'[j].devices[e[2]] = file[j].devices[e[2]]
      BY <1>5, <3>1, <3>2
    <3> QED
      BY <3>1, <3>2, <3>3
  <2>2. ASSUME NEW e \in edits', file[i].mac # NoMac, e = <<file[i].mac, id, FALSE>>
        PROVE  \E j \in WithMac(file', e[1]) :
                 /\ e[2] \in DOMAIN file'[j].devices
                 /\ IsOperators(file'[j].devices[e[2]].label)
                 /\ e[2] \in Buttons => file'[j].devices[e[2]].active = e[3]
    <3>1. i \in WithMac(file', e[1]) /\ e[2] = id /\ e[3] = FALSE
      BY <1>3, <2>2 DEF WithMac, SameModules
    <3>2. IsOperators(label)
      BY <1>4 DEF IsOperators
    <3>3. id \in DOMAIN file'[i].devices /\ file'[i].devices[id].label = label
      BY <1>3, <1>5
    <3>4. file'[i].devices[id].active = FALSE
      BY <1>5
    <3>5. file'[i].devices[id].active = e[3]
      BY <3>1, <3>4, Zenon
    <3> QED
      BY <3>1, <3>2, <3>3, <3>5
  <2>3. ASSUME NEW e \in edits'
        PROVE  \/ e \in edits /\ (file[i].mac # NoMac => ~(e[1] = file[i].mac /\ e[2] = id))
               \/ file[i].mac # NoMac /\ e = <<file[i].mac, id, FALSE>>
    BY <1>3
  <2>4. file' # None
    BY <1>1, DocumentIs
  <2> QED
    BY <2>1, <2>2, <2>3, <2>4 DEF HoldsEdits
<1>9. \A o \in Calls : pc'[o] = "storing" => pc[o] = "storing" /\ arg'[o] = arg[o]
  BY <1>1, SoundGoesOn
<1> QED
  BY <1>1, <1>6, <1>7, <1>8, <1>9, SoundWrite DEF Sound, Writable

\* A refresh of the cache for a document that is not mixed up.
LEMMA CacheStaysOK ==
  ASSUME Core, CacheOK, ~Mixed, NEW doc \in InstallationConfig, ~Mixes(doc),
         NEW silent, NEW mute, meta' = Refreshed(doc, silent, mute)
  PROVE  CacheOK'
<1>1. IsHardware(hw) /\ meta \in [Macs -> Devices(Buttons)]
  BY CoreParts
<1>2. \A m \in Macs : \/ meta'[m] = NoDevices
                      \/ meta'[m] = meta[m]
                      \/ m \in InputMacs /\ meta'[m] = ButtonsOf(m)
  BY <1>1, RefreshedIs
<1>3. DOMAIN NoDevices = {} /\ \A m \in InputMacs : Says(m, ButtonsOf(m)) /\ DOMAIN ButtonsOf(m) = hw[m].wire
  BY <1>1, NoDevicesAre, ButtonsAre
<1>4. \A m \in Macs : Says(m, NoDevices)
  BY <1>3 DEF Says
<1>5. \A m \in Macs : Says(m, meta'[m])
  BY <1>2, <1>3, <1>4 DEF CacheOK
<1>6. ASSUME NEW m \in Macs, NEW n \in Macs, m # n PROVE DOMAIN meta'[m] \cap DOMAIN meta'[n] = {}
  <2>1. \A i \in InputMacs, j \in Macs : i # j => hw[i].wire \cap DOMAIN meta[j] = {}
    BY NotMixed
  <2>2. \A i, j \in InputMacs : i # j => hw[i].wire \cap hw[j].wire = {}
    BY <1>1 DEF IsHardware
  <2>3. DOMAIN meta[m] \cap DOMAIN meta[n] = {}
    BY <1>6 DEF CacheOK
  <2>4. DOMAIN meta'[m] = {} \/ DOMAIN meta'[m] = DOMAIN meta[m] \/ (m \in InputMacs /\ DOMAIN meta'[m] = hw[m].wire)
    BY <1>2, <1>3
  <2>5. DOMAIN meta'[n] = {} \/ DOMAIN meta'[n] = DOMAIN meta[n] \/ (n \in InputMacs /\ DOMAIN meta'[n] = hw[n].wire)
    BY <1>2, <1>3
  <2> QED
    BY ONLY <1>6, <2>1, <2>2, <2>3, <2>4, <2>5
<1> QED
  BY <1>5, <1>6 DEF CacheOK

\* A file that takes the buttons of a cache whose buttons are at their modules.
LEMMA ButtonsWritable ==
  ASSUME NEW doc \in InstallationConfig, NEW E, Writable(doc, E),
         NEW wire \in [Macs -> Devices(Buttons)],
         \A m \in Macs : Says(m, wire[m]),
         \A m, n \in Macs : m # n => DOMAIN wire[m] \cap DOMAIN wire[n] = {},
         \A m \in Macs : \A b \in DOMAIN wire[m] : ~ButtonOfAnother(doc, b, m)
  PROVE  /\ WithWireButtons(doc, wire) \in InstallationConfig
         /\ Writable(WithWireButtons(doc, wire), E)
<1>1. PICK new : new = WithWireButtons(doc, wire)
  OBVIOUS
<1>2. /\ SameModules(doc, new) /\ KeepsEdits(doc, new) /\ LabelsFrom(doc, new, wire)
      /\ \A i \in DOMAIN doc : doc[i].type = "input" =>
              DOMAIN new[i].devices =
                DOMAIN doc[i].devices \cup (IF doc[i].mac = NoMac THEN {} ELSE DOMAIN wire[doc[i].mac])
  BY <1>1, WithWireButtonsIs
<1>3. new \in InstallationConfig
  BY <1>2 DEF SameModules
<1>4. ASSUME NEW i \in DOMAIN doc, NEW j \in DOMAIN doc, i # j, doc[i].type = "input", doc[j].type = "input"
      PROVE  DOMAIN new[i].devices \cap DOMAIN new[j].devices = {}
  <2>1. \A k \in DOMAIN doc : doc[k].mac # NoMac => doc[k].mac \in Macs
    BY DocumentIs
  <2>2. /\ DOMAIN doc[i].devices \cap DOMAIN doc[j].devices = {}
        /\ doc[i].mac = doc[j].mac => doc[i].mac = NoMac
    BY <1>4 DEF Writable, Loads
  <2>3. \A k, l \in DOMAIN doc : doc[k].mac # NoMac /\ doc[l].type = "input" /\ doc[k].mac # doc[l].mac
          => DOMAIN wire[doc[k].mac] \cap DOMAIN doc[l].devices = {}
    BY <2>1 DEF ButtonOfAnother, WithButton
  <2> DEFINE at(k) == IF doc[k].mac = NoMac THEN {} ELSE DOMAIN wire[doc[k].mac]
  <2>4. at(i) \cap DOMAIN doc[j].devices = {} /\ at(j) \cap DOMAIN doc[i].devices = {}
    BY <1>4, <2>2, <2>3
  <2>5. at(i) \cap at(j) = {}
    BY <2>1, <2>2
  <2>6. DOMAIN new[i].devices = DOMAIN doc[i].devices \cup at(i) /\ DOMAIN new[j].devices = DOMAIN doc[j].devices \cup at(j)
    BY <1>2, <1>4
  <2> HIDE DEF at
  <2> QED
    BY <2>2, <2>4, <2>5, <2>6
<1>5. Loads(new)
  BY <1>2, <1>4, SameModulesLoad DEF Writable
<1>6. HoldsEdits(E, new)
  BY <1>2, <1>3, EditsKept DEF Writable
<1>7. HasOwnLabels(new)
  BY <1>2, LabelsStayOwn DEF Writable
<1> QED
  BY <1>1, <1>3, <1>5, <1>6, <1>7 DEF Writable

LEMMA CleanPersistButtons ==
  ASSUME Core, Sound, ~Mixed, NEW c \in Calls, PersistButtons(c)
  PROVE  Sound'
<1>1. /\ Go(c, "persisting", "persisted") /\ arg' = arg /\ Load(file) # None
      /\ file' = WithWireButtons(file, meta) /\ edits' = edits
      /\ UNCHANGED <<runtime, known, registered, meta, merging>>
  BY DEF PersistButtons, memory
<1>2. file # None /\ file \in InstallationConfig /\ Writable(file, edits)
  BY <1>1, LoadedIs
<1>3. /\ meta \in [Macs -> Devices(Buttons)]
      /\ \A m \in Macs : \A b \in DOMAIN meta[m] : ~ButtonOfAnother(file, b, m)
  BY <1>2, CoreParts, NotMixed
<1>4. file' \in InstallationConfig /\ Writable(file', edits')
  BY <1>1, <1>2, <1>3, ButtonsWritable DEF Sound, CacheOK
<1>5. \A o \in Calls : pc'[o] = "storing" => pc[o] = "storing" /\ arg'[o] = arg[o]
  BY <1>1, SoundGoesOn
<1> QED
  BY <1>1, <1>4, <1>5, SoundWrite DEF Sound

LEMMA CleanStoreChannels ==
  ASSUME Core, Sound, NEW c \in Calls, StoreChannels(c)
  PROVE  Sound'
<1>1. /\ Go(c, "storing", "stored") /\ Keep(c, None) /\ edits' = edits /\ pc[c] = "storing"
      /\ UNCHANGED <<runtime, known, registered, meta, merging>>
  BY DEF StoreChannels, Drop, memory, Go
<1>2. /\ file \in InstallationConfig /\ Loads(file) /\ Load(file) # None
      /\ file' \in InstallationConfig /\ SameModules(file, file') /\ KeepsEdits(file, file')
      /\ LabelsFrom(file, file', arg[c])
      /\ \A i \in DOMAIN file : file[i].type = "input" => file'[i] = file[i]
  BY StoreChannelsIs
<1>3. Writable(file, edits) /\ \A m \in Macs : Says(m, arg[c][m])
  BY <1>1, <1>2, LoadedIs DEF Sound
<1>4. Loads(file')
  <2>1. \A i, j \in DOMAIN file : i # j /\ file[i].type = "input" /\ file[j].type = "input"
          => DOMAIN file'[i].devices \cap DOMAIN file'[j].devices = {}
    BY <1>2 DEF Loads
  <2> QED
    BY <1>2, <2>1, SameModulesLoad
<1>5. HoldsEdits(edits', file') /\ HasOwnLabels(file')
  BY <1>1, <1>2, <1>3, EditsKept, LabelsStayOwn DEF Writable
<1>6. \A o \in Calls : pc'[o] = "storing" => pc[o] = "storing" /\ arg'[o] = arg[o]
  BY <1>1, SoundGoesOn
<1> QED
  BY <1>1, <1>2, <1>4, <1>5, <1>6, SoundWrite DEF Sound, Writable

LEMMA CleanLearn ==
  ASSUME Core, Sound, NEW m \in InputMacs, NEW b \in Buttons, Learn(m, b)
  PROVE  Sound'
<1>1. UNCHANGED <<known, meta, pc, arg, merging, edits>>
  BY DEF Learn, calls
<1>2. /\ file \in InstallationConfig /\ Load(file) # None
      /\ file' \in InstallationConfig /\ Loads(file')
      /\ KeepsEdits(file, file') /\ runtime' = file'
      /\ HasOwnLabels(file) => HasOwnLabels(file')
  BY LearnIs
<1>3. Writable(file, edits)
  BY <1>2, LoadedIs
<1>4. Writable(file', edits')
  BY <1>1, <1>2, <1>3, EditsKept DEF Writable
<1> QED
  BY <1>1, <1>2, <1>4, SoundWrite DEF Writable

LEMMA CleanPatch ==
  ASSUME Core, Sound, ~Mixed, NEW c \in Patches,
         \/ \E i \in 1 .. Cardinality(Ips), d \in Channels \cup Buttons : Patch(c, i, d)
         \/ PatchWrite(c) \/ PatchFails(c) \/ PatchReload(c)
  PROVE  Sound'
<1> c \in Calls
  BY DEF Calls
<1>1. ASSUME NEW i, NEW d, Patch(c, i, d) PROVE Sound'
  <2>1. /\ Go(c, "idle", "queued") /\ \E v : Keep(c, v)
        /\ UNCHANGED <<file, runtime, known, meta, edits, merging>>
    BY <1>1 DEF Patch, memory
  <2> QED
    BY <2>1, SoundStays, SoundGoesOn
<1>2. CASE PatchWrite(c)
  BY <1>2, CleanPatchWrite
<1>3. CASE PatchFails(c)
  <2>1. /\ Go(c, "queued", "done") /\ \E v : Keep(c, v)
        /\ UNCHANGED <<file, runtime, known, meta, edits, merging>>
    BY <1>3 DEF PatchFails, memory, Drop
  <2> QED
    BY <2>1, SoundStays, SoundGoesOn
<1>4. CASE PatchReload(c)
  <2>1. /\ Go(c, "written", "done") /\ arg' = arg /\ runtime' = Reloaded
        /\ UNCHANGED <<file, known, meta, edits, merging>>
    BY <1>4 DEF PatchReload
  <2>2. CacheOK'
    BY <2>1 DEF Sound, CacheOK
  <2> QED
    BY <2>1, <2>2, SoundReload, SoundGoesOn
<1> QED
  BY <1>1, <1>2, <1>3, <1>4

LEMMA CleanImport ==
  ASSUME Core, Sound, NEW c \in Imports,
         \/ \E doc \in Importable \cup {<<>>} : Import(c, doc)
         \/ ImportWrite(c) \/ ImportFails(c) \/ ImportReload(c)
  PROVE  Sound'
<1> c \in Calls
  BY DEF Calls
<1>1. ASSUME NEW doc, Import(c, doc) PROVE Sound'
  <2>1. /\ Go(c, "idle", "queued") /\ \E v : Keep(c, v)
        /\ UNCHANGED <<file, runtime, known, meta, edits, merging>>
    BY <1>1 DEF Import, memory
  <2> QED
    BY <2>1, SoundStays, SoundGoesOn
<1>2. CASE ImportWrite(c)
  <2>1. /\ Go(c, "queued", "written") /\ Keep(c, None) /\ file' = arg[c] /\ edits' = OperatorLabels(file')
        /\ pc[c] = "queued" /\ UNCHANGED <<runtime, known, meta, merging>>
    BY <1>2 DEF ImportWrite, Drop, memory, Go
  <2>2. file' \in InstallationConfig /\ Loads(file') /\ HasOwnLabels(file')
    BY <2>1, CoreParts DEF Holds
  <2>3. HoldsEdits(edits', file')
    BY <2>1, <2>2, OperatorLabelsAreHeld
  <2>4. \A o \in Calls : pc'[o] = "storing" => pc[o] = "storing" /\ arg'[o] = arg[o]
    BY <2>1, SoundGoesOn
  <2> QED
    BY <2>1, <2>2, <2>3, <2>4, SoundWrite DEF Sound, Writable
<1>3. CASE ImportFails(c)
  <2>1. /\ Go(c, "queued", "done") /\ \E v : Keep(c, v)
        /\ UNCHANGED <<file, runtime, known, meta, edits, merging>>
    BY <1>3 DEF ImportFails, memory, Drop
  <2> QED
    BY <2>1, SoundStays, SoundGoesOn
<1>4. CASE ImportReload(c)
  <2>1. /\ Go(c, "written", "done") /\ arg' = arg /\ runtime' = Reloaded
        /\ meta' = IF Load(file) = None THEN meta ELSE NoMeta
        /\ UNCHANGED <<file, known, edits, merging>>
    BY <1>4 DEF ImportReload
  <2>2. CacheOK'
    BY <2>1, NoMetaIs, NoDevicesAre DEF Sound, CacheOK, Says
  <2> QED
    BY <2>1, <2>2, SoundReload, SoundGoesOn
<1> QED
  BY <1>1, <1>2, <1>3, <1>4

\* Each group of steps keeps it.
LEMMA CleanRefresh ==
  ASSUME Core, Sound, ~Mixed, NEW c \in Calls,
         \/ c \in Refreshes /\ Refresh(c)
         \/ \E silent \in SUBSET Online, mute \in SUBSET InputMacs : CacheRefreshed(c, silent, mute)
         \/ PersistButtons(c) \/ PersistButtonsFails(c) \/ PersistButtonsReload(c)
  PROVE  Sound'
<1>1. CASE Refresh(c)
  <2>1. /\ Go(c, "idle", "refreshing") /\ \E v : Keep(c, v)
        /\ UNCHANGED <<file, runtime, known, meta, edits, merging>>
    BY <1>1 DEF Refresh, memory
  <2> QED
    BY <2>1, SoundStays, SoundGoesOn
<1>2. ASSUME NEW silent, NEW mute, CacheRefreshed(c, silent, mute) PROVE Sound'
  <2>1. /\ Go(c, "refreshing", "persisting") /\ Keep(c, None) /\ pc[c] = "refreshing"
        /\ meta' = Refreshed(arg[c], silent, mute)
        /\ UNCHANGED <<file, runtime, known, edits, merging>>
    BY <1>2 DEF CacheRefreshed, Drop, Go
  <2>2. arg[c] \in InstallationConfig
    BY <2>1, CoreParts DEF Holds
  <2>3. ~Mixes(arg[c])
    BY <2>1, <2>2, NoneAssumption, NotMixed
  <2>4. CacheOK'
    BY <2>1, <2>2, <2>3, CacheStaysOK DEF Sound
  <2>5. \A o \in Calls : pc'[o] = "storing" => pc[o] = "storing" /\ arg'[o] = arg[o]
    BY <2>1, SoundGoesOn
  <2> QED
    BY <2>1, <2>4, <2>5 DEF Sound
<1>3. CASE PersistButtons(c)
  BY <1>3, CleanPersistButtons
<1>4. CASE PersistButtonsFails(c)
  <2>1. /\ Go(c, "persisting", AfterButtons(c)) /\ arg' = arg
        /\ UNCHANGED <<file, runtime, known, meta, edits, merging>>
    BY <1>4 DEF PersistButtonsFails, memory
  <2>2. AfterButtons(c) # "storing"
    BY DEF AfterButtons
  <2> QED
    BY <2>1, <2>2, SoundStays, SoundGoesOn
<1>5. CASE PersistButtonsReload(c)
  <2> DEFINE to == IF Load(file) = None THEN "done" ELSE AfterButtons(c)
  <2>1. /\ Go(c, "persisted", to) /\ arg' = arg /\ runtime' = Reloaded
        /\ UNCHANGED <<file, known, meta, edits, merging>>
    BY <1>5 DEF PersistButtonsReload
  <2>2. to # "storing"
    BY DEF AfterButtons
  <2>3. CacheOK'
    BY <2>1 DEF Sound, CacheOK
  <2> HIDE DEF to
  <2> QED
    BY <2>1, <2>2, <2>3, SoundReload, SoundGoesOn
<1> QED
  BY <1>1, <1>2, <1>3, <1>4, <1>5

LEMMA CleanChannels ==
  ASSUME Core, Sound, ~Mixed, NEW c \in Calls,
         \/ c \in Refreshes /\ FetchChannels(c)
         \/ \E silent \in SUBSET Online : ChannelsFetched(c, silent)
         \/ StoreChannels(c) \/ StoreChannelsFails(c) \/ StoreChannelsReload(c)
  PROVE  Sound'
<1>1. CASE FetchChannels(c)
  <2>1. /\ Go(c, "channels", "fetching") /\ \E v : Keep(c, v)
        /\ UNCHANGED <<file, runtime, known, meta, edits, merging>>
    BY <1>1 DEF FetchChannels, memory
  <2> QED
    BY <2>1, SoundStays, SoundGoesOn
<1>2. ASSUME NEW silent, ChannelsFetched(c, silent) PROVE Sound'
  <2> DEFINE to == IF \E i \in DOMAIN arg[c] : arg[c][i].type # "input" /\ arg[c][i].mac # NoMac
                   THEN "storing" ELSE "done"
             read == ChannelsRead(arg[c], silent)
  <2>1. /\ Go(c, "fetching", to) /\ Keep(c, read)
        /\ UNCHANGED <<file, runtime, known, meta, edits, merging>>
    BY <1>2 DEF ChannelsFetched, memory
  <2>2. pc[c] = "fetching"
    BY <2>1 DEF Go
  <2>3. arg[c] \in InstallationConfig
    BY <2>2, CoreParts DEF Holds
  <2>4. ~Mixes(arg[c])
    BY <2>2, <2>3, NoneAssumption, NotMixed
  <2>5. \A m \in Macs : Says(m, read[m])
    BY <2>3, <2>4, ChannelsReadIs
  <2> HIDE DEF to, read
  <2>6. arg'[c] = read /\ \A o \in Calls \ {c} : pc'[o] = pc[o] /\ arg'[o] = arg[o]
    BY <2>1, OthersStay DEF Core
  <2> QED
    BY <2>1, <2>5, <2>6 DEF Sound, CacheOK
<1>3. CASE StoreChannels(c)
  BY <1>3, CleanStoreChannels
<1>4. CASE StoreChannelsFails(c)
  <2>1. /\ Go(c, "storing", "done") /\ \E v : Keep(c, v)
        /\ UNCHANGED <<file, runtime, known, meta, edits, merging>>
    BY <1>4 DEF StoreChannelsFails, memory, Drop
  <2> QED
    BY <2>1, SoundStays, SoundGoesOn
<1>5. CASE StoreChannelsReload(c)
  <2>1. /\ Go(c, "stored", "done") /\ arg' = arg /\ runtime' = Reloaded
        /\ UNCHANGED <<file, known, meta, edits, merging>>
    BY <1>5 DEF StoreChannelsReload
  <2>2. CacheOK'
    BY <2>1 DEF Sound, CacheOK
  <2> QED
    BY <2>1, <2>2, SoundReload, SoundGoesOn
<1> QED
  BY <1>1, <1>2, <1>3, <1>4, <1>5

LEMMA CleanMerge ==
  ASSUME Core, Sound, ~Mixed, NEW c \in Discoveries,
         \/ Discover(c)
         \/ \E silent \in SUBSET Online, arp \in BOOLEAN : MergeLoad(c, Scan(arp, silent))
         \/ MergeWrite(c)
  PROVE  Sound'
<1> c \in Calls
  BY DEF Calls
<1>1. CASE Discover(c)
  <2>1. /\ Go(c, "idle", "scanning") /\ arg' = arg
        /\ UNCHANGED <<file, runtime, known, meta, edits, merging>>
    BY <1>1 DEF Discover, memory
  <2> QED
    BY <2>1, SoundStays, SoundGoesOn
<1>2. ASSUME NEW silent \in SUBSET Online, NEW arp \in BOOLEAN, MergeLoad(c, Scan(arp, silent)) PROVE Sound'
  <2>1. /\ Go(c, "scanning", "merging") /\ arg' = arg
        /\ UNCHANGED <<file, runtime, known, meta, edits>>
    BY <1>2 DEF MergeLoad, memory
  <2>2. PICK doc, found, n, w, src :
          /\ doc \in InstallationConfig /\ doc = IF Load(file) = None THEN <<>> ELSE file
          /\ Loads(doc) /\ IsScan(found, n, w)
          /\ IsMerge(doc, found, merging'.doc, src)
          /\ merging'.edits = edits
    BY <1>2, MergeLoadIs
  <2>3. Writable(doc, edits) /\ ~Mixes(doc)
    <3>1. CASE file = None
      <4>1. doc = <<>> /\ edits = {}
        BY <2>2, <3>1, LoadedIs
      <4>2. ~Mixes(doc)
        BY <4>1, EmptyIs DEF Mixes, AddressOfAnother, ButtonOfAnother, AtIp, WithButton
      <4> QED
        BY <4>1, <4>2, EmptyIs DEF Writable, HoldsEdits
    <3>2. CASE file # None
      BY <2>2, <3>2, LoadedIs, NotMixed
    <3> QED
      BY <3>1, <3>2
  <2>4. PICK new \in InstallationConfig : new = merging'.doc /\ IsMerge(doc, found, new, src)
    BY <2>2 DEF IsMerge
  <2>5. Loads(new) /\ KeepsEdits(doc, new) /\ HasOwnLabels(new)
    BY <2>2, <2>3, <2>4, CoreParts, MergeLoads, MergeKeepsEdits, MergeKeepsLabels DEF Writable
  <2>6. Writable(merging'.doc, merging'.edits)
    BY <2>2, <2>3, <2>4, <2>5, EditsKept DEF Writable
  <2>7. \A o \in Calls : pc'[o] = "storing" => pc[o] = "storing" /\ arg'[o] = arg[o]
    BY <2>1, SoundGoesOn
  <2> QED
    BY <2>1, <2>6, <2>7 DEF Sound, CacheOK
<1>3. CASE MergeWrite(c)
  <2>1. /\ merging # None /\ merging' = None
        /\ \/ file' = merging.doc /\ edits' = edits \cap merging.edits
           \/ file' = file /\ edits' = edits
        /\ known' = IF Load(file') = None THEN known ELSE file'
        /\ \/ known' = None /\ Keep(c, None) /\ Go(c, "merging", "done") /\ runtime' = runtime
           \/ /\ known' # None /\ Keep(c, known') /\ Go(c, "merging", "refreshing") /\ runtime' = known'
        /\ UNCHANGED meta
    BY <1>3 DEF MergeWrite, Apply, Drop
  <2>2. /\ merging.doc \in InstallationConfig /\ Writable(merging.doc, merging.edits)
        /\ merging.doc # None
    BY <2>1, CoreParts, NoneAssumption DEF Sound
  <2>3. IF file' = None THEN edits' = {} ELSE Writable(file', edits')
    <3>1. CASE file' = merging.doc /\ edits' = edits \cap merging.edits
      BY <2>2, <3>1 DEF Writable, HoldsEdits
    <3>2. CASE file' = file /\ edits' = edits
      BY <3>2 DEF Sound
    <3> QED
      BY <2>1, <3>1, <3>2
  <2>4. known' # None => HasOwnLabels(known')
    BY <2>1, <2>3, LoadIs DEF Sound, Writable
  <2>5. runtime' # None => HasOwnLabels(runtime')
    BY <2>1, <2>4 DEF Sound
  <2>6. \A o \in Calls : pc'[o] = "storing" => pc[o] = "storing" /\ arg'[o] = arg[o]
    BY <2>1, SoundGoesOn
  <2> QED
    BY <2>1, <2>3, <2>4, <2>5, <2>6 DEF Sound, CacheOK
<1> QED
  BY <1>1, <1>2, <1>3

LEMMA CleanStart ==
  ASSUME Core, Sound, ~Mixed, NEW silent, NEW mute, Start(silent, mute)
  PROVE  Sound'
<1>1. /\ phase = "down" /\ known' = runtime'
      /\ pc' = [pc EXCEPT ![Boot] = "idle"] /\ UNCHANGED <<arg, merging, hw, edits>>
  BY StartIs
<1>2. \A c \in Calls : pc'[c] = "storing" => pc[c] = "storing" /\ arg'[c] = arg[c]
  <2>1. pc \in [Calls -> Stages] /\ Boot \in Calls
    BY DEF Core, InstallationTypeOK, Calls
  <2> QED
    BY <1>1, <2>1
<1>3. CASE Load(file) = None /\ runtime' = None /\ UNCHANGED <<file, registered, meta>>
  BY <1>1, <1>2, <1>3 DEF Sound, CacheOK
<1>4. CASE /\ Load(file) # None
           /\ meta' = Refreshed(file, silent, mute)
           /\ file' \in {file, WithWireButtons(file, meta')}
           /\ runtime' = IF Loads(file') THEN file' ELSE file
  <2>1. /\ file # None /\ file \in InstallationConfig /\ Writable(file, edits) /\ ~Mixes(file)
    BY <1>4, LoadedIs, NotMixed
  <2>2. CacheOK'
    BY <1>4, <2>1, CacheStaysOK DEF Sound
  <2>3. IsHardware(hw) /\ meta \in [Macs -> Devices(Buttons)] /\ meta = NoMeta
    BY <1>1, CoreParts DEF Core, PhaseOK
  <2>4. /\ meta' \in [Macs -> Devices(Buttons)]
        /\ \A m \in Macs : meta'[m] = NoDevices \/ (m \in InputMacs /\ meta'[m] = ButtonsOf(m))
    BY <1>4, <2>1, <2>3, RefreshedIs, NoMetaIs
  <2>5. \A m \in Macs : \A b \in DOMAIN meta'[m] : ~ButtonOfAnother(file, b, m)
    <3>1. \A m \in InputMacs : \A b \in hw[m].wire : ~ButtonOfAnother(file, b, m)
      BY <2>1 DEF Mixes
    <3>2. \A m \in Macs : DOMAIN meta'[m] = {} \/ (m \in InputMacs /\ DOMAIN meta'[m] = hw[m].wire)
      BY <2>3, <2>4, NoDevicesAre, ButtonsAre
    <3> QED
      BY <3>1, <3>2
  <2>6. file' \in InstallationConfig /\ Writable(file', edits')
    <3>1. PICK wire \in [Macs -> Devices(Buttons)] : wire = meta'
      BY <2>4
    <3>2. WithWireButtons(file, wire) \in InstallationConfig /\ Writable(WithWireButtons(file, wire), edits)
      BY <2>1, <2>2, <2>5, <3>1, ButtonsWritable DEF CacheOK
    <3> QED
      BY <1>1, <1>4, <2>1, <3>1, <3>2
  <2>7. runtime' = file'
    BY <1>4, <2>6 DEF Writable
  <2> QED
    BY <1>1, <1>2, <2>2, <2>6, <2>7, NoneAssumption DEF Sound, Writable
<1> QED
  BY <1>3, <1>4, StartIs

LEMMA CleanSweep ==
  ASSUME Core, Sound, NEW silent \in SUBSET Online, NEW arp \in BOOLEAN, InitSweep(Scan(arp, silent))
  PROVE  Sound'
<1>1. /\ phase = "starting" /\ NeedsInitSweep
      /\ known' = IF Load(file') = None THEN known ELSE file'
      /\ \/ known' = None /\ UNCHANGED <<runtime, pc, arg, merging>>
         \/ /\ known' # None /\ runtime' = known' /\ merging' = merging
            /\ Keep(Boot, known') /\ Go(Boot, "idle", "refreshing")
      /\ UNCHANGED <<meta, edits>>
  BY DEF InitSweep, Apply, calls
<1>2. edits = {}
  <2>1. known = None \/ known = <<>>
    BY <1>1 DEF NeedsInitSweep
  <2>2. Load(file) # None => known = file
    BY <1>1 DEF Core, PhaseOK
  <2>3. CASE file = None
    BY <2>3, LoadedIs
  <2>4. CASE file # None
    <3>1. file = <<>> /\ HoldsEdits(edits, file)
      BY <2>1, <2>2, <2>4, LoadedIs DEF Writable
    <3> QED
      BY <3>1, EmptyIs DEF HoldsEdits, WithMac
  <2> QED
    BY <2>3, <2>4
<1>3. file' = file \/ (file' \in InstallationConfig /\ Loads(file') /\ HasOwnLabels(file'))
  BY InitSweepIs
<1>4. IF file' = None THEN edits' = {} ELSE Writable(file', edits')
  <2>1. CASE file' = file
    BY <1>1, <2>1 DEF Sound
  <2>2. CASE file' \in InstallationConfig /\ Loads(file') /\ HasOwnLabels(file')
    BY <1>1, <1>2, <2>2 DEF Writable, HoldsEdits
  <2> QED
    BY <1>3, <2>1, <2>2
<1>5. known' # None => HasOwnLabels(known')
  BY <1>1, <1>4, LoadIs DEF Sound, Writable
<1>6. runtime' # None => HasOwnLabels(runtime')
  BY <1>1, <1>5 DEF Sound
<1>7. \A o \in Calls : pc'[o] = "storing" => pc[o] = "storing" /\ arg'[o] = arg[o]
  <2>1. Boot \in Calls
    BY DEF Calls
  <2> QED
    BY <1>1, <2>1, SoundGoesOn
<1> QED
  BY <1>1, <1>4, <1>5, <1>6, <1>7 DEF Sound, CacheOK

\* A file that is cleared did not load.
LEMMA CleanClear ==
  ASSUME Core, Sound, ClearUnloadable
  PROVE  FALSE
<1>1. phase = "starting" /\ known = None /\ file # None
  BY DEF ClearUnloadable
<1>2. Load(file) = file
  BY <1>1, LoadedIs
<1> QED
  BY <1>1, <1>2 DEF Core, PhaseOK

LEMMA CleanStop ==
  ASSUME Core, Sound, Stop
  PROVE  Sound'
<1>1. /\ runtime' = None /\ known' = None /\ meta' = NoMeta
      /\ pc' = [c \in Calls |-> IF pc[c] = "idle" THEN "idle" ELSE "done"]
      /\ merging' = None /\ UNCHANGED <<file, edits>>
  BY DEF Stop
<1>2. \A c \in Calls : pc'[c] # "storing"
  BY <1>1
<1>3. CacheOK'
  BY <1>1, NoMetaIs, NoDevicesAre DEF CacheOK, Says
<1> QED
  BY <1>1, <1>2, <1>3 DEF Sound

LEMMA CleanReady ==
  ASSUME Core, Sound, Ready \/ InitSweepFails
  PROVE  Sound'
<1>1. UNCHANGED <<file, runtime, known, meta, pc, arg, merging, edits>>
  BY DEF Ready, InitSweepFails, memory, calls
<1> QED
  BY <1>1, SoundStays

LEMMA CleanStep ==
  ASSUME Core, Sound, ~Mixed, Step PROVE Sound'
<1>1. ASSUME NEW c \in Patches,
             \/ \E i \in 1 .. Cardinality(Ips), d \in Channels \cup Buttons : Patch(c, i, d)
             \/ PatchWrite(c) \/ PatchFails(c) \/ PatchReload(c)
      PROVE  Sound'
  BY <1>1, CleanPatch
<1>2. ASSUME NEW c \in Imports,
             \/ \E doc \in Importable \cup {<<>>} : Import(c, doc)
             \/ ImportWrite(c) \/ ImportFails(c) \/ ImportReload(c)
      PROVE  Sound'
  BY <1>2, CleanImport
<1>3. ASSUME NEW c \in Refreshes, Refresh(c) \/ FetchChannels(c) PROVE Sound'
  <2>1. c \in Calls
    BY DEF Calls
  <2> QED
    BY <1>3, <2>1, CleanRefresh, CleanChannels
<1>4. ASSUME NEW c \in Calls,
             \/ \E silent \in SUBSET Online, mute \in SUBSET InputMacs : CacheRefreshed(c, silent, mute)
             \/ \E silent \in SUBSET Online : ChannelsFetched(c, silent)
             \/ PersistButtons(c) \/ PersistButtonsFails(c) \/ PersistButtonsReload(c)
             \/ StoreChannels(c) \/ StoreChannelsFails(c) \/ StoreChannelsReload(c)
      PROVE  Sound'
  BY <1>4, CleanRefresh, CleanChannels
<1>5. ASSUME NEW c \in Discoveries,
             \/ Discover(c)
             \/ \E silent \in SUBSET Online, arp \in BOOLEAN : MergeLoad(c, Scan(arp, silent))
             \/ MergeWrite(c)
      PROVE  Sound'
  BY <1>5, CleanMerge
<1>6. ASSUME NEW m \in InputMacs, NEW b \in Buttons, Learn(m, b) PROVE Sound'
  BY <1>6, CleanLearn
<1>7. ASSUME NEW silent \in SUBSET Online, NEW mute \in SUBSET InputMacs, Start(silent, mute) PROVE Sound'
  BY <1>7, CleanStart
<1>8. ASSUME NEW silent \in SUBSET Online, NEW arp \in BOOLEAN, InitSweep(Scan(arp, silent)) PROVE Sound'
  BY <1>8, CleanSweep
<1>9. CASE Ready \/ InitSweepFails \/ ClearUnloadable \/ Stop
  BY <1>9, CleanReady, CleanClear, CleanStop
<1>10. CASE \/ \E m \in Macs, ip \in Ips \cup {None} : Move(m, ip)
            \/ \E m \in Macs : \E wire \in SUBSET (IF m \in InputMacs THEN Buttons ELSE Channels) :
                 Configure(m, wire)
  <2>1. UNCHANGED <<file, runtime, known, meta, pc, arg, merging, edits>>
    BY <1>10, CoreParts, HardwareIs DEF memory, calls
  <2> QED
    BY <2>1, SoundStays
<1> QED
  BY <1>1, <1>2, <1>3, <1>4, <1>5, <1>6, <1>7, <1>8, <1>9, <1>10, Zenon DEF Step

\* It holds at first and after every step.
LEMMA CleanInit ==
  ASSUME Init PROVE Clean
<1> SUFFICES ASSUME ~mixed PROVE ~Mixed /\ Sound
  BY DEF Clean
<1>1. /\ file \in Documents /\ runtime = None /\ known = None /\ meta = NoMeta
      /\ pc = [c \in Calls |-> "idle"] /\ merging = None
      /\ edits = IF Load(file) = None THEN {} ELSE OperatorLabels(file)
      /\ mixed = ((file # None /\ Load(file) = None) \/ Mixed)
  BY DEF Init
<1>2. ~Mixed /\ (file # None => Load(file) # None)
  BY <1>1, Zenon
<1>3. IF file = None THEN edits = {} ELSE Writable(file, edits)
  <2>1. CASE file = None
    BY <1>1, <2>1 DEF Load
  <2>2. CASE file # None
    <3>1. file \in InstallationConfig /\ HasOwnLabels(file) /\ Loads(file)
      BY <1>1, <1>2, <2>2, DocumentsAssumption, OwnLabelsAssumption, LoadIs
    <3>2. HoldsEdits(edits, file)
      BY <1>1, <1>2, <2>2, <3>1, OperatorLabelsAreHeld
    <3> QED
      BY <2>2, <3>1, <3>2 DEF Writable
  <2> QED
    BY <2>1, <2>2
<1>4. CacheOK
  BY <1>1, NoMetaIs, NoDevicesAre DEF CacheOK, Says
<1> QED
  BY <1>1, <1>2, <1>3, <1>4 DEF Sound

LEMMA CleanStays ==
  ASSUME Core, Clean, [Next]_vars PROVE Clean'
<1>1. CASE Next
  <2>1. mixed' = (mixed \/ Mixed') /\ Step
    BY <1>1 DEF Next
  <2> SUFFICES ASSUME ~mixed' PROVE ~Mixed' /\ Sound'
    BY DEF Clean
  <2>2. ~mixed /\ ~Mixed'
    BY <2>1, Zenon
  <2>3. ~Mixed /\ Sound
    BY <2>2 DEF Clean
  <2> QED
    BY <2>1, <2>2, <2>3, CleanStep
<1>2. CASE UNCHANGED vars
  <2>1. UNCHANGED <<file, runtime, known, meta, pc, arg, merging, edits, mixed, hw>>
    BY <1>2 DEF vars, memory, calls
  <2>2. Sound => Sound'
    BY <2>1, SoundStays
  <2>3. Mixed' = Mixed
    BY <2>1 DEF Mixed, InUse, Mixes, AddressOfAnother, ButtonOfAnother, Online
  <2> QED
    BY <2>1, <2>2, <2>3 DEF Clean
<1> QED
  BY <1>1, <1>2

\* Until a module is found where a document puts another one, whatever edits,
\* imports, refreshes, discoveries and the learning of buttons write to
\* devices.json, in any interleaving, can be loaded at the next start.
THEOREM FileAlwaysLoads == Spec => []FileLoads
<1>1. Core /\ Clean => FileLoads
  BY LoadedIs DEF Clean, FileLoads, Writable
<1> QED
  BY <1>1, CoreInit, CoreStays, CleanInit, CleanStays, PTL DEF Spec

\* Until then, what the operator said of a device stays in the file: its label,
\* and the active flag of a button, whatever scans and refreshes write after.
THEOREM EditsAreKept == Spec => []EditsSurvive
<1>1. Core /\ Clean => EditsSurvive
  BY LoadedIs DEF Clean, EditsSurvive, Writable, HoldsEdits, IsOperators
<1> QED
  BY <1>1, CoreInit, CoreStays, CleanInit, CleanStays, PTL DEF Spec

\* Until then, a PATCH that waited for the lock hits the device it was meant for,
\* and what a module says of itself is written to it and to no other one, in the
\* file and in what is served.
THEOREM LabelsAreOwn == Spec => []LabelsBelong
<1>1. Core /\ Clean => LabelsBelong
  BY DEF Clean, LabelsBelong, Sound, Writable
<1> QED
  BY <1>1, CoreInit, CoreStays, CleanInit, CleanStays, PTL DEF Spec
=============================================================================
