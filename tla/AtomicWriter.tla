---------------------------- MODULE AtomicWriter ----------------------------
(***************************************************************************)
(* AtomicWriter (gateway/auto_discovery.py): calls that write devices.json *)
(* from the event loop and from worker threads at the same time, under an  *)
(* advisory lock on the file devices.json.lock, which every call opens (or *)
(* creates) and removes at its end.                                        *)
(*                                                                         *)
(* A caller is one call.  An editor is a read_modify_write; a replacer is  *)
(* run_forced_discovery, which loads the file before it calls write.  What *)
(* matters of the file is which calls' changes it holds (import and reset, *)
(* that replace the file on purpose, are left out).  The lock file is an   *)
(* inode, named after the call that created it, that may no longer be at   *)
(* the path; flock locks the inode.  A step is one system call.            *)
(***************************************************************************)
EXTENDS Integers, FiniteSets

CONSTANTS
  Editors, Replacers,
  Nobody            \* no lock file, no holder

Callers == Editors \cup Replacers

ASSUME DisjointAssumption == Editors \cap Replacers = {}
ASSUME FiniteAssumption == IsFiniteSet(Callers)
ASSUME NobodyAssumption == Nobody \notin Callers

VARIABLES
  path,      \* the inode at devices.json.lock
  holder,    \* holder[i]: the call that has the flock of inode i
  stage,
  fd,        \* fd[p]: the inode that p opened
  seen,      \* seen[p]: the file as p read it
  content,   \* the calls whose change devices.json holds
  result,
  overlap    \* history: two calls were at work at the same time

lockFile == <<path, holder, fd>>
writerVars == <<lockFile, stage, seen, content, result, overlap>>

WriterInit ==
  /\ path = Nobody
  /\ holder = [p \in Callers |-> Nobody]
  /\ stage = [p \in Callers |-> "idle"]
  /\ fd = [p \in Callers |-> Nobody]
  /\ seen = [p \in Callers |-> {}]
  /\ content = {}
  /\ result = [p \in Callers |-> "none"]
  /\ overlap = FALSE

\* The calls between the acquisition of the lock and the end of work().
AtWork == {p \in Callers : stage[p] \in {"locked", "read"}}

Moves(p, from, to) == stage[p] = from /\ stage' = [stage EXCEPT ![p] = to]

-----------------------------------------------------------------------------
\* run_forced_discovery: InstallationConfig.load, without the lock.
LoadUnlocked(p) ==
  /\ p \in Replacers
  /\ Moves(p, "idle", "loaded")
  /\ seen' = [seen EXCEPT ![p] = content]
  /\ UNCHANGED <<lockFile, content, result, overlap>>

\* os.open with O_CREAT.
Open(p) ==
  /\ Moves(p, IF p \in Editors THEN "idle" ELSE "loaded", "opened")
  /\ path' = IF path = Nobody THEN p ELSE path
  /\ fd' = [fd EXCEPT ![p] = path']
  /\ UNCHANGED <<holder, seen, content, result, overlap>>

\* The lock file cannot be opened.  The call goes on to unlink it all the same.
OpenFails(p) ==
  /\ Moves(p, IF p \in Editors THEN "idle" ELSE "loaded", "closed")
  /\ result' = [result EXCEPT ![p] = "error"]
  /\ UNCHANGED <<lockFile, seen, content, overlap>>

\* Lock_Shared and the other definitions with such a suffix are faulty
\* variants of the one after them: a property must fail with one in its place.
Lock_Shared(p) ==
  /\ Moves(p, "opened", "locked")
  /\ holder' = [holder EXCEPT ![fd[p]] = p]
  /\ overlap' = (overlap \/ AtWork # {})
  /\ UNCHANGED <<path, fd, seen, content, result>>

Lock(p) ==
  /\ Moves(p, "opened", "locked")
  /\ holder[fd[p]] = Nobody
  /\ holder' = [holder EXCEPT ![fd[p]] = p]
  /\ overlap' = (overlap \/ AtWork # {})
  /\ UNCHANGED <<path, fd, seen, content, result>>

\* An attempt fails and lock_timeout_s is over.  The call goes on to close and
\* unlink the lock file, which it does not hold.
LockTimesOut(p) ==
  /\ Moves(p, "opened", "closed")
  /\ holder[fd[p]] # Nobody
  /\ result' = [result EXCEPT ![p] = "timeout"]
  /\ UNCHANGED <<lockFile, seen, content, overlap>>

Read_Empty(p) ==
  /\ p \in Editors
  /\ Moves(p, "locked", "read")
  /\ UNCHANGED <<lockFile, seen, content, result, overlap>>

\* _read_json_dict
Read(p) ==
  /\ p \in Editors
  /\ Moves(p, "locked", "read")
  /\ seen' = [seen EXCEPT ![p] = content]
  /\ UNCHANGED <<lockFile, content, result, overlap>>

ReadyToWrite(p) == IF p \in Editors THEN "read" ELSE "locked"

\* _write_json_dict: a temporary file of its own, and a rename.
Write(p) ==
  /\ Moves(p, ReadyToWrite(p), "leaving")
  /\ content' = seen[p] \cup {p}
  /\ result' = [result EXCEPT ![p] = "ok"]
  /\ UNCHANGED <<lockFile, seen, overlap>>

WorkFails_AfterRename(p) ==
  /\ Moves(p, ReadyToWrite(p), "leaving")
  /\ content' = seen[p] \cup {p}
  /\ result' = [result EXCEPT ![p] = "error"]
  /\ UNCHANGED <<lockFile, seen, overlap>>

\* The file cannot be read, mutate refuses the change, or the temporary file
\* cannot be written.
WorkFails(p) ==
  /\ \E at \in {"locked", "read"} : Moves(p, at, "leaving")
  /\ result' = [result EXCEPT ![p] = "error"]
  /\ UNCHANGED <<lockFile, seen, content, overlap>>

\* LOCK_UN and close.
Unlock(p) ==
  /\ Moves(p, "leaving", "closed")
  /\ holder' = [holder EXCEPT ![fd[p]] = Nobody]
  /\ UNCHANGED <<path, fd, seen, content, result, overlap>>

\* os.unlink removes whatever lock file is at the path.
Unlink(p) ==
  /\ Moves(p, "closed", "done")
  /\ path' = Nobody
  /\ UNCHANGED <<holder, fd, seen, content, result, overlap>>

WriterNext ==
  \E p \in Callers :
    \/ LoadUnlocked(p) \/ Open(p) \/ OpenFails(p) \/ Lock(p) \/ LockTimesOut(p)
    \/ Read(p) \/ Write(p) \/ WorkFails(p) \/ Unlock(p) \/ Unlink(p)

WriterSpec == WriterInit /\ [][WriterNext]_writerVars

-----------------------------------------------------------------------------
\* Types; a call that has returned has a result for its caller.
TypeOK ==
  /\ path \in Callers \cup {Nobody}
  /\ holder \in [Callers -> Callers \cup {Nobody}]
  /\ fd \in [Callers -> Callers \cup {Nobody}]
  /\ stage \in [Callers -> {"idle", "loaded", "opened", "locked", "read", "leaving",
                         "closed", "done"}]
  /\ seen \in [Callers -> SUBSET Callers]
  /\ content \subseteq Callers
  /\ overlap \in BOOLEAN
  /\ \A p \in Callers : stage[p] = "done" => result[p] \in {"ok", "timeout", "error"}

\* Two calls are never at work at once unless a third one is involved: with one
\* call at a time waiting, the removal of the lock file does no harm.
OverlapNeedsThree ==
  overlap => Cardinality({p \in Callers : stage[p] \notin {"idle", "loaded"}}) >= 3

\* A change that was written is in the file for good as long as calls do not
\* overlap, unless a discovery that had loaded the file before wrote it after.
ChangesSurvive ==
  ~overlap => \A p \in Callers : result[p] = "ok" =>
    \/ p \in content
    \/ \E r \in Replacers : result[r] = "ok" /\ p \notin seen[r]

\* A call that returns a failure has changed nothing, not even through the
\* copy that another call read.
FailuresLeaveNoTrace ==
  \A p \in Callers : result[p] \in {"timeout", "error"} =>
    p \notin content /\ \A q \in Callers : p \notin seen[q]

\* read_modify_write: "Hold the lock across read -> mutate -> write."
LockHeldAcross == Cardinality(AtWork) <= 1
=============================================================================
