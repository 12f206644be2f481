----------------------------- MODULE ArpMonitor -----------------------------
(***************************************************************************)
(* The passive ARP monitor (ArpMonitor of gateway/auto_discovery.py), the  *)
(* callbacks the DiscoveryOrchestrator hangs on it, and the issues they    *)
(* open and clear in GatewayHealthMonitor (gateway/health.py).             *)
(*                                                                         *)
(* A poll reads the kernel's ARP table and runs to its end without a       *)
(* suspension: one step.  The table is the environment's: entries come,    *)
(* go and move as they like.  Rows of other vendors are left out, and of   *)
(* two rows with one MAC the last counts, so a table is a function.        *)
(* Health issues of other parts of the gateway are left out.               *)
(***************************************************************************)
EXTENDS Integers

CONSTANTS
  Macs,     \* MAC addresses of field modules
  Ips,      \* IP addresses they can have
  None,     \* no address: the MAC is not in the ARP table
  N         \* removed_after_n_polls

ASSUME NoneAssumption == None \notin Ips
ASSUME NAssumption == N \in Nat \ {0}

VARIABLES
  table,    \* the ARP table as the last poll read it
  ip,       \* _state[m].ip, or None for a MAC that is not in _state
  misses,   \* _state[m].consecutive_misses
  known,    \* the MACs in the orchestrator's installation
  issues,   \* the MACs with an open issue discovery.unreachable
  out,      \* the events of the last step
  absent    \* history: absent[m], polls since m was seen, up to N, or Never

vars == <<table, ip, misses, known, issues, out, absent>>

Never == -1

Tracked == {m \in Macs : ip[m] # None}
Seen(t) == {m \in Macs : t[m] # None}

Init ==
  /\ table = [m \in Macs |-> None]
  /\ ip = [m \in Macs |-> None]
  /\ misses = [m \in Macs |-> 0]
  /\ known \in SUBSET Macs
  /\ issues = {}
  /\ out = {}
  /\ absent = [m \in Macs |-> Never]

-----------------------------------------------------------------------------
New(t) == Seen(t) \ Tracked
Moved(t) == {m \in Seen(t) \cap Tracked : t[m] # ip[m]}
Missing(t) == Tracked \ Seen(t)

\* Removed_OneLate and the other definitions with such a suffix are faulty
\* variants of the one after them: a property must fail with one in its place.
Removed_OneLate(t) == {m \in Missing(t) : misses[m] + 1 > N}

Removed(t) == {m \in Missing(t) : misses[m] + 1 >= N}

\* consecutive_misses after a poll.  A MAC that is seen at its old address
\* keeps its count.
Count(t) ==
  [m \in Macs |->
    IF m \in New(t) \cup Moved(t) \cup Removed(t) THEN 0
    ELSE IF m \in Missing(t) THEN misses[m] + 1
    ELSE misses[m]]

\* _on_arp_new clears the issue, _on_arp_missing opens one.
Issues_KnownOnly(t) == (issues \ (New(t) \cap known)) \cup Removed(t)

Issues(t) == (issues \ New(t)) \cup Removed(t)

Events_KnownOnly(t) ==
  {[type |-> "device_added", mac |-> m, ip |-> t[m]] : m \in New(t) \ known}
    \cup {[type |-> "device_removed", mac |-> m, ip |-> None] : m \in Removed(t) \cap known}

\* A new MAC is told only if the installation does not have it.
Events(t) ==
  {[type |-> "device_added", mac |-> m, ip |-> t[m]] : m \in New(t) \ known}
    \cup {[type |-> "device_ip_changed", mac |-> m, ip |-> t[m]] : m \in Moved(t)}
    \cup {[type |-> "device_removed", mac |-> m, ip |-> None] : m \in Removed(t)}

\* _poll
Poll(t) ==
  /\ table' = t
  /\ ip' = [m \in Macs |-> IF m \in Removed(t) THEN None
                           ELSE IF m \in Seen(t) THEN t[m] ELSE ip[m]]
  /\ misses' = Count(t)
  /\ issues' = Issues(t)
  /\ out' = Events(t)
  /\ absent' = [m \in Macs |-> IF m \in Seen(t) THEN 0
                               ELSE IF absent[m] = Never THEN Never
                               ELSE IF absent[m] < N THEN absent[m] + 1 ELSE N]
  /\ UNCHANGED known

\* A forced discovery or an init sweep gives the orchestrator an installation.
InstallationChanges(S) ==
  /\ S # known
  /\ known' = S
  /\ out' = {}
  /\ UNCHANGED <<table, ip, misses, issues, absent>>

Next ==
  \/ \E t \in [Macs -> Ips \cup {None}] : Poll(t)
  \/ \E S \in SUBSET Macs : InstallationChanges(S)

Spec == Init /\ [][Next]_vars

-----------------------------------------------------------------------------
\* Types; the count of a tracked MAC is always below the threshold.
TypeOK ==
  /\ table \in [Macs -> Ips \cup {None}]
  /\ ip \in [Macs -> Ips \cup {None}]
  /\ misses \in [Macs -> 0 .. N - 1]
  /\ known \subseteq Macs
  /\ issues \subseteq Macs
  /\ absent \in [Macs -> Never .. N]

\* A module that the last poll saw is tracked at the address it was seen at,
\* and has no open issue, known to the installation or not.
SeenIsReachable ==
  \A m \in Seen(table) : ip[m] = table[m] /\ m \notin issues

\* A module that was seen once and then not for N polls in a row is reported:
\* the issue is open, and stays open until it is seen again.
GoneIsReported ==
  \A m \in Macs : absent[m] = N => m \in issues /\ m \notin Tracked

\* The events of a poll agree with the issues: device_removed is sent exactly
\* when the issue opens, and device_added or nothing when it closes.
EventsMatchIssues ==
  [][\A m \in Macs :
       /\ m \in issues' \ issues <=> \E e \in out' : e.type = "device_removed" /\ e.mac = m
       /\ m \in issues \ issues' =>
            \/ m \in known
            \/ [type |-> "device_added", mac |-> m, ip |-> table'[m]] \in out']_vars

\* docs/api/websocket.md says of device_removed: "Emitted after
\* `removed_after_n_polls` (default 3) consecutive ARP polls without seeing
\* this MAC."
RemovedAfterConsecutive ==
  [][\A e \in out' : e.type = "device_removed" => absent'[e.mac] = N]_vars
=============================================================================
