---------------------------- MODULE Gateway_proofs ----------------------------
(***************************************************************************)
(* What clients and Home Assistant are told by a gateway that starts, runs *)
(* and stops, for any modules, addresses, interfaces and answers of the    *)
(* Supervisor; and what the ARP monitor reports, alone and in the gateway, *)
(* for any modules, addresses and number of polls.                         *)
(***************************************************************************)
EXTENDS Gateway, WellFoundedInduction, TLAPS

USE MaxUuidsAssumption

-----------------------------------------------------------------------------
(***************************************************************************)
(* Health                                                                  *)
(***************************************************************************)

\* What was told last is always the health as it is, and only a client of an API
\* that is open was told anything.
HealthInv ==
  /\ phase = "boot" => issues = {}
  /\ notified = Open
  /\ shown # Nobody => shown = Open /\ phase \in {"announce", "run", "close"}

LEMMA HealthInit == GatewayInit => HealthInv
BY DEF GatewayInit, Init, HealthInv, Open

LEMMA HealthStep == HealthInv /\ [GatewayNext]_gatewayVars => HealthInv'
<1> SUFFICES ASSUME HealthInv, [GatewayNext]_gatewayVars PROVE HealthInv'
  OBVIOUS
<1> USE DEF HealthInv, Open, Notify, NotifyKey, Serves
<1>1. ASSUME NEW S, Given(S) PROVE issues' = issues
  BY <1>1 DEF Given, InstallationChanges, vars
<1>2. ASSUME NEW S, NEW file, Boot(S, file) PROVE HealthInv'
  BY <1>1, <1>2 DEF Boot
<1>3. CASE Monitor \/ OpenApi \/ StopMonitor \/ StopApi \/ StopAnnouncing
  BY <1>3 DEF Monitor, OpenApi, StopMonitor, StopApi, StopAnnouncing, vars
<1>4. CASE Announce
  BY <1>4 DEF Announce, vars
<1>5. ASSUME NEW ok, MetadataRefreshed(ok) PROVE HealthInv'
  BY <1>5 DEF MetadataRefreshed, vars
<1>6. ASSUME NEW S, Discovered(S) PROVE HealthInv'
  BY <1>1, <1>6 DEF Discovered
<1>7. CASE Imported \/ ClientConnects \/ ClientLeaves
  BY <1>7 DEF Imported, ClientConnects, ClientLeaves, vars
<1>8. ASSUME NEW t, MonitorPolls(t) PROVE HealthInv'
  BY <1>8 DEF MonitorPolls, Monitors
<1>9. CASE AnnounceLoop \/ HomeAssistant \/ UNCHANGED gatewayVars
  BY <1>9 DEF AnnounceLoop, HomeAssistant, gatewayVars, vars, own
<1> QED
  BY <1>2, <1>3, <1>4, <1>5, <1>6, <1>7, <1>8, <1>9 DEF GatewayNext, Lifecycle

\* Whoever is connected was told the health as it is, after any polls, refreshes,
\* discoveries and imports.
THEOREM HealthIsAlwaysTold == GatewaySpec => []HealthIsTold
<1>1. HealthInv => HealthIsTold
  BY DEF HealthInv, HealthIsTold
<1> QED
  BY <1>1, HealthInit, HealthStep, PTL DEF GatewaySpec

-----------------------------------------------------------------------------
(***************************************************************************)
(* Home Assistant                                                          *)
(***************************************************************************)
Late == {"unregister", "delete", "down"}

\* Uuids only grow: what the gateway remembers is the last it was told, and an
\* answer on its way is not older.  An entry it was told of is the remembered one.
UuidsGrow ==
  /\ used \in 0 .. MaxUuids
  /\ entry \in {0, used}
  /\ uuid \in 0 .. used
  /\ told \subseteq 1 .. uuid
  /\ \/ request \in {Ha!NoRequest, Ha!Sent, Ha!Refused}
     \/ request \in uuid .. used

\* The loop runs only in an add-on that is up; the service is known only while it
\* is registered, or after its removal failed.
ChannelsFit ==
  /\ ~addon => told = {} /\ task = "none"
  /\ stage \in Late => task = "none"
  /\ mdns # Ha!NoService => registered \/ "mdns" \in leftover
  /\ stage \in {"delete", "down"} => mdns = Ha!NoService \/ "mdns" \in leftover
  /\ stage = "down" => entry \notin told \/ "entry" \in leftover

HaInv == UuidsGrow /\ ChannelsFit

LEMMA HaInit == GatewayInit => HaInv
BY DEF GatewayInit, Ha!Init, HaInv, UuidsGrow, ChannelsFit, Late, Ha!NoRequest

LEMMA StartingKeeps == HaInv /\ (Ha!Start \/ Ha!Starting) => HaInv'
<1> SUFFICES ASSUME HaInv, Ha!Start \/ Ha!Starting PROVE HaInv'
  OBVIOUS
<1> USE DEF HaInv, UuidsGrow, ChannelsFit, Late
<1>1. CASE Ha!Start
  BY <1>1 DEF Ha!Start
<1>2. ASSUME NEW info, NEW route, Ha!Resolve(info, route) PROVE HaInv'
  BY <1>2 DEF Ha!Resolve
<1>3. CASE Ha!Register
  BY <1>3 DEF Ha!Register, Ha!Up
<1>4. CASE Ha!Registered
  BY <1>4 DEF Ha!Registered, Ha!Up
<1>5. CASE Ha!RegisterFails
  BY <1>5 DEF Ha!RegisterFails, Ha!Up
<1> QED
  BY <1>1, <1>2, <1>3, <1>4, <1>5 DEF Ha!Starting

LEMMA LoopKeeps == HaInv /\ Ha!Loop => HaInv'
<1> SUFFICES ASSUME HaInv, Ha!Loop PROVE HaInv'
  OBVIOUS
<1> USE DEF HaInv, UuidsGrow, ChannelsFit, Late
<1>1. CASE Ha!Post
  BY <1>1 DEF Ha!Post
<1>2. CASE Ha!Announced
  BY <1>2 DEF Ha!Announced, Ha!Remembered, Ha!NoRequest, Ha!Sent, Ha!Refused
<1>3. CASE Ha!AnnounceFails
  BY <1>3 DEF Ha!AnnounceFails
<1>4. CASE Ha!Wake
  BY <1>4 DEF Ha!Wake
<1> QED
  BY <1>1, <1>2, <1>3, <1>4 DEF Ha!Loop

LEMMA SupervisorKeeps == HaInv /\ Ha!Supervisor => HaInv'
<1> SUFFICES ASSUME HaInv, Ha!Supervisor PROVE HaInv'
  OBVIOUS
<1> USE DEF HaInv, UuidsGrow, ChannelsFit, Late, Ha!process
<1>1. CASE Ha!Lists
  BY <1>1 DEF Ha!Lists, Ha!Listed, Ha!NoRequest, Ha!Sent, Ha!Refused
<1>2. CASE Ha!Refuses
  BY <1>2 DEF Ha!Refuses
<1>3. CASE Ha!Forgets
  BY <1>3 DEF Ha!Forgets, Ha!NoRequest, Ha!Sent, Ha!Refused
<1> QED
  BY <1>1, <1>2, <1>3 DEF Ha!Supervisor

LEMMA StoppingKeeps == HaInv /\ (Ha!Stop \/ Ha!Stopping) => HaInv'
<1> SUFFICES ASSUME HaInv, Ha!Stop \/ Ha!Stopping PROVE HaInv'
  OBVIOUS
<1> USE DEF HaInv, UuidsGrow, ChannelsFit, Late
<1>1. CASE Ha!Stop
  BY <1>1 DEF Ha!Stop
<1>2. ASSUME NEW ok \in BOOLEAN, Ha!Unregister(ok) PROVE HaInv'
  BY <1>2 DEF Ha!Unregister
<1>3. ASSUME NEW ok \in BOOLEAN, Ha!Delete(ok) PROVE HaInv'
  <2>1. entry \in told => entry = uuid
    OBVIOUS
  <2>2. entry' \notin told' \/ "entry" \in leftover'
    BY <1>3, <2>1 DEF Ha!Delete
  <2>3. UuidsGrow'
    BY <1>3 DEF Ha!Delete
  <2> QED
    BY <1>3, <2>2, <2>3 DEF Ha!Delete
<1> QED
  BY <1>1, <1>2, <1>3 DEF Ha!Stopping

LEMMA HaStep == HaInv /\ [GatewayNext]_gatewayVars => HaInv'
<1> SUFFICES ASSUME HaInv, [GatewayNext]_gatewayVars PROVE HaInv'
  OBVIOUS
<1>1. CASE Announce
  BY <1>1, StartingKeeps DEF Announce
<1>2. CASE AnnounceLoop
  BY <1>2, LoopKeeps DEF AnnounceLoop
<1>3. CASE HomeAssistant
  BY <1>3, SupervisorKeeps DEF HomeAssistant
<1>4. CASE StopAnnouncing
  BY <1>4, StoppingKeeps DEF StopAnnouncing
<1>5. ASSUME UNCHANGED haVars PROVE HaInv'
  BY <1>5 DEF haVars, HaInv, UuidsGrow, ChannelsFit
<1>6. CASE \/ \E S \in SUBSET Macs, file \in {"absent", "broken", "loads"} : Boot(S, file)
           \/ Monitor \/ OpenApi \/ StopMonitor \/ StopApi
  BY <1>5, <1>6 DEF Boot, Monitor, OpenApi, StopMonitor, StopApi
<1>7. CASE \/ \E ok \in BOOLEAN : MetadataRefreshed(ok)
           \/ \E S \in SUBSET Macs : Discovered(S)
           \/ Imported \/ ClientConnects \/ ClientLeaves
           \/ \E t \in [Macs -> Ips \cup {None}] : MonitorPolls(t)
  BY <1>5, <1>7 DEF MetadataRefreshed, Discovered, Imported, ClientConnects, ClientLeaves,
                    MonitorPolls
<1>8. CASE UNCHANGED gatewayVars
  BY <1>5, <1>8 DEF gatewayVars
<1> QED
  BY <1>1, <1>2, <1>3, <1>4, <1>6, <1>7, <1>8 DEF GatewayNext, Lifecycle

\* A gateway that has stopped is not found by anything it was told it registered,
\* unless a removal failed, whatever the Supervisor forgot, refused or was late with.
THEOREM StopLeavesNothing == GatewaySpec => []NothingToldIsLeft
<1>1. HaInv => NothingToldIsLeft
  BY DEF HaInv, ChannelsFit, NothingToldIsLeft, Ha!NothingToldIsLeft
<1> QED
  BY <1>1, HaInit, HaStep, PTL DEF GatewaySpec

-----------------------------------------------------------------------------
\* An add-on keeps only an address of the LAN, and announces what it keeps.
AnnouncesKept ==
  addon => /\ publishIp \in {Ha!NoIp, "lan"}
           /\ {mdns.address, mdns.host} \subseteq {Ha!NoIp, "lan"}
           /\ stage = "probe" => publishIp = "lan"

\* A set of places has a first one.
LEMMA FirstExists ==
  ASSUME NEW S \in SUBSET Nat, S # {}
  PROVE  Ha!First(S) \in S
<1>1. OpToRel(<, Nat) = {p \in Nat \X Nat : p[1] < p[2]}
  BY Zenon DEF OpToRel
<1>2. IsWellFoundedOn({p \in Nat \X Nat : p[1] < p[2]}, Nat)
  BY <1>1, NatLessThanWellFounded, Zenon
<1>3. PICK x \in S : \A y \in S : ~ (<<y, x>> \in {p \in Nat \X Nat : p[1] < p[2]})
  BY <1>2, WFMin, Zenon
<1>4. ASSUME NEW y \in S PROVE x <= y
  <2>1. x \in Nat /\ y \in Nat
    OBVIOUS
  <2>2. y < x => <<y, x>> \in {p \in Nat \X Nat : p[1] < p[2]}
    BY <2>1
  <2>3. ~ (y < x)
    BY <1>3, <2>2, Zenon
  <2> QED
    BY <2>1, <2>3
<1> QED
  BY <1>4 DEF Ha!First

\* What the Supervisor says of its interfaces leads to one of the LAN, or to none.
LEMMA PicksLan ==
  ASSUME NEW info \in Ha!Answers
  PROVE  Ha!FromNetworkInfo(info) \in {Ha!NoIp, "lan"}
<1> DEFINE usable == {i \in DOMAIN info : /\ ~info[i].virtual /\ info[i].up
                                          /\ Ha!Publishable(info[i].host)}
           primary == {i \in usable : info[i].primary}
           routed == {i \in usable : info[i].gateway}
           best == IF primary # {} THEN primary ELSE IF routed # {} THEN routed ELSE usable
<1>1. Ha!FromNetworkInfo(info) = IF best = {} THEN Ha!NoIp ELSE info[Ha!First(best)].host
  BY DEF Ha!FromNetworkInfo
<1>2. DOMAIN info \subseteq Nat /\ \A i \in DOMAIN info : info[i].virtual \/ info[i].host # "docker"
  BY InfosAssumption DEF Ha!Answers
<1>3. best \subseteq usable
  OBVIOUS
<1>4. \A i \in usable : info[i].host = "lan"
  BY <1>2 DEF Ha!Publishable
<1> HIDE DEF best, usable
<1>5. CASE best # {}
  <2>1. best \in SUBSET Nat
    BY <1>2, <1>3 DEF usable
  <2>2. Ha!First(best) \in best
    BY <1>5, <2>1, FirstExists
  <2> QED
    BY <1>1, <1>3, <1>4, <1>5, <2>2
<1> QED
  BY <1>1, <1>5

LEMMA KeptInit == GatewayInit => AnnouncesKept
BY DEF GatewayInit, Ha!Init, AnnouncesKept, Ha!ApiHosts, Ha!Routes, Ha!FirstIp, Ha!Picked,
       Ha!Publishable, Ha!Wildcard, Ha!NoIp, Ha!NoService

LEMMA KeptStep == AnnouncesKept /\ [GatewayNext]_gatewayVars => AnnouncesKept'
<1> SUFFICES ASSUME AnnouncesKept, [GatewayNext]_gatewayVars PROVE AnnouncesKept'
  OBVIOUS
<1> USE DEF AnnouncesKept
<1>1. CASE Ha!Start
  BY <1>1 DEF Ha!Start
<1>2. ASSUME NEW info \in Ha!Answers, NEW route \in Ha!Routes, Ha!Resolve(info, route)
      PROVE AnnouncesKept'
  BY <1>2, PicksLan DEF Ha!Resolve, Ha!Routes
<1>3. CASE Ha!Register
  BY <1>3 DEF Ha!Register, Ha!Up
<1>4. CASE Ha!Registered
  BY <1>4 DEF Ha!Registered, Ha!Up, Ha!Service, Ha!UrlHost, Ha!NoIp
<1>5. CASE Ha!RegisterFails
  BY <1>5 DEF Ha!RegisterFails, Ha!Up
<1>6. CASE Ha!Loop
  BY <1>6 DEF Ha!Loop, Ha!Post, Ha!Announced, Ha!AnnounceFails, Ha!Wake
<1>7. CASE Ha!Supervisor
  BY <1>7 DEF Ha!Supervisor, Ha!Lists, Ha!Refuses, Ha!Forgets, Ha!process
<1>8. CASE Ha!Stop
  BY <1>8 DEF Ha!Stop
<1>9. ASSUME NEW ok \in BOOLEAN, Ha!Unregister(ok) \/ Ha!Delete(ok) PROVE AnnouncesKept'
  <2>1. CASE Ha!Unregister(ok)
    <3>1. mdns' = mdns \/ (mdns'.address = Ha!NoIp /\ mdns'.host = Ha!NoIp)
      BY <2>1 DEF Ha!Unregister, Ha!NoService
    <3>2. stage' = "delete" /\ addon' = addon /\ publishIp' = publishIp
      BY <2>1 DEF Ha!Unregister
    <3> QED
      BY <3>1, <3>2
  <2>2. CASE Ha!Delete(ok)
    BY <2>2 DEF Ha!Delete
  <2> QED
    BY <1>9, <2>1, <2>2
<1>10. CASE Announce
  BY <1>1, <1>2, <1>3, <1>4, <1>5, <1>10 DEF Announce, Ha!Starting
<1>11. CASE AnnounceLoop
  BY <1>6, <1>11 DEF AnnounceLoop
<1>12. CASE HomeAssistant
  BY <1>7, <1>12 DEF HomeAssistant
<1>13. CASE StopAnnouncing
  BY <1>8, <1>9, <1>13 DEF StopAnnouncing, Ha!Stopping
<1>14. ASSUME UNCHANGED haVars PROVE AnnouncesKept'
  BY <1>14 DEF haVars
<1>15. CASE \/ \E S \in SUBSET Macs, file \in {"absent", "broken", "loads"} : Boot(S, file)
            \/ Monitor \/ OpenApi \/ StopMonitor \/ StopApi
  BY <1>14, <1>15 DEF Boot, Monitor, OpenApi, StopMonitor, StopApi
<1>16. CASE \/ \E ok \in BOOLEAN : MetadataRefreshed(ok)
            \/ \E S \in SUBSET Macs : Discovered(S)
            \/ Imported \/ ClientConnects \/ ClientLeaves
            \/ \E t \in [Macs -> Ips \cup {None}] : MonitorPolls(t)
  BY <1>14, <1>16 DEF Discovered, MetadataRefreshed, Imported, ClientConnects, ClientLeaves,
                      MonitorPolls
<1>17. CASE UNCHANGED gatewayVars
  BY <1>14, <1>17 DEF gatewayVars
<1> QED
  BY <1>10, <1>11, <1>12, <1>13, <1>15, <1>16, <1>17 DEF GatewayNext, Lifecycle

\* What an add-on announces, as the address of its service and in the TXT record, is
\* an address of the LAN: for all interfaces that the Supervisor may list, in any
\* order, and whatever the gateway is bound to.
THEOREM OnlyLanIsAnnounced == GatewaySpec => []AddonAnnouncesLan
<1>1. AnnouncesKept => AddonAnnouncesLan
  BY DEF AnnouncesKept, AddonAnnouncesLan, Ha!AddonAnnouncesLan
<1> QED
  BY <1>1, KeptInit, KeptStep, PTL DEF GatewaySpec

-----------------------------------------------------------------------------
(***************************************************************************)
(* The ARP monitor.  Its count of misses is no count of consecutive ones,  *)
(* but it is never less than that: this is why no module that is gone      *)
(* stays unseen.                                                           *)
(***************************************************************************)

\* A tracked module was seen, and missed at least as often as in a row.
TrackedCounts ==
  \A m \in Tracked : absent[m] # Never /\ absent[m] <= misses[m] /\ m \notin issues

\* An untracked module was never seen, or is reported.
UntrackedIsReported ==
  \A m \in Macs \ Tracked : absent[m] = Never \/ m \in issues

SeenIsTracked == \A m \in Seen(table) : ip[m] = table[m]

IInv == TypeOK /\ TrackedCounts /\ UntrackedIsReported /\ SeenIsTracked

USE NoneAssumption, NAssumption DEF Never

-----------------------------------------------------------------------------
LEMMA InitIInv == Init => IInv
BY DEF Init, IInv, TypeOK, TrackedCounts, UntrackedIsReported, SeenIsTracked, Tracked, Seen

LEMMA PollIInv ==
  ASSUME IInv, NEW t \in [Macs -> Ips \cup {None}], Poll(t)
  PROVE  IInv'
<1> USE DEF Tracked, Seen, New, Moved, Missing, Removed
<1>1. TypeOK'
  <2>1. misses' \in [Macs -> 0 .. N - 1]
    BY DEF IInv, TypeOK, Poll, Count
  <2>2. issues' \subseteq Macs
    BY DEF IInv, TypeOK, Poll, Issues
  <2>3. absent' \in [Macs -> Never .. N]
    BY DEF IInv, TypeOK, Poll
  <2> QED
    BY <2>1, <2>2, <2>3 DEF IInv, TypeOK, Poll
<1>2. TrackedCounts'
  <2> SUFFICES ASSUME NEW m \in Macs, ip'[m] # None
               PROVE  absent'[m] # Never /\ absent'[m] <= misses'[m] /\ m \notin issues'
    BY DEF TrackedCounts
  <2>1. CASE t[m] # None
    BY <2>1 DEF IInv, TypeOK, TrackedCounts, Poll, Count, Issues
  <2>2. CASE t[m] = None
    BY <2>2 DEF IInv, TypeOK, TrackedCounts, Poll, Count, Issues
  <2> QED
    BY <2>1, <2>2
<1>3. UntrackedIsReported'
  <2> SUFFICES ASSUME NEW m \in Macs, ip'[m] = None
               PROVE  absent'[m] = Never \/ m \in issues'
    BY DEF UntrackedIsReported
  <2>1. t[m] = None
    BY DEF IInv, TypeOK, Poll
  <2>2. CASE ip[m] = None
    BY <2>1, <2>2 DEF IInv, TypeOK, UntrackedIsReported, Poll, Issues
  <2>3. CASE ip[m] # None
    BY <2>1, <2>3 DEF IInv, TypeOK, Poll, Issues
  <2> QED
    BY <2>2, <2>3
<1>4. SeenIsTracked'
  BY DEF IInv, TypeOK, SeenIsTracked, Poll
<1> QED
  BY <1>1, <1>2, <1>3, <1>4 DEF IInv

LEMMA StepIInv == IInv /\ [Next]_vars => IInv'
<1> SUFFICES ASSUME IInv, [Next]_vars PROVE IInv'
  OBVIOUS
<1>1. CASE \E t \in [Macs -> Ips \cup {None}] : Poll(t)
  BY <1>1, PollIInv
<1>2. CASE \E S \in SUBSET Macs : InstallationChanges(S)
  BY <1>2 DEF InstallationChanges, IInv, TypeOK, TrackedCounts, UntrackedIsReported,
              SeenIsTracked, Tracked, Seen
<1>3. CASE UNCHANGED vars
  BY <1>3 DEF vars, IInv, TypeOK, TrackedCounts, UntrackedIsReported, SeenIsTracked,
              Tracked, Seen
<1> QED
  BY <1>1, <1>2, <1>3 DEF Next

LEMMA Inductive == Spec => []IInv
BY InitIInv, StepIInv, PTL DEF Spec

\* The monitor's state keeps its type; a count never reaches N.
THEOREM TypeCorrect == Spec => []TypeOK
<1>1. IInv => TypeOK
  BY DEF IInv
<1> QED
  BY <1>1, Inductive, PTL

\* What the last poll saw is tracked there, with no open issue.
THEOREM SeenModulesAreReachable == Spec => []SeenIsReachable
<1>1. IInv => SeenIsReachable
  <2> SUFFICES ASSUME IInv, NEW m \in Seen(table) PROVE ip[m] = table[m] /\ m \notin issues
    BY Zenon DEF SeenIsReachable
  <2>1. ip[m] = table[m]
    BY DEF IInv, SeenIsTracked
  <2>2. m \in Tracked
    BY <2>1 DEF Seen, Tracked
  <2> QED
    BY <2>1, <2>2 DEF IInv, TrackedCounts
<1> QED
  BY <1>1, Inductive, PTL

\* A module that stays away for N polls is reported, for every N.
THEOREM GoneModulesAreReported == Spec => []GoneIsReported
<1>1. IInv => GoneIsReported
  BY DEF IInv, TypeOK, TrackedCounts, UntrackedIsReported, GoneIsReported, Tracked
<1> QED
  BY <1>1, Inductive, PTL

\* A poll reports a module as removed exactly when its issue opens, and a module
\* whose issue closes is told as new unless the installation has it.
LEMMA PollMatches ==
  ASSUME IInv, NEW t \in [Macs -> Ips \cup {None}], Poll(t), NEW m \in Macs
  PROVE  /\ m \in issues' \ issues <=> \E e \in out' : e.type = "device_removed" /\ e.mac = m
         /\ m \in issues \ issues' =>
              \/ m \in known
              \/ [type |-> "device_added", mac |-> m, ip |-> table'[m]] \in out'
<1>1. m \in Removed(t) => m \notin issues
  BY DEF IInv, TrackedCounts, Removed, Missing
<1>2. m \in issues' \ issues <=> m \in Removed(t)
  BY <1>1 DEF Poll, Issues
<1>3. (\E e \in out' : e.type = "device_removed" /\ e.mac = m) <=> m \in Removed(t)
  <2>1. \A e \in out' : e.type = "device_removed" => e.mac \in Removed(t)
    BY DEF Poll, Events
  <2>2. m \in Removed(t) => [type |-> "device_removed", mac |-> m, ip |-> None] \in out'
    BY DEF Poll, Events
  <2> QED
    BY <2>1, <2>2
<1>4. m \in issues \ issues' => m \in New(t)
  BY DEF Poll, Issues
<1>5. m \in New(t) \ known => [type |-> "device_added", mac |-> m, ip |-> table'[m]] \in out'
  BY DEF Poll, Events
<1> QED
  BY <1>2, <1>3, <1>4, <1>5

\* Clients and the health monitor hear the same of every module, in every step.
THEOREM EventsFollowIssues == Spec => EventsMatchIssues
<1> DEFINE A == \A m \in Macs :
              /\ m \in issues' \ issues <=> \E e \in out' : e.type = "device_removed" /\ e.mac = m
              /\ m \in issues \ issues' =>
                   \/ m \in known
                   \/ [type |-> "device_added", mac |-> m, ip |-> table'[m]] \in out'
<1>1. IInv /\ [Next]_vars => [A]_vars
  <2> SUFFICES ASSUME IInv, Next PROVE A
    OBVIOUS
  <2>1. CASE \E t \in [Macs -> Ips \cup {None}] : Poll(t)
    BY <2>1, PollMatches, Zenon
  <2>2. CASE \E S \in SUBSET Macs : InstallationChanges(S)
    <3>1. issues' = issues /\ out' = {}
      BY <2>2 DEF InstallationChanges
    <3> QED
      BY <3>1
  <2> QED
    BY <2>1, <2>2, Zenon DEF Next
<1> QED
  BY <1>1, Inductive, PTL DEF Spec, EventsMatchIssues

-----------------------------------------------------------------------------
(***************************************************************************)
(* The monitor in the gateway                                              *)
(***************************************************************************)

\* A step of the gateway is a poll, gives the orchestrator another installation,
\* or leaves the monitor alone.
LEMMA MonitorStep == [GatewayNext]_gatewayVars => [Next]_vars
<1> SUFFICES ASSUME [GatewayNext]_gatewayVars PROVE [Next]_vars
  OBVIOUS
<1>1. ASSUME NEW S \in SUBSET Macs, Given(S) PROVE [Next]_vars
  BY <1>1, Zenon DEF Given, Next
<1>2. ASSUME NEW S \in SUBSET Macs, NEW file, Boot(S, file) PROVE [Next]_vars
  <2>1. Given(IF served' THEN S ELSE {}) /\ (IF served' THEN S ELSE {}) \in SUBSET Macs
    BY <1>2 DEF Boot
  <2>2. QED
    BY <1>1, <2>1
<1>3. CASE Monitor \/ OpenApi \/ Announce \/ StopMonitor \/ StopApi \/ StopAnnouncing
  BY <1>3, Zenon DEF Monitor, OpenApi, Announce, StopMonitor, StopApi, StopAnnouncing
<1>4. CASE \/ \E ok \in BOOLEAN : MetadataRefreshed(ok)
           \/ Imported \/ ClientConnects \/ ClientLeaves \/ AnnounceLoop \/ HomeAssistant
  BY <1>4, Zenon DEF MetadataRefreshed, Imported, ClientConnects, ClientLeaves, AnnounceLoop,
                     HomeAssistant
<1>5. ASSUME NEW S \in SUBSET Macs, Discovered(S) PROVE [Next]_vars
  BY <1>1, <1>5, Zenon DEF Discovered
<1>6. ASSUME NEW t \in [Macs -> Ips \cup {None}], MonitorPolls(t) PROVE [Next]_vars
  BY <1>6, Zenon DEF MonitorPolls, Next
<1>7. CASE UNCHANGED gatewayVars
  BY <1>7, Zenon DEF gatewayVars
<1>8. QED
  BY <1>2, <1>3, <1>4, <1>5, <1>6, <1>7, Zenon DEF GatewayNext, Lifecycle

\* Refinement: through the start, discoveries, imports and the stop, the monitor
\* behaves as ArpMonitor says.
THEOREM GatewayHasTheMonitor == GatewaySpec => Spec
<1>1. GatewayInit => Init
  BY DEF GatewayInit
<1>2. QED
  BY <1>1, MonitorStep, PTL DEF GatewaySpec, Spec

\* So in the gateway too a module that was seen is reachable and not reported,
\* one that stays away is reported, and the events agree with the issues.
THEOREM GatewayReportsModules ==
  GatewaySpec => []SeenIsReachable /\ []GoneIsReported /\ EventsMatchIssues
BY GatewayHasTheMonitor, SeenModulesAreReachable, GoneModulesAreReported, EventsFollowIssues, PTL
=============================================================================
