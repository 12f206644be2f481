------------------------------ MODULE Gateway ------------------------------
(***************************************************************************)
(* run_gateway (gateway/main.py): the order in which the gateway starts    *)
(* and stops, with the ARP monitor, the health monitor (gateway/health.py) *)
(* and the announcement to Home Assistant as they run in it.  A gateway    *)
(* that is killed takes no more steps, and the initial states have what it *)
(* may leave behind for the next one.  One client stands for all:          *)
(* Northbound has the order of broadcasts, so it is told at once here.     *)
(***************************************************************************)
EXTENDS ArpMonitor

CONSTANTS Infos, MaxUuids

ASSUME MaxUuidsAssumption == MaxUuids \in Nat \ {0}

\* The addresses of containers are those of the virtual interfaces of the host.
ASSUME InfosAssumption ==
  \A info \in Infos :
    /\ DOMAIN info \subseteq Nat
    /\ \A i \in DOMAIN info : info[i].virtual \/ info[i].host # "docker"

VARIABLES
  addon, publishIp, stage, registered, mdns, task, request, cut, uuid,
  entry, used, told, leftover

Ha == INSTANCE HaDiscovery

VARIABLES
  phase,    \* what run_gateway does
  served,   \* cfg.installation is set
  other,    \* open health issues next to issues
  notified, \* _last_notify_key
  shown     \* the issues the client was last told, or Nobody

own == <<phase, served, other, notified, shown>>
haVars == <<addon, publishIp, stage, registered, mdns, task, request, cut,
            uuid, entry, used, told, leftover>>
gatewayVars == <<vars, haVars, own>>

Nobody == {"nobody"}
NoInstallation == "installation.missing"
LoadFailed == "installation.load_failed"
HttpFailed == "module_metadata.http_failed"

\* Where the monitor's task runs, and where the API serves.
Monitors == phase \in {"open", "announce", "run"}
Serves == phase \in {"announce", "run"}

-----------------------------------------------------------------------------
Open == issues \cup other

Level(i) == IF i \in {NoInstallation, LoadFailed} THEN "error" ELSE "warning"

\* compute_status
Status(open) ==
  IF \E i \in open : Level(i) = "error" THEN "unhealthy"
  ELSE IF open # {} THEN "degraded" ELSE "ok"

\* A faulty variant.
NotifyKey_Status(open) == {Status(open)}

\* _notify_key: the status follows from the ids.
NotifyKey(open) == open

\* _maybe_notify, after the changes of a step: the callback of the API sends
\* gateway_status to the client.
Notify(open) ==
  /\ notified' = NotifyKey(open)
  /\ shown' = IF shown = Nobody \/ ~Serves \/ NotifyKey(open) = notified THEN shown
              ELSE open

GatewayInit ==
  /\ Init
  /\ known = {}
  /\ Ha!Init
  /\ phase = "boot"
  /\ served = FALSE
  /\ other = {}
  /\ notified = {}
  /\ shown = Nobody

\* The orchestrator is given the installation with the modules S.
Given(S) ==
  \/ InstallationChanges(S)
  \/ S = known /\ UNCHANGED vars

\* The configuration is read; a file that does not load is an issue of its own.
Boot(S, file) ==
  /\ phase = "boot"
  /\ phase' = "discover"
  /\ served' = (file = "loads")
  /\ Given(IF served' THEN S ELSE {})
  /\ other' = (IF served' THEN {} ELSE {NoInstallation})
               \cup (IF file = "broken" THEN {LoadFailed} ELSE {})
  /\ Notify(other')
  /\ UNCHANGED haVars

\* refresh_one of a module, at the start, after a discovery or for a request; one
\* request stands for the two of each address.
MetadataRefreshed(ok) ==
  /\ served
  /\ phase \in {"discover", "announce", "run"}
  /\ other' = IF ok THEN other \ {HttpFailed} ELSE other \cup {HttpFailed}
  /\ other' # other
  /\ Notify(issues \cup other')
  /\ UNCHANGED <<vars, haVars, phase, served>>

\* A discovery, at the start or for a request, found the modules S:
\* _apply_installation.
Discovered(S) ==
  /\ phase \in {"discover", "announce", "run"}
  /\ Given(S)
  /\ served' = TRUE
  /\ other' = other \ {NoInstallation}
  /\ Notify(issues \cup other')
  /\ UNCHANGED <<haVars, phase>>

\* An import or a reset gives the API an installation.
Imported ==
  /\ Serves
  /\ ~served
  /\ served' = TRUE
  /\ UNCHANGED <<vars, haVars, phase, other, notified, shown>>

\* orchestrator.start starts the monitor, api.start the server.
Monitor ==
  /\ phase = "discover"
  /\ phase' = "open"
  /\ UNCHANGED <<vars, haVars, served, other, notified, shown>>

OpenApi ==
  /\ phase = "open"
  /\ phase' = "announce"
  /\ UNCHANGED <<vars, haVars, served, other, notified, shown>>

MonitorPolls(t) ==
  /\ Monitors
  /\ Poll(t)
  /\ Notify(issues' \cup other)
  /\ UNCHANGED <<haVars, phase, served, other>>

\* A client connects and gets a snapshot, or leaves.
ClientConnects ==
  /\ Serves
  /\ shown = Nobody
  /\ shown' = Open
  /\ UNCHANGED <<vars, haVars, phase, served, other, notified>>

ClientLeaves ==
  /\ shown # Nobody
  /\ shown' = Nobody
  /\ UNCHANGED <<vars, haVars, phase, served, other, notified>>

-----------------------------------------------------------------------------
\* ha_discovery.start; what it raises ends the process.
Announce ==
  /\ phase = "announce"
  /\ Ha!Start \/ Ha!Starting
  /\ phase' = IF stage' = "up" THEN "run" ELSE IF stage' = "raised" THEN "dead" ELSE phase
  /\ shown' = IF stage' = "raised" THEN Nobody ELSE shown
  /\ UNCHANGED <<vars, served, other, notified>>

\* The announce loop is a task of its own.
AnnounceLoop ==
  /\ phase \in {"run", "close"}
  /\ Ha!Loop
  /\ UNCHANGED <<vars, own>>

\* What Home Assistant does, also after the stop.
HomeAssistant ==
  /\ phase # "dead"
  /\ Ha!Supervisor
  /\ UNCHANGED <<vars, own>>

\* SIGTERM: the orchestrator stops first, then the API, then the announcement.
StopMonitor ==
  /\ phase = "run"
  /\ phase' = "close"
  /\ UNCHANGED <<vars, haVars, served, other, notified, shown>>

StopApi ==
  /\ phase = "close"
  /\ phase' = "leave"
  /\ shown' = Nobody
  /\ UNCHANGED <<vars, haVars, served, other, notified>>

StopAnnouncing ==
  /\ phase = "leave"
  /\ Ha!Stop \/ Ha!Stopping
  /\ phase' = IF stage' = "down" THEN "stopped" ELSE phase
  /\ UNCHANGED <<vars, served, other, notified, shown>>

Lifecycle ==
  \/ \E S \in SUBSET Macs, file \in {"absent", "broken", "loads"} : Boot(S, file)
  \/ Monitor \/ OpenApi \/ Announce \/ StopMonitor \/ StopApi \/ StopAnnouncing

GatewayNext ==
  \/ Lifecycle
  \/ \E ok \in BOOLEAN : MetadataRefreshed(ok)
  \/ \E S \in SUBSET Macs : Discovered(S)
  \/ Imported
  \/ \E t \in [Macs -> Ips \cup {None}] : MonitorPolls(t)
  \/ ClientConnects \/ ClientLeaves
  \/ AnnounceLoop
  \/ HomeAssistant

\* The announce loop goes on, and a Supervisor that is asked again and again
\* answers at last.
Fairness ==
  /\ WF_gatewayVars(AnnounceLoop)
  /\ SF_gatewayVars(Ha!Lists /\ UNCHANGED <<vars, own>>)
  /\ SF_gatewayVars(Ha!Announced /\ UNCHANGED <<vars, own>>)

GatewaySpec == GatewayInit /\ [][GatewayNext]_gatewayVars /\ Fairness

-----------------------------------------------------------------------------
\* A client that is connected was told the health as it is: no report, of a
\* poll, a refresh or a discovery, is held back because the status alone, or the
\* set of issues alone, did not change.
HealthIsTold == shown # Nobody => shown = Open

\* The next two are those of HaDiscovery.
AddonAnnouncesLan == Ha!AddonAnnouncesLan
NothingToldIsLeft == Ha!NothingToldIsLeft

\* An add-on that runs is listed at the Supervisor again and again, whatever
\* failed before: the loop survives failures and repeats successes.
ListedAgain ==
  phase = "run" /\ addon ~> entry # 0 \/ phase \in {"close", "leave", "stopped", "dead"}
=============================================================================
