---------------------------- MODULE HaDiscovery ----------------------------
(***************************************************************************)
(* HaDiscoveryAdvertiser (gateway/ha_discovery.py): the gateway is made    *)
(* known to Home Assistant over mDNS, and as an add-on also by a discovery *)
(* entry at the Supervisor, which a task renews while the gateway runs.    *)
(* A step is what runs between two awaits of start, of stop, or of the     *)
(* announce loop; what the Supervisor and the network do in between are    *)
(* steps of their own.  The time between announcements is left out, and so *)
(* are the switches for both channels, which main.py leaves on.            *)
(***************************************************************************)
EXTENDS Naturals, Sequences

CONSTANTS
  Infos,      \* answers to /network/info: sequences of interfaces
  MaxUuids    \* bound: entries the Supervisor makes

VARIABLES
  addon,      \* the Supervisor started the gateway
  publishIp,  \* the address for mDNS, or NoIp
  stage,      \* where start or stop is
  registered, \* _service_info is set
  mdns,       \* the service as the LAN finds it, or NoService
  task,       \* the announce loop
  request,    \* its POST: at the Supervisor, or answered with a uuid
  cut,        \* a POST nobody waits for is still at the Supervisor
  uuid,       \* _hassio_uuid, or 0
  entry,      \* the uuid the Supervisor lists for this add-on, or 0
  used,       \* uuids the Supervisor has given
  told,       \* history: uuids the gateway was told
  leftover    \* history: removals that failed

process == <<publishIp, stage, registered, task, uuid, told, leftover>>
haVars == <<addon, publishIp, stage, registered, mdns, task, request,
            cut, uuid, entry, used, told, leftover>>

NoIp == "none"
Wildcard == "wildcard"
Addresses == {"lan", "docker", "loopback"}
ApiHosts == {Wildcard, "lan", "loopback", "name"}
NoService == [address |-> NoIp, host |-> NoIp]

\* The states of a request other than the uuid it was answered with.
NoRequest == 0
Sent == MaxUuids + 1
Refused == MaxUuids + 2

-----------------------------------------------------------------------------
Publishable(ip) == ip \in {"lan", "docker"}

\* The default route of the host, if it has one that others can open.
Routes == {NoIp, "lan"}

\* _pick_publish_ip
Picked(host, isAddon, route) ==
  IF host # Wildcard THEN host
  ELSE IF isAddon THEN NoIp
  ELSE IF route # NoIp THEN route ELSE "loopback"

\* HaDiscoveryAdvertiser.__init__
FirstIp(host, isAddon, route) ==
  LET ip == Picked(host, isAddon, route)
  IN  IF isAddon /\ ~Publishable(ip) THEN NoIp ELSE ip

\* The first of the interfaces S, by their place in the answer.
First(S) == CHOOSE i \in S : \A j \in S : i <= j

\* FromNetworkInfo_Virtual and the other definitions with such a suffix are faulty
\* variants of the one after them: a property must fail with one in its place.
FromNetworkInfo_Virtual(ifaces) ==
  LET usable == {i \in DOMAIN ifaces : ifaces[i].up /\ Publishable(ifaces[i].host)}
  IN  IF usable = {} THEN NoIp ELSE ifaces[First(usable)].host

\* _pick_ipv4_from_network_info: the primary interface, then one with a
\* gateway, then any; virtual ones and those that are down do not count.
FromNetworkInfo(ifaces) ==
  LET usable == {i \in DOMAIN ifaces : ~ifaces[i].virtual /\ ifaces[i].up
                                        /\ Publishable(ifaces[i].host)}
      primary == {i \in usable : ifaces[i].primary}
      routed == {i \in usable : ifaces[i].gateway}
      best == IF primary # {} THEN primary ELSE IF routed # {} THEN routed ELSE usable
  IN  IF best = {} THEN NoIp ELSE ifaces[First(best)].host

\* _fetch_supervisor_network_info: no interfaces when it cannot be read.
Answers == Infos \cup {<<>>}

\* A gateway that was killed may have left an entry.
Init ==
  /\ addon \in BOOLEAN
  /\ \E host \in ApiHosts, route \in Routes : publishIp = FirstIp(host, addon, route)
  /\ stage = "new"
  /\ registered = FALSE
  /\ mdns = NoService
  /\ task = "none"
  /\ request = NoRequest
  /\ cut = FALSE
  /\ uuid = 0
  /\ used \in {0, 1}
  /\ entry = used
  /\ told = {}
  /\ leftover = {}

-----------------------------------------------------------------------------
\* start, up to its first await
Start ==
  /\ stage = "new"
  /\ stage' = IF addon /\ ~Publishable(publishIp) THEN "resolve" ELSE "register"
  /\ UNCHANGED <<addon, publishIp, registered, mdns, task, request, cut,
                 uuid, entry, used, told, leftover>>

\* _resolve_addon_publish_ip
Resolve(info, route) ==
  /\ stage = "resolve"
  /\ LET ip == FromNetworkInfo(info)
     IN  publishIp' = IF ip # NoIp THEN ip ELSE route
  /\ stage' = "register"
  /\ UNCHANGED <<addon, registered, mdns, task, request, cut, uuid, entry,
                 used, told, leftover>>

\* The end of start: an add-on also starts the announce loop.
Up ==
  /\ stage' = "up"
  /\ task' = IF addon THEN "post" ELSE "none"

\* _start_zeroconf up to its await.  What is no IPv4 address raises.
Register ==
  /\ stage = "register"
  /\ IF publishIp = NoIp \/ (addon /\ ~Publishable(publishIp)) THEN Up
     ELSE /\ stage' = IF publishIp = "name" THEN "raised" ELSE "probe"
          /\ UNCHANGED task
  /\ UNCHANGED <<addon, publishIp, registered, mdns, request, cut, uuid,
                 entry, used, told, leftover>>

\* _parse_host_port of the base URL; "loopback" is 127.0.0.1.
UrlHost(ip) == IF ip = NoIp THEN "loopback" ELSE ip

\* The service has the address and, in its TXT record, where the companion of
\* Home Assistant connects: _build_txt_properties.
Service(ip) == [address |-> ip, host |-> UrlHost(ip)]

Registered ==
  /\ stage = "probe"
  /\ registered' = TRUE
  /\ mdns' = Service(publishIp)
  /\ Up
  /\ UNCHANGED <<addon, publishIp, request, cut, uuid, entry, used, told,
                 leftover>>

RegisterFails ==
  /\ stage = "probe"
  /\ Up
  /\ UNCHANGED <<addon, publishIp, registered, mdns, request, cut, uuid,
                 entry, used, told, leftover>>

-----------------------------------------------------------------------------
\* _hassio_announce_once sends its request.
Post ==
  /\ task = "post"
  /\ task' = "wait"
  /\ request' = Sent
  /\ UNCHANGED <<addon, publishIp, stage, registered, mdns, cut, uuid,
                 entry, used, told, leftover>>

Remembered_First(u) == IF uuid = 0 THEN u ELSE uuid

Remembered(u) == u

\* The answer with a uuid, and one without or none within its timeout; the loop
\* goes to sleep after each.
Announced ==
  /\ task = "wait"
  /\ request \in 1 .. MaxUuids
  /\ uuid' = Remembered(request)
  /\ told' = told \cup {request}
  /\ task' = "sleep"
  /\ request' = NoRequest
  /\ UNCHANGED <<addon, publishIp, stage, registered, mdns, cut, entry,
                 used, leftover>>

AnnounceFails_Ends ==
  /\ task = "wait"
  /\ task' = "ended"
  /\ cut' = (cut \/ request = Sent)
  /\ request' = NoRequest
  /\ UNCHANGED <<addon, publishIp, stage, registered, mdns, uuid, entry,
                 used, told, leftover>>

AnnounceFails ==
  /\ task = "wait"
  /\ task' = "sleep"
  /\ cut' = (cut \/ request = Sent)
  /\ request' = NoRequest
  /\ UNCHANGED <<addon, publishIp, stage, registered, mdns, uuid, entry,
                 used, told, leftover>>

\* The sleep after an announcement, or the back-off, is over.
Wake ==
  /\ task = "sleep"
  /\ task' = "post"
  /\ UNCHANGED <<addon, publishIp, stage, registered, mdns, request, cut,
                 uuid, entry, used, told, leftover>>

-----------------------------------------------------------------------------
\* The Supervisor has one entry per add-on and gives its uuid again; it may
\* forget the entry, and it may answer with an error.
Listed == IF entry # 0 THEN entry ELSE used + 1

Lists ==
  /\ Listed <= MaxUuids
  /\ entry' = Listed
  /\ used' = IF entry # 0 THEN used ELSE used + 1
  /\ \/ request = Sent /\ request' = Listed /\ UNCHANGED cut
     \/ cut /\ cut' = FALSE /\ UNCHANGED request
  /\ UNCHANGED <<process, addon, mdns>>

Refuses ==
  /\ \/ request = Sent /\ request' = Refused /\ UNCHANGED cut
     \/ cut /\ cut' = FALSE /\ UNCHANGED request
  /\ UNCHANGED <<process, addon, mdns, entry, used>>

Forgets ==
  /\ entry # 0
  /\ used < MaxUuids
  /\ entry' = 0
  /\ UNCHANGED <<process, addon, mdns, request, cut, used>>

-----------------------------------------------------------------------------
\* stop: the loop is cancelled first, in whatever await it is.
Stop ==
  /\ stage = "up"
  /\ stage' = "unregister"
  /\ task' = "none"
  /\ cut' = (cut \/ request = Sent)
  /\ request' = NoRequest
  /\ UNCHANGED <<addon, publishIp, registered, mdns, uuid, entry, used,
                 told, leftover>>

\* The goodbye of the service and the close of its socket; either may fail.
Unregister(ok) ==
  /\ stage = "unregister"
  /\ stage' = "delete"
  /\ registered' = FALSE
  /\ mdns' = IF ok THEN NoService ELSE mdns
  /\ leftover' = IF ok \/ ~registered THEN leftover ELSE leftover \cup {"mdns"}
  /\ UNCHANGED <<addon, publishIp, task, request, cut, uuid, entry, used,
                 told>>

\* The DELETE of the entry, if there is a uuid; the Supervisor may not get it.
Delete(ok) ==
  /\ stage = "delete"
  /\ stage' = "down"
  /\ entry' = IF ok /\ addon /\ entry = uuid THEN 0 ELSE entry
  /\ leftover' = IF ok THEN leftover ELSE leftover \cup {"entry"}
  /\ UNCHANGED <<addon, publishIp, registered, mdns, task, request, cut,
                 uuid, used, told>>

Loop == Post \/ Announced \/ AnnounceFails \/ Wake
Supervisor == Lists \/ Refuses \/ Forgets
Starting ==
  \/ \E info \in Answers, route \in Routes : Resolve(info, route)
  \/ Register \/ Registered \/ RegisterFails
Stopping == \E ok \in BOOLEAN : Unregister(ok) \/ Delete(ok)

-----------------------------------------------------------------------------
\* "Never keep a loopback placeholder that could be announced on the LAN"
\* (ha_discovery.py:392): what an add-on announces, as the address and in its
\* TXT record, is an address of a real interface, whether it is bound to all
\* interfaces, to one, to loopback or to a name, and whatever the Supervisor says of
\* the interfaces.
AddonAnnouncesLan == addon => {mdns.address, mdns.host} \subseteq {NoIp, "lan"}

\* After stop, Home Assistant does not find the gateway by anything the gateway
\* was told that it registered, unless the removal itself failed: the loop is
\* cancelled before the entry is deleted, and the uuid is that of the last answer.
NothingToldIsLeft ==
  stage = "down" => /\ mdns = NoService \/ "mdns" \in leftover
                    /\ entry \notin told \/ "entry" \in leftover
=============================================================================
