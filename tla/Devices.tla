------------------------------ MODULE Devices ------------------------------
(***************************************************************************)
(* devices.json as a value: what a document may hold, when                 *)
(* InstallationConfig (gateway/installation.py) accepts it, and how it is  *)
(* changed by edits and by what a discovery or a refresh reads from the    *)
(* modules (gateway/device_config.py, gateway/auto_discovery.py,           *)
(* gateway/discovery.py).                                                  *)
(*                                                                         *)
(* A document is the sequence of its modules.  A module has devices: the   *)
(* channels of a relay or dimmer, the pushbuttons of an input module.  Of  *)
(* a device the label (name and room) and the active flag are kept; Blank  *)
(* is no label, for which the code also takes the placeholder "Ch n".      *)
(* A label says whose it is: an operator's, or read from the wire, and of  *)
(* which module.  Firmware, SKUs, watts, detectors and the legacy ids are  *)
(* left out, and so is the custom id of a channel, which no save keeps.    *)
(***************************************************************************)
EXTENDS Integers, Sequences, FiniteSets

CONSTANTS
  Macs,        \* the modules there are, by MAC address
  InputMacs,   \* those that are input modules
  Ips,         \* addresses
  Channels,    \* the channels of every relay or dimmer
  Buttons,     \* pushbuttons, by their hardware id
  NoMac,       \* the MAC of a module that was imported without one
  None         \* no document: there is no file, or it does not load

ASSUME InputAssumption == InputMacs \subseteq Macs
ASSUME NoMacAssumption == NoMac \notin Macs
ASSUME FiniteMacsAssumption == IsFiniteSet(Macs)
ASSUME IdsAssumption == Channels \cap Buttons = {}

Types == {"input", "actuator"}   \* DeviceType; relays and dimmers are actuators

Blank == <<>>
Labels == {Blank} \cup ({"operator", "wire"} \X (Macs \cup {NoMac}))

\* ChannelConfig or PushbuttonConfig, and those of some of the ids.
Device == [label : Labels, active : BOOLEAN]
Devices(ids) == UNION {[S -> Device] : S \in SUBSET ids}

\* to_dict writes the channels or the pushbuttons, by the type.
ModuleConfig ==
  [mac : Macs \cup {NoMac}, ip : Ips, type : {"input"}, devices : Devices(Buttons)]
    \cup [mac : Macs \cup {NoMac}, ip : Ips, type : {"actuator"}, devices : Devices(Channels)]

InstallationConfig == Seq(ModuleConfig)

ASSUME NoneAssumption == None \notin InstallationConfig

NoDevices == [d \in {} |-> [label |-> Blank, active |-> TRUE]]

-----------------------------------------------------------------------------
\* InstallationConfig._parse raises no InstallationError.
Loads(doc) ==
  /\ \A i \in DOMAIN doc : doc[i].type \in Types
  /\ \A i, j \in DOMAIN doc : i # j =>
       /\ doc[i].ip # doc[j].ip
       /\ doc[i].mac = doc[j].mac => doc[i].mac = NoMac
       /\ doc[i].type = "input" /\ doc[j].type = "input" =>
            DOMAIN doc[i].devices \cap DOMAIN doc[j].devices = {}

\* InstallationConfig.load
Load(file) == IF file = None THEN None ELSE IF Loads(file) THEN file ELSE None

\* module_by_ip, module_by_mac, pushbutton_by_id: indices in a document.
AtIp(doc, ip) == {i \in DOMAIN doc : doc[i].ip = ip}
WithMac(doc, mac) == {i \in DOMAIN doc : doc[i].mac = mac /\ mac # NoMac}
WithButton(doc, b) == {i \in DOMAIN doc : doc[i].type = "input" /\ b \in DOMAIN doc[i].devices}

-----------------------------------------------------------------------------
\* validate_channel_fields and validate_pushbutton_fields let a body through,
\* apply_channel_patch and apply_pushbutton_patch apply it: the operator gives
\* a device its label and switches it off.
Patched(doc, i, d, label) ==
  [doc EXCEPT ![i].devices[d] = [label |-> label, active |-> FALSE]]

\* The stub that _maybe_learn_button appends to a module.
Learned(doc, i, b) ==
  LET mine == doc[i].devices IN
  [doc EXCEPT ![i].devices =
     [d \in DOMAIN mine \cup {b} |-> IF d \in DOMAIN mine THEN mine[d]
                                     ELSE [label |-> Blank, active |-> TRUE]]]

\* A label that the operator left blank is filled from the wire.
Filled(label, wire) == IF label = Blank THEN wire ELSE label

\* sync_channels_from_wire: the active flag follows the wire.
SyncedChannels(mine, wire) ==
  [d \in DOMAIN mine \cup DOMAIN wire |->
     IF d \notin DOMAIN wire THEN mine[d]
     ELSE IF d \notin DOMAIN mine THEN wire[d]
     ELSE [label |-> Filled(mine[d].label, wire[d].label), active |-> wire[d].active]]

\* SyncedButtons_ActiveFromWire and the other definitions with such a suffix are
\* faulty variants of the one after them: a property must fail with one in its
\* place.
SyncedButtons_ActiveFromWire(mine, wire) ==
  [d \in DOMAIN mine \cup DOMAIN wire |->
     IF d \notin DOMAIN wire THEN mine[d]
     ELSE IF d \notin DOMAIN mine THEN wire[d]
     ELSE [label |-> Filled(mine[d].label, wire[d].label), active |-> wire[d].active]]

\* sync_input_pushbuttons_from_cache, one module: the active flag is kept.
SyncedButtons(mine, wire) ==
  [d \in DOMAIN mine \cup DOMAIN wire |->
     IF d \notin DOMAIN wire THEN mine[d]
     ELSE IF d \notin DOMAIN mine THEN wire[d]
     ELSE [label |-> Filled(mine[d].label, wire[d].label), active |-> mine[d].active]]

\* The document with the buttons of the cache: wire[m] is what getButtons of
\* input module m said, and is NoDevices for a module that is not in the cache.
WithWireButtons(doc, wire) ==
  [i \in DOMAIN doc |->
     IF doc[i].type = "input" /\ doc[i].mac # NoMac
     THEN [doc[i] EXCEPT !.devices = SyncedButtons(doc[i].devices, wire[doc[i].mac])]
     ELSE doc[i]]

\* The document with the channels that backupConfig of each module said.
WithWireChannels(doc, wire) ==
  [i \in DOMAIN doc |->
     IF doc[i].type # "input" /\ doc[i].mac # NoMac
     THEN [doc[i] EXCEPT !.devices = SyncedChannels(doc[i].devices, wire[doc[i].mac])]
     ELSE doc[i]]

-----------------------------------------------------------------------------
(***************************************************************************)
(* run_forced_discovery.  The modules of a scan have different addresses,  *)
(* and different MACs where these are known.                               *)
(***************************************************************************)

\* _match_discovered_for_module: by the MAC, or by the address of a module
\* that has none.
Matches(r, f) ==
  \/ r.mac # NoMac /\ f.mac = r.mac
  \/ r.mac = NoMac /\ f.ip = r.ip

\* An installed module after the discovery.
Merged(r, found) ==
  IF \E k \in DOMAIN found : Matches(r, found[k])
  THEN LET f == found[CHOOSE k \in DOMAIN found : Matches(r, found[k])] IN
       [mac |-> IF r.mac = NoMac THEN f.mac ELSE r.mac, ip |-> f.ip, type |-> r.type,
        devices |-> IF r.type = "input" THEN r.devices ELSE SyncedChannels(r.devices, f.devices)]
  ELSE r

\* discovered_module_to_devices_json
Entry(f) ==
  [mac |-> f.mac, ip |-> f.ip, type |-> f.type,
   devices |-> IF f.type = "input" THEN NoDevices ELSE f.devices]

IsLoadable(f) == f.type \in Types

New_ByAddressOnly(doc, found) ==
  {k \in DOMAIN found : AtIp(doc, found[k].ip) = {} /\ found[k].mac # NoMac /\ IsLoadable(found[k])}

\* The modules that the discovery found and no installed module matched.
New(doc, found) ==
  {k \in DOMAIN found : /\ \A i \in DOMAIN doc : ~Matches(doc[i], found[k])
                        /\ found[k].mac # NoMac
                        /\ IsLoadable(found[k])}

\* The entries of some of the modules that were found, in the order of the scan.
Nth(S, n) == CHOOSE k \in S : Cardinality({j \in S : j <= k}) = n
Entries(found, S) == [n \in 1 .. Cardinality(S) |-> Entry(found[Nth(S, n)])]

\* The document that run_forced_discovery writes.
Merge(doc, found) == [i \in DOMAIN doc |-> Merged(doc[i], found)] 
                        \o Entries(found, New(doc, found))

\* The document that an init sweep writes.
Drafted(found) == Entries(found, {k \in DOMAIN found : IsLoadable(found[k])})
=============================================================================
