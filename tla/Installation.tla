---------------------------- MODULE Installation ----------------------------
(***************************************************************************)
(* The installation: devices.json, the copies of it that the gateway keeps *)
(* in memory, and everything that writes it.  DiscoveryOrchestrator        *)
(* (gateway/auto_discovery.py) merges what a scan finds, GatewayAPI        *)
(* (gateway/gateway_api.py) edits, imports and refreshes, learns buttons,  *)
(* and run_gateway (gateway/main.py) starts from it.                       *)
(*                                                                         *)
(* A call is one request or task and runs once.  A step is what the event  *)
(* loop runs between two suspensions, or one write by a worker thread:     *)
(* AtomicWriter is taken to be atomic here (AtomicWriter.tla is about when *)
(* it is), and any write may find the file locked for too long.  A merge   *)
(* holds the loop from its load to its write, so only workers step in      *)
(* between.  A file that does not load for any reason is represented by    *)
(* one that holds two modules of one address.                              *)
(*                                                                         *)
(* The hardware is the environment: modules move, go and come back, get    *)
(* another configuration, and answer HTTP or not.  Two modules are never   *)
(* at one address at the same time.                                        *)
(***************************************************************************)
EXTENDS Devices

CONSTANTS
  Patches, Imports, Discoveries, Refreshes,  \* the calls there are
  Boot,         \* the task that the start of the process leaves behind
  Documents,    \* what the file can be at first
  Importable,   \* what can be imported
  Hardware,     \* what the hardware can be at first
  Bare,         \* modules whose getSysSet tells no MAC
  AutoDiscover, \* auto_discover_on_start
  MaxCalls, MaxMoves, MaxBoots   \* bounds

Calls == Patches \cup Imports \cup Discoveries \cup Refreshes \cup {Boot}

\* A label is that of the module that has it.
HasOwnLabels(doc) ==
  \A i \in DOMAIN doc : \A d \in DOMAIN doc[i].devices :
    LET label == doc[i].devices[d].label IN
    label = Blank \/ doc[i].mac = NoMac \/ label[2] \in {doc[i].mac, NoMac}

\* What the hardware can be: no two modules are at one address, no two have one
\* button.
IsHardware(h) ==
  /\ h \in [Macs -> [ip : Ips \cup {None}, wire : SUBSET (Channels \cup Buttons)]]
  /\ \A m \in Macs : h[m].wire \subseteq IF m \in InputMacs THEN Buttons ELSE Channels
  /\ \A m, n \in Macs : m # n /\ h[m].ip = h[n].ip => h[m].ip = None
  /\ \A m, n \in InputMacs : m # n => h[m].wire \cap h[n].wire = {}

ASSUME CallsAssumption ==
  /\ Patches \cap Imports = {} /\ (Patches \cup Imports) \cap Discoveries = {}
  /\ (Patches \cup Imports \cup Discoveries) \cap Refreshes = {}
  /\ Boot \notin Patches \cup Imports \cup Discoveries \cup Refreshes
ASSUME DocumentsAssumption ==
  (Documents \ {None}) \cup Importable \subseteq InstallationConfig
ASSUME OwnLabelsAssumption ==
  \A doc \in (Documents \ {None}) \cup Importable : HasOwnLabels(doc)
ASSUME HardwareAssumption == None \notin Ips /\ \A h \in Hardware : IsHardware(h)

VARIABLES
  phase,       \* of the process: "down", "starting" or "up"
  file,        \* devices.json, or None if there is no file
  runtime,     \* cfg.installation
  known,       \* DiscoveryOrchestrator._installation
  registered,  \* DeviceRegistry: the kind of module it knows at an address
  meta,        \* ModuleMetadataCache: the buttons that a module told
  pc, arg,     \* the calls: where they are, and what they hold
  merging,     \* the merge that holds the loop, or None
  hw,          \* hw[m]: the address and the configured channels, or the buttons
  moves, boots,
  edits,       \* history: the operator's labels that the file must hold
  mixed,       \* history: see Mixed below
  imported     \* history: an import since the process started

memory == <<runtime, known, registered, meta>>
calls == <<pc, arg, merging>>
bounds == <<moves, boots>>
vars == <<phase, file, memory, calls, hw, bounds, edits, mixed, imported>>

Unknown == [ip \in Ips |-> "none"]
NoMeta == [m \in Macs |-> NoDevices]

\* Steps of the event loop and of worker threads.
Go(c, from, to) == pc[c] = from /\ pc' = [pc EXCEPT ![c] = to]
OnLoop == phase = "up" /\ merging = None
MayStart == OnLoop /\ Cardinality({c \in Calls : pc[c] # "idle"}) < MaxCalls
OnWorker == phase = "up"

Keep(c, v) == arg' = [arg EXCEPT ![c] = v]
Drop(c) == Keep(c, None)

-----------------------------------------------------------------------------
\* backupConfig of module m: every channel, named if it is configured.
ChannelsOf(m) ==
  [c \in Channels |-> IF c \in hw[m].wire THEN [label |-> <<"wire", m>>, active |-> TRUE]
                     ELSE [label |-> Blank, active |-> FALSE]]

\* getButtons of input module m.
ButtonsOf(m) == [b \in hw[m].wire |-> [label |-> <<"wire", m>>, active |-> TRUE]]

\* The field modules in the network, and those of them that answer HTTP at an
\* address: all but the silent ones.
Online == {m \in Macs : hw[m].ip # None}
Answers(ip, silent) == {m \in Macs \ silent : hw[m].ip = ip}

\* devtype, the product name or butLines tell the kind of a module.
TypeOf(m) == IF m \in InputMacs THEN "input" ELSE "actuator"

\* A module that answers HTTP; if it is not in the ARP table, then its MAC is
\* what it says it is.
Identified(m, inArp) ==
  [mac |-> IF inArp \/ m \notin Bare THEN m ELSE NoMac, ip |-> hw[m].ip, type |-> TypeOf(m),
   devices |-> IF TypeOf(m) = "input" THEN NoDevices ELSE ChannelsOf(m)]

\* A row of the ARP table for a module that does not answer.
Row(m) == [mac |-> m, ip |-> hw[m].ip, type |-> "unknown", devices |-> NoDevices]

\* A set of modules as the list that a sweep returns.
Listing(S) == 
  CHOOSE s \in [1 .. Cardinality(S) -> S] : \A j, k \in DOMAIN s : s[j] = s[k] => j = k

\* discover_modules: the rows of the ARP table, each identified if the module
\* answers, or, if the table has no rows, the modules that answer.
Scan(inArp, silent) ==
  Listing({Identified(m, inArp) : m \in Online \ silent}
            \cup IF inArp THEN {Row(m) : m \in Online \cap silent} ELSE {})

\* ModuleMetadataCache.refresh: what is known of a module that does not answer
\* is kept, what a mute one has of buttons is lost (it answers getSysSet, not
\* getButtons), and modules that are not in the document are forgotten.
Refreshed(doc, silent, mute) ==
  [m \in Macs |->
    IF WithMac(doc, m) = {} THEN NoDevices
    ELSE LET i == CHOOSE i \in WithMac(doc, m) : TRUE
             there == Answers(doc[i].ip, silent)
         IN  IF doc[i].type # "input" THEN NoDevices
             ELSE IF there = {} THEN meta[m]
             ELSE IF there \subseteq InputMacs \ mute THEN ButtonsOf(CHOOSE n \in there : TRUE)
             ELSE NoDevices]

\* _persist_channels_from_backup: backupConfig of the modules of a document.
ChannelsRead(doc, silent) ==
  [m \in Macs |->
    LET at == UNION {Answers(doc[i].ip, silent) : i \in WithMac(doc, m)} \ InputMacs
    IN  IF at = {} THEN NoDevices ELSE ChannelsOf(CHOOSE n \in at : TRUE)]

\* Registration of the modules of a document in the DeviceRegistry.
Registered(doc, old) ==
  [ip \in Ips |-> IF AtIp(doc, ip) = {} THEN old[ip]
                  ELSE doc[CHOOSE i \in AtIp(doc, ip) : TRUE].type]

\* The operator's labels in a document.
OperatorLabels(doc) ==
  UNION {{<<doc[i].mac, d, doc[i].devices[d].active>> :
            d \in {d \in DOMAIN doc[i].devices :
                     doc[i].devices[d].label = <<"operator", doc[i].mac>>}} :
          i \in {i \in DOMAIN doc : doc[i].mac # NoMac}}

-----------------------------------------------------------------------------
\* PATCH /api/v1/devices/{id}: the id is looked up in cfg.installation.
Patch(c, i, d) ==
  /\ Go(c, "idle", "queued")
  /\ MayStart /\ runtime # None
  /\ i \in DOMAIN runtime /\ d \in DOMAIN runtime[i].devices
  /\ Keep(c, [ip |-> runtime[i].ip, id |-> d, label |-> <<"operator", runtime[i].mac>>])
  /\ UNCHANGED <<phase, file, memory, merging, hw, bounds, edits, imported>>

PatchTargets_ById(doc, ip, d) == {i \in DOMAIN doc : d \in DOMAIN doc[i].devices}

\* The module and the channel or button are looked up again in the file.
PatchTargets(doc, ip, d) ==
  IF d \in Buttons THEN WithButton(doc, d)
  ELSE {i \in AtIp(doc, ip) : doc[i].type # "input" /\ d \in DOMAIN doc[i].devices}

PatchWrite(c) ==
  /\ Go(c, "queued", "written")
  /\ OnWorker /\ Load(file) # None
  /\ \E i \in PatchTargets(file, arg[c].ip, arg[c].id) :
       /\ file' = Patched(file, i, arg[c].id, arg[c].label)
       /\ edits' = IF file[i].mac = NoMac THEN edits
                   ELSE {e \in edits : ~(e[1] = file[i].mac /\ e[2] = arg[c].id)}
                          \cup {<<file[i].mac, arg[c].id, FALSE>>}
  /\ Drop(c)
  /\ UNCHANGED <<phase, memory, merging, hw, bounds, imported>>

\* The file is locked or does not load, or the device is gone.
PatchFails(c) ==
  /\ Go(c, "queued", "done")
  /\ OnWorker
  /\ Drop(c)
  /\ UNCHANGED <<phase, file, memory, merging, hw, bounds, edits, imported>>

\* cfg.installation = InstallationConfig.load(...), which may raise.
Reloaded == IF Load(file) = None THEN runtime ELSE file

PatchReload(c) ==
  /\ Go(c, "written", "done")
  /\ OnLoop
  /\ runtime' = Reloaded
  /\ UNCHANGED <<phase, file, known, registered, meta, arg, merging, hw, bounds, edits, imported>>

\* POST /api/v1/devices/import and reset.
Import(c, doc) ==
  /\ Go(c, "idle", "queued")
  /\ MayStart
  /\ Loads(doc)
  /\ Keep(c, doc)
  /\ UNCHANGED <<phase, file, memory, merging, hw, bounds, edits, imported>>

ImportWrite(c) ==
  /\ Go(c, "queued", "written")
  /\ OnWorker
  /\ file' = arg[c]
  /\ edits' = OperatorLabels(file')
  /\ imported' = TRUE
  /\ Drop(c)
  /\ UNCHANGED <<phase, memory, merging, hw, bounds>>

ImportFails(c) ==
  /\ Go(c, "queued", "done")
  /\ OnWorker
  /\ Drop(c)
  /\ UNCHANGED <<phase, file, memory, merging, hw, bounds, edits, imported>>

ImportReload_NoReload(c) ==
  /\ Go(c, "written", "done")
  /\ OnLoop
  /\ meta' = NoMeta
  /\ UNCHANGED <<phase, file, runtime, known, registered, arg, merging, hw, bounds, edits, imported>>

\* The modules are not registered in the DeviceRegistry.
ImportReload(c) ==
  /\ Go(c, "written", "done")
  /\ OnLoop
  /\ runtime' = Reloaded
  /\ meta' = IF Load(file) = None THEN meta ELSE NoMeta
  /\ UNCHANGED <<phase, file, known, registered, arg, merging, hw, bounds, edits, imported>>

-----------------------------------------------------------------------------
\* POST /api/v1/modules/refresh, and what the start of the process and a
\* discovery leave behind (_safe_meta_refresh): the cache is refreshed for the
\* modules of a document that was taken before.
Refresh(c) ==
  /\ Go(c, "idle", "refreshing")
  /\ MayStart /\ runtime # None
  /\ Keep(c, runtime)
  /\ UNCHANGED <<phase, file, memory, merging, hw, bounds, edits, imported>>

CacheRefreshed(c, silent, mute) ==
  /\ Go(c, "refreshing", "persisting")
  /\ OnLoop
  /\ meta' = Refreshed(arg[c], silent, mute)
  /\ Drop(c)
  /\ UNCHANGED <<phase, file, runtime, known, registered, merging, hw, bounds, edits, imported>>

\* _persist_pushbuttons_from_cache, in a worker thread.
PersistButtons(c) ==
  /\ Go(c, "persisting", "persisted")
  /\ OnWorker
  /\ Load(file) # None
  /\ file' = WithWireButtons(file, meta)
  /\ UNCHANGED <<phase, memory, arg, merging, hw, bounds, edits, imported>>

AfterButtons(c) == IF c \in Refreshes THEN "channels" ELSE "done"

\* The file is locked or does not load: nothing is reloaded.
PersistButtonsFails(c) ==
  /\ Go(c, "persisting", AfterButtons(c))
  /\ OnWorker
  /\ UNCHANGED <<phase, file, memory, arg, merging, hw, bounds, edits, imported>>

\* A reload that raises ends the request.
PersistButtonsReload(c) ==
  /\ Go(c, "persisted", IF Load(file) = None THEN "done" ELSE AfterButtons(c))
  /\ OnLoop
  /\ runtime' = Reloaded
  /\ UNCHANGED <<phase, file, known, registered, meta, arg, merging, hw, bounds, edits, imported>>

\* _persist_channels_from_backup: the addresses are those of cfg.installation
\* at its start.
FetchChannels(c) ==
  /\ Go(c, "channels", "fetching")
  /\ OnLoop
  /\ Keep(c, runtime)
  /\ UNCHANGED <<phase, file, memory, merging, hw, bounds, edits, imported>>

ChannelsFetched(c, silent) ==
  /\ Go(c, "fetching", IF \E i \in DOMAIN arg[c] : arg[c][i].type # "input" /\ arg[c][i].mac # NoMac
                       THEN "storing" ELSE "done")
  /\ OnLoop
  /\ Keep(c, ChannelsRead(arg[c], silent))
  /\ UNCHANGED <<phase, file, memory, merging, hw, bounds, edits, imported>>

StoreChannels(c) ==
  /\ Go(c, "storing", "stored")
  /\ OnWorker
  /\ Load(file) # None
  /\ file' = WithWireChannels(file, arg[c])
  /\ Drop(c)
  /\ UNCHANGED <<phase, memory, merging, hw, bounds, edits, imported>>

StoreChannelsFails(c) ==
  /\ Go(c, "storing", "done")
  /\ OnWorker
  /\ Drop(c)
  /\ UNCHANGED <<phase, file, memory, merging, hw, bounds, edits, imported>>

StoreChannelsReload(c) ==
  /\ Go(c, "stored", "done")
  /\ OnLoop
  /\ runtime' = Reloaded
  /\ UNCHANGED <<phase, file, known, registered, meta, arg, merging, hw, bounds, edits, imported>>

\* _maybe_learn_button: an unknown button b is pressed.  It writes and reloads
\* on the loop.
LearnTargets(doc, r) ==
  {i \in IF WithMac(doc, r.mac) # {} THEN WithMac(doc, r.mac) ELSE AtIp(doc, r.ip) :
     doc[i].type = "input"}

Learn(m, b) ==
  /\ OnLoop /\ runtime # None /\ Load(file) # None
  /\ hw[m].ip # None /\ b \in hw[m].wire
  /\ WithButton(runtime, b) = {}
  /\ \E i \in AtIp(runtime, hw[m].ip) :
       /\ runtime[i].type = "input"
       /\ LET targets == LearnTargets(file, runtime[i]) IN
          IF WithButton(file, b) # {} \/ targets = {} THEN UNCHANGED file
          ELSE \E k \in targets : file' = Learned(file, k, b)
  /\ runtime' = file'
  /\ UNCHANGED <<phase, known, registered, meta, calls, hw, bounds, edits, imported>>

-----------------------------------------------------------------------------
Apply_NotRegistered(c, inst) ==
  /\ runtime' = inst
  /\ registered' = registered
  /\ Keep(c, inst)

\* _apply_installation in main.py: what a discovery leaves is what is served.
\* A refresh of the cache is started with it.
Apply(c, inst) ==
  /\ runtime' = inst
  /\ registered' = Registered(inst, registered)
  /\ Keep(c, inst)

\* run_forced_discovery: the scan has ended.  The file is loaded and merged.
Discover(c) ==
  /\ Go(c, "idle", "scanning")
  /\ MayStart
  /\ UNCHANGED <<phase, file, memory, arg, merging, hw, bounds, edits, imported>>

MergeLoad(c, found) ==
  /\ Go(c, "scanning", "merging")
  /\ OnLoop
  /\ merging' = [edits |-> edits,
                 doc |-> Merge(IF Load(file) = None THEN <<>> ELSE file, found)]
  /\ UNCHANGED <<phase, file, memory, arg, hw, bounds, edits, imported>>

\* It is written, even if the write finds the file locked, reloaded, even if
\* that fails, and applied.
MergeWrite(c) ==
  /\ phase = "up" /\ merging # None /\ pc[c] = "merging"
  /\ \E locked \in BOOLEAN :
       /\ file' = IF locked THEN file ELSE merging.doc
       /\ edits' = IF locked THEN edits ELSE edits \cap merging.edits
  /\ merging' = None
  /\ known' = IF Load(file') = None THEN known ELSE file'
  /\ IF known' = None
     THEN Drop(c) /\ Go(c, "merging", "done") /\ UNCHANGED <<runtime, registered>>
     ELSE Apply(c, known') /\ Go(c, "merging", "refreshing")
  /\ imported' = (imported /\ Load(file') = None)
  /\ UNCHANGED <<phase, meta, hw, bounds>>

-----------------------------------------------------------------------------
\* GatewayConfig.from_env: cfg.installation.
Configured == Load(file)

\* run_gateway up to the orchestrator: nothing else runs yet.
Start(silent, mute) ==
  /\ phase = "down" /\ boots < MaxBoots
  /\ phase' = "starting"
  /\ boots' = boots + 1
  /\ LET loaded == Configured IN
     IF loaded = None
     THEN /\ UNCHANGED <<file, registered, meta>>
          /\ runtime' = None
     ELSE /\ registered' = Registered(loaded, Unknown)
          /\ meta' = Refreshed(loaded, silent, mute)
          /\ file' \in {file, WithWireButtons(loaded, meta')}
          /\ runtime' = IF Loads(file') THEN file' ELSE loaded
  /\ known' = runtime'
  /\ pc' = [pc EXCEPT ![Boot] = "idle"]
  /\ imported' = FALSE
  /\ UNCHANGED <<arg, merging, hw, moves, edits>>

NeedsInitSweep ==
  /\ known = None \/ known = <<>>
  /\ file = None \/ known = None \/ AutoDiscover

Ready ==
  /\ phase = "starting" /\ ~NeedsInitSweep
  /\ phase' = "up"
  /\ UNCHANGED <<file, memory, calls, hw, bounds, edits, imported>>

\* _run_init_sweep with something to write.
InitSweep(found) ==
  /\ phase = "starting" /\ NeedsInitSweep
  /\ phase' = "up"
  /\ Drafted(found) # <<>>
  /\ file' \in {file, Drafted(found)}
  /\ known' = IF Load(file') = None THEN known ELSE file'
  /\ IF known' = None
     THEN UNCHANGED <<runtime, registered, calls>>
     ELSE /\ Apply(Boot, known') /\ Go(Boot, "idle", "refreshing")
          /\ UNCHANGED merging
  /\ UNCHANGED <<meta, hw, bounds, edits, imported>>

InitSweepFails ==
  /\ phase = "starting" /\ NeedsInitSweep
  /\ phase' = "up"
  /\ UNCHANGED <<file, memory, calls, hw, bounds, edits, imported>>

\* _clear_unloadable_devices_file: the callback is not called.
ClearUnloadable ==
  /\ phase = "starting" /\ NeedsInitSweep
  /\ phase' = "up"
  /\ known = None /\ file # None
  /\ file' = <<>>
  /\ known' = <<>>
  /\ UNCHANGED <<runtime, registered, meta, calls, hw, bounds, edits, imported>>

\* The process ends at any moment, and with it its calls.
Stop ==
  /\ phase # "down" /\ boots < MaxBoots
  /\ phase' = "down"
  /\ runtime' = None /\ known' = None
  /\ registered' = Unknown
  /\ meta' = NoMeta
  /\ pc' = [c \in Calls |-> IF pc[c] = "idle" THEN "idle" ELSE "done"]
  /\ arg' = [c \in Calls |-> None]
  /\ merging' = None
  /\ UNCHANGED <<file, hw, bounds, edits, imported>>

-----------------------------------------------------------------------------
\* A module goes, comes or moves, gets another configuration, or its buttons
\* are wired otherwise.
Change(m, h) ==
  /\ moves < MaxMoves
  /\ moves' = moves + 1
  /\ hw' = [hw EXCEPT ![m] = h]
  /\ UNCHANGED <<phase, file, memory, calls, boots, edits, imported>>

Move(m, ip) ==
  /\ hw[m].ip # ip
  /\ ip # None => \A n \in Macs : hw[n].ip # ip
  /\ Change(m, [hw[m] EXCEPT !.ip = ip])

Configure(m, wire) ==
  /\ hw[m].wire # wire
  /\ m \in InputMacs => \A n \in InputMacs \ {m} : hw[n].wire \cap wire = {}
  /\ Change(m, [hw[m] EXCEPT !.wire = wire])

\* Something else than module m is at an address in a document: a module with
\* another MAC, or one without a MAC that has labels of another module, or that
\* is not m because m is elsewhere in the document.
AddressOfAnother(doc, ip, m) ==
  \E i \in AtIp(doc, ip) :
    IF doc[i].mac # NoMac THEN doc[i].mac # m
    ELSE \/ WithMac(doc, m) # {}
         \/ \E d \in DOMAIN doc[i].devices :
              doc[i].devices[d].label \notin {Blank} \cup ({"operator", "wire"} \X {m, NoMac})

\* A button is at another input module than m.
ButtonOfAnother(doc, b, m) == \E i \in WithButton(doc, b) : doc[i].mac # m

\* A module is where a document puts another one, or it has a button that is
\* another one's there.
Mixes(doc) ==
  \/ \E m \in Online : AddressOfAnother(doc, hw[m].ip, m)
  \/ \E m \in InputMacs : \E b \in hw[m].wire : ButtonOfAnother(doc, b, m)

\* The documents in use: the file, and those that are in memory.
InUse == {file, runtime, known}
           \cup {arg[c] : c \in {c \in Calls : pc[c] \in {"refreshing", "fetching"}}}

\* The cache and a PATCH that waits hold a button or an address, too.
Mixed ==
  \/ \E doc \in InUse \ {None} : Mixes(doc)
  \/ \E m \in InputMacs, n \in Macs : m # n /\ hw[m].wire \cap DOMAIN meta[n] # {}
  \/ /\ file # None
     /\ \/ \E m \in Macs : \E b \in DOMAIN meta[m] : ButtonOfAnother(file, b, m)
        \/ \E c \in {c \in Patches : pc[c] = "queued" /\ arg[c].label[2] # NoMac} :
             \/ AddressOfAnother(file, arg[c].ip, arg[c].label[2])
             \/ ButtonOfAnother(file, arg[c].id, arg[c].label[2])

Init ==
  /\ phase = "down"
  /\ file \in Documents
  /\ runtime = None /\ known = None
  /\ registered = Unknown
  /\ meta = NoMeta
  /\ pc = [c \in Calls |-> "idle"]
  /\ arg = [c \in Calls |-> None]
  /\ merging = None
  /\ hw \in Hardware
  /\ moves = 0 /\ boots = 0
  /\ edits = IF Load(file) = None THEN {} ELSE OperatorLabels(file)
  /\ mixed = ((file # None /\ Load(file) = None) \/ Mixed)
  /\ imported = FALSE

Step ==
  \/ \E c \in Patches :
       \/ \E i \in 1 .. Cardinality(Ips), d \in Channels \cup Buttons : Patch(c, i, d)
       \/ PatchWrite(c) \/ PatchFails(c) \/ PatchReload(c)
  \/ \E c \in Imports :
       \/ \E doc \in Importable \cup {<<>>} : Import(c, doc)
       \/ ImportWrite(c) \/ ImportFails(c) \/ ImportReload(c)
  \/ \E c \in Refreshes : Refresh(c) \/ FetchChannels(c)
  \/ \E c \in Calls :
       \/ \E silent \in SUBSET Online, mute \in SUBSET InputMacs : CacheRefreshed(c, silent, mute)
       \/ \E silent \in SUBSET Online : ChannelsFetched(c, silent)
       \/ PersistButtons(c) \/ PersistButtonsFails(c) \/ PersistButtonsReload(c)
       \/ StoreChannels(c) \/ StoreChannelsFails(c) \/ StoreChannelsReload(c)
  \/ \E c \in Discoveries :
       \/ Discover(c)
       \/ \E silent \in SUBSET Online, arp \in BOOLEAN : MergeLoad(c, Scan(arp, silent))
       \/ MergeWrite(c)
  \/ \E m \in InputMacs, b \in Buttons : Learn(m, b)
  \/ \E silent \in SUBSET Online, mute \in SUBSET InputMacs : Start(silent, mute)
  \/ \E silent \in SUBSET Online, arp \in BOOLEAN : InitSweep(Scan(arp, silent))
  \/ Ready \/ InitSweepFails \/ ClearUnloadable \/ Stop
  \/ \E m \in Macs, ip \in Ips \cup {None} : Move(m, ip)
  \/ \E m \in Macs : \E wire \in SUBSET (IF m \in InputMacs THEN Buttons ELSE Channels) :
       Configure(m, wire)

Next == Step /\ mixed' = (mixed \/ Mixed')

Spec == Init /\ [][Next]_vars

-----------------------------------------------------------------------------
\* As long as no module is found where the file, the memory or a call puts
\* another one, whatever the calls write can be loaded at the next start.
FileLoads == file # None /\ ~Loads(file) => mixed

\* What the operator said of a device stays in the file, through discoveries,
\* refreshes and restarts: its label, and the active flag of a button (that of
\* a channel is overwritten from the wire).
EditsSurvive ==
  mixed \/ \A e \in edits :
    /\ file # None
    /\ \E i \in WithMac(file, e[1]) :
         /\ e[2] \in DOMAIN file[i].devices
         /\ file[i].devices[e[2]].label[1] = "operator"
         /\ e[2] \in Buttons => file[i].devices[e[2]].active = e[3]

\* A PATCH that waits for the lock hits the device it was meant for, and what a
\* module says of itself is written to it and to no other one.
LabelsBelong == mixed \/ \A doc \in {file, runtime} \ {None} : HasOwnLabels(doc)

\* When no call is between a write and its reload, the gateway serves what the
\* file holds, unless it does not load, or was cleared at the start.
RuntimeFollowsFile ==
  /\ phase = "up" /\ merging = None /\ Load(file) # None
  /\ \A c \in Calls : pc[c] \notin {"written", "persisted", "stored"}
  => runtime = file \/ (runtime = None /\ file = <<>>)

\* Packets of every module that is served are decoded as its kind, unless the
\* module came with an import.
ServedIsRegistered ==
  phase = "up" /\ runtime # None /\ ~imported =>
    \A i \in DOMAIN runtime : registered[runtime[i].ip] = runtime[i].type
=============================================================================
