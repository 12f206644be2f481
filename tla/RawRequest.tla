------------------------------ MODULE RawRequest ------------------------------
(***************************************************************************)
(* What the gateway checks of a raw send before it may take a slot         *)
(* (gateway/raw_send.py, with the switch and the policy of gateway_api.py).*)
(* A request is a record of what its fields mean: target is the number of  *)
(* an IPv4 address, port and window are numbers, digits is the number of   *)
(* hexadecimal digits of the payload; Missing stands for a field that is   *)
(* not there and Malformed for one that is nothing of the kind.            *)
(* Addresses and the installation do not change here.                      *)
(***************************************************************************)
EXTENDS Integers

CONSTANTS
  RemoteDebugging,  \* the add-on option
  Installed,        \* addresses of modules: of the installation, or configured
  Network,          \* discovery.subnet: its addresses, {} when it is none
  Special,          \* multicast, loopback, reserved and such addresses
  HubPort,          \* hub_port
  MaxBytes,         \* MAX_PAYLOAD_BYTES
  DefaultWindow,    \* DEFAULT_WINDOW_MS
  MaxWindow         \* MAX_WINDOW_MS

ASSUME RequestAssumption ==
  /\ RemoteDebugging \in BOOLEAN
  /\ {HubPort, MaxBytes, DefaultWindow, MaxWindow} \subseteq Nat

Missing == -1
Malformed == -2

\* _remote_debugging_enabled
Enabled == RemoteDebugging = TRUE

\* _module_ip
IsTarget(ip) == ip >= 0 /\ ip \notin Special

\* _port
IsPort(port) == port \in {Missing, HubPort}

\* _payload
IsPayload(digits) == digits % 2 = 0 /\ digits \div 2 \in 1 .. MaxBytes

\* _window_ms
IsWindow(ms) == (IF ms = Missing THEN DefaultWindow ELSE ms) \in 1 .. MaxWindow

\* The hosts of a subnet: neither its own address nor its broadcast.
Hosts(net) == {ip \in net : (\E low \in net : low < ip) /\ (\E high \in net : ip < high)}

\* _raw_send_policy
Targets == Installed \cup Hosts(Network)

\* _target_allowed
TargetAllowed(ip) == ip \in Targets

\* A request with nothing to refuse but a send in progress or a limit.
Accepted(r) ==
  /\ IsTarget(r.target) /\ IsPort(r.port)
  /\ IsPayload(r.digits) /\ IsWindow(r.window)
  /\ TargetAllowed(r.target)

\* _post_debug_raw_send and _handle_raw_send_ws
MayRawSend(r) == Enabled /\ Accepted(r)
=============================================================================
