---------------------------- MODULE MCRemoteDebug ----------------------------
\* RemoteDebug with a clock that stops at MaxClock and a bus that stops at
\* MaxFrames.  Senders differ in nothing but their name.
EXTENDS RemoteDebug, TLC

CONSTANTS MaxClock, MaxFrames

\* A subnet of four addresses with a module outside; the first request is sent
\* to the module, the second to a host, and each of the others has one fault.
MCNetwork == 8 .. 11
Good == [target |-> 20, port |-> Missing, digits |-> 2, window |-> Missing]
MCRequests ==
  {Good, [target |-> 9, port |-> HubPort, digits |-> 2 * MaxBytes, window |-> MaxWindow]}
    \cup {[Good EXCEPT !.target = ip] : ip \in {8, 11, 12, 99, Missing}}
    \cup {[Good EXCEPT !.port = p] : p \in {Malformed, HubPort + 1}}
    \cup {[Good EXCEPT !.digits = n] : n \in {Malformed, 0, 3, 2 * MaxBytes + 2}}
    \cup {[Good EXCEPT !.window = ms] : ms \in {Malformed, 0, MaxWindow + 1}}

\* Only the two are accepted.
ASSUME RequestsAssumption ==
  {r \in MCRequests : Accepted(r)} = {r \in MCRequests : r = Good \/ r.target = 9}

MCNext ==
  \/ Traffic /\ frames' <= MaxFrames
  \/ \E t \in now .. MaxClock : StepAt(t) /\ frames' <= MaxFrames
  \/ \E c \in Clients : ClientStep(c)
  \/ RawSendDone \/ StopApi \/ StopBus

MCSpec == Init /\ [][MCNext]_vars

SenderSymmetry == Permutations(Senders)
=============================================================================
