-------------------------------- MODULE Wire --------------------------------
(***************************************************************************)
(* From the payload on the wire to what clients are told: DeviceRegistry   *)
(* (gateway/device_registry.py) on the replies of one module with one      *)
(* channel, a relay or a dimmer of either generation, commands of the      *)
(* WebSocket and REST interface and of the REST shim                       *)
(* (gateway/rest_shim.py), and the gestures of one wall button.  FieldBus  *)
(* has the order of replies and commands, so replies come in order here,   *)
(* and may be lost.                                                        *)
(*                                                                         *)
(* The modules are not in the repository.  What they answer is taken from  *)
(* the decoders, and from what the comments beside them say of the two     *)
(* generations: family 54 answers a command with its status, family 15     *)
(* with an echo.  A relay's family is its generation too.                  *)
(***************************************************************************)
EXTENDS ButtonTiming, Payloads

CONSTANTS
  Modules,     \* the modules it may be: type, family and channel
  Levels,      \* levels a client asks for
  Fades,       \* fades a client asks for
  Ids,         \* wire ids of the buttons of the installation
  Mine,        \* getButtons id of the button of ButtonTiming
  MaxAir       \* bound of the model: replies on the way

ASSUME ModulesAssumption ==
  Modules \subseteq [type : {"relay"}, family : Families, ch : 0 .. 99]
                      \cup [type : {"dimmer"}, family : Families, ch : 0 .. 7]
ASSUME LevelsAssumption == Levels \subseteq Int /\ Fades \subseteq Int
ASSUME IdsAssumption == \A id \in Ids : Len(id) = 7
ASSUME MineAssumption == Len(Mine) = 8

VARIABLES
  module,      \* the module
  lamp,        \* its output: 0 or 1, or the value code of a dimmer
  air,         \* its replies on the way
  states,      \* _relay_states or _dimmer_states of the module
  meant,       \* history: what the last report handled meant, or Nothing
  finger       \* history: the last edge of this button

lines == <<module, lamp, air, states, meant>>
wireVars == <<vars, lines, finger>>

Nothing == <<>>

\* What a payload says: the state of a relay or the level of a dimmer.
State(x) == <<"relay", x>>
Level(x) == <<"dimmer", x>>

WireInit ==
  /\ Init
  /\ module \in Modules
  /\ lamp = 0
  /\ air = <<>>
  /\ states = <<>>
  /\ meant = Nothing
  /\ finger = "release"

-----------------------------------------------------------------------------
(***************************************************************************)
(* The module                                                              *)
(***************************************************************************)
IsRelay == module.type = "relay"

\* A value of the output as clients see it: 99 is all a dimmer has for 100.
Meaning(v) ==
  IF IsRelay THEN State(IF v = 1 THEN "on" ELSE "off")
  ELSE Level(IF v = 99 THEN 100 ELSE v)

Reply(payload, means) == <<[payload |-> payload, means |-> means]>>

\* The status of the output: a quartet of a relay ends in its generation.  An
\* older dimmer has no other payload for channel 0 off than its heartbeat.
Status(v) ==
  LET c == module.ch
      old == module.family = 15
  IN IF IsRelay
     THEN Reply(Frame("I", <<0, 0, 0, c \div 10, c % 10, 0, v>> \o
                           (IF old THEN <<1, 5>> ELSE <<0, 0>>)), Meaning(v))
     ELSE Reply(Frame("I", <<0, 1>> \o (IF old THEN <<1, 5>> ELSE <<5, 4>>) \o
                           <<c, v \div 10, v % 10>>),
                IF old /\ c = 0 /\ v = 0 THEN Nothing ELSE Meaning(v))

\* An echo says what S and C say, and nothing for the other commands.
Echo(f, v) ==
  Reply(IF IsRelay THEN [f EXCEPT !.digits = @ \o <<0, 0, 0, 0, 0>>] ELSE f,
        IF f.letter \in {"S", "C"} THEN Meaning(v) ELSE Nothing)

Heartbeat == Reply(Frame("I", <<0, 1>> \o
               (IF module.family = 54 THEN <<5, 4, 9, 9, 9>> ELSE <<1, 5, 0, 0, 0>>)),
               Nothing)

AnyLevel == {ValueCode(l) : l \in Levels}

\* What a payload does to the output of a dimmer: TOGGLE goes back to a level of
\* before, and a ramp ends anywhere.
Dimmed(f) ==
  CASE f.letter = "S" -> {10 * f.digits[2] + f.digits[3]}
    [] f.letter = "C" -> {0}
    [] f.letter = "T" -> IF lamp = 0 THEN AnyLevel ELSE {0}
    [] f = DimStop(module.ch) -> AnyLevel
    [] OTHER -> {lamp}

Switched(f) ==
  CASE f.letter = "S" -> {1}
    [] f.letter \in {"C", "P"} -> {0}
    [] f.letter = "T" -> {1 - lamp}
    [] OTHER -> {lamp}

\* The module's answer to f, with its output at v after it.
Answer(f, v) ==
  IF f = Keepalive THEN IF IsRelay THEN <<>> ELSE Heartbeat
  ELSE IF f = DimStart(module.ch) THEN <<>>
  ELSE IF f.letter = "P" THEN Reply(Frame("P", <<0, 0, 0, 0, 0, 0, 0, 0, 0>>), Nothing)
  ELSE IF f.letter = "I" \/ module.family = 54 THEN Status(v)
  ELSE Echo(f, v)

\* A payload is sent: it is lost, or the module acts on it, and its answer
\* comes or is lost.
Send(f) ==
  \/ UNCHANGED <<lamp, air>>
  \/ \E v \in IF IsRelay THEN Switched(f) ELSE Dimmed(f) :
       /\ lamp' = v
       /\ air' \in {air, air \o Answer(f, v)}
       /\ Len(air') <= MaxAir

-----------------------------------------------------------------------------
(***************************************************************************)
(* The registry                                                            *)
(***************************************************************************)
Set(s, ch, state, code) ==
  [c \in DOMAIN s \cup {ch} |->
     IF c = ch THEN [state |-> state, code |-> code] ELSE s[c]]

\* _handle_relay: an echo has no code, and keeps the last one.
HandleRelay(s, p) ==
  CASE p.family = "relay_status" -> Set(s, p.channel, p.state, p.code)
    [] p.family = "relay_command_reply" /\ p.state # NoState ->
         Set(s, p.channel, p.state,
             IF p.channel \in DOMAIN s THEN s[p.channel].code ELSE <<>>)
    [] OTHER -> s

\* _handle_dimmer: an echo is the state of an older module.
HandleDimmer(s, p) ==
  IF p.family \in {"dimmer_status_reply", "dimmer_command"}
  THEN Set(s, p.channel, p.level, p.code) ELSE s

\* reported_fields: the first decoder that finds a state or a level.
ReportedFields(f) ==
  LET r == DecodeRelay(f)
      d == DecodeDimmer(f)
  IN IF "state" \in DOMAIN r THEN State(r.state)
     ELSE IF "level" \in DOMAIN d THEN Level(d.level)
     ELSE Nothing

\* _notify_listeners: the registry handles a reply.
Receive ==
  /\ air # <<>>
  /\ air' = Tail(air)
  /\ LET f == Head(air).payload IN
     states' = IF IsRelay THEN HandleRelay(states, DecodeRelay(f))
               ELSE HandleDimmer(states, DecodeDimmer(f))
  /\ meant' = IF Head(air).means = Nothing THEN meant ELSE Head(air).means
  /\ UNCHANGED <<vars, module, lamp, finger>>

-----------------------------------------------------------------------------
(***************************************************************************)
(* Commands                                                                *)
(***************************************************************************)

\* The payloads that _execute_command sends for an action.  A fade it refuses,
\* and so does the model of a command for a level out of range: nothing is sent.
Encoded ==
  IF IsRelay
  THEN {RelayCommand(a, module.ch) : a \in {"on", "off", "pulse", "toggle"}}
  ELSE LET allowed == {f \in Fades : IsFade(f)} IN
       {DimOff(module.ch, f) : f \in allowed}
       \cup {DimCommand(module.ch, l, f) : l \in (Levels \cap 1 .. 100) \cup {100},
                                           f \in allowed}
       \cup {DimToggle(module.ch), DimStart(module.ch), DimStop(module.ch)}

Command ==
  /\ \E f \in Encoded : Send(f)
  /\ UNCHANGED <<vars, module, states, meant, finger>>

\* action_action of the REST shim: a value that is left out is 1.
ShimEncoded(action, value) ==
  IF IsRelay
  THEN RelayCommand(IF action = "ON" /\ value > 0 THEN "on"
                    ELSE IF action = "OFF" \/ value = 0 THEN "off" ELSE "on", module.ch)
  ELSE IF action = "DIM" THEN DimCommand(module.ch, value, 0)
  ELSE IF value = 0 THEN DimOff(module.ch, 0)
  ELSE DimCommand(module.ch, 100, 0)

ShimAction ==
  /\ \E action \in {"ON", "OFF", "DIM"}, value \in Levels \cup {1} :
       /\ action = "DIM" => value \in 0 .. 100
       /\ Send(ShimEncoded(action, value))
  /\ UNCHANGED <<vars, module, states, meant, finger>>

\* A keepalive or a status poll.
Poll ==
  /\ \/ Send(Keepalive)
     \/ Send(IF IsRelay THEN RelayPoll(module.ch) ELSE DimmerPoll(module.ch))
  /\ UNCHANGED <<vars, module, states, meant, finger>>

-----------------------------------------------------------------------------
(***************************************************************************)
(* The wall button                                                         *)
(***************************************************************************)

\* The ids of Ids whose button is this one: the key in the getButtons form is
\* the same four bytes.
IsMine(id) ==
  /\ id[1] = Mine[2] /\ id[2] = Mine[3] /\ id[3] = Mine[4] /\ id[7] = Mine[8]

\* _handle_input: a payload of the input module comes, and the gateway looks
\* up the state of its button by the canonical id.
Edge(id, e) ==
  /\ LET p == DecodeInput(InputEvent(45, id, 3, e)) IN
     IF p.family = "none" \/ p.id # CanonicalId(Mine) THEN UNCHANGED vars
     ELSE IF p.action = "press" THEN Press ELSE Release
  /\ finger' = IF ~IsMine(id) THEN finger
               ELSE IF e = 1 THEN "press"
               ELSE IF e = 0 THEN "release" ELSE finger
  /\ UNCHANGED lines

Timer(A) == A /\ UNCHANGED <<lines, finger>>

WireNext ==
  \/ Receive \/ Command \/ ShimAction \/ Poll
  \/ \E id \in Ids, e \in 0 .. 2 : Edge(id, e)
  \/ Timer(LongPressFires) \/ Timer(WindowCloses) \/ Timer(Tick)

WireFairness == WF_wireVars(Timer(Tick)) /\ WF_wireVars(Timer(LongPressFires))
                /\ WF_wireVars(Timer(WindowCloses))

WireSpec == WireInit /\ [][WireNext]_wireVars /\ WireFairness

-----------------------------------------------------------------------------
\* The registry shows what the last report of the module meant, for relays and
\* dimmers of both generations, whatever came in between: heartbeats, replies
\* without a state, lost replies.  It knows no channel that the module has not.
RegistryFollows ==
  /\ DOMAIN states \subseteq {module.ch}
  /\ meant # Nothing => module.ch \in DOMAIN states /\ meant = <<module.type, states[module.ch].state>>

\* What a command that takes a reply says the module reported is what the
\* module meant: the decoders that are tried before the right one leave its
\* payloads alone, and so do the ones after it.
ReportedAgrees ==
  \A i \in DOMAIN air :
    LET reported == ReportedFields(air[i].payload) IN
    reported \in {Nothing, State(NoState), air[i].means}

\* The gateway's state of a button follows the button with the same four bytes
\* in the installation, and no other, whatever is in the other bytes.
PressFollowsFinger == pressed = (finger = "press")
=============================================================================
