------------------------------ MODULE Payloads ------------------------------
(***************************************************************************)
(* The UDP payloads of the field bus as gateway/payloads and               *)
(* gateway/button_id.py encode and decode them.                            *)
(*                                                                         *)
(* An ASCII payload is its first letter and its digits: S0991000 is        *)
(* Frame("S", <<0, 9, 9, 1, 0, 0, 0>>).  A payload of an input module is   *)
(* binary: an event is its type, id, marker and edge.  The J envelope that *)
(* an IPBox puts around a command is left out; a module sends none.        *)
(***************************************************************************)
EXTENDS Integers, Sequences

Digit == 0 .. 9

Frame(letter, digits) == [letter |-> letter, digits |-> digits]
Frames == [letter : {"C", "D", "I", "P", "S", "T"}, digits : Seq(Digit)]

\* What a decoder makes of a payload it does not know.
Unknown == [family |-> "none"]

\* A state that is not on or off.
NoState == "unknown"

-----------------------------------------------------------------------------
(***************************************************************************)
(* Relays                                                                  *)
(***************************************************************************)
CommandLetter == [on |-> "S", off |-> "C", pulse |-> "P", toggle |-> "T"]

\* encode_relay_command
RelayCommand(action, ch) ==
  Frame(CommandLetter[action], <<ch \div 10, ch % 10, 0, 0>>)

\* encode_relay_status_poll
RelayPoll(ch) == Frame("I", <<ch \div 10, ch % 10, 0, 0>>)

\* relay_state_from_code: the prefix of the four digits that start at i.
StateFromCode(d, i) ==
  IF d[i] = 0 /\ d[i + 1] = 1 THEN "on"
  ELSE IF d[i] = 0 /\ d[i + 1] = 0 THEN "off" ELSE NoState

RelayStatus(ch, d, i) ==
  [family |-> "relay_status", channel |-> ch, state |-> StateFromCode(d, i),
   code |-> <<d[i], d[i + 1], d[i + 2], d[i + 3]>>]

EchoState == [S |-> "on", C |-> "off", T |-> NoState]

\* DecodeRelay_ShortEcho and the other definitions with such a suffix are faulty
\* variants of the one after them: a property must fail with one in its place.
DecodeRelay_ShortEcho(f) ==
  LET d == f.digits
      n == Len(d)
  IN IF f.letter \in {"S", "C", "T"} /\ n \in 7 .. 9
     THEN [family |-> "relay_command_reply", channel |-> 10 * d[1] + d[2],
           state |-> EchoState[f.letter], code |-> <<>>]
     ELSE IF f.letter = "I" /\ n = 9 THEN RelayStatus(10 * d[4] + d[5], d, 6)
     ELSE Unknown

\* decode_relay_payload: a command, the two forms of a status, the reply to a
\* pulse, and the echo of an older module.
DecodeRelay(f) ==
  LET d == f.digits
      n == Len(d)
  IN IF f.letter \in {"S", "C", "T", "P"} /\ n = 4 /\ d[3] = 0 /\ d[4] = 0
     THEN [family |-> "relay_command", channel |-> 10 * d[1] + d[2]]
     ELSE IF f.letter = "I" /\ n = 9 THEN RelayStatus(10 * d[4] + d[5], d, 6)
     ELSE IF f.letter = "I" /\ n = 8
     THEN RelayStatus(1000 * d[1] + 100 * d[2] + 10 * d[3] + d[4], d, 5)
     ELSE IF f.letter = "P" /\ n = 9 THEN [family |-> "relay_reply_candidate"]
     ELSE IF f.letter \in {"S", "C", "T"} /\ n \in {8, 9}
     THEN [family |-> "relay_command_reply", channel |-> 10 * d[1] + d[2],
           state |-> EchoState[f.letter], code |-> <<>>]
     ELSE Unknown

-----------------------------------------------------------------------------
(***************************************************************************)
(* Dimmers                                                                 *)
(***************************************************************************)

\* _percent_to_value_code and _value_code_to_percent, a code being its number.
ValueCode(level) ==
  IF level <= 0 THEN 0 ELSE IF level >= 100 THEN 99 ELSE level

Percent(code) == IF code >= 99 THEN 100 ELSE code

\* _fade_digits refuses the others: the module wraps above 255.
IsFade(fade) == fade \in 0 .. 255

Dim(letter, ch, code, fade) ==
  Frame(letter, <<ch, code \div 10, code % 10, 1,
                  fade \div 100, (fade \div 10) % 10, fade % 10>>)

\* encode_dim_command, encode_dim_off
DimCommand(ch, level, fade) == Dim("S", ch, ValueCode(level), fade)
DimOff(ch, fade) == Dim("C", ch, 0, fade)

\* encode_dim_toggle, encode_dim_start, encode_dim_stop
DimToggle(ch) == Frame("T", <<ch, 9, 9, 1, 0, 0, 0>>)
DimStart(ch) == Frame("D", <<ch, 0, 0, 1, 0, 0, 3>>)
DimStop(ch) == Frame("D", <<ch, 0, 0, 1, 0, 0, 0>>)

\* encode_dimmer_status_poll
DimmerPoll(ch) == Frame("I", <<ch, 0, 0, 0, 0, 0, 0>>)

Keepalive == Frame("I", <<9, 9, 0, 0>>)

\* The families of dimmer replies, and the code of each that says nothing.
Families == {15, 54}
IdleCode(family) == IF family = 54 THEN <<9, 9, 9>> ELSE <<0, 0, 0>>

Family(d) == IF d[3] = 5 /\ d[4] = 4 THEN 54 ELSE 15

IsDimmerReply(f) ==
  /\ f.letter = "I" /\ Len(f.digits) = 7
  /\ f.digits[1] = 0 /\ f.digits[2] = 1
  /\ <<f.digits[3], f.digits[4]>> \in {<<5, 4>>, <<1, 5>>}

IsIdle_AnyFamily(d) == <<d[5], d[6], d[7]>> \in {<<9, 9, 9>>, <<0, 0, 0>>}

\* A sentinel of one family is a level of the other one.
IsIdle(d) == <<d[5], d[6], d[7]>> = IdleCode(Family(d))

DimmerStatus(d) ==
  [family |-> "dimmer_status_reply", channel |-> d[5],
   level |-> Percent(10 * d[6] + d[7]), code |-> <<d[5], d[6], d[7]>>]

\* An echo too: C is off whatever its value says.
DimmerCommand(f) ==
  LET d == f.digits IN
  [family |-> "dimmer_command", channel |-> d[1],
   level |-> IF f.letter = "C" THEN 0 ELSE Percent(10 * d[2] + d[3]),
   code |-> <<d[2], d[3]>>]

\* decode_dimmer_payload: replies, commands, polls, and what an input module
\* sends to a dimmer.
DecodeDimmer(f) ==
  LET d == f.digits
      n == Len(d)
  IN IF IsDimmerReply(f)
     THEN IF IsIdle(d) THEN [family |-> "dimmer_poll"] ELSE DimmerStatus(d)
     ELSE IF f.letter \in {"S", "C"} /\ n = 7 /\ d[4] = 1 THEN DimmerCommand(f)
     ELSE IF f = Keepalive THEN [family |-> "dimmer_poll"]
     ELSE IF f.letter = "I" /\ n = 7 /\ d[1] <= 7 /\ f = DimmerPoll(d[1])
     THEN [family |-> "dimmer_status_poll", channel |-> d[1]]
     ELSE IF f.letter \in {"T", "D"} /\ n = 7 /\ d[4] = 1 /\ d[5] = 0 /\ d[6] = 0
             /\ d[7] \in (IF f.letter = "D" THEN {0, 3} ELSE {0})
     THEN [family |-> "input_p2p", channel |-> d[1]]
     ELSE Unknown

-----------------------------------------------------------------------------
(***************************************************************************)
(* Input modules                                                           *)
(***************************************************************************)

CanonicalId_Prefix(b) ==
  CASE Len(b) = 8 -> <<b[2], b[3], b[4], b[8]>>
    [] Len(b) = 7 -> <<b[1], b[2], b[3], b[4]>>
    [] OTHER -> <<>>

\* canonical_button_id, of the bytes of an id: the manufacturer's four bytes
\* in the forms of getButtons, of the wire and of an old configuration.
CanonicalId(b) ==
  CASE Len(b) = 8 -> <<b[2], b[3], b[4], b[8]>>
    [] Len(b) = 7 -> <<b[1], b[2], b[3], b[7]>>
    [] Len(b) = 5 -> <<b[1], b[2], b[3], b[4]>>
    [] Len(b) = 4 -> b
    [] OTHER -> <<>>

\* The payload of an event, a module's type byte and marker are anything.
InputEvent(type, id, marker, edge) ==
  [letter |-> "B", type |-> type, id |-> id, marker |-> marker, edge |-> edge]

\* decode_input_payload: an event has the edge 1 or 0 and an id of seven bytes.
DecodeInput(f) ==
  IF f.letter # "B" \/ f.edge \notin {0, 1} \/ Len(f.id) # 7 THEN Unknown
  ELSE [family |-> "input_button_event", id |-> CanonicalId(f.id),
        action |-> IF f.edge = 1 THEN "press" ELSE "release"]
=============================================================================
