---------------------------- MODULE Wire_proofs ----------------------------
(***************************************************************************)
(* Proofs about Wire, for every module, level, fade and button id, and     *)
(* about the gestures of ButtonTiming behind it, for every threshold,      *)
(* window and lag.                                                         *)
(*                                                                         *)
(* Replies.  A reply on the way is faithful: the decoders that are tried   *)
(* on it find nothing, or what the module meant, and the registry either   *)
(* ignores it or takes what the module meant for the channel it has.  Each *)
(* kind of answer of each generation is shown to be faithful (the lemmas   *)
(* whose names end in OK), for every payload that the gateway can send     *)
(* (Request).                                                              *)
(*                                                                         *)
(* Gestures.  The invariant has two layers.  Timers ties every timer to    *)
(* the history it stands for and holds for all constants.  Order says that *)
(* a window that is open when a long press timer runs closes before it; it *)
(* needs a threshold longer than the window, and it is what keeps the end  *)
(* of a hold from forgetting clicks.                                       *)
(*                                                                         *)
(* The two meet in ButtonStep: whatever comes over the wire, a step of the *)
(* whole is a step of the button, or leaves it alone.                      *)
(***************************************************************************)
EXTENDS Wire, TLAPS

\* What the output of the module may be at.
Outputs == IF IsRelay THEN 0 .. 1 ELSE 0 .. 99

Meanings == {Nothing} \cup ({"relay"} \X {"on", "off"}) \cup ({"dimmer"} \X (0 .. 100))

ReplyRec == [payload : [letter : {"C", "D", "I", "P", "S", "T"}, digits : Seq(Nat)],
             means : Meanings]

\* What the registry does with a payload f of the module m.
Handled(m, s, f) ==
  IF m.type = "relay" THEN HandleRelay(s, DecodeRelay(f)) ELSE HandleDimmer(s, DecodeDimmer(f))

\* A reply of the module m is decoded as what the module meant.
Faithful(m, r) ==
  /\ ReportedFields(r.payload) \in {Nothing, State(NoState), r.means}
  /\ \A s : \/ r.means = Nothing /\ Handled(m, s, r.payload) = s
            \/ \E x, code : /\ r.means = <<m.type, x>>
                            /\ Handled(m, s, r.payload) = Set(s, m.ch, x, code)

LEMMA ModuleFields ==
  ASSUME module \in Modules
  PROVE  /\ module.family \in {15, 54}
         /\ IsRelay => module.type = "relay" /\ module.ch \in 0 .. 99
         /\ ~IsRelay => module.type = "dimmer" /\ module.ch \in 0 .. 7
BY ModulesAssumption DEF IsRelay, Families

LEMMA Decimal ==
  ASSUME NEW c \in 0 .. 99
  PROVE  c \div 10 \in 0 .. 9 /\ c % 10 \in 0 .. 9 /\ 10 * (c \div 10) + (c % 10) = c
<1> DEFINE t == c \div 10
           u == c % 10
<1>1. t \in 0 .. 9 /\ u \in 0 .. 9
  OBVIOUS
<1>2. 10 * t + u = c
  <2>1. c \in Int /\ t \in Int /\ u \in Int /\ t = c \div 10 /\ u = c % 10
    BY <1>1
  <2> HIDE DEF t, u
  <2>2. QED
    BY <2>1
<1>3. QED
  BY <1>1, <1>2, Zenon

LEMMA Concat ==
  ASSUME NEW h \in Seq(Nat), NEW e \in Seq(Nat)
  PROVE  /\ h \o e \in Seq(Nat) /\ Len(h \o e) = Len(h) + Len(e)
         /\ \A i \in 1 .. Len(h) : (h \o e)[i] = h[i]
         /\ \A i \in 1 .. Len(e) : (h \o e)[Len(h) + i] = e[i]
OBVIOUS

\* A payload that the registry does not take for a state.
LEMMA SilentOK ==
  ASSUME NEW r, r.means = Nothing, ReportedFields(r.payload) \in {Nothing, State(NoState)},
         \A s : Handled(module, s, r.payload) = s
  PROVE  Faithful(module, r)
BY DEF Faithful

\* The status of a relay.
LEMMA RelayStatusOK ==
  ASSUME module \in Modules, IsRelay, NEW v \in 0 .. 1
  PROVE  \E r \in ReplyRec : Status(v) = <<r>> /\ Faithful(module, r)
<1> DEFINE c == module.ch
           t == c \div 10
           u == c % 10
           e == IF module.family = 15 THEN <<1, 5>> ELSE <<0, 0>>
           h == <<0, 0, 0, t, u, 0, v>>
           d == h \o e
           f == Frame("I", d)
           x == IF v = 1 THEN "on" ELSE "off"
           r == [payload |-> f, means |-> <<"relay", x>>]
<1>1. t \in Nat /\ u \in Nat /\ 10 * t + u = c /\ module.type = "relay"
  BY ModuleFields, Decimal
<1>2. e \in Seq(Nat) /\ Len(e) = 2
  OBVIOUS
<1>3. Status(v) = <<r>>
  BY Zenon DEF Status, Reply, Meaning, State
<1> HIDE DEF t, u, e
<1>4. /\ h \in Seq(Nat) /\ Len(h) = 7
      /\ h[4] = t /\ h[5] = u /\ h[6] = 0 /\ h[7] = v
  BY <1>1
<1> HIDE DEF h
<1>5. /\ d \in Seq(Nat) /\ Len(d) = 9
      /\ d[4] = t /\ d[5] = u /\ d[6] = 0 /\ d[7] = v
  <2>0. /\ d \in Seq(Nat) /\ Len(d) = Len(h) + Len(e)
        /\ \A i \in 1 .. Len(h) : d[i] = h[i]
    BY <1>2, <1>4, Concat, Zenon
  <2> HIDE DEF d
  <2>1. d \in Seq(Nat) /\ Len(d) = 9
    BY <1>2, <1>4, <2>0
  <2>2. \A i \in 1 .. 7 : d[i] = h[i]
    BY <1>4, <2>0
  <2>3. QED
    BY <1>4, <2>1, <2>2
<1> HIDE DEF d
<1>6. f.letter = "I" /\ f.digits = d
  BY DEF Frame
<1> HIDE DEF f
<1>7. StateFromCode(d, 6) = x
  BY <1>5 DEF StateFromCode
<1> DEFINE code == <<d[6], d[7], d[8], d[9]>>
<1>8. DecodeRelay(f) = [family |-> "relay_status", channel |-> c, state |-> x, code |-> code]
  <2>1. DecodeRelay(f) = RelayStatus(10 * d[4] + d[5], d, 6)
    BY <1>5, <1>6 DEF DecodeRelay
  <2>2. 10 * d[4] + d[5] = c
    BY <1>1, <1>5
  <2>3. 6 + 1 = 7 /\ 6 + 2 = 8 /\ 6 + 3 = 9
    OBVIOUS
  <2>4. QED
    BY <1>7, <2>1, <2>2, <2>3, Zenon DEF RelayStatus
<1> HIDE DEF code, x
<1>9. ReportedFields(f) = <<"relay", x>>
  BY <1>8 DEF ReportedFields, State
<1>10. \A s : Handled(module, s, f) = Set(s, c, x, code)
  BY <1>8 DEF IsRelay, Handled, HandleRelay
<1>11. r.payload = f /\ r.means = <<module.type, x>>
  BY <1>1
<1>12. Faithful(module, r)
  BY <1>1, <1>9, <1>10, <1>11 DEF Faithful
<1>13. r \in ReplyRec
  BY <1>5 DEF ReplyRec, Meanings, f, Frame, x
<1>14. QED
  BY <1>3, <1>12, <1>13

\* A relay of the older generation echoes a command.
LEMMA RelayEchoOK ==
  ASSUME module \in Modules, IsRelay, NEW f \in [letter : {"S", "C", "T"}, digits : Seq(Nat)],
         Len(f.digits) = 4, 10 * f.digits[1] + f.digits[2] = module.ch,
         NEW v \in Switched(f)
  PROVE  \E r \in ReplyRec : Echo(f, v) = <<r>> /\ Faithful(module, r)
<1> DEFINE d == f.digits \o <<0, 0, 0, 0, 0>>
           g == [f EXCEPT !.digits = d]
           m == IF f.letter \in {"S", "C"} THEN Meaning(v) ELSE Nothing
           r == [payload |-> g, means |-> m]
           c == module.ch
<1>1. /\ d \in Seq(Nat) /\ Len(d) = 9 /\ d[1] = f.digits[1] /\ d[2] = f.digits[2]
  <2> DEFINE h == f.digits
             e == <<0, 0, 0, 0, 0>>
  <2>1. h \in Seq(Nat) /\ Len(h) = 4 /\ e \in Seq(Nat) /\ Len(e) = 5
    OBVIOUS
  <2> HIDE DEF h, e
  <2>2. /\ h \o e \in Seq(Nat) /\ Len(h \o e) = Len(h) + Len(e)
        /\ \A i \in 1 .. Len(h) : (h \o e)[i] = h[i]
    BY <2>1, Concat, Zenon
  <2>3. d = h \o e
    BY DEF h, e
  <2> HIDE DEF d
  <2>4. QED
    BY <2>1, <2>2, <2>3 DEF h
<1>2. Echo(f, v) = <<r>>
  BY DEF Echo, Reply
<1> HIDE DEF d
<1>3. /\ g.letter = f.letter /\ g.digits = d
      /\ g \in [letter : {"C", "D", "I", "P", "S", "T"}, digits : Seq(Nat)]
  BY <1>1
<1> HIDE DEF g
<1>4. f.letter \in {"S", "C", "T"} /\ module.type = "relay"
  BY ModuleFields
<1>5. DecodeRelay(g) = [family |-> "relay_command_reply", channel |-> c,
                        state |-> EchoState[f.letter], code |-> <<>>]
  <2>1. Len(g.digits) = 9 /\ 10 * g.digits[1] + g.digits[2] = c /\ g.letter \in {"S", "C", "T"}
    BY <1>1, <1>3, <1>4
  <2>2. QED
    BY <1>3, <2>1 DEF DecodeRelay
<1>6. ReportedFields(g) = State(EchoState[f.letter])
  BY <1>5 DEF ReportedFields
<1>7. CASE f.letter = "T"
  <2>1. EchoState[f.letter] = NoState /\ m = Nothing
    BY <1>7 DEF EchoState
  <2>2. \A s : Handled(module, s, g) = s
    BY <1>5, <2>1 DEF IsRelay, Handled, HandleRelay
  <2>3. Faithful(module, r)
    BY <1>6, <2>1, <2>2, SilentOK
  <2>4. QED
    BY <1>2, <1>3, <2>1, <2>3 DEF ReplyRec, Meanings
<1>8. CASE f.letter \in {"S", "C"}
  <2> DEFINE x == EchoState[f.letter]
  <2>1. x \in {"on", "off"} /\ x # NoState /\ m = <<"relay", x>>
    BY <1>8 DEF EchoState, NoState, Switched, Meaning, State
  <2> HIDE DEF x, m
  <2>2. \A s : \E code : Handled(module, s, g) = Set(s, c, x, code)
    <3>1. \A s : Handled(module, s, g) = Set(s, c, x, IF c \in DOMAIN s THEN s[c].code ELSE <<>>)
      BY <1>5, <2>1 DEF IsRelay, Handled, HandleRelay, x
    <3>2. QED
      BY <3>1, Zenon
  <2>3. Faithful(module, r)
    BY <1>4, <1>6, <2>1, <2>2 DEF Faithful, State, x
  <2>4. QED
    BY <1>2, <1>3, <2>1, <2>3 DEF ReplyRec, Meanings
<1>9. QED
  BY <1>4, <1>7, <1>8

\* The reply to a pulse.
LEMMA PulseReplyOK ==
  ASSUME module \in Modules
  PROVE  \E r \in ReplyRec :
           /\ Reply(Frame("P", <<0, 0, 0, 0, 0, 0, 0, 0, 0>>), Nothing) = <<r>>
           /\ Faithful(module, r)
<1> DEFINE d == <<0, 0, 0, 0, 0, 0, 0, 0, 0>>
           f == Frame("P", d)
           r == [payload |-> f, means |-> Nothing]
<1>1. d \in Seq(Nat) /\ Len(d) = 9
  OBVIOUS
<1>2. Reply(Frame("P", d), Nothing) = <<r>>
  BY DEF Reply
<1> HIDE DEF d
<1>3. f.letter = "P" /\ f.digits = d /\ f # Keepalive
  BY DEF Frame, Keepalive
<1>4. r \in ReplyRec
  BY <1>1 DEF ReplyRec, Meanings, Frame
<1> HIDE DEF f
<1>5. DecodeRelay(f) = [family |-> "relay_reply_candidate"]
  <2>1. Len(f.digits) = 9
    BY <1>1, <1>3
  <2>2. QED
    BY <1>3, <2>1 DEF DecodeRelay
<1>6. DecodeDimmer(f) = Unknown
  BY <1>3 DEF DecodeDimmer, IsDimmerReply
<1>7. ReportedFields(f) = Nothing
  BY <1>5, <1>6 DEF ReportedFields, Unknown
<1>8. \A s : Handled(module, s, f) = s
  BY <1>5, <1>6 DEF IsRelay, Handled, HandleRelay, HandleDimmer, Unknown
<1>9. Faithful(module, r)
  BY <1>7, <1>8, SilentOK
<1>10. QED
  BY <1>2, <1>4, <1>9, Zenon DEF d, f

-----------------------------------------------------------------------------
\* The digits of a reply of a dimmer.
LEMMA DimmerDigits ==
  ASSUME NEW p \in Nat, NEW q \in Nat, NEW c \in Nat, NEW t \in Nat, NEW u \in Nat,
         NEW d, d = <<0, 1>> \o <<p, q>> \o <<c, t, u>>
  PROVE  /\ d \in Seq(Nat) /\ Len(d) = 7 /\ d[1] = 0 /\ d[2] = 1 /\ d[3] = p /\ d[4] = q
         /\ d[5] = c /\ d[6] = t /\ d[7] = u
<1> DEFINE a == <<0, 1>>
           b == <<p, q>>
           e == <<c, t, u>>
           h == a \o b
<1>1. a \in Seq(Nat) /\ b \in Seq(Nat) /\ e \in Seq(Nat)
  OBVIOUS
<1>2. /\ Len(a) = 2 /\ Len(b) = 2 /\ Len(e) = 3
      /\ a[1] = 0 /\ a[2] = 1 /\ b[1] = p /\ b[2] = q
      /\ e[1] = c /\ e[2] = t /\ e[3] = u
  OBVIOUS
<1>3. d = h \o e
  OBVIOUS
<1> HIDE DEF a, b, e
<1>4. /\ h \in Seq(Nat) /\ Len(h) = Len(a) + Len(b)
      /\ \A i \in 1 .. Len(a) : h[i] = a[i]
      /\ \A i \in 1 .. Len(b) : h[Len(a) + i] = b[i]
  BY <1>1, Concat, Zenon
<1> HIDE DEF h
<1>5. Len(h) = 4 /\ h[1] = 0 /\ h[2] = 1 /\ h[3] = p /\ h[4] = q
  <2>1. Len(h) = 4 /\ h[1] = 0 /\ h[2] = 1 /\ h[2 + 1] = p /\ h[2 + 2] = q
    BY ONLY <1>2, <1>4
  <2>2. QED
    BY ONLY <2>1
<1>6. /\ d \in Seq(Nat) /\ Len(d) = Len(h) + Len(e)
      /\ \A i \in 1 .. Len(h) : d[i] = h[i]
      /\ \A i \in 1 .. Len(e) : d[Len(h) + i] = e[i]
  <2>1. /\ h \o e \in Seq(Nat) /\ Len(h \o e) = Len(h) + Len(e)
        /\ \A i \in 1 .. Len(h) : (h \o e)[i] = h[i]
        /\ \A i \in 1 .. Len(e) : (h \o e)[Len(h) + i] = e[i]
    BY <1>1, <1>4, Concat, Zenon
  <2>2. QED
    BY ONLY <1>3, <2>1, Zenon
<1>7. /\ Len(d) = 7 /\ d[1] = h[1] /\ d[2] = h[2] /\ d[3] = h[3] /\ d[4] = h[4]
      /\ d[4 + 1] = e[1] /\ d[4 + 2] = e[2] /\ d[4 + 3] = e[3]
  BY ONLY <1>2, <1>5, <1>6
<1>8. QED
  BY ONLY <1>2, <1>5, <1>6, <1>7

\* A dimmer's heartbeat says nothing, and the status of its channel is no
\* heartbeat, but for the one of an older module with channel 0 off.
LEMMA DimmerReplyOK ==
  ASSUME module \in Modules, ~IsRelay,
         NEW c \in 0 .. 9, NEW t \in 0 .. 9, NEW u \in 0 .. 9, NEW means \in Meanings, NEW f,
         f = Frame("I", <<0, 1>> \o (IF module.family = 15 THEN <<1, 5>> ELSE <<5, 4>>)
                                 \o <<c, t, u>>),
         IF <<c, t, u>> = IdleCode(module.family) THEN means = Nothing
         ELSE c = module.ch /\ means = <<"dimmer", Percent(10 * t + u)>>
  PROVE  LET r == [payload |-> f, means |-> means] IN r \in ReplyRec /\ Faithful(module, r)
<1> DEFINE p == IF module.family = 15 THEN 1 ELSE 5
           q == IF module.family = 15 THEN 5 ELSE 4
           d == <<0, 1>> \o <<p, q>> \o <<c, t, u>>
           r == [payload |-> f, means |-> means]
<1>1. p \in Nat /\ q \in Nat /\ <<p, q>> = (IF module.family = 15 THEN <<1, 5>> ELSE <<5, 4>>)
  OBVIOUS
<1>2. f = Frame("I", d)
  BY <1>1
<1>3. module.family \in {15, 54} /\ module.type = "dimmer"
  BY ModuleFields
<1>4. <<p, q>> \in {<<5, 4>>, <<1, 5>>} /\ (p = 5 /\ q = 4 <=> module.family = 54)
  BY <1>3
<1> HIDE DEF p, q
<1>5. c \in Nat /\ t \in Nat /\ u \in Nat
  OBVIOUS
<1>6. /\ d \in Seq(Nat) /\ Len(d) = 7 /\ d[1] = 0 /\ d[2] = 1 /\ d[3] = p /\ d[4] = q
      /\ d[5] = c /\ d[6] = t /\ d[7] = u
  BY <1>1, <1>5, DimmerDigits
<1> HIDE DEF d
<1>7. f.letter = "I" /\ f.digits = d
  BY <1>2 DEF Frame
<1>8. r \in ReplyRec
  <2>1. f = [letter |-> "I", digits |-> d] /\ "I" \in {"C", "D", "I", "P", "S", "T"}
    BY <1>2 DEF Frame
  <2>2. d \in Seq(Nat) /\ means \in Meanings
    BY <1>6
  <2>3. QED
    BY ONLY <2>1, <2>2 DEF ReplyRec
<1>9. IsDimmerReply(f)
  BY <1>4, <1>6, <1>7, Zenon DEF IsDimmerReply
<1>10. Family(d) = module.family
  BY <1>3, <1>4, <1>6 DEF Family
<1>11. IsIdle(d) <=> <<c, t, u>> = IdleCode(module.family)
  BY <1>6, <1>10, Zenon DEF IsIdle
<1>12. DecodeRelay(f) = Unknown
  <2>1. Len(f.digits) = 7 /\ f.letter = "I"
    BY <1>6, <1>7, Zenon
  <2>2. QED
    BY ONLY <2>1 DEF DecodeRelay
<1>13. CASE <<c, t, u>> = IdleCode(module.family)
  <2>1. DecodeDimmer(f) = [family |-> "dimmer_poll"] /\ means = Nothing
    BY <1>7, <1>9, <1>11, <1>13, Zenon DEF DecodeDimmer
  <2>2. ReportedFields(f) = Nothing /\ \A s : Handled(module, s, f) = s
    BY <1>12, <2>1 DEF ReportedFields, Unknown, IsRelay, Handled, HandleDimmer
  <2>3. Faithful(module, r)
    BY <2>1, <2>2, SilentOK
  <2>4. QED
    BY <1>8, <2>3
<1>14. CASE <<c, t, u>> # IdleCode(module.family)
  <2> DEFINE x == Percent(10 * t + u)
             code == <<c, t, u>>
  <2>1. DecodeDimmer(f) = [family |-> "dimmer_status_reply", channel |-> c, level |-> x,
                           code |-> code]
    BY <1>6, <1>7, <1>9, <1>11, <1>14, Zenon DEF DecodeDimmer, DimmerStatus
  <2>2. c = module.ch /\ means = <<"dimmer", x>>
    BY <1>14
  <2> HIDE DEF x, code
  <2>3. ReportedFields(f) = <<"dimmer", x>>
    BY <1>12, <2>1 DEF ReportedFields, Unknown, Level
  <2>4. \A s : Handled(module, s, f) = Set(s, c, x, code)
    BY <2>1 DEF IsRelay, Handled, HandleDimmer
  <2>5. Faithful(module, r)
    BY <1>3, <2>2, <2>3, <2>4 DEF Faithful
  <2>6. QED
    BY <1>8, <2>5
<1>15. QED
  BY <1>13, <1>14

LEMMA MeaningOfDimmer ==
  ASSUME ~IsRelay, NEW v \in 0 .. 99
  PROVE  Meaning(v) = <<"dimmer", Percent(v)>> /\ Meaning(v) \in Meanings
BY DEF Meaning, Level, Percent, Meanings

LEMMA DimmerStatusOK ==
  ASSUME module \in Modules, ~IsRelay, NEW v \in 0 .. 99
  PROVE  \E r \in ReplyRec : Status(v) = <<r>> /\ Faithful(module, r)
<1> DEFINE c == module.ch
           t == v \div 10
           u == v % 10
           means == IF module.family = 15 /\ c = 0 /\ v = 0 THEN Nothing ELSE Meaning(v)
           f == Frame("I", <<0, 1>> \o (IF module.family = 15 THEN <<1, 5>> ELSE <<5, 4>>)
                                    \o <<c, t, u>>)
           r == [payload |-> f, means |-> means]
<1>1. Status(v) = <<r>>
  BY Zenon DEF Status, Reply
<1>2. c \in 0 .. 7 /\ module.family \in {15, 54}
  BY ModuleFields
<1>3. t \in 0 .. 9 /\ u \in 0 .. 9 /\ 10 * t + u = v
  BY Decimal
<1> HIDE DEF t, u, c
<1>4. means \in Meanings
  BY MeaningOfDimmer DEF Meanings
<1>5. <<c, t, u>> = IdleCode(module.family) <=> module.family = 15 /\ c = 0 /\ v = 0
  BY <1>2, <1>3 DEF IdleCode
<1>6. IF <<c, t, u>> = IdleCode(module.family) THEN means = Nothing
      ELSE c = module.ch /\ means = <<"dimmer", Percent(10 * t + u)>>
  BY <1>3, <1>5, MeaningOfDimmer, Zenon DEF c
<1>7. c \in 0 .. 9
  BY <1>2
<1> HIDE DEF means
<1>8. r \in ReplyRec /\ Faithful(module, r)
  BY <1>3, <1>4, <1>6, <1>7, DimmerReplyOK, Zenon
<1>9. QED
  BY <1>1, <1>8, Zenon

LEMMA HeartbeatOK ==
  ASSUME module \in Modules, ~IsRelay
  PROVE  \E r \in ReplyRec : Heartbeat = <<r>> /\ Faithful(module, r)
<1> DEFINE x == IF module.family = 54 THEN 9 ELSE 0
           f == Frame("I", <<0, 1>> \o (IF module.family = 15 THEN <<1, 5>> ELSE <<5, 4>>)
                                    \o <<x, x, x>>)
           g == Frame("I", <<0, 1>> \o (IF module.family = 54 THEN <<5, 4, 9, 9, 9>>
                                        ELSE <<1, 5, 0, 0, 0>>))
           r == [payload |-> f, means |-> Nothing]
<1>1. module.family \in {15, 54}
  BY ModuleFields
<1>2. f = g
  <2>1. <<0, 1>> \o <<5, 4>> \o <<9, 9, 9>> = <<0, 1>> \o <<5, 4, 9, 9, 9>>
    OBVIOUS
  <2>2. <<0, 1>> \o <<1, 5>> \o <<0, 0, 0>> = <<0, 1>> \o <<1, 5, 0, 0, 0>>
    OBVIOUS
  <2>3. CASE module.family = 54
    <3>1. x = 9 /\ (IF module.family = 15 THEN <<1, 5>> ELSE <<5, 4>>) = <<5, 4>>
      BY <2>3
    <3>2. (IF module.family = 54 THEN <<5, 4, 9, 9, 9>> ELSE <<1, 5, 0, 0, 0>>) = <<5, 4, 9, 9, 9>>
      BY <2>3
    <3> HIDE DEF x
    <3>3. QED
      BY ONLY <2>1, <2>2, <3>1, <3>2, Zenon
  <2>4. CASE module.family = 15
    <3>1. x = 0 /\ (IF module.family = 15 THEN <<1, 5>> ELSE <<5, 4>>) = <<1, 5>>
      BY <2>4
    <3>2. (IF module.family = 54 THEN <<5, 4, 9, 9, 9>> ELSE <<1, 5, 0, 0, 0>>) = <<1, 5, 0, 0, 0>>
      BY <2>4
    <3> HIDE DEF x
    <3>3. QED
      BY ONLY <2>1, <2>2, <3>1, <3>2, Zenon
  <2>5. QED
    BY <1>1, <2>3, <2>4
<1>3. Heartbeat = <<r>>
  BY <1>2 DEF Heartbeat, Reply
<1>4. x \in 0 .. 9 /\ <<x, x, x>> = IdleCode(module.family) /\ Nothing \in Meanings
  BY <1>1 DEF IdleCode, Meanings
<1>5. r \in ReplyRec /\ Faithful(module, r)
  <2> HIDE DEF x
  <2>1. QED
    BY <1>4, DimmerReplyOK, Zenon
<1>6. QED
  BY <1>3, <1>5, Zenon

-----------------------------------------------------------------------------
\* A dimmer of the older generation echoes a command.
LEMMA DimmerEchoOK ==
  ASSUME module \in Modules, ~IsRelay,
         NEW f \in [letter : {"S", "C", "T", "D"}, digits : Seq(Nat)],
         Len(f.digits) = 7, f.digits[4] = 1, f.digits[1] = module.ch,
         10 * f.digits[2] + f.digits[3] \in 0 .. 99,
         NEW v \in Dimmed(f), v \in 0 .. 99
  PROVE  \E r \in ReplyRec : Echo(f, v) = <<r>> /\ Faithful(module, r)
<1> DEFINE d == f.digits
           m == IF f.letter \in {"S", "C"} THEN Meaning(v) ELSE Nothing
           r == [payload |-> f, means |-> m]
           c == module.ch
<1>1. Echo(f, v) = <<r>>
  BY DEF Echo, Reply
<1>2. m \in Meanings
  BY MeaningOfDimmer DEF Meanings
<1>3. r \in ReplyRec
  <2>1. f \in [letter : {"C", "D", "I", "P", "S", "T"}, digits : Seq(Nat)]
    OBVIOUS
  <2> HIDE DEF m
  <2>2. QED
    BY ONLY <1>2, <2>1 DEF ReplyRec
<1>4. /\ f.letter \in {"S", "C", "T", "D"} /\ d \in Seq(Nat)
      /\ Len(d) = 7 /\ d[1] = c /\ d[4] = 1 /\ module.type = "dimmer"
  BY ModuleFields
<1>5. DecodeRelay(f) = Unknown
  BY ONLY <1>4 DEF DecodeRelay
<1>6. ~IsDimmerReply(f) /\ f # Keepalive
  BY ONLY <1>4 DEF IsDimmerReply, Keepalive, Frame
<1>7. CASE f.letter \in {"S", "C"}
  <2> DEFINE x == IF f.letter = "C" THEN 0 ELSE Percent(10 * d[2] + d[3])
             code == <<d[2], d[3]>>
  <2>1. DecodeDimmer(f) = [family |-> "dimmer_command", channel |-> c, level |-> x, code |-> code]
    <3>1. DecodeDimmer(f) = DimmerCommand(f)
      BY ONLY <1>4, <1>6, <1>7 DEF DecodeDimmer
    <3>2. QED
      BY <1>4, <3>1, Zenon DEF DimmerCommand
  <2>2. v = (IF f.letter = "C" THEN 0 ELSE 10 * d[2] + d[3])
    <3>1. f # DimStop(module.ch) /\ f.letter # "T"
      BY <1>7 DEF DimStop, Frame
    <3>2. CASE f.letter = "S"
      <4>1. Dimmed(f) = {10 * d[2] + d[3]}
        BY <3>1, <3>2 DEF Dimmed
      <4>2. QED
        BY <3>2, <4>1
    <3>3. CASE f.letter = "C"
      <4>1. Dimmed(f) = {0}
        BY <3>1, <3>3 DEF Dimmed
      <4>2. QED
        BY <3>3, <4>1
    <3>4. QED
      BY <1>7, <3>2, <3>3
  <2>3. m = <<"dimmer", x>>
    <3>1. x = Percent(v)
      BY <2>2 DEF Percent
    <3>2. m = Meaning(v)
      BY <1>7
    <3> HIDE DEF x, m
    <3>3. QED
      BY <3>1, <3>2, MeaningOfDimmer, Zenon
  <2> HIDE DEF x, code, m
  <2>4. ReportedFields(f) = <<"dimmer", x>>
    BY <1>5, <2>1 DEF ReportedFields, Unknown, Level
  <2>5. \A s : Handled(module, s, f) = Set(s, c, x, code)
    BY <2>1 DEF IsRelay, Handled, HandleDimmer
  <2>6. Faithful(module, r)
    BY <1>4, <2>3, <2>4, <2>5 DEF Faithful
  <2>7. QED
    BY <1>1, <1>3, <2>6, Zenon
<1>8. CASE f.letter \in {"T", "D"}
  <2>1. DecodeDimmer(f) \in {Unknown, [family |-> "input_p2p", channel |-> c]}
    BY ONLY <1>4, <1>6, <1>8 DEF DecodeDimmer
  <2>2. ReportedFields(f) = Nothing
    BY <1>5, <2>1 DEF ReportedFields, Unknown
  <2>3. \A s : Handled(module, s, f) = s
    BY <2>1 DEF IsRelay, Handled, HandleDimmer, Unknown
  <2>4. m = Nothing
    BY <1>8
  <2>5. Faithful(module, r)
    BY <2>2, <2>3, <2>4, SilentOK
  <2>6. QED
    BY <1>1, <1>3, <2>5, Zenon
<1>9. QED
  BY <1>4, <1>7, <1>8

-----------------------------------------------------------------------------
\* The payloads the gateway sends to the module.
RelayRequest(f) ==
  \/ f.letter = "I"
  \/ /\ f \in [letter : {"S", "C", "T", "P"}, digits : Seq(Nat)]
     /\ Len(f.digits) = 4 /\ 10 * f.digits[1] + f.digits[2] = module.ch

DimmerRequest(f) ==
  \/ f.letter = "I"
  \/ /\ f \in [letter : {"S", "C", "T", "D"}, digits : Seq(Nat)]
     /\ Len(f.digits) = 7 /\ f.digits[4] = 1 /\ f.digits[1] = module.ch
     /\ 10 * f.digits[2] + f.digits[3] \in 0 .. 99

Request(f) == IF IsRelay THEN RelayRequest(f) ELSE DimmerRequest(f)

\* An answer is nothing, or one faithful reply.
Sound(a) == a = <<>> \/ \E r \in ReplyRec : a = <<r>> /\ Faithful(module, r)

LEMMA RelayAnswerOK ==
  ASSUME module \in Modules, IsRelay, lamp \in 0 .. 1, NEW f, RelayRequest(f),
         NEW v \in Switched(f)
  PROVE  v \in 0 .. 1 /\ Sound(Answer(f, v))
<1>0. f.letter \in {"I", "S", "C", "T", "P"}
  BY DEF RelayRequest
<1>1. v \in 0 .. 1
  BY <1>0 DEF Switched
<1>2. f # DimStart(module.ch)
  BY <1>0 DEF DimStart, Frame
<1>3. CASE f = Keepalive
  BY <1>1, <1>3 DEF Answer, Sound
<1>4. CASE f # Keepalive /\ f.letter = "P"
  <2>1. Answer(f, v) = Reply(Frame("P", <<0, 0, 0, 0, 0, 0, 0, 0, 0>>), Nothing)
    BY <1>2, <1>4, Zenon DEF Answer
  <2>2. QED
    BY <1>1, <2>1, PulseReplyOK, Zenon DEF Sound
<1>5. CASE f # Keepalive /\ f.letter # "P" /\ (f.letter = "I" \/ module.family = 54)
  <2>1. Answer(f, v) = Status(v)
    BY <1>2, <1>5, Zenon DEF Answer
  <2>2. QED
    BY <1>1, <2>1, RelayStatusOK, Zenon DEF Sound
<1>6. CASE f # Keepalive /\ f.letter \notin {"P", "I"} /\ module.family # 54
  <2>1. Answer(f, v) = Echo(f, v)
    BY <1>2, <1>6, Zenon DEF Answer
  <2>2. /\ f \in [letter : {"S", "C", "T"}, digits : Seq(Nat)]
        /\ Len(f.digits) = 4 /\ 10 * f.digits[1] + f.digits[2] = module.ch
    BY <1>6 DEF RelayRequest
  <2>3. QED
    BY <1>1, <2>1, <2>2, RelayEchoOK, Zenon DEF Sound
<1>7. QED
  BY <1>3, <1>4, <1>5, <1>6

LEMMA DimmerAnswerOK ==
  ASSUME module \in Modules, ~IsRelay, lamp \in 0 .. 99, NEW f, DimmerRequest(f),
         NEW v \in Dimmed(f)
  PROVE  v \in 0 .. 99 /\ Sound(Answer(f, v))
<1>0. f.letter \in {"I", "S", "C", "T", "D"} /\ IsRelay = FALSE
  BY DEF DimmerRequest, IsRelay
<1>1. v \in 0 .. 99
  <2>1. \A l \in Levels : l \in Int
    BY LevelsAssumption
  <2>2. AnyLevel \subseteq 0 .. 99
    BY <2>1 DEF AnyLevel, ValueCode
  <2>3. CASE f.letter = "S"
    <3>1. Dimmed(f) = {10 * f.digits[2] + f.digits[3]}
      <4>1. f.letter = "S" /\ f # DimStop(module.ch)
        BY <2>3 DEF DimStop, Frame
      <4>2. QED
        BY ONLY <4>1 DEF Dimmed
    <3>2. QED
      BY <2>3, <3>1 DEF DimmerRequest
  <2>4. CASE f.letter # "S"
    <3>1. Dimmed(f) = {0} \/ Dimmed(f) = AnyLevel \/ Dimmed(f) = {lamp}
      <4>1. f.letter \in {"I", "C", "T", "D"} /\ (f = DimStop(module.ch) => f.letter = "D")
        BY <1>0, <2>4 DEF DimStop, Frame
      <4>2. QED
        BY ONLY <4>1 DEF Dimmed
    <3>2. v = 0 \/ v \in AnyLevel \/ v = lamp
      BY <3>1, Zenon
    <3>3. 0 \in 0 .. 99
      OBVIOUS
    <3>4. QED
      BY <2>2, <3>2, <3>3, Zenon
  <2>5. QED
    BY <2>3, <2>4
<1>3. CASE f = Keepalive
  <2>1. Answer(f, v) = Heartbeat
    BY <1>0, <1>3, Zenon DEF Answer
  <2>2. QED
    BY <1>1, <2>1, HeartbeatOK, Zenon DEF Sound
<1>4. CASE f # Keepalive /\ f = DimStart(module.ch)
  <2>1. Answer(f, v) = <<>>
    BY <1>4, Zenon DEF Answer
  <2>2. QED
    BY <1>1, <2>1 DEF Sound
<1>5. CASE f # Keepalive /\ f # DimStart(module.ch) /\ (f.letter = "I" \/ module.family = 54)
  <2>1. f.letter # "P"
    BY <1>0
  <2>2. Answer(f, v) = Status(v)
    BY <1>5, <2>1, Zenon DEF Answer
  <2>3. QED
    BY <1>1, <2>2, DimmerStatusOK, Zenon DEF Sound
<1>6. CASE f # Keepalive /\ f # DimStart(module.ch) /\ f.letter # "I" /\ module.family # 54
  <2>1. f.letter # "P"
    BY <1>0
  <2>2. Answer(f, v) = Echo(f, v)
    BY <1>6, <2>1, Zenon DEF Answer
  <2>3. /\ f \in [letter : {"S", "C", "T", "D"}, digits : Seq(Nat)]
        /\ Len(f.digits) = 7 /\ f.digits[4] = 1 /\ f.digits[1] = module.ch
        /\ 10 * f.digits[2] + f.digits[3] \in 0 .. 99
    BY <1>6 DEF DimmerRequest
  <2>4. QED
    BY <1>1, <2>2, <2>3, DimmerEchoOK, Zenon DEF Sound
<1>7. QED
  BY <1>3, <1>4, <1>5, <1>6

-----------------------------------------------------------------------------
\* The module's output and its replies on the way.
LineInv ==
  /\ module \in Modules
  /\ lamp \in Outputs
  /\ air \in Seq(ReplyRec)
  /\ \A i \in DOMAIN air : Faithful(module, air[i])

LEMMA Joined ==
  ASSUME NEW m, NEW s \in Seq(ReplyRec), \A i \in DOMAIN s : Faithful(m, s[i]),
         NEW r \in ReplyRec, Faithful(m, r)
  PROVE  s \o <<r>> \in Seq(ReplyRec) /\ \A i \in DOMAIN (s \o <<r>>) : Faithful(m, (s \o <<r>>)[i])
OBVIOUS

LEMMA SendKeeps ==
  ASSUME LineInv, NEW f, Request(f), Send(f), UNCHANGED module
  PROVE  LineInv'
<1>1. CASE UNCHANGED <<lamp, air>>
  BY <1>1 DEF LineInv, Outputs, IsRelay
<1>2. ASSUME NEW v \in IF IsRelay THEN Switched(f) ELSE Dimmed(f),
             lamp' = v, air' \in {air, air \o Answer(f, v)}
      PROVE  LineInv'
  <2>1. v \in Outputs /\ Sound(Answer(f, v))
    <3>1. CASE IsRelay
      <4>1. RelayRequest(f) /\ lamp \in 0 .. 1 /\ module \in Modules /\ v \in Switched(f)
        BY <1>2, <3>1 DEF LineInv, Outputs, Request
      <4>2. v \in 0 .. 1 /\ Sound(Answer(f, v))
        BY <3>1, <4>1, RelayAnswerOK
      <4>3. QED
        BY <3>1, <4>2 DEF Outputs
    <3>2. CASE ~IsRelay
      <4>1. DimmerRequest(f) /\ lamp \in 0 .. 99 /\ module \in Modules /\ v \in Dimmed(f)
        BY <1>2, <3>2 DEF LineInv, Outputs, Request
      <4>2. v \in 0 .. 99 /\ Sound(Answer(f, v))
        BY <3>2, <4>1, DimmerAnswerOK
      <4>3. QED
        BY <3>2, <4>2 DEF Outputs
    <3>3. QED
      BY <3>1, <3>2
  <2>2. module' \in Modules /\ lamp' \in Outputs'
    BY <1>2, <2>1 DEF LineInv, Outputs, IsRelay
  <2>3. air' \in Seq(ReplyRec) /\ \A i \in DOMAIN air' : Faithful(module, air'[i])
    <3>1. air \in Seq(ReplyRec) /\ \A i \in DOMAIN air : Faithful(module, air[i])
      BY DEF LineInv
    <3>2. CASE air' = air \/ Answer(f, v) = <<>>
      <4>1. air' = air
        BY <1>2, <3>1, <3>2
      <4>2. QED
        BY <3>1, <4>1
    <3>3. ASSUME NEW r \in ReplyRec, Faithful(module, r), air' = air \o <<r>>
          PROVE  air' \in Seq(ReplyRec) /\ \A i \in DOMAIN air' : Faithful(module, air'[i])
      BY <3>1, <3>3, Joined, Zenon
    <3>4. QED
      BY <1>2, <2>1, <3>2, <3>3 DEF Sound
  <2>4. QED
    BY <2>2, <2>3 DEF LineInv
<1>3. QED
  BY <1>1, <1>2 DEF Send

-----------------------------------------------------------------------------
LEMMA RelayCommandIsRequest ==
  ASSUME module \in Modules, IsRelay, NEW a \in {"on", "off", "pulse", "toggle"}
  PROVE  Request(RelayCommand(a, module.ch))
<1> DEFINE c == module.ch
           t == c \div 10
           u == c % 10
           f == RelayCommand(a, c)
<1>1. t \in Nat /\ u \in Nat /\ 10 * t + u = c
  BY ModuleFields, Decimal
<1> HIDE DEF t, u
<1>2. f = [letter |-> CommandLetter[a], digits |-> <<t, u, 0, 0>>]
  BY Zenon DEF RelayCommand, Frame, t, u
<1>3. CommandLetter[a] \in {"S", "C", "T", "P"}
  BY DEF CommandLetter
<1>4. QED
  BY <1>1, <1>2, <1>3 DEF Request, RelayRequest

LEMMA DimIsRequest ==
  ASSUME module \in Modules, ~IsRelay, NEW letter \in {"S", "C"}, NEW code \in 0 .. 99,
         NEW fade \in 0 .. 255
  PROVE  Request(Dim(letter, module.ch, code, fade))
<1> DEFINE c == module.ch
           t == code \div 10
           u == code % 10
           x == fade \div 100
           y == (fade \div 10) % 10
           z == fade % 10
           f == Dim(letter, c, code, fade)
<1>1. c \in Nat /\ t \in Nat /\ u \in Nat /\ 10 * t + u \in 0 .. 99
  BY ModuleFields, Decimal
<1>2. x \in Nat /\ y \in Nat /\ z \in Nat
  OBVIOUS
<1>3. f = [letter |-> letter, digits |-> <<c, t, u, 1, x, y, z>>]
  BY Zenon DEF Dim, Frame
<1> HIDE DEF t, u, x, y, z
<1>4. QED
  BY <1>1, <1>2, <1>3 DEF Request, DimmerRequest

LEMMA DimmerCommandsAreRequests ==
  ASSUME module \in Modules, ~IsRelay
  PROVE  /\ \A fade \in 0 .. 255 : Request(DimOff(module.ch, fade))
         /\ \A l \in Int, fade \in 0 .. 255 : Request(DimCommand(module.ch, l, fade))
         /\ Request(DimToggle(module.ch)) /\ Request(DimStart(module.ch))
         /\ Request(DimStop(module.ch))
<1>1. \A l \in Int : ValueCode(l) \in 0 .. 99
  BY DEF ValueCode
<1>2. /\ \A fade \in 0 .. 255 : Request(DimOff(module.ch, fade))
      /\ \A l \in Int, fade \in 0 .. 255 : Request(DimCommand(module.ch, l, fade))
  <2>1. 0 \in 0 .. 99 /\ "S" \in {"S", "C"} /\ "C" \in {"S", "C"}
    OBVIOUS
  <2>2. QED
    BY <1>1, <2>1, DimIsRequest, Zenon DEF DimOff, DimCommand
<1>3. module.ch \in Nat
  BY ModuleFields
<1>4. ASSUME NEW letter \in {"T", "D"}, NEW t \in {0, 9}, NEW z \in {0, 3}
      PROVE  Request(Frame(letter, <<module.ch, t, t, 1, 0, 0, z>>))
  <2> DEFINE d == <<module.ch, t, t, 1, 0, 0, z>>
  <2>1. d \in Seq(Nat) /\ Len(d) = 7 /\ d[4] = 1 /\ d[1] = module.ch /\ d[2] = t /\ d[3] = t
    BY <1>3
  <2> HIDE DEF d
  <2>2. 10 * d[2] + d[3] \in 0 .. 99
    BY <2>1
  <2>3. QED
    <3> DEFINE g == Frame(letter, d)
    <3>1. g \in [letter : {"S", "C", "T", "D"}, digits : Seq(Nat)] /\ g.digits = d
      BY <2>1 DEF Frame
    <3> HIDE DEF g
    <3>2. DimmerRequest(g)
      BY <2>1, <2>2, <3>1, Zenon DEF DimmerRequest
    <3>3. Request(g)
      BY <3>2 DEF Request
    <3>4. QED
      BY <3>3, Zenon DEF d, g
<1>5. "T" \in {"T", "D"} /\ "D" \in {"T", "D"} /\ 0 \in {0, 9} /\ 9 \in {0, 9} /\ 0 \in {0, 3}
      /\ 3 \in {0, 3}
  OBVIOUS
<1>6. QED
  BY <1>2, <1>4, <1>5, Zenon DEF DimToggle, DimStart, DimStop

LEMMA EncodedAreRequests ==
  ASSUME module \in Modules, NEW f \in Encoded
  PROVE  Request(f)
<1>1. CASE IsRelay
  <2>1. f \in {RelayCommand(a, module.ch) : a \in {"on", "off", "pulse", "toggle"}}
    BY <1>1 DEF Encoded
  <2>2. PICK a \in {"on", "off", "pulse", "toggle"} : f = RelayCommand(a, module.ch)
    BY <2>1, Zenon
  <2>3. QED
    BY <1>1, <2>2, RelayCommandIsRequest, Zenon
<1>2. CASE ~IsRelay
  <2>1. /\ \A fade \in {g \in Fades : IsFade(g)} : fade \in 0 .. 255
        /\ \A l \in (Levels \cap 1 .. 100) \cup {100} : l \in Int
    BY DEF IsFade
  <2>2. \/ \E fade \in 0 .. 255 : f = DimOff(module.ch, fade)
        \/ \E l \in Int, fade \in 0 .. 255 : f = DimCommand(module.ch, l, fade)
        \/ f = DimToggle(module.ch) \/ f = DimStart(module.ch) \/ f = DimStop(module.ch)
    <3> DEFINE allowed == {g \in Fades : IsFade(g)}
               asked == (Levels \cap 1 .. 100) \cup {100}
    <3>1. f \in {DimOff(module.ch, g) : g \in allowed}
              \cup {DimCommand(module.ch, l, g) : l \in asked, g \in allowed}
              \cup {DimToggle(module.ch), DimStart(module.ch), DimStop(module.ch)}
      BY <1>2 DEF Encoded
    <3>2. (\A g \in allowed : g \in 0 .. 255) /\ \A l \in asked : l \in Int
      BY <2>1
    <3> HIDE DEF allowed, asked
    <3>3. QED
      BY ONLY <3>1, <3>2
  <2>3. QED
    BY <1>2, <2>2, DimmerCommandsAreRequests, Zenon
<1>3. QED
  BY <1>1, <1>2

LEMMA ShimEncodedAreRequests ==
  ASSUME module \in Modules, NEW action \in {"ON", "OFF", "DIM"}, NEW value \in Levels \cup {1}
  PROVE  Request(ShimEncoded(action, value))
<1>0. value \in Int
  BY LevelsAssumption
<1>1. CASE IsRelay
  <2>1. ShimEncoded(action, value) \in {RelayCommand("on", module.ch), RelayCommand("off", module.ch)}
    BY <1>1, Zenon DEF ShimEncoded
  <2>2. QED
    BY <1>1, <2>1, RelayCommandIsRequest
<1>2. CASE ~IsRelay
  <2>1. \/ ShimEncoded(action, value) = DimCommand(module.ch, value, 0)
        \/ ShimEncoded(action, value) = DimOff(module.ch, 0)
        \/ ShimEncoded(action, value) = DimCommand(module.ch, 100, 0)
    BY <1>2, Zenon DEF ShimEncoded
  <2>2. 0 \in 0 .. 255 /\ 100 \in Int
    OBVIOUS
  <2>3. QED
    BY <1>0, <1>2, <2>1, <2>2, DimmerCommandsAreRequests, Zenon
<1>3. QED
  BY <1>1, <1>2

LEMMA PollsAreRequests ==
  Request(Keepalive) /\ Request(RelayPoll(module.ch)) /\ Request(DimmerPoll(module.ch))
BY DEF Request, RelayRequest, DimmerRequest, Keepalive, RelayPoll, DimmerPoll, Frame

-----------------------------------------------------------------------------
WireInv == LineInv /\ RegistryFollows

\* Nothing but a reply that is received changes what the registry knows.
LEMMA RegistryStays ==
  ASSUME RegistryFollows, UNCHANGED <<module, states, meant>>
  PROVE  RegistryFollows'
BY Zenon DEF RegistryFollows

LEMMA TailKeeps ==
  ASSUME NEW m, NEW s \in Seq(ReplyRec), s # <<>>, \A i \in DOMAIN s : Faithful(m, s[i])
  PROVE  /\ Tail(s) \in Seq(ReplyRec) /\ \A i \in DOMAIN Tail(s) : Faithful(m, Tail(s)[i])
         /\ Head(s) \in ReplyRec /\ Faithful(m, Head(s))
OBVIOUS

LEMMA ReceiveKeeps == ASSUME WireInv, Receive PROVE WireInv'
<1> DEFINE r == Head(air)
           f == r.payload
<1>1. /\ air # <<>> /\ air' = Tail(air) /\ UNCHANGED <<module, lamp>>
      /\ states' = Handled(module, states, f)
      /\ meant' = IF r.means = Nothing THEN meant ELSE r.means
  BY Zenon DEF Receive, IsRelay, Handled
<1>2. /\ Tail(air) \in Seq(ReplyRec)
      /\ \A i \in DOMAIN Tail(air) : Faithful(module, Tail(air)[i])
      /\ Faithful(module, r)
  BY <1>1, TailKeeps, Zenon DEF WireInv, LineInv
<1>3. LineInv'
  <2>1. module' \in Modules /\ lamp' \in Outputs'
    BY <1>1, Zenon DEF WireInv, LineInv, Outputs, IsRelay
  <2>2. air' \in Seq(ReplyRec) /\ \A i \in DOMAIN air' : Faithful(module, air'[i])
    BY <1>1, <1>2, Zenon
  <2>3. QED
    BY <1>1, <2>1, <2>2, Zenon DEF LineInv
<1>4. RegistryFollows
  BY DEF WireInv
<1> HIDE DEF r
<1>5. CASE r.means = Nothing /\ Handled(module, states, f) = states
  <2>1. states' = states /\ meant' = meant
    BY <1>1, <1>5, Zenon
  <2>2. QED
    BY <1>1, <1>3, <1>4, <2>1, RegistryStays, Zenon DEF WireInv
<1>6. ASSUME NEW x, NEW code, r.means = <<module.type, x>>,
             Handled(module, states, f) = Set(states, module.ch, x, code)
      PROVE  WireInv'
  <2>1. <<module.type, x>> # Nothing
    BY DEF Nothing
  <2>2. meant' = <<module.type, x>>
    BY <1>1, <1>6, <2>1, Zenon
  <2>3. /\ DOMAIN states' = DOMAIN states \cup {module.ch}
        /\ states'[module.ch] = [state |-> x, code |-> code]
    BY <1>1, <1>6, Zenon DEF Set
  <2>4. states'[module.ch].state = x
    BY <2>3
  <2>5. RegistryFollows'
    BY <1>1, <1>4, <2>2, <2>3, <2>4 DEF RegistryFollows
  <2>6. QED
    BY <1>3, <2>5 DEF WireInv
<1>7. QED
  BY <1>2, <1>5, <1>6, Zenon DEF Faithful

LEMMA WireInitial == WireInit => WireInv
<1> SUFFICES ASSUME WireInit PROVE WireInv
  OBVIOUS
<1>1. air = <<>> /\ states = <<>> /\ meant = Nothing
      /\ lamp = 0 /\ module \in Modules
  BY DEF WireInit
<1>2. <<>> \in Seq(ReplyRec) /\ DOMAIN <<>> = {}
  OBVIOUS
<1>3. LineInv
  <2>1. lamp \in Outputs
    BY <1>1 DEF Outputs
  <2>2. QED
    BY <1>1, <1>2, <2>1, Zenon DEF LineInv
<1>4. RegistryFollows
  <2>1. DOMAIN states = {}
    BY <1>1, <1>2
  <2>2. QED
    BY <1>1, <2>1 DEF RegistryFollows
<1>5. QED
  BY <1>3, <1>4 DEF WireInv

LEMMA WireStep == WireInv /\ [WireNext]_wireVars => WireInv'
<1> SUFFICES ASSUME WireInv, [WireNext]_wireVars PROVE WireInv'
  OBVIOUS
<1>0. LineInv /\ RegistryFollows /\ module \in Modules
  BY DEF WireInv, LineInv
<1>1. CASE Receive
  BY <1>1, ReceiveKeeps
<1>2. ASSUME NEW f, Request(f), Send(f), UNCHANGED <<module, states, meant>> PROVE WireInv'
  BY <1>0, <1>2, SendKeeps, RegistryStays, Zenon DEF WireInv
<1>3. CASE Command
  BY <1>0, <1>2, <1>3, EncodedAreRequests, Zenon DEF Command
<1>4. CASE ShimAction
  BY <1>0, <1>2, <1>4, ShimEncodedAreRequests, Zenon DEF ShimAction
<1>5. CASE Poll
  <2>1. \E f \in {Keepalive, RelayPoll(module.ch), DimmerPoll(module.ch)} : Send(f)
    BY <1>5 DEF Poll
  <2>2. QED
    BY <1>2, <1>5, <2>1, PollsAreRequests DEF Poll
<1>6. ASSUME UNCHANGED lines PROVE WireInv'
  <2>1. LineInv'
    BY <1>0, <1>6, Zenon DEF lines, LineInv, Outputs, IsRelay
  <2>2. QED
    BY <1>0, <1>6, <2>1, RegistryStays, Zenon DEF WireInv, lines
<1>7. CASE \E id \in Ids, e \in 0 .. 2 : Edge(id, e)
  BY <1>6, <1>7, Zenon DEF Edge
<1>8. CASE Timer(LongPressFires) \/ Timer(WindowCloses) \/ Timer(Tick)
  BY <1>6, <1>8, Zenon DEF Timer
<1>9. CASE UNCHANGED wireVars
  BY <1>6, <1>9, Zenon DEF wireVars
<1>10. QED
  BY <1>1, <1>3, <1>4, <1>5, <1>7, <1>8, <1>9, Zenon DEF WireNext

LEMMA WireInvariant == WireSpec => []WireInv
<1>1. WireInit => WireInv
  BY WireInitial
<1> QED
  BY <1>1, WireStep, PTL DEF WireSpec

\* The registry shows what the last report of the module meant, and knows no
\* other channel, for every relay and every dimmer of both generations.
THEOREM RegistryShowsLastReport == WireSpec => []RegistryFollows
<1>1. WireInv => RegistryFollows
  BY DEF WireInv
<1> QED
  BY <1>1, WireInvariant, PTL

\* Whatever the module answers, the decoders that a command tries on it find
\* nothing, or what the module meant.
THEOREM CommandsAreToldTheTruth == WireSpec => []ReportedAgrees
<1>1. WireInv => ReportedAgrees
  BY Zenon DEF WireInv, LineInv, Faithful, ReportedAgrees
<1> QED
  BY <1>1, WireInvariant, PTL

-----------------------------------------------------------------------------
(***************************************************************************)
(* The gestures of ButtonTiming                                            *)
(***************************************************************************)
\* The two halves of TypeOK.
Numbers ==
  /\ longIn \in Off .. HoldThreshold
  /\ multiIn \in Off .. Window
  /\ clicks \in 0 .. MaxClicks
  /\ held \in 0 .. HoldThreshold /\ since \in 0 .. Window /\ owed \in Int

Flags ==
  /\ multi \in BOOLEAN /\ pressed \in BOOLEAN /\ longFired \in BOOLEAN
  /\ edge \in {"press", "release"} /\ longTold \in BOOLEAN

\* The code's fields against the history of the edges.
Fields ==
  /\ pressed <=> edge = "press"
  /\ longFired <=> pressed /\ longTold

\* The long press timer runs only for the press that is held, and has
\* the rest of the threshold left.
LongTimer ==
  longIn # Off => /\ pressed /\ ~longFired
                  /\ held = HoldThreshold \/ held + longIn = HoldThreshold

\* Counted clicks have an open window, which runs since the last click.
ClickTimer ==
  /\ clicks > 0 <=> multiIn # Off
  /\ multiIn # Off => multi
  /\ multiIn # Off => since = Window \/ since + multiIn = Window

Timers == Numbers /\ Flags /\ Fields /\ LongTimer /\ ClickTimer

Order ==
  /\ longIn # Off /\ multiIn # Off => multiIn < longIn
  /\ longFired => clicks = 0

USE HoldAssumption, WindowAssumption, LagAssumption, MaxClicksAssumption

-----------------------------------------------------------------------------
LEMMA TimersInit == Init => Timers
<1> SUFFICES ASSUME Init PROVE Timers
  OBVIOUS
<1>0. Flags
  BY DEF Init, Flags
<1>1. Numbers
  BY DEF Init, Off, Numbers
<1>2. Fields
  BY DEF Init, Fields
<1>3. LongTimer /\ ClickTimer
  BY DEF Init, LongTimer, ClickTimer
<1> QED
  BY <1>0, <1>1, <1>2, <1>3 DEF Timers

LEMMA TimersPress == Timers /\ Press => Timers'
<1> SUFFICES ASSUME Timers, Press PROVE Timers'
  OBVIOUS
<1>0. Flags'
  BY DEF Press, PressWith, Timers, Flags
<1>1. Numbers'
  BY DEF Press, PressWith, Timers, Numbers, Off
<1>2. Fields'
  BY DEF Press, PressWith, Fields
<1>3. LongTimer'
  BY DEF Press, PressWith, LongTimer
<1>4. ClickTimer'
  BY DEF Press, PressWith, Timers, ClickTimer
<1> QED
  BY <1>0, <1>1, <1>2, <1>3, <1>4 DEF Timers

\* A click by the history is a press the code takes for a short one.
LEMMA ClickIsShort == Timers => (IsClick <=> pressed /\ ~longFired)
BY DEF Timers, Fields, IsClick

LEMMA TimersRelease == Timers /\ Release => Timers'
<1> SUFFICES ASSUME Timers, Release PROVE Timers'
  OBVIOUS
<1>1. IsClick <=> pressed /\ ~longFired
  BY ClickIsShort
<1>2. CASE ReleaseStray
  BY <1>1, <1>2 DEF ReleaseStray, LetGo, Timers, Numbers, Flags, Fields, LongTimer, ClickTimer, Off
<1>3. CASE ReleaseAfterLong
  <2>0. Flags'
    BY <1>1, <1>3 DEF ReleaseAfterLong, LetGo, Timers, Flags
  <2>1. Numbers'
    BY <1>1, <1>3 DEF ReleaseAfterLong, LetGo, Timers, Numbers, Off
  <2>2. Fields'
    BY <1>1, <1>3 DEF ReleaseAfterLong, LetGo, Timers, Fields
  <2>3. LongTimer'
    BY <1>1, <1>3 DEF ReleaseAfterLong, LetGo, Timers, Numbers, Flags, LongTimer, Off
  <2>4. ClickTimer'
    BY <1>1, <1>3 DEF ReleaseAfterLong, LetGo, Timers, Numbers, Flags, ClickTimer, Off
  <2> QED
    BY <2>0, <2>1, <2>2, <2>3, <2>4 DEF Timers
<1>4. CASE ReleaseSingle
  <2>0. Flags'
    BY <1>1, <1>4 DEF ReleaseSingle, LetGo, Timers, Flags
  <2>1. Numbers'
    BY <1>1, <1>4 DEF ReleaseSingle, LetGo, Timers, Numbers, Off
  <2>2. Fields'
    BY <1>1, <1>4 DEF ReleaseSingle, LetGo, Timers, Fields
  <2>3. LongTimer'
    BY <1>1, <1>4 DEF ReleaseSingle, LetGo, Timers, Numbers, Flags, LongTimer, Off
  <2>4. ClickTimer'
    BY <1>1, <1>4 DEF ReleaseSingle, LetGo, Timers, Numbers, Flags, ClickTimer, Off
  <2> QED
    BY <2>0, <2>1, <2>2, <2>3, <2>4 DEF Timers
<1>5. CASE ReleaseClick
  <2>0. Flags'
    BY <1>1, <1>5 DEF ReleaseClick, ReleaseInWindow, LetGo, Timers, Flags
  <2>1. Numbers'
    BY <1>1, <1>5 DEF ReleaseClick, ReleaseInWindow, LetGo, Timers, Numbers, Off
  <2>2. Fields'
    BY <1>1, <1>5 DEF ReleaseClick, ReleaseInWindow, LetGo, Timers, Fields
  <2>3. LongTimer'
    BY <1>1, <1>5 DEF ReleaseClick, ReleaseInWindow, LetGo, Timers, Numbers, Flags, LongTimer, Off
  <2>4. ClickTimer'
    BY <1>1, <1>5 DEF ReleaseClick, ReleaseInWindow, LetGo, Timers, Numbers, Flags, ClickTimer, Off
  <2> QED
    BY <2>0, <2>1, <2>2, <2>3, <2>4 DEF Timers
<1> QED
  BY <1>2, <1>3, <1>4, <1>5 DEF Release

LEMMA TimersLongPress == Timers /\ LongPressFires => Timers'
<1> SUFFICES ASSUME Timers, LongPressFires PROVE Timers'
  OBVIOUS
<1>1. pressed
  BY DEF LongPressFires, IsNext, Timers, LongTimer
<1> QED
  BY <1>1 DEF LongPressFires, IsNext, Timers, Numbers, Flags, Fields, LongTimer, ClickTimer, Off

LEMMA TimersWindow == Timers /\ WindowCloses => Timers'
BY DEF WindowCloses, IsNext, Timers, Numbers, Flags, Fields, LongTimer, ClickTimer, Off

LEMMA TimersTick == Timers /\ Tick => Timers'
<1> SUFFICES ASSUME Timers, Tick PROVE Timers'
  OBVIOUS
<1>0. Flags'
  BY DEF Tick, Timers, Flags
<1>1. Numbers'
  BY DEF Tick, Timers, Numbers, Later, UpTo, Off
<1>2. Fields'
  BY DEF Tick, Timers, Fields
<1>3. LongTimer'
  BY DEF Tick, Timers, Numbers, Flags, LongTimer, Later, UpTo, Off
<1>4. ClickTimer'
  BY DEF Tick, Timers, Numbers, Flags, ClickTimer, Later, UpTo, Off
<1> QED
  BY <1>0, <1>1, <1>2, <1>3, <1>4 DEF Timers

LEMMA TimersStep == Timers /\ [Next]_vars => Timers'
<1>1. Timers /\ UNCHANGED vars => Timers'
  BY DEF vars, timers, history, Timers, Numbers, Flags, Fields, LongTimer, ClickTimer
<1> QED
  BY <1>1, TimersPress, TimersRelease, TimersLongPress, TimersWindow, TimersTick DEF Next

LEMMA TimersInvariant == Spec => []Timers
BY TimersInit, TimersStep, PTL DEF Spec

\* Every field of the button's state and its history keeps its type.
THEOREM TypeCorrect == Spec => []TypeOK
<1>1. Timers => TypeOK
  BY DEF Timers, Numbers, Flags, TypeOK
<1> QED
  BY <1>1, TimersInvariant, PTL

-----------------------------------------------------------------------------
\* A step that sends long_press ends a hold of the whole threshold.
LEMMA LongStep ==
  Timers /\ [Next]_vars =>
    [\A i \in DOMAIN out' : out'[i].action = "long_press" =>
       edge = "press" /\ held >= HoldThreshold]_vars
<1> SUFFICES ASSUME Timers, Next, NEW i \in DOMAIN out', out'[i].action = "long_press"
             PROVE  edge = "press" /\ held >= HoldThreshold
  BY DEF vars
<1>1. CASE Press
  BY <1>1 DEF Press, PressWith, Event
<1>2. CASE Release
  <2>1. \/ out' = <<Event("release", 0)>>
        \/ out' = <<Event("single_press", 0), Event("release", 0)>>
    BY <1>2 DEF Release, ReleaseStray, ReleaseAfterLong, ReleaseSingle, ReleaseClick,
                ReleaseInWindow
  <2> QED
    BY <2>1 DEF Event
<1>3. CASE LongPressFires
  <2>1. longIn # Off /\ longIn <= 0
    BY <1>3 DEF LongPressFires, IsNext
  <2> QED
    BY <2>1 DEF Timers, Numbers, Flags, Fields, LongTimer, Off
<1>4. CASE WindowCloses
  <2>1. Gesture(clicks) # "long_press"
    BY DEF Gesture
  <2>2. out' = <<>> \/ out' = <<Event(Gesture(clicks), clicks)>>
    BY <1>4 DEF WindowCloses
  <2> QED
    BY <2>1, <2>2 DEF Event
<1>5. CASE Tick
  BY <1>5 DEF Tick
<1> QED
  BY <1>1, <1>2, <1>3, <1>4, <1>5 DEF Next

\* long_press is sent only at the end of a whole hold, for every threshold.
THEOREM LongPressIsAHold == Spec => LongOnlyWhenHeld
BY TimersInvariant, LongStep, PTL DEF Spec, LongOnlyWhenHeld

\* A step that sends a count comes a whole window after the last click.
LEMMA TellStep ==
  Timers /\ [Next]_vars => [\A i \in DOMAIN out' : out'[i].count > 0 => since >= Window]_vars
<1> SUFFICES ASSUME Timers, Next, NEW i \in DOMAIN out', out'[i].count > 0
             PROVE  since >= Window
  BY DEF vars
<1>1. CASE Press
  BY <1>1 DEF Press, PressWith, Event
<1>2. CASE Release
  <2>1. \/ out' = <<Event("release", 0)>>
        \/ out' = <<Event("single_press", 0), Event("release", 0)>>
    BY <1>2 DEF Release, ReleaseStray, ReleaseAfterLong, ReleaseSingle, ReleaseClick,
                ReleaseInWindow
  <2> QED
    BY <2>1 DEF Event
<1>3. CASE LongPressFires
  <2>1. out' = <<>> \/ out' = <<Event("long_press", 0)>>
    BY <1>3 DEF LongPressFires
  <2> QED
    BY <2>1 DEF Event
<1>4. CASE WindowCloses
  <2>1. multiIn # Off /\ multiIn <= 0
    BY <1>4 DEF WindowCloses, IsNext
  <2> QED
    BY <2>1 DEF Timers, Numbers, Flags, ClickTimer, Off
<1>5. CASE Tick
  BY <1>5 DEF Tick
<1> QED
  BY <1>1, <1>2, <1>3, <1>4, <1>5 DEF Next

\* Clicks less than a window apart are told together, for every window.
THEOREM CountsFollowSilence == Spec => TellsAfterWindow
BY TimersInvariant, TellStep, PTL DEF Spec, TellsAfterWindow

-----------------------------------------------------------------------------
Conserved == Order /\ ClicksConserved

LEMMA ConservedStep ==
  ASSUME HoldThreshold > Window, Timers, Conserved, [Next]_vars
  PROVE  Conserved'
<1>0. IsClick <=> pressed /\ ~longFired
  BY ClickIsShort
<1>1. CASE Press
  BY <1>1 DEF Press, PressWith, Timers, Numbers, Flags, Conserved, Order, ClicksConserved, Off
<1>2. CASE ReleaseStray
  BY <1>2 DEF ReleaseStray, LetGo, Conserved, Order, ClicksConserved
<1>3. CASE ReleaseAfterLong
  BY <1>0, <1>3 DEF ReleaseAfterLong, LetGo, Conserved, Order, ClicksConserved
<1>4. CASE ReleaseSingle
  BY <1>0, <1>4 DEF ReleaseSingle, LetGo, Conserved, Order, ClicksConserved
<1>5. CASE ReleaseClick
  BY <1>0, <1>5 DEF ReleaseClick, ReleaseInWindow, LetGo, Conserved, Order, ClicksConserved
<1>6. CASE LongPressFires
  \* The window would have closed first: no click is waiting.
  <2>1. multiIn = Off
    BY <1>6 DEF LongPressFires, IsNext, Timers, Numbers, Flags, Conserved, Order, Off
  <2>2. clicks = 0
    BY <2>1 DEF Timers, Numbers, Flags, ClickTimer
  <2> QED
    BY <1>6, <2>2 DEF LongPressFires, Conserved, Order, ClicksConserved
<1>7. CASE WindowCloses
  BY <1>7 DEF WindowCloses, Timers, Numbers, Flags, Conserved, Order, ClicksConserved
<1>8. CASE Tick
  BY <1>8 DEF Tick, Later, Timers, Numbers, Flags, Conserved, Order, ClicksConserved, Off
<1>9. CASE UNCHANGED vars
  BY <1>9 DEF vars, timers, history, Conserved, Order, ClicksConserved
<1> QED
  BY <1>1, <1>2, <1>3, <1>4, <1>5, <1>6, <1>7, <1>8, <1>9 DEF Next, Release

\* With a threshold longer than the window every click is told exactly once,
\* for every lag of the timers and whatever edges are lost or doubled.
THEOREM EveryClickToldOnce ==
  ASSUME HoldThreshold > Window
  PROVE  Spec => []ClicksConserved
<1>1. Init => Conserved
  BY DEF Init, Conserved, Order, ClicksConserved
<1>2. Timers /\ Conserved /\ [Next]_vars => Conserved'
  BY ConservedStep
<1>3. Conserved => ClicksConserved
  BY DEF Conserved
<1> QED
  BY <1>1, <1>2, <1>3, TimersInvariant, PTL DEF Spec

-----------------------------------------------------------------------------
(***************************************************************************)
(* The button behind the wire                                              *)
(***************************************************************************)
\* A finger on the button is what a payload with its four bytes says.
LEMMA IdOfMine ==
  ASSUME NEW id \in Ids
  PROVE  CanonicalId(id) = CanonicalId(Mine) <=> IsMine(id)
<1>1. Len(id) = 7 /\ Len(Mine) = 8
  BY IdsAssumption, MineAssumption
<1>2. CanonicalId(id) = <<id[1], id[2], id[3], id[7]>>
  BY <1>1 DEF CanonicalId
<1>3. CanonicalId(Mine) = <<Mine[2], Mine[3], Mine[4], Mine[8]>>
  BY <1>1 DEF CanonicalId
<1>4. QED
  BY <1>2, <1>3 DEF IsMine

LEMMA EdgeIs ==
  ASSUME NEW id \in Ids, NEW e \in 0 .. 2, Edge(id, e)
  PROVE  \/ (~IsMine(id) \/ e = 2) /\ UNCHANGED vars /\ finger' = finger
         \/ IsMine(id) /\ e = 1 /\ Press /\ finger' = "press"
         \/ IsMine(id) /\ e = 0 /\ Release /\ finger' = "release"
<1> DEFINE f == InputEvent(45, id, 3, e)
           p == DecodeInput(f)
<1>1. f.letter = "B" /\ f.edge = e /\ f.id = id
  BY DEF InputEvent
<1>2. Len(id) = 7
  BY IdsAssumption
<1>3. e = 0 \/ e = 1 \/ e = 2
  OBVIOUS
<1>4. p = IF e = 2 THEN Unknown
          ELSE [family |-> "input_button_event", id |-> CanonicalId(id),
                action |-> IF e = 1 THEN "press" ELSE "release"]
  <2> HIDE DEF f
  <2>1. QED
    BY <1>1, <1>2, <1>3 DEF DecodeInput
<1>5. /\ IF p.family = "none" \/ p.id # CanonicalId(Mine) THEN UNCHANGED vars
         ELSE IF p.action = "press" THEN Press ELSE Release
      /\ finger' = IF ~IsMine(id) THEN finger
                   ELSE IF e = 1 THEN "press" ELSE IF e = 0 THEN "release" ELSE finger
  BY Zenon DEF Edge
<1> HIDE DEF p
<1>6. CASE e = 2
  <2>1. p.family = "none"
    BY <1>4, <1>6 DEF Unknown
  <2>2. QED
    BY <1>5, <1>6, <2>1
<1>7. CASE e # 2
  <2>1. /\ p.family # "none" /\ p.id = CanonicalId(id)
        /\ p.action = IF e = 1 THEN "press" ELSE "release"
    BY <1>4, <1>7
  <2>2. p.id = CanonicalId(Mine) <=> IsMine(id)
    BY <2>1, IdOfMine, Zenon
  <2>3. CASE ~IsMine(id)
    BY <1>5, <2>1, <2>2, <2>3, Zenon
  <2>4. CASE IsMine(id) /\ e = 1
    BY <1>5, <2>1, <2>2, <2>4
  <2>5. CASE IsMine(id) /\ e = 0
    BY <1>5, <2>1, <2>2, <2>5
  <2>6. QED
    BY <1>3, <1>7, <2>3, <2>4, <2>5
<1>8. QED
  BY <1>6, <1>7

\* Every step of the whole is a step of the button, or one that leaves it alone.
LEMMA ButtonStep == [WireNext]_wireVars => [Next]_vars
<1> SUFFICES ASSUME [WireNext]_wireVars PROVE [Next]_vars
  OBVIOUS
<1>1. CASE Receive \/ Command \/ ShimAction \/ Poll
  BY <1>1, Zenon DEF Receive, Command, ShimAction, Poll
<1>2. ASSUME NEW id \in Ids, NEW e \in 0 .. 2, Edge(id, e) PROVE [Next]_vars
  BY <1>2, EdgeIs, Zenon DEF Next
<1>3. CASE Timer(LongPressFires) \/ Timer(WindowCloses) \/ Timer(Tick)
  BY <1>3, Zenon DEF Timer, Next
<1>4. CASE UNCHANGED wireVars
  BY <1>4, Zenon DEF wireVars
<1>5. QED
  BY <1>1, <1>2, <1>3, <1>4, Zenon DEF WireNext

LEMMA PressStep == PressFollowsFinger /\ [WireNext]_wireVars => PressFollowsFinger'
<1> SUFFICES ASSUME PressFollowsFinger, [WireNext]_wireVars PROVE PressFollowsFinger'
  OBVIOUS
<1>0. ASSUME UNCHANGED <<pressed, finger>> PROVE PressFollowsFinger'
  BY <1>0, Zenon DEF PressFollowsFinger
<1>1. CASE Receive \/ Command \/ ShimAction \/ Poll \/ UNCHANGED wireVars
  <2>1. UNCHANGED <<vars, finger>>
    BY <1>1, Zenon DEF Receive, Command, ShimAction, Poll, wireVars
  <2>2. QED
    BY <1>0, <2>1, Zenon DEF vars
<1>2. ASSUME NEW id \in Ids, NEW e \in 0 .. 2, Edge(id, e) PROVE PressFollowsFinger'
  <2>1. CASE UNCHANGED vars /\ finger' = finger
    BY <1>0, <2>1, Zenon DEF vars
  <2>2. CASE Press /\ finger' = "press"
    <3>1. pressed' = TRUE
      BY <2>2, Zenon DEF Press, PressWith
    <3>2. QED
      BY <2>2, <3>1, Zenon DEF PressFollowsFinger
  <2>3. CASE Release /\ finger' = "release"
    <3>1. pressed' = FALSE
      BY <2>3, Zenon DEF Release, ReleaseStray, ReleaseAfterLong, ReleaseSingle, ReleaseClick,
                         ReleaseInWindow, LetGo
    <3>2. finger' # "press"
      BY <2>3
    <3>3. QED
      BY <3>1, <3>2, Zenon DEF PressFollowsFinger
  <2>4. QED
    BY <1>2, <2>1, <2>2, <2>3, EdgeIs, Zenon
<1>3. CASE Timer(LongPressFires) \/ Timer(WindowCloses) \/ Timer(Tick)
  <2>1. UNCHANGED <<pressed, finger>>
    BY <1>3, Zenon DEF Timer, LongPressFires, WindowCloses, Tick
  <2>2. QED
    BY <1>0, <2>1
<1>4. QED
  BY <1>1, <1>2, <1>3, Zenon DEF WireNext

\* The gateway's state of a button follows the edges that carry its four bytes,
\* and no others, whatever is in the other bytes and for all ids.
THEOREM ButtonsFollowFingers == WireSpec => []PressFollowsFinger
<1>1. WireInit => PressFollowsFinger
  BY DEF WireInit, Init, PressFollowsFinger
<1> QED
  BY <1>1, PressStep, PTL DEF WireSpec

\* Refinement: whatever payloads come over the wire, the button behind the
\* decoder behaves as ButtonTiming says.
THEOREM WireHasTheButton == WireSpec => Spec
<1>1. WireInit => Init
  BY DEF WireInit
<1> QED
  BY <1>1, ButtonStep, PTL DEF WireSpec, Spec

\* So its gestures are told as they are there: long_press at the end of a whole
\* hold, a count after a whole window, and with a threshold longer than the
\* window every click once, whatever the other buttons send.
THEOREM GesturesBehindTheWire ==
  /\ WireSpec => LongOnlyWhenHeld
  /\ WireSpec => TellsAfterWindow
  /\ HoldThreshold > Window => (WireSpec => []ClicksConserved)
<1>1. HoldThreshold > Window => (WireSpec => []ClicksConserved)
  <2>1. SUFFICES ASSUME HoldThreshold > Window PROVE WireSpec => []ClicksConserved
    OBVIOUS
  <2>2. Spec => []ClicksConserved
    BY <2>1, EveryClickToldOnce
  <2> QED
    BY <2>2, WireHasTheButton, PTL
<1>2. (WireSpec => LongOnlyWhenHeld) /\ (WireSpec => TellsAfterWindow)
  BY LongPressIsAHold, CountsFollowSilence, WireHasTheButton, PTL
<1> QED
  BY <1>1, <1>2
=============================================================================
