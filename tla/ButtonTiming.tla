---------------------------- MODULE ButtonTiming ----------------------------
(***************************************************************************)
(* How GatewayAPI turns the edges of a wall button into gestures: press,   *)
(* release, long_press, and single_press or, when the option multi_press   *)
(* is on, a gesture with the number of clicks (_on_button_event,           *)
(* _fire_long_press and _fire_single_or_multi of gateway_api.py).          *)
(*                                                                         *)
(* Every button id has a _ButtonState of its own that no step shares, so   *)
(* the module is about one button.  The edges come over UDP: a press or a  *)
(* release may be lost or come twice.  The timers are call_later handles:  *)
(* the value is the time left, and a due timer may run up to Lag late,     *)
(* after edges that came in meanwhile.  Due timers run in the order they   *)
(* were due, and a cancelled one never runs.                               *)
(*                                                                         *)
(* Not here: learning an unknown button on its first press.                *)
(***************************************************************************)
EXTENDS Integers, Sequences

CONSTANTS
  HoldThreshold,  \* hold_threshold_s of the button
  Window,         \* multi_press_window_ms
  Lag,            \* bound on how late a timer runs
  MaxClicks       \* bound of the model: clicks in one window

ASSUME HoldAssumption == HoldThreshold \in Nat \ {0}
ASSUME WindowAssumption == Window \in Nat \ {0}
ASSUME LagAssumption == Lag \in Nat
ASSUME MaxClicksAssumption == MaxClicks \in Nat

VARIABLES
  multi,        \* the option multi_press
  pressed,      \* press_started_at is not None
  longFired,    \* long_press_fired
  longIn,       \* long_press_handle: time left, or Off
  clicks,       \* click_count
  multiIn,      \* multi_handle: time left, or Off
  out,          \* the button_event messages of the last step
  edge,         \* history: the last edge of the button
  held,         \* history: time since the last press, up to HoldThreshold
  longTold,     \* history: long_press was sent since the last press
  since,        \* history: time since the last click, up to Window
  owed          \* history: clicks made and not told yet

timers == <<longIn, multiIn>>
history == <<edge, held, longTold, since, owed>>
vars == <<multi, pressed, longFired, timers, clicks, out, history>>

Off == -1 - Lag

Event(action, n) == [action |-> action, count |-> n]

Init ==
  /\ multi \in BOOLEAN
  /\ pressed = FALSE
  /\ longFired = FALSE
  /\ longIn = Off
  /\ clicks = 0
  /\ multiIn = Off
  /\ out = <<>>
  /\ edge = "release"
  /\ held = 0
  /\ longTold = FALSE
  /\ since = Window
  /\ owed = 0

-----------------------------------------------------------------------------
PressWith(timer) ==
  /\ longIn' = timer
  /\ pressed' = TRUE
  /\ longFired' = FALSE
  /\ out' = <<Event("press", 0)>>
  /\ edge' = "press" /\ held' = 0 /\ longTold' = FALSE
  /\ UNCHANGED <<multi, clicks, multiIn, since, owed>>

\* Press_KeepsTimer and the other definitions with such a suffix are faulty
\* variants of the one after them: a property must fail with one in its place.
Press_KeepsTimer == PressWith(IF longIn = Off THEN HoldThreshold ELSE longIn)
Press_NotInWindow == PressWith(IF multiIn = Off THEN HoldThreshold ELSE longIn)

\* Cancels the timer of an earlier press, and arms it again.
Press == PressWith(HoldThreshold)

\* History: a release after a press without a long press is a click.
IsClick == edge = "press" /\ ~longTold

\* What every release does first.
LetGo ==
  /\ longIn' = Off
  /\ pressed' = FALSE
  /\ longFired' = FALSE
  /\ edge' = "release"
  /\ since' = IF IsClick THEN 0 ELSE since
  /\ UNCHANGED <<multi, held, longTold>>

ReleaseStray_Tells ==
  /\ ~pressed
  /\ LetGo
  /\ out' = <<Event("single_press", 0), Event("release", 0)>>
  /\ owed' = owed - 1
  /\ UNCHANGED <<clicks, multiIn>>

ReleaseStray ==
  /\ ~pressed
  /\ LetGo
  /\ out' = <<Event("release", 0)>>
  /\ UNCHANGED <<clicks, multiIn, owed>>

\* The end of a hold forgets the clicks before it.
ReleaseAfterLong ==
  /\ pressed /\ longFired
  /\ LetGo
  /\ clicks' = 0
  /\ multiIn' = Off
  /\ out' = <<Event("release", 0)>>
  /\ owed' = IF IsClick THEN owed + 1 ELSE owed

ReleaseSingle ==
  /\ pressed /\ ~longFired /\ ~multi
  /\ LetGo
  /\ out' = <<Event("single_press", 0), Event("release", 0)>>
  /\ owed' = IF IsClick THEN owed ELSE owed - 1
  /\ UNCHANGED <<clicks, multiIn>>

ReleaseInWindow(timer) ==
  /\ pressed /\ ~longFired /\ multi /\ clicks < MaxClicks
  /\ LetGo
  /\ clicks' = clicks + 1
  /\ multiIn' = timer
  /\ out' = <<Event("release", 0)>>
  /\ owed' = IF IsClick THEN owed + 1 ELSE owed

ReleaseClick_KeepsWindow == ReleaseInWindow(IF multiIn = Off THEN Window ELSE multiIn)
\* Counts the click and starts the window again.
ReleaseClick == ReleaseInWindow(Window)

Release == ReleaseStray \/ ReleaseAfterLong \/ ReleaseSingle \/ ReleaseClick

\* Due timers run in the order they were due.
IsNext(timer, other) == timer # Off /\ timer <= 0 /\ (other = Off \/ timer <= other)

\* _fire_long_press
LongPressFires ==
  /\ IsNext(longIn, multiIn)
  /\ longIn' = Off
  /\ IF pressed
     THEN longFired' = TRUE /\ longTold' = TRUE /\ out' = <<Event("long_press", 0)>>
     ELSE out' = <<>> /\ UNCHANGED <<longFired, longTold>>
  /\ UNCHANGED <<multi, pressed, clicks, multiIn, edge, held, since, owed>>

Gesture(n) ==
  CASE n = 1 -> "single_press" [] n = 2 -> "double_press" [] OTHER -> "triple_press"

\* _fire_single_or_multi
WindowCloses ==
  /\ IsNext(multiIn, longIn)
  /\ multiIn' = Off
  /\ clicks' = 0
  /\ out' = IF clicks = 0 THEN <<>> ELSE <<Event(Gesture(clicks), clicks)>>
  /\ owed' = owed - clicks
  /\ UNCHANGED <<multi, pressed, longFired, longIn, edge, held, longTold, since>>

Later(timer) == IF timer = Off THEN Off ELSE timer - 1
UpTo(max, x) == IF x < max THEN x + 1 ELSE max

\* Time passes; no timer is more than Lag late.
Tick ==
  /\ longIn # -Lag /\ multiIn # -Lag
  /\ longIn' = Later(longIn)
  /\ multiIn' = Later(multiIn)
  /\ out' = <<>>
  /\ held' = UpTo(HoldThreshold, held)
  /\ since' = UpTo(Window, since)
  /\ UNCHANGED <<multi, pressed, longFired, clicks, edge, longTold, owed>>

Next == Press \/ Release \/ LongPressFires \/ WindowCloses \/ Tick

\* Time goes on, and the loop runs its timers; nobody has to touch the button.
Fairness == WF_vars(Tick) /\ WF_vars(LongPressFires) /\ WF_vars(WindowCloses)

Spec == Init /\ [][Next]_vars
FairSpec == Spec /\ Fairness

-----------------------------------------------------------------------------
\* Types; no timer is armed for longer than its threshold, or left overdue.
TypeOK ==
  /\ multi \in BOOLEAN /\ pressed \in BOOLEAN /\ longFired \in BOOLEAN
  /\ longIn \in Off .. HoldThreshold
  /\ multiIn \in Off .. Window
  /\ clicks \in 0 .. MaxClicks
  /\ edge \in {"press", "release"} /\ longTold \in BOOLEAN
  /\ held \in 0 .. HoldThreshold /\ since \in 0 .. Window /\ owed \in Int

\* Every click is told exactly once, whatever edges are lost or doubled: the
\* clicks made and not told are the counted ones of the open window.  The end
\* of a hold forgets counted clicks, so this needs HoldThreshold > Window.
ClicksConserved == owed = clicks

\* long_press is sent only for a button that was pressed HoldThreshold ago and
\* not touched since: no timer of an earlier press tells it.
LongOnlyWhenHeld ==
  [][\A i \in DOMAIN out' : out'[i].action = "long_press" =>
       edge = "press" /\ held >= HoldThreshold]_vars

\* A gesture with a count is sent only when Window passed without a click:
\* clicks less than Window apart, release to release, are told together.
TellsAfterWindow ==
  [][\A i \in DOMAIN out' : out'[i].count > 0 => since >= Window]_vars

\* A button that is kept pressed is told with long_press, and clicks are told
\* when the button is left alone.
HoldIsTold == []<>(edge = "release") \/ []<><<Press>>_vars \/ []<>longTold
ClicksAreTold == []<>(clicks = 0) \/ []<><<Release>>_vars
GesturesAreTold == HoldIsTold /\ ClicksAreTold
=============================================================================
