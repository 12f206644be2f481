------------------------------- MODULE MCWire -------------------------------
\* A relay and a dimmer of each generation, two buttons whose ids differ in their last byte, and the frames
\* of one of them with two targets.
EXTENDS Wire

MCModules ==
  {[type |-> "relay", family |-> 54, ch |-> 12], [type |-> "relay", family |-> 15, ch |-> 0],
   [type |-> "dimmer", family |-> 54, ch |-> 0], [type |-> "dimmer", family |-> 15, ch |-> 0],
   [type |-> "dimmer", family |-> 15, ch |-> 5]}
MCIds == {<<1, 2, 3, 4, 0, 0, 7>>, <<1, 2, 3, 5, 1, 0, 7>>, <<1, 2, 3, 4, 0, 0, 8>>}
MCMine == <<9, 1, 2, 3, 6, 1, 1, 7>>
=============================================================================
