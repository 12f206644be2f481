----------------------------- MODULE MCFieldBus -----------------------------
\* The field bus with an older relay m1 and a dimmer m2 of one channel each.
EXTENDS FieldBus, TLC

CONSTANTS m1, m2, c1

MCSweepKeys == << <<m1, c1>> >>
MCNoSweep == <<>>
MCOrders == {<<m1, c1, "TOGGLE">>, <<m1, c1, "ON">>, <<m2, c1, "DIM_START">>}
MCOneOrder == {<<m1, c1, "TOGGLE">>}
MCProbes == {<<m1, c1, "ON">>, <<m2, c1, "QUERY">>}

\* Commands differ in nothing but their name.
CommandSymmetry == Permutations(Commands)
=============================================================================
