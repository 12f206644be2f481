--------------------------- MODULE MCInstallation ---------------------------
EXTENDS Installation, TLC

CONSTANTS mr, mq, mi, x, y, z, c1, b1

Named(mac, d) == [k \in {d} |-> [label |-> <<"operator", mac>>, active |-> TRUE]]
Relay(mac, ip) == [mac |-> mac, ip |-> ip, type |-> "actuator", devices |-> Named(mac, c1)]
Input(mac, ip) == [mac |-> mac, ip |-> ip, type |-> "input", devices |-> Named(mac, b1)]

MCDocuments ==
  {None, <<Relay(mr, x), Input(mi, y)>>, <<Relay(mr, x), Relay(NoMac, x)>>}

MCImportable == {<<Input(mi, y), Relay(NoMac, x), Relay(mq, z)>>, <<Relay(mq, x)>>}

MCHardware ==
  {[m \in Macs |-> CASE m = mr -> [ip |-> x, wire |-> {c1}]
                     [] m = mq -> [ip |-> None, wire |-> {c1}]
                     [] m = mi -> [ip |-> y, wire |-> {b1}]]}

Symmetric == Permutations(Discoveries)
=============================================================================
