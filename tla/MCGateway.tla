----------------------------- MODULE MCGateway -----------------------------
\* One module that can move, and what the Supervisor may say of the host's
\* interfaces: a virtual one before a real one, or two of which the primary one
\* is down.
EXTENDS Gateway

Iface(host, virtual, up, primary, gateway) ==
  [host |-> host, virtual |-> virtual, up |-> up, primary |-> primary, gateway |-> gateway]

MCInfos ==
  {<<Iface("docker", TRUE, TRUE, FALSE, TRUE), Iface("lan", FALSE, TRUE, FALSE, FALSE)>>,
   <<Iface("lan", FALSE, FALSE, TRUE, TRUE), Iface("loopback", FALSE, TRUE, FALSE, TRUE)>>}
=============================================================================
