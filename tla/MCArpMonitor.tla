--------------------------- MODULE MCArpMonitor ---------------------------
\* Two modules, two addresses, and the default of three missed polls.
EXTENDS ArpMonitor
=============================================================================
