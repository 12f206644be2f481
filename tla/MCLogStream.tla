---------------------------- MODULE MCLogStream -----------------------------
\* One client and one REST request at a time, two levels, a queue of one line.
EXTENDS LogStream
=============================================================================
