------------------------- MODULE MCOptionalServices -------------------------
\* A small instance of OptionalServices: two clients of the key exchange, who
\* live to see their sessions swept, and PTP messages whose numbers wrap.
EXTENDS OptionalServices

MCLogSyncInts == {-1, 1, 3}
MCLogAnnounceInts == {0}
=============================================================================
