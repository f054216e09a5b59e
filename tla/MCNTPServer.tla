---------------------------- MODULE MCNTPServer ----------------------------
\* A small instance of NTPServer: two peers and a few packets.
EXTENDS NTPServer

MCStrata == {1, 2}
MCDelays == {3, 4}
MCOneDelay == {3}
MCPackets == [mode : Mode, size : {"full", "short"}]
MCRequests == {[mode |-> "client", size |-> "full"]}
=============================================================================
