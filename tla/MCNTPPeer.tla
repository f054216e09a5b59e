----------------------------- MODULE MCNTPPeer -----------------------------
\* A small instance of NTPPeer: a burst of two polls, then the main loop, with
\* a register and a filter that the polls overrun.
EXTENDS NTPPeer

MCStrata == {0, 2}
=============================================================================
