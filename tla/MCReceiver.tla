----------------------------- MODULE MCReceiver -----------------------------
\* A small instance of Receiver: two connections with messages of all kinds,
\* and three seconds of pulses.
EXTENDS Receiver
=============================================================================
