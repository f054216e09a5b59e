---------------------------- MODULE MCStatusHub ----------------------------
\* A small instance of StatusHub: two connections, and one service that may fail.
EXTENDS StatusHub
=============================================================================
