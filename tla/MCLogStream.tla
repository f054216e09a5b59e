---------------------------- MODULE MCLogStream ----------------------------
\* A small instance of LogStream: a stream that looks at two entries of a ring of
\* three.
EXTENDS LogStream
=============================================================================
