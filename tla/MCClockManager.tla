--------------------------- MODULE MCClockManager ---------------------------
\* Small instances of ClockManager: two references, a window of four samples.
EXTENDS ClockManager, TLC

MCOffset == {-5, 0, 3}
MCPriorities == {1, 10}

\* The instance on which liveness is checked, without symmetry.
MCFewOffsets == {-5, 0}
MCOnePriority == {1}

Symmetry == Permutations(Ref)
=============================================================================
