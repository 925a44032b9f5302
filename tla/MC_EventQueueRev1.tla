------------------------- MODULE MC_EventQueueRev1 -------------------------
EXTENDS EventQueueRev1, TLC

CONSTANTS w1, w2, w3, r1, r2, c1, c2

MCWriters == {w1, w2, w3}
MCReaders == {r1, r2}
MCClosers == {c1, c2}

\* Writers, readers and closers are interchangeable among themselves.
Symmetry == Permutations(MCWriters) \cup Permutations(MCReaders)
            \cup Permutations(MCClosers)

=============================================================================
