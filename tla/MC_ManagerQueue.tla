---------------------------- MODULE MC_ManagerQueue ----------------------------
EXTENDS ManagerQueue

CONSTANTS w1, w2, w3, r1, d1, d2

MCWriters == {w1, w2, w3}
MCReaders == {r1}
MCDestroyers == {d1, d2}

=============================================================================
