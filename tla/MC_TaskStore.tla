---------------------------- MODULE MC_TaskStore ----------------------------
EXTENDS TaskStore

CONSTANTS c1, c2, t1, v1, v2

MCCallers == {c1, c2}
MCTaskIDs == {t1}
MCContents == {v1, v2}

=============================================================================
