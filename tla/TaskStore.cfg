\* Two callers holding Tasks with the same ID, two contents, five calls.
CONSTANTS
    c1 = c1  c2 = c2  t1 = t1  v1 = v1  v2 = v2
    Callers <- MCCallers
    TaskIDs <- MCTaskIDs
    Contents <- MCContents
    NoTask = NoTask
    MaxOps = 5

SPECIFICATION Spec

INVARIANT StoredTaskImmune
PROPERTY GetReturnsSnapshotAtRead

\* The callers stop after MaxOps calls.
CHECK_DEADLOCK FALSE
