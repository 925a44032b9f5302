\* One backing array of two elements and one map of one entry: can the
\* validator report a circular reference for metadata without a cycle?
CONSTANTS
    a1 = a1  m1 = m1  m2 = m2  nilMsg = nilMsg
    Arrays <- MCArrays
    Maps <- MCMaps
    Cap = 2
    MaxEntries = 1
    Tasks <- MetaOnlyTasks
    NoMsg <- nilMsg

SPECIFICATION Spec

INVARIANT CircularOnlyForCycles

CHECK_DEADLOCK FALSE
