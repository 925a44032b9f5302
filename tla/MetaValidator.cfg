\* Every heap of one backing array of two elements and two maps of up to
\* two entries each, validated from a Task whose status message, artifact,
\* parts and own Metadata refer to the two maps.
CONSTANTS
    a1 = a1  m1 = m1  m2 = m2  nilMsg = nilMsg
    Arrays <- MCArrays
    Maps <- MCMaps
    Cap = 2
    MaxEntries = 2
    Tasks <- FullTasks
    NoMsg <- nilMsg

SPECIFICATION Spec

INVARIANT VerdictMatchesReference

\* Nothing happens after the heap is chosen.
CHECK_DEADLOCK FALSE
