\* Process calls with any event and any Save outcome: does a failed Save
\* leave mgr.Task as it was?
CONSTANTS
    t1 = t1  t2 = t2  x1 = x1  x2 = x2  m1 = m1  m2 = m2
    k1 = k1  k2 = k2  v1 = v1  v2 = v2
    NoMsg = NoMsg  Absent = Absent  NoTask = NoTask
    TaskIDs <- MCTaskIDs
    ContextIDs <- MCContextIDs
    Messages <- MCMessages
    States <- MCStates
    MetaKeys <- MCMetaKeys
    MetaVals <- MCMetaVals
    EventMetas <- MCEventMetas
    MaxCalls = 2

SPECIFICATION Spec

PROPERTY FailedProcessLeavesTaskUnchanged

\* Process is called at most MaxCalls times.
CHECK_DEADLOCK FALSE
