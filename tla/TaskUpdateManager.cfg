\* Up to three Process calls with any event and any Save outcome.
CONSTANTS
    t1 = t1  t2 = t2  x1 = x1  x2 = x2  m1 = m1  m2 = m2
    k1 = k1  k2 = k2  v1 = v1  v2 = v2
    NoMsg = NoMsg  Absent = Absent  NoTask = NoTask
    TaskIDs <- MCTaskIDs
    ContextIDs <- MCContextIDs
    Messages <- MCMessages
    States <- MCStates
    MetaKeys <- MCMetaKeys
    MetaVals <- MCMetaVals
    EventMetas <- MCEventMetas
    MaxCalls = 3

SPECIFICATION Spec

INVARIANT TypeOK
INVARIANT HistoryIsSupersededMessages
INVARIANT MetadataLastWriterWins
PROPERTY IdentityPreserved

\* Process is called at most MaxCalls times.
CHECK_DEADLOCK FALSE
