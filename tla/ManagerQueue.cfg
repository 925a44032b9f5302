\* Three writers and a reader call GetOrCreate and use the task's queue, of
\* capacity 1, while two Destroy calls race them.
CONSTANTS
    w1 = w1  w2 = w2  w3 = w3  r1 = r1  d1 = d1  d2 = d2
    NoOne = NoOne
    NoEvent = NoEvent
    Writers <- MCWriters
    Readers <- MCReaders
    Destroyers <- MCDestroyers
    Capacity = 1

SPECIFICATION FairSpec

PROPERTY GetOrCreateNeverReturnsClosingQueue
PROPERTY ManagerCallsReturn
PROPERTY ManagerContractHolds
PROPERTY DestroyedQueueRefusesWrites

\* A Read or Write on a queue nobody closes may wait for ever; the Manager's
\* own calls are what ManagerCallsReturn is about.
CHECK_DEADLOCK FALSE
