\* Two requests over two tasks, served concurrently as the server does.  An
\* executor writes one event, fails, or writes nothing and returns; the
\* environment may call Destroy once and cancel either request's context.
\* With capacity 1, a request for a task that another request has filled
\* blocks in Write, and a request whose executor wrote nothing may take the
\* other's event and leave it blocked in Read.
CONSTANTS
    q1 = q1  q2 = q2  q3 = q3  t1 = t1  t2 = t2
    NoTaskID = NoTaskID
    Requests <- MCRequests2
    TaskIDs <- MCTaskIDs2
    Scripts <- AnyShortScripts
    Capacity = 1
    Serial = FALSE
    MaxDestroys = 1
    MaxCancels = 2

SPECIFICATION FairSpec

INVARIANT QueuePerTaskUnique
PROPERTY CanceledRequestReturns

\* A request that has returned leaves nothing to do, and one left blocked by
\* the code waits for a cancellation that may never come.
CHECK_DEADLOCK FALSE
