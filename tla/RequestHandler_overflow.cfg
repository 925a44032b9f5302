\* One request whose executor writes a status update and then its result,
\* one event more than the queue holds.
CONSTANTS
    q1 = q1  q2 = q2  q3 = q3  t1 = t1  t2 = t2
    NoTaskID = NoTaskID
    Requests <- MCRequests1
    TaskIDs <- MCTaskIDs1
    Scripts <- ProgressScripts
    Capacity = 1
    Serial = TRUE
    MaxDestroys = 0
    MaxCancels = 0

SPECIFICATION FairSpec

PROPERTY AllRequestsReturn

\* A request that has returned leaves nothing to do.
CHECK_DEADLOCK FALSE
