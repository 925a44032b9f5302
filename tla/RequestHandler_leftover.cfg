\* Requests for one task sent strictly one after another; an executor may
\* write its Message and then return an error.
CONSTANTS
    q1 = q1  q2 = q2  q3 = q3  t1 = t1  t2 = t2
    NoTaskID = NoTaskID
    Requests <- MCRequests2
    TaskIDs <- MCTaskIDs1
    Scripts <- FailAfterWriteScripts
    Capacity = 2
    Serial = TRUE
    MaxDestroys = 0
    MaxCancels = 0

SPECIFICATION Spec

INVARIANT ResultFromOwnExecution

\* The model stops once every request has returned.
CHECK_DEADLOCK FALSE
