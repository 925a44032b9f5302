\* Three writers race two readers and two closers on a queue of capacity 2:
\* two events can be buffered, so their read order matters, and the third
\* writer blocks on the full queue holding the token.  Cancellation may or
\* may not happen.
CONSTANTS
    w1 = w1  w2 = w2  w3 = w3
    r1 = r1  r2 = r2
    c1 = c1  c2 = c2
    NoOne = NoOne
    NoEvent = NoEvent
    Writers <- MCWriters
    Readers <- MCReaders
    Closers <- MCClosers
    Capacity = 2

SPECIFICATION FairSpec

INVARIANT TypeOK
INVARIANT NoSendOnClosedChannel
PROPERTY QueueContract
PROPERTY AllCallsReturn

\* The model stops once every call has returned.
CHECK_DEADLOCK FALSE
