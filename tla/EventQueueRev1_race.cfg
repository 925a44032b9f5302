\* The earlier revision: does Close write q.closed only under closeMu and
\* the semaphore token, away from Writes?
CONSTANTS
    w1 = w1  w2 = w2  w3 = w3
    r1 = r1  r2 = r2
    c1 = c1  c2 = c2
    NoOne = NoOne
    NoEvent = NoEvent
    Writers <- MCWriters
    Readers <- MCReaders
    Closers <- MCClosers
    Capacity = 1

SPECIFICATION Spec
SYMMETRY Symmetry

PROPERTY ClosedGuardedByToken

CHECK_DEADLOCK FALSE
