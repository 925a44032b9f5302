--------------------------- MODULE EventQueueRev1 ---------------------------
(***************************************************************************)
(* The earlier revision of inMemoryQueue kept in lines 1-132 of           *)
(* a2asrv/eventqueue/queue_in_memory_impl.go.  Write and Read are the same *)
(* code as in the current revision (EventQueue); Close differs: it sets    *)
(* q.closed right after taking closeMu, before close(q.closeChan) and      *)
(* before it holds the semaphore token.  The state is EventQueue's.        *)
(***************************************************************************)
EXTENDS Naturals, Sequences

CONSTANTS Writers, Readers, Closers, Capacity, NoOne, NoEvent

VARIABLES events, evClosed, closeChan, closed, sem, closeMu,
          canceled, pc, ret, got

vars == <<events, evClosed, closeChan, closed, sem, closeMu,
          canceled, pc, ret, got>>

Current == INSTANCE EventQueue

\* NewInMemoryQueue: an empty queue, every call about to start.  The
\* capacity of closeChan (1 here) plays no part: it is only ever closed.
Init == Current!Init

\* The semaphore, the same code as in the current revision.
TokenFree == Current!TokenFree

\* Write: acquireWithContext and the check of q.closed, as in EventQueue.
WriteAcquire(w) == Current!WriteAcquire(w)

\* Write: the select on send, closeChan and ctx.Done, as in EventQueue.
WriteSelect(w) == Current!WriteSelect(w)

\* Read: the select on receive and ctx.Done, as in EventQueue.
Read(r) == Current!Read(r)

(***************************************************************************)
(* Close: closeMu.Lock and the check of q.closed; then q.closed = true and *)
(* close(q.closeChan), without the semaphore token.                        *)
(***************************************************************************)
CloseLock(c) ==
    /\ pc[c] = "lock"
    /\ closeMu = NoOne
    /\ IF closed
         THEN Current!Return(c, "ok") /\ UNCHANGED <<closeMu, closeChan, closed>>
         ELSE /\ closeMu' = c
              /\ closed' = TRUE
              /\ closeChan' = TRUE
              /\ pc' = [pc EXCEPT ![c] = "acquire"]
              /\ UNCHANGED ret
    /\ UNCHANGED <<events, evClosed, sem, canceled, got>>

\* Close: semaphore.acquire, close(q.events), the deferred release and
\* closeMu.Unlock.
CloseAcquire(c) ==
    /\ pc[c] = "acquire"
    /\ TokenFree
    /\ evClosed' = TRUE
    /\ closeMu' = NoOne
    /\ Current!Return(c, "ok")
    /\ UNCHANGED <<events, closeChan, closed, sem, canceled, got>>

Next ==
    \/ \E t \in Current!CtxOwners : Current!Cancel(t)
    \/ \E w \in Writers : WriteAcquire(w) \/ WriteSelect(w)
    \/ \E r \in Readers : Read(r)
    \/ \E c \in Closers : CloseLock(c) \/ CloseAcquire(c)

Spec == Init /\ [][Next]_vars

-----------------------------------------------------------------------------
(* Properties *)

\* q.closed never changes while a Write holds the semaphore token, so that
\* Close's write is ordered with Write's read of it under the token.
ClosedGuardedByToken ==
    [][closed' # closed => sem \notin Writers]_vars

=============================================================================
