------------------------- MODULE EventQueueContract -------------------------
(***************************************************************************)
(* What the Queue interface of a2asrv/eventqueue promises, with every call *)
(* taking effect in one step.  A queue is open, closing (Close has begun,  *)
(* a Write may still succeed or be refused) or closed (no Write succeeds,  *)
(* Reads drain what is buffered and then fail with ErrQueueClosed).  Any   *)
(* Write or Read call may instead fail with its context's error.           *)
(***************************************************************************)
EXTENDS Naturals, Sequences

CONSTANTS Writers, Readers, Closers, Capacity

VARIABLES buf, phase, pc, ret

vars == <<buf, phase, pc, ret>>

Threads == Writers \cup Readers \cup Closers

Init ==
    /\ buf = <<>>
    /\ phase = "open"
    /\ pc = [t \in Threads |-> "busy"]
    /\ ret = [t \in Threads |-> "none"]

Finish(t, v) ==
    /\ pc' = [pc EXCEPT ![t] = "done"]
    /\ ret' = [ret EXCEPT ![t] = v]

\* A Write succeeds only while the queue is not closed and has room.
WriteOk(w) ==
    /\ pc[w] = "busy"
    /\ phase # "closed"
    /\ Len(buf) < Capacity
    /\ buf' = Append(buf, w)
    /\ Finish(w, "ok")
    /\ UNCHANGED phase

\* Once Close has begun a Write may be refused.
WriteRefused(w) ==
    /\ pc[w] = "busy"
    /\ phase # "open"
    /\ Finish(w, "closedErr")
    /\ UNCHANGED <<buf, phase>>

CallCanceled(t) ==
    /\ pc[t] = "busy"
    /\ Finish(t, "ctxErr")
    /\ UNCHANGED <<buf, phase>>

ReadItem(r) ==
    /\ pc[r] = "busy"
    /\ buf # <<>>
    /\ buf' = Tail(buf)
    /\ UNCHANGED <<phase, pc, ret>>

\* A Read fails with ErrQueueClosed only on a closed and drained queue.
ReadClosed(r) ==
    /\ pc[r] = "busy"
    /\ phase = "closed"
    /\ buf = <<>>
    /\ Finish(r, "closedErr")
    /\ UNCHANGED <<buf, phase>>

BeginClose ==
    /\ phase = "open"
    /\ phase' = "closing"
    /\ UNCHANGED <<buf, pc, ret>>

EndClose(c) ==
    /\ pc[c] = "busy"
    /\ phase = "closing"
    /\ phase' = "closed"
    /\ Finish(c, "ok")
    /\ UNCHANGED buf

CloseNoop(c) ==
    /\ pc[c] = "busy"
    /\ phase = "closed"
    /\ Finish(c, "ok")
    /\ UNCHANGED <<buf, phase>>

Next ==
    \/ \E w \in Writers : WriteOk(w) \/ WriteRefused(w)
    \/ \E t \in Writers \cup Readers : CallCanceled(t)
    \/ \E r \in Readers : ReadItem(r) \/ ReadClosed(r)
    \/ BeginClose
    \/ \E c \in Closers : EndClose(c) \/ CloseNoop(c)

Spec == Init /\ [][Next]_vars

=============================================================================
