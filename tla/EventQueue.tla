----------------------------- MODULE EventQueue -----------------------------
(***************************************************************************)
(* inMemoryQueue of a2asrv/eventqueue/queue_in_memory_impl.go (the current *)
(* revision, lines 133-270 of the file) with concurrent callers: Writers    *)
(* each call Write once with their own event, Readers call Read until it   *)
(* fails, Closers each call Close once.                                     *)
(*                                                                          *)
(*   events      the buffered channel q.events (a sequence, and evClosed    *)
(*               for close(q.events))                                       *)
(*   closeChan   TRUE once close(q.closeChan) has run                       *)
(*   closed      the field q.closed                                         *)
(*   sem         the goroutine holding the one token of q.semaphore         *)
(*   closeMu     the goroutine holding q.closeMu                            *)
(*   canceled    whether the caller's context is done                       *)
(*   pc, ret     where each call is and what it returned                    *)
(*   got         the events each reader has received                        *)
(*                                                                          *)
(* A step is what runs between two points where another goroutine can      *)
(* observe a difference: a channel operation or a lock.                     *)
(***************************************************************************)
EXTENDS Naturals, Sequences

CONSTANTS Writers, Readers, Closers, Capacity, NoOne, NoEvent

ASSUME /\ Writers \cap Readers = {} /\ Writers \cap Closers = {}
       /\ Readers \cap Closers = {}
       /\ Capacity \in Nat \ {0}

VARIABLES events, evClosed, closeChan, closed, sem, closeMu,
          canceled, pc, ret, got

vars == <<events, evClosed, closeChan, closed, sem, closeMu,
          canceled, pc, ret, got>>

Threads == Writers \cup Readers \cup Closers
CtxOwners == Writers \cup Readers
Results == {"none", "ok", "closedErr", "ctxErr", "panic"}

TypeOK ==
    /\ events \in Seq(Writers) /\ Len(events) <= Capacity
    /\ {evClosed, closeChan, closed} \subseteq BOOLEAN
    /\ sem \in Writers \cup Closers \cup {NoOne}
    /\ closeMu \in Closers \cup {NoOne}
    /\ canceled \in [CtxOwners -> BOOLEAN]
    /\ pc \in [Threads -> {"acquire", "select", "read", "lock", "done"}]
    /\ ret \in [Threads -> Results]
    /\ got \in [Readers -> Seq(Writers)]

Init ==
    /\ events = <<>>
    /\ evClosed = FALSE /\ closeChan = FALSE /\ closed = FALSE
    /\ sem = NoOne /\ closeMu = NoOne
    /\ canceled = [t \in CtxOwners |-> FALSE]
    /\ pc = [t \in Threads |-> CASE t \in Writers -> "acquire"
                                 [] t \in Readers -> "read"
                                 [] t \in Closers -> "lock"]
    /\ ret = [t \in Threads |-> "none"]
    /\ got = [r \in Readers |-> <<>>]

Return(t, v) ==
    /\ pc' = [pc EXCEPT ![t] = "done"]
    /\ ret' = [ret EXCEPT ![t] = v]

\* newSemaphore(1), acquire and the send case of acquireWithContext: the
\* one token of q.semaphore can be taken only while nobody holds it.
TokenFree == sem = NoOne

\* semaphore.release: the holder gives the token back.
Release == sem' = NoOne

\* The context of a pending call is canceled; nothing makes this happen.
Cancel(t) ==
    /\ pc[t] # "done"
    /\ ~canceled[t]
    /\ canceled' = [canceled EXCEPT ![t] = TRUE]
    /\ UNCHANGED <<events, evClosed, closeChan, closed, sem, closeMu, pc, ret, got>>

\* Write that does not check q.closed once it holds the token.
WriteAcquireSkippingCheck(w) ==
    /\ pc[w] = "acquire"
    /\ \/ /\ sem = NoOne
          /\ sem' = w /\ pc' = [pc EXCEPT ![w] = "select"] /\ UNCHANGED ret
       \/ /\ canceled[w]
          /\ Return(w, "ctxErr")
          /\ UNCHANGED sem
    /\ UNCHANGED <<events, evClosed, closeChan, closed, closeMu, canceled, got>>

(***************************************************************************)
(* Write: semaphore.acquireWithContext (a select between taking the token *)
(* and ctx.Done), then the check of q.closed under the token; a failed     *)
(* check returns at once and the deferred release gives the token back.   *)
(***************************************************************************)
WriteAcquire(w) ==
    /\ pc[w] = "acquire"
    /\ \/ /\ TokenFree
          /\ IF closed
               THEN Return(w, "closedErr") /\ UNCHANGED sem
               ELSE sem' = w /\ pc' = [pc EXCEPT ![w] = "select"] /\ UNCHANGED ret
       \/ /\ canceled[w]
          /\ Return(w, "ctxErr")
          /\ UNCHANGED sem
    /\ UNCHANGED <<events, evClosed, closeChan, closed, closeMu, canceled, got>>

\* Write whose select has no <-q.closeChan case.
WriteSelectIgnoringClose(w) ==
    /\ pc[w] = "select"
    /\ \/ /\ evClosed
          /\ Return(w, "panic")
          /\ UNCHANGED events
       \/ /\ ~evClosed /\ Len(events) < Capacity
          /\ events' = Append(events, w)
          /\ Return(w, "ok")
       \/ /\ canceled[w]
          /\ Return(w, "ctxErr")
          /\ UNCHANGED events
    /\ sem' = NoOne
    /\ UNCHANGED <<evClosed, closeChan, closed, closeMu, canceled, got>>

(***************************************************************************)
(* Write: the select between sending on q.events, <-q.closeChan and        *)
(* ctx.Done; Go picks any ready case.  A send on a closed channel panics.  *)
(* Every outcome returns and releases the token.                            *)
(***************************************************************************)
WriteSelect(w) ==
    /\ pc[w] = "select"
    /\ \/ /\ evClosed
          /\ Return(w, "panic")
          /\ UNCHANGED events
       \/ /\ ~evClosed /\ Len(events) < Capacity
          /\ events' = Append(events, w)
          /\ Return(w, "ok")
       \/ /\ closeChan
          /\ Return(w, "closedErr")
          /\ UNCHANGED events
       \/ /\ canceled[w]
          /\ Return(w, "ctxErr")
          /\ UNCHANGED events
    /\ Release
    /\ UNCHANGED <<evClosed, closeChan, closed, closeMu, canceled, got>>

\* Read that also reports a receive from the closed channel as an event.
ReadIgnoringOk(r) ==
    /\ pc[r] = "read"
    /\ \/ /\ events # <<>>
          /\ got' = [got EXCEPT ![r] = Append(@, Head(events))]
          /\ events' = Tail(events)
          /\ UNCHANGED <<pc, ret>>
       \/ /\ events = <<>> /\ evClosed
          /\ got' = [got EXCEPT ![r] = Append(@, NoEvent)]
          /\ UNCHANGED <<events, pc, ret>>
       \/ /\ canceled[r]
          /\ Return(r, "ctxErr")
          /\ UNCHANGED <<events, got>>
    /\ UNCHANGED <<evClosed, closeChan, closed, sem, closeMu, canceled>>

\* Read that fails as soon as the closed flag is set, before draining.
ReadCheckingClosed(r) ==
    /\ pc[r] = "read"
    /\ \/ /\ closed
          /\ Return(r, "closedErr")
          /\ UNCHANGED <<events, got>>
       \/ /\ ~closed /\ events # <<>>
          /\ got' = [got EXCEPT ![r] = Append(@, Head(events))]
          /\ events' = Tail(events)
          /\ UNCHANGED <<pc, ret>>
       \/ /\ canceled[r]
          /\ Return(r, "ctxErr")
          /\ UNCHANGED <<events, got>>
    /\ UNCHANGED <<evClosed, closeChan, closed, sem, closeMu, canceled>>

(***************************************************************************)
(* Read: a select between receiving from q.events and ctx.Done.  A receive *)
(* yields buffered events even after close(q.events), and ok = FALSE once *)
(* the closed channel is drained.  q.closed is not consulted.  The reader  *)
(* calls Read again after every event it receives.                          *)
(***************************************************************************)
Read(r) ==
    /\ pc[r] = "read"
    /\ \/ /\ events # <<>>
          /\ got' = [got EXCEPT ![r] = Append(@, Head(events))]
          /\ events' = Tail(events)
          /\ UNCHANGED <<pc, ret>>
       \/ /\ events = <<>> /\ evClosed
          /\ Return(r, "closedErr")
          /\ UNCHANGED <<events, got>>
       \/ /\ canceled[r]
          /\ Return(r, "ctxErr")
          /\ UNCHANGED <<events, got>>
    /\ UNCHANGED <<evClosed, closeChan, closed, sem, closeMu, canceled>>

\* Close that does not close q.closeChan before it waits for the token.
CloseLockNoSignal(c) ==
    /\ pc[c] = "lock"
    /\ closeMu = NoOne
    /\ IF closed
         THEN Return(c, "ok") /\ UNCHANGED closeMu
         ELSE /\ closeMu' = c
              /\ pc' = [pc EXCEPT ![c] = "acquire"]
              /\ UNCHANGED ret
    /\ UNCHANGED <<events, evClosed, closeChan, closed, sem, canceled, got>>

(***************************************************************************)
(* Close: closeMu.Lock, the check of q.closed (an already closed queue     *)
(* unlocks and returns nil), then close(q.closeChan) so that a Write       *)
(* holding the token while blocked on a full channel gives it up.          *)
(***************************************************************************)
CloseLock(c) ==
    /\ pc[c] = "lock"
    /\ closeMu = NoOne
    /\ IF closed
         THEN Return(c, "ok") /\ UNCHANGED <<closeMu, closeChan>>
         ELSE /\ closeMu' = c
              /\ closeChan' = TRUE
              /\ pc' = [pc EXCEPT ![c] = "acquire"]
              /\ UNCHANGED ret
    /\ UNCHANGED <<events, evClosed, closed, sem, canceled, got>>

(***************************************************************************)
(* Close: semaphore.acquire (blocking, no context), close(q.events),       *)
(* q.closed = true, then the deferred release and closeMu.Unlock.          *)
(***************************************************************************)
CloseAcquire(c) ==
    /\ pc[c] = "acquire"
    /\ TokenFree
    /\ evClosed' = TRUE
    /\ closed' = TRUE
    /\ closeMu' = NoOne
    /\ Return(c, "ok")
    /\ UNCHANGED <<events, closeChan, sem, canceled, got>>

Next ==
    \/ \E t \in CtxOwners : Cancel(t)
    \/ \E w \in Writers : WriteAcquire(w) \/ WriteSelect(w)
    \/ \E r \in Readers : Read(r)
    \/ \E c \in Closers : CloseLock(c) \/ CloseAcquire(c)

(***************************************************************************)
(* Fairness.  Every goroutine keeps running (weak fairness of its steps);  *)
(* cancellation is never assumed.  Taking the semaphore token and closeMu  *)
(* is strongly fair: blocked senders on a Go channel are served in FIFO    *)
(* order and sync.Mutex hands the lock to a waiter starved for 1ms.        *)
(***************************************************************************)
Fairness ==
    /\ \A w \in Writers : SF_vars(WriteAcquire(w)) /\ WF_vars(WriteSelect(w))
    /\ \A r \in Readers : WF_vars(Read(r))
    /\ \A c \in Closers : SF_vars(CloseLock(c)) /\ SF_vars(CloseAcquire(c))

Spec == Init /\ [][Next]_vars
FairSpec == Spec /\ Fairness

-----------------------------------------------------------------------------
(* Properties *)

\* Write never sends on q.events after Close closed it: the semaphore token
\* keeps close(q.events) away from a Write between its closed check and its
\* send (a send on a closed Go channel panics).
NoSendOnClosedChannel == \A w \in Writers : ret[w] # "panic"

\* The calls implement the Queue contract: no Write succeeds once Close has
\* returned, a Write is refused only after Close began, and a Read fails with
\* ErrQueueClosed only once the closed queue is drained, in write order.
Contract == INSTANCE EventQueueContract
    WITH buf <- events,
         phase <- IF evClosed THEN "closed"
                  ELSE IF closeChan THEN "closing" ELSE "open",
         pc <- [t \in Threads |-> IF pc[t] = "done" THEN "done" ELSE "busy"]

QueueContract == Contract!Spec

\* Provided Close is called, every Write, Read and Close call returns: a
\* Write blocked on a full channel while holding the token is released by
\* close(q.closeChan) and Close does not wait forever for the token.
AllCallsReturn == <>(\A t \in Threads : pc[t] = "done")

=============================================================================
