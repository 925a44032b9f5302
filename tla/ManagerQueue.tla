----------------------------- MODULE ManagerQueue -----------------------------
(***************************************************************************)
(* inMemoryManager (a2asrv/eventqueue/manager_in_memory_impl.go) for one   *)
(* task, composed with the queue it creates, modelled in detail by        *)
(* EventQueue.  Writers and Readers each call GetOrCreate and then Write  *)
(* once, or Read until it fails, on the queue they were given; Destroyers *)
(* each call Destroy once.  Destroy holds the Manager mutex across        *)
(* queue.Close, whose two steps are EventQueue's CloseLock and            *)
(* CloseAcquire, so a GetOrCreate waits for the whole of Close.           *)
(*                                                                         *)
(*   the EventQueue variables  the first queue GetOrCreate makes (id 1)   *)
(*   queues   m.queues[taskId]: the queue registered for the task, or     *)
(*            NoQueue                                                      *)
(*   created  how many queues NewInMemoryQueue has made                    *)
(*   mu       the goroutine holding m.mu                                   *)
(*   mpc      where each call is: "get" (GetOrCreate pending), "use" (on  *)
(*            queue 1), "lock"/"close" (Destroy pending), "done"          *)
(*   held     the queue GetOrCreate gave each caller                       *)
(*   dret     what each Destroy returned                                   *)
(* A queue made after Destroy (id 2 and on) is new and empty, and is no   *)
(* other queue's business: its calls are those the queue run checks, and  *)
(* here its callers stop once they have it.                               *)
(***************************************************************************)
EXTENDS Naturals, Sequences

CONSTANTS Writers, Readers, Destroyers, Capacity, NoOne, NoEvent

VARIABLES events, evClosed, closeChan, closed, sem, closeMu,
          canceled, pc, ret, got,
          queues, created, mu, mpc, held, dret

qvars == <<events, evClosed, closeChan, closed, sem, closeMu,
           canceled, pc, ret, got>>
mvars == <<queues, created, mu, mpc, held, dret>>
vars == <<qvars, mvars>>

Q == INSTANCE EventQueue WITH Closers <- Destroyers

Callers == Writers \cup Readers
NoQueue == 0
Q1 == 1

\* NewInMemoryManager: an empty registry, every call about to start.
Init ==
    /\ Q!Init
    /\ queues = NoQueue
    /\ created = 0
    /\ mu = NoOne
    /\ mpc = [t \in Callers \cup Destroyers |->
                IF t \in Callers THEN "get" ELSE "lock"]
    /\ held = [t \in Callers |-> NoQueue]
    /\ dret = [d \in Destroyers |-> "none"]

(***************************************************************************)
(* GetOrCreate, all under m.mu: the registered queue, or a new one        *)
(* registered first.                                                       *)
(***************************************************************************)
GetOrCreate(t) ==
    /\ mpc[t] = "get"
    /\ mu = NoOne
    /\ LET q == IF queues = NoQueue THEN created + 1 ELSE queues
       IN  /\ queues' = q
           /\ created' = IF queues = NoQueue THEN created + 1 ELSE created
           /\ held' = [held EXCEPT ![t] = q]
           /\ mpc' = [mpc EXCEPT ![t] = IF q = Q1 THEN "use" ELSE "done"]
    /\ UNCHANGED <<qvars, mu, dret>>

\* The queue calls of a caller holding queue 1, as in EventQueue.
WriteAcquire(w) == mpc[w] = "use" /\ Q!WriteAcquire(w) /\ UNCHANGED mvars
WriteSelect(w) == mpc[w] = "use" /\ Q!WriteSelect(w) /\ UNCHANGED mvars
Read(r) == mpc[r] = "use" /\ Q!Read(r) /\ UNCHANGED mvars

\* Destroy that unlocks m.mu once it has looked the queue up.
DestroyLockUnlocking(d) ==
    /\ mpc[d] = "lock"
    /\ mu = NoOne
    /\ CASE queues = NoQueue ->
              /\ dret' = [dret EXCEPT ![d] = "notExist"]
              /\ mpc' = [mpc EXCEPT ![d] = "done"]
              /\ UNCHANGED queues
         [] queues = Q1 ->
              /\ mpc' = [mpc EXCEPT ![d] = "close"]
              /\ UNCHANGED <<queues, dret>>
         [] OTHER ->
              /\ queues' = NoQueue
              /\ dret' = [dret EXCEPT ![d] = "ok"]
              /\ mpc' = [mpc EXCEPT ![d] = "done"]
    /\ UNCHANGED <<qvars, created, mu, held>>

\* Destroy that deletes the queue without calling queue.Close().
DestroyLockSkippingClose(d) ==
    /\ mpc[d] = "lock"
    /\ mu = NoOne
    /\ IF queues = NoQueue
         THEN /\ dret' = [dret EXCEPT ![d] = "notExist"]
              /\ UNCHANGED queues
         ELSE /\ queues' = NoQueue
              /\ dret' = [dret EXCEPT ![d] = "ok"]
    /\ mpc' = [mpc EXCEPT ![d] = "done"]
    /\ UNCHANGED <<qvars, created, mu, held>>

(***************************************************************************)
(* Destroy: m.mu.Lock and the lookup; a missing queue is an error (the    *)
(* deferred Unlock runs).  Queue 1 is then closed by the Close steps      *)
(* below with m.mu held; a later queue has no callers here and its Close  *)
(* returns at once, after which it is deleted.                            *)
(***************************************************************************)
DestroyLock(d) ==
    /\ mpc[d] = "lock"
    /\ mu = NoOne
    /\ CASE queues = NoQueue ->
              /\ dret' = [dret EXCEPT ![d] = "notExist"]
              /\ mpc' = [mpc EXCEPT ![d] = "done"]
              /\ UNCHANGED <<queues, mu>>
         [] queues = Q1 ->
              /\ mu' = d
              /\ mpc' = [mpc EXCEPT ![d] = "close"]
              /\ UNCHANGED <<queues, dret>>
         [] OTHER ->
              /\ queues' = NoQueue
              /\ dret' = [dret EXCEPT ![d] = "ok"]
              /\ mpc' = [mpc EXCEPT ![d] = "done"]
              /\ UNCHANGED mu
    /\ UNCHANGED <<qvars, created, held>>

\* queue.Close() on queue 1, called by Destroy, as in EventQueue.
CloseLock(d) == mpc[d] = "close" /\ Q!CloseLock(d) /\ UNCHANGED mvars
CloseAcquire(d) == mpc[d] = "close" /\ Q!CloseAcquire(d) /\ UNCHANGED mvars

\* Destroy that returns without delete(m.queues, taskId).
DestroyDeleteKeeping(d) ==
    /\ mpc[d] = "close"
    /\ pc[d] = "done"
    /\ mu' = NoOne
    /\ dret' = [dret EXCEPT ![d] = "ok"]
    /\ mpc' = [mpc EXCEPT ![d] = "done"]
    /\ UNCHANGED <<qvars, queues, created, held>>

\* Destroy, once Close has returned: delete(m.queues, taskId), Unlock.
DestroyDelete(d) ==
    /\ mpc[d] = "close"
    /\ pc[d] = "done"
    /\ queues' = NoQueue
    /\ mu' = NoOne
    /\ dret' = [dret EXCEPT ![d] = "ok"]
    /\ mpc' = [mpc EXCEPT ![d] = "done"]
    /\ UNCHANGED <<qvars, created, held>>

Next ==
    \/ \E t \in Callers : GetOrCreate(t)
    \/ \E w \in Writers : WriteAcquire(w) \/ WriteSelect(w)
    \/ \E r \in Readers : Read(r)
    \/ \E d \in Destroyers :
          DestroyLock(d) \/ CloseLock(d) \/ CloseAcquire(d) \/ DestroyDelete(d)

(***************************************************************************)
(* Fairness, as in EventQueue: each goroutine keeps running; taking m.mu, *)
(* closeMu or the semaphore token is strongly fair (sync.Mutex starvation *)
(* mode, FIFO channel senders).  No context is canceled here.             *)
(***************************************************************************)
Fairness ==
    /\ \A t \in Callers : SF_vars(GetOrCreate(t))
    /\ \A w \in Writers : SF_vars(WriteAcquire(w)) /\ WF_vars(WriteSelect(w))
    /\ \A r \in Readers : WF_vars(Read(r))
    /\ \A d \in Destroyers : /\ SF_vars(DestroyLock(d)) /\ SF_vars(CloseLock(d))
                             /\ SF_vars(CloseAcquire(d)) /\ WF_vars(DestroyDelete(d))

Spec == Init /\ [][Next]_vars
FairSpec == Spec /\ Fairness

(***************************************************************************)
(* The Manager interface as ManagerContract states it.  A call that has   *)
(* returned is "done" there; a Destroy that is closing the queue has not  *)
(* yet taken effect: it does so at the delete.                            *)
(***************************************************************************)
ContractPc ==
    [t \in Callers \cup Destroyers |->
        CASE mpc[t] \in {"use", "done"} -> "done"
          [] mpc[t] = "close"          -> "lock"
          [] OTHER                     -> mpc[t]]

Contract == INSTANCE ManagerContract WITH mpc <- ContractPc

-----------------------------------------------------------------------------
(* Properties *)

\* Once Destroy has removed the task's first queue, every Write on that queue
\* fails: Destroy calls queue.Close() before it deletes the queue and
\* returns, so a writer still holding the queue, whether it calls Write
\* later or is blocked in it, observes the close.
Queue1Removed == created >= Q1 /\ queues # Q1

DestroyedQueueRefusesWrites ==
    [][Queue1Removed => \A w \in Writers : ~(ret[w] = "none" /\ ret'[w] = "ok")]_vars

\* inMemoryManager implements the Manager interface: with Destroy split into
\* lock, the queue's two-step Close and the delete, and queue calls running
\* in between, every GetOrCreate and Destroy still takes effect at one
\* instant, in an order that explains every queue and error returned.
ManagerContractHolds == Contract!Spec

\* GetOrCreate never hands out a queue whose Close has begun: Destroy holds
\* m.mu from its lookup until the queue is closed and deleted, so a caller
\* gets the queue before Destroy starts or a new one after it.
GetOrCreateNeverReturnsClosingQueue ==
    [][\A t \in Callers :
         mpc[t] = "get" /\ mpc'[t] # "get" => ~(held'[t] = Q1 /\ closeChan)]_vars

\* Every GetOrCreate and Destroy call returns, although Destroy waits inside
\* queue.Close for the token with m.mu held while a Write blocked on the full
\* queue holds the token and the readers that would drain it wait for m.mu.
ManagerCallsReturn ==
    \A t \in Callers \cup Destroyers : <>(mpc[t] \notin {"get", "lock", "close"})

=============================================================================
