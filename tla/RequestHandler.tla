---------------------------- MODULE RequestHandler ----------------------------
(***************************************************************************)
(* The synchronous message/send path: defaultRequestHandler.OnSendMessage *)
(* (a2asrv/handler.go) with the in-memory queue Manager                    *)
(* (a2asrv/eventqueue/manager_in_memory_impl.go) and one AgentExecutor run *)
(* per request.  Each request runs in its own goroutine; an environment    *)
(* may call Manager.Destroy for a task at any time.                        *)
(*                                                                         *)
(* Queues are used through their contract (EventQueueContract, which      *)
(* EventQueue is checked to implement): a Write blocks while the queue is *)
(* full and fails once it is closed, a Read blocks while it is empty and   *)
(* fails once it is closed and drained.  Close, called by Destroy under    *)
(* the Manager's mutex, is one step here.                                  *)
(*                                                                         *)
(*   registry   m.queues: the queue registered for each task (0 if none)  *)
(*   created    how many queues NewInMemoryQueue has made (their ids)     *)
(*   qbuf       the events buffered in each queue                          *)
(*   qclosed    whether each queue is closed                               *)
(*   hpc, hq    where each request is and the queue it was given          *)
(*   script     what the request's executor does in Execute: a sequence   *)
(*              of event kinds to Write, possibly ending in "fail"        *)
(*   res, resEv what OnSendMessage returned                                *)
(*   canceled   whether each request's context has been canceled          *)
(*   epoch      how many times Destroy removed each task's queue, and     *)
(*   hepoch     the epoch in which each request got its queue            *)
(***************************************************************************)
EXTENDS Naturals, Sequences, FiniteSets

CONSTANTS Requests,    \* the inbound message/send requests
          TaskIDs,     \* the task IDs requests may carry
          NoTaskID,    \* the empty TaskID ""
          Scripts,     \* what an executor may do in Execute
          Capacity,    \* the queue capacity (defaultMaxQueueSize)
          Serial,      \* TRUE: a caller sends a request only when none is pending
          MaxDestroys, \* how many Destroy calls the environment makes
          MaxCancels   \* how many request contexts the environment cancels

ASSUME /\ Capacity \in Nat \ {0}
       /\ Serial \in BOOLEAN
       /\ MaxDestroys \in Nat
       /\ MaxCancels \in Nat
       /\ Scripts \subseteq Seq({"message", "task", "status", "artifact", "fail"})

VARIABLES reqTask, script, registry, created, qbuf, qclosed,
          hpc, hq, res, resEv, epoch, hepoch, destroys, canceled

vars == <<reqTask, script, registry, created, qbuf, qclosed,
          hpc, hq, res, resEv, epoch, hepoch, destroys, canceled>>

\* Each request makes at most one queue, which bounds the queue ids.
QueueIds == 1..Cardinality(Requests)
Kinds == {"message", "task", "status", "artifact"}
Event == [req : Requests, kind : Kinds]
NoEvent == [req |-> "none", kind |-> "none"]

\* The variants a2a.SendMessageResult admits: *a2a.Message and *a2a.Task.
ResultKinds == {"message", "task"}

\* NewInMemoryManager: an empty m.queues.
NewInMemoryManager == [t \in TaskIDs |-> 0]

\* NewHandler with no options: the executor and a new in-memory Manager;
\* the requests, their tasks and their executors' scripts are the inputs.
Init ==
    /\ reqTask \in [Requests -> TaskIDs \cup {NoTaskID}]
    /\ script \in [Requests -> Scripts]
    /\ registry = NewInMemoryManager
    /\ created = 0
    /\ qbuf = [q \in QueueIds |-> <<>>]
    /\ qclosed = [q \in QueueIds |-> FALSE]
    /\ hpc = [r \in Requests |-> "idle"]
    /\ hq = [r \in Requests |-> 0]
    /\ res = [r \in Requests |-> "none"]
    /\ resEv = [r \in Requests |-> NoEvent]
    /\ epoch = [t \in TaskIDs |-> 0]
    /\ hepoch = [r \in Requests |-> 0]
    /\ destroys = 0
    /\ canceled = [r \in Requests |-> FALSE]

Pending(r) == hpc[r] \in {"exec", "read"}

Return(r, v, ev) ==
    /\ hpc' = [hpc EXCEPT ![r] = "done"]
    /\ res' = [res EXCEPT ![r] = v]
    /\ resEv' = [resEv EXCEPT ![r] = ev]

(***************************************************************************)
(* OnSendMessage up to Execute: a missing TaskID fails at once; otherwise *)
(* the request takes the queue GetOrCreate gives it.                      *)
(***************************************************************************)
\* GetOrCreate that makes a new queue even when one is registered.
GetOrCreateAlwaysNew(t) == created + 1

\* Manager.GetOrCreate: the queue registered for t, or a new one (the next
\* id), which the caller registers, all under the Manager's mutex.
GetOrCreate(t) == IF registry[t] # 0 THEN registry[t] ELSE created + 1

Start(r) ==
    /\ hpc[r] = "idle"
    /\ Serial => \A o \in Requests : ~Pending(o)
    /\ IF reqTask[r] = NoTaskID
         THEN /\ Return(r, "missingTaskID", NoEvent)
              /\ UNCHANGED <<registry, created, hq, hepoch>>
         ELSE LET t == reqTask[r]
                  q == GetOrCreate(t)
              IN  /\ created' = IF q > created THEN q ELSE created
                  /\ registry' = [registry EXCEPT ![t] = q]
                  /\ hq' = [hq EXCEPT ![r] = q]
                  /\ hepoch' = [hepoch EXCEPT ![r] = epoch[t]]
                  /\ hpc' = [hpc EXCEPT ![r] = "exec"]
                  /\ UNCHANGED <<res, resEv>>
    /\ UNCHANGED <<reqTask, script, qbuf, qclosed, epoch, destroys, canceled>>

(***************************************************************************)
(* Execute: the executor performs the next step of its script.  A "fail"  *)
(* step makes Execute return an error, which OnSendMessage returns; a     *)
(* Write that fails (the queue is closed) does too.  A Write on a full    *)
(* open queue blocks.  An exhausted script returns nil.  Once the        *)
(* request's context is canceled, the executor's Write(ctx) may fail with *)
(* the context's error (its selects may pick ctx.Done over a ready case), *)
(* which Execute returns.                                                  *)
(***************************************************************************)
ExecStep(r) ==
    /\ hpc[r] = "exec"
    /\ LET q == hq[r] IN
       IF script[r] = <<>>
         THEN /\ hpc' = [hpc EXCEPT ![r] = "read"]
              /\ UNCHANGED <<script, qbuf, res, resEv>>
         ELSE IF Head(script[r]) = "fail" \/ qclosed[q]
           THEN /\ Return(r, "execErr", NoEvent)
                /\ UNCHANGED <<script, qbuf>>
           ELSE \/ /\ Len(qbuf[q]) < Capacity
                   /\ qbuf' = [qbuf EXCEPT ![q] = Append(@, [req |-> r, kind |-> Head(script[r])])]
                   /\ script' = [script EXCEPT ![r] = Tail(@)]
                   /\ UNCHANGED <<hpc, res, resEv>>
                \/ /\ canceled[r]
                   /\ Return(r, "execErr", NoEvent)
                   /\ UNCHANGED <<script, qbuf>>
    /\ UNCHANGED <<reqTask, registry, created, qclosed, hq, epoch, hepoch, destroys, canceled>>

\* The Read of OnSendMessage made with a context that is never canceled.
ReadStepIgnoringCancel(r) ==
    /\ hpc[r] = "read"
    /\ LET q == hq[r] IN
       \/ /\ qbuf[q] # <<>>
          /\ qbuf' = [qbuf EXCEPT ![q] = Tail(@)]
          /\ IF Head(qbuf[q]).kind \in ResultKinds
               THEN Return(r, "ok", Head(qbuf[q]))
               ELSE Return(r, "unexpected", NoEvent)
       \/ /\ qbuf[q] = <<>> /\ qclosed[q]
          /\ Return(r, "readErr", NoEvent)
          /\ UNCHANGED qbuf
    /\ UNCHANGED <<reqTask, script, registry, created, qclosed, hq, epoch, hepoch, destroys, canceled>>

(***************************************************************************)
(* The one Read OnSendMessage performs, then the check that the event is  *)
(* a SendMessageResult.  Read(ctx) fails with the context's error once it *)
(* is canceled, even when an event is buffered (Go's select picks any     *)
(* ready case); the event then stays in the queue.                         *)
(***************************************************************************)
ReadStep(r) ==
    /\ hpc[r] = "read"
    /\ LET q == hq[r] IN
       \/ /\ qbuf[q] # <<>>
          /\ qbuf' = [qbuf EXCEPT ![q] = Tail(@)]
          /\ IF Head(qbuf[q]).kind \in ResultKinds
               THEN Return(r, "ok", Head(qbuf[q]))
               ELSE Return(r, "unexpected", NoEvent)
       \/ /\ qbuf[q] = <<>> /\ qclosed[q]
          /\ Return(r, "readErr", NoEvent)
          /\ UNCHANGED qbuf
       \/ /\ canceled[r]
          /\ Return(r, "readErr", NoEvent)
          /\ UNCHANGED qbuf
    /\ UNCHANGED <<reqTask, script, registry, created, qclosed, hq, epoch, hepoch, destroys, canceled>>

\* The caller gives up on a pending request (a deadline or a disconnect):
\* its ctx is canceled.  Nothing makes this happen.
Cancel(r) ==
    /\ Pending(r)
    /\ ~canceled[r]
    /\ Cardinality({o \in Requests : canceled[o]}) < MaxCancels
    /\ canceled' = [canceled EXCEPT ![r] = TRUE]
    /\ UNCHANGED <<reqTask, script, registry, created, qbuf, qclosed, hpc, hq,
                   res, resEv, epoch, hepoch, destroys>>

(***************************************************************************)
(* The other protocol methods a request may call instead: they touch no   *)
(* queue and return at once, with errUnimplemented or, for the streaming  *)
(* methods, a nil iter.Seq2.                                               *)
(***************************************************************************)
CallStub(r, result) ==
    /\ hpc[r] = "idle"
    /\ Serial => \A o \in Requests : ~Pending(o)
    /\ Return(r, result, NoEvent)
    /\ UNCHANGED <<reqTask, script, registry, created, qbuf, qclosed, hq,
                   epoch, hepoch, destroys, canceled>>

\* OnGetTask, OnCancelTask.
OnTaskMethod(r) == CallStub(r, "unimplemented")

\* OnResubscribeToTask, OnSendMessageStream.
OnStreamMethod(r) == CallStub(r, "nilSeq")

\* OnGetTaskPushConfig, OnListTaskPushConfig, OnSetTaskPushConfig,
\* OnDeleteTaskPushConfig.
OnPushConfigMethod(r) == CallStub(r, "unimplemented")

(***************************************************************************)
(* Manager.Destroy(t), under the mutex: an unregistered task is an error; *)
(* otherwise the queue is closed and removed from the registry.           *)
(***************************************************************************)
Destroy(t) ==
    /\ destroys < MaxDestroys
    /\ destroys' = destroys + 1
    /\ IF registry[t] = 0
         THEN UNCHANGED <<registry, qclosed, epoch>>
         ELSE /\ qclosed' = [qclosed EXCEPT ![registry[t]] = TRUE]
              /\ registry' = [registry EXCEPT ![t] = 0]
              /\ epoch' = [epoch EXCEPT ![t] = @ + 1]
    /\ UNCHANGED <<reqTask, script, created, qbuf, hpc, hq, res, resEv, hepoch, canceled>>

Next ==
    \/ \E r \in Requests : Start(r) \/ ExecStep(r) \/ ReadStep(r)
    \/ \E r \in Requests : OnTaskMethod(r) \/ OnStreamMethod(r) \/ OnPushConfigMethod(r)
    \/ \E r \in Requests : Cancel(r)
    \/ \E t \in TaskIDs : Destroy(t)

(***************************************************************************)
(* Every request goroutine keeps running; a blocked Write or Read is      *)
(* served once it can be (Go serves blocked channel senders and receivers *)
(* in FIFO order).  Destroy is never assumed to happen.                    *)
(***************************************************************************)
Fairness ==
    \A r \in Requests : /\ WF_vars(Start(r) \/ OnTaskMethod(r) \/ OnStreamMethod(r)
                                   \/ OnPushConfigMethod(r))
                        /\ SF_vars(ExecStep(r))
                        /\ SF_vars(ReadStep(r))

Spec == Init /\ [][Next]_vars
FairSpec == Spec /\ Fairness

-----------------------------------------------------------------------------
(* Properties *)

\* GetOrCreate gives every request for a task the same queue until Destroy
\* removes it: two requests for one task in one epoch share one queue.
QueuePerTaskUnique ==
    \A r1, r2 \in Requests :
        /\ hq[r1] # 0 /\ hq[r2] # 0
        /\ reqTask[r1] = reqTask[r2] /\ hepoch[r1] = hepoch[r2]
        => hq[r1] = hq[r2]

\* The result OnSendMessage returns was written by the executor run for
\* that same request.
ResultFromOwnExecution ==
    \A r \in Requests : res[r] = "ok" => resEv[r].req = r

\* A request whose context is canceled returns, wherever it waits: in the
\* executor's Write on a full queue, or in the one Read on a queue another
\* request for the task has emptied.  OnSendMessage passes its ctx to
\* Execute and to queue.Read (spec 5: every blocking operation returns
\* once its cancellation signal fires).
CanceledRequestReturns ==
    \A r \in Requests : Pending(r) /\ canceled[r] ~> hpc[r] = "done"

\* Every OnSendMessage call returns.
AllRequestsReturn == <>(\A r \in Requests : hpc[r] = "done")

=============================================================================
