---------------------------- MODULE ManagerContract ----------------------------
(***************************************************************************)
(* What the eventqueue.Manager interface (a2asrv/eventqueue/manager.go)    *)
(* promises for one task: GetOrCreate returns the task's queue, or a new   *)
(* one it registers; Destroy removes the task's queue, or fails when there *)
(* is none.  Each call takes effect at one instant.  Queues are numbered   *)
(* in the order they are made.                                             *)
(*                                                                         *)
(*   queues   the task's queue, or NoQueue                                 *)
(*   created  how many queues have been made                               *)
(*   mpc      "get" / "lock" while a GetOrCreate / Destroy is pending,     *)
(*            "done" once it returned                                      *)
(*   held     the queue each GetOrCreate returned                          *)
(*   dret     what each Destroy returned: "none", "ok" or "notExist"       *)
(***************************************************************************)
EXTENDS Naturals

CONSTANTS Callers, Destroyers, NoQueue

VARIABLES queues, created, mpc, held, dret

vars == <<queues, created, mpc, held, dret>>

\* The Manager interface, no call made yet.
Init ==
    /\ queues = NoQueue
    /\ created = 0
    /\ mpc = [t \in Callers \cup Destroyers |->
                IF t \in Callers THEN "get" ELSE "lock"]
    /\ held = [t \in Callers |-> NoQueue]
    /\ dret = [d \in Destroyers |-> "none"]

\* GetOrCreate: the existing queue, or a new one registered for the task.
GetOrCreate(t) ==
    /\ mpc[t] = "get"
    /\ IF queues = NoQueue
          THEN /\ queues' = created + 1
               /\ created' = created + 1
          ELSE UNCHANGED <<queues, created>>
    /\ held' = [held EXCEPT ![t] = queues']
    /\ mpc' = [mpc EXCEPT ![t] = "done"]
    /\ UNCHANGED dret

\* Destroy: the task's queue is removed, or the call fails.
Destroy(d) ==
    /\ mpc[d] = "lock"
    /\ IF queues = NoQueue
          THEN /\ dret' = [dret EXCEPT ![d] = "notExist"]
               /\ UNCHANGED queues
          ELSE /\ queues' = NoQueue
               /\ dret' = [dret EXCEPT ![d] = "ok"]
    /\ mpc' = [mpc EXCEPT ![d] = "done"]
    /\ UNCHANGED <<created, held>>

Next ==
    \/ \E t \in Callers : GetOrCreate(t)
    \/ \E d \in Destroyers : Destroy(d)

Spec == Init /\ [][Next]_vars

=============================================================================
