------------------------------ MODULE TaskStore ------------------------------
(***************************************************************************)
(* taskstore.Mem (src/unnamed/part_000): Save and Get of *a2a.Task values  *)
(* by concurrent callers.  Save deep-copies the caller's Task (gob encode  *)
(* and decode, outside the lock) and then stores the copy under the write *)
(* lock; Get reads the stored pointer under the read lock and deep-copies *)
(* it after releasing the lock.  Callers keep and change their own Tasks  *)
(* and the Tasks Get returned to them.                                     *)
(*                                                                         *)
(*   heap    the Task objects: each caller's own, and the copies made so  *)
(*           far (1..copies); an object has a content and whether gob   *)
(*           can encode it                                                 *)
(*   tasks   s.tasks: the object stored for each task ID                   *)
(*   pc, local  where each call is, and the pointer it holds between its  *)
(*           two steps                                                     *)
(*   got     the Task the caller's last Get returned                       *)
(* and, to state what the store must hold:                                 *)
(*   snap    the content a call saw: Save at its copy, Get at its read    *)
(*   saved   the content handed to the last Save that stored its copy     *)
(***************************************************************************)
EXTENDS Naturals, Sequences, Functions

CONSTANTS Callers,     \* goroutines using the store
          TaskIDs,     \* the ID of each caller's own Task
          Contents,    \* what a Task may hold
          NoTask,      \* no Task (an absent map entry, a nil pointer)
          MaxOps       \* how many Save, Get and change calls are made

ASSUME MaxOps \in Nat

VARIABLES heap, copies, tasks, pc, local, got, res, snap, saved, ops

vars == <<heap, copies, tasks, pc, local, got, res, snap, saved, ops>>

\* The ID of each caller's own Task: one task ID may be held by several.
OwnID == CHOOSE f \in [Callers -> TaskIDs] : Range(f) = TaskIDs

Init ==
    /\ heap \in [Callers -> [val : Contents, enc : {TRUE}]]
    /\ copies = 0
    /\ tasks = [t \in TaskIDs |-> NoTask]
    /\ pc = [c \in Callers |-> "idle"]
    /\ local = [c \in Callers |-> NoTask]
    /\ got = [c \in Callers |-> NoTask]
    /\ res = [c \in Callers |-> "none"]
    /\ snap = [c \in Callers |-> NoTask]
    /\ saved = [t \in TaskIDs |-> NoTask]
    /\ ops = 0

\* deepCopy(task): a new object with the same content; gob decoding gives a
\* Task gob can encode again.  Only called on an encodable object.
DeepCopy(p) ==
    /\ copies' = copies + 1
    /\ heap' = [x \in DOMAIN heap \cup {copies + 1} |->
                  IF x = copies + 1 THEN [heap[p] EXCEPT !.enc = TRUE] ELSE heap[x]]

\* A caller changes a Task it holds, its own or one Get gave it, possibly
\* storing a value gob cannot encode (a channel, a func, an unregistered
\* type behind an interface).
Change(c, p, v, e) ==
    /\ pc[c] = "idle"
    /\ p \in {c, got[c]} \ {NoTask}
    /\ ops < MaxOps /\ ops' = ops + 1
    /\ heap' = [heap EXCEPT ![p] = [val |-> v, enc |-> e]]
    /\ UNCHANGED <<copies, tasks, pc, local, got, res, snap, saved>>

\* Save that stores the caller's own object instead of a copy.
SaveCopyShallow(c) ==
    /\ pc[c] = "idle"
    /\ ops < MaxOps /\ ops' = ops + 1
    /\ pc' = [pc EXCEPT ![c] = "insert"]
    /\ local' = [local EXCEPT ![c] = c]
    /\ snap' = [snap EXCEPT ![c] = heap[c].val]
    /\ UNCHANGED <<heap, copies, tasks, got, res, saved>>

(***************************************************************************)
(* Save, first step: deepCopy of the caller's Task outside the lock; an    *)
(* encoding error is returned.                                              *)
(***************************************************************************)
SaveCopy(c) ==
    /\ pc[c] = "idle"
    /\ ops < MaxOps /\ ops' = ops + 1
    /\ IF heap[c].enc
         THEN /\ DeepCopy(c)
              /\ pc' = [pc EXCEPT ![c] = "insert"]
              /\ local' = [local EXCEPT ![c] = copies + 1]
              /\ snap' = [snap EXCEPT ![c] = heap[c].val]
              /\ UNCHANGED res
         ELSE /\ res' = [res EXCEPT ![c] = "encodeErr"]
              /\ UNCHANGED <<heap, copies, pc, local, snap>>
    /\ UNCHANGED <<tasks, got, saved>>

\* Save that writes the copy's content into the Task already stored.
SaveInsertInPlace(c) ==
    /\ pc[c] = "insert"
    /\ IF tasks[OwnID[c]] = NoTask
         THEN /\ tasks' = [tasks EXCEPT ![OwnID[c]] = local[c]]
              /\ UNCHANGED heap
         ELSE /\ heap' = [heap EXCEPT ![tasks[OwnID[c]]] = heap[local[c]]]
              /\ UNCHANGED tasks
    /\ saved' = [saved EXCEPT ![OwnID[c]] = snap[c]]
    /\ pc' = [pc EXCEPT ![c] = "idle"]
    /\ local' = [local EXCEPT ![c] = NoTask]
    /\ res' = [res EXCEPT ![c] = "ok"]
    /\ UNCHANGED <<copies, got, snap, ops>>

\* Save, second step: s.tasks[task.ID] = copy under the write lock.
SaveInsert(c) ==
    /\ pc[c] = "insert"
    /\ tasks' = [tasks EXCEPT ![OwnID[c]] = local[c]]
    /\ saved' = [saved EXCEPT ![OwnID[c]] = snap[c]]
    /\ pc' = [pc EXCEPT ![c] = "idle"]
    /\ local' = [local EXCEPT ![c] = NoTask]
    /\ res' = [res EXCEPT ![c] = "ok"]
    /\ UNCHANGED <<heap, copies, got, snap, ops>>

\* Get, first step: the stored pointer read under the read lock; a missing
\* entry is ErrTaskNotFound.
GetRead(c, t) ==
    /\ pc[c] = "idle"
    /\ ops < MaxOps /\ ops' = ops + 1
    /\ IF tasks[t] = NoTask
         THEN /\ res' = [res EXCEPT ![c] = "notFound"]
              /\ UNCHANGED <<pc, local, snap>>
         ELSE /\ pc' = [pc EXCEPT ![c] = "copy"]
              /\ local' = [local EXCEPT ![c] = tasks[t]]
              /\ snap' = [snap EXCEPT ![c] = heap[tasks[t]].val]
              /\ UNCHANGED res
    /\ UNCHANGED <<heap, copies, tasks, got, saved>>

\* Get, second step: deepCopy of the stored Task after RUnlock.
GetCopy(c) ==
    /\ pc[c] = "copy"
    /\ DeepCopy(local[c])
    /\ got' = [got EXCEPT ![c] = copies + 1]
    /\ pc' = [pc EXCEPT ![c] = "idle"]
    /\ local' = [local EXCEPT ![c] = NoTask]
    /\ res' = [res EXCEPT ![c] = "ok"]
    /\ UNCHANGED <<tasks, snap, saved, ops>>

Next ==
    \/ \E c \in Callers, v \in Contents, e \in BOOLEAN :
          \E p \in {c, got[c]} \ {NoTask} : Change(c, p, v, e)
    \/ \E c \in Callers : SaveCopy(c) \/ SaveInsert(c) \/ GetCopy(c)
    \/ \E c \in Callers, t \in TaskIDs : GetRead(c, t)

Spec == Init /\ [][Next]_vars

-----------------------------------------------------------------------------
(* Properties *)

\* The stored Task is the content handed to the last Save that stored it,
\* whatever callers do afterwards to their own Tasks or to Tasks Get gave
\* them ("Copy to keep a saved Task unchanged until an explicit Save").
StoredTaskImmune ==
    \A t \in TaskIDs : tasks[t] # NoTask => heap[tasks[t]].val = saved[t]

\* A Get returns the Task as it was stored when Get read the pointer under
\* the lock, although its deepCopy runs after the lock is released.
GetReturnsSnapshotAtRead ==
    [][\A c \in Callers : pc[c] = "copy" /\ pc'[c] = "idle" => heap'[got'[c]].val = snap[c]]_vars

=============================================================================
