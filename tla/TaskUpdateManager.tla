-------------------------- MODULE TaskUpdateManager --------------------------
(***************************************************************************)
(* taskupdate.Manager (src/unnamed/part_003): Process applies the events   *)
(* an executor emits to the Task it manages and saves the result through   *)
(* a Saver, here the taskstore.Mem store (src/unnamed/part_000), whose     *)
(* Save keeps a deep copy and may fail (the gob encoding in deepCopy       *)
(* rejects values it cannot encode).  Events are applied one at a time:    *)
(* the Manager is not meant for concurrent Process calls.                  *)
(*                                                                         *)
(*   task     mgr.Task, the managed Task (NoTask: NewManager given nil)   *)
(*   stored   the copy the store holds for the Task (NoTask before a Save) *)
(*   result   what the last Process call returned                         *)
(*   calls    how many Process calls were made (bounded by MaxCalls)       *)
(* and, to state what the Task should hold, a log of what was applied:     *)
(*   base     the Task installed by the last snapshot (or the first Task)  *)
(*   applied  the status updates applied to the Task since then            *)
(***************************************************************************)
EXTENDS Naturals, Sequences, SequencesExt

CONSTANTS TaskIDs, ContextIDs, Messages, States, MetaKeys, MetaVals,
          EventMetas,  \* the Metadata status update events may carry
          NoMsg, Absent, NoTask, MaxCalls

VARIABLES task, stored, result, calls, base, applied

vars == <<task, stored, result, calls, base, applied>>

\* Metadata is a string-keyed map; Absent marks a key it does not hold.
Meta == [MetaKeys -> MetaVals \cup {Absent}]
NoMeta == [k \in MetaKeys |-> Absent]

ASSUME MaxCalls \in Nat /\ EventMetas \subseteq Meta /\ NoMeta \in EventMetas
Status == [state : States, msg : Messages \cup {NoMsg}]
Task == [id : TaskIDs, contextId : ContextIDs, status : Status,
         history : Seq(Messages), meta : Meta]

\* The Task the Manager starts from, made by NewSubmittedTask from the
\* user's message (a fresh ID; the message's context ID or a fresh one).
NewSubmittedTask(msg, id, ctx) ==
    [id |-> id, contextId |-> ctx,
     status |-> [state |-> "submitted", msg |-> NoMsg],
     history |-> <<msg>>, meta |-> NoMeta]

(***************************************************************************)
(* The events, a closed union: a Message, a Task snapshot, a status update *)
(* and an artifact update, plus any other value (the default case).        *)
(* Snapshots carry no history or metadata of their own here.               *)
(***************************************************************************)
Snapshots ==
    {[kind |-> "task", id |-> i, contextId |-> c, status |-> s] :
        i \in TaskIDs, c \in ContextIDs, s \in Status}
StatusUpdates ==
    {[kind |-> "status", id |-> i, contextId |-> c, status |-> s, meta |-> m] :
        i \in TaskIDs, c \in ContextIDs, s \in Status, m \in EventMetas}
ArtifactUpdates ==
    {[kind |-> "artifact", id |-> i, contextId |-> c] : i \in TaskIDs, c \in ContextIDs}
Events ==
    {[kind |-> "message"], [kind |-> "other"]}
        \cup Snapshots \cup StatusUpdates \cup ArtifactUpdates

SnapshotTask(e) ==
    [id |-> e.id, contextId |-> e.contextId, status |-> e.status,
     history |-> <<>>, meta |-> NoMeta]

Results == {"none", "taskNotSet", "ok", "idMismatch", "saveErr", "notImplemented", "unexpected"}

TypeOK ==
    /\ task \in Task \cup {NoTask}
    /\ stored \in Task \cup {NoTask}
    /\ result \in Results
    /\ calls \in 0..MaxCalls
    /\ base \in Task \cup {NoTask}
    /\ applied \in Seq(StatusUpdates)

Init ==
    /\ \/ \E m \in Messages, i \in TaskIDs, c \in ContextIDs :
             task = NewSubmittedTask(m, i, c)
       \/ task = NoTask
    /\ stored = NoTask
    /\ result = "none"
    /\ calls = 0
    /\ base = task
    /\ applied = <<>>

\* validate checking only the task ID.
ValidateIDOnly(e) == task.id = e.id

\* validate: the event's task and context IDs must equal the managed Task's.
Validate(e) == task.id = e.id /\ task.contextId = e.contextId

\* A merge that keeps the Task's value for keys it already holds.
MergeMetaKeepOld(old, new) == [k \in MetaKeys |-> IF old[k] # Absent THEN old[k] ELSE new[k]]

\* The key-wise union of the event's metadata into the Task's, the event's
\* values winning.
MergeMeta(old, new) == [k \in MetaKeys |-> IF new[k] # Absent THEN new[k] ELSE old[k]]

\* updateStatus recording the new status message instead of the old one.
StatusAppliedRecordingNew(t, e) ==
    [t EXCEPT !.history = IF e.status.msg # NoMsg THEN Append(@, e.status.msg) ELSE @,
              !.meta = MergeMeta(@, e.meta),
              !.status = e.status]

\* updateStatus appending the current status message even when it is nil.
StatusAppliedNilToo(t, e) ==
    [t EXCEPT !.history = Append(@, t.status.msg),
              !.meta = MergeMeta(@, e.meta),
              !.status = e.status]

(***************************************************************************)
(* updateStatus: the current status message (if any) moves to History,     *)
(* the event's Metadata is merged in and its Status replaces the current   *)
(* one.  The code does this to mgr.Task itself, before Save is called.     *)
(***************************************************************************)
StatusApplied(t, e) ==
    [t EXCEPT !.history = IF t.status.msg # NoMsg THEN Append(@, t.status.msg) ELSE @,
              !.meta = MergeMeta(@, e.meta),
              !.status = e.status]

(***************************************************************************)
(* Process(e): one call, with the store's Save succeeding or failing.      *)
(***************************************************************************)
Finish(r) == result' = r /\ calls' = calls + 1

Process(e, saveFails) ==
    /\ calls < MaxCalls
    /\ CASE task = NoTask ->
              Finish("taskNotSet") /\ UNCHANGED <<task, stored, base, applied>>
         [] e.kind = "message" ->
              Finish("ok") /\ UNCHANGED <<task, stored, base, applied>>
         [] e.kind = "task" /\ ~Validate(e) ->
              Finish("idMismatch") /\ UNCHANGED <<task, stored, base, applied>>
         [] e.kind = "task" /\ saveFails ->
              Finish("saveErr") /\ UNCHANGED <<task, stored, base, applied>>
         [] e.kind = "task" ->
              /\ task' = SnapshotTask(e)
              /\ stored' = task'
              /\ base' = task' /\ applied' = <<>>
              /\ Finish("ok")
         [] e.kind = "artifact" ->
              /\ Finish(IF Validate(e) THEN "notImplemented" ELSE "idMismatch")
              /\ UNCHANGED <<task, stored, base, applied>>
         [] e.kind = "status" /\ ~Validate(e) ->
              Finish("idMismatch") /\ UNCHANGED <<task, stored, base, applied>>
         [] e.kind = "status" ->
              /\ task' = StatusApplied(task, e)
              /\ applied' = Append(applied, e)
              /\ stored' = IF saveFails THEN stored ELSE task'
              /\ Finish(IF saveFails THEN "saveErr" ELSE "ok")
              /\ UNCHANGED base
         [] OTHER ->
              Finish("unexpected") /\ UNCHANGED <<task, stored, base, applied>>

Next == \E e \in Events, saveFails \in BOOLEAN : Process(e, saveFails)

Spec == Init /\ [][Next]_vars

-----------------------------------------------------------------------------
(* Properties *)

Msgs(statuses) ==
    LET withMsg == SelectSeq(statuses, LAMBDA s : s.msg # NoMsg)
    IN  [i \in 1..Len(withMsg) |-> withMsg[i].msg]

\* The statuses the Task has held since the last snapshot, oldest first.
StatusesHeld == <<base.status>> \o [i \in 1..Len(applied) |-> applied[i].status]

\* History is the log of superseded status messages: after K status updates
\* it holds the messages of the first K statuses held (in order, skipping
\* statuses without one) after the Task's own history, and the current
\* status is the last update's.
HistoryIsSupersededMessages ==
    task # NoTask =>
    /\ task.history = base.history \o Msgs(Front(StatusesHeld))
    /\ task.status = Last(StatusesHeld)

\* Metadata merged across status updates is last-writer-wins per key.
MetadataLastWriterWins ==
    task # NoTask =>
    \A k \in MetaKeys :
        LET setting == SelectSeq(applied, LAMBDA u : u.meta[k] # Absent)
        IN  task.meta[k] = IF setting = <<>> THEN base.meta[k] ELSE Last(setting).meta[k]

\* No step changes the identity of the managed Task or saves a Task of
\* another identity for it, whatever events reach Process: a misrouted or
\* stale event is rejected by validate.
IdentityPreserved ==
    [][ task # NoTask =>
        /\ <<task'.id, task'.contextId>> = <<task.id, task.contextId>>
        /\ stored' # NoTask => <<stored'.id, stored'.contextId>> = <<task.id, task.contextId>>
      ]_vars

\* A Process call that fails leaves the managed Task as it was, so that the
\* in-memory Task is never ahead of the saved one (spec 4.3, 7).
FailedProcessLeavesTaskUnchanged ==
    [][result' \notin {"ok", "none"} => task' = task]_vars

=============================================================================
