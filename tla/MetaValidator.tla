---------------------------- MODULE MetaValidator ----------------------------
(***************************************************************************)
(* The Task validator of internal/taskstore/validator.go: validateTask,   *)
(* validateMessage, validateArtifact and validateParts walk a Task and    *)
(* call validateMeta on every Metadata map; validateMetaRecursive accepts *)
(* nil, scalars, []any and map[string]any, rejects any other type, and    *)
(* detects circular references with a set of the %p addresses of the      *)
(* containers on the current path (deleted again on return).              *)
(*                                                                         *)
(* The heap the validator walks is the state, chosen once by Init:        *)
(*   cells    the elements of the backing arrays of []any values          *)
(*   entries  the values of each map[string]any (in no fixed order)       *)
(*   task     the Task handed to validateTask                              *)
(* A []any value is a slice [arr, off, len] of an array; %p of it is the  *)
(* address of its first element, <<arr, off>>, shared by the slices of   *)
(* one array that start at the same element.  %p of a map is the map.     *)
(* Every call is evaluated as the set of results it can return, Go's map  *)
(* iteration order being unspecified.                                      *)
(***************************************************************************)
EXTENDS Naturals, Sequences, SequencesExt, TLC

CONSTANTS Arrays,      \* the backing arrays of []any values
          Cap,         \* the length of each backing array
          Maps,        \* the map[string]any values
          MaxEntries,  \* the most entries a map holds
          Tasks,       \* the Tasks validateTask may be given
          NoMsg        \* a nil *Message or *Artifact

ASSUME Cap \in Nat /\ MaxEntries \in Nat

VARIABLES cells, entries, task

vars == <<cells, entries, task>>

\* nil or a bool, int..., float64 or string (the two early returns treat
\* them alike); a value of any other type.
Scalar == [kind |-> "scalar"]
Forbidden == [kind |-> "forbidden"]
Scalars == {Scalar}
Slices == {[kind |-> "slice", arr |-> a, off |-> o, len |-> l] :
              a \in Arrays, o \in 0..(Cap - 1), l \in 0..Cap} \cap
          {s \in [kind : {"slice"}, arr : Arrays, off : Nat, len : Nat] : s.off + s.len <= Cap}
MapOf(m) == [kind |-> "map", id |-> m]
MapVals == {MapOf(m) : m \in Maps}
Containers == Slices \cup MapVals
Values == Scalars \cup {Forbidden} \cup Containers
Cells == Arrays \X (0..(Cap - 1))

Elems(v) == IF v \in MapVals THEN entries[v.id]
            ELSE [i \in 1..v.len |-> cells[<<v.arr, v.off + i - 1>>]]

\* The orders in which a range over the map's entries may visit them.
Orders(s) == {[i \in DOMAIN s |-> s[p[i]]] : p \in Permutations(DOMAIN s)}

\* fmt.Sprintf("%p", value).
Key(v) == CASE v \in MapVals -> <<"map", v.id, 0>>
            [] v \in Slices  -> <<"slice", v.arr, v.off>>
            [] OTHER         -> <<"%!p", "", 0>>

(***************************************************************************)
(* The reference: the values reachable from a value, a cycle among them,  *)
(* and two distinct reachable slices with one first-element address.      *)
(***************************************************************************)
Children(v) == IF v \in Containers THEN ToSet(Elems(v)) ELSE {}

Reachable(v) ==
    LET RECURSIVE Grow(_)
        Grow(S) == LET T == S \cup UNION {Children(x) : x \in S}
                   IN  IF T = S THEN S ELSE Grow(T)
    IN  Grow({v})

Cyclic(v) == \E n \in Reachable(v) : n \in UNION {Reachable(c) : c \in Children(n)}
HasForbidden(v) == Forbidden \in Reachable(v)
Invalid(v) == Cyclic(v) \/ HasForbidden(v)

SharesAddress(v) ==
    \E s, t \in Reachable(v) \cap Slices : s # t /\ s.arr = t.arr /\ s.off = t.off

-----------------------------------------------------------------------------
RECURSIVE ValidateMetaRecursive(_, _), ValidateElems(_, _)

\* The loops without the deferred delete: whatever an element visited
\* stays in processing for the elements after it.
ValidateElemsNoDelete(s, processing) ==
    IF s = <<>> THEN {"ok"}
    ELSE LET r == ValidateMetaRecursive(Head(s), processing)
             seen == {Key(c) : c \in Reachable(Head(s)) \cap Containers}
         IN  (r \ {"ok"}) \cup
             (IF "ok" \in r THEN ValidateElems(Tail(s), processing \cup seen) ELSE {})

\* The loops over a slice's or map's elements: the first error is returned.
\* processing is the same for every element: each call deletes its key again.
ValidateElems(s, processing) ==
    IF s = <<>> THEN {"ok"}
    ELSE LET r == ValidateMetaRecursive(Head(s), processing)
         IN  (r \ {"ok"}) \cup
             (IF "ok" \in r THEN ValidateElems(Tail(s), processing) ELSE {})

ValidateMetaRecursive(v, processing) ==
    IF v \in Scalars THEN {"ok"}
    ELSE IF Key(v) \in processing THEN {"circular"}
    ELSE LET p == processing \cup {Key(v)}
         IN  CASE v \in Slices  -> ValidateElems(Elems(v), p)
               [] v \in MapVals -> UNION {ValidateElems(o, p) : o \in Orders(Elems(v))}
               [] OTHER         -> {"notPermitted"}

\* validateMeta: a fresh processing set for every Metadata map.
ValidateMeta(m) == ValidateMetaRecursive(MapOf(m), {})

\* A chain of checks that returns the first error.
RECURSIVE FirstError(_)
FirstError(rs) ==
    IF rs = <<>> THEN {"ok"}
    ELSE (Head(rs) \ {"ok"}) \cup (IF "ok" \in Head(rs) THEN FirstError(Tail(rs)) ELSE {})

ValidateParts(parts) == FirstError([i \in DOMAIN parts |-> ValidateMeta(parts[i])])

ValidateMessage(msg) ==
    IF msg = NoMsg THEN {"ok"}
    ELSE FirstError(<<ValidateParts(msg.parts), ValidateMeta(msg.meta)>>)

ValidateArtifact(a) ==
    IF a = NoMsg THEN {"ok"}
    ELSE FirstError(<<ValidateParts(a.parts), ValidateMeta(a.meta)>>)

ValidateTask(t) ==
    FirstError(<<ValidateMessage(t.status)>>
               \o [i \in DOMAIN t.history |-> ValidateMessage(t.history[i])]
               \o [i \in DOMAIN t.artifacts |-> ValidateArtifact(t.artifacts[i])]
               \o <<ValidateMeta(t.meta)>>)

\* Every Metadata map of a Task, in no particular order.
MetaRoots(t) ==
    LET holders == ({t.status} \cup ToSet(t.history) \cup ToSet(t.artifacts)) \ {NoMsg}
    IN  {t.meta} \cup {h.meta : h \in holders} \cup UNION {ToSet(h.parts) : h \in holders}

Init ==
    /\ cells \in [Cells -> Values]
    /\ entries \in [Maps -> BoundedSeq(Values, MaxEntries)]
    /\ task \in Tasks

\* The validator is a pure function of the heap: nothing changes after Init.
Next == UNCHANGED vars

Spec == Init /\ [][Next]_vars

-----------------------------------------------------------------------------
(* Properties, for the Task's metadata *)

\* validateMeta agrees with the reference: metadata that reaches itself is
\* never accepted, whatever order its maps are walked in; and, provided no
\* two distinct slices in it start at one element, metadata without a cycle
\* or a value of another type is accepted even when a slice or map is
\* referenced from several places (the key is deleted on return), and an
\* error names a real defect.  validateTask then accepts the Task exactly
\* when none of its Metadata maps is invalid by the reference.
VerdictMatchesReference ==
    /\ (\A m \in MetaRoots(task) : ~SharesAddress(MapOf(m))) =>
          (("ok" \in ValidateTask(task)) <=> \A m \in MetaRoots(task) : ~Invalid(MapOf(m)))
    /\ \A m \in MetaRoots(task) :
          /\ Cyclic(MapOf(m)) => "ok" \notin ValidateMeta(m)
          /\ ~SharesAddress(MapOf(m)) =>
                /\ ("ok" \in ValidateMeta(m)) <=> ~Invalid(MapOf(m))
                /\ "circular" \in ValidateMeta(m) => Cyclic(MapOf(m))
                /\ "notPermitted" \in ValidateMeta(m) => HasForbidden(MapOf(m))

\* A circular reference is reported only for metadata that reaches itself.
CircularOnlyForCycles ==
    \A m \in MetaRoots(task) : "circular" \in ValidateMeta(m) => Cyclic(MapOf(m))

=============================================================================
