--------------------------- MODULE CredentialsStore ---------------------------
(***************************************************************************)
(* InMemoryCredentialsStore (a2aclient/auth.go) with concurrent callers.  *)
(* The store is a map from session to a per-session map from scheme to    *)
(* credential, under one RWMutex.  Set holds the write lock over three    *)
(* steps: the lookup of the session's map, making and registering a new   *)
(* one when it is missing, and the store into it.  Get holds the read     *)
(* lock over its two lookups, which no Set can interleave with, and is    *)
(* one step.                                                               *)
(*                                                                         *)
(*   credentials  s.credentials: the map of each session, or NoMap        *)
(*   maps         the per-session maps made so far (1..Len(maps))         *)
(*   mu           the caller holding the write lock, or NoOne             *)
(*   spc, arg     where each caller's Set is and its arguments            *)
(*   result       what each caller's last Get returned                    *)
(***************************************************************************)
EXTENDS Naturals, Sequences

CONSTANTS Callers, Sessions, Schemes, Creds, NoCred, NoOne, MaxOps

ASSUME MaxOps \in Nat

VARIABLES credentials, maps, mu, spc, arg, result, ops

vars == <<credentials, maps, mu, spc, arg, result, ops>>

NoMap == 0
EmptyMap == [k \in Schemes |-> NoCred]

\* NewInMemoryCredentialsStore: no session has a map.
Init ==
    /\ credentials = [s \in Sessions |-> NoMap]
    /\ maps = <<>>
    /\ mu = NoOne
    /\ spc = [c \in Callers |-> "idle"]
    /\ arg = [c \in Callers |-> <<CHOOSE s \in Sessions : TRUE,
                                  CHOOSE k \in Schemes : TRUE, NoCred>>]
    /\ result = [c \in Callers |-> NoCred]
    /\ ops = 0

\* Set that looks the session's map up without taking s.mu.
SetLookupUnlocked(c, s, k, v) ==
    /\ spc[c] = "idle"
    /\ ops < MaxOps /\ ops' = ops + 1
    /\ arg' = [arg EXCEPT ![c] = <<s, k, v>>]
    /\ spc' = [spc EXCEPT ![c] = IF credentials[s] = NoMap THEN "make" ELSE "store"]
    /\ UNCHANGED <<credentials, maps, mu, result>>

\* Set: s.mu.Lock, then whether s.credentials has a map for sid.
SetLookup(c, s, k, v) ==
    /\ spc[c] = "idle"
    /\ ops < MaxOps /\ ops' = ops + 1
    /\ mu = NoOne
    /\ mu' = c
    /\ arg' = [arg EXCEPT ![c] = <<s, k, v>>]
    /\ spc' = [spc EXCEPT ![c] = IF credentials[s] = NoMap THEN "make" ELSE "store"]
    /\ UNCHANGED <<credentials, maps, result>>

\* Set: s.credentials[sid] = make(map[a2a.SecuritySchemeName]AuthCredential).
SetMake(c) ==
    /\ spc[c] = "make"
    /\ maps' = Append(maps, EmptyMap)
    /\ credentials' = [credentials EXCEPT ![arg[c][1]] = Len(maps) + 1]
    /\ spc' = [spc EXCEPT ![c] = "store"]
    /\ UNCHANGED <<mu, arg, result, ops>>

\* Set: s.credentials[sid][scheme] = credential, then the deferred Unlock.
SetStore(c) ==
    /\ spc[c] = "store"
    /\ LET s == arg[c][1]  k == arg[c][2]  v == arg[c][3]
       IN  maps' = [maps EXCEPT ![credentials[s]][k] = v]
    /\ mu' = NoOne
    /\ spc' = [spc EXCEPT ![c] = "idle"]
    /\ UNCHANGED <<credentials, arg, result, ops>>

(***************************************************************************)
(* Get, under s.mu.RLock: ErrCredentialNotFound when the session has no   *)
(* map or its map has no credential for the scheme.                       *)
(***************************************************************************)
Get(c, s, k) ==
    /\ spc[c] = "idle"
    /\ ops < MaxOps /\ ops' = ops + 1
    /\ mu = NoOne
    /\ result' = [result EXCEPT ![c] =
                    IF credentials[s] = NoMap THEN NoCred ELSE maps[credentials[s]][k]]
    /\ UNCHANGED <<credentials, maps, mu, spc, arg>>

Next ==
    \/ \E c \in Callers, s \in Sessions, k \in Schemes, v \in Creds : SetLookup(c, s, k, v)
    \/ \E c \in Callers : SetMake(c) \/ SetStore(c)
    \/ \E c \in Callers, s \in Sessions, k \in Schemes : Get(c, s, k)

Spec == Init /\ [][Next]_vars

-----------------------------------------------------------------------------
(* Properties *)

\* The credential each pair maps to: the one in the session's map, if any.
Stored == [p \in Sessions \X Schemes |->
             IF credentials[p[1]] = NoMap THEN NoCred ELSE maps[credentials[p[1]]][p[2]]]

\* Under concurrent Sets and Gets the store behaves as one map updated
\* atomically: a Set takes effect at its store, making a session's map
\* never loses a credential set before, and Get returns the credential
\* last set for its pair or ErrCredentialNotFound.
Contract == INSTANCE CredentialsContract WITH dict <- Stored

CredentialsContractHolds == Contract!Spec

=============================================================================
