------------------------- MODULE CredentialsContract -------------------------
(***************************************************************************)
(* What a CredentialsService (a2aclient/auth.go) with a Set promises: a   *)
(* map from a (session, security scheme) pair to a credential, read and   *)
(* written by concurrent callers, each call taking effect in one step.    *)
(* Get of a pair never set is ErrCredentialNotFound (NoCred here).        *)
(***************************************************************************)
CONSTANTS Callers, Sessions, Schemes, Creds, NoCred

VARIABLES dict, result

vars == <<dict, result>>

Pairs == Sessions \X Schemes

Init ==
    /\ dict = [p \in Pairs |-> NoCred]
    /\ result = [c \in Callers |-> NoCred]

\* Set(sid, scheme, credential): the pair now maps to the credential.
Set(s, k, v) ==
    /\ dict' = [dict EXCEPT ![<<s, k>>] = v]
    /\ UNCHANGED result

\* Get(ctx, sid, scheme): the credential last set for the pair, or none.
Get(c, s, k) ==
    /\ result' = [result EXCEPT ![c] = dict[<<s, k>>]]
    /\ UNCHANGED dict

Next ==
    \/ \E s \in Sessions, k \in Schemes, v \in Creds : Set(s, k, v)
    \/ \E c \in Callers, s \in Sessions, k \in Schemes : Get(c, s, k)

Spec == Init /\ [][Next]_vars

=============================================================================
