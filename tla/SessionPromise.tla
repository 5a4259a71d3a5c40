--------------------------- MODULE SessionPromise ---------------------------
(***************************************************************************)
(* What the refresh flow promises about revocation, with tokens and        *)
(* database statements left out.  A rotation is admitted while its session *)
(* is active and holds on to that answer until it finishes; finishing one  *)
(* makes the session active again.  So a revocation is final once the      *)
(* rotations admitted before it are over, and only then.                   *)
(***************************************************************************)
CONSTANTS Sessions, Requests, Null

VARIABLES
    open,       \* the sessions that were created
    revoked,    \* the sessions that are revoked
    admitted    \* per request, the session its rotation was admitted for

vars == <<open, revoked, admitted>>

Init ==
    /\ open = {}
    /\ revoked = {}
    /\ admitted = [r \in Requests |-> Null]

Open(s) ==
    /\ s \notin open
    /\ open' = open \cup {s}
    /\ UNCHANGED <<revoked, admitted>>

Revoke(S) ==
    /\ S \subseteq open
    /\ revoked' = revoked \cup S
    /\ UNCHANGED <<open, admitted>>

Admit(r, s) ==
    /\ admitted[r] = Null
    /\ s \in open \ revoked
    /\ admitted' = [admitted EXCEPT ![r] = s]
    /\ UNCHANGED <<open, revoked>>

Rotate(r) ==
    /\ admitted[r] # Null
    /\ revoked' = revoked \ {admitted[r]}
    /\ admitted' = [admitted EXCEPT ![r] = Null]
    /\ UNCHANGED open

Abandon(r) ==
    /\ admitted[r] # Null
    /\ admitted' = [admitted EXCEPT ![r] = Null]
    /\ UNCHANGED <<open, revoked>>

Next ==
    \/ \E s \in Sessions : Open(s)
    \/ \E S \in SUBSET Sessions : Revoke(S)
    \/ \E r \in Requests, s \in Sessions : Admit(r, s)
    \/ \E r \in Requests : Rotate(r) \/ Abandon(r)

Spec == Init /\ [][Next]_vars

=============================================================================
