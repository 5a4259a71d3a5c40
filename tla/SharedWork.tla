----------------------------- MODULE SharedWork -----------------------------
(***************************************************************************)
(* What a single-flight group promises its clients: per key at most one    *)
(* piece of work at a time, and every client that asked while it was busy  *)
(* gets that work's result or gives up by itself.  A result stays listed   *)
(* for late clients until it is unlisted.                                  *)
(***************************************************************************)
CONSTANTS
    Clients, Keys,
    Results,    \* what a piece of work may produce
    GaveUp,     \* what a client that stops waiting gets
    Null

VARIABLES
    busy,       \* the keys whose work is being done
    listed,     \* per key, the result still offered to late clients
    want,       \* per client, the key whose work it waits for
    got         \* per client, the result it has

vars == <<busy, listed, want, got>>

Init ==
    /\ busy = {}
    /\ listed = [k \in Keys |-> Null]
    /\ want = [c \in Clients |-> Null]
    /\ got = [c \in Clients |-> Null]

Unengaged(c) == want[c] = Null /\ got[c] = Null

Start(c, k) ==
    /\ Unengaged(c)
    /\ k \notin busy /\ listed[k] = Null
    /\ busy' = busy \cup {k}
    /\ want' = [want EXCEPT ![c] = k]
    /\ UNCHANGED <<listed, got>>

Join(c, k) ==
    /\ Unengaged(c)
    /\ k \in busy
    /\ want' = [want EXCEPT ![c] = k]
    /\ UNCHANGED <<busy, listed, got>>

JoinLate(c, k) ==
    /\ Unengaged(c)
    /\ listed[k] # Null
    /\ got' = [got EXCEPT ![c] = listed[k]]
    /\ UNCHANGED <<busy, listed, want>>

Finish(k, x) ==
    /\ k \in busy
    /\ busy' = busy \ {k}
    /\ listed' = [listed EXCEPT ![k] = x]
    /\ want' = [c \in Clients |-> IF want[c] = k THEN Null ELSE want[c]]
    /\ got' = [c \in Clients |-> IF want[c] = k THEN x ELSE got[c]]

Unlist(k) ==
    /\ listed[k] # Null
    /\ listed' = [listed EXCEPT ![k] = Null]
    /\ UNCHANGED <<busy, want, got>>

GiveUp(c) ==
    /\ ~Unengaged(c)
    /\ want' = [want EXCEPT ![c] = Null]
    /\ got' = [got EXCEPT ![c] = GaveUp]
    /\ UNCHANGED <<busy, listed>>

Return(c) ==
    /\ got[c] # Null
    /\ got' = [got EXCEPT ![c] = Null]
    /\ UNCHANGED <<busy, listed, want>>

Next ==
    \/ \E c \in Clients, k \in Keys : Start(c, k) \/ Join(c, k) \/ JoinLate(c, k)
    \/ \E k \in Keys : Unlist(k) \/ \E x \in Results : Finish(k, x)
    \/ \E c \in Clients : GiveUp(c) \/ Return(c)

Spec == Init /\ [][Next]_vars

=============================================================================
