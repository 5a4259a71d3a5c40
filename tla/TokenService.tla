---------------------------- MODULE TokenService ----------------------------
(***************************************************************************)
(* What apps/lib/api/auth.ts promises to the code that shows a session:    *)
(* each tab has at most one refresh under way, which resolves to a token   *)
(* or to nothing; bootstrap(), which every page load starts, ends with the *)
(* refresh it joined and with its outcome; a logout is left when it is     *)
(* answered and when it fails.  ClientTokens implements it, and WebSession *)
(* is built on it.                                                         *)
(***************************************************************************)

CONSTANTS
    Tab,     \* the tabs of the browser
    Token,   \* access tokens
    Null

VARIABLES
    refreshing,   \* tab -> whether refreshAccessToken is under way
    boot,         \* tab -> how far bootstrap() is
    leaving       \* tab -> whether a logout is under way

serviceVars == <<refreshing, boot, leaving>>

ServiceTypeOK ==
    /\ refreshing \in [Tab -> BOOLEAN]
    /\ boot \in [Tab -> {"no", "waiting", "in", "out"}]
    /\ leaving \in [Tab -> BOOLEAN]

ServiceInit ==
    /\ refreshing = [t \in Tab |-> FALSE]
    /\ boot = [t \in Tab |-> "no"]
    /\ leaving = [t \in Tab |-> FALSE]

Open(t) == boot[t] # "no"

(* The page is left. *)
Close(t) ==
    /\ refreshing' = [refreshing EXCEPT ![t] = FALSE]
    /\ boot' = [boot EXCEPT ![t] = "no"]
    /\ leaving' = [leaving EXCEPT ![t] = FALSE]

(* A page load; the bootstrap() of a page waits for a refresh. *)
Load(t) ==
    /\ refreshing' = [refreshing EXCEPT ![t] = TRUE]
    /\ boot' = [boot EXCEPT ![t] = "waiting"]
    /\ leaving' = [leaving EXCEPT ![t] = FALSE]

Refresh(t) ==
    /\ Open(t)
    /\ refreshing' = [refreshing EXCEPT ![t] = TRUE]
    /\ UNCHANGED <<boot, leaving>>

(* The refresh of t resolves to k, a token or Null. *)
Resolved(t, k) ==
    /\ refreshing[t]
    /\ refreshing' = [refreshing EXCEPT ![t] = FALSE]
    /\ boot' = [boot EXCEPT ![t] = IF @ = "waiting" THEN IF k # Null THEN "in" ELSE "out" ELSE @]
    /\ UNCHANGED leaving

StartLogout(t) ==
    /\ Open(t) /\ ~leaving[t]
    /\ leaving' = [leaving EXCEPT ![t] = TRUE]
    /\ UNCHANGED <<refreshing, boot>>

EndLogout(t) ==
    /\ leaving[t]
    /\ leaving' = [leaving EXCEPT ![t] = FALSE]
    /\ UNCHANGED <<refreshing, boot>>

ServiceNext ==
    \E t \in Tab :
        \/ Close(t) \/ Load(t) \/ Refresh(t) \/ StartLogout(t) \/ EndLogout(t)
        \/ \E k \in Token \cup {Null} : Resolved(t, k)

ServiceSpec == ServiceInit /\ [][ServiceNext]_serviceVars
=============================================================================
