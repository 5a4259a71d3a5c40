---- MODULE MCClientTokens ----
(* One browser tab with a request of its own, the periodic refresh and      *)
(* bootstrap() as the callers of a refresh; two logins.                     *)
EXTENDS ClientTokens
====
