--------------------------- MODULE MCAuthSessions ---------------------------
(* AuthSessions on a small instance, with the ids interchangeable.         *)
EXTENDS AuthSessions, TLC

Symmetry == Permutations(Sessions) \cup Permutations(Tokens)
              \cup Permutations(Requests) \cup Permutations(Users)

=============================================================================
