--------------------------- MODULE MCStreamBridge ---------------------------
(* StreamBridge on a small instance, with the ids interchangeable.         *)
EXTENDS StreamBridge, TLC

Symmetry == Permutations(Requests) \cup Permutations(Calls) \cup Permutations(Keys)

=============================================================================
