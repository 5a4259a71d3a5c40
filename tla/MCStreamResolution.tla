------------------------- MODULE MCStreamResolution -------------------------
(* StreamResolution on a small instance, with the ids interchangeable.     *)
EXTENDS StreamResolution, TLC

Symmetry == Permutations(Requests) \cup Permutations(Calls) \cup Permutations(Keys)

=============================================================================
