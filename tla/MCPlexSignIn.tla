---------------------------- MODULE MCPlexSignIn ----------------------------
(* Instances of PlexSignIn for TLC. *)
EXTENDS PlexSignIn, TLC

Symmetric == Permutations(Pins) \cup Permutations(Requests)
=============================================================================
