---------------------------- MODULE MCSessions ----------------------------
(* TLC instances of Sessions. *)
EXTENDS Sessions, TLC

Symmetry == Permutations(Handlers) \cup Permutations(Tokens) \cup Permutations(Hashes)
=============================================================================
