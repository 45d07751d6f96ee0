---------------------------- MODULE MCKeyMatcher ----------------------------
(* An instance of KeyMatcher for TLC. *)
EXTENDS KeyMatcher, TLC

MCStages == <<1, 0>>

Symmetry == Permutations(Keys)
=============================================================================
