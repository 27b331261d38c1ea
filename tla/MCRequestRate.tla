---------------------------- MODULE MCRequestRate ----------------------------
(***************************************************************************)
(* RequestRate for TLC: two keys and two processes, each interchangeable.  *)
(***************************************************************************)
EXTENDS RequestRate, TLC

Symmetry == Permutations(Processes) \cup Permutations(Keys)
=============================================================================
