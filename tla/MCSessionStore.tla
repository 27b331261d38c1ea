---------------------------- MODULE MCSessionStore ----------------------------
(***************************************************************************)
(* SessionStore for TLC.                                                   *)
(***************************************************************************)
EXTENDS SessionStore, TLC

Symmetry == Permutations(Characters)
=============================================================================
