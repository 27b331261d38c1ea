-------------------------- MODULE MCBattleInterrupts --------------------------
(***************************************************************************)
(* BattleInterrupts for TLC.                                               *)
(***************************************************************************)
EXTENDS BattleInterrupts, TLC

Symmetry == Permutations(Creatures)
=============================================================================
