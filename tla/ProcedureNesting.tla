--------------------------- MODULE ProcedureNesting ---------------------------
(***************************************************************************)
(* What the interrupt stack of a Battle promises: the procedures in        *)
(* progress are nested.  One starts on its own or inside the innermost     *)
(* one, which waits for it; only the innermost one ends, and it ends once. *)
(***************************************************************************)
EXTENDS Naturals, Sequences

VARIABLES
  open,       \* the procedures in progress, the outermost first
  ended,      \* the procedures that have resolved
  started     \* procedures are numbered in the order they start

Init ==
  /\ open = <<>>
  /\ ended = {}
  /\ started = 0

Start ==
  /\ started' = started + 1
  /\ open' = Append(open, started')
  /\ UNCHANGED ended

End ==
  /\ open # <<>>
  /\ ended' = ended \cup {open[Len(open)]}
  /\ open' = SubSeq(open, 1, Len(open) - 1)
  /\ UNCHANGED started

Next == Start \/ End

Spec == Init /\ [][Next]_<<open, ended, started>>
=============================================================================
