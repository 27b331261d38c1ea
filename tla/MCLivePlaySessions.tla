-------------------------- MODULE MCLivePlaySessions --------------------------
(***************************************************************************)
(* LivePlaySessions for TLC.                                               *)
(***************************************************************************)
EXTENDS LivePlaySessions

\* Requests are numbered in the order they are issued.  Their names mean
\* nothing to the registry, and no call that is issued is ever held back, so
\* this loses no behaviour but renamings of those that stay.
InOrder ==
  \A q \in Requests :
    phase[q] = "idle" /\ phase'[q] # "idle" =>
      \A p \in 1 .. q - 1 : phase[p] # "idle"

=============================================================================
