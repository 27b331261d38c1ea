---------------------- MODULE MCRecoverablePlaySessions ----------------------
(***************************************************************************)
(* Instances of RecoverablePlaySessions for TLC: who calls what, on which  *)
(* registry, and which rows the database file already holds.               *)
(***************************************************************************)
EXTENDS RecoverablePlaySessions, TLC

CONSTANTS h1, h2, p1, p2, g1, local, r1, r2, A, B

Symmetry == Permutations(Requests)

Call(kind, h, caller, r) ==
  [kind |-> kind, handle |-> h, caller |-> caller, principal |-> caller,
   registry |-> r]

SaveCall(h, grant, principal, r) ==
  [kind |-> "save", handle |-> h, caller |-> grant, principal |-> principal,
   registry |-> r]

\* Two registries in two processes, or, as on the HTTP host, in one.
TwoProcesses == r1 :> A @@ r2 :> B
OneProcess   == r1 :> A @@ r2 :> A

\* A guest row of an older release, and a saved session of p1.
GuestRow     == h1 :> g1 @@ h2 :> NoRow
GuestAndSaved == h1 :> g1 @@ h2 :> p1
SavedRow     == h1 :> p1 @@ h2 :> NoRow

\* A guest and two principals over one guest row.
ClaimCalls ==
  {Call("run", h1, g1, r1), Call("run", h1, p1, r2),
   SaveCall(h1, g1, p1, r1), SaveCall(h1, g1, p2, r2),
   Call("delete", h1, p1, r2), Call("delete", h2, p1, r2)}

\* The owner of a saved session on two registries, with clean-up running.
OwnerCalls ==
  {Call("run", h1, p1, r1), Call("run", h1, p1, r2),
   Call("delete", h1, p1, r2), Call("list", h1, p2, r2),
   Call("create", h1, p2, r1), Call("run", h1, local, r1),
   Call("create", h1, local, r1)}

\* Two POSTs of one conversation, and another device of the same owner.
HttpCalls ==
  {Call("run", h2, p1, r1), Call("run", h2, p1, r2),
   Call("delete", h2, p1, r2), SaveCall(h1, g1, p1, r1)}
=============================================================================
