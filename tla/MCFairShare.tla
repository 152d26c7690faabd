----------------------------- MODULE MCFairShare -----------------------------
(* Two users; a machine of two slots.                                       *)
EXTENDS FairShare

Symmetry == Permutations(User)
==============================================================================
