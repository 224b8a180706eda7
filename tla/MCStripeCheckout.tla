-------------------------- MODULE MCStripeCheckout --------------------------
(***************************************************************************)
(* Small instances of StripeCheckout.                                      *)
(***************************************************************************)
EXTENDS StripeCheckout, TLC

\* Neither products nor payments are told apart.
Symmetry == Permutations(Products) \cup Permutations(Payments)
=============================================================================
