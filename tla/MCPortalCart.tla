---------------------------- MODULE MCPortalCart ----------------------------
(***************************************************************************)
(* Small instances of PortalCart: two products, so that a line can be next *)
(* to another.                                                             *)
(***************************************************************************)
EXTENDS PortalCart, TLC

CONSTANTS u1, u2, c1, c2, c3, ball, cap

Symmetry == Permutations(Calls) \cup Permutations(Products)
=============================================================================
