-------------------------- MODULE MCPortalWorkflow --------------------------
(***************************************************************************)
(* Small instances of PortalWorkflow: one cap more than balls.             *)
(***************************************************************************)
EXTENDS PortalWorkflow, TLC

CONSTANTS u1, u2, o1, o2, ball, cap

MCStock == (ball :> 1) @@ (cap :> 2)

\* One product, of which a cart can hold more than there is.
MCCaps == cap :> 2

Symmetry == Permutations(Orders)
=============================================================================
