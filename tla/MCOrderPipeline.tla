-------------------------- MODULE MCOrderPipeline --------------------------
(***************************************************************************)
(* Small instances of OrderPipeline: two products of which one is scarce,  *)
(* so that orders compete for it.                                          *)
(***************************************************************************)
EXTENDS OrderPipeline, TLC

CONSTANTS o1, o2, o3, ball, cap, ghost

Line(p, n) == [product |-> p, qty |-> n]

Body(lines) == [email |-> "given", items |-> lines]

MCStock == (ball :> 1) @@ (cap :> 2)

\* Requests with no product on two lines: one line, two lines, all the stock.
MCDistinct == {Body(<<Line(ball, 1)>>),
               Body(<<Line(cap, 1), Line(ball, 1)>>),
               Body(<<Line(cap, 2)>>)}

\* The bodies Checkout refuses, each for another reason.
MCInvalid == {Body(<<>>), Body(<<Line(cap, 0)>>), Body(<<Line(ghost, 1)>>),
              [email |-> "blank", items |-> <<Line(cap, 1)>>]}

MCRequests == MCDistinct \cup MCInvalid

\* A direct caller of the API may name a product twice.
MCRepeated == {Body(<<Line(cap, 1), Line(cap, 2)>>), Body(<<Line(ball, 1)>>)}

MCOneRequest == {Body(<<Line(cap, 1), Line(ball, 1)>>)}

Symmetry == Permutations(Orders)
=============================================================================
