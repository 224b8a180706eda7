----------------------------- MODULE OrderLines -----------------------------
(***************************************************************************)
(* The lines of a cart, of a request and of an order, as the customer      *)
(* portal, the Order API and the Inventory service have them: a sequence of*)
(* records with a product and a quantity.                                  *)
(***************************************************************************)
EXTENDS Integers, Sequences, FiniteSetsExt, Functions

\* Where product p is named.
Places(lines, p) == {i \in DOMAIN lines : lines[i].product = p}

Quantities(lines) == [i \in DOMAIN lines |-> lines[i].qty]

\* How many of product p the lines ask for in all.
Demand(lines, p) == SumFunctionOnSet(Quantities(lines), Places(lines, p))

\* The lines but for the one at place i.
Without(lines, i) == SubSeq(lines, 1, i - 1) \o SubSeq(lines, i + 1, Len(lines))

\* No product on two lines: AddToCart of the customer portal aims at this, the
\* checkout endpoint does not ask for it.
DistinctLines(lines) ==
    \A i, j \in DOMAIN lines : lines[i].product = lines[j].product => i = j
=============================================================================
