----------------------------- MODULE PortalCart -----------------------------
(***************************************************************************)
(* The cart of the customer portal and its checkout.  The portal is Blazor *)
(* Server: a user is a circuit, whose handlers run one at a time and give  *)
(* way at an await.  CartService is a singleton: there is one cart, and    *)
(* every circuit works on it.                                              *)
(*                                                                         *)
(* Circuits run on threads of their own.  The steps of the model are what  *)
(* one circuit does between an await and the next, but for AddToCart, whose*)
(* look-up and insertion are two.  With one user nothing overlaps and this *)
(* is all that can happen.  With several it is a part of it: List is not   *)
(* made for several threads, and nothing is claimed to hold then.          *)
(***************************************************************************)
EXTENDS OrderLines

CONSTANTS
    Users,    \* the circuits
    Products, \* what the product page offers
    Calls,    \* the calls of POST api/Orders/checkout there may be
    NoUser,   \* who made a call that was not made
    MaxAdds   \* bound on the clicks on Add to Cart

ASSUME UsersAssumption   == NoUser \notin Users
ASSUME MaxAddsAssumption == MaxAdds \in Nat

VARIABLES
    cart,    \* CartService._items
    adding,  \* the AddToCart a circuit has begun, <<>> if none
    calls,   \* the checkout calls: how far, who made it and what it asks for
    ordered, \* the calls for which the Order API has created an order
    added,   \* how often a user has added a product to the cart
    tally    \* what left the cart or joined it, and when: see Tally

vars == <<cart, adding, calls, ordered, added, tally>>

\* A line of the cart, and of a request.
CartItem == [product : Products, qty : Nat \ {0}]

\* taken: units the users took out of the cart.  late and early: units put in
\* or taken out while a call was open.  twice: a call was made while another
\* was open.
Tally == [taken : [Products -> Nat], late : [Products -> Nat],
          early : [Products -> Nat], twice : BOOLEAN]

Nothing == [p \in Products |-> 0]

Init ==
    /\ cart = <<>>
    /\ adding = [u \in Users |-> <<>>]
    /\ calls = [c \in Calls |-> [pc |-> "none", user |-> NoUser, lines |-> <<>>]]
    /\ ordered = {}
    /\ added = [u \in Users |-> Nothing]
    /\ tally = [taken |-> Nothing, late |-> Nothing, early |-> Nothing,
                twice |-> FALSE]

Open == {c \in Calls : calls[c].pc = "sent"}

\* A circuit between two handlers.
Free(u) == adding[u] = <<>>

\* FirstOrDefault: the place of the first line of p, 0 if there is none.
Find(p) ==
    IF Places(cart, p) = {} THEN 0
    ELSE CHOOSE i \in Places(cart, p) : \A j \in Places(cart, p) : i <= j

\* The line that an AddToCart has found is an object: once it has left the
\* list, its Quantity counts for nothing.
Forget(P) ==
    adding' = [u \in Users |->
                  IF adding[u] # <<>> /\ adding[u][1] \in P /\ adding[u][2] = "line"
                  THEN <<adding[u][1], "stray">> ELSE adding[u]]

\* The units of products P leave the cart by the hand of a user.
TakeOut(units) ==
    tally' = [tally EXCEPT
        !.taken = [p \in Products |-> @[p] + units[p]],
        !.early = [p \in Products |-> @[p] + IF Open = {} THEN 0 ELSE units[p]]]

-----------------------------------------------------------------------------
(***************************************************************************)
(* CartService.AddToCart, as Products.razor calls it: with quantity one.   *)
(***************************************************************************)

\* All the clicks on Add to Cart that are through.
Clicks ==
    SumFunction([u \in Users |-> SumFunction(added[u])])

\* Mutant: the line of a product that is there already is not looked for.
AddLookUp_Always(u, p) ==
    /\ Free(u)
    /\ Clicks < MaxAdds
    /\ adding' = [adding EXCEPT ![u] = <<p, "none">>]
    /\ UNCHANGED <<cart, calls, ordered, added, tally>>

AddLookUp(u, p) ==
    /\ Free(u)
    /\ Clicks < MaxAdds
    /\ adding' = [adding EXCEPT ![u] = <<p, IF Find(p) = 0 THEN "none" ELSE "line">>]
    /\ UNCHANGED <<cart, calls, ordered, added, tally>>

AddToCart(u) ==
    /\ ~Free(u)
    /\ LET p == adding[u][1] IN
       /\ cart' = CASE adding[u][2] = "none"  -> Append(cart, [product |-> p, qty |-> 1])
                    [] adding[u][2] = "line"  -> [cart EXCEPT ![Find(p)].qty = @ + 1]
                    [] adding[u][2] = "stray" -> cart
       /\ added' = [added EXCEPT ![u][p] = @ + 1]
       /\ tally' = [tally EXCEPT !.late[p] = @ + IF Open = {} THEN 0 ELSE 1]
    /\ adding' = [adding EXCEPT ![u] = <<>>]
    /\ UNCHANGED <<calls, ordered>>

-----------------------------------------------------------------------------
(***************************************************************************)
(* The cart page.                                                          *)
(***************************************************************************)

\* Mutant: one unit is taken, and the line stays with none.
Remove_OneUnit(u, p) ==
    /\ Free(u)
    /\ Find(p) # 0
    /\ cart' = [cart EXCEPT ![Find(p)].qty = @ - 1]
    /\ TakeOut([Nothing EXCEPT ![p] = 1])
    /\ UNCHANGED <<adding, calls, ordered, added>>

\* The line may be gone by now, taken out by another user: then nothing.
Remove(u, p) ==
    /\ Free(u)
    /\ Find(p) # 0
    /\ cart' = Without(cart, Find(p))
    /\ TakeOut([Nothing EXCEPT ![p] = cart[Find(p)].qty])
    /\ Forget({p})
    /\ UNCHANGED <<calls, ordered, added>>

ClearCart(u) ==
    /\ Free(u)
    /\ cart # <<>>
    /\ cart' = <<>>
    /\ TakeOut([p \in Products |-> Demand(cart, p)])
    /\ Forget(Products)
    /\ UNCHANGED <<calls, ordered, added>>

\* Mutant: the cart is emptied as soon as the call is made.
Checkout_ClearsAtOnce(u, c) ==
    /\ Free(u)
    /\ cart # <<>>
    /\ calls[c].pc = "none"
    /\ calls' = [calls EXCEPT ![c] = [pc |-> "sent", user |-> u, lines |-> cart]]
    /\ tally' = [tally EXCEPT !.twice = @ \/ Open # {}]
    /\ cart' = <<>>
    /\ UNCHANGED <<adding, ordered, added>>

\* With an empty cart, or no e-mail address, the handler returns with a message
\* and changes nothing.
Checkout(u, c) ==
    /\ Free(u)
    /\ cart # <<>>
    /\ calls[c].pc = "none"
    /\ calls' = [calls EXCEPT ![c] = [pc |-> "sent", user |-> u, lines |-> cart]]
    /\ tally' = [tally EXCEPT !.twice = @ \/ Open # {}]
    /\ UNCHANGED <<cart, adding, ordered, added>>

\* The Order API creates the order of a call, whether the portal still waits
\* for the answer or not.
Order(c) ==
    /\ calls[c].pc \in {"sent", "dropped"}
    /\ c \notin ordered
    /\ ordered' = ordered \cup {c}
    /\ UNCHANGED <<cart, adding, calls, added, tally>>

\* The rest of Checkout after a success: all that is in the cart by now is
\* cleared, be it of this call or not.
CheckoutSucceeds(c) ==
    /\ c \in Open /\ c \in ordered
    /\ Free(calls[c].user)
    /\ calls' = [calls EXCEPT ![c].pc = "placed"]
    /\ cart' = <<>>
    /\ Forget(Products)
    /\ UNCHANGED <<ordered, added, tally>>

\* Any other status code, also one that the Order API answers because it failed
\* after it had created the order.  The cart is kept.
CheckoutFails(c) ==
    /\ c \in Open
    /\ Free(calls[c].user)
    /\ calls' = [calls EXCEPT ![c].pc = "refused"]
    /\ UNCHANGED <<cart, adding, ordered, added, tally>>

\* No answer in time: PostAsJsonAsync throws a TaskCanceledException, which the page
\* takes for a handler that was cancelled.  The circuit lives, its other calls too,
\* and nothing is said.
CallTimesOut(c) ==
    /\ c \in Open
    /\ Free(calls[c].user)
    /\ calls' = [calls EXCEPT ![c].pc = "dropped"]
    /\ UNCHANGED <<cart, adding, ordered, added, tally>>

\* PostAsJsonAsync throws for want of a connection, which nobody catches, or the
\* user closes the page: the circuit ends, its HttpClient is disposed and with it
\* every call it waits for.  The cart outlives it, and the user is back with a new
\* circuit.
CircuitEnds(u) ==
    /\ Free(u)
    /\ \E c \in Open : calls[c].user = u
    /\ calls' = [c \in Calls |-> IF c \in Open /\ calls[c].user = u
                                 THEN [calls[c] EXCEPT !.pc = "dropped"]
                                 ELSE calls[c]]
    /\ UNCHANGED <<cart, adding, ordered, added, tally>>

Next ==
    \/ \E u \in Users :
          \/ \E p \in Products : AddLookUp(u, p) \/ Remove(u, p)
          \/ AddToCart(u)
          \/ ClearCart(u)
          \/ \E c \in Calls : Checkout(u, c)
          \/ CircuitEnds(u)
    \/ \E c \in Calls :
          \/ Order(c)
          \/ CheckoutSucceeds(c)
          \/ CheckoutFails(c)
          \/ CallTimesOut(c)

Spec == Init /\ [][Next]_vars

-----------------------------------------------------------------------------
(***************************************************************************)
(* Properties.                                                             *)
(***************************************************************************)

TypeOK ==
    /\ cart \in Seq(CartItem)
    /\ adding \in [Users -> {<<>>} \cup (Products \X {"none", "line", "stray"})]
    /\ calls \in [Calls -> [pc : {"none", "sent", "placed", "refused", "dropped"},
                            user : Users \cup {NoUser}, lines : Seq(CartItem)]]
    /\ ordered \subseteq Calls
    /\ added \in [Users -> [Products -> Nat]]
    /\ tally \in Tally

\* Whatever a user clicks and in whatever order the answers come, a request never
\* names a product on two lines: what the Inventory service's check relies on,
\* and the Order API does not verify.  (For one user: two circuits may both look
\* up a product before either adds it.)
RequestsDistinct == \A c \in Calls : DistinctLines(calls[c].lines)

\* Nothing failed in the eyes of the portal, and nobody clicked on Checkout while
\* a call was open.
Smooth ==
    /\ ~tally.twice
    /\ \A c \in Calls : /\ calls[c].pc # "dropped"
                        /\ calls[c].pc = "refused" => c \notin ordered

Placed == {c \in Calls : calls[c].pc = "placed"}

\* The units of p that were clicked into a cart, those on the orders placed, and what
\* these say of the units that are still in hand.
Clicked(p) == SumFunction([u \in Users |-> added[u][p]])

OnOrders(p) == SumFunctionOnSet([c \in Calls |-> Demand(calls[c].lines, p)], Placed)

Balanced(units, p) ==
    /\ Clicked(p) - tally.late[p] <= units + tally.taken[p] + OnOrders(p)
    /\ units + tally.taken[p] + OnOrders(p) <= Clicked(p) + tally.early[p]

\* While the portal runs smoothly, each unit clicked into the cart is in it, or was
\* taken out by the user, or is on exactly one order that the user was told of;
\* no unit is lost or ordered twice, but for those put in while a call was open
\* (cleared with the rest, Cart.razor:133) and those taken out while it was open
\* (ordered all the same).
UnitsAccounted == Smooth => \A p \in Products : Balanced(Demand(cart, p), p)

\* Cart.razor:15, "Review your selected items before completing your purchase":
\* what a user orders is what this user has selected.  Not so with two users: they
\* share the cart.
OwnItems ==
    \A c \in Calls : calls[c].pc # "none" =>
        \A p \in Products : Demand(calls[c].lines, p) <= added[calls[c].user][p]

-----------------------------------------------------------------------------
(***************************************************************************)
(* The inductive invariants behind the theorems of PortalCartProofs.       *)
(***************************************************************************)

\* The line that an AddToCart has found is there, or it knows that it is gone.
FoundStays ==
    \A u \in Users : ~Free(u) /\ adding[u][2] = "line" =>
        Places(cart, adding[u][1]) # {}

CartInv == TypeOK /\ FoundStays

\* With one user an AddToCart works on the cart that it has looked at.
LookedRight ==
    \A u \in Users : ~Free(u) =>
        /\ adding[u][2] = "none" => Places(cart, adding[u][1]) = {}
        /\ adding[u][2] # "stray"

CallersKnown == \A c \in Calls : calls[c].pc # "none" => calls[c].user \in Users

LinesInv == LookedRight /\ CallersKnown /\ DistinctLines(cart) /\ RequestsDistinct

\* While it runs smoothly there is one open call at most, and were its lines the
\* cart, that would be right as well.
AccountsInv ==
    /\ ~tally.twice => \A c, d \in Open : c = d
    /\ Smooth => \A p \in Products :
           /\ Balanced(Demand(cart, p), p)
           /\ \A c \in Open : Balanced(Demand(calls[c].lines, p), p)

\* With one user no line asks for more than was clicked, and no request for more
\* than there are clicks, nor for nothing.
LinesClicked(lines) ==
    \A u \in Users : \A i \in DOMAIN lines : lines[i].qty <= added[u][lines[i].product]

ClicksInv ==
    /\ Clicks <= MaxAdds
    /\ \A u \in Users : ~Free(u) => Clicks < MaxAdds
    /\ LinesClicked(cart)
    /\ \A c \in Calls : LinesClicked(calls[c].lines)

RequestsBounded ==
    \A c \in Calls : calls[c].pc # "none" =>
        /\ calls[c].lines # <<>>
        /\ \A i \in DOMAIN calls[c].lines : calls[c].lines[i].qty <= MaxAdds
=============================================================================
