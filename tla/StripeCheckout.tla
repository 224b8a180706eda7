--------------------------- MODULE StripeCheckout ---------------------------
(***************************************************************************)
(* The checkout of the store (project SportsStore): the cart in the web    *)
(* session, OrderController, and Stripe, seen from one web session.        *)
(*                                                                         *)
(* A browser tab has one page or one request at a time; the tabs of the    *)
(* browser share the session.  A request works on a copy of the session,   *)
(* loaded when its Cart is created, and the session middleware writes the  *)
(* whole copy back when the request ends, if it was changed.  So requests  *)
(* of two tabs can overwrite each other's changes, also of other keys.     *)
(* One tab means one request under way at a time: a reload, a second click *)
(* or the Back button before the answer is there counts as a second tab.   *)
(*                                                                         *)
(* A checkout session of Stripe stays open until it is paid: who has left  *)
(* its page, or has cancelled, can go back to it and pay.                  *)
(*                                                                         *)
(* The field origin of a session and of a saved order is history: the      *)
(* payment that Stripe opened for the pending order.  The code keeps no    *)
(* such thing, and no action tests it.                                     *)
(*                                                                         *)
(* An operator named after another one and a slip, as in                   *)
(* SaveOrder_KeepsPending, is a mutant: what the code would do with that   *)
(* mistake in it.                                                          *)
(***************************************************************************)
EXTENDS Integers, Sequences, FiniteSets

CONSTANTS
    Tabs,         \* the tabs of the browser
    Products,     \* the products of the store
    Payments,     \* the checkout sessions Stripe may create
    NoPayment,    \* what a tab has that goes to no payment
    MaxQuantity,  \* bound on the quantity of a line
    MaxRevisits,  \* bound on the returns to an old success page
    MaxFaults,    \* bound on the number of failures
    MaxDeletions  \* bound on the products an administrator deletes

ASSUME PaymentsAssumption == NoPayment \notin Payments
ASSUME QuantityAssumption == MaxQuantity \in Nat \ {0}
ASSUME BoundsAssumption   ==
    MaxRevisits \in Nat /\ MaxFaults \in Nat /\ MaxDeletions \in Nat

VARIABLES
    session,  \* the keys Cart and PendingOrderJson of the web session
    tab,      \* what each tab shows or waits for
    stripe,   \* the checkout sessions at Stripe
    visited,  \* the payments whose page at Stripe the browser has shown
    saved,    \* the orders saved with each payment
    revisits, \* returns to an old success page so far
    faults,   \* failures so far
    catalogue \* the products there still are

vars == <<session, tab, stripe, visited, saved, revisits, faults, catalogue>>

-----------------------------------------------------------------------------

\* The lines of a cart or an order: how many of each product.
Lines == [Products -> 0 .. MaxQuantity]

NoLines == [p \in Products |-> 0]

\* A session without a pending order has none of its lines.
NewSession == [cart |-> NoLines, pending |-> NoLines, origin |-> NoPayment]

\* Session c when its pending order has been removed.
WithoutPending(c) == [c EXCEPT !.pending = NoLines, !.origin = NoPayment]

\* A tab that shows a page of the store.
Browsing == [page |-> "store", next |-> "store", payment |-> NoPayment,
             copy |-> NewSession]

Init ==
    /\ session = NewSession
    /\ tab = [t \in Tabs |-> Browsing]
    /\ stripe = [s \in Payments |-> [state |-> "unused", lines |-> NoLines]]
    /\ visited = {}
    /\ saved = [s \in Payments |-> <<>>]
    /\ revisits = 0
    /\ faults = 0
    /\ catalogue = Products

\* The request of t is done with copy c of the session and sends t to page.
Respond(t, c, page) ==
    tab' = [tab EXCEPT ![t].page = "ending", ![t].next = page, ![t].copy = c]

\* t shows page; the address of a page of Stripe, or of success, names a payment.
GoTo(t, page) ==
    LET payment == IF page \in {"stripe", "success"} THEN tab[t].payment
                                                    ELSE NoPayment
    IN  tab' = [tab EXCEPT ![t] = [Browsing EXCEPT !.page = page,
                                                   !.payment = payment]]

\* The middleware stores the copy; only then does the browser see the response.
EndRequest(t) ==
    /\ tab[t].page = "ending"
    /\ session' = tab[t].copy
    /\ GoTo(t, tab[t].next)
    /\ visited' = visited \cup
                   {s \in Payments : tab[t].next = "stripe" /\ tab[t].payment = s}
    /\ UNCHANGED <<stripe, saved, revisits, faults, catalogue>>

-----------------------------------------------------------------------------
(***************************************************************************)
(* The cart page.                                                          *)
(***************************************************************************)

\* The page may still show a product that is gone: then nothing is added.
AddItem(t, p) ==
    /\ tab[t].page = "store"
    /\ p \in catalogue
    /\ session.cart[p] < MaxQuantity
    /\ Respond(t, [session EXCEPT !.cart[p] = @ + 1], "store")
    /\ UNCHANGED <<session, stripe, visited, saved, revisits, faults, catalogue>>

\* Mutant: one unit is taken off, whatever the line holds.
RemoveLine_OneUnit(t, p) ==
    /\ tab[t].page = "store"
    /\ Respond(t, [session EXCEPT !.cart[p] = @ - 1], "store")
    /\ UNCHANGED <<session, stripe, visited, saved, revisits, faults, catalogue>>

RemoveLine(t, p) ==
    /\ tab[t].page = "store"
    /\ session.cart[p] > 0
    /\ Respond(t, [session EXCEPT !.cart[p] = 0], "store")
    /\ UNCHANGED <<session, stripe, visited, saved, revisits, faults, catalogue>>

-----------------------------------------------------------------------------
(***************************************************************************)
(* OrderController.  (An empty cart or an invalid form changes nothing.)   *)
(***************************************************************************)

\* The pending order is the cart; then Stripe is awaited.
Checkout(t) ==
    /\ tab[t].page = "store"
    /\ session.cart # NoLines
    /\ tab' = [tab EXCEPT ![t].page = "creating",
                          ![t].copy = [session EXCEPT !.pending = session.cart,
                                                      !.origin = NoPayment]]
    /\ UNCHANGED <<session, stripe, visited, saved, revisits, faults, catalogue>>

\* Mutant: the cart is read again after the await.
CreateCheckoutUrl_CartNow(t, s) ==
    /\ tab[t].page = "creating"
    /\ stripe[s].state = "unused"
    /\ stripe' = [stripe EXCEPT ![s] = [state |-> "open", lines |-> session.cart]]
    /\ tab' = [tab EXCEPT ![t].page = "ending", ![t].next = "stripe",
                          ![t].payment = s, ![t].copy.origin = s]
    /\ UNCHANGED <<session, visited, saved, revisits, faults, catalogue>>

\* Stripe prices the cart of the request.
CreateCheckoutUrl(t, s) ==
    /\ tab[t].page = "creating"
    /\ stripe[s].state = "unused"
    /\ stripe' = [stripe EXCEPT ![s] = [state |-> "open",
                                        lines |-> tab[t].copy.cart]]
    /\ tab' = [tab EXCEPT ![t].page = "ending", ![t].next = "stripe",
                          ![t].payment = s, ![t].copy.origin = s]
    /\ UNCHANGED <<session, visited, saved, revisits, faults, catalogue>>

\* Mutant: an empty cart is refused here as well, as at the checkout.
PaymentSuccess_ChecksCart(t) ==
    /\ tab[t].page = "success"
    /\ IF session.pending = NoLines \/ session.cart = NoLines
       THEN GoTo(t, "failed")
       ELSE tab' = [tab EXCEPT ![t].page = "verifying", ![t].copy = session]
    /\ UNCHANGED <<session, stripe, visited, saved, revisits, faults, catalogue>>

\* PaymentSuccess: no pending order, no order saved.  Otherwise Stripe is asked.
PaymentSuccess(t) ==
    /\ tab[t].page = "success"
    /\ IF session.pending = NoLines THEN GoTo(t, "failed")
       ELSE tab' = [tab EXCEPT ![t].page = "verifying", ![t].copy = session]
    /\ UNCHANGED <<session, stripe, visited, saved, revisits, faults, catalogue>>

\* Every line of an order refers to a row of table Products.
Storable(lines) == \A p \in Products : lines[p] > 0 => p \in catalogue

\* The pending order of the request, as it is saved.
Pending(t) == [lines |-> tab[t].copy.pending, origin |-> tab[t].copy.origin]

\* Mutant: only the cart is cleared.
SaveOrder_KeepsPending(t) ==
    /\ tab[t].page = "verifying"
    /\ stripe[tab[t].payment].state = "paid"
    /\ Storable(tab[t].copy.pending)
    /\ saved' = [saved EXCEPT ![tab[t].payment] = Append(@, Pending(t))]
    /\ Respond(t, [tab[t].copy EXCEPT !.cart = NoLines], "completed")
    /\ UNCHANGED <<session, stripe, visited, revisits, faults, catalogue>>

\* The pending order is saved with the payment, then cart and pending order go.
SaveOrder(t) ==
    /\ tab[t].page = "verifying"
    /\ stripe[tab[t].payment].state = "paid"
    /\ Storable(tab[t].copy.pending)
    /\ saved' = [saved EXCEPT ![tab[t].payment] = Append(@, Pending(t))]
    /\ Respond(t, NewSession, "completed")
    /\ UNCHANGED <<session, stripe, visited, revisits, faults, catalogue>>

\* The order is paid and cannot be saved: the customer is told that the payment
\* has failed.
SaveThrows(t) ==
    /\ tab[t].page = "verifying"
    /\ stripe[tab[t].payment].state = "paid"
    /\ ~Storable(tab[t].copy.pending)
    /\ GoTo(t, "failed")
    /\ UNCHANGED <<session, stripe, visited, saved, revisits, faults, catalogue>>

NotPaid(t) ==
    /\ tab[t].page = "verifying"
    /\ stripe[tab[t].payment].state # "paid"
    /\ GoTo(t, "failed")
    /\ UNCHANGED <<session, stripe, visited, saved, revisits, faults, catalogue>>

\* PaymentFailed and PaymentCancelled: the pending order is dropped.
DropPending(t) ==
    /\ tab[t].page \in {"failed", "cancelled"}
    /\ IF session.pending = NoLines THEN GoTo(t, "store")
       ELSE Respond(t, WithoutPending(session), "store")
    /\ UNCHANGED <<session, stripe, visited, saved, revisits, faults, catalogue>>

-----------------------------------------------------------------------------
(***************************************************************************)
(* The customer and Stripe.                                                *)
(***************************************************************************)

\* Some methods of payment are confirmed only after the customer has returned.
Pay(t) ==
    /\ tab[t].page = "stripe"
    /\ stripe[tab[t].payment].state = "open"
    /\ \E state \in {"paid", "processing"} :
           stripe' = [stripe EXCEPT ![tab[t].payment].state = state]
    /\ GoTo(t, "success")
    /\ UNCHANGED <<session, visited, saved, revisits, faults, catalogue>>

Settle(s) ==
    /\ stripe[s].state = "processing"
    /\ stripe' = [stripe EXCEPT ![s].state = "paid"]
    /\ UNCHANGED <<session, tab, visited, saved, revisits, faults, catalogue>>

\* The customer cancels, or leaves Stripe without telling it, or goes on from
\* the page of a completed order.
Leave(t) ==
    /\ \/ tab[t].page = "stripe" /\ GoTo(t, "cancelled")
       \/ tab[t].page \in {"stripe", "completed"} /\ GoTo(t, "store")
    /\ UNCHANGED <<session, stripe, visited, saved, revisits, faults, catalogue>>

\* Back to a page of Stripe that is still open, or to one of PaymentFailed and
\* PaymentCancelled, which drops the pending order of today.
GoBack(t) ==
    /\ tab[t].page = "store"
    /\ \/ \E s \in visited :
              /\ stripe[s].state = "open"
              /\ tab' = [tab EXCEPT ![t].page = "stripe", ![t].payment = s]
       \/ visited # {} /\ GoTo(t, "cancelled")
    /\ UNCHANGED <<session, stripe, visited, saved, revisits, faults, catalogue>>

\* Reload, history or a second tab: a success page is asked for once more.
Revisit(t, s) ==
    /\ revisits < MaxRevisits
    /\ tab[t].page = "store"
    /\ stripe[s].state \in {"paid", "processing"}
    /\ tab' = [tab EXCEPT ![t].page = "success", ![t].payment = s]
    /\ revisits' = revisits + 1
    /\ UNCHANGED <<session, stripe, visited, saved, faults, catalogue>>

\* An administrator deletes a product: the lines of saved orders go with it, the
\* carts and the pending orders keep theirs.
DeleteProduct(p) ==
    /\ p \in catalogue
    /\ Cardinality(Products \ catalogue) < MaxDeletions
    /\ catalogue' = catalogue \ {p}
    /\ saved' = [s \in Payments |-> [i \in DOMAIN saved[s] |->
                    [saved[s][i] EXCEPT !.lines[p] = 0]]]
    /\ UNCHANGED <<session, tab, stripe, visited, revisits, faults>>

-----------------------------------------------------------------------------
(***************************************************************************)
(* Failures.                                                               *)
(***************************************************************************)

Fault == faults < MaxFaults /\ faults' = faults + 1

\* Stripe creates no session; the pending order is stored all the same, until
\* the page it redirects to drops it.
CreateFails(t) ==
    /\ Fault
    /\ tab[t].page = "creating"
    /\ Respond(t, tab[t].copy, "failed")
    /\ UNCHANGED <<session, stripe, visited, saved, revisits, catalogue>>

\* Stripe does not answer, or the order cannot be saved.
VerifyFails(t) ==
    /\ Fault
    /\ tab[t].page = "verifying"
    /\ GoTo(t, "failed")
    /\ UNCHANGED <<session, stripe, visited, saved, revisits, catalogue>>

\* The session is kept in memory, for half an hour.
SessionExpires ==
    /\ Fault
    /\ session' = NewSession
    /\ UNCHANGED <<tab, stripe, visited, saved, revisits, catalogue>>

\* The process is started again: the requests under way are gone too.
ServerRestarts ==
    /\ Fault
    /\ session' = NewSession
    /\ tab' = [t \in Tabs |->
                  IF tab[t].page \in {"ending", "creating", "verifying"}
                  THEN Browsing ELSE tab[t]]
    /\ UNCHANGED <<stripe, visited, saved, revisits, catalogue>>

-----------------------------------------------------------------------------

Server(t) ==
    \/ EndRequest(t)
    \/ \E s \in Payments : CreateCheckoutUrl(t, s)
    \/ PaymentSuccess(t)
    \/ SaveOrder(t)
    \/ SaveThrows(t)
    \/ NotPaid(t)
    \/ DropPending(t)

Next ==
    \/ \E t \in Tabs :
          \/ \E p \in Products : AddItem(t, p) \/ RemoveLine(t, p)
          \/ \E s \in Payments : Revisit(t, s)
          \/ Checkout(t)
          \/ Server(t)
          \/ Pay(t)
          \/ Leave(t)
          \/ GoBack(t)
          \/ CreateFails(t)
          \/ VerifyFails(t)
    \/ \E s \in Payments : Settle(s)
    \/ \E p \in Products : DeleteProduct(p)
    \/ SessionExpires
    \/ ServerRestarts

Spec == Init /\ [][Next]_vars

\* A request that has arrived is served, and a browser follows a redirection.
\* A customer need not do anything.
FairSpec == Spec /\ \A t \in Tabs : WF_vars(Server(t))

-----------------------------------------------------------------------------
(***************************************************************************)
(* Properties.                                                             *)
(***************************************************************************)

Sessions == [cart : Lines, pending : Lines, origin : Payments \cup {NoPayment}]

Orders == [lines : Lines, origin : Payments \cup {NoPayment}]

TabStates == [page : {"store", "ending", "creating", "stripe", "success",
                      "verifying", "failed", "cancelled", "completed"},
              next : {"store", "stripe", "failed", "completed"},
              payment : Payments \cup {NoPayment},
              copy : Sessions]

TypeOK ==
    /\ session \in Sessions
    /\ tab \in [Tabs -> TabStates]
    /\ stripe \in [Payments -> [state : {"unused", "open", "processing", "paid"},
                                lines : Lines]]
    /\ visited \subseteq Payments
    /\ saved \in [Payments -> Seq(Orders)]
    /\ revisits \in 0 .. MaxRevisits
    /\ faults \in 0 .. MaxFaults
    /\ catalogue \subseteq Products

\* What is left of an order when products have been deleted.
Kept(lines) == [p \in Products |-> IF p \in catalogue THEN lines[p] ELSE 0]

\* Each checkout becomes one order at most: neither a return to the pages of an
\* old payment, nor what fails or is deleted, makes two orders of one pending
\* order.  It holds for a customer with one tab.
OrderedOnce ==
    \A r, s \in Payments : \A i \in DOMAIN saved[r], j \in DOMAIN saved[s] :
        saved[r][i].origin = saved[s][j].origin => r = s /\ i = j

\* Nothing is ordered that Stripe has not priced as one cart: no order mixes the
\* lines of two, whatever requests of the session overwrite each other.
OrderWasPriced ==
    faults = 0 =>
        \A s \in Payments : \A i \in DOMAIN saved[s] :
            \E r \in Payments : stripe[r].state # "unused"
                                /\ Kept(stripe[r].lines) = saved[s][i].lines

\* Unless something fails, or an administrator has deleted what was ordered, who
\* returns with a confirmed payment gets the order that is pending for it, whatever
\* has become of the cart, and whether or not the page of Stripe was left before.
PaidIsSaved ==
    \A t \in Tabs : \A s \in Payments :
        (/\ tab[t].page = "success" /\ tab[t].payment = s
         /\ stripe[s].state = "paid" /\ session.origin = s)
            ~> (\/ \E i \in DOMAIN saved[s] : saved[s][i].origin = s
                \/ faults > 0
                \/ ~Storable(stripe[s].lines))

\* The comment at OrderController.cs:184, "Save order only after payment
\* confirmation": what is saved with a payment is what was paid with it, once.
\* Not so: the success page saves the order that is pending, whichever it is.
OrderPaid ==
    \A s \in Payments :
        /\ saved[s] = <<>> \/ /\ Len(saved[s]) = 1
                               /\ saved[s][1].lines = Kept(stripe[s].lines)
        /\ saved[s] # <<>> => stripe[s].state = "paid"

\* What a completed order takes out of the cart is what was ordered.  Not so: an
\* item added while the page of Stripe was left goes too.
ClearedAsOrdered ==
    [][\A t \in Tabs :
          EndRequest(t) /\ tab[t].next = "completed" /\ session.cart # NoLines
          => Kept(session.cart) =
                 saved[tab[t].payment][Len(saved[tab[t].payment])].lines]_vars

\* PaymentCancelled.cshtml:6, "Your payment was cancelled. You can go back and try
\* again.": what a customer pays can still become an order.  Not so: the payment is
\* open, but its order is not pending any more.
PaidIsPending ==
    [][\A t \in Tabs : Pay(t) => session.pending # NoLines]_vars

\* PaymentFailed.cshtml:6, "We couldn't confirm your payment": who is sent to that
\* page on the return from Stripe has not paid.  Not so: whatever goes wrong after
\* the confirmation ends there too.
ConfirmedIsNotFailed ==
    [][\A t \in Tabs :
          tab[t].page = "verifying" /\ tab'[t].page = "failed"
          => stripe[tab[t].payment].state # "paid"]_vars

-----------------------------------------------------------------------------
(***************************************************************************)
(* Inductive invariants: what the properties above rest on.                *)
(***************************************************************************)

\* Stripe has priced lines as a cart.
Priced(lines) ==
    \E r \in Payments : stripe[r].state # "unused" /\ stripe[r].lines = lines

\* A pending order has been priced before it is stored in the session, and only
\* what was stored is ever saved.
PendingWasPriced ==
    faults = 0 =>
        /\ session.pending # NoLines => Priced(session.pending)
        /\ \A t \in Tabs :
              LET copy == tab[t].copy
              IN  /\ tab[t].page = "creating" => copy.pending = copy.cart
                  /\ tab[t].page = "ending" /\ copy.pending # NoLines =>
                         Priced(copy.pending)
                  /\ tab[t].page = "verifying" => Priced(copy.pending)

PricedInv == TypeOK /\ PendingWasPriced /\ OrderWasPriced

\* Something saved is the order that was pending for s.
Ordered(s) == \E r \in Payments : \E i \in DOMAIN saved[r] : saved[r][i].origin = s

\* The pending order of c may be saved: it has a payment of its own and is not
\* ordered yet.
Fresh(c) ==
    c.pending # NoLines =>
        /\ c.origin \in Payments /\ stripe[c.origin].state # "unused"
        /\ ~Ordered(c.origin)

\* The one tab of a customer: whatever pending order it may still save is fresh.
\* What is left of a failed checkout is not, and is dropped before anything else.
FreshPending(t) ==
    LET page == tab[t].page
        copy == tab[t].copy
    IN  /\ page \in {"store", "stripe", "success", "cancelled", "completed"} =>
               Fresh(session)
        /\ page = "verifying" => copy.pending # NoLines /\ Fresh(copy)
        /\ page = "ending" /\ tab[t].next # "failed" => Fresh(copy)

\* Orders come from checkouts that Stripe knows.
OriginsUsed ==
    \A s \in Payments : \A i \in DOMAIN saved[s] :
        /\ saved[s][i].origin \in Payments
        /\ stripe[saved[s][i].origin].state # "unused"

OnceInv == TypeOK /\ (\A t \in Tabs : FreshPending(t)) /\ OriginsUsed /\ OrderedOnce
=============================================================================
