--------------------------- MODULE PortalWorkflow ---------------------------
(***************************************************************************)
(* The customer portal and the order workflow together: PortalCart and     *)
(* OrderPipeline, each with its own variables, joined by the calls of      *)
(* POST api/Orders/checkout.  A call is the order it may create.           *)
(*                                                                         *)
(* A request of the portal is never refused with 400: its lines name       *)
(* products of the Order API, which deletes none, in positive numbers, and *)
(* Cart.razor asks for an address before it calls.                         *)
(***************************************************************************)
EXTENDS OrderLines

CONSTANTS
    Users, NoUser, Orders, NoOrder, Products, InitialStock,
    MaxAdds,  \* bound on the clicks on Add to Cart
    MaxFaults \* bound on the failures of the workflow

ASSUME UsersAssumption    == NoUser \notin Users
ASSUME OrdersAssumption   == NoOrder \notin Orders
ASSUME ProductsAssumption == IsFiniteSet(Products)
ASSUME StockAssumption    == InitialStock \in [Products -> Nat]
ASSUME BoundsAssumption   == MaxAdds \in Nat /\ MaxFaults \in Nat

VARIABLES
    cart, adding, calls, added, tally, \* of PortalCart
    checkout, items, status, stock, queue, worker, consumer, paying, sent,
    faults                             \* of OrderPipeline

portalVars   == <<cart, adding, calls, added, tally>>
pipelineVars == <<checkout, items, status, stock, queue, worker, consumer,
                  paying, sent, faults>>
vars == <<portalVars, pipelineVars>>

\* The body that a call carries.
Body(lines) == [email |-> "given", items |-> lines]

\* The bodies that name no product twice.
DistinctBodies ==
    {Body(lines) : lines \in
        {l \in UNION {[1 .. n -> [product : Products, qty : 1 .. MaxAdds]] :
                          n \in 1 .. Cardinality(Products)} : DistinctLines(l)}}

Pipeline == INSTANCE OrderPipeline WITH
    ProductIds <- Products, Requests <- DistinctBodies

\* The portal sees of an order that it exists, and that only by the answer.
Portal == INSTANCE PortalCart WITH
    Calls <- Orders, ordered <- {o \in Orders : status[o] # "Absent"}

Init == Pipeline!Init /\ Portal!Init

\* What the users do, and the end of a circuit or of its patience with a call.
Browse ==
    /\ UNCHANGED pipelineVars
    /\ \E u \in Users :
          \/ \E p \in Products : Portal!AddLookUp(u, p) \/ Portal!Remove(u, p)
          \/ Portal!AddToCart(u)
          \/ Portal!ClearCart(u)
          \/ \E o \in Orders : Portal!Checkout(u, o)
          \/ Portal!CircuitEnds(u)
          \/ \E o \in Orders : Portal!CallTimesOut(o)

\* A request reaches the Order API, maybe after the portal has given it up.
Receive(o) ==
    /\ calls[o].pc \in {"sent", "dropped"}
    /\ Pipeline!CheckoutCreate(o, Body(calls[o].lines))
    /\ UNCHANGED portalVars

\* Mutant: success is answered before the order is stored.
AnswerOk_Early(o) ==
    /\ calls[o].pc = "sent"
    /\ checkout[o] = "idle"
    /\ UNCHANGED pipelineVars
    /\ calls' = [calls EXCEPT ![o].pc = "placed"]
    /\ cart' = <<>>
    /\ UNCHANGED <<adding, added, tally>>

\* 200, once the request is through.
AnswerOk(o) ==
    /\ checkout[o] = "answered"
    /\ UNCHANGED pipelineVars
    /\ Portal!CheckoutSucceeds(o)

\* 500, after the order was created.
AnswerError(o) ==
    /\ checkout[o] = "failed"
    /\ UNCHANGED pipelineVars
    /\ Portal!CheckoutFails(o)

\* The rest of the workflow, which the portal takes no notice of.
Work(o) ==
    /\ \/ Pipeline!CheckoutPublish(o)
       \/ Pipeline!CheckoutFinish(o)
       \/ Pipeline!PaymentDecide(o)
    /\ UNCHANGED portalVars

Serve ==
    /\ \/ Pipeline!InventoryStep
       \/ Pipeline!PaymentReceive
       \/ Pipeline!Ship
       \/ \E q \in Pipeline!ApiQueues : Pipeline!ConsumerStep(q)
    /\ UNCHANGED portalVars

Fail ==
    /\ \/ \E o \in Orders : Pipeline!CheckoutThrows(o)
       \/ Pipeline!InventoryFails
       \/ Pipeline!PaymentFails
       \/ Pipeline!ShippingFails
       \/ \E q \in Pipeline!ApiQueues : Pipeline!ConsumerFails(q)
       \/ Pipeline!OrderApiCrash
       \/ Pipeline!BrokerRestart
    /\ UNCHANGED portalVars

Next ==
    \/ Browse
    \/ \E o \in Orders : Receive(o) \/ AnswerOk(o) \/ AnswerError(o) \/ Work(o)
    \/ Serve
    \/ Fail

Spec == Init /\ [][Next]_vars

-----------------------------------------------------------------------------
(***************************************************************************)
(* Properties.                                                             *)
(***************************************************************************)

\* The Order API keeps what PortalCart takes for granted of it: an order is only
\* created for a call that was made, at most one for each, and success is only
\* answered when there is one.
ImplementsPortal == Portal!Spec

\* The portal keeps, for one user, what the workflow needs to never oversell: all
\* that reaches the Order API are well-formed bodies that name no product twice,
\* whatever is clicked, answered, given up or tried again.
ImplementsPipeline == Pipeline!Spec

\* README.md:120, "Inventory Service validates stock": nothing is oversold.  With
\* two users it can be, by requests of the portal alone: both find no line of a
\* product in the cart they share and both add one.
StockNeverNegative == Pipeline!StockNeverNegative

\* Cart.razor:140, "Checkout failed": then there is no order.  Not so: publishing
\* may fail after the order was created.
FailedOrdersNothing ==
    \A o \in Orders : calls[o].pc = "refused" => status[o] = "Absent"
=============================================================================
