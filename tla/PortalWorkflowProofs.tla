------------------------ MODULE PortalWorkflowProofs ------------------------
(***************************************************************************)
(* The customer portal and the order workflow, each shown to be what the   *)
(* other takes it for, and what then holds of both.                        *)
(***************************************************************************)
EXTENDS PortalWorkflow, FiniteSetTheorems, SequenceTheorems, TLAPS

-----------------------------------------------------------------------------
(***************************************************************************)
(* The workflow as the portal sees it: an order that exists or does not.   *)
(***************************************************************************)

CheckoutStates == {"idle", "rejected", "created", "published", "answered", "failed"}

Statuses == DOMAIN Pipeline!OrderStatus \cup {"Absent"}

\* No order exists before its request was received.
RowsInv ==
    /\ checkout \in [Orders -> CheckoutStates]
    /\ status \in [Orders -> Statuses]
    /\ \A o \in Orders : checkout[o] = "idle" => status[o] = "Absent"

\* The orders that the portal sees.
Existing == {o \in Orders : status[o] # "Absent"}

\* An update of a status neither makes an order nor deletes one.
LEMMA UpdateKeeps ==
    ASSUME status \in [Orders -> Statuses], NEW o, NEW s \in Statuses, s # "Absent",
           Pipeline!UpdateOrderStatus(o, s)
    PROVE  /\ status' \in [Orders -> Statuses]
           /\ \A p \in Orders : status'[p] = "Absent" <=> status[p] = "Absent"
  BY DEF Pipeline!UpdateOrderStatus

\* What the consumers write.
LEMMA ConsumersWrite ==
    ASSUME NEW q \in Pipeline!ApiQueues
    PROVE  /\ Pipeline!Consumer(q).first \in Statuses \ {"Absent"}
           /\ Pipeline!Consumer(q).second \in Statuses \ {"Absent"}
<1> USE DEF Statuses, Pipeline!OrderStatus
<1>1. CASE q = "inventory-confirmed"
  BY <1>1, Zenon DEF Pipeline!Consumer, Pipeline!InventoryConfirmedConsumer
<1>2. CASE q = "inventory-failed"
  BY <1>2 DEF Pipeline!Consumer, Pipeline!InventoryFailedConsumer
<1>3. CASE q = "payment-approved"
  BY <1>3 DEF Pipeline!Consumer, Pipeline!PaymentApprovedConsumer
<1>4. CASE q = "payment-rejected"
  BY <1>4 DEF Pipeline!Consumer, Pipeline!PaymentRejectedConsumer
<1>5. CASE q = "shipping-created"
  BY <1>5 DEF Pipeline!Consumer, Pipeline!ShippingCreatedConsumer
<1> QED BY <1>1, <1>2, <1>3, <1>4, <1>5 DEF Pipeline!ApiQueues

\* A step of the workflow behind the request leaves the orders as they are, and the
\* requests not received yet.
QuietStep ==
    /\ checkout' \in [Orders -> CheckoutStates]
    /\ status' \in [Orders -> Statuses]
    /\ \A o \in Orders : /\ status'[o] = "Absent" <=> status[o] = "Absent"
                         /\ checkout'[o] = "idle" => checkout[o] = "idle"

\* What goes on after a request was received makes no order and undoes none.
LEMMA WorkIsQuiet ==
    ASSUME RowsInv, (\E o \in Orders : Work(o)) \/ Serve \/ Fail
    PROVE  QuietStep
<1> USE DEF RowsInv, QuietStep
<1>1. CASE checkout' = checkout /\ status' = status
  BY <1>1
<1>2. CASE status' = status /\ checkout' \in [Orders -> CheckoutStates]
           /\ \A o \in Orders : checkout'[o] = "idle" => checkout[o] = "idle"
  BY <1>2
<1>3. ASSUME NEW o, NEW s \in Statuses \ {"Absent"}, checkout' = checkout,
             Pipeline!UpdateOrderStatus(o, s)
      PROVE  QuietStep
  BY <1>3, UpdateKeeps
<1>4. ASSUME NEW o \in Orders, Work(o) PROVE QuietStep
  <2>1. CASE Pipeline!CheckoutPublish(o)
    BY <1>2, <2>1 DEF Pipeline!CheckoutPublish, CheckoutStates
  <2>2. CASE Pipeline!CheckoutFinish(o)
    <3>1. "InventoryPending" \in Statuses \ {"Absent"}
      BY DEF Statuses, Pipeline!OrderStatus
    <3>2. /\ status' \in [Orders -> Statuses]
          /\ \A p \in Orders : status'[p] = "Absent" <=> status[p] = "Absent"
      BY <2>2, <3>1, UpdateKeeps DEF Pipeline!CheckoutFinish
    <3> QED BY <2>2, <3>2 DEF Pipeline!CheckoutFinish, CheckoutStates
  <2>3. CASE Pipeline!PaymentDecide(o)
    BY <1>1, <2>3 DEF Pipeline!PaymentDecide
  <2> QED BY <1>4, <2>1, <2>2, <2>3 DEF Work
<1>5. CASE Serve
  <2>1. CASE Pipeline!InventoryStep
    BY <1>1, <2>1 DEF Pipeline!InventoryStep, Pipeline!InventoryCheck,
        Pipeline!InventoryDeduct, Pipeline!InventoryConfirm, Pipeline!InventoryRefuse
  <2>2. CASE Pipeline!PaymentReceive \/ Pipeline!Ship
    BY <1>1, <2>2 DEF Pipeline!PaymentReceive, Pipeline!Ship
  <2>3. ASSUME NEW q \in Pipeline!ApiQueues, Pipeline!ConsumerStep(q) PROVE QuietStep
    <3>1. CASE Pipeline!ConsumerFirst(q)
      BY <1>3, <3>1, ConsumersWrite DEF Pipeline!ConsumerFirst
    <3>2. CASE Pipeline!ConsumerSecond(q)
      BY <1>3, <3>2, ConsumersWrite DEF Pipeline!ConsumerSecond
    <3>3. CASE Pipeline!ConsumerPublish(q)
      BY <1>1, <3>3 DEF Pipeline!ConsumerPublish
    <3> QED BY <2>3, <3>1, <3>2, <3>3 DEF Pipeline!ConsumerStep
  <2> QED BY <1>5, <2>1, <2>2, <2>3 DEF Serve
<1>6. CASE Fail
  <2>1. ASSUME NEW o \in Orders, Pipeline!CheckoutThrows(o) PROVE QuietStep
    BY <1>2, <2>1 DEF Pipeline!CheckoutThrows, CheckoutStates
  <2>2. CASE Pipeline!OrderApiCrash
    BY <1>2, <2>2 DEF Pipeline!OrderApiCrash, CheckoutStates
  <2>3. CASE \/ Pipeline!InventoryFails \/ Pipeline!PaymentFails
             \/ Pipeline!ShippingFails \/ Pipeline!BrokerRestart
    BY <1>1, <2>3 DEF Pipeline!InventoryFails, Pipeline!PaymentFails,
                      Pipeline!ShippingFails, Pipeline!BrokerRestart
  <2>4. ASSUME NEW q \in Pipeline!ApiQueues, Pipeline!ConsumerFails(q) PROVE QuietStep
    BY <1>1, <2>4 DEF Pipeline!ConsumerFails
  <2> QED BY <1>6, <2>1, <2>2, <2>3, <2>4 DEF Fail
<1> QED BY <1>4, <1>5, <1>6

\* The request that creates an order.
LEMMA ReceiveCreates ==
    ASSUME RowsInv, NEW o \in Orders, Receive(o)
    PROVE  RowsInv' /\ status[o] = "Absent" /\ Existing' = Existing \cup {o}
<1>1. /\ checkout[o] = "idle" /\ status[o] = "Absent"
      /\ checkout' = [checkout EXCEPT ![o] = "created"]
      /\ status' = [status EXCEPT ![o] = "Submitted"]
  BY DEF Receive, Pipeline!CheckoutCreate, RowsInv
<1>2. "created" \in CheckoutStates /\ "Submitted" \in Statuses
  BY DEF CheckoutStates, Statuses, Pipeline!OrderStatus
<1> QED BY <1>1, <1>2 DEF RowsInv, Existing

\* No step makes an order without its request.
LEMMA NextRows ==
    ASSUME RowsInv, [Next]_vars PROVE RowsInv'
<1>1. CASE UNCHANGED pipelineVars
  BY <1>1 DEF pipelineVars, RowsInv
<1>2. ASSUME QuietStep PROVE RowsInv'
  BY <1>2 DEF QuietStep, RowsInv
<1>3. CASE Browse \/ \E o \in Orders : AnswerOk(o) \/ AnswerError(o)
  BY <1>1, <1>3 DEF Browse, AnswerOk, AnswerError
<1>4. ASSUME NEW o \in Orders, Receive(o) PROVE RowsInv'
  BY <1>4, ReceiveCreates
<1>5. CASE (\E o \in Orders : Work(o)) \/ Serve \/ Fail
  BY <1>2, <1>5, WorkIsQuiet
<1>6. CASE UNCHANGED vars
  BY <1>1, <1>6 DEF vars
<1> QED BY <1>3, <1>4, <1>5, <1>6 DEF Next

\* There are no orders when the system starts.
LEMMA InitRows == Init => RowsInv
  BY DEF Init, Pipeline!Init, RowsInv, CheckoutStates, Statuses

\* A step of the whole is a step of the portal, or leaves it as it is.
LEMMA NextPortal ==
    ASSUME RowsInv, [Next]_vars PROVE [Portal!Next]_(Portal!vars)
<1>0. Existing = {o \in Orders : status[o] # "Absent"}
  BY DEF Existing
<1>1. CASE UNCHANGED portalVars /\ Existing' = Existing
  BY <1>1 DEF portalVars, Existing, Portal!vars
<1>2. CASE Browse
  BY <1>2 DEF Browse, Portal!Next
<1>3. ASSUME NEW o \in Orders, Receive(o) PROVE Portal!Next
  <2>1. status[o] = "Absent" /\ Existing' = Existing \cup {o}
    BY <1>3, ReceiveCreates
  <2>2. calls[o].pc \in {"sent", "dropped"} /\ UNCHANGED portalVars
    BY <1>3 DEF Receive
  <2>3. Portal!Order(o)
    BY <2>1, <2>2 DEF Portal!Order, Existing, portalVars
  <2> QED BY <2>3 DEF Portal!Next
<1>4. ASSUME NEW o \in Orders, AnswerOk(o) \/ AnswerError(o) PROVE Portal!Next
  BY <1>4 DEF AnswerOk, AnswerError, Portal!Next
<1>5. CASE (\E o \in Orders : Work(o)) \/ Serve \/ Fail
  <2>1. UNCHANGED portalVars
    BY <1>5 DEF Work, Serve, Fail
  <2>2. Existing' = Existing
    BY <1>5, WorkIsQuiet DEF QuietStep, Existing
  <2> QED BY <1>1, <2>1, <2>2
<1>6. CASE UNCHANGED vars
  <2>1. UNCHANGED portalVars /\ UNCHANGED status
    BY <1>6 DEF vars, pipelineVars
  <2> QED BY <1>1, <2>1 DEF Existing
<1> QED BY <1>2, <1>3, <1>4, <1>5, <1>6 DEF Next

\* For any number of users, as far as PortalCart lets their handlers interleave, the
\* Order API, with all that may fail in it, is to the portal what PortalCart takes it for: an order comes into being only for a call that was made,
\* at most once for each, and success is only answered when it is there.
THEOREM WorkflowServesPortal == Spec => ImplementsPortal
<1>1. Init => Portal!Init
  BY DEF Init
<1> QED BY <1>1, InitRows, NextRows, NextPortal, PTL
        DEF Spec, ImplementsPortal, Portal!Spec

-----------------------------------------------------------------------------
(***************************************************************************)
(* What PortalCartProofs shows of the portal, for one user.                *)
(***************************************************************************)

CartProofs == INSTANCE PortalCartProofs WITH Calls <- Orders, ordered <- Existing

OneUser == \A u, v \in Users : u = v

\* What both modules name is the same.
LEMMA SamePortal ==
    /\ Portal!Init <=> CartProofs!Init
    /\ [Portal!Next]_(Portal!vars) <=> [CartProofs!Next]_(CartProofs!vars)
<1>0. Existing = {o \in Orders : status[o] # "Absent"}
  BY DEF Existing
<1>1. Portal!Init <=> CartProofs!Init
  BY <1>0 DEF Portal!Init, CartProofs!Init, Portal!Nothing, CartProofs!Nothing
<1>2. UNCHANGED Portal!vars <=> UNCHANGED CartProofs!vars
  BY <1>0 DEF Portal!vars, CartProofs!vars, Existing
<1> USE <1>0 DEF Portal!Free, CartProofs!Free, Portal!Open, CartProofs!Open,
        Portal!Find, CartProofs!Find, Portal!Places, CartProofs!Places,
        Portal!Forget, CartProofs!Forget, Portal!TakeOut, CartProofs!TakeOut,
        Portal!Nothing, CartProofs!Nothing
<1>3. Portal!Clicks = CartProofs!Clicks
  BY DEF Portal!Clicks, CartProofs!Clicks, Portal!SumFunction, CartProofs!SumFunction,
         Portal!SumFunctionOnSet, CartProofs!SumFunctionOnSet,
         Portal!FoldFunctionOnSet, CartProofs!FoldFunctionOnSet,
         Portal!MapThenFoldSet, CartProofs!MapThenFoldSet
<1>4. \A lines, p : Portal!Demand(lines, p) = CartProofs!Demand(lines, p)
  BY DEF Portal!Demand, CartProofs!Demand, Portal!Quantities, CartProofs!Quantities,
         Portal!SumFunctionOnSet, CartProofs!SumFunctionOnSet,
         Portal!FoldFunctionOnSet, CartProofs!FoldFunctionOnSet,
         Portal!MapThenFoldSet, CartProofs!MapThenFoldSet
<1>5. ASSUME NEW u \in Users, NEW p \in Products
      PROVE  /\ Portal!AddLookUp(u, p) <=> CartProofs!AddLookUp(u, p)
             /\ Portal!Remove(u, p) <=> CartProofs!Remove(u, p)
  <2>1. Portal!AddLookUp(u, p) <=> CartProofs!AddLookUp(u, p)
    BY <1>3 DEF Portal!AddLookUp, CartProofs!AddLookUp, Existing
  <2>2. Portal!Remove(u, p) <=> CartProofs!Remove(u, p)
    BY DEF Portal!Remove, CartProofs!Remove, Portal!Without, CartProofs!Without,
           Existing
  <2> QED BY <2>1, <2>2
<1>6. ASSUME NEW u \in Users
      PROVE  /\ Portal!AddToCart(u) <=> CartProofs!AddToCart(u)
             /\ Portal!ClearCart(u) <=> CartProofs!ClearCart(u)
             /\ Portal!CircuitEnds(u) <=> CartProofs!CircuitEnds(u)
  <2>1. Portal!AddToCart(u) <=> CartProofs!AddToCart(u)
    BY DEF Portal!AddToCart, CartProofs!AddToCart, Existing
  <2>2. Portal!ClearCart(u) <=> CartProofs!ClearCart(u)
    BY <1>4 DEF Portal!ClearCart, CartProofs!ClearCart, Existing
  <2>3. Portal!CircuitEnds(u) <=> CartProofs!CircuitEnds(u)
    BY DEF Portal!CircuitEnds, CartProofs!CircuitEnds, Existing
  <2> QED BY <2>1, <2>2, <2>3
<1>7. ASSUME NEW c \in Orders
      PROVE  /\ Portal!Order(c) <=> CartProofs!Order(c)
             /\ Portal!CheckoutSucceeds(c) <=> CartProofs!CheckoutSucceeds(c)
             /\ Portal!CheckoutFails(c) <=> CartProofs!CheckoutFails(c)
             /\ Portal!CallTimesOut(c) <=> CartProofs!CallTimesOut(c)
             /\ \A u \in Users : Portal!Checkout(u, c) <=> CartProofs!Checkout(u, c)
  <2>1. Portal!Order(c) <=> CartProofs!Order(c)
    BY DEF Portal!Order, CartProofs!Order, Existing
  <2>2. Portal!CheckoutSucceeds(c) <=> CartProofs!CheckoutSucceeds(c)
    BY DEF Portal!CheckoutSucceeds, CartProofs!CheckoutSucceeds, Existing
  <2>3. Portal!CheckoutFails(c) <=> CartProofs!CheckoutFails(c)
    BY DEF Portal!CheckoutFails, CartProofs!CheckoutFails, Existing
  <2>4. \A u \in Users : Portal!Checkout(u, c) <=> CartProofs!Checkout(u, c)
    BY DEF Portal!Checkout, CartProofs!Checkout, Existing
  <2>5. Portal!CallTimesOut(c) <=> CartProofs!CallTimesOut(c)
    BY DEF Portal!CallTimesOut, CartProofs!CallTimesOut, Existing
  <2> QED BY <2>1, <2>2, <2>3, <2>4, <2>5
<1>8. Portal!Next <=> CartProofs!Next
  BY <1>5, <1>6, <1>7 DEF Portal!Next, CartProofs!Next
<1> QED BY <1>1, <1>2, <1>8

\* So PortalCartProofs speaks of this portal.
LEMMA PortalIs == Spec => CartProofs!Spec
<1>1. Init => CartProofs!Init
  BY SamePortal DEF Init
<1>2. RowsInv /\ [Next]_vars => [CartProofs!Next]_(CartProofs!vars)
  BY SamePortal, NextPortal
<1> QED BY <1>1, <1>2, InitRows, NextRows, PTL DEF Spec, CartProofs!Spec

\* What a request of one user looks like when it leaves the portal.
WellFormed ==
    \A o \in Orders : calls[o].pc # "none" =>
        /\ calls[o].lines \in Seq([product : Products, qty : Nat \ {0}])
        /\ calls[o].lines # <<>>
        /\ DistinctLines(calls[o].lines)
        /\ \A i \in DOMAIN calls[o].lines : calls[o].lines[i].qty <= MaxAdds

\* One user's requests are bodies that the Order API accepts, at every step.
LEMMA RequestsWellFormed == ASSUME OneUser PROVE Spec => []WellFormed
<1>0. CartProofs!OneUser
  BY DEF OneUser, CartProofs!OneUser
<1>f. CartProofs!IsFiniteSet(Products)
  BY ProductsAssumption DEF IsFiniteSet, CartProofs!IsFiniteSet
<1>1. CartProofs!Spec => []CartProofs!TypeOK
  BY CartProofs!TypeCorrect, UsersAssumption, BoundsAssumption
<1>2. CartProofs!Spec => []CartProofs!RequestsDistinct
  BY <1>0, CartProofs!NoRepeatedLines, UsersAssumption, BoundsAssumption
<1>3. CartProofs!Spec => []CartProofs!RequestsBounded
  BY <1>0, <1>f, CartProofs!RequestsWithinClicks, UsersAssumption, BoundsAssumption
<1>4. CartProofs!TypeOK /\ CartProofs!RequestsDistinct /\ CartProofs!RequestsBounded
          => WellFormed
  <2> SUFFICES ASSUME CartProofs!TypeOK, CartProofs!RequestsDistinct,
                      CartProofs!RequestsBounded,
                      NEW o \in Orders, calls[o].pc # "none"
               PROVE  /\ calls[o].lines \in Seq([product : Products, qty : Nat \ {0}])
                      /\ calls[o].lines # <<>>
                      /\ DistinctLines(calls[o].lines)
                      /\ \A i \in DOMAIN calls[o].lines :
                             calls[o].lines[i].qty <= MaxAdds
    BY DEF WellFormed
  <2>1. calls[o].lines \in Seq([product : Products, qty : Nat \ {0}])
    BY DEF CartProofs!TypeOK, CartProofs!CartItem
  <2>2. DistinctLines(calls[o].lines)
    BY DEF CartProofs!RequestsDistinct, CartProofs!DistinctLines, DistinctLines
  <2>3. calls[o].lines # <<>> /\ \A i \in DOMAIN calls[o].lines :
                                     calls[o].lines[i].qty <= MaxAdds
    BY DEF CartProofs!RequestsBounded
  <2> QED BY <2>1, <2>2, <2>3
<1> QED BY <1>1, <1>2, <1>3, <1>4, PortalIs, PTL

-----------------------------------------------------------------------------
(***************************************************************************)
(* The portal as the workflow sees it: where requests come from.           *)
(***************************************************************************)

\* Lines that name no product twice are no more than there are products.
LEMMA FewLines ==
    ASSUME NEW lines \in Seq([product : Products, qty : Nat \ {0}]),
           lines # <<>>, DistinctLines(lines),
           \A i \in DOMAIN lines : lines[i].qty <= MaxAdds
    PROVE  Body(lines) \in DistinctBodies
<1> DEFINE n == Len(lines)
           place == [i \in 1 .. n |-> lines[i].product]
<1>1. n \in Nat \ {0} /\ DOMAIN lines = 1 .. n
  OBVIOUS
<1>2. \A i \in 1 .. n : lines[i] \in [product : Products, qty : Nat \ {0}]
  BY <1>1, ElementOfSeq
<1>3. place \in Injection(1 .. n, Products)
  <2>1. place \in [1 .. n -> Products]
    BY <1>2
  <2>2. \A i, j \in 1 .. n : place[i] = place[j] => i = j
    BY <1>1 DEF DistinctLines
  <2> QED BY <2>1, <2>2 DEF Injection, IsInjective
<1>4. n <= Cardinality(Products) /\ Cardinality(Products) \in Nat
  <2>1. Cardinality(1 .. n) = n
    BY <1>1, FS_Interval
  <2>2. Cardinality(1 .. n) <= Cardinality(Products)
    BY <1>3, ProductsAssumption, FS_Injection
  <2> QED BY <2>1, <2>2, ProductsAssumption, FS_CardinalityType
<1>5. n \in 1 .. Cardinality(Products)
  BY <1>1, <1>4
<1>6. \A i \in 1 .. n : lines[i] \in [product : Products, qty : 1 .. MaxAdds]
  <2> SUFFICES ASSUME NEW i \in 1 .. n
               PROVE  lines[i] \in [product : Products, qty : 1 .. MaxAdds]
    OBVIOUS
  <2>1. lines[i].qty \in Nat \ {0} /\ lines[i].qty <= MaxAdds
    BY <1>1, <1>2
  <2>2. lines[i].qty \in 1 .. MaxAdds
    BY <2>1, BoundsAssumption
  <2> QED BY <1>2, <2>2
<1>7. lines \in [1 .. n -> [product : Products, qty : 1 .. MaxAdds]]
  BY <1>1, <1>6
<1> QED BY <1>5, <1>7 DEF DistinctBodies

\* A step of the whole is a step of the workflow, or leaves it as it is.
LEMMA NextPipeline ==
    ASSUME WellFormed, [Next]_vars PROVE [Pipeline!Next]_(Pipeline!vars)
<1>1. CASE UNCHANGED pipelineVars
  BY <1>1 DEF pipelineVars, Pipeline!vars
<1>2. CASE Browse \/ \E o \in Orders : AnswerOk(o) \/ AnswerError(o)
  BY <1>1, <1>2 DEF Browse, AnswerOk, AnswerError
<1>3. ASSUME NEW o \in Orders, Receive(o) PROVE Pipeline!Next
  <2>1. calls[o].pc # "none" /\ Pipeline!CheckoutCreate(o, Body(calls[o].lines))
    BY <1>3 DEF Receive
  <2>2. Body(calls[o].lines) \in DistinctBodies
    BY <2>1, FewLines DEF WellFormed
  <2> QED BY <2>1, <2>2 DEF Pipeline!Next
<1>4. ASSUME NEW o \in Orders, Work(o) PROVE Pipeline!Next
  BY <1>4 DEF Work, Pipeline!Next
<1>5. CASE Serve
  BY <1>5 DEF Serve, Pipeline!InventoryStep, Pipeline!ConsumerStep, Pipeline!Next
<1>6. CASE Fail
  BY <1>6 DEF Fail, Pipeline!Next
<1>7. CASE UNCHANGED vars
  BY <1>1, <1>7 DEF vars
<1> QED BY <1>2, <1>3, <1>4, <1>5, <1>6, <1>7 DEF Next

\* One user's portal is to the workflow what OrderPipeline takes a client to be at its
\* best: whatever is clicked, answered, given up or tried again, what reaches the
\* Order API are well-formed bodies that name no product twice.
THEOREM PortalServesWorkflow == ASSUME OneUser PROVE Spec => ImplementsPipeline
<1>1. Init => Pipeline!Init
  BY DEF Init
<1> QED BY <1>1, RequestsWellFormed, NextPipeline, PTL
        DEF Spec, ImplementsPipeline, Pipeline!Spec

-----------------------------------------------------------------------------
(***************************************************************************)
(* What OrderPipelineProofs shows of the workflow, for the orders of one   *)
(* user of the portal.                                                     *)
(***************************************************************************)

PipelineProofs == INSTANCE OrderPipelineProofs WITH
    ProductIds <- Products, Requests <- DistinctBodies

\* What both modules name is the same.
LEMMA SamePipeline ==
    /\ Pipeline!Init <=> PipelineProofs!Init
    /\ [Pipeline!Next]_(Pipeline!vars) <=> [PipelineProofs!Next]_(PipelineProofs!vars)
<1> USE DEF Pipeline!Queues, PipelineProofs!Queues, Pipeline!ApiQueues,
            PipelineProofs!ApiQueues, Pipeline!IdleWorker, PipelineProofs!IdleWorker,
            Pipeline!IdleConsumer, PipelineProofs!IdleConsumer, Pipeline!Publish,
            PipelineProofs!Publish, Pipeline!UpdateOrderStatus,
            PipelineProofs!UpdateOrderStatus, Pipeline!Fault, PipelineProofs!Fault,
            Pipeline!LoseDelivered, PipelineProofs!LoseDelivered
<1>1. Pipeline!Init <=> PipelineProofs!Init
  BY DEF Pipeline!Init, PipelineProofs!Init
<1>2. UNCHANGED Pipeline!vars <=> UNCHANGED PipelineProofs!vars
  BY DEF Pipeline!vars, PipelineProofs!vars
<1>3. \A q : Pipeline!Consumer(q) = PipelineProofs!Consumer(q)
  BY DEF Pipeline!Consumer, PipelineProofs!Consumer,
         Pipeline!InventoryConfirmedConsumer, PipelineProofs!InventoryConfirmedConsumer,
         Pipeline!InventoryFailedConsumer, PipelineProofs!InventoryFailedConsumer,
         Pipeline!PaymentApprovedConsumer, PipelineProofs!PaymentApprovedConsumer,
         Pipeline!PaymentRejectedConsumer, PipelineProofs!PaymentRejectedConsumer,
         Pipeline!ShippingCreatedConsumer, PipelineProofs!ShippingCreatedConsumer
<1>4. \A S : Pipeline!Cuts(S) = PipelineProofs!Cuts(S)
  BY DEF Pipeline!Cuts, PipelineProofs!Cuts
<1>5. ASSUME NEW o \in Orders
      PROVE  /\ Pipeline!CheckoutPublish(o) <=> PipelineProofs!CheckoutPublish(o)
             /\ Pipeline!CheckoutFinish(o) <=> PipelineProofs!CheckoutFinish(o)
             /\ Pipeline!CheckoutThrows(o) <=> PipelineProofs!CheckoutThrows(o)
             /\ Pipeline!PaymentDecide(o) <=> PipelineProofs!PaymentDecide(o)
  <2>1. Pipeline!CheckoutPublish(o) <=> PipelineProofs!CheckoutPublish(o)
    BY DEF Pipeline!CheckoutPublish, PipelineProofs!CheckoutPublish
  <2>2. Pipeline!CheckoutFinish(o) <=> PipelineProofs!CheckoutFinish(o)
    BY DEF Pipeline!CheckoutFinish, PipelineProofs!CheckoutFinish
  <2>3. Pipeline!CheckoutThrows(o) <=> PipelineProofs!CheckoutThrows(o)
    BY DEF Pipeline!CheckoutThrows, PipelineProofs!CheckoutThrows
  <2>4. Pipeline!PaymentDecide(o) <=> PipelineProofs!PaymentDecide(o)
    BY DEF Pipeline!PaymentDecide, PipelineProofs!PaymentDecide
  <2> QED BY <2>1, <2>2, <2>3, <2>4
<1>6. ASSUME NEW q \in Pipeline!ApiQueues
      PROVE  /\ Pipeline!ConsumerFirst(q) <=> PipelineProofs!ConsumerFirst(q)
             /\ Pipeline!ConsumerSecond(q) <=> PipelineProofs!ConsumerSecond(q)
             /\ Pipeline!ConsumerPublish(q) <=> PipelineProofs!ConsumerPublish(q)
             /\ Pipeline!ConsumerFails(q) <=> PipelineProofs!ConsumerFails(q)
  <2>1. Pipeline!ConsumerFirst(q) <=> PipelineProofs!ConsumerFirst(q)
    BY <1>3 DEF Pipeline!ConsumerFirst, PipelineProofs!ConsumerFirst
  <2>2. Pipeline!ConsumerSecond(q) <=> PipelineProofs!ConsumerSecond(q)
    BY <1>3 DEF Pipeline!ConsumerSecond, PipelineProofs!ConsumerSecond
  <2>3. Pipeline!ConsumerPublish(q) <=> PipelineProofs!ConsumerPublish(q)
    BY <1>3 DEF Pipeline!ConsumerPublish, PipelineProofs!ConsumerPublish
  <2>4. Pipeline!ConsumerFails(q) <=> PipelineProofs!ConsumerFails(q)
    BY DEF Pipeline!ConsumerFails, PipelineProofs!ConsumerFails
  <2> QED BY <2>1, <2>2, <2>3, <2>4
<1>7. /\ Pipeline!InventoryCheck <=> PipelineProofs!InventoryCheck
      /\ Pipeline!InventoryDeduct <=> PipelineProofs!InventoryDeduct
      /\ Pipeline!InventoryConfirm <=> PipelineProofs!InventoryConfirm
      /\ Pipeline!InventoryRefuse <=> PipelineProofs!InventoryRefuse
      /\ Pipeline!PaymentReceive <=> PipelineProofs!PaymentReceive
      /\ Pipeline!Ship <=> PipelineProofs!Ship
      /\ Pipeline!InventoryFails <=> PipelineProofs!InventoryFails
      /\ Pipeline!PaymentFails <=> PipelineProofs!PaymentFails
      /\ Pipeline!ShippingFails <=> PipelineProofs!ShippingFails
      /\ Pipeline!OrderApiCrash <=> PipelineProofs!OrderApiCrash
      /\ Pipeline!BrokerRestart <=> PipelineProofs!BrokerRestart
  <2>1. Pipeline!InventoryCheck <=> PipelineProofs!InventoryCheck
    BY DEF Pipeline!InventoryCheck, PipelineProofs!InventoryCheck, Pipeline!HasStock,
           PipelineProofs!HasStock
  <2>2. Pipeline!InventoryDeduct <=> PipelineProofs!InventoryDeduct
    BY DEF Pipeline!InventoryDeduct, PipelineProofs!InventoryDeduct
  <2>3. Pipeline!InventoryConfirm <=> PipelineProofs!InventoryConfirm
    BY DEF Pipeline!InventoryConfirm, PipelineProofs!InventoryConfirm
  <2>4. Pipeline!InventoryRefuse <=> PipelineProofs!InventoryRefuse
    BY DEF Pipeline!InventoryRefuse, PipelineProofs!InventoryRefuse
  <2>5. Pipeline!PaymentReceive <=> PipelineProofs!PaymentReceive
    BY DEF Pipeline!PaymentReceive, PipelineProofs!PaymentReceive
  <2>6. Pipeline!Ship <=> PipelineProofs!Ship
    BY DEF Pipeline!Ship, PipelineProofs!Ship
  <2>7. Pipeline!InventoryFails <=> PipelineProofs!InventoryFails
    BY DEF Pipeline!InventoryFails, PipelineProofs!InventoryFails
  <2>8. Pipeline!PaymentFails <=> PipelineProofs!PaymentFails
    BY DEF Pipeline!PaymentFails, PipelineProofs!PaymentFails
  <2>9. Pipeline!ShippingFails <=> PipelineProofs!ShippingFails
    BY DEF Pipeline!ShippingFails, PipelineProofs!ShippingFails
  <2>10. Pipeline!OrderApiCrash <=> PipelineProofs!OrderApiCrash
    BY <1>4 DEF Pipeline!OrderApiCrash, PipelineProofs!OrderApiCrash
  <2>11. Pipeline!BrokerRestart <=> PipelineProofs!BrokerRestart
    BY <1>4 DEF Pipeline!BrokerRestart, PipelineProofs!BrokerRestart
  <2> QED BY <2>1, <2>2, <2>3, <2>4, <2>5, <2>6, <2>7, <2>8, <2>9, <2>10, <2>11
<1>8. ASSUME NEW o \in Orders, NEW r \in DistinctBodies
      PROVE  /\ Pipeline!CheckoutReject(o, r) <=> PipelineProofs!CheckoutReject(o, r)
             /\ Pipeline!CheckoutCreate(o, r) <=> PipelineProofs!CheckoutCreate(o, r)
  <2>1. Pipeline!Valid(r) <=> PipelineProofs!Valid(r)
    BY DEF Pipeline!Valid, PipelineProofs!Valid
  <2>2. Pipeline!CheckoutReject(o, r) <=> PipelineProofs!CheckoutReject(o, r)
    BY <2>1 DEF Pipeline!CheckoutReject, PipelineProofs!CheckoutReject
  <2>3. Pipeline!CheckoutCreate(o, r) <=> PipelineProofs!CheckoutCreate(o, r)
    BY <2>1 DEF Pipeline!CheckoutCreate, PipelineProofs!CheckoutCreate
  <2> QED BY <2>2, <2>3
<1>9. Pipeline!Next <=> PipelineProofs!Next
  BY <1>5, <1>6, <1>7, <1>8 DEF Pipeline!Next, PipelineProofs!Next
<1> QED BY <1>1, <1>2, <1>9

\* What OrderPipelineProofs takes for granted of the requests is so of these.
LEMMA BodiesAre ==
    /\ \A r \in DistinctBodies : PipelineProofs!DistinctLines(r.items)
    /\ DistinctBodies \subseteq PipelineProofs!Request
<1> SUFFICES ASSUME NEW r \in DistinctBodies
             PROVE  PipelineProofs!DistinctLines(r.items) /\ r \in PipelineProofs!Request
  OBVIOUS
<1>0. PICK n \in 1 .. Cardinality(Products) :
          \E l \in [1 .. n -> [product : Products, qty : 1 .. MaxAdds]] :
              DistinctLines(l) /\ r = Body(l)
  BY DEF DistinctBodies
<1>1. PICK l \in [1 .. n -> [product : Products, qty : 1 .. MaxAdds]] :
          DistinctLines(l) /\ r = Body(l)
  BY <1>0
<1>2. n \in Nat
  BY ProductsAssumption, FS_CardinalityType
<1>3. l \in [1 .. n -> [product : Products, qty : Int]]
  BY <1>1, BoundsAssumption
<1>4. l \in Seq([product : Products, qty : Int])
  BY <1>2, <1>3, SeqDef
<1> QED BY <1>1, <1>4 DEF Body, DistinctLines, PipelineProofs!DistinctLines,
                          PipelineProofs!Request

\* Nothing the customers of one portal's user ask for is sold that is not there: however
\* the clicks, the calls, the services and the failures fall, the stock of no product
\* is ever negative.  With two users it can be: see the run portal_oversold.
THEOREM OneUserNeverOversells ==
    ASSUME OneUser PROVE Spec => []StockNeverNegative
<1>1. PipelineProofs!Spec => []PipelineProofs!StockNeverNegative
  BY PipelineProofs!StockStaysPositive, BodiesAre, OrdersAssumption, StockAssumption,
     BoundsAssumption
<1>2. WellFormed /\ [Next]_vars => [PipelineProofs!Next]_(PipelineProofs!vars)
  BY NextPipeline, SamePipeline
<1>3. Init => PipelineProofs!Init
  BY SamePipeline DEF Init
<1>4. PipelineProofs!StockNeverNegative => StockNeverNegative
  BY DEF StockNeverNegative, Pipeline!StockNeverNegative,
         PipelineProofs!StockNeverNegative
<1> QED BY <1>1, <1>2, <1>3, <1>4, RequestsWellFormed, PTL
        DEF Spec, PipelineProofs!Spec
=============================================================================
