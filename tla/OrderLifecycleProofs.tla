------------------------ MODULE OrderLifecycleProofs ------------------------
(***************************************************************************)
(* OrderPipeline implements OrderLifecycle, for any orders, products,      *)
(* requests that name no product twice, and number of failures: each step  *)
(* of the queues and handlers is a step of the lifecycle of an order, or   *)
(* none.  That the lifecycle goes on is left to the model checker.         *)
(***************************************************************************)
EXTENDS OrderPipelineProofs

-----------------------------------------------------------------------------
(***************************************************************************)
(* The phase of an order.                                                  *)
(***************************************************************************)

\* The phase of an order of which h tells how often each message was published.
PhaseOf(h) ==
    CASE h["order-submitted"] = 1 /\ ~(h["inventory-confirmed"] = 1)
             /\ ~(h["inventory-failed"] = 1) -> "submitted"
      [] h["inventory-confirmed"] = 1 /\ ~(h["payment-approved"] = 1)
             /\ ~(h["payment-rejected"] = 1) -> "reserved"
      [] h["payment-approved"] = 1 /\ ~(h["shipping-created"] = 1) -> "approved"
      [] h["inventory-failed"] = 1 -> "refused"
      [] h["payment-rejected"] = 1 -> "declined"
      [] h["shipping-created"] = 1 -> "shipped"
      [] OTHER                     -> "none"

\* What was published for one order, if the history is legal.
LegalFor(h) ==
    /\ \A q \in Queues : \A s \in Successors(q) : h[s] = 1 => h[q] = 1
    /\ \A q \in Queues : \A s, t \in Successors(q) : h[s] = 1 /\ h[t] = 1 => s = t

\* The phase of an order is a function of what was published for it.
LEMMA PhaseIs ==
    /\ \A o : Phase(o) = PhaseOf(sent[o]) /\ Phase(o)' = PhaseOf(sent'[o])
    /\ LegalHistory => \A o \in Orders : LegalFor(sent[o])
    /\ LegalHistory' => \A o \in Orders : LegalFor(sent'[o])
  BY DEF Phase, PhaseOf, Sent, LegalHistory, LegalFor

\* The message of a legal history that an order has come to.
LEMMA LegalIs ==
    ASSUME NEW h, LegalFor(h)
    PROVE  /\ h["shipping-created"] = 1 => h["shipping-requested"] = 1
           /\ h["shipping-requested"] = 1 => h["payment-approved"] = 1
           /\ h["payment-approved"] = 1 => h["payment-requested"] = 1
           /\ h["payment-rejected"] = 1 => h["payment-requested"] = 1
           /\ h["payment-requested"] = 1 => h["inventory-confirmed"] = 1
           /\ h["inventory-confirmed"] = 1 => h["order-submitted"] = 1
           /\ h["inventory-failed"] = 1 => h["order-submitted"] = 1
           /\ ~(h["inventory-confirmed"] = 1 /\ h["inventory-failed"] = 1)
           /\ ~(h["payment-approved"] = 1 /\ h["payment-rejected"] = 1)
<1>1. ASSUME h["inventory-confirmed"] = 1, h["inventory-failed"] = 1 PROVE FALSE
  <2>1. "inventory-confirmed" = "inventory-failed"
    BY <1>1, SuccessorsAre, QueuesAre DEF LegalFor
  <2> QED BY <2>1
<1>2. ASSUME h["payment-approved"] = 1, h["payment-rejected"] = 1 PROVE FALSE
  <2>1. "payment-approved" = "payment-rejected"
    BY <1>2, SuccessorsAre, QueuesAre DEF LegalFor
  <2> QED BY <2>1
<1> QED
  BY <1>1, <1>2, SuccessorsAre DEF LegalFor, Queues, ApiQueues

\* So each has one phase.
LEMMA Phases ==
    ASSUME NEW h, LegalFor(h)
    PROVE  /\ ~(h["order-submitted"] = 1) => PhaseOf(h) = "none"
           /\ h["order-submitted"] = 1 /\ ~(h["inventory-confirmed"] = 1)
                  /\ ~(h["inventory-failed"] = 1) => PhaseOf(h) = "submitted"
           /\ h["inventory-confirmed"] = 1 /\ ~(h["payment-approved"] = 1)
                  /\ ~(h["payment-rejected"] = 1) => PhaseOf(h) = "reserved"
           /\ h["payment-approved"] = 1 /\ ~(h["shipping-created"] = 1)
                  => PhaseOf(h) = "approved"
           /\ h["inventory-failed"] = 1 => PhaseOf(h) = "refused"
           /\ h["payment-rejected"] = 1 => PhaseOf(h) = "declined"
           /\ h["shipping-created"] = 1 => PhaseOf(h) = "shipped"
<1> DEFINE sub == h["order-submitted"] = 1
           con == h["inventory-confirmed"] = 1
           fai == h["inventory-failed"] = 1
           app == h["payment-approved"] = 1
           rej == h["payment-rejected"] = 1
           shi == h["shipping-created"] = 1
<1>1. /\ shi => app
      /\ app => con
      /\ rej => con
      /\ con => sub
      /\ fai => sub
      /\ ~(con /\ fai) /\ ~(app /\ rej)
  BY LegalIs
<1>2. PhaseOf(h) =
          CASE sub /\ ~con /\ ~fai -> "submitted"
            [] con /\ ~app /\ ~rej -> "reserved"
            [] app /\ ~shi -> "approved"
            [] fai -> "refused"
            [] rej -> "declined"
            [] shi -> "shipped"
            [] OTHER -> "none"
  BY DEF PhaseOf
<1> HIDE DEF sub, con, fai, app, rej, shi
<1>3. /\ ~sub => PhaseOf(h) = "none"
      /\ sub /\ ~con /\ ~fai => PhaseOf(h) = "submitted"
      /\ con /\ ~app /\ ~rej => PhaseOf(h) = "reserved"
      /\ app /\ ~shi => PhaseOf(h) = "approved"
      /\ fai => PhaseOf(h) = "refused"
      /\ rej => PhaseOf(h) = "declined"
      /\ shi => PhaseOf(h) = "shipped"
  BY <1>1, <1>2
<1> QED BY <1>3 DEF sub, con, fai, app, rej, shi

-----------------------------------------------------------------------------
(***************************************************************************)
(* The orders at rest.                                                     *)
(***************************************************************************)

\* Nothing is put to a stage, and nothing published, but for one order m.
OnlyMoves(m) ==
    /\ \A q \in Queues : Stage(q)' \subseteq Stage(q) \cup {m}
    /\ \A o \in Orders : o # m => sent'[o] = sent[o]

\* A publication for m moves m and leaves every other order where it is.
LEMMA MovesPut ==
    ASSUME TypeOK, NEW s \in Queues, NEW m \in Orders, Publish(s, m),
           \A q \in Queues : InHand(q)' \subseteq InHand(q) \cup {m}
    PROVE  OnlyMoves(m)
<1>1. /\ queue' = [queue EXCEPT ![s] = Append(@, m)]
      /\ sent' = [sent EXCEPT ![m][s] = @ + 1]
  BY DEF Publish
<1>2. \A o \in Orders : o # m => sent'[o] = sent[o]
  BY <1>1 DEF TypeOK
<1>3. \A q \in Queues : Waiting(q)' \subseteq Waiting(q) \cup {m}
  <2>1. queue[s] \in Seq(Orders)
    BY DEF TypeOK
  <2>2. Range(Append(queue[s], m)) = Range(queue[s]) \cup {m}
    BY <2>1, PutLast
  <2> QED BY <1>1, <2>2 DEF TypeOK, Waiting
<1> QED BY <1>2, <1>3 DEF OnlyMoves, Stage

\* Who takes the head of a queue moves that order and no other.
LEMMA MovesTake ==
    ASSUME IInv, sent' = sent, NEW q \in Queues, queue[q] # <<>>,
           queue' = [queue EXCEPT ![q] = Tail(@)],
           \A r \in Queues : InHand(r)' \subseteq InHand(r) \cup {Head(queue[q])}
    PROVE  OnlyMoves(Head(queue[q])) /\ Head(queue[q]) \in Stage(q)
<1>1. /\ \A r \in Queues : Waiting(r)' \subseteq Waiting(r)
      /\ Head(queue[q]) \in Waiting(q)
  BY Took DEF IInv
<1> QED BY <1>1 DEF OnlyMoves, Stage

\* Who moves an order: the service or consumer that has it, or its request.
LEMMA WhoMoves ==
    ASSUME IInv, [Next]_vars
    PROVE  \E m : /\ OnlyMoves(m)
                  /\ m = NoOrder \/ CheckoutPublish(m) \/ \E q \in Queues : m \in Stage(q)
<1> USE DEF IInv
<1> DEFINE Goal == \E m : /\ OnlyMoves(m)
                          /\ \/ m = NoOrder \/ CheckoutPublish(m)
                             \/ \E q \in Queues : m \in Stage(q)
<1> SUFFICES Goal
  OBVIOUS
<1>1. ASSUME sent' = sent, \A q \in Queues : Waiting(q)' \subseteq Waiting(q),
             \A q \in Queues : InHand(q)' \subseteq InHand(q)
      PROVE  Goal
  <2>1. OnlyMoves(NoOrder)
    BY <1>1 DEF OnlyMoves, Stage
  <2> QED BY <2>1
<1>2. CASE UNCHANGED <<queue, sent, worker, consumer, paying>>
  BY <1>1, <1>2, HandsAre DEF Waiting, Queues
<1>3. ASSUME NEW o \in Orders, CheckoutPublish(o) PROVE Goal
  <2>1. \A q \in Queues : InHand(q)' = InHand(q)
    BY <1>3, HandsAre DEF CheckoutPublish, Queues
  <2>2. OnlyMoves(o)
    BY <1>3, <2>1, MovesPut, QueuesAre DEF CheckoutPublish
  <2> QED BY <1>3, <2>2
<1>4. ASSUME NEW o \in Orders, PaymentDecide(o) PROVE Goal
  <2>1. PICK s \in {"payment-approved", "payment-rejected"} : Publish(s, o)
    BY <1>4 DEF PaymentDecide
  <2>2. s \in Queues
    BY <2>1, QueuesAre DEF Queues, ApiQueues
  <2>3. \A q \in Queues : InHand(q)' \subseteq InHand(q)
    BY <1>4, HandsAre DEF PaymentDecide, Queues
  <2>4. OnlyMoves(o)
    BY <2>1, <2>2, <2>3, MovesPut
  <2>5. o \in Stage("payment-requested")
    BY <1>4, HandsAre DEF PaymentDecide, Stage
  <2> QED BY <2>4, <2>5, QueuesAre
<1>5. CASE InventoryCheck
  <2> DEFINE q == "order-submitted"
  <2>1. /\ queue[q] # <<>> /\ queue' = [queue EXCEPT ![q] = Tail(@)]
        /\ UNCHANGED <<sent, consumer, paying>>
        /\ worker'.order = Head(queue[q])
        /\ q \in Queues
    BY <1>5, QueuesAre DEF InventoryCheck
  <2>2. \A r \in Queues : InHand(r)' \subseteq InHand(r) \cup {Head(queue[q])}
    BY <2>1, HandsAre DEF Queues
  <2> HIDE DEF q
  <2>3. OnlyMoves(Head(queue[q])) /\ Head(queue[q]) \in Stage(q)
    BY <2>1, <2>2, MovesTake
  <2> QED BY <2>1, <2>3
<1>6. CASE InventoryDeduct
  <2>1. /\ UNCHANGED <<queue, sent, consumer, paying>>
        /\ worker'.order = worker.order
    BY <1>6 DEF InventoryDeduct
  <2>2. \A q \in Queues : InHand(q)' \subseteq InHand(q)
    BY <2>1, HandsAre DEF Queues
  <2> QED BY <1>1, <2>1, <2>2 DEF Waiting
<1>7. ASSUME InventoryConfirm \/ InventoryRefuse PROVE Goal
  <2>1. PICK s \in {"inventory-confirmed", "inventory-failed"} :
            Publish(s, worker.order)
    BY <1>7 DEF InventoryConfirm, InventoryRefuse
  <2>2. /\ worker.order \in Orders
        /\ worker'.order = NoOrder
        /\ UNCHANGED <<consumer, paying>>
    BY <1>7, BusyHolds DEF InventoryConfirm, InventoryRefuse, IdleWorker
  <2>3. \A q \in Queues : InHand(q)' \subseteq InHand(q)
    BY <2>2, HandsAre DEF Queues
  <2>4. s \in Queues
    BY <2>1 DEF Queues, ApiQueues
  <2>5. OnlyMoves(worker.order)
    BY <2>1, <2>2, <2>3, <2>4, MovesPut
  <2>6. worker.order \in Stage("order-submitted")
    BY <2>2, HandsAre, OrdersAssumption DEF Stage
  <2> QED BY <2>5, <2>6, QueuesAre
<1>8. ASSUME NEW q \in ApiQueues, ConsumerFirst(q) PROVE Goal
  <2>1. /\ queue[q] # <<>> /\ queue' = [queue EXCEPT ![q] = Tail(@)]
        /\ UNCHANGED <<sent, worker, paying>>
        /\ consumer'[q].order = Head(queue[q])
        /\ \A r \in ApiQueues \ {q} : consumer'[r] = consumer[r]
        /\ q \in Queues
    BY <1>8, QueuesAre DEF ConsumerFirst, TypeOK
  <2>2. \A r \in Queues : InHand(r)' \subseteq InHand(r) \cup {Head(queue[q])}
    BY <2>1, HandsAre DEF Queues
  <2>3. OnlyMoves(Head(queue[q])) /\ Head(queue[q]) \in Stage(q)
    BY <2>1, <2>2, MovesTake
  <2> QED BY <2>1, <2>3
<1>9. ASSUME NEW q \in ApiQueues, ConsumerSecond(q) PROVE Goal
  <2>1. /\ UNCHANGED <<queue, sent, worker, paying>>
        /\ consumer'[q].order \in {NoOrder, consumer[q].order}
        /\ \A r \in ApiQueues \ {q} : consumer'[r] = consumer[r]
    BY <1>9 DEF ConsumerSecond, TypeOK, IdleConsumer
  <2>2. \A r \in Queues : InHand(r)' \subseteq InHand(r)
    BY <2>1, HandsAre DEF Queues
  <2> QED BY <1>1, <2>1, <2>2 DEF Waiting
<1>10. ASSUME NEW q \in ApiQueues, ConsumerPublish(q) PROVE Goal
  <2> DEFINE o == consumer[q].order
             s == Consumer(q).emits
  <2>1. /\ o \in Orders /\ Publish(s, o)
        /\ consumer'[q].order = NoOrder
        /\ \A r \in ApiQueues \ {q} : consumer'[r] = consumer[r]
        /\ UNCHANGED <<worker, paying>>
    BY <1>10, BusyHolds DEF ConsumerPublish, TypeOK, IdleConsumer
  <2>2. s \in Queues
    BY <1>10, Emits, SuccessorsAre, QueuesAre DEF ConsumerPublish, HandlersOK
  <2>3. \A r \in Queues : InHand(r)' \subseteq InHand(r) \cup {o}
    BY <2>1, HandsAre DEF Queues
  <2>4. o \in Stage(q)
    BY <2>1, HandsAre, OrdersAssumption DEF Stage
  <2> HIDE DEF o, s
  <2>5. OnlyMoves(o)
    BY <2>1, <2>2, <2>3, MovesPut
  <2> QED BY <2>4, <2>5, QueuesAre
<1>11. CASE PaymentReceive
  <2> DEFINE q == "payment-requested"
  <2>1. /\ queue[q] # <<>> /\ queue' = [queue EXCEPT ![q] = Tail(@)]
        /\ UNCHANGED <<sent, worker, consumer>>
        /\ paying' = paying \cup {Head(queue[q])}
        /\ q \in Queues
    BY <1>11, QueuesAre DEF PaymentReceive
  <2>2. \A r \in Queues : InHand(r)' \subseteq InHand(r) \cup {Head(queue[q])}
    BY <2>1, HandsAre DEF Queues
  <2> HIDE DEF q
  <2>3. OnlyMoves(Head(queue[q])) /\ Head(queue[q]) \in Stage(q)
    BY <2>1, <2>2, MovesTake
  <2> QED BY <2>1, <2>3
<1>12. CASE Ship
  <2> DEFINE r == "shipping-requested"
             s == "shipping-created"
             p == Head(queue[r])
  <2>1. /\ queue[r] # <<>>
        /\ queue' = [queue EXCEPT ![r] = Tail(@), ![s] = Append(@, p)]
        /\ sent' = [sent EXCEPT ![p][s] = @ + 1]
        /\ UNCHANGED <<worker, consumer, paying>>
        /\ r \in Queues /\ s \in Queues /\ s # r
    BY <1>12, QueuesAre DEF Ship, ApiQueues
  <2>2. \A q \in Queues : InHand(q)' = InHand(q)
    BY <2>1, HandsAre DEF Queues
  <2> HIDE DEF r, s
  <2>3. queue \in [Queues -> Seq(Orders)]
    BY DEF TypeOK
  <2>4. /\ p \in Orders /\ p \in Range(queue[r])
        /\ Range(Tail(queue[r])) \subseteq Range(queue[r])
    BY <2>1, <2>3, TakeHead
  <2> HIDE DEF p
  <2>5. Range(Append(queue[s], p)) = Range(queue[s]) \cup {p}
    BY <2>1, <2>3, <2>4, PutLast
  <2>6. \A q \in Queues : Waiting(q)' \subseteq Waiting(q) \cup {p}
    BY <2>1, <2>3, <2>4, <2>5 DEF Waiting
  <2>7. \A o \in Orders : o # p => sent'[o] = sent[o]
    BY <2>1, <2>4 DEF TypeOK
  <2>8. OnlyMoves(p) /\ p \in Stage(r)
    BY <2>2, <2>4, <2>6, <2>7 DEF OnlyMoves, Stage, Waiting
  <2> QED BY <2>1, <2>8
<1>13. ASSUME \/ InventoryFails \/ PaymentFails \/ ShippingFails
              \/ \E q \in ApiQueues : ConsumerFails(q)
              \/ OrderApiCrash \/ BrokerRestart
       PROVE  Goal
  <2>1. \/ \E q \in Queues : LoseDelivered(q)
        \/ OrderApiCrash
        \/ BrokerRestart
    BY <1>13, QueuesAre
       DEF InventoryFails, PaymentFails, ShippingFails, ConsumerFails
  <2>2. /\ sent' = sent
        /\ worker' \in {worker, IdleWorker}
        /\ \A q \in ApiQueues : consumer'[q] \in {consumer[q], IdleConsumer}
        /\ paying' \in {paying, {}}
    BY <1>13 DEF InventoryFails, PaymentFails, ShippingFails, ConsumerFails,
                 OrderApiCrash, BrokerRestart, TypeOK
  <2>3. \A q \in Queues : InHand(q)' \subseteq InHand(q)
    BY <2>2, HandsAre DEF Queues, IdleWorker, IdleConsumer
  <2>4. \A q \in Queues : Waiting(q)' \subseteq Waiting(q)
    BY <2>1, Lost
  <2> QED BY <1>1, <2>2, <2>3, <2>4
<1> HIDE DEF Goal
<1> QED
  BY <1>2, <1>3, <1>4, <1>5, <1>6, <1>7, <1>8, <1>9, <1>10, <1>11, <1>12, <1>13
     DEF Next, vars, CheckoutReject, CheckoutCreate, CheckoutFinish, CheckoutThrows

\* An order that was submitted and is at rest stays so, and nothing is published for it.
LEMMA RestStays ==
    ASSUME IInv, [Next]_vars, NEW o \in Orders, AtRest(o), Sent(o, "order-submitted")
    PROVE  AtRest(o)' /\ sent'[o] = sent[o]
<1>1. PICK m : /\ OnlyMoves(m)
               /\ m = NoOrder \/ CheckoutPublish(m) \/ \E q \in Queues : m \in Stage(q)
  BY WhoMoves
<1>2. ~CheckoutPublish(o)
  BY DEF IInv, RequestsOK, CheckoutPublish, Sent
<1>3. o # m
  BY <1>1, <1>2, OrdersAssumption DEF AtRest
<1> QED BY <1>1, <1>3 DEF OnlyMoves, AtRest

-----------------------------------------------------------------------------
(***************************************************************************)
(* The lifecycle that the pipeline shows.                                  *)
(***************************************************************************)

PhaseMap == [o \in Orders |-> Phase(o)]

WantedMap == [o \in Orders |-> [p \in Products |->
                 IF Sent(o, "order-submitted") THEN Demand(items[o], p) ELSE 0]]

OnHand == [p \in Products |-> stock[p] + Deducted(p)]

LostOrders == {o \in Orders : /\ Sent(o, "order-submitted") /\ AtRest(o)
                              /\ \A q \in FinalQueues : ~Sent(o, q)}

\* What is lost stays lost.
LEMMA LostGrow ==
    ASSUME IInv, [Next]_vars PROVE LostOrders \subseteq LostOrders'
<1> SUFFICES ASSUME NEW o \in LostOrders PROVE o \in LostOrders'
  OBVIOUS
<1>1. /\ o \in Orders /\ Sent(o, "order-submitted") /\ AtRest(o)
      /\ \A q \in FinalQueues : ~Sent(o, q)
  BY DEF LostOrders
<1>2. AtRest(o)' /\ sent'[o] = sent[o]
  BY <1>1, RestStays
<1> QED BY <1>1, <1>2 DEF LostOrders, Sent, FinalQueues

\* Without a failure nothing is lost.
LEMMA NoneLost ==
    ASSUME IInv, IInv', [Next]_vars, ~Fault PROVE LostOrders' = LostOrders
<1> SUFFICES ASSUME NEW o \in LostOrders' PROVE o \in LostOrders
  BY LostGrow
<1>1. /\ o \in Orders /\ Sent(o, "order-submitted")' /\ AtRest(o)'
      /\ \A q \in FinalQueues : ~Sent(o, q)'
  BY DEF LostOrders, FinalQueues
<1>2. \A q \in FinalQueues : q \in Queues /\ ~Sent(o, q)
  BY <1>1, SentKept DEF FinalQueues
<1>3. Sent(o, "order-submitted")
  <2> SUFFICES ASSUME ~Sent(o, "order-submitted") PROVE FALSE
    OBVIOUS
  <2>1. CheckoutPublish(o)
    BY <1>1, WhoSends, QueuesAre DEF Sent
  <2>2. o \in Waiting("order-submitted")'
    BY <1>1, <2>1, AllWait, QueuesAre DEF CheckoutPublish, Publish, IInv
  <2> QED BY <1>1, <2>2, QueuesAre DEF AtRest, Stage
<1>4. AtRest(o)
  <2> SUFFICES ASSUME NEW q \in Queues, o \in Stage(q) PROVE FALSE
    BY DEF AtRest
  <2>1. q \in FinalQueues
    BY <1>1, StageGoesOn DEF AtRest
  <2>2. Sent(o, q)
    BY DEF IInv, StageDiscipline
  <2> QED BY <1>2, <2>1, <2>2
<1> QED BY <1>1, <1>2, <1>3, <1>4 DEF LostOrders

\* Who is lost had not come to an end.
LEMMA LostPhases ==
    ASSUME IInv, NEW o \in Orders, Sent(o, "order-submitted"),
           \A q \in FinalQueues : ~Sent(o, q)
    PROVE  PhaseMap[o] \in {"submitted", "reserved", "approved"}
<1> DEFINE h == sent[o]
<1>1. LegalFor(h) /\ PhaseMap[o] = PhaseOf(h)
  BY PhaseIs DEF IInv, PhaseMap
<1>2. /\ h["order-submitted"] = 1 /\ ~(h["inventory-failed"] = 1)
      /\ ~(h["payment-rejected"] = 1) /\ ~(h["shipping-created"] = 1)
  BY FinalAre DEF Sent
<1> HIDE DEF h
<1> QED BY <1>1, <1>2, LegalIs, Phases

\* The phases a publication changes: that of its order.
LEMMA PhaseChange ==
    ASSUME TypeOK, LegalHistory, LegalHistory', NEW o \in Orders, NEW s \in Queues,
           sent[o][s] = 0, sent' = [sent EXCEPT ![o][s] = @ + 1]
    PROVE  /\ \A p \in Orders \ {o} : PhaseMap'[p] = PhaseMap[p]
           /\ \A p \in Orders \ {o} : \A q : Sent(p, q)' <=> Sent(p, q)
           /\ \A q \in Queues : sent'[o][q] = IF q = s THEN 1 ELSE sent[o][q]
           /\ LegalFor(sent[o]) /\ LegalFor(sent'[o])
           /\ PhaseMap[o] = PhaseOf(sent[o]) /\ PhaseMap'[o] = PhaseOf(sent'[o])
<1>1. /\ \A p \in Orders \ {o} : sent'[p] = sent[p]
      /\ \A q \in Queues : sent'[o][q] = IF q = s THEN 1 ELSE sent[o][q]
  BY DEF TypeOK
<1> QED BY <1>1, PhaseIs DEF PhaseMap, Sent

\* A step that the lifecycle does not notice.
LEMMA Unnoticed ==
    ASSUME IInv, [Next]_vars, sent' = sent, LostOrders' = LostOrders,
           \A p \in Products : OnHand'[p] = OnHand[p]
    PROVE  UNCHANGED Lifecycle!lifecycle
<1>1. PhaseMap' = PhaseMap
  BY PhaseIs DEF PhaseMap
<1>2. \A o \in Orders : Sent(o, "order-submitted")' <=> Sent(o, "order-submitted")
  BY DEF Sent
<1>3. \A o \in Orders : Sent(o, "order-submitted") => items'[o] = items[o]
  <2>1. ASSUME NEW o \in Orders, NEW r \in Requests, CheckoutCreate(o, r)
        PROVE  ~Sent(o, "order-submitted") /\ \A p \in Orders \ {o} : items'[p] = items[p]
    BY <2>1, CreatedIsNew DEF CheckoutCreate, IInv, RequestsOK, Sent
  <2>2. (\E o \in Orders : \E r \in Requests : CheckoutCreate(o, r)) \/ items' = items
    BY DEF Next, vars, CheckoutReject, CheckoutPublish, CheckoutFinish,
           CheckoutThrows, PaymentDecide, InventoryCheck, InventoryDeduct,
           InventoryConfirm, InventoryRefuse, ConsumerFirst, ConsumerSecond,
           ConsumerPublish, ConsumerFails, PaymentReceive, Ship, InventoryFails,
           PaymentFails, ShippingFails, OrderApiCrash, BrokerRestart
  <2> QED BY <2>1, <2>2
<1>4. WantedMap' = WantedMap
  BY <1>2, <1>3 DEF WantedMap
<1>5. OnHand' = OnHand
  BY DEF OnHand
<1> QED
  BY <1>1, <1>4, <1>5 DEF Lifecycle!lifecycle, PhaseMap, WantedMap, OnHand, LostOrders

-----------------------------------------------------------------------------
(***************************************************************************)
(* What the steps of the Inventory service rely on.                        *)
(***************************************************************************)

LifeInv == /\ IInv /\ WithinLines /\ StockInHand /\ StockNeverNegative
           /\ OrdersHaveLines /\ RefusedShort

\* What the lines of an order ask for.
LEMMA LinesAsk ==
    ASSUME IInv, StockInHand, NEW o \in Orders
    PROVE  /\ items[o] \in Seq([product : ProductIds, qty : Int])
           /\ \A p : Demand(items[o], p) \in Nat
           /\ \A i \in DOMAIN items[o] :
                 /\ items[o][i].product \in Products /\ items[o][i].qty \in Nat \ {0}
                 /\ Demand(items[o], items[o][i].product) = items[o][i].qty
           /\ \A p : Places(items[o], p) = {} => Demand(items[o], p) = 0
<1> DEFINE lines == items[o]
<1>1. lines \in Seq([product : ProductIds, qty : Int]) /\ DistinctLines(lines)
  BY DEF IInv, TypeOK, StockInHand
<1>2. \A i \in DOMAIN lines : lines[i].product \in Products /\ lines[i].qty > 0
  BY DEF StockInHand
<1> HIDE DEF lines
<1>3. \A i \in DOMAIN lines : lines[i].qty \in Nat \ {0}
  <2>1. \A i \in DOMAIN lines : lines[i].qty \in Int
    BY <1>1, LinesAre
  <2> QED BY <1>2, <2>1
<1>4. \A p : Demand(lines, p) \in Nat
  BY <1>1, <1>3, DemandType
<1>5. \A i \in DOMAIN lines : Demand(lines, lines[i].product) = lines[i].qty
  BY <1>1, DemandDistinct
<1>6. \A p : Places(lines, p) = {} => Demand(lines, p) = 0
  BY DemandNone
<1> QED BY <1>1, <1>2, <1>3, <1>4, <1>5, <1>6 DEF lines

\* What is deducted so far is a part of what the order in hand asks for, and the rest
\* of it is in stock.
LEMMA RestInStock ==
    ASSUME IInv, WithinLines, StockInHand, StockNeverNegative,
           worker.pc = "deduct", NEW p \in Products
    PROVE  /\ worker.order \in Orders
           /\ Deducted(p) \in Nat /\ stock[p] \in Int
           /\ Deducted(p) <= Demand(items[worker.order], p)
           /\ Demand(items[worker.order], p) <= stock[p] + Deducted(p)
<1> DEFINE lines == items[worker.order]
           n == worker.next
           done == SubSeq(lines, 1, n - 1)
<1>0. worker.order \in Orders /\ n \in Nat \ {0} /\ stock[p] \in Int /\ stock[p] >= 0
  BY BusyHolds DEF IInv, TypeOK, StockNeverNegative
<1>1. /\ lines \in Seq([product : ProductIds, qty : Int])
      /\ Demand(lines, p) \in Nat
      /\ \A i \in DOMAIN lines : /\ lines[i].qty \in Nat \ {0}
                                 /\ Demand(lines, lines[i].product) = lines[i].qty
      /\ Places(lines, p) = {} => Demand(lines, p) = 0
  BY <1>0, LinesAsk
<1>2. n <= Len(lines) + 1 /\ Deducted(p) = Demand(done, p) /\ DistinctLines(lines)
  BY <1>0 DEF WithinLines, Deducted, StockInHand
<1>3. \A i \in DOMAIN lines : i >= n => stock[lines[i].product] >= lines[i].qty
  BY DEF StockInHand
<1> HIDE DEF lines
<1>4. Len(lines) \in Nat /\ DOMAIN lines = 1 .. Len(lines)
  BY <1>1, LenProperties
<1>5. n \in Nat \ {0} /\ n - 1 \in 0 .. Len(lines)
  BY <1>0, <1>2, <1>4
<1> HIDE DEF n
<1>6. /\ done \in Seq([product : ProductIds, qty : Int])
      /\ DOMAIN done = 1 .. n - 1
      /\ \A i \in 1 .. n - 1 : done[i] = lines[i]
  <2> DEFINE Line == [product : ProductIds, qty : Int]
             m == n - 1
  <2>1. m \in Nat /\ m \in Int /\ m <= Len(lines) /\ done = SubSeq(lines, 1, m)
    BY <1>5
  <2>2. \A i \in 1 .. m : lines[i] \in Line
    <3>1. \A i \in DOMAIN lines : lines[i] \in Line
      BY <1>1, LinesAre
    <3> HIDE DEF Line, m
    <3>2. \A i \in 1 .. m : i \in DOMAIN lines
      BY <1>4, <2>1
    <3> QED BY <3>1, <3>2
  <2> HIDE DEF Line, m, done
  <2>3. /\ SubSeq(lines, 1, m) \in Seq(Line)
        /\ Len(SubSeq(lines, 1, m)) = IF 1 <= m THEN m - 1 + 1 ELSE 0
        /\ \A i \in 1 .. m - 1 + 1 : SubSeq(lines, 1, m)[i] = lines[1 + i - 1]
    BY <2>1, <2>2, SubSeqProperties
  <2>4. /\ done \in Seq(Line) /\ Len(done) = m
        /\ \A i \in 1 .. m : done[i] = lines[i]
    BY <2>1, <2>3
  <2>5. DOMAIN done = 1 .. m
    BY <2>4, LenProperties
  <2> QED BY <2>4, <2>5 DEF Line, m
<1> HIDE DEF done
<1>7. DistinctLines(done)
  BY <1>2, <1>4, <1>5, <1>6 DEF DistinctLines
<1>8. CASE Places(lines, p) = {}
  <2>1. Places(done, p) = {}
    BY <1>4, <1>5, <1>6, <1>8 DEF Places
  <2>2. Demand(done, p) = 0
    BY <2>1, DemandNone
  <2> QED BY <1>0, <1>1, <1>2, <1>8, <2>2 DEF lines
<1>9. CASE Places(lines, p) # {}
  <2>1. PICK i \in DOMAIN lines : lines[i].product = p
    BY <1>9 DEF Places
  <2>2. Demand(lines, p) = lines[i].qty /\ i \in Nat
    BY <1>1, <1>4, <2>1
  <2>3. CASE i >= n
    <3>1. Places(done, p) = {}
      <4> SUFFICES ASSUME NEW j \in DOMAIN done, done[j].product = p PROVE FALSE
        BY DEF Places
      <4>1. j \in DOMAIN lines /\ lines[j].product = p /\ j < n
        BY <1>4, <1>5, <1>6
      <4>2. j = i
        BY <1>2, <2>1, <4>1 DEF DistinctLines
      <4> QED BY <1>4, <1>5, <2>3, <4>1, <4>2
    <3>2. Demand(done, p) = 0
      BY <3>1, DemandNone
    <3>3. stock[p] >= lines[i].qty
      BY <1>3, <2>1, <2>3
    <3> QED BY <1>0, <1>1, <1>2, <2>2, <3>2, <3>3 DEF lines
  <2>4. CASE ~(i >= n)
    <3>1. i \in 1 .. n - 1
      BY <1>4, <1>5, <2>1, <2>4
    <3>2. done[i] = lines[i] /\ i \in DOMAIN done
      BY <1>6, <3>1
    <3>3. Demand(done, p) = lines[i].qty
      BY <1>6, <1>7, <2>1, <3>2, DemandDistinct
    <3> QED BY <1>0, <1>1, <1>2, <2>2, <3>3 DEF lines
  <2> QED BY <2>3, <2>4
<1> QED BY <1>8, <1>9

\* When nothing is in hand to deduct, nothing is deducted.
LEMMA OnHandIs ==
    ASSUME TypeOK
    PROVE  /\ \A p \in Products : OnHand[p] = stock[p] + Deducted(p)
           /\ \A p \in Products : stock[p] \in Int
           /\ worker.pc # "deduct" => \A p \in Products : Deducted(p) = 0
           /\ worker'.pc # "deduct" => \A p \in Products : Deducted(p)' = 0
           /\ \A p \in Products : OnHand'[p] = stock'[p] + Deducted(p)'
  BY DEF OnHand, Deducted, TypeOK

\* Every step keeps what the refinement rests on.
LEMMA NextLife ==
    ASSUME \A r \in Requests : DistinctLines(r.items), LifeInv, IInv', [Next]_vars
    PROVE  LifeInv'
<1> USE DEF LifeInv
<1>1. WithinLines' /\ StockInHand' /\ StockNeverNegative'
  BY NextWithin, NextStock
<1>2. OrdersHaveLines'
  <2>1. ASSUME NEW o \in Orders, NEW r \in Requests, CheckoutCreate(o, r)
        PROVE  OrdersHaveLines'
    BY <2>1 DEF CheckoutCreate, Valid, OrdersHaveLines, IInv, TypeOK
  <2>2. CASE items' = items /\ \A o \in Orders :
                 checkout'[o] \notin {"idle", "rejected"} =>
                     checkout[o] \notin {"idle", "rejected"}
    BY <2>2 DEF OrdersHaveLines
  <2>3. ASSUME NEW o \in Orders,
               \/ \E r \in Requests : CheckoutReject(o, r)
               \/ CheckoutPublish(o) \/ CheckoutFinish(o) \/ CheckoutThrows(o)
        PROVE  OrdersHaveLines'
    BY <2>2, <2>3 DEF CheckoutReject, CheckoutPublish, CheckoutFinish, CheckoutThrows,
                      IInv, TypeOK
  <2>4. CASE OrderApiCrash
    BY <2>2, <2>4 DEF OrderApiCrash
  <2> QED
    BY <2>1, <2>2, <2>3, <2>4
       DEF Next, vars, PaymentDecide, InventoryCheck, InventoryDeduct,
           InventoryConfirm, InventoryRefuse, ConsumerFirst, ConsumerSecond,
           ConsumerPublish, ConsumerFails, PaymentReceive, Ship, InventoryFails,
           PaymentFails, ShippingFails, BrokerRestart
<1>3. RefusedShort'
  <2>1. CASE UNCHANGED <<items, stock>> /\ worker' \in {worker, IdleWorker}
    BY <2>1 DEF RefusedShort, HasStock, IdleWorker
  <2>2. ASSUME NEW o \in Orders, NEW r \in Requests, CheckoutCreate(o, r)
        PROVE  RefusedShort'
    <3>1. worker' = worker /\ stock' = stock
      BY <2>2 DEF CheckoutCreate
    <3>2. worker.pc # "idle" => items'[worker.order] = items[worker.order]
      BY <2>2, CreatedIsNew
    <3> QED BY <3>1, <3>2 DEF RefusedShort, HasStock
  <2>3. CASE InventoryCheck
    BY <2>3 DEF InventoryCheck, RefusedShort, HasStock
  <2>4. CASE InventoryDeduct
    BY <2>4 DEF InventoryDeduct, RefusedShort
  <2> QED
    BY <2>1, <2>2, <2>3, <2>4
       DEF Next, vars, CheckoutReject, CheckoutPublish, CheckoutFinish,
           CheckoutThrows, PaymentDecide, InventoryConfirm, InventoryRefuse,
           ConsumerFirst, ConsumerSecond, ConsumerPublish, ConsumerFails,
           PaymentReceive, Ship, InventoryFails, PaymentFails, ShippingFails,
           OrderApiCrash, BrokerRestart
<1> QED BY <1>1, <1>2, <1>3

-----------------------------------------------------------------------------
(***************************************************************************)
(* The steps.                                                              *)
(***************************************************************************)

\* No failure happens without being counted.
LEMMA NoFault == ASSUME TypeOK, faults' = faults PROVE ~Fault
  BY DEF TypeOK, Fault

\* What orders ask for changes only with their rows and their submission.
LEMMA WantedSame ==
    ASSUME items' = items,
           \A o \in Orders : Sent(o, "order-submitted")' <=> Sent(o, "order-submitted")
    PROVE  WantedMap' = WantedMap
  BY DEF WantedMap

\* Publishing OrderSubmitted is the submission.
LEMMA SubmitStep ==
    ASSUME LifeInv, IInv', [Next]_vars, NEW o \in Orders, CheckoutPublish(o)
    PROVE  Lifecycle!Submit(o)
<1> DEFINE s == "order-submitted"
<1>0. IInv /\ TypeOK /\ LegalHistory /\ LegalHistory'
  BY DEF LifeInv, IInv
<1>1. /\ checkout[o] = "created" /\ sent[o][s] = 0
      /\ sent' = [sent EXCEPT ![o][s] = @ + 1]
      /\ UNCHANGED <<items, stock, worker, faults>>
  BY DEF CheckoutPublish, Publish, LifeInv, IInv, RequestsOK
<1>2. /\ \A p \in Orders \ {o} : PhaseMap'[p] = PhaseMap[p]
      /\ \A p \in Orders \ {o} : Sent(p, s)' <=> Sent(p, s)
      /\ \A q \in Queues : sent'[o][q] = IF q = s THEN 1 ELSE sent[o][q]
      /\ LegalFor(sent[o]) /\ LegalFor(sent'[o])
      /\ PhaseMap[o] = PhaseOf(sent[o]) /\ PhaseMap'[o] = PhaseOf(sent'[o])
  BY <1>0, <1>1, PhaseChange, QueuesAre
<1>3. PhaseMap[o] = "none"
  BY <1>1, <1>2, Phases
<1>4. /\ sent'[o][s] = 1
      /\ ~(sent'[o]["inventory-confirmed"] = 1) /\ ~(sent'[o]["inventory-failed"] = 1)
  BY <1>1, <1>2, LegalIs DEF Queues, ApiQueues
<1>5. PhaseMap'[o] = "submitted"
  BY <1>2, <1>4, Phases
<1>6. PhaseMap' = [PhaseMap EXCEPT ![o] = "submitted"]
  BY <1>2, <1>5 DEF PhaseMap
<1>7. LostOrders' = LostOrders
  BY <1>0, <1>1, NoFault, NoneLost
<1>8. OnHand' = OnHand
  BY <1>1 DEF OnHand, Deducted
<1>9. WantedMap' = [WantedMap EXCEPT ![o] = WantedMap'[o]]
  BY <1>1, <1>2 DEF WantedMap
<1>10. WantedMap'[o] \in [Products -> Nat] \ {Lifecycle!Nothing}
  <2>1. WantedMap'[o] = [p \in Products |-> Demand(items[o], p)]
    BY <1>1, <1>4 DEF WantedMap, Sent
  <2>2. /\ items[o] \in Seq([product : ProductIds, qty : Int])
        /\ \A p : Demand(items[o], p) \in Nat
        /\ \A i \in DOMAIN items[o] :
              /\ items[o][i].product \in Products /\ items[o][i].qty \in Nat \ {0}
              /\ Demand(items[o], items[o][i].product) = items[o][i].qty
    BY <1>0, LinesAsk DEF LifeInv
  <2>3. items[o] # <<>>
    BY <1>1 DEF LifeInv, OrdersHaveLines
  <2>4. 1 \in DOMAIN items[o]
    BY <2>2, <2>3, LenProperties, EmptySeq
  <2> DEFINE p == items[o][1].product
  <2>5. p \in Products /\ Demand(items[o], p) # 0
    BY <2>2, <2>4
  <2> HIDE DEF p
  <2>6. WantedMap'[o][p] # 0 /\ WantedMap'[o] \in [Products -> Nat]
    BY <2>1, <2>2, <2>5
  <2> QED BY <2>5, <2>6 DEF Lifecycle!Nothing
<1> QED
  BY <1>3, <1>6, <1>7, <1>8, <1>9, <1>10
     DEF Lifecycle!Submit, PhaseMap, WantedMap, OnHand, LostOrders

\* An order that a handler has is not lost, and what it wants is what its lines ask for.
LEMMA HeldIs ==
    ASSUME IInv, NEW o \in Orders, NEW q \in Queues, o \in Stage(q)
    PROVE  /\ o \notin LostOrders /\ Sent(o, q) /\ Sent(o, "order-submitted")
           /\ \A s \in Successors(q) : s \in Queues /\ sent[o][s] = 0
           /\ \A p \in Products : WantedMap[o][p] = Demand(items[o], p)
<1>1. /\ Sent(o, q) /\ Sent(o, "order-submitted")
      /\ \A s \in Successors(q) : s \in Queues /\ sent[o][s] = 0
  BY Root, SuccessorsAre DEF IInv, StageDiscipline
<1>2. \A p \in Products : WantedMap[o][p] = Demand(items[o], p)
  BY <1>1 DEF WantedMap
<1>3. o \notin LostOrders
  BY DEF LostOrders, AtRest
<1> QED BY <1>1, <1>2, <1>3

\* What a publication behind the first one leaves.
LEMMA LaterSteps ==
    ASSUME IInv, IInv', [Next]_vars, NEW o \in Orders,
           NEW s \in Queues \ {"order-submitted"},
           sent' = [sent EXCEPT ![o][s] = @ + 1], sent[o][s] = 0,
           items' = items, faults' = faults
    PROVE  /\ WantedMap' = WantedMap /\ LostOrders' = LostOrders
           /\ LegalFor(sent[o]) /\ LegalFor(sent'[o])
           /\ \A q \in Queues : sent'[o][q] = IF q = s THEN 1 ELSE sent[o][q]
           /\ PhaseMap[o] = PhaseOf(sent[o])
           /\ PhaseMap' = [PhaseMap EXCEPT ![o] = PhaseOf(sent'[o])]
<1>0. TypeOK /\ LegalHistory /\ LegalHistory'
  BY DEF IInv
<1>1. /\ \A p \in Orders \ {o} : PhaseMap'[p] = PhaseMap[p]
      /\ \A p \in Orders \ {o} : \A q : Sent(p, q)' <=> Sent(p, q)
      /\ \A q \in Queues : sent'[o][q] = IF q = s THEN 1 ELSE sent[o][q]
      /\ LegalFor(sent[o]) /\ LegalFor(sent'[o])
      /\ PhaseMap[o] = PhaseOf(sent[o]) /\ PhaseMap'[o] = PhaseOf(sent'[o])
  BY <1>0, PhaseChange
<1>2. \A p \in Orders : Sent(p, "order-submitted")' <=> Sent(p, "order-submitted")
  <2>1. sent'[o]["order-submitted"] = sent[o]["order-submitted"]
    BY <1>1, QueuesAre
  <2> QED BY <1>1, <2>1 DEF Sent
<1>3. WantedMap' = WantedMap /\ LostOrders' = LostOrders
  BY <1>0, <1>2, WantedSame, NoFault, NoneLost
<1>4. PhaseMap' = [PhaseMap EXCEPT ![o] = PhaseOf(sent'[o])]
  BY <1>1 DEF PhaseMap
<1> QED BY <1>1, <1>3, <1>4

\* The confirmation is the reservation of the whole order.
LEMMA ReserveStep ==
    ASSUME LifeInv, IInv', [Next]_vars, InventoryConfirm
    PROVE  \E o \in Orders : Lifecycle!Reserve(o)
<1> DEFINE s == "inventory-confirmed"
<1>0. IInv /\ TypeOK /\ IInv'
  BY DEF LifeInv, IInv
<1>h. PICK o \in Orders : o = worker.order
  BY <1>0, BusyHolds DEF IInv, InventoryConfirm
<1>1. /\ worker.pc = "deduct" /\ worker.next > Len(items[o]) /\ worker'.pc = "idle"
      /\ UNCHANGED <<items, stock, faults>>
      /\ sent' = [sent EXCEPT ![o][s] = @ + 1]
      /\ s \in Queues \ {"order-submitted"}
  BY <1>h, QueuesAre DEF InventoryConfirm, Publish, IdleWorker, ApiQueues
<1>2. o \in Orders /\ o \in Stage("order-submitted")
  BY <1>h, HandsAre, OrdersAssumption DEF Stage
<1>3. /\ o \notin LostOrders /\ Sent(o, "order-submitted")
      /\ sent[o][s] = 0 /\ sent[o]["inventory-failed"] = 0
      /\ \A p \in Products : WantedMap[o][p] = Demand(items[o], p)
  BY <1>0, <1>2, HeldIs, SuccessorsAre, QueuesAre
<1>4. /\ WantedMap' = WantedMap /\ LostOrders' = LostOrders
      /\ LegalFor(sent[o]) /\ LegalFor(sent'[o])
      /\ \A q \in Queues : sent'[o][q] = IF q = s THEN 1 ELSE sent[o][q]
      /\ PhaseMap[o] = PhaseOf(sent[o])
      /\ PhaseMap' = [PhaseMap EXCEPT ![o] = PhaseOf(sent'[o])]
  BY <1>0, <1>1, <1>2, <1>3, LaterSteps
<1>5. PhaseMap[o] = "submitted"
  BY <1>3, <1>4, Phases DEF Sent
<1>6. /\ sent'[o][s] = 1
      /\ ~(sent'[o]["payment-approved"] = 1) /\ ~(sent'[o]["payment-rejected"] = 1)
  <2>1. ~(sent[o]["payment-approved"] = 1) /\ ~(sent[o]["payment-rejected"] = 1)
    BY <1>3, <1>4, LegalIs
  <2> QED BY <1>4, <2>1 DEF Queues, ApiQueues
<1>7. PhaseOf(sent'[o]) = "reserved"
  BY <1>4, <1>6, Phases
<1>8. ASSUME NEW p \in Products
      PROVE  /\ WantedMap[o][p] <= OnHand[p]
             /\ OnHand'[p] = OnHand[p] - WantedMap[o][p]
  <2>1. /\ Deducted(p) \in Nat /\ stock[p] \in Int
        /\ Demand(items[o], p) <= stock[p] + Deducted(p)
    BY <1>h, <1>1, RestInStock DEF LifeInv
  <2>2. OnHand[p] = stock[p] + Deducted(p) /\ OnHand'[p] = stock[p]
    <3>1. Deducted(p)' = 0 /\ stock' = stock /\ stock[p] \in Int
      BY <1>1, <2>1 DEF Deducted
    <3> QED BY <1>1, <3>1 DEF OnHand
  <2>3. Deducted(p) = Demand(items[o], p)
    <3>1. items[o] \in Seq([product : ProductIds, qty : Int])
      BY <1>0, <1>2 DEF TypeOK
    <3>2. worker.next \in Nat /\ Len(items[o]) \in Nat
      BY <1>0, <3>1, LenProperties DEF TypeOK
    <3>3. worker.next - 1 = Len(items[o])
      BY <1>h, <1>1, <3>2 DEF LifeInv, WithinLines
    <3>4. Demand(SubSeq(items[o], 1, Len(items[o])), p) = Demand(items[o], p)
      BY <3>1, DemandUpTo
    <3> QED BY <1>h, <1>1, <3>3, <3>4 DEF Deducted
  <2> QED BY <1>3, <2>1, <2>2, <2>3
<1>9. OnHand' = [p \in Products |-> OnHand[p] - WantedMap[o][p]]
  BY <1>8 DEF OnHand
<1>10. Lifecycle!Reserve(o)
  BY <1>2, <1>3, <1>4, <1>5, <1>7, <1>8, <1>9
     DEF Lifecycle!Reserve, PhaseMap, WantedMap, OnHand, LostOrders
<1> QED BY <1>10

\* The refusal finds a product short.
LEMMA RefuseStep ==
    ASSUME LifeInv, IInv', [Next]_vars, InventoryRefuse
    PROVE  \E o \in Orders : Lifecycle!Refuse(o)
<1> DEFINE s == "inventory-failed"
<1>0. IInv /\ TypeOK /\ IInv'
  BY DEF LifeInv, IInv
<1>h. PICK o \in Orders : o = worker.order
  BY <1>0, BusyHolds DEF IInv, InventoryRefuse
<1>1. /\ worker.pc = "refuse" /\ worker'.pc = "idle"
      /\ UNCHANGED <<items, stock, faults>>
      /\ sent' = [sent EXCEPT ![o][s] = @ + 1]
      /\ s \in Queues \ {"order-submitted"}
  BY <1>h, QueuesAre DEF InventoryRefuse, Publish, IdleWorker, ApiQueues
<1>2. o \in Orders /\ o \in Stage("order-submitted")
  BY <1>h, HandsAre, OrdersAssumption DEF Stage
<1>3. /\ o \notin LostOrders /\ Sent(o, "order-submitted")
      /\ sent[o][s] = 0 /\ sent[o]["inventory-confirmed"] = 0
      /\ \A p \in Products : WantedMap[o][p] = Demand(items[o], p)
  BY <1>0, <1>2, HeldIs, SuccessorsAre, QueuesAre
<1>4. \E p \in Products : WantedMap[o][p] > OnHand[p]
  <2>1. PICK i \in DOMAIN items[o] : ~(stock[items[o][i].product] >= items[o][i].qty)
    BY <1>h, <1>1 DEF LifeInv, RefusedShort, HasStock
  <2> DEFINE p == items[o][i].product
  <2>2. p \in Products /\ items[o][i].qty \in Nat /\ Demand(items[o], p) = items[o][i].qty
    BY <1>0, <1>2, <2>1, LinesAsk DEF LifeInv
  <2>3. OnHand[p] = stock[p] /\ stock[p] \in Int
    <3>1. Deducted(p) = 0 /\ stock[p] \in Int
      BY <1>0, <1>1, <2>2, OnHandIs
    <3> QED BY <2>2, <3>1 DEF OnHand
  <2>4. WantedMap[o][p] > OnHand[p]
    BY <1>3, <2>1, <2>2, <2>3
  <2> QED BY <2>2, <2>4
<1>5. /\ WantedMap' = WantedMap /\ LostOrders' = LostOrders
      /\ LegalFor(sent[o]) /\ LegalFor(sent'[o])
      /\ \A q \in Queues : sent'[o][q] = IF q = s THEN 1 ELSE sent[o][q]
      /\ PhaseMap[o] = PhaseOf(sent[o])
      /\ PhaseMap' = [PhaseMap EXCEPT ![o] = PhaseOf(sent'[o])]
  BY <1>0, <1>1, <1>2, <1>3, LaterSteps
<1>6. PhaseMap[o] = "submitted" /\ PhaseOf(sent'[o]) = "refused"
  <2>1. sent'[o][s] = 1
    BY <1>1, <1>5
  <2> QED BY <1>3, <1>5, <2>1, Phases DEF Sent
<1>7. OnHand' = OnHand
  BY <1>1 DEF OnHand, Deducted
<1>8. Lifecycle!Refuse(o)
  BY <1>2, <1>3, <1>4, <1>5, <1>6, <1>7
     DEF Lifecycle!Refuse, PhaseMap, WantedMap, OnHand, LostOrders
<1> QED BY <1>8

\* The result of a payment is the verdict.
LEMMA DecideStep ==
    ASSUME LifeInv, IInv', [Next]_vars, NEW o \in Orders, PaymentDecide(o)
    PROVE  Lifecycle!Decide(o)
<1>0. IInv /\ TypeOK /\ IInv'
  BY DEF LifeInv, IInv
<1>1. PICK s \in {"payment-approved", "payment-rejected"} :
          sent' = [sent EXCEPT ![o][s] = @ + 1]
  BY DEF PaymentDecide, Publish
<1>2. /\ UNCHANGED <<items, stock, worker, faults>>
      /\ o \in Stage("payment-requested")
      /\ s \in Queues \ {"order-submitted"}
  BY HandsAre, QueuesAre DEF PaymentDecide, Stage, ApiQueues
<1>3. /\ o \notin LostOrders /\ sent[o]["payment-requested"] = 1
      /\ sent[o]["payment-approved"] = 0 /\ sent[o]["payment-rejected"] = 0
  BY <1>0, <1>2, HeldIs, SuccessorsAre, QueuesAre DEF Sent
<1>4. /\ WantedMap' = WantedMap /\ LostOrders' = LostOrders
      /\ LegalFor(sent[o]) /\ LegalFor(sent'[o])
      /\ \A q \in Queues : sent'[o][q] = IF q = s THEN 1 ELSE sent[o][q]
      /\ PhaseMap[o] = PhaseOf(sent[o])
      /\ PhaseMap' = [PhaseMap EXCEPT ![o] = PhaseOf(sent'[o])]
  <2>1. sent[o][s] = 0
    BY <1>1, <1>3
  <2> QED BY <1>0, <1>1, <1>2, <2>1, LaterSteps
<1>5. PhaseMap[o] = "reserved"
  BY <1>3, <1>4, LegalIs, Phases
<1>6. PhaseOf(sent'[o]) \in {"approved", "declined"}
  <2>1. sent'[o][s] = 1
    BY <1>2, <1>4
  <2>2. ~(sent'[o]["shipping-created"] = 1)
    <3>1. ~(sent[o]["shipping-created"] = 1)
      BY <1>3, <1>4, LegalIs
    <3> QED BY <1>1, <1>4, <3>1, QueuesAre DEF Queues, ApiQueues
  <2> QED BY <1>1, <1>4, <2>1, <2>2, Phases
<1>7. OnHand' = OnHand
  BY <1>2 DEF OnHand, Deducted
<1> QED
  BY <1>3, <1>4, <1>5, <1>6, <1>7
     DEF Lifecycle!Decide, PhaseMap, WantedMap, OnHand, LostOrders

\* The tracking number is the shipment.
LEMMA ShipStep ==
    ASSUME LifeInv, IInv', [Next]_vars, Ship
    PROVE  \E o \in Orders : Lifecycle!Ship(o)
<1> DEFINE s == "shipping-created"
<1>0. IInv /\ TypeOK /\ IInv'
  BY DEF LifeInv, IInv
<1>h. PICK o \in Orders : /\ o = Head(queue["shipping-requested"])
                           /\ o \in Stage("shipping-requested")
  <2> DEFINE q == "shipping-requested"
  <2>1. queue[q] \in Seq(Orders) /\ queue[q] # <<>>
    BY <1>0, QueuesAre DEF TypeOK, Ship
  <2> HIDE DEF q
  <2>2. Head(queue[q]) \in Orders /\ Head(queue[q]) \in Range(queue[q])
    BY <2>1, TakeHead
  <2> QED BY <2>2 DEF Stage, Waiting, q
<1>1. /\ sent' = [sent EXCEPT ![o][s] = @ + 1]
      /\ UNCHANGED <<items, stock, worker, faults>>
      /\ s \in Queues \ {"order-submitted"}
  BY <1>h, QueuesAre DEF Ship, ApiQueues
<1>2. o \in Stage("shipping-requested")
  BY <1>h
<1>3. /\ o \notin LostOrders /\ sent[o]["shipping-requested"] = 1 /\ sent[o][s] = 0
  BY <1>0, <1>2, HeldIs, SuccessorsAre, QueuesAre DEF Sent
<1>4. /\ WantedMap' = WantedMap /\ LostOrders' = LostOrders
      /\ LegalFor(sent[o]) /\ LegalFor(sent'[o])
      /\ \A q \in Queues : sent'[o][q] = IF q = s THEN 1 ELSE sent[o][q]
      /\ PhaseMap[o] = PhaseOf(sent[o])
      /\ PhaseMap' = [PhaseMap EXCEPT ![o] = PhaseOf(sent'[o])]
  BY <1>0, <1>1, <1>2, <1>3, LaterSteps
<1>5. PhaseMap[o] = "approved"
  BY <1>3, <1>4, LegalIs, Phases
<1>6. PhaseOf(sent'[o]) = "shipped"
  <2>1. sent'[o][s] = 1
    BY <1>1, <1>4
  <2> QED BY <1>4, <2>1, Phases
<1>7. OnHand' = OnHand
  BY <1>1 DEF OnHand, Deducted
<1>8. Lifecycle!Ship(o)
  BY <1>3, <1>4, <1>5, <1>6, <1>7
     DEF Lifecycle!Ship, PhaseMap, WantedMap, OnHand, LostOrders
<1> QED BY <1>8

\* What a consumer of the Order API publishes changes no phase.
LEMMA PassOnStep ==
    ASSUME LifeInv, IInv', [Next]_vars, NEW q \in ApiQueues, ConsumerPublish(q)
    PROVE  UNCHANGED Lifecycle!lifecycle
<1> DEFINE o == consumer[q].order
           s == Consumer(q).emits
<1>0. IInv /\ TypeOK /\ IInv'
  BY DEF LifeInv, IInv
<1>1. /\ sent' = [sent EXCEPT ![o][s] = @ + 1]
      /\ UNCHANGED <<items, stock, worker, faults>>
      /\ consumer[q].pc = "publish"
  BY DEF ConsumerPublish, Publish
<1>2. /\ q \in Queues /\ s \in Successors(q) /\ s # "order-submitted" /\ s \in Queues
      /\ s \notin {"inventory-confirmed", "inventory-failed", "payment-approved",
                   "payment-rejected", "shipping-created"}
  <2>1. q \in Queues /\ s # "nothing"
    BY <1>0, <1>1, QueuesAre DEF IInv, HandlersOK
  <2>2. s \in Successors(q)
    BY <2>1, Emits
  <2>3. s \in {"payment-requested", "shipping-requested"}
    BY <2>2 DEF Successors, ApiQueues
  <2> HIDE DEF s
  <2> QED BY <2>1, <2>2, <2>3, QueuesAre
<1>3. o \in Orders /\ o \in Stage(q)
  BY <1>0, <1>1, BusyHolds, HandsAre, OrdersAssumption DEF IInv, Stage
<1>4. sent[o][s] = 0
  BY <1>0, <1>2, <1>3, HeldIs
<1> HIDE DEF o, s
<1>5. /\ WantedMap' = WantedMap /\ LostOrders' = LostOrders
      /\ LegalFor(sent[o]) /\ LegalFor(sent'[o])
      /\ \A r \in Queues : sent'[o][r] = IF r = s THEN 1 ELSE sent[o][r]
      /\ PhaseMap[o] = PhaseOf(sent[o])
      /\ PhaseMap' = [PhaseMap EXCEPT ![o] = PhaseOf(sent'[o])]
  BY <1>0, <1>1, <1>2, <1>3, <1>4, LaterSteps
<1>6. PhaseOf(sent'[o]) = PhaseOf(sent[o])
  <2>1. \A r \in {"order-submitted", "inventory-confirmed", "inventory-failed",
                  "payment-approved", "payment-rejected", "shipping-created"} :
            sent'[o][r] = sent[o][r]
    BY <1>2, <1>5 DEF Queues, ApiQueues
  <2> QED BY <2>1 DEF PhaseOf
<1>7. PhaseMap' = PhaseMap
  BY <1>5, <1>6 DEF PhaseMap
<1>8. OnHand' = OnHand
  BY <1>1 DEF OnHand, Deducted
<1> QED
  BY <1>5, <1>7, <1>8
     DEF Lifecycle!lifecycle, PhaseMap, WantedMap, OnHand, LostOrders

-----------------------------------------------------------------------------
(***************************************************************************)
(* The steps that publish nothing.                                         *)
(***************************************************************************)

\* A request before its message is out, or after, or a consumer that writes a status, or
\* a handler that takes a message.
LEMMA QuietStep ==
    ASSUME LifeInv, IInv', [Next]_vars, ~Fault, sent' = sent, stock' = stock,
           \/ worker' = worker
           \/ worker.pc # "deduct" /\ \A p \in Products : Deducted(p)' = 0
    PROVE  UNCHANGED Lifecycle!lifecycle
<1>0. IInv /\ TypeOK
  BY DEF LifeInv, IInv
<1>1. LostOrders' = LostOrders
  BY <1>0, NoneLost
<1>2. ASSUME NEW p \in Products PROVE OnHand'[p] = OnHand[p]
  <2>1. Deducted(p)' = Deducted(p)
    <3>1. CASE worker' = worker /\ worker.pc = "deduct"
      <4>1. items'[worker.order] = items[worker.order]
        <5>1. ASSUME NEW o \in Orders, NEW r \in Requests, CheckoutCreate(o, r)
              PROVE  items'[worker.order] = items[worker.order]
          BY <3>1, <5>1, <1>0, CreatedIsNew
        <5> QED
          BY <5>1
             DEF Next, vars, CheckoutReject, CheckoutPublish, CheckoutFinish,
                 CheckoutThrows, PaymentDecide, InventoryCheck, InventoryDeduct,
                 InventoryConfirm, InventoryRefuse, ConsumerFirst, ConsumerSecond,
                 ConsumerPublish, ConsumerFails, PaymentReceive, Ship,
                 InventoryFails, PaymentFails, ShippingFails, OrderApiCrash,
                 BrokerRestart
      <4> QED BY <3>1, <4>1 DEF Deducted
    <3>2. CASE worker' = worker /\ worker.pc # "deduct"
      BY <3>2 DEF Deducted
    <3>3. CASE worker.pc # "deduct" /\ \A r \in Products : Deducted(r)' = 0
      BY <3>3 DEF Deducted
    <3> QED BY <3>1, <3>2, <3>3
  <2> QED BY <2>1 DEF OnHand
<1> QED BY <1>0, <1>1, <1>2, Unnoticed

\* The Inventory service takes a message: nothing of its lines is deducted yet.
LEMMA TakeStep ==
    ASSUME LifeInv, IInv', [Next]_vars, InventoryCheck
    PROVE  UNCHANGED Lifecycle!lifecycle
<1>0. IInv /\ TypeOK /\ TypeOK'
  BY DEF LifeInv, IInv
<1>1. /\ worker.pc = "idle" /\ worker'.next = 1
      /\ UNCHANGED <<sent, stock, faults>>
  BY DEF InventoryCheck
<1>2. ASSUME NEW p \in Products PROVE Deducted(p)' = 0
  <2>1. CASE worker'.pc = "deduct"
    <3>1. worker'.order \in Orders
      BY <2>1, OrdersAssumption DEF IInv, TypeOK, HandlersOK
    <3>2. items'[worker'.order] \in Seq([product : ProductIds, qty : Int])
      BY <1>0, <3>1 DEF TypeOK
    <3>3. Demand(SubSeq(items'[worker'.order], 1, 0), p) = 0
      BY <3>2, DemandUpTo
    <3> QED BY <1>1, <2>1, <3>3 DEF Deducted
  <2>2. CASE worker'.pc # "deduct"
    BY <2>2 DEF Deducted
  <2> QED BY <2>1, <2>2
<1>3. ~Fault
  BY <1>0, <1>1, NoFault
<1> QED BY <1>1, <1>2, <1>3, QuietStep

\* It deducts a line: what is deducted grows by what the stock lost.
LEMMA DeductStep ==
    ASSUME LifeInv, IInv', [Next]_vars, InventoryDeduct
    PROVE  UNCHANGED Lifecycle!lifecycle
<1> DEFINE o == worker.order
           n == worker.next
           line == items[o][n]
<1>0. IInv /\ TypeOK
  BY DEF LifeInv, IInv
<1>1. /\ worker.pc = "deduct" /\ n <= Len(items[o])
      /\ stock' = [stock EXCEPT ![line.product] = @ - line.qty]
      /\ worker' = [pc |-> "deduct", order |-> o, next |-> n + 1]
      /\ UNCHANGED <<items, sent, faults>>
  BY DEF InventoryDeduct
<1>2. o \in Orders /\ n \in Nat \ {0}
  BY <1>0, <1>1, BusyHolds DEF IInv, TypeOK
<1>3. items[o] \in Seq([product : ProductIds, qty : Int])
  BY <1>0, <1>2 DEF TypeOK
<1>4. n \in DOMAIN items[o] /\ n \in Nat
  BY <1>1, <1>2, <1>3, LenProperties
<1>5. line.product \in Products /\ line.qty \in Int
  BY <1>0, <1>2, <1>4, LinesAsk DEF LifeInv
<1>6. ASSUME NEW p \in Products PROVE OnHand'[p] = OnHand[p]
  <2>1. /\ Demand(SubSeq(items[o], 1, n - 1), p) \in Int
        /\ Demand(SubSeq(items[o], 1, n), p) =
               Demand(SubSeq(items[o], 1, n - 1), p)
                   + IF line.product = p THEN line.qty ELSE 0
    BY <1>3, <1>4, DemandUpTo
  <2>2. Deducted(p) = Demand(SubSeq(items[o], 1, n - 1), p)
    BY <1>1 DEF Deducted
  <2>3. Deducted(p)' = Demand(SubSeq(items[o], 1, n), p)
    <3>1. n + 1 - 1 = n
      BY <1>4
    <3>2. /\ worker'.pc = "deduct" /\ worker'.order = o /\ worker'.next = n + 1
          /\ items' = items
      BY <1>1
    <3> HIDE DEF o, n, line
    <3>3. Deducted(p)' = Demand(SubSeq(items'[worker'.order], 1, worker'.next - 1), p)
      BY <3>2 DEF Deducted
    <3>4. items'[worker'.order] = items[o]
      BY <3>2
    <3>5. worker'.next - 1 = n
      <4>1. n \in Nat
        BY <1>4
      <4> HIDE DEF n
      <4> QED BY <3>2, <4>1
    <3> QED BY <3>3, <3>4, <3>5
  <2>4. /\ stock[p] \in Int
        /\ stock'[p] = stock[p] - IF line.product = p THEN line.qty ELSE 0
    BY <1>0, <1>1, <1>5 DEF TypeOK
  <2>5. OnHand[p] = stock[p] + Deducted(p) /\ OnHand'[p] = stock'[p] + Deducted(p)'
    BY DEF OnHand
  <2> HIDE DEF o, n, line
  <2> QED BY <1>5, <2>1, <2>2, <2>3, <2>4, <2>5
<1>7. LostOrders' = LostOrders
  BY <1>0, <1>1, NoFault, NoneLost
<1> QED BY <1>0, <1>1, <1>6, <1>7, Unnoticed

\* A request that throws loses no order that was submitted.
LEMMA ThrowStep ==
    ASSUME LifeInv, [Next]_vars, NEW o \in Orders, CheckoutThrows(o)
    PROVE  UNCHANGED Lifecycle!lifecycle
<1>1. UNCHANGED <<items, stock, queue, worker, consumer, paying, sent>>
  BY DEF CheckoutThrows
<1>2. \A q \in Queues : Stage(q)' = Stage(q)
  BY <1>1, HandsAre DEF Stage, Waiting, Queues
<1>3. LostOrders' = LostOrders
  BY <1>1, <1>2 DEF LostOrders, AtRest, Sent, FinalQueues
<1>4. OnHand' = OnHand
  BY <1>1 DEF OnHand, Deducted
<1> QED BY <1>1, <1>3, <1>4, Unnoticed DEF LifeInv

-----------------------------------------------------------------------------
(***************************************************************************)
(* The failures.                                                           *)
(***************************************************************************)

Failure == \/ InventoryFails \/ PaymentFails \/ ShippingFails
           \/ \E q \in ApiQueues : ConsumerFails(q)
           \/ OrderApiCrash \/ BrokerRestart

\* The orders that a failure loses had not come to an end.
LEMMA NewlyLost ==
    ASSUME LifeInv, [Next]_vars, sent' = sent
    PROVE  /\ LostOrders' = LostOrders \cup (LostOrders' \ LostOrders)
           /\ \A o \in LostOrders' \ LostOrders :
                 o \in Orders /\ PhaseMap[o] \in {"submitted", "reserved", "approved"}
<1>1. LostOrders \subseteq LostOrders'
  BY LostGrow DEF LifeInv
<1>2. ASSUME NEW o \in LostOrders'
      PROVE  o \in Orders /\ PhaseMap[o] \in {"submitted", "reserved", "approved"}
  <2>1. /\ o \in Orders /\ Sent(o, "order-submitted")
        /\ \A q \in FinalQueues : ~Sent(o, q)
    BY DEF LostOrders, Sent, FinalQueues
  <2> QED BY <2>1, LostPhases DEF LifeInv
<1> QED BY <1>1, <1>2

\* A failure of the Inventory service while it deducts loses the order it has in hand,
\* with what was deducted for it.
LEMMA DeductingFails ==
    ASSUME LifeInv, [Next]_vars, InventoryFails, worker.pc = "deduct"
    PROVE  /\ worker.order \in LostOrders' \ LostOrders
           /\ PhaseMap[worker.order] = "submitted"
           /\ \A p \in Products :
                 /\ WantedMap[worker.order][p] <= OnHand[p]
                 /\ OnHand'[p] \in OnHand[p] - WantedMap[worker.order][p] .. OnHand[p]
<1> DEFINE s == "order-submitted"
<1>0. IInv /\ TypeOK /\ StageDiscipline /\ LegalHistory
  BY DEF LifeInv, IInv
<1>h. PICK o \in Orders : o = worker.order
  BY <1>0, BusyHolds DEF IInv
<1>1. /\ LoseDelivered(s) /\ worker' = IdleWorker
      /\ UNCHANGED <<items, stock, consumer, paying, sent>>
  BY DEF InventoryFails
<1>2. o \in Orders /\ o \in InHand(s) /\ o \in Stage(s) /\ s \in Queues
  BY <1>h, HandsAre, OrdersAssumption, QueuesAre DEF Stage
<1>3. /\ o \notin LostOrders /\ Sent(o, s)
      /\ sent[o]["inventory-confirmed"] = 0 /\ sent[o]["inventory-failed"] = 0
      /\ \A p \in Products : WantedMap[o][p] = Demand(items[o], p)
  BY <1>0, <1>2, HeldIs, SuccessorsAre
<1>4. LegalFor(sent[o]) /\ PhaseMap[o] = PhaseOf(sent[o])
  BY <1>0, <1>2, PhaseIs DEF PhaseMap
<1>5. PhaseMap[o] = "submitted"
  BY <1>3, <1>4, Phases DEF Sent
<1>6. \A q \in FinalQueues : ~Sent(o, q)
  BY <1>3, <1>4, LegalIs, FinalAre DEF Sent
<1>7. AtRest(o)'
  <2> SUFFICES ASSUME NEW q \in Queues PROVE o \notin Stage(q)'
    BY DEF AtRest
  <2>1. Waiting(q)' \subseteq Waiting(q)
    BY <1>0, <1>1, <1>2, Lost
  <2>2. CASE q = s
    <3>1. o \notin Waiting(s)
      BY <1>0, <1>2 DEF StageDiscipline
    <3>2. InHand(s)' = {}
      BY <1>1, HandsAre DEF IdleWorker
    <3> QED BY <2>1, <2>2, <3>1, <3>2 DEF Stage
  <2>3. CASE q # s
    <3>1. o \notin Stage(q)
      BY <1>0, <1>2, <2>3, InOnePlace DEF OnePlace
    <3>2. InHand(q)' = InHand(q)
      BY <1>1, <2>3, HandsAre DEF Queues
    <3> QED BY <2>1, <3>1, <3>2 DEF Stage
  <2> QED BY <2>2, <2>3
<1>8. o \in LostOrders' \ LostOrders
  BY <1>1, <1>2, <1>3, <1>6, <1>7 DEF LostOrders, Sent, FinalQueues
<1>9. ASSUME NEW p \in Products
      PROVE  /\ WantedMap[o][p] <= OnHand[p]
             /\ OnHand'[p] \in OnHand[p] - WantedMap[o][p] .. OnHand[p]
  <2>1. /\ Deducted(p) \in Nat /\ stock[p] \in Int
        /\ Deducted(p) <= Demand(items[o], p)
        /\ Demand(items[o], p) <= stock[p] + Deducted(p)
    BY <1>h, RestInStock DEF LifeInv
  <2>2. Demand(items[o], p) \in Nat
    BY <1>0, <1>2, LinesAsk DEF LifeInv
  <2>3. OnHand[p] = stock[p] + Deducted(p) /\ OnHand'[p] = stock[p]
    <3>1. Deducted(p)' = 0 /\ stock' = stock
      BY <1>1 DEF Deducted, IdleWorker
    <3> QED BY <2>1, <3>1 DEF OnHand
  <2>4. WantedMap[o][p] = Demand(items[o], p)
    BY <1>3
  <2> QED BY <2>1, <2>2, <2>3, <2>4
<1> QED BY <1>h, <1>5, <1>8, <1>9

\* So a failure loses orders, or nothing.
LEMMA FailStep ==
    ASSUME LifeInv, IInv', [Next]_vars, Failure
    PROVE  Lifecycle!Lose \/ UNCHANGED Lifecycle!lifecycle
<1> DEFINE S == LostOrders' \ LostOrders
<1>0. IInv /\ TypeOK
  BY DEF LifeInv, IInv
<1>1. MaxFaults > 0
  <2>1. Fault
    BY DEF Failure, InventoryFails, PaymentFails, ShippingFails, ConsumerFails,
           OrderApiCrash, BrokerRestart
  <2> QED BY <1>0, <2>1, FaultsAssumption DEF Fault, TypeOK
<1>2. UNCHANGED <<items, stock, sent>> /\ (InventoryFails \/ worker' = worker)
  BY DEF Failure, InventoryFails, PaymentFails, ShippingFails, ConsumerFails,
         OrderApiCrash, BrokerRestart
<1>3. /\ LostOrders' = LostOrders \cup S
      /\ \A o \in S : o \in Orders /\ PhaseMap[o] \in {"submitted", "reserved", "approved"}
  BY <1>2, NewlyLost
<1>4. PhaseMap' = PhaseMap /\ WantedMap' = WantedMap
  BY <1>2, PhaseIs DEF PhaseMap, WantedMap, Sent
<1>5. CASE InventoryFails /\ worker.pc = "deduct"
  <2>1. /\ worker.order \in S
        /\ PhaseMap[worker.order] = "submitted"
        /\ \A p \in Products :
              /\ WantedMap[worker.order][p] <= OnHand[p]
              /\ OnHand'[p] \in OnHand[p] - WantedMap[worker.order][p] .. OnHand[p]
    BY <1>5, DeductingFails
  <2> HIDE DEF S
  <2>2. S \in (SUBSET Orders) \ {{}}
    BY <1>3, <2>1
  <2>3. Lifecycle!Lose
    BY <1>1, <1>3, <1>4, <2>1, <2>2
       DEF Lifecycle!Lose, PhaseMap, WantedMap, OnHand, LostOrders
  <2> QED BY <2>3
<1>6. CASE ~(InventoryFails /\ worker.pc = "deduct")
  <2>1. OnHand' = OnHand
    <3>1. \A p \in Products : Deducted(p)' = Deducted(p)
      BY <1>2, <1>6 DEF Deducted, InventoryFails, IdleWorker
    <3> QED BY <1>2, <3>1 DEF OnHand
  <2>2. CASE S = {}
    <3>1. LostOrders' = LostOrders
      BY <1>3, <2>2
    <3> QED BY <1>0, <1>2, <2>1, <3>1, Unnoticed
  <2>3. CASE S # {}
    <3> HIDE DEF S
    <3>1. S \in (SUBSET Orders) \ {{}}
      BY <1>3, <2>3
    <3>2. Lifecycle!Lose
      BY <1>1, <1>3, <1>4, <2>1, <3>1
         DEF Lifecycle!Lose, PhaseMap, WantedMap, OnHand, LostOrders
    <3> QED BY <3>2
  <2> QED BY <2>2, <2>3
<1> QED BY <1>5, <1>6

-----------------------------------------------------------------------------

\* Every step of the pipeline is a step of the lifecycle, or none.
LEMMA NextMaps ==
    ASSUME LifeInv, IInv', [Next]_vars
    PROVE  [Lifecycle!Next]_Lifecycle!lifecycle
<1>0. IInv /\ TypeOK
  BY DEF LifeInv, IInv
<1>1. ASSUME sent' = sent, stock' = stock, faults' = faults, worker' = worker
      PROVE  UNCHANGED Lifecycle!lifecycle
  BY <1>0, <1>1, NoFault, QuietStep
<1>2. ASSUME NEW o \in Orders,
             \/ \E r \in Requests : CheckoutReject(o, r) \/ CheckoutCreate(o, r)
             \/ CheckoutFinish(o)
      PROVE  UNCHANGED Lifecycle!lifecycle
  BY <1>1, <1>2 DEF CheckoutReject, CheckoutCreate, CheckoutFinish
<1>3. ASSUME NEW o \in Orders, CheckoutPublish(o) PROVE Lifecycle!Next
  BY <1>3, SubmitStep DEF Lifecycle!Next
<1>4. ASSUME NEW o \in Orders, PaymentDecide(o) PROVE Lifecycle!Next
  BY <1>4, DecideStep DEF Lifecycle!Next
<1>5. ASSUME InventoryConfirm \/ InventoryRefuse PROVE Lifecycle!Next
  <2>1. ASSUME NEW o \in Orders, Lifecycle!Reserve(o) PROVE Lifecycle!Next
    BY <2>1 DEF Lifecycle!Next
  <2>2. ASSUME NEW o \in Orders, Lifecycle!Refuse(o) PROVE Lifecycle!Next
    BY <2>2 DEF Lifecycle!Next
  <2> QED BY <1>5, <2>1, <2>2, ReserveStep, RefuseStep
<1>6. ASSUME Ship PROVE Lifecycle!Next
  BY <1>6, ShipStep DEF Lifecycle!Next
<1>7. ASSUME NEW q \in ApiQueues, ConsumerFirst(q) \/ ConsumerSecond(q)
      PROVE  UNCHANGED Lifecycle!lifecycle
  BY <1>1, <1>7 DEF ConsumerFirst, ConsumerSecond
<1>8. ASSUME PaymentReceive PROVE UNCHANGED Lifecycle!lifecycle
  BY <1>1, <1>8 DEF PaymentReceive
<1>9. ASSUME Failure PROVE [Lifecycle!Next]_Lifecycle!lifecycle
  BY <1>9, FailStep DEF Lifecycle!Next
<1>10. ASSUME UNCHANGED vars PROVE UNCHANGED Lifecycle!lifecycle
  BY <1>1, <1>10 DEF vars
<1> QED
  BY <1>2, <1>3, <1>4, <1>5, <1>6, <1>7, <1>8, <1>9, <1>10,
     ThrowStep, PassOnStep, TakeStep, DeductStep
     DEF Next, Failure

\* For requests that name no product twice, the pipeline does only what the lifecycle
\* allows, whatever fails: its separate check and updates of the stock are one
\* reservation, and no failure makes a step happen twice, out of order or for less.
THEOREM KeepsLifecycle ==
    ASSUME \A r \in Requests : DistinctLines(r.items)
    PROVE  Spec => Lifecycle!Safety
<1>1. Init => LifeInv /\ Lifecycle!Init
  <2> SUFFICES ASSUME Init PROVE LifeInv /\ Lifecycle!Init
    OBVIOUS
  <2>1. /\ \A o \in Orders : items[o] = <<>> /\ checkout[o] = "idle"
        /\ \A o \in Orders : \A q \in Queues : sent[o][q] = 0
        /\ stock = InitialStock /\ worker.pc = "idle"
    BY DEF Init, IdleWorker
  <2>2. \A o \in Orders : DOMAIN items[o] = {}
    BY <2>1
  <2>3. WithinLines /\ StockInHand /\ StockNeverNegative /\ OrdersHaveLines /\ RefusedShort
    BY <2>1, <2>2, StockAssumption
       DEF WithinLines, StockInHand, StockNeverNegative, DistinctLines,
           OrdersHaveLines, RefusedShort
  <2>4. LifeInv
    BY <2>3, InitIInv DEF LifeInv
  <2>5. \A o \in Orders : \A q \in Queues : ~Sent(o, q)
    BY <2>1 DEF Sent
  <2>6. PhaseMap = [o \in Orders |-> "none"]
    <3>1. ASSUME NEW o \in Orders PROVE PhaseMap[o] = "none"
      <4>1. LegalFor(sent[o]) /\ PhaseMap[o] = PhaseOf(sent[o])
        BY <2>4, PhaseIs DEF LifeInv, IInv, PhaseMap
      <4>2. ~(sent[o]["order-submitted"] = 1)
        BY <2>5, QueuesAre DEF Sent
      <4> QED BY <4>1, <4>2, Phases
    <3> QED BY <3>1 DEF PhaseMap
  <2>7. WantedMap = [o \in Orders |-> Lifecycle!Nothing] /\ LostOrders = {}
    BY <2>5, QueuesAre DEF WantedMap, LostOrders, Lifecycle!Nothing
  <2>8. OnHand = InitialStock
    <3>1. \A p \in Products : OnHand[p] = InitialStock[p]
      BY <2>1, StockAssumption DEF OnHand, Deducted
    <3> QED BY <3>1, StockAssumption DEF OnHand
  <2>9. Lifecycle!Init
    BY <2>6, <2>7, <2>8
       DEF Lifecycle!Init, PhaseMap, WantedMap, OnHand, LostOrders
  <2> QED BY <2>4, <2>9
<1>2. LifeInv /\ IInv' /\ [Next]_vars => LifeInv' /\ [Lifecycle!Next]_Lifecycle!lifecycle
  BY NextLife, NextMaps
<1> QED BY <1>1, <1>2, Inductive, PTL DEF Spec, Lifecycle!Safety
=============================================================================
