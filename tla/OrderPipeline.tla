--------------------------- MODULE OrderPipeline ---------------------------
(***************************************************************************)
(* The distributed order workflow of the repository: the checkout endpoint *)
(* of the Order API, the Inventory, Payment and Shipping services, and the *)
(* five background consumers by which the Order API learns what became of  *)
(* an order.  The parts share nothing but RabbitMQ queues and one SQLite   *)
(* file that holds the orders and the stock.                               *)
(*                                                                         *)
(* One checkout request is one element of Orders (each request makes a new *)
(* Guid), so all the requests run concurrently with one another and with   *)
(* every service.  Each queue has one consumer.  A message is its order:   *)
(* no handler uses anything else of it, except the lines of order-submitted*)
(* which are those of the order.                                           *)
(*                                                                         *)
(* An operator named after another one and a slip, as in HasStock_AnyLeft, *)
(* is a mutant: what the code would do with that mistake in it.  None of   *)
(* them is part of the model; each shows that some property notices.       *)
(***************************************************************************)
EXTENDS OrderLines

CONSTANTS
    Orders,       \* the orders checkout requests may create
    NoOrder,      \* what an idle handler holds
    ProductIds,   \* the ids a request may name
    Products,     \* the rows of table Products
    InitialStock, \* their StockQuantity before the first order
    Requests,     \* the bodies POST /api/orders/checkout may receive
    MaxFaults     \* bound on the number of failures in a behaviour

Request == [email : {"blank", "given"},
            items : Seq([product : ProductIds, qty : Int])]

ASSUME OrdersAssumption   == NoOrder \notin Orders
ASSUME ProductsAssumption == Products \subseteq ProductIds
ASSUME StockAssumption    == InitialStock \in [Products -> Nat]
ASSUME RequestsAssumption == Requests \subseteq Request
ASSUME FaultsAssumption   == MaxFaults \in Nat

VARIABLES
    checkout, \* where the request of an order is in OrdersController.Checkout
    items,    \* the lines of an order (table OrderItems and OrderSubmitted)
    status,   \* Orders.Status, "Absent" while there is no row
    stock,    \* Products.StockQuantity
    queue,    \* the messages a queue holds, delivered to its consumer or not
    worker,   \* the handler of the Inventory service
    consumer, \* the handlers of the Order API's consumers
    paying,   \* the payments waiting out their delay in the Payment service
    sent,     \* how often a message was published for an order, per queue
    faults    \* failures so far

vars == <<checkout, items, status, stock, queue, worker, consumer, paying,
          sent, faults>>

-----------------------------------------------------------------------------

\* The enumeration, with its values: a later stage has a greater one.
OrderStatus ==
    [Submitted         |-> 1, InventoryPending |-> 2, InventoryConfirmed |-> 3,
     InventoryFailed   |-> 4, PaymentPending   |-> 5, PaymentApproved    |-> 6,
     PaymentFailed     |-> 7, ShippingPending  |-> 8, ShippingCreated    |-> 9,
     Completed         |-> 10, Failed          |-> 11]

\* The queues the Order API consumes, and all of them.
ApiQueues == {"inventory-confirmed", "inventory-failed", "payment-approved",
              "payment-rejected", "shipping-created"}

Queues == ApiQueues \cup
          {"order-submitted", "payment-requested", "shipping-requested"}

\* What each consumer of the Order API does with a message: the two statuses
\* it writes, and the queue it then publishes to.
InventoryConfirmedConsumer ==
    [first |-> "InventoryConfirmed", second |-> "PaymentPending",
     emits |-> "payment-requested"]
\* Mutant: copied from the consumer of confirmations, one status left over.
InventoryFailedConsumer_Copied ==
    [first |-> "InventoryConfirmed", second |-> "Failed", emits |-> "nothing"]
\* Mutant: the final status is forgotten.
InventoryFailedConsumer_NotFinal ==
    [first |-> "InventoryFailed", second |-> "InventoryFailed",
     emits |-> "nothing"]

InventoryFailedConsumer ==
    [first |-> "InventoryFailed", second |-> "Failed", emits |-> "nothing"]
\* Mutant: the two writes swapped.
PaymentApprovedConsumer_Swapped ==
    [first |-> "ShippingPending", second |-> "PaymentApproved",
     emits |-> "shipping-requested"]

PaymentApprovedConsumer ==
    [first |-> "PaymentApproved", second |-> "ShippingPending",
     emits |-> "shipping-requested"]
\* Mutant: copied from the consumer of approvals, one status left over.
PaymentRejectedConsumer_Copied ==
    [first |-> "PaymentFailed", second |-> "ShippingPending",
     emits |-> "nothing"]

PaymentRejectedConsumer ==
    [first |-> "PaymentFailed", second |-> "Failed", emits |-> "nothing"]
ShippingCreatedConsumer ==
    [first |-> "ShippingCreated", second |-> "Completed", emits |-> "nothing"]

Consumer(q) ==
    CASE q = "inventory-confirmed" -> InventoryConfirmedConsumer
      [] q = "inventory-failed"    -> InventoryFailedConsumer
      [] q = "payment-approved"    -> PaymentApprovedConsumer
      [] q = "payment-rejected"    -> PaymentRejectedConsumer
      [] q = "shipping-created"    -> ShippingCreatedConsumer

IdleWorker   == [pc |-> "idle", order |-> NoOrder, next |-> 1]
IdleConsumer == [pc |-> "idle", order |-> NoOrder]

Init ==
    /\ checkout = [o \in Orders |-> "idle"]
    /\ items = [o \in Orders |-> <<>>]
    /\ status = [o \in Orders |-> "Absent"]
    /\ stock = InitialStock
    /\ queue = [q \in Queues |-> <<>>]
    /\ worker = IdleWorker
    /\ consumer = [q \in ApiQueues |-> IdleConsumer]
    /\ paying = {}
    /\ sent = [o \in Orders |-> [q \in Queues |-> 0]]
    /\ faults = 0

\* Publishing appends to a queue that its publisher has declared.
Publish(q, o) ==
    /\ queue' = [queue EXCEPT ![q] = Append(@, o)]
    /\ sent' = [sent EXCEPT ![o][q] = @ + 1]

\* UpdateOrderStatus writes whatever the row holds by now: the row is read,
\* but only to see that it is there.
UpdateOrderStatus(o, s) ==
    status' = [status EXCEPT ![o] = IF @ = "Absent" THEN @ ELSE s]

-----------------------------------------------------------------------------
(***************************************************************************)
(* OrdersController.Checkout                                               *)
(***************************************************************************)

\* Mutant: the products of the lines are not looked up.
Valid_AnyProduct(r) ==
    /\ r.items # <<>>
    /\ r.email = "given"
    /\ \A i \in DOMAIN r.items : r.items[i].qty > 0

\* Lines may name one product twice: the ids looked up are the distinct ones.
Valid(r) ==
    /\ r.items # <<>>
    /\ r.email = "given"
    /\ \A i \in DOMAIN r.items : /\ r.items[i].product \in Products
                                 /\ r.items[i].qty > 0

\* 400: nothing is stored.
CheckoutReject(o, r) ==
    /\ checkout[o] = "idle"
    /\ ~Valid(r)
    /\ checkout' = [checkout EXCEPT ![o] = "rejected"]
    /\ UNCHANGED <<items, status, stock, queue, worker, consumer, paying, sent,
                   faults>>

CheckoutCreate(o, r) ==
    /\ checkout[o] = "idle"
    /\ Valid(r)
    /\ checkout' = [checkout EXCEPT ![o] = "created"]
    /\ items' = [items EXCEPT ![o] = r.items]
    /\ status' = [status EXCEPT ![o] = "Submitted"]
    /\ UNCHANGED <<stock, queue, worker, consumer, paying, sent, faults>>

\* Mutant: published again until the request is through.
CheckoutPublish_Again(o) ==
    /\ checkout[o] = "created"
    /\ \E pc \in {"created", "published"} :
           checkout' = [checkout EXCEPT ![o] = pc]
    /\ Publish("order-submitted", o)
    /\ UNCHANGED <<items, status, stock, worker, consumer, paying, faults>>

CheckoutPublish(o) ==
    /\ checkout[o] = "created"
    /\ checkout' = [checkout EXCEPT ![o] = "published"]
    /\ Publish("order-submitted", o)
    /\ UNCHANGED <<items, status, stock, worker, consumer, paying, faults>>

\* The status is written after the message is out, then 200 is answered.
CheckoutFinish(o) ==
    /\ checkout[o] = "published"
    /\ checkout' = [checkout EXCEPT ![o] = "answered"]
    /\ UpdateOrderStatus(o, "InventoryPending")
    /\ UNCHANGED <<items, stock, queue, worker, consumer, paying, sent, faults>>

-----------------------------------------------------------------------------
(***************************************************************************)
(* The Inventory service: one handler at a time.  It is the only writer of *)
(* StockQuantity, so its check of all the lines is one step; its updates,  *)
(* each committed by itself, are one step per line.                        *)
(***************************************************************************)

\* Mutants: any quantity left will do; one unit is kept back.
HasStock_AnyLeft(lines) ==
    \A i \in DOMAIN lines : stock[lines[i].product] > 0

HasStock_KeepOne(lines) ==
    \A i \in DOMAIN lines : stock[lines[i].product] > lines[i].qty

HasStock(lines) ==
    \A i \in DOMAIN lines : stock[lines[i].product] >= lines[i].qty

InventoryCheck ==
    /\ worker.pc = "idle"
    /\ queue["order-submitted"] # <<>>
    /\ LET o == Head(queue["order-submitted"]) IN
       worker' = [pc |-> IF HasStock(items[o]) THEN "deduct" ELSE "refuse",
                  order |-> o, next |-> 1]
    /\ queue' = [queue EXCEPT !["order-submitted"] = Tail(@)]
    /\ UNCHANGED <<checkout, items, status, stock, consumer, paying, sent, faults>>

InventoryDeduct ==
    /\ worker.pc = "deduct"
    /\ worker.next <= Len(items[worker.order])
    /\ LET line == items[worker.order][worker.next] IN
       stock' = [stock EXCEPT ![line.product] = @ - line.qty]
    /\ worker' = [pc |-> "deduct", order |-> worker.order, next |-> worker.next + 1]
    /\ UNCHANGED <<checkout, items, status, queue, consumer, paying, sent, faults>>

\* Mutant: the loop stops before the last line.
InventoryConfirm_LastLineLeft ==
    /\ worker.pc = "deduct"
    /\ worker.next >= Len(items[worker.order])
    /\ Publish("inventory-confirmed", worker.order)
    /\ worker' = IdleWorker
    /\ UNCHANGED <<checkout, items, status, stock, consumer, paying, faults>>

InventoryConfirm ==
    /\ worker.pc = "deduct"
    /\ worker.next > Len(items[worker.order])
    /\ Publish("inventory-confirmed", worker.order)
    /\ worker' = IdleWorker
    /\ UNCHANGED <<checkout, items, status, stock, consumer, paying, faults>>

\* Mutants: no return after the refusal, so the updates follow it; the message
\* is put back in the hope of more stock; nothing is published.
InventoryRefuse_GoesOn ==
    /\ worker.pc = "refuse"
    /\ Publish("inventory-failed", worker.order)
    /\ worker' = [worker EXCEPT !.pc = "deduct"]
    /\ UNCHANGED <<checkout, items, status, stock, consumer, paying, faults>>

InventoryRefuse_Requeues ==
    /\ worker.pc = "refuse"
    /\ queue' = [queue EXCEPT !["order-submitted"] = Append(@, worker.order)]
    /\ worker' = IdleWorker
    /\ UNCHANGED <<checkout, items, status, stock, consumer, paying, sent, faults>>

InventoryRefuse_Silent ==
    /\ worker.pc = "refuse"
    /\ worker' = IdleWorker
    /\ UNCHANGED <<checkout, items, status, stock, queue, consumer, paying, sent,
                   faults>>

InventoryRefuse ==
    /\ worker.pc = "refuse"
    /\ Publish("inventory-failed", worker.order)
    /\ worker' = IdleWorker
    /\ UNCHANGED <<checkout, items, status, stock, consumer, paying, faults>>

InventoryStep ==
    InventoryCheck \/ InventoryDeduct \/ InventoryConfirm \/ InventoryRefuse

-----------------------------------------------------------------------------
(***************************************************************************)
(* The consumers of the Order API, one per queue, each serial.             *)
(***************************************************************************)

\* A message is taken and the first of its two statuses written.
ConsumerFirst(q) ==
    /\ consumer[q].pc = "idle"
    /\ queue[q] # <<>>
    /\ consumer' = [consumer EXCEPT ![q] = [pc |-> "second",
                                            order |-> Head(queue[q])]]
    /\ queue' = [queue EXCEPT ![q] = Tail(@)]
    /\ UpdateOrderStatus(Head(queue[q]), Consumer(q).first)
    /\ UNCHANGED <<checkout, items, stock, worker, paying, sent, faults>>

ConsumerSecond(q) ==
    /\ consumer[q].pc = "second"
    /\ UpdateOrderStatus(consumer[q].order, Consumer(q).second)
    /\ consumer' = [consumer EXCEPT ![q] =
                       IF Consumer(q).emits = "nothing" THEN IdleConsumer
                       ELSE [pc |-> "publish", order |-> consumer[q].order]]
    /\ UNCHANGED <<checkout, items, stock, queue, worker, paying, sent, faults>>

ConsumerPublish(q) ==
    /\ consumer[q].pc = "publish"
    /\ Publish(Consumer(q).emits, consumer[q].order)
    /\ consumer' = [consumer EXCEPT ![q] = IdleConsumer]
    /\ UNCHANGED <<checkout, items, status, stock, worker, paying, faults>>

ConsumerStep(q) == ConsumerFirst(q) \/ ConsumerSecond(q) \/ ConsumerPublish(q)

-----------------------------------------------------------------------------
(***************************************************************************)
(* The Payment service: the handler yields for its delay, so any number of *)
(* payments are in flight and their results come in any order.  The result *)
(* is drawn at random.                                                     *)
(***************************************************************************)

\* Mutant: one field holds the payment in flight.
PaymentReceive_OneAtATime ==
    /\ queue["payment-requested"] # <<>>
    /\ paying' = {Head(queue["payment-requested"])}
    /\ queue' = [queue EXCEPT !["payment-requested"] = Tail(@)]
    /\ UNCHANGED <<checkout, items, status, stock, worker, consumer, sent, faults>>

PaymentReceive ==
    /\ queue["payment-requested"] # <<>>
    /\ paying' = paying \cup {Head(queue["payment-requested"])}
    /\ queue' = [queue EXCEPT !["payment-requested"] = Tail(@)]
    /\ UNCHANGED <<checkout, items, status, stock, worker, consumer, sent, faults>>

PaymentDecide(o) ==
    /\ o \in paying
    /\ paying' = paying \ {o}
    /\ \E outcome \in {"payment-approved", "payment-rejected"} :
           Publish(outcome, o)
    /\ UNCHANGED <<checkout, items, status, stock, worker, consumer, faults>>

\* The Shipping service keeps nothing: a request becomes a tracking number.
Ship ==
    /\ queue["shipping-requested"] # <<>>
    /\ LET o == Head(queue["shipping-requested"]) IN
       /\ queue' = [queue EXCEPT !["shipping-requested"] = Tail(@),
                                 !["shipping-created"] = Append(@, o)]
       /\ sent' = [sent EXCEPT ![o]["shipping-created"] = @ + 1]
    /\ UNCHANGED <<checkout, items, status, stock, worker, consumer, paying,
                   faults>>

-----------------------------------------------------------------------------
(***************************************************************************)
(* Failures.  Messages are acknowledged when they are delivered and no     *)
(* prefetch limit is set, so whatever of a queue has been delivered, any   *)
(* prefix of it, is lost with its consumer, and nothing is delivered again.*)
(* A handler that throws (a locked database, a broken connection) loses    *)
(* only its own message: the case of an empty prefix, or of one message if *)
(* it throws before its first effect.  A process or broker that has ended  *)
(* is assumed to be started again; the step is both.                       *)
(***************************************************************************)

Fault == faults < MaxFaults /\ faults' = faults + 1

\* The consumer of q fails with the first messages of q delivered to it.
LoseDelivered(q) ==
    \E n \in 0 .. Len(queue[q]) :
        queue' = [queue EXCEPT ![q] = SubSeq(@, n + 1, Len(@))]

\* Where the non-empty queues among S may be cut in two.
Cuts(S) ==
    LET NonEmpty == {q \in S : queue[q] # <<>>}
        Longest  == CHOOSE n \in {Len(queue[q]) : q \in Queues} :
                        \A q \in Queues : Len(queue[q]) <= n
    IN  {cut \in [NonEmpty -> 0 .. Longest] :
            \A q \in NonEmpty : cut[q] <= Len(queue[q])}

\* Mutant: the request is retried from its publication.
CheckoutThrows_Retries(o) ==
    /\ Fault
    /\ checkout[o] \in {"created", "published"}
    /\ checkout' = [checkout EXCEPT ![o] = "created"]
    /\ UNCHANGED <<items, status, stock, queue, worker, consumer, paying, sent>>

\* PublishAsync or SaveChanges throws: 500, and what was done stays done.
CheckoutThrows(o) ==
    /\ Fault
    /\ checkout[o] \in {"created", "published"}
    /\ checkout' = [checkout EXCEPT ![o] = "failed"]
    /\ UNCHANGED <<items, status, stock, queue, worker, consumer, paying, sent>>

\* Mutant: the message in hand is handled again from its first line.
InventoryFails_StartsOver ==
    /\ Fault
    /\ LoseDelivered("order-submitted")
    /\ worker' = [worker EXCEPT !.next = 1]
    /\ UNCHANGED <<checkout, items, status, stock, consumer, paying, sent>>

InventoryFails ==
    /\ Fault
    /\ LoseDelivered("order-submitted")
    /\ worker' = IdleWorker
    /\ UNCHANGED <<checkout, items, status, stock, consumer, paying, sent>>

\* An exception after the delay escapes an async void handler and ends the
\* process, and with it every payment in flight.
PaymentFails ==
    /\ Fault
    /\ LoseDelivered("payment-requested")
    /\ paying' = {}
    /\ UNCHANGED <<checkout, items, status, stock, worker, consumer, sent>>

ShippingFails ==
    /\ Fault
    /\ LoseDelivered("shipping-requested")
    /\ UNCHANGED <<checkout, items, status, stock, worker, consumer, paying, sent>>

ConsumerFails(q) ==
    /\ Fault
    /\ LoseDelivered(q)
    /\ consumer' = [consumer EXCEPT ![q] = IdleConsumer]
    /\ UNCHANGED <<checkout, items, status, stock, worker, paying, sent>>

\* The Order API takes its five consumers and the open requests with it.
OrderApiCrash ==
    /\ Fault
    /\ \E cut \in Cuts(ApiQueues) :
           queue' = [q \in Queues |->
                        IF q \in DOMAIN cut
                        THEN SubSeq(queue[q], cut[q] + 1, Len(queue[q]))
                        ELSE queue[q]]
    /\ consumer' = [q \in ApiQueues |-> IdleConsumer]
    /\ checkout' = [o \in Orders |-> IF checkout[o] \in {"created", "published"}
                                     THEN "failed" ELSE checkout[o]]
    /\ UNCHANGED <<items, status, stock, worker, paying, sent>>

\* The queues are not durable and the broker has no volume: at most what it
\* had delivered, a prefix of each queue, is still handled.
BrokerRestart ==
    /\ Fault
    /\ \E cut \in Cuts(Queues) :
           queue' = [q \in Queues |->
                        IF q \in DOMAIN cut THEN SubSeq(queue[q], 1, cut[q])
                        ELSE <<>>]
    /\ UNCHANGED <<checkout, items, status, stock, worker, consumer, paying, sent>>

-----------------------------------------------------------------------------

Next ==
    \/ \E o \in Orders :
          \/ \E r \in Requests : CheckoutReject(o, r) \/ CheckoutCreate(o, r)
          \/ CheckoutPublish(o)
          \/ CheckoutFinish(o)
          \/ CheckoutThrows(o)
          \/ PaymentDecide(o)
    \/ InventoryCheck
    \/ InventoryDeduct
    \/ InventoryConfirm
    \/ InventoryRefuse
    \/ \E q \in ApiQueues :
          \/ ConsumerFirst(q)
          \/ ConsumerSecond(q)
          \/ ConsumerPublish(q)
          \/ ConsumerFails(q)
    \/ PaymentReceive
    \/ Ship
    \/ InventoryFails
    \/ PaymentFails
    \/ ShippingFails
    \/ OrderApiCrash
    \/ BrokerRestart

Spec == Init /\ [][Next]_vars

\* A request that was accepted runs to its end, and each handler goes on as
\* long as there are messages: both run on threads of their own.  Nothing
\* obliges a customer to check out, or a failure to happen.
Fairness ==
    /\ \A o \in Orders : /\ WF_vars(CheckoutPublish(o))
                         /\ WF_vars(CheckoutFinish(o))
                         /\ WF_vars(PaymentDecide(o))
    /\ WF_vars(InventoryStep)
    /\ WF_vars(PaymentReceive)
    /\ WF_vars(Ship)
    /\ \A q \in ApiQueues : WF_vars(ConsumerStep(q))

FairSpec == Spec /\ Fairness

-----------------------------------------------------------------------------
(***************************************************************************)
(* Where an order is.                                                      *)
(***************************************************************************)

\* The orders whose message is in q, and those whose message the handler of
\* q's consumer has in hand.
Waiting(q) == Range(queue[q])

InHand(q) ==
    CASE q = "order-submitted"    -> {worker.order} \ {NoOrder}
      [] q = "payment-requested"  -> paying
      [] q = "shipping-requested" -> {}
      [] OTHER                    -> {consumer[q].order} \ {NoOrder}

Stage(q) == Waiting(q) \cup InHand(q)

\* The order in no queue and in no handler: nothing more will be done for it.
AtRest(o) == \A q \in Queues : o \notin Stage(q)

\* The messages that may follow a message of q, and the last ones.
Successors(q) ==
    CASE q = "order-submitted"     -> {"inventory-confirmed", "inventory-failed"}
      [] q = "inventory-confirmed" -> {"payment-requested"}
      [] q = "payment-requested"   -> {"payment-approved", "payment-rejected"}
      [] q = "payment-approved"    -> {"shipping-requested"}
      [] q = "shipping-requested"  -> {"shipping-created"}
      [] OTHER                     -> {}

FinalQueues == {q \in Queues : Successors(q) = {}}

Sent(o, q) == sent[o][q] = 1

\* The orders whose stock is reserved, how many of product p that is, and how many
\* the Inventory service has deducted for the order it has in hand.
Confirmed == {o \in Orders : Sent(o, "inventory-confirmed")}

Reserved(p) == SumFunctionOnSet([o \in Orders |-> Demand(items[o], p)], Confirmed)

Deducted(p) ==
    IF worker.pc = "deduct"
    THEN Demand(SubSeq(items[worker.order], 1, worker.next - 1), p)
    ELSE 0

-----------------------------------------------------------------------------
(***************************************************************************)
(* Properties.                                                             *)
(***************************************************************************)

\* Whatever a request has named: the lines of the orders that are stored have
\* products with a row and quantities above zero.
LinesStored ==
    \A o \in Orders : \A i \in DOMAIN items[o] :
        items[o][i].product \in Products /\ items[o][i].qty > 0

TypeOK ==
    /\ checkout \in [Orders -> {"idle", "rejected", "created", "published",
                                "answered", "failed"}]
    /\ items \in [Orders -> Seq([product : ProductIds, qty : Int])]
    /\ LinesStored
    /\ status \in [Orders -> DOMAIN OrderStatus \cup {"Absent"}]
    /\ stock \in [Products -> Int]
    /\ queue \in [Queues -> Seq(Orders)]
    /\ worker \in [pc : {"idle", "deduct", "refuse"},
                   order : Orders \cup {NoOrder}, next : Nat \ {0}]
    /\ consumer \in [ApiQueues -> [pc : {"idle", "second", "publish"},
                                  order : Orders \cup {NoOrder}]]
    /\ paying \subseteq Orders
    /\ sent \in [Orders -> [Queues -> Nat]]
    /\ faults \in 0 .. MaxFaults

\* The messages ever published for an order are a legal history of it: each
\* at most once, each after the one that causes it, and of two alternative
\* outcomes at most one.  So an order is paid at most once and only with its
\* stock reserved, shipped at most once and only if paid, and never both
\* refused or rejected and shipped, whatever fails and is lost on the way.
LegalHistory ==
    \A o \in Orders :
        /\ \A q \in Queues : sent[o][q] <= 1
        /\ \A q \in Queues : \A s \in Successors(q) : Sent(o, s) => Sent(o, q)
        /\ \A q \in Queues : \A s, t \in Successors(q) :
               Sent(o, s) /\ Sent(o, t) => s = t

\* An order is in one place at most: no two handlers ever work for the same
\* order, and no message of it waits while another is handled.
OnePlace ==
    \A q \in Queues :
        /\ IsInjective(queue[q])
        /\ Waiting(q) \cap InHand(q) = {}
        /\ \A r \in Queues \ {q} : Stage(q) \cap Stage(r) = {}

\* What a status tells of an order: a message of these was published for it.
Tells ==
    [InventoryConfirmed |-> {"inventory-confirmed"},
     InventoryFailed    |-> {"inventory-failed"},
     PaymentPending     |-> {"inventory-confirmed"},
     PaymentApproved    |-> {"payment-approved"},
     PaymentFailed      |-> {"payment-rejected"},
     ShippingPending    |-> {"payment-approved"},
     ShippingCreated    |-> {"shipping-created"},
     Completed          |-> {"shipping-created"},
     Failed             |-> {"inventory-failed", "payment-rejected"}]

\* What the customer portal and the dashboard show has happened: a paid, refused
\* or shipped order is shown as such only after the service said so of this
\* order.  A status may lag behind the pipeline, it is never ahead of it.
StatusHonest ==
    \A o \in Orders :
        status[o] \in DOMAIN Tells => \E q \in Tells[status[o]] : Sent(o, q)

\* While nothing fails no message is dropped: an order whose OrderSubmitted is
\* out is in some place of the pipeline until its last message was handled.
NothingForgotten ==
    faults = 0 =>
        \A o \in Orders :
            Sent(o, "order-submitted") /\ AtRest(o) =>
                \E q \in FinalQueues : Sent(o, q)

\* While nothing fails the stock is the initial one less what was reserved for
\* the orders confirmed so far and the lines the Inventory service has already
\* deducted for the one in hand: no update is lost or made twice.  (A payment
\* rejected later gives nothing back.)
StockAccounted ==
    faults = 0 =>
        \A p \in Products : stock[p] = InitialStock[p] - Reserved(p) - Deducted(p)

\* Whatever fails, no product is sold more often than it was in stock: the
\* check of the lines before the updates is enough for an order that names no
\* product twice.
StockNeverNegative == \A p \in Products : stock[p] >= 0

\* A status only ever advances in the order of the enumeration, but for the
\* one write by which Checkout answers: a late one sets an order back.
OnlyCheckoutSetsBack ==
    [][\A o \in Orders :
          /\ status[o] # "Absent"
          /\ OrderStatus[status'[o]] < OrderStatus[status[o]]
          => checkout[o] = "published" /\ checkout'[o] = "answered"]_vars

\* Unless something fails, an order whose OrderSubmitted is due runs through the
\* whole pipeline: some outcome is reached and recorded.
EveryOrderRuns ==
    \A o \in Orders :
        (checkout[o] = "created") ~>
            \/ AtRest(o) /\ \E q \in FinalQueues : Sent(o, q)
            \/ faults > 0

\* Unless something fails, an order whose Checkout has answered before the
\* Inventory service took its message ends as Completed or Failed.
PromptCheckoutSettles ==
    \A o \in Orders :
        (checkout[o] = "answered" /\ o \in Waiting("order-submitted")) ~>
            \/ AtRest(o) /\ status[o] \in {"Completed", "Failed"}
            \/ faults > 0

\* Whatever fails, if what ended is started again, the pipeline drains: no failure
\* leaves a handler or a request waiting for something, and no message is handled
\* over and over; every order comes to rest.
PipelineDrains ==
    \A o \in Orders :
        (checkout[o] = "created") ~>
            (AtRest(o) /\ checkout[o] \in {"answered", "failed"})

\* The workflow implements OrderLifecycle: for orders that name no product twice,
\* the separate check and updates of the Inventory service are one atomic
\* reservation of the whole order, and the chain of queues is one sequence of steps
\* that always goes on, unless a failure loses the order for good: no failure makes
\* a step happen twice or out of order, or takes more off the stock than was wanted.
Phase(o) ==
    CASE Sent(o, "order-submitted") /\ ~Sent(o, "inventory-confirmed")
             /\ ~Sent(o, "inventory-failed") -> "submitted"
      [] Sent(o, "inventory-confirmed") /\ ~Sent(o, "payment-approved")
             /\ ~Sent(o, "payment-rejected") -> "reserved"
      [] Sent(o, "payment-approved") /\ ~Sent(o, "shipping-created") -> "approved"
      [] Sent(o, "inventory-failed") -> "refused"
      [] Sent(o, "payment-rejected") -> "declined"
      [] Sent(o, "shipping-created") -> "shipped"
      [] OTHER                       -> "none"

Lifecycle == INSTANCE OrderLifecycle WITH
    phase  <- [o \in Orders |-> Phase(o)],
    wanted <- [o \in Orders |-> [p \in Products |->
                  IF Sent(o, "order-submitted") THEN Demand(items[o], p) ELSE 0]],
    onhand <- [p \in Products |-> stock[p] + Deducted(p)],
    lost    <- {o \in Orders : /\ Sent(o, "order-submitted") /\ AtRest(o)
                              /\ \A q \in FinalQueues : ~Sent(o, q)},
    MayFail <- MaxFaults > 0

ImplementsLifecycle == Lifecycle!Spec

\* README.md:123, "Order API updates the order status to Completed or Failed":
\* every order gets there.  Not so: the late write of Checkout.
FinalStatusReached ==
    \A o \in Orders :
        (status[o] # "Absent") ~> (status[o] \in {"Completed", "Failed"})

\* README.md:137, "If a step fails, the order is marked as: Failed".  Not so:
\* an order that a failure has left at rest keeps the status it had.
FailedStepMarked ==
    \A o \in Orders :
        (/\ status[o] # "Absent" /\ AtRest(o)
         /\ checkout[o] \in {"answered", "failed"}
         /\ \A q \in FinalQueues : ~Sent(o, q))
            ~> (status[o] = "Failed")

-----------------------------------------------------------------------------
(***************************************************************************)
(* The inductive invariants behind the theorems of OrderPipelineProofs.    *)
(***************************************************************************)

\* An order is at a stage only once, only if its message was published there,
\* and only until a message that follows is published.
StageDiscipline ==
    \A q \in Queues :
        /\ IsInjective(queue[q])
        /\ Waiting(q) \cap InHand(q) = {}
        /\ \A o \in Stage(q) :
              Sent(o, q) /\ \A s \in Successors(q) : sent[o][s] = 0

\* A handler holds an order exactly while it is busy.
HandlersOK ==
    /\ worker.pc = "idle" <=> worker.order = NoOrder
    /\ \A q \in ApiQueues :
          /\ consumer[q].pc = "idle" <=> consumer[q].order = NoOrder
          /\ consumer[q].pc = "publish" => Consumer(q).emits # "nothing"

\* A request publishes its order once, after it has stored it.
RequestsOK ==
    \A o \in Orders :
        /\ checkout[o] \in {"idle", "rejected", "created"} =>
               sent[o]["order-submitted"] = 0
        /\ checkout[o] \in {"idle", "rejected"} => status[o] = "Absent"
        /\ checkout[o] = "created" => status[o] = "Submitted"
        /\ status[o] = "Absent" => checkout[o] \in {"idle", "rejected"}

IInv == TypeOK /\ LegalHistory /\ StageDiscipline /\ HandlersOK /\ RequestsOK

\* A status past InventoryPending was written by a consumer for its message.
StatusWritten ==
    \A o \in Orders :
        status[o] \in DOMAIN Tells =>
            \E q \in ApiQueues :
                /\ status[o] \in {Consumer(q).first, Consumer(q).second}
                /\ Sent(o, q)

\* The status an order can have at most while a message of it waits in q.
Reached(q) ==
    CASE q \in {"order-submitted", "inventory-confirmed", "inventory-failed"} ->
             OrderStatus.InventoryPending
      [] q \in {"payment-requested", "payment-approved", "payment-rejected"} ->
             OrderStatus.PaymentPending
      [] q \in {"shipping-requested", "shipping-created"} ->
             OrderStatus.ShippingPending

\* And while the handler of q has it in hand.
ReachedInHand(q) ==
    IF q \notin ApiQueues THEN Reached(q)
    ELSE OrderStatus[IF consumer[q].pc = "second" THEN Consumer(q).first
                     ELSE Consumer(q).second]

StatusBehind ==
    \A q \in Queues :
        /\ \A o \in Waiting(q) : OrderStatus[status[o]] <= Reached(q)
        /\ \A o \in InHand(q) : OrderStatus[status[o]] <= ReachedInHand(q)

\* While nothing fails, an order that was submitted is still at a stage, or its last
\* message is out.
NoneDropped ==
    faults = 0 =>
        \A o \in Orders : Sent(o, "order-submitted") =>
            \E q \in Queues : /\ Sent(o, q)
                              /\ o \in Stage(q) \/ q \in FinalQueues

\* The Inventory service is at a line of its order, or through with the last one.
WithinLines ==
    worker.pc = "deduct" => worker.next <= Len(items[worker.order]) + 1

\* What the Inventory service has found in stock is there until it deducts it.
StockInHand ==
    /\ \A o \in Orders : \A i \in DOMAIN items[o] :
           items[o][i].product \in Products /\ items[o][i].qty > 0
    /\ \A o \in Orders : DistinctLines(items[o])
    /\ worker.pc = "deduct" =>
           \A i \in DOMAIN items[worker.order] :
               i >= worker.next => stock[items[worker.order][i].product]
                                      >= items[worker.order][i].qty

\* An order that was created has lines, and one is only refused for a line that is short.
OrdersHaveLines ==
    \A o \in Orders : checkout[o] \notin {"idle", "rejected"} => items[o] # <<>>

RefusedShort == worker.pc = "refuse" => ~HasStock(items[worker.order])
=============================================================================
