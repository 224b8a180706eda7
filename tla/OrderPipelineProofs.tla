------------------------ MODULE OrderPipelineProofs ------------------------
(***************************************************************************)
(* Theorems about OrderPipeline, for any orders, products, requests and    *)
(* number of failures.                                                     *)
(***************************************************************************)
EXTENDS OrderPipeline, OrderLinesProofs

-----------------------------------------------------------------------------
(***************************************************************************)
(* Queues.                                                                 *)
(***************************************************************************)

\* A message taken from the head of a queue that holds none twice is gone.
LEMMA TakeHead ==
    ASSUME NEW S, NEW s \in Seq(S), s # <<>>
    PROVE  /\ Head(s) \in S
           /\ Head(s) \in Range(s)
           /\ Tail(s) \in Seq(S)
           /\ Range(Tail(s)) \subseteq Range(s)
           /\ IsInjective(s) => /\ IsInjective(Tail(s))
                                /\ Head(s) \notin Range(Tail(s))
<1>1. /\ Head(s) \in S
      /\ Tail(s) \in Seq(S)
      /\ Len(s) \in Nat \ {0}
      /\ Len(Tail(s)) = Len(s) - 1
      /\ Head(s) = s[1]
      /\ \A i \in 1 .. Len(Tail(s)) : Tail(s)[i] = s[i + 1]
  BY HeadTailProperties, EmptySeq, LenProperties
<1>2. DOMAIN s = 1 .. Len(s) /\ DOMAIN Tail(s) = 1 .. Len(s) - 1
  BY <1>1, LenProperties
<1>3. Head(s) \in Range(s) /\ Range(Tail(s)) \subseteq Range(s)
  BY <1>1, <1>2 DEF Range
<1>4. ASSUME IsInjective(s)
      PROVE  IsInjective(Tail(s)) /\ Head(s) \notin Range(Tail(s))
  <2>1. IsInjective(Tail(s))
    BY <1>1, <1>2, <1>4 DEF IsInjective
  <2>2. ASSUME Head(s) \in Range(Tail(s)) PROVE FALSE
    <3>1. PICK i \in 1 .. Len(s) - 1 : Tail(s)[i] = Head(s)
      BY <1>2, <2>2 DEF Range
    <3>2. s[i + 1] = s[1] /\ i + 1 \in 1 .. Len(s) /\ 1 \in 1 .. Len(s)
      BY <1>1, <3>1
    <3> QED BY <1>2, <1>4, <3>1, <3>2 DEF IsInjective
  <2> QED BY <2>1, <2>2
<1> QED BY <1>1, <1>3, <1>4

\* A message put into a queue is the only one added.
LEMMA PutLast ==
    ASSUME NEW S, NEW s \in Seq(S), NEW x \in S
    PROVE  /\ Append(s, x) \in Seq(S)
           /\ Range(Append(s, x)) = Range(s) \cup {x}
           /\ IsInjective(s) /\ x \notin Range(s) => IsInjective(Append(s, x))
<1> DEFINE t == Append(s, x)
<1>1. /\ t \in Seq(S)
      /\ Len(s) \in Nat
      /\ DOMAIN s = 1 .. Len(s)
      /\ DOMAIN t = 1 .. Len(s) + 1
      /\ \A i \in 1 .. Len(s) : t[i] = s[i]
      /\ t[Len(s) + 1] = x
  BY AppendProperties, LenProperties
<1> HIDE DEF t
<1>2. Range(t) = Range(s) \cup {x}
  BY <1>1 DEF Range
<1>3. ASSUME IsInjective(s), x \notin Range(s) PROVE IsInjective(t)
  <2> SUFFICES ASSUME NEW i \in DOMAIN t, NEW j \in DOMAIN t, t[i] = t[j]
               PROVE  i = j
    BY DEF IsInjective
  <2>1. CASE i \in 1 .. Len(s) /\ j \in 1 .. Len(s)
    BY <1>1, <1>3, <2>1 DEF IsInjective
  <2>2. CASE i = Len(s) + 1 /\ j \in 1 .. Len(s)
    BY <1>1, <1>3, <2>2 DEF Range
  <2>3. CASE j = Len(s) + 1 /\ i \in 1 .. Len(s)
    BY <1>1, <1>3, <2>3 DEF Range
  <2>4. CASE i = Len(s) + 1 /\ j = Len(s) + 1
    BY <2>4
  <2> QED BY <1>1, <2>1, <2>2, <2>3, <2>4
<1> QED BY <1>1, <1>2, <1>3 DEF t

\* What a failure leaves of a queue is a part of it.
LEMMA CutOut ==
    ASSUME NEW S, NEW s \in Seq(S), NEW m \in Nat \ {0}, NEW n \in 0 .. Len(s)
    PROVE  /\ SubSeq(s, m, n) \in Seq(S)
           /\ Range(SubSeq(s, m, n)) \subseteq Range(s)
           /\ IsInjective(s) => IsInjective(SubSeq(s, m, n))
<1> DEFINE t == SubSeq(s, m, n)
<1>1. Len(s) \in Nat /\ DOMAIN s = 1 .. Len(s)
  BY LenProperties
<1>2. CASE m > n
  <2>1. t = <<>>
    BY <1>1, <1>2, SubSeqEmpty
  <2>2. t \in Seq(S) /\ DOMAIN t = {}
    BY <2>1, EmptySeq
  <2> QED BY <2>2 DEF Range, IsInjective
<1>3. CASE m <= n
  <2>1. /\ t \in Seq(S)
        /\ Len(t) = n - m + 1
        /\ \A i \in 1 .. n - m + 1 : t[i] = s[m + i - 1]
    BY <1>1, <1>3, SubSeqProperties
  <2>2. DOMAIN t = 1 .. n - m + 1
    BY <2>1, LenProperties
  <2>3. \A i \in DOMAIN t : m + i - 1 \in DOMAIN s /\ t[i] = s[m + i - 1]
    BY <1>1, <1>3, <2>1, <2>2
  <2> HIDE DEF t
  <2>4. Range(t) \subseteq Range(s)
    BY <2>3 DEF Range
  <2>5. IsInjective(s) => IsInjective(t)
    BY <1>1, <1>3, <2>2, <2>3 DEF IsInjective
  <2> QED BY <2>1, <2>4, <2>5 DEF t
<1> QED BY <1>1, <1>2, <1>3

-----------------------------------------------------------------------------
(***************************************************************************)
(* The type invariant.                                                     *)
(***************************************************************************)

\* The queues, and what each consumer of the Order API writes and emits.
LEMMA QueuesAre ==
    /\ ApiQueues \subseteq Queues
    /\ "order-submitted" \in Queues /\ "order-submitted" \notin ApiQueues
    /\ "payment-requested" \in Queues /\ "payment-requested" \notin ApiQueues
    /\ "shipping-requested" \in Queues /\ "shipping-requested" \notin ApiQueues
    /\ \A q \in ApiQueues :
          /\ Consumer(q).first \in DOMAIN OrderStatus
          /\ Consumer(q).second \in DOMAIN OrderStatus
          /\ Consumer(q).emits # "nothing" => Consumer(q).emits \in Queues
  BY DEF ApiQueues, Queues, Consumer, OrderStatus, InventoryConfirmedConsumer,
         InventoryFailedConsumer, PaymentApprovedConsumer,
         PaymentRejectedConsumer, ShippingCreatedConsumer

\* The statuses, their numbers, and that Absent is none of them.
LEMMA StatusesAre ==
    /\ "Submitted" \in DOMAIN OrderStatus
    /\ "InventoryPending" \in DOMAIN OrderStatus
    /\ "Absent" \notin DOMAIN OrderStatus
    /\ OrderStatus \in [DOMAIN OrderStatus -> Nat]
  BY DEF OrderStatus

\* Taking from, adding to and losing from a queue leaves sequences of orders.
LEMMA QueueTypes ==
    ASSUME TypeOK, NEW q \in Queues
    PROVE  /\ queue[q] # <<>> =>
                /\ Head(queue[q]) \in Orders
                /\ [queue EXCEPT ![q] = Tail(@)] \in [Queues -> Seq(Orders)]
           /\ \A o \in Orders :
                [queue EXCEPT ![q] = Append(@, o)] \in [Queues -> Seq(Orders)]
           /\ LoseDelivered(q) => queue' \in [Queues -> Seq(Orders)]
<1>1. queue \in [Queues -> Seq(Orders)] /\ queue[q] \in Seq(Orders)
  BY DEF TypeOK
<1>2. queue[q] # <<>> => Head(queue[q]) \in Orders /\ Tail(queue[q]) \in Seq(Orders)
  BY <1>1, TakeHead
<1>3. \A o \in Orders : Append(queue[q], o) \in Seq(Orders)
  BY <1>1, PutLast
<1>4. LoseDelivered(q) => queue' \in [Queues -> Seq(Orders)]
  <2> SUFFICES ASSUME NEW n \in 0 .. Len(queue[q]),
                      queue' = [queue EXCEPT ![q] =
                                   SubSeq(queue[q], n + 1, Len(queue[q]))]
               PROVE  queue' \in [Queues -> Seq(Orders)]
    BY DEF LoseDelivered
  <2>1. n + 1 \in Nat \ {0} /\ Len(queue[q]) \in 0 .. Len(queue[q])
    BY <1>1, LenProperties
  <2>2. SubSeq(queue[q], n + 1, Len(queue[q])) \in Seq(Orders)
    BY <1>1, <2>1, CutOut
  <2> QED BY <1>1, <2>2
<1> QED BY <1>1, <1>2, <1>3, <1>4

\* A status written is a status.
LEMMA UpdateTypes ==
    ASSUME TypeOK, NEW o \in Orders, NEW s \in DOMAIN OrderStatus,
           UpdateOrderStatus(o, s)
    PROVE  status' \in [Orders -> DOMAIN OrderStatus \cup {"Absent"}]
  BY DEF TypeOK, UpdateOrderStatus

\* A publication keeps the types of queues and history.
LEMMA PublishTypes ==
    ASSUME TypeOK, NEW q \in Queues, NEW o \in Orders, Publish(q, o)
    PROVE  /\ queue' \in [Queues -> Seq(Orders)]
           /\ sent' \in [Orders -> [Queues -> Nat]]
<1>1. queue' \in [Queues -> Seq(Orders)]
  BY QueueTypes DEF Publish
<1>2. sent' \in [Orders -> [Queues -> Nat]]
  BY DEF TypeOK, Publish
<1> QED BY <1>1, <1>2

\* What a failure cuts off a queue, and what it leaves, are lists of orders.
LEMMA CutTypes ==
    ASSUME TypeOK, NEW S \in SUBSET Queues, NEW cut \in Cuts(S)
    PROVE  /\ DOMAIN cut \subseteq S
           /\ \A q \in DOMAIN cut :
                 /\ cut[q] \in 0 .. Len(queue[q])
                 /\ SubSeq(queue[q], cut[q] + 1, Len(queue[q])) \in Seq(Orders)
                 /\ SubSeq(queue[q], 1, cut[q]) \in Seq(Orders)
<1>1. /\ DOMAIN cut \subseteq S
      /\ \A q \in DOMAIN cut : cut[q] \in Nat /\ cut[q] <= Len(queue[q])
  BY DEF Cuts
<1>2. ASSUME NEW q \in DOMAIN cut
      PROVE  /\ cut[q] \in 0 .. Len(queue[q])
             /\ SubSeq(queue[q], cut[q] + 1, Len(queue[q])) \in Seq(Orders)
             /\ SubSeq(queue[q], 1, cut[q]) \in Seq(Orders)
  <2>1. queue[q] \in Seq(Orders) /\ Len(queue[q]) \in Nat
    BY <1>1, LenProperties DEF TypeOK
  <2>2. /\ cut[q] \in 0 .. Len(queue[q])
        /\ cut[q] + 1 \in Nat \ {0}
        /\ Len(queue[q]) \in 0 .. Len(queue[q])
        /\ 1 \in Nat \ {0}
    BY <1>1, <2>1
  <2> QED BY <2>1, <2>2, CutOut
<1> QED BY <1>1, <1>2

\* Empty queues, idle handlers and no orders have their types.
LEMMA InitType == Init => TypeOK
<1>1. <<>> \in Seq(Orders) /\ <<>> \in Seq([product : ProductIds, qty : Int])
  BY EmptySeq
<1> QED
  BY <1>1, StockAssumption, FaultsAssumption
     DEF Init, TypeOK, LinesStored, IdleWorker, IdleConsumer

\* A busy handler holds an order.
LEMMA BusyHolds ==
    ASSUME TypeOK, HandlersOK
    PROVE  /\ worker.pc # "idle" => worker.order \in Orders
           /\ \A q \in ApiQueues :
                 consumer[q].pc # "idle" => consumer[q].order \in Orders
  BY DEF TypeOK, HandlersOK

\* Idle handlers have the types of handlers.
LEMMA IdleTypes ==
    /\ IdleWorker \in [pc : {"idle", "deduct", "refuse"},
                      order : Orders \cup {NoOrder}, next : Nat \ {0}]
    /\ IdleConsumer \in [pc : {"idle", "second", "publish"},
                        order : Orders \cup {NoOrder}]
  BY DEF IdleWorker, IdleConsumer

\* Only a valid request stores lines, and lines once stored stay as they are.
LEMMA NextLines == TypeOK /\ [Next]_vars => LinesStored'
<1> SUFFICES ASSUME TypeOK, [Next]_vars PROVE LinesStored'
  OBVIOUS
<1>1. ASSUME NEW o \in Orders, NEW r \in Requests, CheckoutCreate(o, r)
      PROVE  LinesStored'
  <2>1. items' = [items EXCEPT ![o] = r.items] /\ Valid(r)
    BY <1>1 DEF CheckoutCreate
  <2>2. /\ items \in [Orders -> Seq([product : ProductIds, qty : Int])]
        /\ LinesStored
    BY DEF TypeOK
  <2> QED BY <2>1, <2>2 DEF LinesStored, Valid
<1>2. CASE UNCHANGED items
  BY <1>2 DEF TypeOK, LinesStored
<1>3. \/ \E o \in Orders, r \in Requests : CheckoutCreate(o, r)
      \/ UNCHANGED items
  BY DEF Next, vars, CheckoutReject, CheckoutPublish, CheckoutFinish, CheckoutThrows,
         InventoryCheck, InventoryDeduct, InventoryConfirm, InventoryRefuse,
         InventoryFails, ConsumerFirst, ConsumerSecond, ConsumerPublish, ConsumerFails,
         PaymentReceive, PaymentDecide, PaymentFails, Ship, ShippingFails,
         OrderApiCrash, BrokerRestart
<1> QED BY <1>1, <1>2, <1>3

\* Every step keeps the types of the variables.
LEMMA NextType == TypeOK /\ HandlersOK /\ [Next]_vars => TypeOK'
<1> SUFFICES ASSUME TypeOK, HandlersOK, [Next]_vars PROVE TypeOK'
  OBVIOUS
<1>lines. LinesStored'
  BY NextLines
<1> USE <1>lines
<1>0. Fault => faults' \in 0 .. MaxFaults
  BY FaultsAssumption DEF Fault, TypeOK
<1>1. ASSUME NEW o \in Orders, NEW r \in Requests, CheckoutReject(o, r)
      PROVE  TypeOK'
  BY <1>1 DEF TypeOK, CheckoutReject
<1>2. ASSUME NEW o \in Orders, NEW r \in Requests, CheckoutCreate(o, r)
      PROVE  TypeOK'
  <2>1. r.items \in Seq([product : ProductIds, qty : Int])
    BY RequestsAssumption DEF Request
  <2> QED BY <1>2, <2>1, StatusesAre DEF TypeOK, CheckoutCreate
<1>3. ASSUME NEW o \in Orders, CheckoutPublish(o) PROVE TypeOK'
  <2>1. queue' \in [Queues -> Seq(Orders)] /\ sent' \in [Orders -> [Queues -> Nat]]
    BY <1>3, PublishTypes, QueuesAre DEF CheckoutPublish
  <2> QED BY <1>3, <2>1 DEF TypeOK, CheckoutPublish
<1>4. ASSUME NEW o \in Orders, CheckoutFinish(o) PROVE TypeOK'
  <2>1. status' \in [Orders -> DOMAIN OrderStatus \cup {"Absent"}]
    BY <1>4, UpdateTypes, StatusesAre DEF CheckoutFinish
  <2> QED BY <1>4, <2>1 DEF TypeOK, CheckoutFinish
<1>5. ASSUME NEW o \in Orders, CheckoutThrows(o) PROVE TypeOK'
  BY <1>0, <1>5 DEF TypeOK, CheckoutThrows
<1>6. ASSUME NEW o \in Orders, PaymentDecide(o) PROVE TypeOK'
  <2>1. queue' \in [Queues -> Seq(Orders)] /\ sent' \in [Orders -> [Queues -> Nat]]
    <3>1. "payment-approved" \in Queues /\ "payment-rejected" \in Queues
      BY DEF Queues, ApiQueues
    <3> QED BY <1>6, <3>1, PublishTypes DEF PaymentDecide
  <2> QED BY <1>6, <2>1 DEF TypeOK, PaymentDecide
<1>7. CASE InventoryCheck
  <2>1. /\ Head(queue["order-submitted"]) \in Orders
        /\ queue' \in [Queues -> Seq(Orders)]
    BY <1>7, QueueTypes, QueuesAre DEF InventoryCheck
  <2>2. worker' \in [pc : {"idle", "deduct", "refuse"},
                     order : Orders \cup {NoOrder}, next : Nat \ {0}]
    BY <1>7, <2>1 DEF InventoryCheck
  <2> QED BY <1>7, <2>1, <2>2 DEF TypeOK, InventoryCheck
<1>8. CASE InventoryDeduct
  <2> DEFINE line == items[worker.order][worker.next]
  <2>1. worker.order \in Orders
    BY <1>8, BusyHolds DEF InventoryDeduct
  <2>2. worker.next \in Nat \ {0} /\ worker.next <= Len(items[worker.order])
    BY <1>8 DEF TypeOK, InventoryDeduct
  <2>3. items[worker.order] \in Seq([product : ProductIds, qty : Int])
    BY <2>1 DEF TypeOK
  <2>4. worker.next \in 1 .. Len(items[worker.order])
    BY <2>2, <2>3, LenProperties
  <2>5. line \in [product : ProductIds, qty : Int]
    BY <2>3, <2>4, ElementOfSeq
  <2>6. stock' \in [Products -> Int]
    <3>1. stock' = [stock EXCEPT ![line.product] = stock[line.product] - line.qty]
      BY <1>8 DEF InventoryDeduct
    <3>2. line.qty \in Int /\ stock \in [Products -> Int]
      BY <2>5 DEF TypeOK
    <3> DEFINE x == line.product
               n == line.qty
    <3>3. stock' = [stock EXCEPT ![x] = stock[x] - n] /\ n \in Int
      BY <3>1, <3>2
    <3> HIDE DEF x, n
    <3>4. CASE x \in Products
      BY <3>2, <3>3, <3>4
    <3>5. CASE x \notin Products
      <4>1. stock' = stock
        BY <3>2, <3>3, <3>5
      <4> QED BY <3>2, <4>1
    <3> QED BY <3>4, <3>5
  <2>7. worker' \in [pc : {"idle", "deduct", "refuse"},
                     order : Orders \cup {NoOrder}, next : Nat \ {0}]
    BY <1>8, <2>1, <2>2 DEF InventoryDeduct
  <2> QED BY <1>8, <2>6, <2>7 DEF TypeOK, InventoryDeduct
<1>9. ASSUME InventoryConfirm \/ InventoryRefuse PROVE TypeOK'
  <2>1. worker.order \in Orders
    BY <1>9, BusyHolds DEF InventoryConfirm, InventoryRefuse
  <2>2. "inventory-confirmed" \in Queues /\ "inventory-failed" \in Queues
    BY DEF Queues, ApiQueues
  <2>3. queue' \in [Queues -> Seq(Orders)] /\ sent' \in [Orders -> [Queues -> Nat]]
    BY <1>9, <2>1, <2>2, PublishTypes DEF InventoryConfirm, InventoryRefuse
  <2>4. /\ worker' = IdleWorker
        /\ UNCHANGED <<checkout, items, status, stock, consumer, paying, faults>>
    BY <1>9 DEF InventoryConfirm, InventoryRefuse
  <2> QED BY <2>3, <2>4, IdleTypes DEF TypeOK
<1>10. ASSUME NEW q \in ApiQueues, ConsumerFirst(q) PROVE TypeOK'
  <2>1. Head(queue[q]) \in Orders /\ queue' \in [Queues -> Seq(Orders)]
    BY <1>10, QueueTypes, QueuesAre DEF ConsumerFirst
  <2>2. status' \in [Orders -> DOMAIN OrderStatus \cup {"Absent"}]
    BY <1>10, <2>1, UpdateTypes, QueuesAre DEF ConsumerFirst
  <2> QED BY <1>10, <2>1, <2>2 DEF TypeOK, ConsumerFirst
<1>11. ASSUME NEW q \in ApiQueues, ConsumerSecond(q) PROVE TypeOK'
  <2>1. consumer[q].order \in Orders
    BY <1>11, BusyHolds DEF ConsumerSecond
  <2>2. status' \in [Orders -> DOMAIN OrderStatus \cup {"Absent"}]
    BY <1>11, <2>1, UpdateTypes, QueuesAre DEF ConsumerSecond
  <2> QED BY <1>11, <2>1, <2>2 DEF TypeOK, ConsumerSecond, IdleConsumer
<1>12. ASSUME NEW q \in ApiQueues, ConsumerPublish(q) PROVE TypeOK'
  <2>1. consumer[q].order \in Orders /\ Consumer(q).emits \in Queues
    BY <1>12, BusyHolds, QueuesAre DEF ConsumerPublish, HandlersOK
  <2>2. queue' \in [Queues -> Seq(Orders)] /\ sent' \in [Orders -> [Queues -> Nat]]
    BY <1>12, <2>1, PublishTypes DEF ConsumerPublish
  <2> QED BY <1>12, <2>2 DEF TypeOK, ConsumerPublish, IdleConsumer
<1>13. ASSUME NEW q \in ApiQueues, ConsumerFails(q) PROVE TypeOK'
  <2>1. queue' \in [Queues -> Seq(Orders)]
    BY <1>13, QueueTypes, QueuesAre DEF ConsumerFails
  <2> QED BY <1>0, <1>13, <2>1 DEF TypeOK, ConsumerFails, IdleConsumer
<1>14. CASE PaymentReceive
  <2>1. /\ Head(queue["payment-requested"]) \in Orders
        /\ queue' \in [Queues -> Seq(Orders)]
    BY <1>14, QueueTypes, QueuesAre DEF PaymentReceive
  <2> QED BY <1>14, <2>1 DEF TypeOK, PaymentReceive
<1>15. CASE Ship
  <2> DEFINE o == Head(queue["shipping-requested"])
  <2>1. o \in Orders /\ Tail(queue["shipping-requested"]) \in Seq(Orders)
    BY <1>15, TakeHead, QueuesAre DEF TypeOK, Ship
  <2>2. "shipping-created" \in Queues /\ queue["shipping-created"] \in Seq(Orders)
    BY DEF TypeOK, Queues, ApiQueues
  <2>3. Append(queue["shipping-created"], o) \in Seq(Orders)
    BY <2>1, <2>2, PutLast
  <2>4. queue' \in [Queues -> Seq(Orders)] /\ sent' \in [Orders -> [Queues -> Nat]]
    <3>1. /\ queue' = [queue EXCEPT
                          !["shipping-requested"] = Tail(queue["shipping-requested"]),
                          !["shipping-created"] = Append(queue["shipping-created"], o)]
          /\ sent' = [sent EXCEPT ![o]["shipping-created"] = @ + 1]
      BY <1>15 DEF Ship
    <3>2. /\ queue \in [Queues -> Seq(Orders)]
          /\ sent \in [Orders -> [Queues -> Nat]]
      BY DEF TypeOK
    <3> HIDE DEF o
    <3>3. sent' \in [Orders -> [Queues -> Nat]]
      BY <2>1, <2>2, <3>1, <3>2
    <3>4. queue' \in [Queues -> Seq(Orders)]
      BY <2>1, <2>2, <2>3, <3>1, <3>2
    <3> QED BY <3>3, <3>4
  <2> QED BY <1>15, <2>4 DEF TypeOK, Ship
<1>16. ASSUME InventoryFails \/ PaymentFails \/ ShippingFails PROVE TypeOK'
  <2>1. queue' \in [Queues -> Seq(Orders)]
    BY <1>16, QueueTypes, QueuesAre DEF InventoryFails, PaymentFails, ShippingFails
  <2>2. faults' \in 0 .. MaxFaults
    BY <1>0, <1>16 DEF InventoryFails, PaymentFails, ShippingFails
  <2>3. CASE InventoryFails
    BY <2>1, <2>2, <2>3, IdleTypes DEF TypeOK, InventoryFails
  <2>4. CASE PaymentFails
    BY <2>1, <2>2, <2>4 DEF TypeOK, PaymentFails
  <2>5. CASE ShippingFails
    BY <2>1, <2>2, <2>5 DEF TypeOK, ShippingFails
  <2> QED BY <1>16, <2>3, <2>4, <2>5
<1>17. CASE OrderApiCrash
  <2>1. queue' \in [Queues -> Seq(Orders)]
    <3>1. PICK cut \in Cuts(ApiQueues) :
             queue' = [q \in Queues |->
                          IF q \in DOMAIN cut
                          THEN SubSeq(queue[q], cut[q] + 1, Len(queue[q]))
                          ELSE queue[q]]
      BY <1>17 DEF OrderApiCrash
    <3>2. \A q \in DOMAIN cut :
             SubSeq(queue[q], cut[q] + 1, Len(queue[q])) \in Seq(Orders)
      BY CutTypes, QueuesAre
    <3> QED BY <3>1, <3>2 DEF TypeOK
  <2>2. faults' \in 0 .. MaxFaults
    BY <1>0, <1>17 DEF OrderApiCrash
  <2>3. /\ checkout' \in [Orders -> {"idle", "rejected", "created", "published",
                                     "answered", "failed"}]
        /\ consumer' \in [ApiQueues -> [pc : {"idle", "second", "publish"},
                                         order : Orders \cup {NoOrder}]]
        /\ UNCHANGED <<items, status, stock, worker, paying, sent>>
    BY <1>17 DEF TypeOK, OrderApiCrash, IdleConsumer
  <2> QED BY <2>1, <2>2, <2>3 DEF TypeOK
<1>18. CASE BrokerRestart
  <2>1. queue' \in [Queues -> Seq(Orders)]
    <3>1. PICK cut \in Cuts(Queues) :
             queue' = [q \in Queues |->
                          IF q \in DOMAIN cut THEN SubSeq(queue[q], 1, cut[q])
                          ELSE <<>>]
      BY <1>18 DEF BrokerRestart
    <3>2. \A q \in DOMAIN cut : SubSeq(queue[q], 1, cut[q]) \in Seq(Orders)
      BY CutTypes
    <3>3. <<>> \in Seq(Orders)
      BY EmptySeq
    <3> QED BY <3>1, <3>2, <3>3
  <2>2. /\ faults' \in 0 .. MaxFaults
        /\ UNCHANGED <<checkout, items, status, stock, worker, consumer, paying, sent>>
    BY <1>0, <1>18 DEF BrokerRestart
  <2> QED BY <2>1, <2>2 DEF TypeOK
<1>19. CASE UNCHANGED vars
  BY <1>19 DEF TypeOK, vars
<1> QED
  BY <1>1, <1>2, <1>3, <1>4, <1>5, <1>6, <1>7, <1>8, <1>9, <1>10, <1>11, <1>12,
     <1>13, <1>14, <1>15, <1>16, <1>17, <1>18, <1>19 DEF Next

-----------------------------------------------------------------------------
(***************************************************************************)
(* Stages: what taking, publishing and losing do to where the orders are.  *)
(***************************************************************************)

\* Which message follows which; none follows two.
LEMMA SuccessorsAre ==
    /\ \A q \in Queues : Successors(q) \subseteq Queues \ {q}
    /\ Successors("order-submitted") = {"inventory-confirmed", "inventory-failed"}
    /\ Successors("inventory-confirmed") = {"payment-requested"}
    /\ Successors("payment-requested") = {"payment-approved", "payment-rejected"}
    /\ Successors("payment-approved") = {"shipping-requested"}
    /\ Successors("shipping-requested") = {"shipping-created"}
    /\ \A q, r, s \in Queues :
          s \in Successors(q) /\ s \in Successors(r) => q = r
    /\ \A q \in Queues : "order-submitted" \notin Successors(q)
  BY DEF Successors, Queues, ApiQueues

\* Whatever was published for an order, it was submitted first.
LEMMA Root ==
    ASSUME LegalHistory, NEW o \in Orders, NEW q \in Queues, Sent(o, q)
    PROVE  Sent(o, "order-submitted")
<1>1. \A r, s \in Queues : s \in Successors(r) /\ Sent(o, s) => Sent(o, r)
  BY SuccessorsAre DEF LegalHistory
<1>2. /\ Sent(o, "inventory-confirmed") => Sent(o, "order-submitted")
      /\ Sent(o, "inventory-failed") => Sent(o, "order-submitted")
      /\ Sent(o, "payment-requested") => Sent(o, "inventory-confirmed")
      /\ Sent(o, "payment-approved") => Sent(o, "payment-requested")
      /\ Sent(o, "payment-rejected") => Sent(o, "payment-requested")
      /\ Sent(o, "shipping-requested") => Sent(o, "payment-approved")
      /\ Sent(o, "shipping-created") => Sent(o, "shipping-requested")
  BY <1>1, SuccessorsAre DEF Queues, ApiQueues
<1> QED BY <1>2 DEF Queues, ApiQueues

\* Who holds the orders of each queue, before and after a step.
LEMMA HandsAre ==
    /\ InHand("order-submitted") = {worker.order} \ {NoOrder}
    /\ InHand("order-submitted")' = {worker'.order} \ {NoOrder}
    /\ InHand("payment-requested") = paying
    /\ InHand("payment-requested")' = paying'
    /\ InHand("shipping-requested") = {}
    /\ InHand("shipping-requested")' = {}
    /\ \A q \in ApiQueues : InHand(q) = {consumer[q].order} \ {NoOrder}
    /\ \A q \in ApiQueues : InHand(q)' = {consumer'[q].order} \ {NoOrder}
  BY DEF InHand, ApiQueues

\* A step that publishes nothing and moves no order to a stage keeps order.
LEMMA StagesShrink ==
    ASSUME LegalHistory, StageDiscipline, sent' = sent,
           \A q \in Queues : /\ IsInjective(queue'[q])
                             /\ Waiting(q)' \cap InHand(q)' = {}
                             /\ Stage(q)' \subseteq Stage(q)
    PROVE  LegalHistory' /\ StageDiscipline'
<1>1. LegalHistory'
  BY DEF LegalHistory, Sent
<1>2. StageDiscipline'
  BY DEF StageDiscipline, Sent
<1> QED BY <1>1, <1>2

\* So does one that publishes what is due for an order, and takes the order
\* from the stage before.
LEMMA StagesPublish ==
    ASSUME TypeOK, LegalHistory, StageDiscipline,
           NEW o \in Orders, NEW s \in Queues,
           \A q \in Queues : Stage(q)' \subseteq Orders,
           sent[o][s] = 0,
           sent' = [sent EXCEPT ![o][s] = @ + 1],
           \A q \in Queues : s \in Successors(q) =>
               /\ Sent(o, q)
               /\ o \notin Stage(q)'
               /\ \A t \in Successors(q) : sent[o][t] = 0,
           \A q \in Queues : /\ IsInjective(queue'[q])
                             /\ Waiting(q)' \cap InHand(q)' = {}
                             /\ q # s => Stage(q)' \subseteq Stage(q),
           Stage(s)' \subseteq Stage(s) \cup {o}
    PROVE  LegalHistory' /\ StageDiscipline'
<1>1. \A p \in Orders, t \in Queues :
         sent'[p][t] = IF p = o /\ t = s THEN 1 ELSE sent[p][t]
  BY DEF TypeOK
<1>2. \A p \in Orders, t \in Queues : sent[p][t] \in Nat /\ sent[p][t] <= 1
  BY DEF TypeOK, LegalHistory
<1>3. \A t \in Successors(s) : sent[o][t] = 0
  BY <1>2, SuccessorsAre DEF LegalHistory, Sent
<1>4. LegalHistory'
  <2> SUFFICES ASSUME NEW p \in Orders, NEW q \in Queues
               PROVE  /\ sent'[p][q] <= 1
                      /\ \A t \in Successors(q) : Sent(p, t)' => Sent(p, q)'
                      /\ \A t, u \in Successors(q) :
                            Sent(p, t)' /\ Sent(p, u)' => t = u
    BY DEF LegalHistory
  <2>1. sent'[p][q] <= 1
    BY <1>1, <1>2
  <2>2. ASSUME NEW t \in Successors(q), Sent(p, t)' PROVE Sent(p, q)'
    <3>1. t \in Queues /\ t # q
      BY SuccessorsAre
    <3>2. CASE p = o /\ t = s
      BY <1>1, <3>1, <3>2, <2>2 DEF Sent
    <3>3. CASE ~(p = o /\ t = s)
      BY <1>1, <3>1, <3>3, <2>2 DEF LegalHistory, Sent
    <3> QED BY <3>2, <3>3
  <2>3. ASSUME NEW t \in Successors(q), NEW u \in Successors(q),
               Sent(p, t)', Sent(p, u)'
        PROVE  t = u
    <3>1. t \in Queues /\ u \in Queues
      BY SuccessorsAre
    <3>2. CASE p = o /\ (t = s \/ u = s)
      BY <1>1, <3>1, <3>2, <2>3 DEF Sent
    <3>3. CASE ~(p = o /\ (t = s \/ u = s))
      BY <1>1, <3>1, <3>3, <2>3 DEF LegalHistory, Sent
    <3> QED BY <3>2, <3>3
  <2> QED BY <2>1, <2>2, <2>3
<1>5. StageDiscipline'
  <2> SUFFICES ASSUME NEW q \in Queues, NEW p \in Orders, p \in Stage(q)'
               PROVE  Sent(p, q)' /\ \A t \in Successors(q) : sent'[p][t] = 0
    BY DEF StageDiscipline
  <2>1. CASE q = s /\ p = o
    BY <1>1, <1>3, <2>1, SuccessorsAre DEF Sent
  <2>2. CASE ~(q = s /\ p = o)
    <3>1. p \in Stage(q)
      BY <2>2
    <3>2. Sent(p, q) /\ \A t \in Successors(q) : sent[p][t] = 0
      BY <3>1 DEF StageDiscipline
    <3>3. \A t \in Successors(q) : ~(p = o /\ t = s) /\ t \in Queues
      BY SuccessorsAre
    <3> QED BY <1>1, <3>2, <3>3 DEF Sent
  <2> QED BY <2>1, <2>2
<1> QED BY <1>4, <1>5

\* What is at a stage are orders, also after a step.
LEMMA StageTypes ==
    ASSUME TypeOK' PROVE \A q \in Queues : Stage(q)' \subseteq Orders
<1> SUFFICES ASSUME NEW q \in Queues PROVE Stage(q)' \subseteq Orders
  OBVIOUS
<1>1. Waiting(q)' \subseteq Orders
  <2>1. queue'[q] \in Seq(Orders)
    BY DEF TypeOK
  <2> QED BY <2>1, RangeOfSeq DEF Waiting, Range
<1>2. InHand(q)' \subseteq Orders
  <2>1. /\ worker'.order \in Orders \cup {NoOrder}
        /\ \A r \in ApiQueues : consumer'[r].order \in Orders \cup {NoOrder}
        /\ paying' \subseteq Orders
    BY DEF TypeOK
  <2> QED BY <2>1, HandsAre DEF Queues
<1> QED BY <1>1, <1>2 DEF Stage

\* The head of a queue goes, and nothing else moves.
LEMMA Took ==
    ASSUME TypeOK, StageDiscipline, NEW q \in Queues, queue[q] # <<>>,
           queue' = [queue EXCEPT ![q] = Tail(@)]
    PROVE  /\ \A r \in Queues : /\ IsInjective(queue'[r])
                                /\ Waiting(r)' \subseteq Waiting(r)
           /\ Head(queue[q]) \in Orders
           /\ Head(queue[q]) \in Waiting(q)
           /\ Head(queue[q]) \notin Waiting(q)'
<1>1. queue \in [Queues -> Seq(Orders)] /\ \A r \in Queues : IsInjective(queue[r])
  BY DEF TypeOK, StageDiscipline
<1>2. /\ Head(queue[q]) \in Orders
      /\ Head(queue[q]) \in Range(queue[q])
      /\ Range(Tail(queue[q])) \subseteq Range(queue[q])
      /\ IsInjective(Tail(queue[q]))
      /\ Head(queue[q]) \notin Range(Tail(queue[q]))
  BY <1>1, TakeHead
<1>3. queue'[q] = Tail(queue[q]) /\ \A r \in Queues \ {q} : queue'[r] = queue[r]
  BY <1>1
<1> QED BY <1>1, <1>2, <1>3 DEF Waiting

\* A message that was not there is put last, and nothing else moves.
LEMMA Put ==
    ASSUME TypeOK, StageDiscipline, NEW q \in Queues, NEW o \in Orders,
           o \notin Waiting(q), queue' = [queue EXCEPT ![q] = Append(@, o)]
    PROVE  /\ \A r \in Queues : /\ IsInjective(queue'[r])
                                /\ r # q => Waiting(r)' = Waiting(r)
           /\ Waiting(q)' = Waiting(q) \cup {o}
<1>1. queue \in [Queues -> Seq(Orders)] /\ \A r \in Queues : IsInjective(queue[r])
  BY DEF TypeOK, StageDiscipline
<1>2. /\ Range(Append(queue[q], o)) = Range(queue[q]) \cup {o}
      /\ IsInjective(Append(queue[q], o))
  BY <1>1, PutLast DEF Waiting
<1>3. queue'[q] = Append(queue[q], o) /\ \A r \in Queues \ {q} : queue'[r] = queue[r]
  BY <1>1
<1> QED BY <1>1, <1>2, <1>3 DEF Waiting

\* What remains of the queues a failure hits was there before.
LEMMA Lost ==
    ASSUME TypeOK, StageDiscipline,
           \/ \E q \in Queues : LoseDelivered(q)
           \/ OrderApiCrash
           \/ BrokerRestart
           \/ UNCHANGED queue
    PROVE  \A r \in Queues : /\ IsInjective(queue'[r])
                             /\ Waiting(r)' \subseteq Waiting(r)
<1> SUFFICES ASSUME NEW r \in Queues
             PROVE  /\ IsInjective(queue'[r])
                    /\ Waiting(r)' \subseteq Waiting(r)
  OBVIOUS
<1>1. /\ queue \in [Queues -> Seq(Orders)] /\ queue[r] \in Seq(Orders)
      /\ IsInjective(queue[r]) /\ Len(queue[r]) \in Nat
  BY LenProperties DEF TypeOK, StageDiscipline
<1>2. CASE UNCHANGED queue
  BY <1>1, <1>2 DEF Waiting
<1>3. ASSUME NEW m \in Nat \ {0}, NEW n \in 0 .. Len(queue[r]),
             queue'[r] = SubSeq(queue[r], m, n)
      PROVE  IsInjective(queue'[r]) /\ Waiting(r)' \subseteq Waiting(r)
  BY <1>1, <1>3, CutOut DEF Waiting
<1>4. ASSUME NEW q \in Queues, LoseDelivered(q)
      PROVE  IsInjective(queue'[r]) /\ Waiting(r)' \subseteq Waiting(r)
  <2>1. PICK n \in 0 .. Len(queue[q]) :
           queue' = [queue EXCEPT ![q] = SubSeq(queue[q], n + 1, Len(queue[q]))]
    BY <1>4 DEF LoseDelivered
  <2>2. CASE r = q
    <3>1. queue'[r] = SubSeq(queue[r], n + 1, Len(queue[r]))
      BY <1>1, <2>1, <2>2
    <3>2. n + 1 \in Nat \ {0} /\ Len(queue[r]) \in 0 .. Len(queue[r])
      BY <1>1, <2>2
    <3> QED BY <1>3, <3>1, <3>2
  <2>3. CASE r # q
    BY <1>1, <2>1, <2>3 DEF Waiting
  <2> QED BY <2>2, <2>3
<1>5. CASE OrderApiCrash
  <2>1. PICK cut \in Cuts(ApiQueues) :
           queue' = [q \in Queues |->
                        IF q \in DOMAIN cut
                        THEN SubSeq(queue[q], cut[q] + 1, Len(queue[q]))
                        ELSE queue[q]]
    BY <1>5 DEF OrderApiCrash
  <2>2. CASE r \in DOMAIN cut
    <3>1. cut[r] \in 0 .. Len(queue[r])
      BY <2>2, CutTypes, QueuesAre
    <3>2. cut[r] + 1 \in Nat \ {0} /\ Len(queue[r]) \in 0 .. Len(queue[r])
      BY <1>1, <3>1
    <3>3. queue'[r] = SubSeq(queue[r], cut[r] + 1, Len(queue[r]))
      BY <2>1, <2>2
    <3> QED BY <1>3, <3>2, <3>3
  <2>3. CASE r \notin DOMAIN cut
    BY <1>1, <2>1, <2>3 DEF Waiting
  <2> QED BY <2>2, <2>3
<1>6. CASE BrokerRestart
  <2>1. PICK cut \in Cuts(Queues) :
           queue' = [q \in Queues |->
                        IF q \in DOMAIN cut THEN SubSeq(queue[q], 1, cut[q])
                        ELSE <<>>]
    BY <1>6 DEF BrokerRestart
  <2>2. CASE r \in DOMAIN cut
    <3>1. cut[r] \in 0 .. Len(queue[r]) /\ 1 \in Nat \ {0}
      BY <2>2, CutTypes
    <3>2. queue'[r] = SubSeq(queue[r], 1, cut[r])
      BY <2>1, <2>2
    <3> QED BY <1>3, <3>1, <3>2
  <2>3. CASE r \notin DOMAIN cut
    <3>1. queue'[r] = <<>>
      BY <2>1, <2>3
    <3> QED BY <3>1 DEF Waiting, Range, IsInjective
  <2> QED BY <2>2, <2>3
<1> QED BY <1>2, <1>4, <1>5, <1>6

\* A step that only empties queues and hands.
LEMMA StagesQuiet ==
    ASSUME TypeOK, LegalHistory, StageDiscipline, sent' = sent,
           \/ \E q \in Queues : LoseDelivered(q)
           \/ OrderApiCrash
           \/ BrokerRestart
           \/ UNCHANGED queue,
           \A q \in Queues : InHand(q)' \subseteq InHand(q)
    PROVE  LegalHistory' /\ StageDiscipline'
<1>1. \A q \in Queues : /\ IsInjective(queue'[q])
                        /\ Waiting(q)' \subseteq Waiting(q)
  BY Lost
<1>2. \A q \in Queues : Waiting(q) \cap InHand(q) = {}
  BY DEF StageDiscipline
<1>3. \A q \in Queues : /\ Waiting(q)' \cap InHand(q)' = {}
                        /\ Stage(q)' \subseteq Stage(q)
  BY <1>1, <1>2 DEF Stage
<1> QED BY <1>1, <1>3, StagesShrink

\* A step that takes the head of a queue in hand.
LEMMA StagesTake ==
    ASSUME TypeOK, LegalHistory, StageDiscipline, sent' = sent,
           NEW q \in Queues, queue[q] # <<>>,
           queue' = [queue EXCEPT ![q] = Tail(@)],
           InHand(q)' \subseteq InHand(q) \cup {Head(queue[q])},
           \A r \in Queues \ {q} : InHand(r)' \subseteq InHand(r)
    PROVE  LegalHistory' /\ StageDiscipline'
<1>1. /\ \A r \in Queues : /\ IsInjective(queue'[r])
                           /\ Waiting(r)' \subseteq Waiting(r)
      /\ Head(queue[q]) \in Waiting(q)
      /\ Head(queue[q]) \notin Waiting(q)'
  BY Took
<1>2. \A r \in Queues : Waiting(r) \cap InHand(r) = {}
  BY DEF StageDiscipline
<1>3. \A r \in Queues : /\ Waiting(r)' \cap InHand(r)' = {}
                        /\ Stage(r)' \subseteq Stage(r)
  <2> SUFFICES ASSUME NEW r \in Queues
               PROVE  /\ Waiting(r)' \cap InHand(r)' = {}
                      /\ Stage(r)' \subseteq Stage(r)
    OBVIOUS
  <2>1. CASE r = q
    BY <1>1, <1>2, <2>1 DEF Stage
  <2>2. CASE r # q
    BY <1>1, <1>2, <2>2 DEF Stage
  <2> QED BY <2>1, <2>2
<1> QED BY <1>1, <1>3, StagesShrink

\* A step that publishes, for the order in hand, a message that follows.
LEMMA StagesPut ==
    ASSUME TypeOK, TypeOK', LegalHistory, StageDiscipline,
           NEW q \in Queues, NEW s \in Successors(q), NEW o \in InHand(q),
           Publish(s, o),
           InHand(q)' = InHand(q) \ {o},
           \A r \in Queues \ {q} : InHand(r)' \subseteq InHand(r)
    PROVE  LegalHistory' /\ StageDiscipline'
<1>1. /\ s \in Queues /\ s # q
      /\ \A r \in Queues : s \in Successors(r) => r = q
  BY SuccessorsAre
<1>2. /\ \A r \in Queues : Waiting(r) \cap InHand(r) = {}
      /\ Sent(o, q) /\ \A t \in Successors(q) : sent[o][t] = 0
  BY DEF StageDiscipline, Stage
<1>3. o \in Orders
  BY <1>1, HandsAre DEF TypeOK, Queues
<1>4. o \notin Stage(s)
  BY <1>1, <1>2, <1>3 DEF StageDiscipline, Sent
<1>5. /\ \A r \in Queues : /\ IsInjective(queue'[r])
                           /\ r # s => Waiting(r)' = Waiting(r)
      /\ Waiting(s)' = Waiting(s) \cup {o}
  BY <1>1, <1>3, <1>4, Put DEF Publish, Stage
<1>6. o \notin Stage(q)'
  BY <1>1, <1>2, <1>5 DEF Stage
<1>7. \A r \in Queues : /\ Waiting(r)' \cap InHand(r)' = {}
                        /\ r # s => Stage(r)' \subseteq Stage(r)
  <2> SUFFICES ASSUME NEW r \in Queues
               PROVE  /\ Waiting(r)' \cap InHand(r)' = {}
                      /\ r # s => Stage(r)' \subseteq Stage(r)
    OBVIOUS
  <2>1. InHand(r)' \subseteq InHand(r)
    BY <1>1
  <2>2. CASE r = s
    BY <1>2, <1>4, <1>5, <2>1, <2>2 DEF Stage
  <2>3. CASE r # s
    BY <1>2, <1>5, <2>1, <2>3 DEF Stage
  <2> QED BY <2>2, <2>3
<1>8. Stage(s)' \subseteq Stage(s) \cup {o}
  BY <1>1, <1>5 DEF Stage
<1>9. \A r \in Queues : s \in Successors(r) =>
          /\ Sent(o, r)
          /\ o \notin Stage(r)'
          /\ \A t \in Successors(r) : sent[o][t] = 0
  BY <1>1, <1>2, <1>6
<1>10. sent[o][s] = 0 /\ sent' = [sent EXCEPT ![o][s] = @ + 1]
  BY <1>2 DEF Publish
<1> QED
  BY <1>1, <1>3, <1>5, <1>7, <1>8, <1>9, <1>10, StageTypes, StagesPublish

\* What a consumer publishes follows what it consumes.
LEMMA Emits ==
    \A q \in ApiQueues :
        Consumer(q).emits # "nothing" => Consumer(q).emits \in Successors(q)
  BY DEF ApiQueues, Consumer, Successors, InventoryConfirmedConsumer,
         InventoryFailedConsumer, PaymentApprovedConsumer,
         PaymentRejectedConsumer, ShippingCreatedConsumer

\* The Shipping service moves an order from one queue to the next.
LEMMA ShipStages ==
    ASSUME TypeOK, TypeOK', LegalHistory, StageDiscipline, Ship
    PROVE  LegalHistory' /\ StageDiscipline'
<1> DEFINE q == "shipping-requested"
           s == "shipping-created"
           o == Head(queue[q])
<1>1. /\ queue[q] # <<>>
      /\ queue' = [queue EXCEPT ![q] = Tail(@), ![s] = Append(@, o)]
      /\ sent' = [sent EXCEPT ![o][s] = @ + 1]
      /\ UNCHANGED <<worker, consumer, paying>>
  BY DEF Ship
<1>2. \A r \in Queues : InHand(r)' = InHand(r)
  BY <1>1, HandsAre DEF Queues
<1>3. /\ q \in Queues /\ s \in Queues /\ s \in Successors(q) /\ s # q
      /\ \A r \in Queues : s \in Successors(r) => r = q
      /\ InHand(q) = {}
  BY SuccessorsAre, QueuesAre, HandsAre DEF ApiQueues
<1> HIDE DEF q, s
<1>4. /\ queue \in [Queues -> Seq(Orders)]
      /\ \A r \in Queues : IsInjective(queue[r])
  BY DEF TypeOK, StageDiscipline
<1>5. /\ o \in Orders /\ o \in Waiting(q)
      /\ Range(Tail(queue[q])) \subseteq Waiting(q)
      /\ IsInjective(Tail(queue[q])) /\ o \notin Range(Tail(queue[q]))
  BY <1>1, <1>3, <1>4, TakeHead DEF Waiting
<1>6. Sent(o, q) /\ \A t \in Successors(q) : sent[o][t] = 0
  BY <1>3, <1>5 DEF StageDiscipline, Stage
<1>7. o \notin Stage(s)
  BY <1>3, <1>6 DEF StageDiscipline, Sent
<1>8. /\ Range(Append(queue[s], o)) = Waiting(s) \cup {o}
      /\ IsInjective(Append(queue[s], o))
  BY <1>3, <1>4, <1>5, <1>7, PutLast DEF Waiting, Stage
<1>9. /\ queue'[q] = Tail(queue[q]) /\ queue'[s] = Append(queue[s], o)
      /\ \A r \in Queues \ {q, s} : queue'[r] = queue[r]
  BY <1>1, <1>3, <1>4
<1> HIDE DEF o
<1>10. /\ \A r \in Queues : IsInjective(queue'[r])
       /\ Waiting(q)' \subseteq Waiting(q) /\ o \notin Waiting(q)'
       /\ Waiting(s)' = Waiting(s) \cup {o}
       /\ \A r \in Queues \ {q, s} : Waiting(r)' = Waiting(r)
  BY <1>4, <1>5, <1>8, <1>9 DEF Waiting
<1>11. \A r \in Queues : Waiting(r) \cap InHand(r) = {}
  BY DEF StageDiscipline
<1>12. \A r \in Queues : /\ Waiting(r)' \cap InHand(r)' = {}
                         /\ r # s => Stage(r)' \subseteq Stage(r)
  <2> SUFFICES ASSUME NEW r \in Queues
               PROVE  /\ Waiting(r)' \cap InHand(r)' = {}
                      /\ r # s => Stage(r)' \subseteq Stage(r)
    OBVIOUS
  <2>1. CASE r = s
    BY <1>2, <1>7, <1>10, <1>11, <2>1 DEF Stage
  <2>2. CASE r = q
    BY <1>2, <1>10, <1>11, <2>2 DEF Stage
  <2>3. CASE r \notin {q, s}
    BY <1>2, <1>10, <1>11, <2>3 DEF Stage
  <2> QED BY <2>1, <2>2, <2>3
<1>13. Stage(s)' \subseteq Stage(s) \cup {o} /\ o \notin Stage(q)'
  BY <1>2, <1>3, <1>10 DEF Stage
<1>14. \A r \in Queues : s \in Successors(r) =>
          /\ Sent(o, r)
          /\ o \notin Stage(r)'
          /\ \A t \in Successors(r) : sent[o][t] = 0
  BY <1>3, <1>6, <1>13
<1> QED
  BY <1>1, <1>3, <1>5, <1>6, <1>10, <1>12, <1>13, <1>14, StageTypes,
     StagesPublish

\* Every step keeps the history legal and the stages in order.
LEMMA NextStages ==
    ASSUME IInv, [Next]_vars, TypeOK'
    PROVE  LegalHistory' /\ StageDiscipline'
<1> USE DEF IInv
<1>1. ASSUME \E o \in Orders : \/ \E r \in Requests : \/ CheckoutReject(o, r)
                                                   \/ CheckoutCreate(o, r)
                               \/ CheckoutFinish(o)
                               \/ CheckoutThrows(o)
      PROVE  LegalHistory' /\ StageDiscipline'
  <2>1. UNCHANGED <<queue, sent, worker, consumer, paying>>
    BY <1>1 DEF CheckoutReject, CheckoutCreate, CheckoutFinish, CheckoutThrows
  <2>2. \A q \in Queues : InHand(q)' \subseteq InHand(q)
    BY <2>1, HandsAre DEF Queues
  <2> QED BY <2>1, <2>2, StagesQuiet
<1>2. ASSUME NEW o \in Orders, CheckoutPublish(o)
      PROVE  LegalHistory' /\ StageDiscipline'
  <2> DEFINE s == "order-submitted"
  <2>1. /\ s \in Queues
        /\ sent[o][s] = 0
        /\ queue' = [queue EXCEPT ![s] = Append(@, o)]
        /\ sent' = [sent EXCEPT ![o][s] = @ + 1]
    BY <1>2, QueuesAre DEF CheckoutPublish, Publish, RequestsOK
  <2>2. \A q \in Queues : InHand(q)' = InHand(q)
    BY <1>2, HandsAre DEF CheckoutPublish, Queues
  <2>3. o \notin Stage(s)
    BY <2>1 DEF StageDiscipline, Sent
  <2>4. /\ \A r \in Queues : /\ IsInjective(queue'[r])
                             /\ r # s => Waiting(r)' = Waiting(r)
        /\ Waiting(s)' = Waiting(s) \cup {o}
    BY <2>1, <2>3, Put DEF Stage
  <2>5. /\ \A q \in Queues : /\ Waiting(q)' \cap InHand(q)' = {}
                             /\ q # s => Stage(q)' \subseteq Stage(q)
        /\ Stage(s)' \subseteq Stage(s) \cup {o}
    BY <2>1, <2>2, <2>3, <2>4 DEF Stage, StageDiscipline
  <2>6. \A q \in Queues : s \notin Successors(q)
    BY SuccessorsAre
  <2> HIDE DEF s
  <2> QED BY <2>1, <2>4, <2>5, <2>6, StageTypes, StagesPublish
<1>3. ASSUME NEW o \in Orders, PaymentDecide(o)
      PROVE  LegalHistory' /\ StageDiscipline'
  <2>1. PICK s \in {"payment-approved", "payment-rejected"} : Publish(s, o)
    BY <1>3 DEF PaymentDecide
  <2>2. s \in Successors("payment-requested") /\ o \in InHand("payment-requested")
    BY <1>3, SuccessorsAre, HandsAre DEF PaymentDecide
  <2>3. /\ InHand("payment-requested")' = InHand("payment-requested") \ {o}
        /\ \A r \in Queues \ {"payment-requested"} : InHand(r)' \subseteq InHand(r)
    BY <1>3, HandsAre DEF PaymentDecide, Queues
  <2> QED BY <2>1, <2>2, <2>3, QueuesAre, StagesPut
<1>4. CASE InventoryCheck
  <2> DEFINE q == "order-submitted"
  <2>1. /\ queue[q] # <<>> /\ queue' = [queue EXCEPT ![q] = Tail(@)]
        /\ UNCHANGED <<sent, consumer, paying>>
        /\ worker'.order = Head(queue[q])
    BY <1>4 DEF InventoryCheck
  <2>2. /\ InHand(q)' \subseteq InHand(q) \cup {Head(queue[q])}
        /\ \A r \in Queues \ {q} : InHand(r)' \subseteq InHand(r)
    BY <2>1, HandsAre DEF Queues
  <2> HIDE DEF q
  <2>3. q \in Queues
    BY QueuesAre DEF q
  <2> QED BY <2>1, <2>2, <2>3, StagesTake
<1>5. CASE InventoryDeduct
  <2>1. /\ UNCHANGED <<queue, sent, consumer, paying>>
        /\ worker'.order = worker.order
    BY <1>5 DEF InventoryDeduct
  <2>2. \A q \in Queues : InHand(q)' \subseteq InHand(q)
    BY <2>1, HandsAre DEF Queues
  <2> QED BY <2>1, <2>2, StagesQuiet
<1>6. ASSUME InventoryConfirm \/ InventoryRefuse
      PROVE  LegalHistory' /\ StageDiscipline'
  <2>1. PICK s \in {"inventory-confirmed", "inventory-failed"} :
            Publish(s, worker.order)
    BY <1>6 DEF InventoryConfirm, InventoryRefuse
  <2>2. /\ worker.order \in Orders
        /\ worker'.order = NoOrder
        /\ UNCHANGED <<consumer, paying>>
    BY <1>6, BusyHolds DEF InventoryConfirm, InventoryRefuse, IdleWorker
  <2>3. /\ s \in Successors("order-submitted")
        /\ worker.order \in InHand("order-submitted")
    BY <2>1, <2>2, SuccessorsAre, HandsAre, OrdersAssumption
  <2>4. /\ InHand("order-submitted")' = InHand("order-submitted") \ {worker.order}
        /\ \A r \in Queues \ {"order-submitted"} : InHand(r)' \subseteq InHand(r)
    BY <2>2, HandsAre DEF Queues
  <2> QED BY <2>1, <2>3, <2>4, QueuesAre, StagesPut
<1>7. ASSUME NEW q \in ApiQueues, ConsumerFirst(q)
      PROVE  LegalHistory' /\ StageDiscipline'
  <2>1. /\ queue[q] # <<>> /\ queue' = [queue EXCEPT ![q] = Tail(@)]
        /\ UNCHANGED <<sent, worker, paying>>
        /\ consumer'[q].order = Head(queue[q])
        /\ \A r \in ApiQueues \ {q} : consumer'[r] = consumer[r]
    BY <1>7 DEF ConsumerFirst, TypeOK
  <2>2. /\ InHand(q)' \subseteq InHand(q) \cup {Head(queue[q])}
        /\ \A r \in Queues \ {q} : InHand(r)' \subseteq InHand(r)
    BY <2>1, HandsAre DEF Queues
  <2> QED BY <2>1, <2>2, QueuesAre, StagesTake
<1>8. ASSUME NEW q \in ApiQueues, ConsumerSecond(q)
      PROVE  LegalHistory' /\ StageDiscipline'
  <2>1. /\ UNCHANGED <<queue, sent, worker, paying>>
        /\ consumer'[q].order \in {NoOrder, consumer[q].order}
        /\ \A r \in ApiQueues \ {q} : consumer'[r] = consumer[r]
    BY <1>8 DEF ConsumerSecond, TypeOK, IdleConsumer
  <2>2. \A r \in Queues : InHand(r)' \subseteq InHand(r)
    BY <2>1, HandsAre DEF Queues
  <2> QED BY <2>1, <2>2, StagesQuiet
<1>9. ASSUME NEW q \in ApiQueues, ConsumerPublish(q)
      PROVE  LegalHistory' /\ StageDiscipline'
  <2> DEFINE o == consumer[q].order
  <2>1. /\ o \in Orders
        /\ Publish(Consumer(q).emits, o)
        /\ consumer'[q].order = NoOrder
        /\ \A r \in ApiQueues \ {q} : consumer'[r] = consumer[r]
        /\ UNCHANGED <<worker, paying>>
    BY <1>9, BusyHolds DEF ConsumerPublish, TypeOK, IdleConsumer
  <2>2. Consumer(q).emits \in Successors(q)
    BY <1>9, Emits DEF ConsumerPublish, HandlersOK
  <2>3. /\ o \in InHand(q)
        /\ InHand(q)' = InHand(q) \ {o}
        /\ \A r \in Queues \ {q} : InHand(r)' \subseteq InHand(r)
    BY <2>1, HandsAre, OrdersAssumption DEF Queues
  <2> QED BY <2>1, <2>2, <2>3, QueuesAre, StagesPut
<1>10. CASE PaymentReceive
  <2> DEFINE q == "payment-requested"
  <2>1. /\ queue[q] # <<>> /\ queue' = [queue EXCEPT ![q] = Tail(@)]
        /\ UNCHANGED <<sent, worker, consumer>>
        /\ paying' = paying \cup {Head(queue[q])}
    BY <1>10 DEF PaymentReceive
  <2>2. /\ InHand(q)' \subseteq InHand(q) \cup {Head(queue[q])}
        /\ \A r \in Queues \ {q} : InHand(r)' \subseteq InHand(r)
    BY <2>1, HandsAre DEF Queues
  <2> HIDE DEF q
  <2>3. q \in Queues
    BY QueuesAre DEF q
  <2> QED BY <2>1, <2>2, <2>3, StagesTake
<1>11. CASE Ship
  BY <1>11, ShipStages
<1>12. ASSUME \/ InventoryFails \/ PaymentFails \/ ShippingFails
              \/ \E q \in ApiQueues : ConsumerFails(q)
              \/ OrderApiCrash \/ BrokerRestart
              \/ UNCHANGED vars
       PROVE  LegalHistory' /\ StageDiscipline'
  <2>1. \/ \E q \in Queues : LoseDelivered(q)
        \/ OrderApiCrash
        \/ BrokerRestart
        \/ UNCHANGED queue
    BY <1>12, QueuesAre
       DEF InventoryFails, PaymentFails, ShippingFails, ConsumerFails, vars
  <2>2. /\ sent' = sent
        /\ worker' \in {worker, IdleWorker}
        /\ \A q \in ApiQueues : consumer'[q] \in {consumer[q], IdleConsumer}
        /\ paying' \in {paying, {}}
    BY <1>12 DEF InventoryFails, PaymentFails, ShippingFails, ConsumerFails,
                 OrderApiCrash, BrokerRestart, vars, TypeOK
  <2>3. \A q \in Queues : InHand(q)' \subseteq InHand(q)
    BY <2>2, HandsAre DEF Queues, IdleWorker, IdleConsumer
  <2> QED BY <2>1, <2>2, <2>3, StagesQuiet
<1> QED
  BY <1>1, <1>2, <1>3, <1>4, <1>5, <1>6, <1>7, <1>8, <1>9, <1>10, <1>11, <1>12
     DEF Next

-----------------------------------------------------------------------------
(***************************************************************************)
(* The inductive invariant.                                                *)
(***************************************************************************)

\* Every step leaves each handler either idle or with an order.
LEMMA NextHandlers == IInv /\ [Next]_vars => HandlersOK'
<1> SUFFICES ASSUME IInv, [Next]_vars PROVE HandlersOK'
  OBVIOUS
<1> USE DEF IInv
<1>1. /\ IdleWorker.pc = "idle" /\ IdleWorker.order = NoOrder
      /\ IdleConsumer.pc = "idle" /\ IdleConsumer.order = NoOrder
  BY DEF IdleWorker, IdleConsumer
<1>2. CASE worker' = worker /\ consumer' = consumer
  BY <1>2 DEF HandlersOK
<1>3. CASE worker' = IdleWorker /\ consumer' = consumer
  BY <1>1, <1>3 DEF HandlersOK
<1>4. CASE InventoryCheck
  <2>1. Head(queue["order-submitted"]) # NoOrder
    BY <1>4, QueueTypes, QueuesAre, OrdersAssumption DEF InventoryCheck
  <2> QED BY <1>4, <2>1 DEF InventoryCheck, HandlersOK
<1>5. CASE InventoryDeduct
  BY <1>5, BusyHolds, OrdersAssumption DEF InventoryDeduct, HandlersOK
<1>6. ASSUME NEW q \in ApiQueues, ConsumerFirst(q) PROVE HandlersOK'
  <2>1. Head(queue[q]) # NoOrder
    BY <1>6, QueueTypes, QueuesAre, OrdersAssumption DEF ConsumerFirst
  <2>2. /\ consumer'[q] = [pc |-> "second", order |-> Head(queue[q])]
        /\ \A r \in ApiQueues \ {q} : consumer'[r] = consumer[r]
        /\ worker' = worker
    BY <1>6 DEF ConsumerFirst, TypeOK
  <2> QED BY <2>1, <2>2 DEF HandlersOK
<1>7. ASSUME NEW q \in ApiQueues, ConsumerSecond(q) PROVE HandlersOK'
  <2>1. consumer[q].order # NoOrder
    BY <1>7 DEF ConsumerSecond, HandlersOK
  <2>2. /\ consumer'[q] = IF Consumer(q).emits = "nothing" THEN IdleConsumer
                          ELSE [pc |-> "publish", order |-> consumer[q].order]
        /\ \A r \in ApiQueues \ {q} : consumer'[r] = consumer[r]
        /\ worker' = worker
    BY <1>7 DEF ConsumerSecond, TypeOK
  <2> QED BY <1>1, <2>1, <2>2 DEF HandlersOK
<1>8. ASSUME NEW q \in ApiQueues, ConsumerPublish(q) \/ ConsumerFails(q)
      PROVE  HandlersOK'
  <2>1. /\ consumer'[q] = IdleConsumer
        /\ \A r \in ApiQueues \ {q} : consumer'[r] = consumer[r]
        /\ worker' = worker
    BY <1>8 DEF ConsumerPublish, ConsumerFails, TypeOK
  <2> QED BY <1>1, <2>1 DEF HandlersOK
<1>9. CASE OrderApiCrash
  BY <1>1, <1>9 DEF OrderApiCrash, HandlersOK
<1> QED
  BY <1>2, <1>3, <1>4, <1>5, <1>6, <1>7, <1>8, <1>9
     DEF Next, vars, CheckoutReject, CheckoutCreate, CheckoutPublish,
         CheckoutFinish, CheckoutThrows, PaymentDecide, InventoryConfirm,
         InventoryRefuse, PaymentReceive, Ship, InventoryFails, PaymentFails,
         ShippingFails, BrokerRestart

\* An order at a stage has been stored and published by its request.
LEMMA Underway ==
    ASSUME IInv, NEW o \in Orders, NEW q \in Queues, o \in Stage(q)
    PROVE  /\ Sent(o, q)
           /\ checkout[o] \notin {"idle", "rejected", "created"}
           /\ status[o] # "Absent"
<1>1. Sent(o, q)
  BY DEF IInv, StageDiscipline
<1>2. Sent(o, "order-submitted")
  BY <1>1, Root DEF IInv
<1> QED BY <1>1, <1>2 DEF IInv, RequestsOK, Sent

\* A consumer writes a status of an order that is at its stage.
LEMMA ConsumerWrites ==
    ASSUME IInv, NEW q \in ApiQueues, NEW s \in DOMAIN OrderStatus, NEW o,
           \/ ConsumerFirst(q) /\ s = Consumer(q).first /\ o = Head(queue[q])
           \/ ConsumerSecond(q) /\ s = Consumer(q).second /\ o = consumer[q].order
    PROVE  /\ o \in Orders /\ o \in Stage(q)
           /\ status' = [status EXCEPT ![o] = s]
           /\ UNCHANGED <<sent, checkout>>
<1> USE DEF IInv
<1>1. o \in Orders /\ o \in Stage(q)
  <2>1. CASE ConsumerFirst(q) /\ o = Head(queue[q])
    BY <2>1, Took, QueuesAre DEF ConsumerFirst, Stage
  <2>2. CASE ConsumerSecond(q) /\ o = consumer[q].order
    BY <2>2, BusyHolds, HandsAre, OrdersAssumption DEF ConsumerSecond, Stage
  <2> QED BY <2>1, <2>2
<1>2. status[o] # "Absent"
  BY <1>1, Underway, QueuesAre
<1>3. UpdateOrderStatus(o, s) /\ UNCHANGED <<sent, checkout>>
  BY DEF ConsumerFirst, ConsumerSecond
<1> QED BY <1>1, <1>2, <1>3 DEF UpdateOrderStatus

\* Every step keeps the requests in step with what they stored and published.
LEMMA NextRequests == IInv /\ [Next]_vars => RequestsOK'
<1> SUFFICES ASSUME IInv, [Next]_vars PROVE RequestsOK'
  OBVIOUS
<1> USE DEF IInv
<1>1. ASSUME NEW o \in Orders, NEW r \in Requests,
             CheckoutReject(o, r) \/ CheckoutCreate(o, r)
      PROVE  RequestsOK'
  BY <1>1 DEF CheckoutReject, CheckoutCreate, RequestsOK, TypeOK
<1>2. ASSUME NEW o \in Orders, CheckoutPublish(o) PROVE RequestsOK'
  <2>1. /\ checkout' = [checkout EXCEPT ![o] = "published"]
        /\ sent' = [sent EXCEPT ![o]["order-submitted"] = @ + 1]
        /\ status' = status /\ checkout[o] = "created"
    BY <1>2 DEF CheckoutPublish, Publish
  <2> QED BY <2>1 DEF RequestsOK, TypeOK
<1>3. ASSUME NEW o \in Orders, CheckoutFinish(o) PROVE RequestsOK'
  BY <1>3 DEF CheckoutFinish, UpdateOrderStatus, RequestsOK, TypeOK
<1>4. ASSUME NEW o \in Orders, CheckoutThrows(o) PROVE RequestsOK'
  BY <1>4 DEF CheckoutThrows, RequestsOK, TypeOK
<1>5. ASSUME NEW q \in ApiQueues, ConsumerFirst(q) \/ ConsumerSecond(q)
      PROVE  RequestsOK'
  <2>1. PICK o \in Orders, s \in DOMAIN OrderStatus :
           /\ o \in Stage(q)
           /\ status' = [status EXCEPT ![o] = s]
           /\ UNCHANGED <<sent, checkout>>
    BY <1>5, ConsumerWrites, QueuesAre
  <2>2. checkout[o] \notin {"idle", "rejected", "created"}
    BY <2>1, Underway, QueuesAre
  <2> QED BY <2>1, <2>2, StatusesAre DEF RequestsOK, TypeOK
<1>6. CASE OrderApiCrash
  BY <1>6 DEF OrderApiCrash, RequestsOK, TypeOK
<1>7. ASSUME NEW o \in Orders, NEW q \in Queues, q # "order-submitted",
             Publish(q, o), UNCHANGED <<checkout, status>>
      PROVE  RequestsOK'
  BY <1>7 DEF Publish, RequestsOK, TypeOK
<1>8. ASSUME NEW o \in Orders, PaymentDecide(o) PROVE RequestsOK'
  BY <1>7, <1>8 DEF PaymentDecide, Queues, ApiQueues
<1>9. ASSUME InventoryConfirm \/ InventoryRefuse PROVE RequestsOK'
  BY <1>7, <1>9, BusyHolds
     DEF InventoryConfirm, InventoryRefuse, Queues, ApiQueues
<1>10. ASSUME NEW q \in ApiQueues, ConsumerPublish(q) PROVE RequestsOK'
  <2>1. /\ Consumer(q).emits \in Queues
        /\ Consumer(q).emits # "order-submitted"
    BY <1>10, Emits, SuccessorsAre, QueuesAre DEF ConsumerPublish, HandlersOK
  <2> QED BY <1>7, <1>10, <2>1, BusyHolds DEF ConsumerPublish
<1>11. CASE Ship
  <2>1. PICK o \in Orders :
           /\ sent' = [sent EXCEPT ![o]["shipping-created"] = @ + 1]
           /\ UNCHANGED <<checkout, status>>
    BY <1>11, QueueTypes, QueuesAre DEF Ship
  <2> QED BY <2>1 DEF RequestsOK, TypeOK
<1>12. CASE UNCHANGED <<checkout, status, sent>>
  BY <1>12 DEF RequestsOK
<1> QED
  BY <1>1, <1>2, <1>3, <1>4, <1>5, <1>6, <1>8, <1>9, <1>10, <1>11, <1>12
     DEF Next, vars, InventoryCheck, InventoryDeduct, PaymentReceive,
         InventoryFails, PaymentFails, ShippingFails, ConsumerFails,
         BrokerRestart

\* Nothing waits, is held or was published when the system starts.
LEMMA InitIInv == Init => IInv
<1> SUFFICES ASSUME Init PROVE IInv
  OBVIOUS
<1>1. TypeOK
  BY InitType
<1>2. \A q \in Queues : Waiting(q) = {} /\ InHand(q) = {} /\ IsInjective(queue[q])
  <2>1. \A q \in Queues : Waiting(q) = {} /\ IsInjective(queue[q])
    BY DEF Init, Waiting, Range, IsInjective
  <2>2. \A q \in Queues : InHand(q) = {}
    BY HandsAre DEF Init, Queues, IdleWorker, IdleConsumer
  <2> QED BY <2>1, <2>2
<1>3. StageDiscipline
  BY <1>2 DEF StageDiscipline, Stage
<1>4. LegalHistory
  BY SuccessorsAre DEF LegalHistory, Init, Sent
<1>5. HandlersOK
  BY DEF Init, HandlersOK, IdleWorker, IdleConsumer
<1>6. RequestsOK
  BY QueuesAre DEF Init, RequestsOK
<1> QED BY <1>1, <1>3, <1>4, <1>5, <1>6 DEF IInv

\* Every step, failures included, keeps the inductive invariant.
LEMMA NextIInv == IInv /\ [Next]_vars => IInv'
  BY NextType, NextStages, NextHandlers, NextRequests DEF IInv

\* What the pipeline keeps at every step: where each order is, who holds it, and what was
\* published for it.  No handler, request or failure breaks any part of it.
THEOREM Inductive == Spec => []IInv
  BY InitIInv, NextIInv, PTL DEF Spec

\* The variables keep their types.
THEOREM TypeCorrect == Spec => []TypeOK
<1>1. IInv => TypeOK
  BY DEF IInv
<1> QED BY <1>1, Inductive, PTL

\* However requests, services and failures interleave, an order is paid at most
\* once and only when its stock is reserved, shipped at most once and only when
\* paid, and gets one outcome of its stock check and of its payment.
THEOREM HistoryLegal == Spec => []LegalHistory
<1>1. IInv => LegalHistory
  BY DEF IInv
<1> QED BY <1>1, Inductive, PTL

\* What is at a stage are orders.
LEMMA StageOrders ==
    ASSUME TypeOK PROVE \A q \in Queues : Stage(q) \subseteq Orders
<1> SUFFICES ASSUME NEW q \in Queues PROVE Stage(q) \subseteq Orders
  OBVIOUS
<1>1. Waiting(q) \subseteq Orders
  BY RangeOfSeq DEF TypeOK, Waiting, Range
<1>2. InHand(q) \subseteq Orders
  BY HandsAre DEF TypeOK, Queues
<1> QED BY <1>1, <1>2 DEF Stage

\* The inductive invariant leaves an order no second place to be.
LEMMA InOnePlace == IInv => OnePlace
<1> SUFFICES ASSUME IInv, NEW q \in Queues, NEW r \in Queues \ {q},
                    NEW o \in Stage(q), o \in Stage(r)
             PROVE  FALSE
  BY DEF OnePlace, IInv, StageDiscipline
<1>1. o \in Orders
  BY StageOrders DEF IInv
<1> DEFINE Last(p) == Sent(o, p) /\ \A s \in Successors(p) : ~Sent(o, s)
<1>2. Last(q) /\ Last(r)
  BY DEF IInv, StageDiscipline, Sent
<1>3. /\ \A p, s \in Queues : s \in Successors(p) /\ Sent(o, s) => Sent(o, p)
      /\ \A p \in Queues : \A s, t \in Successors(p) :
             Sent(o, s) /\ Sent(o, t) => s = t
  BY <1>1, SuccessorsAre DEF IInv, LegalHistory
<1>4. /\ Sent(o, "inventory-confirmed") => Sent(o, "order-submitted")
      /\ Sent(o, "inventory-failed") => Sent(o, "order-submitted")
      /\ Sent(o, "payment-requested") => Sent(o, "inventory-confirmed")
      /\ Sent(o, "payment-approved") => Sent(o, "payment-requested")
      /\ Sent(o, "payment-rejected") => Sent(o, "payment-requested")
      /\ Sent(o, "shipping-requested") => Sent(o, "payment-approved")
      /\ Sent(o, "shipping-created") => Sent(o, "shipping-requested")
      /\ ~(Sent(o, "inventory-confirmed") /\ Sent(o, "inventory-failed"))
      /\ ~(Sent(o, "payment-approved") /\ Sent(o, "payment-rejected"))
  BY <1>3, SuccessorsAre DEF Queues, ApiQueues
<1>5. /\ Last("order-submitted") =>
           ~Sent(o, "inventory-confirmed") /\ ~Sent(o, "inventory-failed")
      /\ Last("inventory-confirmed") => ~Sent(o, "payment-requested")
      /\ Last("payment-requested") =>
           ~Sent(o, "payment-approved") /\ ~Sent(o, "payment-rejected")
      /\ Last("payment-approved") => ~Sent(o, "shipping-requested")
      /\ Last("shipping-requested") => ~Sent(o, "shipping-created")
      /\ \A p \in Queues : Last(p) => Sent(o, p)
  BY SuccessorsAre
<1> HIDE DEF Last
<1> QED BY <1>2, <1>4, <1>5 DEF Queues, ApiQueues

\* No order is ever in two places of the pipeline: no two handlers work for it.
THEOREM OnePlaceAlways == Spec => []OnePlace
  BY InOnePlace, Inductive, PTL

-----------------------------------------------------------------------------
(***************************************************************************)
(* The status shown.                                                       *)
(***************************************************************************)

\* What was published stays published.
LEMMA SentKept ==
    ASSUME IInv, [Next]_vars, IInv',
           NEW o \in Orders, NEW q \in Queues, Sent(o, q)
    PROVE  Sent(o, q)'
<1> USE DEF IInv
<1>1. ASSUME NEW p \in Orders, NEW r \in Queues,
             sent' = [sent EXCEPT ![p][r] = @ + 1]
      PROVE  sent'[o][q] >= sent[o][q]
  BY <1>1 DEF TypeOK
<1>2. ASSUME sent' = sent PROVE sent'[o][q] >= sent[o][q]
  BY <1>2 DEF TypeOK
<1>3. sent'[o][q] >= sent[o][q]
  <2>1. ASSUME NEW p \in Orders, CheckoutPublish(p) \/ PaymentDecide(p)
        PROVE  sent'[o][q] >= sent[o][q]
    BY <1>1, <2>1, QueuesAre
       DEF CheckoutPublish, PaymentDecide, Publish, Queues, ApiQueues
  <2>2. ASSUME InventoryConfirm \/ InventoryRefuse
        PROVE  sent'[o][q] >= sent[o][q]
    BY <1>1, <2>2, BusyHolds
       DEF InventoryConfirm, InventoryRefuse, Publish, Queues, ApiQueues
  <2>3. ASSUME NEW r \in ApiQueues, ConsumerPublish(r)
        PROVE  sent'[o][q] >= sent[o][q]
    BY <1>1, <2>3, BusyHolds, QueuesAre DEF ConsumerPublish, Publish, HandlersOK
  <2>4. CASE Ship
    BY <1>1, <2>4, QueueTypes, QueuesAre DEF Ship, Queues, ApiQueues
  <2> QED
    BY <1>2, <2>1, <2>2, <2>3, <2>4
       DEF Next, vars, CheckoutReject, CheckoutCreate, CheckoutFinish,
           CheckoutThrows, InventoryCheck, InventoryDeduct, ConsumerFirst,
           ConsumerSecond, ConsumerFails, PaymentReceive, InventoryFails,
           PaymentFails, ShippingFails, OrderApiCrash, BrokerRestart
<1>4. sent'[o][q] <= 1 /\ sent'[o][q] \in Nat /\ sent[o][q] = 1
  BY DEF LegalHistory, TypeOK, Sent
<1> QED BY <1>3, <1>4 DEF Sent

\* Who writes a status: the request of the order, twice, and the consumer at
\* whose stage the order is.
LEMMA StatusWrites ==
    ASSUME IInv, [Next]_vars, NEW o \in Orders, status'[o] # status[o]
    PROVE  \/ status'[o] \in {"Submitted", "InventoryPending"}
           \/ \E q \in ApiQueues :
                 /\ status'[o] \in {Consumer(q).first, Consumer(q).second}
                 /\ Sent(o, q)
<1> USE DEF IInv
<1>1. ASSUME NEW p \in Orders, NEW r \in Requests, CheckoutCreate(p, r)
      PROVE  status'[o] = "Submitted"
  BY <1>1 DEF CheckoutCreate, TypeOK
<1>2. ASSUME NEW p \in Orders, CheckoutFinish(p)
      PROVE  status'[o] = "InventoryPending"
  BY <1>2 DEF CheckoutFinish, UpdateOrderStatus, TypeOK
<1>3. ASSUME NEW q \in ApiQueues, ConsumerFirst(q) \/ ConsumerSecond(q)
      PROVE  /\ status'[o] \in {Consumer(q).first, Consumer(q).second}
             /\ Sent(o, q)
  <2>1. PICK p \in Orders, s \in {Consumer(q).first, Consumer(q).second} :
           p \in Stage(q) /\ status' = [status EXCEPT ![p] = s]
    BY <1>3, ConsumerWrites, QueuesAre
  <2>2. p = o /\ status'[o] = s
    BY <2>1 DEF TypeOK
  <2> QED BY <2>1, <2>2, Underway, QueuesAre
<1> QED
  BY <1>1, <1>2, <1>3
     DEF Next, vars, CheckoutReject, CheckoutPublish, CheckoutThrows,
         InventoryCheck, InventoryDeduct, InventoryConfirm, InventoryRefuse,
         ConsumerPublish, ConsumerFails, PaymentReceive, PaymentDecide, Ship,
         InventoryFails, PaymentFails, ShippingFails, OrderApiCrash,
         BrokerRestart

\* A consumer writes what its message tells.
LEMMA TellsAre ==
    /\ DOMAIN Tells \cap {"Absent", "Submitted", "InventoryPending"} = {}
    /\ \A q \in ApiQueues : \A s \in {Consumer(q).first, Consumer(q).second} :
           s \in DOMAIN Tells /\ q \in Tells[s]
<1>1. DOMAIN Tells \cap {"Absent", "Submitted", "InventoryPending"} = {}
  BY DEF Tells
<1>2. /\ {"InventoryConfirmed", "PaymentPending", "InventoryFailed", "Failed",
          "PaymentApproved", "ShippingPending", "PaymentFailed",
          "ShippingCreated", "Completed"} \subseteq DOMAIN Tells
      /\ "inventory-confirmed" \in Tells["InventoryConfirmed"]
      /\ "inventory-confirmed" \in Tells["PaymentPending"]
      /\ "inventory-failed" \in Tells["InventoryFailed"]
      /\ "inventory-failed" \in Tells["Failed"]
      /\ "payment-approved" \in Tells["PaymentApproved"]
      /\ "payment-approved" \in Tells["ShippingPending"]
      /\ "payment-rejected" \in Tells["PaymentFailed"]
      /\ "payment-rejected" \in Tells["Failed"]
      /\ "shipping-created" \in Tells["ShippingCreated"]
      /\ "shipping-created" \in Tells["Completed"]
  BY DEF Tells
<1>3. /\ Consumer("inventory-confirmed") = InventoryConfirmedConsumer
      /\ Consumer("inventory-failed") = InventoryFailedConsumer
      /\ Consumer("payment-approved") = PaymentApprovedConsumer
      /\ Consumer("payment-rejected") = PaymentRejectedConsumer
      /\ Consumer("shipping-created") = ShippingCreatedConsumer
  BY DEF Consumer
<1>4. \A q \in ApiQueues : \A s \in {Consumer(q).first, Consumer(q).second} :
          s \in DOMAIN Tells /\ q \in Tells[s]
  BY <1>2, <1>3
     DEF ApiQueues, InventoryConfirmedConsumer, InventoryFailedConsumer,
         PaymentApprovedConsumer, PaymentRejectedConsumer, ShippingCreatedConsumer
<1> QED BY <1>1, <1>4

\* The status of an order is never ahead of what happened to the order.
THEOREM StatusAlwaysHonest == Spec => []StatusHonest
<1>1. Init => StatusWritten
  BY TellsAre DEF Init, StatusWritten
<1>2. IInv /\ IInv' /\ StatusWritten /\ [Next]_vars => StatusWritten'
  <2> SUFFICES ASSUME IInv, IInv', StatusWritten, [Next]_vars, NEW o \in Orders,
                      status'[o] \in DOMAIN Tells
               PROVE  \E q \in ApiQueues :
                          /\ status'[o] \in {Consumer(q).first, Consumer(q).second}
                          /\ Sent(o, q)'
    BY DEF StatusWritten
  <2>1. PICK q \in ApiQueues :
           /\ status'[o] \in {Consumer(q).first, Consumer(q).second}
           /\ Sent(o, q)
    <3>1. CASE status'[o] = status[o]
      BY <3>1 DEF StatusWritten
    <3>2. CASE status'[o] # status[o]
      BY <3>2, StatusWrites, TellsAre
    <3> QED BY <3>1, <3>2
  <2> QED BY <2>1, SentKept, QueuesAre
<1>3. StatusWritten => StatusHonest
  <2> SUFFICES ASSUME StatusWritten, NEW o \in Orders, status[o] \in DOMAIN Tells
               PROVE  \E q \in Tells[status[o]] : Sent(o, q)
    BY DEF StatusHonest
  <2>1. PICK q \in ApiQueues :
           /\ status[o] \in {Consumer(q).first, Consumer(q).second}
           /\ Sent(o, q)
    BY DEF StatusWritten
  <2> QED BY <2>1, TellsAre
<1> QED BY <1>1, <1>2, <1>3, Inductive, PTL DEF Spec

-----------------------------------------------------------------------------
(***************************************************************************)
(* Who sets an order back.                                                 *)
(***************************************************************************)

\* The statuses in the order of the enumeration, stage by stage.
LEMMA Ranks ==
    /\ \A q \in Queues : Reached(q) \in Nat /\ 2 <= Reached(q)
    /\ \A q \in ApiQueues :
          /\ OrderStatus[Consumer(q).first] \in Nat
          /\ OrderStatus[Consumer(q).second] \in Nat
          /\ Reached(q) < OrderStatus[Consumer(q).first]
          /\ OrderStatus[Consumer(q).first] < OrderStatus[Consumer(q).second]
          /\ Consumer(q).emits # "nothing" =>
                OrderStatus[Consumer(q).second] = Reached(Consumer(q).emits)
    /\ \A q \in Queues \ ApiQueues : \A s \in Successors(q) : Reached(s) = Reached(q)
    /\ OrderStatus["Submitted"] = 1
    /\ OrderStatus["InventoryPending"] = 2
<1>1. /\ OrderStatus["Submitted"] = 1
      /\ OrderStatus["InventoryPending"] = 2
      /\ OrderStatus["InventoryConfirmed"] = 3
      /\ OrderStatus["InventoryFailed"] = 4
      /\ OrderStatus["PaymentPending"] = 5
      /\ OrderStatus["PaymentApproved"] = 6
      /\ OrderStatus["PaymentFailed"] = 7
      /\ OrderStatus["ShippingPending"] = 8
      /\ OrderStatus["ShippingCreated"] = 9
      /\ OrderStatus["Completed"] = 10
      /\ OrderStatus["Failed"] = 11
  BY DEF OrderStatus
<1>2. /\ \A q \in {"order-submitted", "inventory-confirmed", "inventory-failed"} :
            Reached(q) = 2
      /\ \A q \in {"payment-requested", "payment-approved", "payment-rejected"} :
            Reached(q) = 5
      /\ \A q \in {"shipping-requested", "shipping-created"} : Reached(q) = 8
  BY <1>1 DEF Reached, OrderStatus
<1>3. /\ Consumer("inventory-confirmed") = InventoryConfirmedConsumer
      /\ Consumer("inventory-failed") = InventoryFailedConsumer
      /\ Consumer("payment-approved") = PaymentApprovedConsumer
      /\ Consumer("payment-rejected") = PaymentRejectedConsumer
      /\ Consumer("shipping-created") = ShippingCreatedConsumer
  BY DEF Consumer
<1>4. \A q \in ApiQueues :
          /\ OrderStatus[Consumer(q).first] \in Nat
          /\ OrderStatus[Consumer(q).second] \in Nat
          /\ Reached(q) < OrderStatus[Consumer(q).first]
          /\ OrderStatus[Consumer(q).first] < OrderStatus[Consumer(q).second]
          /\ Consumer(q).emits # "nothing" =>
                OrderStatus[Consumer(q).second] = Reached(Consumer(q).emits)
  BY <1>1, <1>2, <1>3
     DEF ApiQueues, InventoryConfirmedConsumer, InventoryFailedConsumer,
         PaymentApprovedConsumer, PaymentRejectedConsumer, ShippingCreatedConsumer
<1>5. /\ \A q \in Queues : Reached(q) \in Nat /\ 2 <= Reached(q)
      /\ \A q \in Queues \ ApiQueues : \A s \in Successors(q) : Reached(s) = Reached(q)
  BY <1>2, SuccessorsAre DEF Queues, ApiQueues
<1> QED BY <1>1, <1>4, <1>5

\* How far the order in hand may be, handler by handler.
LEMMA InHandRanks ==
    /\ \A q \in Queues \ ApiQueues :
          ReachedInHand(q) = Reached(q) /\ ReachedInHand(q)' = Reached(q)
    /\ \A q \in ApiQueues :
          /\ consumer[q].pc = "second" =>
                ReachedInHand(q) = OrderStatus[Consumer(q).first]
          /\ consumer[q].pc # "second" =>
                ReachedInHand(q) = OrderStatus[Consumer(q).second]
          /\ consumer'[q].pc = "second" =>
                ReachedInHand(q)' = OrderStatus[Consumer(q).first]
          /\ consumer'[q].pc # "second" =>
                ReachedInHand(q)' = OrderStatus[Consumer(q).second]
<1>1. ASSUME NEW q \in Queues \ ApiQueues
      PROVE  ReachedInHand(q) = Reached(q) /\ ReachedInHand(q)' = Reached(q)
  <2>1. ReachedInHand(q) = Reached(q)
    BY DEF ReachedInHand
  <2>2. ReachedInHand(q)' = Reached(q)
    BY DEF ReachedInHand
  <2> QED BY <2>1, <2>2
<1>2. ASSUME NEW q \in ApiQueues
      PROVE  /\ consumer[q].pc = "second" =>
                   ReachedInHand(q) = OrderStatus[Consumer(q).first]
             /\ consumer[q].pc # "second" =>
                   ReachedInHand(q) = OrderStatus[Consumer(q).second]
  BY <1>2 DEF ReachedInHand
<1>3. ASSUME NEW q \in ApiQueues
      PROVE  /\ consumer'[q].pc = "second" =>
                   ReachedInHand(q)' = OrderStatus[Consumer(q).first]
             /\ consumer'[q].pc # "second" =>
                   ReachedInHand(q)' = OrderStatus[Consumer(q).second]
  BY <1>3 DEF ReachedInHand
<1> QED BY <1>1, <1>2, <1>3

\* A step that moves orders without writing a status.
LEMMA BehindMove ==
    ASSUME StatusBehind, status' = status,
           \A r \in Queues : \A o \in Waiting(r)' :
               o \in Waiting(r) \/ OrderStatus[status[o]] <= Reached(r),
           \A r \in Queues : \A o \in InHand(r)' :
               \/ o \in InHand(r)
               \/ r \notin ApiQueues /\ OrderStatus[status[o]] <= Reached(r),
           \A r \in ApiQueues :
               InHand(r)' = {} \/ consumer'[r].pc = consumer[r].pc
    PROVE  StatusBehind'
<1> SUFFICES ASSUME NEW r \in Queues
             PROVE  /\ \A o \in Waiting(r)' : OrderStatus[status'[o]] <= Reached(r)
                    /\ \A o \in InHand(r)' :
                           OrderStatus[status'[o]] <= ReachedInHand(r)'
  BY DEF StatusBehind, Reached
<1>1. ASSUME NEW o \in Waiting(r)'
      PROVE  OrderStatus[status'[o]] <= Reached(r)
  BY <1>1 DEF StatusBehind
<1>2. ASSUME NEW o \in InHand(r)'
      PROVE  OrderStatus[status'[o]] <= ReachedInHand(r)'
  <2>1. CASE r \notin ApiQueues
    BY <1>2, <2>1, InHandRanks DEF StatusBehind
  <2>2. CASE r \in ApiQueues
    <3>1. ReachedInHand(r)' = ReachedInHand(r)
      BY <1>2, <2>2, InHandRanks
    <3> QED BY <1>2, <2>2, <3>1 DEF StatusBehind
  <2> QED BY <2>1, <2>2
<1> QED BY <1>1, <1>2

\* A step that writes the status of one order.
LEMMA BehindWrite ==
    ASSUME TypeOK, TypeOK', StatusBehind, NEW o \in Orders,
           \A p \in Orders \ {o} : status'[p] = status[p],
           \A r \in Queues : Waiting(r)' \subseteq Waiting(r),
           \A r \in Queues : InHand(r)' \subseteq InHand(r) \cup {o},
           \A r \in ApiQueues :
               InHand(r)' \subseteq {o} \/ consumer'[r].pc = consumer[r].pc,
           \A r \in Queues :
               /\ o \in Waiting(r)' => OrderStatus[status'[o]] <= Reached(r)
               /\ o \in InHand(r)' => OrderStatus[status'[o]] <= ReachedInHand(r)'
    PROVE  StatusBehind'
<1>1. \A r \in Queues : Waiting(r)' \subseteq Orders /\ InHand(r)' \subseteq Orders
  <2>1. \A r \in Queues : Stage(r)' \subseteq Orders
    BY StageTypes
  <2> QED BY <2>1 DEF Stage
<1> SUFFICES ASSUME NEW r \in Queues
             PROVE  /\ \A p \in Waiting(r)' : OrderStatus[status'[p]] <= Reached(r)
                    /\ \A p \in InHand(r)' :
                           OrderStatus[status'[p]] <= ReachedInHand(r)'
  BY DEF StatusBehind, Reached
<1>2. ASSUME NEW p \in Waiting(r)'
      PROVE  OrderStatus[status'[p]] <= Reached(r)
  BY <1>1, <1>2 DEF StatusBehind
<1>3. ASSUME NEW p \in InHand(r)', p # o
      PROVE  OrderStatus[status'[p]] <= ReachedInHand(r)'
  <2>1. ReachedInHand(r)' = ReachedInHand(r)
    BY <1>3, InHandRanks
  <2> QED BY <1>1, <1>3, <2>1 DEF StatusBehind
<1> QED BY <1>2, <1>3

\* InventoryPending and what comes before it is behind everywhere.
LEMMA LowRank ==
    ASSUME NEW r \in Queues, NEW n \in 1 .. 2
    PROVE  n <= Reached(r) /\ n <= ReachedInHand(r)'
<1>1. CASE r \notin ApiQueues
  BY <1>1, Ranks, InHandRanks
<1>2. CASE r \in ApiQueues
  BY <1>2, Ranks, InHandRanks
<1> QED BY <1>1, <1>2

\* A consumer that writes a status has, or takes, the only message of the order.
LEMMA BehindConsumer ==
    ASSUME IInv, TypeOK', StatusBehind, NEW q \in ApiQueues,
           ConsumerFirst(q) \/ ConsumerSecond(q)
    PROVE  /\ StatusBehind'
           /\ \A o \in Orders :
                  \/ status'[o] = status[o]
                  \/ OrderStatus[status[o]] <= OrderStatus[status'[o]]
<1> USE DEF IInv
<1>1. q \in Queues
  BY QueuesAre
<1>2. PICK o \in Orders, s \in {Consumer(q).first, Consumer(q).second} :
         /\ o \in Stage(q)
         /\ status' = [status EXCEPT ![o] = s]
         /\ \/ ConsumerFirst(q) /\ s = Consumer(q).first /\ o = Head(queue[q])
            \/ ConsumerSecond(q) /\ s = Consumer(q).second /\ o = consumer[q].order
  BY ConsumerWrites, QueuesAre
<1>3. /\ status'[o] = s
      /\ \A p \in Orders \ {o} : status'[p] = status[p]
  BY <1>2 DEF TypeOK
<1>4. \A r \in Queues \ {q} : o \notin Stage(r)
  BY <1>1, <1>2, InOnePlace DEF OnePlace
<1>5. /\ \A r \in ApiQueues \ {q} : consumer'[r] = consumer[r]
      /\ UNCHANGED <<worker, paying>>
  BY <1>2 DEF ConsumerFirst, ConsumerSecond, TypeOK
<1>6. \A r \in Queues \ {q} : InHand(r)' = InHand(r)
  BY <1>5, HandsAre DEF Queues
<1>7. /\ consumer'[q].order \in {NoOrder, o}
      /\ o \notin Waiting(q)'
      /\ \A r \in Queues : Waiting(r)' \subseteq Waiting(r)
      /\ consumer'[q].order = o => OrderStatus[s] <= ReachedInHand(q)'
      /\ \/ o \in Waiting(q) /\ s = Consumer(q).first
         \/ o \in InHand(q) /\ s = Consumer(q).second /\ consumer[q].pc = "second"
  <2>1. CASE ConsumerFirst(q) /\ s = Consumer(q).first /\ o = Head(queue[q])
    <3>1. /\ queue[q] # <<>> /\ queue' = [queue EXCEPT ![q] = Tail(@)]
          /\ consumer'[q] = [pc |-> "second", order |-> o]
      BY <2>1 DEF ConsumerFirst, TypeOK
    <3>2. ReachedInHand(q)' = OrderStatus[s] /\ OrderStatus[s] \in Nat
      BY <2>1, <3>1, InHandRanks, Ranks
    <3>3. /\ o \in Waiting(q) /\ o \notin Waiting(q)'
          /\ \A r \in Queues : Waiting(r)' \subseteq Waiting(r)
      BY <1>1, <2>1, <3>1, Took
    <3> QED BY <2>1, <3>1, <3>2, <3>3
  <2>2. CASE ConsumerSecond(q) /\ s = Consumer(q).second /\ o = consumer[q].order
    <3>1. /\ queue' = queue
          /\ consumer[q].pc = "second"
          /\ consumer'[q].pc # "second"
          /\ consumer'[q].order \in {NoOrder, o}
      BY <2>2 DEF ConsumerSecond, TypeOK, IdleConsumer
    <3>2. ReachedInHand(q)' = OrderStatus[s] /\ OrderStatus[s] \in Nat
      BY <2>2, <3>1, InHandRanks, Ranks
    <3>3. o \in InHand(q) /\ \A r \in Queues : Waiting(r)' = Waiting(r)
      BY <2>2, <3>1, HandsAre, OrdersAssumption DEF Waiting
    <3>4. o \notin Waiting(q)'
      BY <1>1, <3>3 DEF StageDiscipline
    <3> QED BY <2>2, <3>1, <3>2, <3>3, <3>4
  <2> QED BY <1>2, <2>1, <2>2
<1>8. InHand(q)' \subseteq {o}
  BY <1>7, HandsAre
<1>9. StatusBehind'
  <2>1. \A r \in Queues : InHand(r)' \subseteq InHand(r) \cup {o}
    BY <1>6, <1>8
  <2>2. \A r \in ApiQueues :
           InHand(r)' \subseteq {o} \/ consumer'[r].pc = consumer[r].pc
    BY <1>5, <1>8
  <2>3. ASSUME NEW r \in Queues
        PROVE  /\ o \in Waiting(r)' => OrderStatus[status'[o]] <= Reached(r)
               /\ o \in InHand(r)' =>
                      OrderStatus[status'[o]] <= ReachedInHand(r)'
    <3>1. CASE r = q
      <4>1. o \in InHand(q)' => consumer'[q].order = o
        BY HandsAre
      <4> QED BY <1>3, <1>7, <3>1, <4>1
    <3>2. CASE r # q
      BY <1>4, <1>6, <1>7, <3>2 DEF Stage
    <3> QED BY <3>1, <3>2
  <2> QED BY <1>3, <1>7, <2>1, <2>2, <2>3, BehindWrite
<1>10. OrderStatus[status[o]] <= OrderStatus[s]
  <2>1. CASE o \in Waiting(q) /\ s = Consumer(q).first
    <3>1. OrderStatus[status[o]] <= Reached(q)
      BY <1>1, <2>1 DEF StatusBehind
    <3>2. status[o] \in DOMAIN OrderStatus
      BY <1>1, <1>2, Underway DEF TypeOK
    <3> QED BY <1>1, <2>1, <3>1, <3>2, Ranks, StatusesAre
  <2>2. CASE /\ o \in InHand(q) /\ s = Consumer(q).second
             /\ consumer[q].pc = "second"
    <3>1. OrderStatus[status[o]] <= OrderStatus[Consumer(q).first]
      BY <1>1, <2>2, InHandRanks DEF StatusBehind
    <3>2. status[o] \in DOMAIN OrderStatus
      BY <1>1, <1>2, Underway DEF TypeOK
    <3> QED BY <2>2, <3>1, <3>2, Ranks, StatusesAre
  <2> QED BY <1>7, <2>1, <2>2
<1> QED BY <1>3, <1>9, <1>10

\* Every step keeps the statuses behind.
LEMMA NextBehind ==
    ASSUME IInv, IInv', StatusBehind, [Next]_vars PROVE StatusBehind'
<1> USE DEF IInv
<1>1. ASSUME NEW o \in Orders,
             (\E r \in Requests : CheckoutCreate(o, r)) \/ CheckoutFinish(o)
      PROVE  StatusBehind'
  <2>1. /\ UNCHANGED <<queue, worker, consumer, paying>>
        /\ \A p \in Orders \ {o} : status'[p] = status[p]
        /\ status'[o] \in {"Submitted", "InventoryPending"}
    BY <1>1 DEF CheckoutCreate, CheckoutFinish, UpdateOrderStatus, TypeOK,
                RequestsOK
  <2>2. \A r \in Queues : Waiting(r)' = Waiting(r) /\ InHand(r)' = InHand(r)
    BY <2>1, HandsAre DEF Waiting, Queues
  <2>3. OrderStatus[status'[o]] \in 1 .. 2
    BY <2>1, Ranks
  <2>4. \A r \in Queues : /\ OrderStatus[status'[o]] <= Reached(r)
                          /\ OrderStatus[status'[o]] <= ReachedInHand(r)'
    BY <2>3, LowRank
  <2> QED BY <2>1, <2>2, <2>4, BehindWrite
<1>2. ASSUME NEW o \in Orders, CheckoutPublish(o) PROVE StatusBehind'
  <2> DEFINE s == "order-submitted"
  <2>1. /\ s \in Queues
        /\ queue' = [queue EXCEPT ![s] = Append(@, o)]
        /\ UNCHANGED <<status, worker, consumer, paying>>
        /\ status[o] = "Submitted" /\ sent[o][s] = 0
    BY <1>2, QueuesAre DEF CheckoutPublish, Publish, RequestsOK
  <2>2. \A r \in Queues : InHand(r)' = InHand(r)
    BY <2>1, HandsAre DEF Queues
  <2>3. o \notin Waiting(s)
    BY <2>1 DEF StageDiscipline, Stage, Sent
  <2> HIDE DEF s
  <2>4. \A r \in Queues : Waiting(r)' \subseteq Waiting(r) \cup {o}
    BY <2>1, <2>3, Put
  <2>5. OrderStatus[status[o]] \in 1 .. 2
    BY <2>1, Ranks
  <2>6. \A r \in Queues : OrderStatus[status[o]] <= Reached(r)
    BY <2>5, LowRank
  <2> QED BY <2>1, <2>2, <2>4, <2>6, BehindMove
<1>3. ASSUME InventoryCheck \/ PaymentReceive PROVE StatusBehind'
  <2>1. PICK q \in Queues \ ApiQueues :
          /\ queue[q] # <<>> /\ queue' = [queue EXCEPT ![q] = Tail(@)]
          /\ InHand(q)' \subseteq InHand(q) \cup {Head(queue[q])}
          /\ \A r \in Queues \ {q} : InHand(r)' = InHand(r)
    <3>1. CASE InventoryCheck
      <4> DEFINE q == "order-submitted"
      <4>1. /\ queue[q] # <<>> /\ queue' = [queue EXCEPT ![q] = Tail(@)]
            /\ UNCHANGED <<consumer, paying>>
            /\ worker'.order = Head(queue[q])
        BY <3>1 DEF InventoryCheck
      <4>2. /\ InHand(q)' \subseteq InHand(q) \cup {Head(queue[q])}
            /\ \A r \in Queues \ {q} : InHand(r)' = InHand(r)
        BY <4>1, HandsAre DEF Queues
      <4> QED BY <4>1, <4>2, QueuesAre
    <3>2. CASE PaymentReceive
      <4> DEFINE q == "payment-requested"
      <4>1. /\ queue[q] # <<>> /\ queue' = [queue EXCEPT ![q] = Tail(@)]
            /\ UNCHANGED <<worker, consumer>>
            /\ paying' = paying \cup {Head(queue[q])}
        BY <3>2 DEF PaymentReceive
      <4>2. /\ InHand(q)' \subseteq InHand(q) \cup {Head(queue[q])}
            /\ \A r \in Queues \ {q} : InHand(r)' = InHand(r)
        BY <4>1, HandsAre DEF Queues
      <4> QED BY <4>1, <4>2, QueuesAre
    <3> QED BY <1>3, <3>1, <3>2
  <2>2. UNCHANGED <<status, consumer>>
    BY <1>3 DEF InventoryCheck, PaymentReceive
  <2>3. /\ \A r \in Queues : Waiting(r)' \subseteq Waiting(r)
        /\ Head(queue[q]) \in Waiting(q)
    BY <2>1, Took
  <2>4. OrderStatus[status[Head(queue[q])]] <= Reached(q)
    BY <2>1, <2>3 DEF StatusBehind
  <2>5. \A r \in Queues : \A o \in InHand(r)' :
            \/ o \in InHand(r)
            \/ r \notin ApiQueues /\ OrderStatus[status[o]] <= Reached(r)
    BY <2>1, <2>4
  <2> QED BY <2>2, <2>3, <2>5, BehindMove
<1>4. ASSUME NEW q \in Queues, NEW s \in Successors(q), NEW o \in InHand(q),
             Publish(s, o), status' = status,
             OrderStatus[status[o]] <= Reached(s),
             \A r \in Queues : InHand(r)' \subseteq InHand(r),
             \A r \in ApiQueues :
                 InHand(r)' = {} \/ consumer'[r].pc = consumer[r].pc
      PROVE  StatusBehind'
  <2>1. s \in Queues /\ o \in Orders
    BY SuccessorsAre, StageOrders DEF Stage
  <2>2. sent[o][s] = 0
    BY DEF StageDiscipline, Stage
  <2>3. o \notin Waiting(s)
    BY <2>1, <2>2 DEF StageDiscipline, Stage, Sent
  <2>4. /\ \A r \in Queues \ {s} : Waiting(r)' = Waiting(r)
        /\ Waiting(s)' = Waiting(s) \cup {o}
    BY <1>4, <2>1, <2>3, Put DEF Publish
  <2>5. \A r \in Queues : \A p \in Waiting(r)' :
            p \in Waiting(r) \/ OrderStatus[status[p]] <= Reached(r)
    BY <1>4, <2>1, <2>4
  <2> QED BY <1>4, <2>5, BehindMove
<1>5. ASSUME InventoryConfirm \/ InventoryRefuse PROVE StatusBehind'
  <2> DEFINE q == "order-submitted"
             o == worker.order
  <2>1. PICK s \in {"inventory-confirmed", "inventory-failed"} : Publish(s, o)
    BY <1>5 DEF InventoryConfirm, InventoryRefuse
  <2>2. /\ o \in Orders
        /\ worker'.order = NoOrder
        /\ UNCHANGED <<status, consumer, paying>>
    BY <1>5, BusyHolds DEF InventoryConfirm, InventoryRefuse, IdleWorker
  <2>3. q \in Queues \ ApiQueues /\ s \in Successors(q) /\ o \in InHand(q)
    BY <2>1, <2>2, SuccessorsAre, QueuesAre, HandsAre, OrdersAssumption
  <2>4. \A r \in Queues : InHand(r)' \subseteq InHand(r)
    BY <2>2, HandsAre DEF Queues
  <2>5. OrderStatus[status[o]] <= Reached(s)
    BY <2>3, Ranks, InHandRanks DEF StatusBehind
  <2> HIDE DEF q, o
  <2> QED BY <1>4, <2>1, <2>2, <2>3, <2>4, <2>5
<1>6. ASSUME NEW o \in Orders, PaymentDecide(o) PROVE StatusBehind'
  <2> DEFINE q == "payment-requested"
  <2>1. PICK s \in {"payment-approved", "payment-rejected"} : Publish(s, o)
    BY <1>6 DEF PaymentDecide
  <2>2. /\ UNCHANGED <<status, worker, consumer>>
        /\ o \in paying /\ paying' = paying \ {o}
    BY <1>6 DEF PaymentDecide
  <2>3. q \in Queues \ ApiQueues /\ s \in Successors(q) /\ o \in InHand(q)
    BY <2>1, <2>2, SuccessorsAre, QueuesAre, HandsAre
  <2>4. \A r \in Queues : InHand(r)' \subseteq InHand(r)
    BY <2>2, HandsAre DEF Queues
  <2>5. OrderStatus[status[o]] <= Reached(s)
    BY <2>3, Ranks, InHandRanks DEF StatusBehind
  <2> HIDE DEF q
  <2> QED BY <1>4, <2>1, <2>2, <2>3, <2>4, <2>5
<1>7. ASSUME NEW q \in ApiQueues, ConsumerPublish(q) PROVE StatusBehind'
  <2> DEFINE o == consumer[q].order
             s == Consumer(q).emits
  <2>1. /\ o \in Orders
        /\ Publish(s, o)
        /\ consumer[q].pc = "publish"
        /\ consumer'[q].order = NoOrder
        /\ \A r \in ApiQueues \ {q} : consumer'[r] = consumer[r]
        /\ UNCHANGED <<status, worker, paying>>
    BY <1>7, BusyHolds DEF ConsumerPublish, TypeOK, IdleConsumer
  <2>2. s # "nothing" /\ s \in Successors(q) /\ q \in Queues
    BY <1>7, <2>1, Emits, QueuesAre DEF HandlersOK
  <2>3. o \in InHand(q) /\ InHand(q)' = {}
    BY <2>1, HandsAre, OrdersAssumption
  <2>4. \A r \in Queues : InHand(r)' \subseteq InHand(r)
    BY <2>1, HandsAre DEF Queues
  <2>5. \A r \in ApiQueues :
            InHand(r)' = {} \/ consumer'[r].pc = consumer[r].pc
    BY <2>1, <2>3
  <2>6. OrderStatus[status[o]] <= OrderStatus[Consumer(q).second]
    BY <2>1, <2>2, <2>3, InHandRanks DEF StatusBehind
  <2>7. OrderStatus[status[o]] <= Reached(s)
    BY <2>2, <2>6, Ranks
  <2> HIDE DEF o, s
  <2> QED BY <1>4, <2>1, <2>2, <2>3, <2>4, <2>5, <2>7
<1>8. CASE Ship
  <2> DEFINE q == "shipping-requested"
             s == "shipping-created"
             o == Head(queue[q])
  <2>1. /\ queue[q] # <<>>
        /\ queue' = [queue EXCEPT ![q] = Tail(@), ![s] = Append(@, o)]
        /\ UNCHANGED <<status, worker, consumer, paying>>
    BY <1>8 DEF Ship
  <2>2. \A r \in Queues : InHand(r)' = InHand(r)
    BY <2>1, HandsAre DEF Queues
  <2>3. q \in Queues \ ApiQueues /\ s \in Queues /\ s # q /\ s \in Successors(q)
    BY SuccessorsAre, QueuesAre DEF ApiQueues
  <2> HIDE DEF q, s
  <2>4. queue \in [Queues -> Seq(Orders)]
    BY DEF TypeOK
  <2>5. /\ o \in Orders /\ o \in Waiting(q)
        /\ Range(Tail(queue[q])) \subseteq Waiting(q)
    BY <2>1, <2>3, <2>4, TakeHead DEF Waiting
  <2>6. Range(Append(queue[s], o)) = Waiting(s) \cup {o}
    BY <2>3, <2>4, <2>5, PutLast DEF Waiting
  <2>7. /\ queue'[q] = Tail(queue[q]) /\ queue'[s] = Append(queue[s], o)
        /\ \A r \in Queues \ {q, s} : queue'[r] = queue[r]
    BY <2>1, <2>3, <2>4
  <2>8. OrderStatus[status[o]] <= Reached(s)
    BY <2>3, <2>5, Ranks DEF StatusBehind
  <2> HIDE DEF o
  <2>9. \A r \in Queues : \A p \in Waiting(r)' :
            p \in Waiting(r) \/ OrderStatus[status[p]] <= Reached(r)
    BY <2>5, <2>6, <2>7, <2>8 DEF Waiting
  <2> QED BY <2>1, <2>2, <2>9, BehindMove
<1>9. ASSUME NEW q \in ApiQueues, ConsumerFirst(q) \/ ConsumerSecond(q)
      PROVE  StatusBehind'
  BY <1>9, BehindConsumer
<1>10. ASSUME \/ \E o \in Orders : \/ \E r \in Requests : CheckoutReject(o, r)
                                   \/ CheckoutThrows(o)
              \/ InventoryDeduct
              \/ InventoryFails \/ PaymentFails \/ ShippingFails
              \/ \E q \in ApiQueues : ConsumerFails(q)
              \/ OrderApiCrash \/ BrokerRestart
              \/ UNCHANGED vars
       PROVE  StatusBehind'
  <2>1. \/ \E q \in Queues : LoseDelivered(q)
        \/ OrderApiCrash
        \/ BrokerRestart
        \/ UNCHANGED queue
    BY <1>10, QueuesAre
       DEF InventoryFails, PaymentFails, ShippingFails, ConsumerFails, vars,
           CheckoutReject, CheckoutThrows, InventoryDeduct
  <2>2. /\ status' = status
        /\ worker'.order \in {worker.order, NoOrder}
        /\ \A q \in ApiQueues : consumer'[q] \in {consumer[q], IdleConsumer}
        /\ paying' \in {paying, {}}
    BY <1>10 DEF InventoryFails, PaymentFails, ShippingFails, ConsumerFails,
                 OrderApiCrash, BrokerRestart, vars, TypeOK, CheckoutReject,
                 CheckoutThrows, InventoryDeduct, IdleWorker
  <2>3. \A q \in Queues : InHand(q)' \subseteq InHand(q)
    BY <2>2, HandsAre DEF Queues, IdleConsumer
  <2>4. \A q \in ApiQueues :
            InHand(q)' = {} \/ consumer'[q].pc = consumer[q].pc
    BY <2>2, HandsAre DEF IdleConsumer
  <2>5. \A r \in Queues : Waiting(r)' \subseteq Waiting(r)
    BY <2>1, Lost
  <2> QED BY <2>2, <2>3, <2>4, <2>5, BehindMove
<1> QED
  BY <1>1, <1>2, <1>3, <1>5, <1>6, <1>7, <1>8, <1>9, <1>10 DEF Next

\* A status goes back only by the write with which Checkout answers: no
\* consumer, whatever overtakes or fails, ever sets an order back.
THEOREM SetBackOnlyByCheckout == Spec => OnlyCheckoutSetsBack
<1>1. Init => StatusBehind
  <2> SUFFICES ASSUME Init, NEW q \in Queues PROVE Stage(q) = {}
    BY DEF StatusBehind, Stage
  <2>1. Waiting(q) = {}
    BY DEF Init, Waiting, Range
  <2>2. InHand(q) = {}
    BY HandsAre DEF Init, Queues, IdleWorker, IdleConsumer
  <2> QED BY <2>1, <2>2 DEF Stage
<1>2. IInv /\ IInv' /\ StatusBehind /\ [Next]_vars => StatusBehind'
  BY NextBehind
<1>3. IInv /\ IInv' /\ StatusBehind /\ [Next]_vars =>
          [\A o \in Orders :
              /\ status[o] # "Absent"
              /\ OrderStatus[status'[o]] < OrderStatus[status[o]]
              => checkout[o] = "published" /\ checkout'[o] = "answered"]_vars
  <2> SUFFICES ASSUME IInv, IInv', StatusBehind, [Next]_vars, NEW o \in Orders,
                      status[o] # "Absent",
                      OrderStatus[status'[o]] < OrderStatus[status[o]]
               PROVE  checkout[o] = "published" /\ checkout'[o] = "answered"
    OBVIOUS
  <2> USE DEF IInv
  <2>1. /\ status[o] \in DOMAIN OrderStatus
        /\ status'[o] # status[o]
    BY StatusesAre DEF TypeOK
  <2>2. ASSUME NEW p \in Orders, NEW r \in Requests, CheckoutCreate(p, r)
        PROVE  FALSE
    <3>1. p = o
      BY <2>1, <2>2 DEF CheckoutCreate, TypeOK
    <3> QED BY <2>1, <2>2, <3>1, StatusesAre DEF CheckoutCreate, RequestsOK
  <2>3. ASSUME NEW p \in Orders, CheckoutFinish(p)
        PROVE  checkout[o] = "published" /\ checkout'[o] = "answered"
    <3>1. p = o
      BY <2>1, <2>3 DEF CheckoutFinish, UpdateOrderStatus, TypeOK
    <3> QED BY <2>3, <3>1 DEF CheckoutFinish, TypeOK
  <2>4. ASSUME NEW q \in ApiQueues, ConsumerFirst(q) \/ ConsumerSecond(q)
        PROVE  FALSE
    <3>1. OrderStatus[status[o]] <= OrderStatus[status'[o]]
      BY <2>1, <2>4, BehindConsumer
    <3>2. status'[o] # "Absent"
      BY <2>1, <2>4, StatusWrites, QueuesAre, StatusesAre
    <3> QED BY <2>1, <3>1, <3>2, StatusesAre DEF TypeOK
  <2> QED
    BY <2>1, <2>2, <2>3, <2>4
       DEF Next, vars, CheckoutReject, CheckoutPublish, CheckoutThrows,
           InventoryCheck, InventoryDeduct, InventoryConfirm, InventoryRefuse,
           ConsumerPublish, ConsumerFails, PaymentReceive, PaymentDecide, Ship,
           InventoryFails, PaymentFails, ShippingFails, OrderApiCrash,
           BrokerRestart
<1> QED
  BY <1>1, <1>2, <1>3, Inductive, PTL DEF Spec, OnlyCheckoutSetsBack

-----------------------------------------------------------------------------
(***************************************************************************)
(* The stock.                                                              *)
(***************************************************************************)

\* The order that a request creates is not the one in the hand of the Inventory
\* service, and its stock is not reserved.
LEMMA CreatedIsNew ==
    ASSUME IInv, NEW o \in Orders, NEW r \in Requests, CheckoutCreate(o, r)
    PROVE  /\ items' = [items EXCEPT ![o] = r.items]
           /\ \A p \in Orders \ {o} : items'[p] = items[p]
           /\ worker.pc # "idle" => worker.order \in Orders \ {o}
           /\ o \notin Confirmed
<1> USE DEF IInv
<1>1. /\ items' = [items EXCEPT ![o] = r.items]
      /\ \A p \in Orders \ {o} : items'[p] = items[p]
      /\ checkout[o] = "idle"
  BY DEF CheckoutCreate, TypeOK
<1>2. worker.pc # "idle" => worker.order \in Orders \ {o}
  <2> SUFFICES ASSUME worker.pc # "idle" PROVE worker.order \in Orders \ {o}
    OBVIOUS
  <2>1. worker.order \in Orders
    BY BusyHolds
  <2>2. worker.order \in Stage("order-submitted")
    BY <2>1, HandsAre, OrdersAssumption DEF Stage
  <2> QED BY <1>1, <2>1, <2>2, Underway, QueuesAre
<1>3. o \notin Confirmed
  <2> SUFFICES ASSUME Sent(o, "inventory-confirmed") PROVE FALSE
    BY DEF Confirmed
  <2>1. Sent(o, "order-submitted")
    BY Root, QueuesAre DEF ApiQueues
  <2> QED BY <1>1, <2>1 DEF RequestsOK, Sent
<1> QED BY <1>1, <1>2, <1>3

\* The check of the lines covers the updates that follow it, provided that no
\* two lines of a request name one product.
LEMMA NextStock ==
    ASSUME \A r \in Requests : DistinctLines(r.items),
           IInv, IInv', StockInHand, StockNeverNegative, [Next]_vars
    PROVE  StockInHand' /\ StockNeverNegative'
<1> USE DEF IInv
<1>1. CASE UNCHANGED <<items, stock>> /\ worker' \in {worker, IdleWorker}
  BY <1>1 DEF StockInHand, StockNeverNegative, IdleWorker
<1>2. ASSUME NEW o \in Orders, NEW r \in Requests, CheckoutCreate(o, r)
      PROVE  StockInHand' /\ StockNeverNegative'
  <2>1. /\ UNCHANGED <<stock, worker>>
        /\ items'[o] = r.items
        /\ \A p \in Orders \ {o} : items'[p] = items[p]
        /\ checkout[o] = "idle"
        /\ \A i \in DOMAIN r.items : /\ r.items[i].product \in Products
                                     /\ r.items[i].qty > 0
    BY <1>2 DEF CheckoutCreate, TypeOK, Valid
  <2>2. worker.pc = "deduct" => worker.order \in Orders \ {o}
    BY <1>2, CreatedIsNew
  <2>3. DistinctLines(r.items)
    OBVIOUS
  <2>4. /\ \A p \in Orders : \A i \in DOMAIN items'[p] :
               items'[p][i].product \in Products /\ items'[p][i].qty > 0
        /\ \A p \in Orders : DistinctLines(items'[p])
    BY <2>1, <2>3 DEF StockInHand
  <2>5. worker.pc = "deduct" => items'[worker.order] = items[worker.order]
    BY <2>1, <2>2
  <2> QED BY <2>1, <2>4, <2>5 DEF StockInHand, StockNeverNegative, DistinctLines
<1>3. CASE InventoryCheck
  <2>1. /\ UNCHANGED <<items, stock>>
        /\ worker'.pc = "deduct" => HasStock(items[worker'.order])
    BY <1>3 DEF InventoryCheck
  <2> QED BY <2>1 DEF StockInHand, StockNeverNegative, HasStock
<1>4. CASE InventoryDeduct
  <2> DEFINE lines == items[worker.order]
             n == worker.next
  <2>1. /\ worker.pc = "deduct"
        /\ n <= Len(lines)
        /\ stock' = [stock EXCEPT ![lines[n].product] = @ - lines[n].qty]
        /\ worker'.order = worker.order /\ worker'.next = n + 1
        /\ UNCHANGED items
    BY <1>4 DEF InventoryDeduct
  <2>2. worker.order \in Orders
    BY <2>1, BusyHolds
  <2>3. /\ lines \in Seq([product : ProductIds, qty : Int])
        /\ n \in Nat \ {0}
        /\ DOMAIN lines = 1 .. Len(lines) /\ Len(lines) \in Nat
    BY <2>2, LenProperties DEF TypeOK
  <2>4. /\ \A i \in DOMAIN lines : /\ lines[i].product \in Products
                                   /\ lines[i].qty \in Int
                                   /\ i >= n => stock[lines[i].product] >= lines[i].qty
        /\ DistinctLines(lines)
        /\ stock \in [Products -> Int]
    <3>1. \A i \in DOMAIN lines : lines[i] \in [product : ProductIds, qty : Int]
      <4> HIDE DEF lines
      <4> QED BY <2>3, ElementOfSeq
    <3>2. stock \in [Products -> Int]
      BY DEF TypeOK
    <3>3. /\ \A i \in DOMAIN lines :
                /\ lines[i].product \in Products
                /\ i >= n => stock[lines[i].product] >= lines[i].qty
          /\ DistinctLines(lines)
      BY <2>1, <2>2 DEF StockInHand
    <3> HIDE DEF lines, n
    <3> QED BY <3>1, <3>2, <3>3
  <2> HIDE DEF lines, n
  <2>5. n \in DOMAIN lines
    BY <2>1, <2>3
  <2>6. StockNeverNegative'
    <3>1. n >= n
      BY <2>3
    <3>2. /\ lines[n].product \in Products /\ lines[n].qty \in Int
          /\ stock[lines[n].product] >= lines[n].qty
      BY <2>4, <2>5, <3>1
    <3>3. /\ stock'[lines[n].product] = stock[lines[n].product] - lines[n].qty
          /\ \A p \in Products \ {lines[n].product} : stock'[p] = stock[p]
          /\ \A p \in Products : stock[p] \in Int
      BY <2>1, <2>4, <3>2
    <3>4. ASSUME NEW p \in Products PROVE stock'[p] >= 0
      <4>1. CASE p = lines[n].product
        BY <3>2, <3>3, <4>1
      <4>2. CASE p # lines[n].product
        BY <3>3, <4>2 DEF StockNeverNegative
      <4> QED BY <4>1, <4>2
    <3> QED BY <3>4 DEF StockNeverNegative
  <2>7. ASSUME NEW i \in DOMAIN lines, i >= n + 1
        PROVE  stock'[lines[i].product] >= lines[i].qty
    <3>1. i # n /\ i >= n
      BY <2>3, <2>7
    <3>2. lines[i].product # lines[n].product
      BY <2>4, <2>5, <3>1 DEF DistinctLines
    <3> QED BY <2>1, <2>4, <3>1, <3>2
  <2>8. StockInHand'
    BY <2>1, <2>7 DEF StockInHand, lines, n
  <2> QED BY <2>6, <2>8
<1> QED
  BY <1>1, <1>2, <1>3, <1>4
     DEF Next, vars, CheckoutReject, CheckoutPublish, CheckoutFinish,
         CheckoutThrows, PaymentDecide, InventoryConfirm, InventoryRefuse,
         ConsumerFirst, ConsumerSecond, ConsumerPublish, ConsumerFails,
         PaymentReceive, Ship, InventoryFails, PaymentFails, ShippingFails,
         OrderApiCrash, BrokerRestart

\* Whatever is ordered concurrently and whatever fails, no product is sold more
\* often than it was in stock, if no request names a product on two lines.
THEOREM StockStaysPositive ==
    ASSUME \A r \in Requests : DistinctLines(r.items)
    PROVE  Spec => []StockNeverNegative
<1>1. Init => StockInHand /\ StockNeverNegative
  <2> SUFFICES ASSUME Init PROVE StockInHand /\ StockNeverNegative
    OBVIOUS
  <2>1. /\ \A o \in Orders : items[o] = <<>>
        /\ stock = InitialStock /\ worker.pc = "idle"
    BY DEF Init, IdleWorker
  <2>2. \A o \in Orders : DOMAIN items[o] = {}
    BY <2>1
  <2> QED BY <2>1, <2>2, StockAssumption
             DEF StockInHand, StockNeverNegative, DistinctLines
<1>2. IInv /\ IInv' /\ StockInHand /\ StockNeverNegative /\ [Next]_vars
          => StockInHand' /\ StockNeverNegative'
  BY NextStock
<1> QED BY <1>1, <1>2, Inductive, PTL DEF Spec

-----------------------------------------------------------------------------
(***************************************************************************)
(* Nothing is dropped while nothing fails.                                 *)
(***************************************************************************)

\* A queue is its head and the rest.
LEMMA HeadOrTail ==
    ASSUME NEW S, NEW s \in Seq(S), s # <<>>
    PROVE  Range(s) \subseteq Range(Tail(s)) \cup {Head(s)}
<1>1. /\ Len(s) \in Nat \ {0}
      /\ Len(Tail(s)) = Len(s) - 1 /\ Tail(s) \in Seq(S)
      /\ Head(s) = s[1]
      /\ \A i \in 1 .. Len(Tail(s)) : Tail(s)[i] = s[i + 1]
  BY HeadTailProperties, EmptySeq, LenProperties
<1>2. DOMAIN s = 1 .. Len(s) /\ DOMAIN Tail(s) = 1 .. Len(s) - 1
  BY <1>1, LenProperties
<1>3. ASSUME NEW i \in 1 .. Len(s), i # 1 PROVE s[i] \in Range(Tail(s))
  <2>1. i - 1 \in 1 .. Len(s) - 1 /\ Tail(s)[i - 1] = s[i]
    BY <1>1, <1>3
  <2> QED BY <1>2, <2>1 DEF Range
<1> QED BY <1>1, <1>2, <1>3 DEF Range

\* Taking the head of a queue leaves the rest waiting.
LEMMA RestWaits ==
    ASSUME TypeOK, NEW q \in Queues, queue[q] # <<>>,
           queue' = [queue EXCEPT ![q] = Tail(@)],
           NEW r \in Queues, NEW o \in Waiting(r)
    PROVE  o \in Waiting(r)' \/ (r = q /\ o = Head(queue[q]))
<1>1. queue \in [Queues -> Seq(Orders)]
  BY DEF TypeOK
<1>2. Range(queue[q]) \subseteq Range(Tail(queue[q])) \cup {Head(queue[q])}
  BY <1>1, HeadOrTail
<1>3. queue'[q] = Tail(queue[q]) /\ \A t \in Queues \ {q} : queue'[t] = queue[t]
  BY <1>1
<1> QED BY <1>2, <1>3 DEF Waiting

\* Publishing leaves what waits, and the message waits as well.
LEMMA AllWait ==
    ASSUME TypeOK, NEW q \in Queues, NEW o \in Orders,
           queue' = [queue EXCEPT ![q] = Append(@, o)]
    PROVE  o \in Waiting(q)' /\ \A r \in Queues : Waiting(r) \subseteq Waiting(r)'
<1>1. queue \in [Queues -> Seq(Orders)]
  BY DEF TypeOK
<1>2. Range(Append(queue[q], o)) = Range(queue[q]) \cup {o}
  BY <1>1, PutLast
<1>3. queue'[q] = Append(queue[q], o) /\ \A t \in Queues \ {q} : queue'[t] = queue[t]
  BY <1>1
<1> QED BY <1>2, <1>3 DEF Waiting

\* The messages after which nothing follows.
LEMMA FinalAre ==
    /\ FinalQueues = {"inventory-failed", "payment-rejected", "shipping-created"}
    /\ \A q \in ApiQueues : Consumer(q).emits = "nothing" => q \in FinalQueues
  BY DEF FinalQueues, Successors, Queues, ApiQueues, Consumer,
         InventoryConfirmedConsumer, InventoryFailedConsumer,
         PaymentApprovedConsumer, PaymentRejectedConsumer, ShippingCreatedConsumer

\* A step that is no failure takes an order from a stage only to put it to another
\* one, or when its last message has been handled.
LEMMA StageGoesOn ==
    ASSUME IInv, IInv', [Next]_vars, ~Fault,
           NEW q \in Queues, NEW o \in Stage(q)
    PROVE  q \in FinalQueues \/ \E s \in Queues : o \in Stage(s)'
<1> USE DEF IInv
<1>0. o \in Orders /\ (o \in Waiting(q) \/ o \in InHand(q))
  BY StageOrders DEF Stage
<1> DEFINE Goal == q \in FinalQueues \/ \E s \in Queues : o \in Stage(s)'
<1> SUFFICES Goal
  OBVIOUS
<1>1. CASE UNCHANGED <<queue, worker, consumer, paying>>
  <2>1. Waiting(q)' = Waiting(q) /\ InHand(q)' = InHand(q)
    BY <1>1, HandsAre DEF Waiting, Queues
  <2> QED BY <1>0, <2>1 DEF Stage
<1>2. ASSUME NEW p \in Orders, CheckoutPublish(p) PROVE Goal
  <2>1. InHand(q)' = InHand(q)
    BY <1>2, HandsAre DEF CheckoutPublish, Queues
  <2>2. Waiting(q) \subseteq Waiting(q)'
    BY <1>2, AllWait, QueuesAre DEF CheckoutPublish, Publish
  <2> QED BY <1>0, <2>1, <2>2 DEF Stage
<1>3. ASSUME NEW p \in Orders, PaymentDecide(p) PROVE Goal
  <2>1. PICK s \in {"payment-approved", "payment-rejected"} : Publish(s, p)
    BY <1>3 DEF PaymentDecide
  <2>2. s \in Queues
    BY <2>1, QueuesAre DEF Queues, ApiQueues
  <2>3. p \in Waiting(s)' /\ Waiting(q) \subseteq Waiting(q)'
    BY <2>1, <2>2, AllWait DEF Publish
  <2>4. InHand(q) \subseteq InHand(q)' \cup {p}
    BY <1>3, HandsAre DEF PaymentDecide, Queues
  <2> QED BY <1>0, <2>2, <2>3, <2>4 DEF Stage
<1>4. CASE InventoryCheck
  <2> DEFINE r == "order-submitted"
  <2>1. /\ queue[r] # <<>> /\ queue' = [queue EXCEPT ![r] = Tail(@)]
        /\ UNCHANGED <<consumer, paying>>
        /\ worker'.order = Head(queue[r]) /\ worker.pc = "idle"
        /\ r \in Queues
    BY <1>4, QueuesAre DEF InventoryCheck
  <2>2. InHand(r) = {} /\ worker.order = NoOrder
    BY <2>1, HandsAre DEF HandlersOK
  <2>3. /\ Head(queue[r]) \in Orders
        /\ InHand(r)' = {Head(queue[r])}
    <3>1. Head(queue[r]) \in Orders
      BY <2>1, TakeHead DEF TypeOK
    <3> QED BY <2>1, <3>1, HandsAre, OrdersAssumption
  <2>4. \A t \in Queues \ {r} : InHand(t)' = InHand(t)
    BY <2>1, HandsAre DEF Queues
  <2> HIDE DEF r
  <2>5. o \in Waiting(q) => o \in Waiting(q)' \/ (q = r /\ o = Head(queue[r]))
    BY <2>1, RestWaits
  <2> QED BY <1>0, <2>1, <2>2, <2>3, <2>4, <2>5 DEF Stage
<1>5. CASE InventoryDeduct
  <2>1. Waiting(q)' = Waiting(q) /\ InHand(q)' = InHand(q)
    BY <1>5, HandsAre DEF InventoryDeduct, Waiting, Queues
  <2> QED BY <1>0, <2>1 DEF Stage
<1>6. ASSUME InventoryConfirm \/ InventoryRefuse PROVE Goal
  <2>1. PICK s \in {"inventory-confirmed", "inventory-failed"} :
            Publish(s, worker.order)
    BY <1>6 DEF InventoryConfirm, InventoryRefuse
  <2>2. /\ worker.order \in Orders
        /\ UNCHANGED <<consumer, paying>>
    BY <1>6, BusyHolds DEF InventoryConfirm, InventoryRefuse
  <2>5. s \in Queues
    BY <2>1 DEF Queues, ApiQueues
  <2>3. worker.order \in Waiting(s)' /\ Waiting(q) \subseteq Waiting(q)'
    BY <2>1, <2>2, <2>5, AllWait DEF Publish
  <2>4. InHand(q) \subseteq InHand(q)' \cup {worker.order}
    BY <2>2, HandsAre DEF Queues
  <2> QED BY <1>0, <2>3, <2>4, <2>5 DEF Stage
<1>7. ASSUME NEW r \in ApiQueues, ConsumerFirst(r) PROVE Goal
  <2>1. /\ queue[r] # <<>> /\ queue' = [queue EXCEPT ![r] = Tail(@)]
        /\ UNCHANGED <<worker, paying>>
        /\ consumer[r].pc = "idle"
        /\ consumer'[r].order = Head(queue[r])
        /\ \A t \in ApiQueues \ {r} : consumer'[t] = consumer[t]
        /\ r \in Queues
    BY <1>7, QueuesAre DEF ConsumerFirst, TypeOK
  <2>2. InHand(r) = {}
    BY <2>1, HandsAre DEF HandlersOK
  <2>3. InHand(r)' = {Head(queue[r])}
    <3>1. Head(queue[r]) \in Orders
      BY <2>1, TakeHead DEF TypeOK
    <3> QED BY <2>1, <3>1, HandsAre, OrdersAssumption
  <2>4. \A t \in Queues \ {r} : InHand(t)' = InHand(t)
    <3>1. ASSUME NEW t \in ApiQueues \ {r} PROVE InHand(t)' = InHand(t)
      <4>1. consumer'[t] = consumer[t]
        BY <2>1
      <4>2. /\ InHand(t) = {consumer[t].order} \ {NoOrder}
            /\ InHand(t)' = {consumer'[t].order} \ {NoOrder}
        BY HandsAre
      <4> QED BY <4>1, <4>2
    <3>2. \A t \in Queues \ ApiQueues : InHand(t)' = InHand(t)
      BY <2>1, HandsAre DEF Queues
    <3> QED BY <3>1, <3>2
  <2>5. o \in Waiting(q) => o \in Waiting(q)' \/ (q = r /\ o = Head(queue[r]))
    BY <2>1, RestWaits
  <2> QED BY <1>0, <2>1, <2>2, <2>3, <2>4, <2>5 DEF Stage
<1>8. ASSUME NEW r \in ApiQueues, ConsumerSecond(r) PROVE Goal
  <2>1. /\ UNCHANGED <<queue, worker, paying>>
        /\ consumer'[r] = IF Consumer(r).emits = "nothing" THEN IdleConsumer
                          ELSE [pc |-> "publish", order |-> consumer[r].order]
        /\ \A t \in ApiQueues \ {r} : consumer'[t] = consumer[t]
    BY <1>8 DEF ConsumerSecond, TypeOK
  <2>2. Waiting(q)' = Waiting(q)
    BY <2>1 DEF Waiting
  <2>3. q # r => InHand(q)' = InHand(q)
    BY <2>1, HandsAre DEF Queues
  <2>4. CASE Consumer(r).emits = "nothing"
    BY <1>0, <2>2, <2>3, <2>4, FinalAre DEF Stage
  <2>5. CASE Consumer(r).emits # "nothing"
    <3>1. InHand(r)' = InHand(r)
      BY <2>1, <2>5, HandsAre
    <3> QED BY <1>0, <2>2, <2>3, <3>1 DEF Stage
  <2> QED BY <2>4, <2>5
<1>9. ASSUME NEW r \in ApiQueues, ConsumerPublish(r) PROVE Goal
  <2> DEFINE p == consumer[r].order
             s == Consumer(r).emits
  <2>1. /\ p \in Orders /\ Publish(s, p)
        /\ UNCHANGED <<worker, paying>>
        /\ \A t \in ApiQueues \ {r} : consumer'[t] = consumer[t]
    BY <1>9, BusyHolds DEF ConsumerPublish, TypeOK
  <2>2. s \in Queues
    BY <1>9, Emits, SuccessorsAre, QueuesAre DEF ConsumerPublish, HandlersOK
  <2>3. InHand(q) \subseteq InHand(q)' \cup {p}
    BY <2>1, HandsAre DEF Queues
  <2> HIDE DEF p, s
  <2>4. p \in Waiting(s)' /\ Waiting(q) \subseteq Waiting(q)'
    BY <2>1, <2>2, AllWait DEF Publish
  <2> QED BY <1>0, <2>2, <2>3, <2>4 DEF Stage
<1>10. CASE PaymentReceive
  <2> DEFINE r == "payment-requested"
  <2>1. /\ queue[r] # <<>> /\ queue' = [queue EXCEPT ![r] = Tail(@)]
        /\ UNCHANGED <<worker, consumer>>
        /\ paying' = paying \cup {Head(queue[r])}
        /\ r \in Queues
    BY <1>10, QueuesAre DEF PaymentReceive
  <2>2. /\ InHand(r)' = InHand(r) \cup {Head(queue[r])}
        /\ \A t \in Queues \ {r} : InHand(t)' = InHand(t)
    BY <2>1, HandsAre DEF Queues
  <2> HIDE DEF r
  <2>3. o \in Waiting(q) => o \in Waiting(q)' \/ (q = r /\ o = Head(queue[r]))
    BY <2>1, RestWaits
  <2> QED BY <1>0, <2>1, <2>2, <2>3 DEF Stage
<1>11. CASE Ship
  <2> DEFINE r == "shipping-requested"
             s == "shipping-created"
             p == Head(queue[r])
  <2>1. /\ queue[r] # <<>>
        /\ queue' = [queue EXCEPT ![r] = Tail(@), ![s] = Append(@, p)]
        /\ UNCHANGED <<worker, consumer, paying>>
        /\ r \in Queues /\ s \in Queues /\ s # r
    BY <1>11, QueuesAre DEF Ship, ApiQueues
  <2>2. InHand(q)' = InHand(q)
    BY <2>1, HandsAre DEF Queues
  <2> HIDE DEF r, s
  <2>3. queue \in [Queues -> Seq(Orders)]
    BY DEF TypeOK
  <2>4. p \in Orders
    BY <2>1, <2>3, TakeHead
  <2> HIDE DEF p
  <2>5. /\ queue'[r] = Tail(queue[r]) /\ queue'[s] = Append(queue[s], p)
        /\ \A t \in Queues \ {r, s} : queue'[t] = queue[t]
    BY <2>1, <2>3
  <2>6. /\ Range(queue[r]) \subseteq Range(Tail(queue[r])) \cup {p}
        /\ Range(Append(queue[s], p)) = Range(queue[s]) \cup {p}
    BY <2>1, <2>3, <2>4, HeadOrTail, PutLast DEF p
  <2>7. /\ Waiting(q) \subseteq Waiting(q)' \cup {p}
        /\ p \in Waiting(s)'
    BY <2>5, <2>6 DEF Waiting
  <2> QED BY <1>0, <2>1, <2>2, <2>7 DEF Stage
<1>12. ASSUME \/ InventoryFails \/ PaymentFails \/ ShippingFails
              \/ \E r \in ApiQueues : ConsumerFails(r)
              \/ \E p \in Orders : CheckoutThrows(p)
              \/ OrderApiCrash \/ BrokerRestart
       PROVE  FALSE
  <2>1. Fault
    BY <1>12 DEF InventoryFails, PaymentFails, ShippingFails, ConsumerFails,
                 CheckoutThrows, OrderApiCrash, BrokerRestart
  <2> QED BY <2>1
<1> HIDE DEF Goal
<1> QED
  BY <1>1, <1>2, <1>3, <1>4, <1>5, <1>6, <1>7, <1>8, <1>9, <1>10, <1>11, <1>12
     DEF Next, vars, CheckoutReject, CheckoutCreate, CheckoutFinish

\* Failures are not forgiven.
LEMMA FaultsStay ==
    ASSUME IInv, [Next]_vars, faults' = 0 PROVE faults = 0 /\ ~Fault
<1>1. faults \in Nat
  BY FaultsAssumption DEF IInv, TypeOK
<1>2. faults' = faults \/ Fault
  BY DEF Next, vars, CheckoutReject, CheckoutCreate, CheckoutPublish, CheckoutFinish,
         CheckoutThrows, PaymentDecide, InventoryCheck, InventoryDeduct,
         InventoryConfirm, InventoryRefuse, ConsumerFirst, ConsumerSecond,
         ConsumerPublish, ConsumerFails, PaymentReceive, Ship, InventoryFails,
         PaymentFails, ShippingFails, OrderApiCrash, BrokerRestart
<1> QED BY <1>1, <1>2 DEF Fault

\* Who publishes that an order was submitted, and that its stock is reserved.
LEMMA WhoSends ==
    ASSUME IInv, [Next]_vars, NEW o \in Orders, NEW q \in Queues,
           sent'[o][q] # sent[o][q]
    PROVE  \/ q = "order-submitted" /\ CheckoutPublish(o)
           \/ q = "inventory-confirmed" /\ InventoryConfirm /\ worker.order = o
           \/ q \notin {"order-submitted", "inventory-confirmed"}
<1> USE DEF IInv
<1>1. ASSUME NEW p \in Orders, NEW s \in Queues,
             sent' = [sent EXCEPT ![p][s] = @ + 1]
      PROVE  p = o /\ s = q
  BY <1>1 DEF TypeOK
<1>2. ASSUME NEW p \in Orders, CheckoutPublish(p)
      PROVE  q = "order-submitted" /\ CheckoutPublish(o)
  BY <1>1, <1>2, QueuesAre DEF CheckoutPublish, Publish
<1>3. ASSUME NEW p \in Orders, PaymentDecide(p)
      PROVE  q \in {"payment-approved", "payment-rejected"}
  BY <1>1, <1>3 DEF PaymentDecide, Publish, Queues, ApiQueues
<1>4. ASSUME InventoryConfirm
      PROVE  q = "inventory-confirmed" /\ worker.order = o
  BY <1>1, <1>4, BusyHolds DEF InventoryConfirm, Publish, Queues, ApiQueues
<1>5. ASSUME InventoryRefuse PROVE q = "inventory-failed"
  BY <1>1, <1>5, BusyHolds DEF InventoryRefuse, Publish, Queues, ApiQueues
<1>6. ASSUME NEW r \in ApiQueues, ConsumerPublish(r)
      PROVE  q \notin {"order-submitted", "inventory-confirmed"}
  <2>1. /\ Consumer(r).emits \in Successors(r)
        /\ Consumer(r).emits \in Queues
        /\ consumer[r].order \in Orders
        /\ Publish(Consumer(r).emits, consumer[r].order)
    BY <1>6, Emits, SuccessorsAre, QueuesAre, BusyHolds
       DEF ConsumerPublish, HandlersOK
  <2>2. q = Consumer(r).emits
    BY <1>1, <2>1 DEF Publish
  <2> QED BY <2>1, <2>2 DEF Successors, ApiQueues
<1>7. ASSUME Ship PROVE q = "shipping-created"
  BY <1>1, <1>7, QueueTypes, QueuesAre DEF Ship, Queues, ApiQueues
<1> QED
  BY <1>2, <1>3, <1>4, <1>5, <1>6, <1>7
     DEF Next, vars, CheckoutReject, CheckoutCreate, CheckoutFinish,
         CheckoutThrows, InventoryCheck, InventoryDeduct, ConsumerFirst,
         ConsumerSecond, ConsumerFails, PaymentReceive, InventoryFails,
         PaymentFails, ShippingFails, OrderApiCrash, BrokerRestart

\* No step without a failure drops an order that is under way.
LEMMA NextDropped ==
    ASSUME IInv, IInv', NoneDropped, [Next]_vars PROVE NoneDropped'
<1> SUFFICES ASSUME faults' = 0, NEW o \in Orders, Sent(o, "order-submitted")'
             PROVE  \E q \in Queues : /\ Sent(o, q)'
                                      /\ o \in Stage(q)' \/ q \in FinalQueues
  BY DEF NoneDropped, FinalQueues
<1>1. faults = 0 /\ ~Fault
  BY FaultsStay
<1>2. \A q \in Queues : o \in Stage(q)' => Sent(o, q)'
  BY DEF IInv, StageDiscipline
<1>3. CASE Sent(o, "order-submitted")
  <2>1. PICK q \in Queues : Sent(o, q) /\ (o \in Stage(q) \/ q \in FinalQueues)
    BY <1>1, <1>3 DEF NoneDropped
  <2>2. Sent(o, q)'
    BY <2>1, SentKept
  <2>3. q \in FinalQueues \/ \E s \in Queues : o \in Stage(s)'
    BY <1>1, <2>1, StageGoesOn
  <2> QED BY <1>2, <2>2, <2>3
<1>4. CASE ~Sent(o, "order-submitted")
  <2>1. CheckoutPublish(o)
    BY <1>4, WhoSends, QueuesAre DEF Sent
  <2>2. o \in Waiting("order-submitted")'
    BY <2>1, AllWait, QueuesAre DEF CheckoutPublish, Publish, IInv
  <2> QED BY <1>2, <2>2, QueuesAre DEF Stage
<1> QED BY <1>3, <1>4

\* While nothing fails no message is dropped: an order that was submitted is in some
\* place of the pipeline until its last message was handled.
THEOREM NothingIsForgotten == Spec => []NothingForgotten
<1>1. Init => NoneDropped
  BY QueuesAre DEF Init, NoneDropped, Sent
<1>2. IInv /\ IInv' /\ NoneDropped /\ [Next]_vars => NoneDropped'
  BY NextDropped
<1>3. NoneDropped => NothingForgotten
  <2> SUFFICES ASSUME NoneDropped, faults = 0, NEW o \in Orders,
                      Sent(o, "order-submitted"), AtRest(o)
               PROVE  \E q \in FinalQueues : Sent(o, q)
    BY DEF NothingForgotten
  <2> QED BY DEF NoneDropped, AtRest
<1> QED BY <1>1, <1>2, <1>3, Inductive, PTL DEF Spec

-----------------------------------------------------------------------------
(***************************************************************************)
(* The stock adds up while nothing fails.                                  *)
(***************************************************************************)

\* What lines ask for, up to one place and up to the next.
LEMMA DemandUpTo ==
    ASSUME NEW lines \in Seq([product : ProductIds, qty : Int]), NEW p
    PROVE  /\ Demand(SubSeq(lines, 1, 0), p) = 0
           /\ Demand(SubSeq(lines, 1, Len(lines)), p) = Demand(lines, p)
           /\ \A n \in DOMAIN lines :
                 /\ Demand(SubSeq(lines, 1, n - 1), p) \in Int
                 /\ Demand(SubSeq(lines, 1, n), p) = Demand(SubSeq(lines, 1, n - 1), p)
                        + IF lines[n].product = p THEN lines[n].qty ELSE 0
<1> DEFINE Line == [product : ProductIds, qty : Int]
<1>1. /\ Len(lines) \in Nat /\ DOMAIN lines = 1 .. Len(lines)
      /\ \A i \in DOMAIN lines : lines[i] \in Line
  BY LinesAre
<1>2. Demand(SubSeq(lines, 1, 0), p) = 0
  <2>1. SubSeq(lines, 1, 0) = <<>>
    BY SubSeqEmpty
  <2> QED BY <2>1, DemandEmpty
<1>3. SubSeq(lines, 1, Len(lines)) = lines
  BY SubSeqFull
<1>4. ASSUME NEW n \in DOMAIN lines
      PROVE  /\ Demand(SubSeq(lines, 1, n - 1), p) \in Int
             /\ Demand(SubSeq(lines, 1, n), p) = Demand(SubSeq(lines, 1, n - 1), p)
                    + IF lines[n].product = p THEN lines[n].qty ELSE 0
  <2> DEFINE front == SubSeq(lines, 1, n - 1)
  <2>1. front \in Seq(Line) /\ Len(front) = n - 1
    BY <1>1, <1>4, SubSeqProperties
  <2>2. lines[n] \in Line /\ n \in 1 .. Len(lines) /\ 1 \in 1 .. Len(lines)
    BY <1>1, <1>4
  <2>3. SubSeq(lines, 1, n) = Append(front, lines[n])
    <3>1. /\ SubSeq(lines, 1, n) \in Seq(Line)
          /\ Len(SubSeq(lines, 1, n)) = n
          /\ \A i \in 1 .. n : SubSeq(lines, 1, n)[i] = lines[i]
      BY <1>1, <2>2, SubSeqProperties
    <3>2. \A i \in 1 .. n - 1 : front[i] = lines[i]
      BY <1>1, <2>2, SubSeqProperties
    <3> HIDE DEF front, Line
    <3>3. /\ Append(front, lines[n]) \in Seq(Line)
          /\ Len(Append(front, lines[n])) = n
          /\ \A i \in 1 .. n - 1 : Append(front, lines[n])[i] = front[i]
          /\ Append(front, lines[n])[n] = lines[n]
      BY <2>1, <2>2, AppendProperties
    <3>4. \A i \in 1 .. n : SubSeq(lines, 1, n)[i] = Append(front, lines[n])[i]
      BY <2>2, <3>1, <3>2, <3>3
    <3> QED BY <3>1, <3>3, <3>4, SeqEqual
  <2> HIDE DEF front
  <2>4. Demand(Append(front, lines[n]), p)
            = Demand(front, p) + IF lines[n].product = p THEN lines[n].qty ELSE 0
    BY <2>1, <2>2, DemandAppend
  <2>5. Demand(front, p) \in Int
    BY <2>1, DemandType
  <2> QED BY <2>3, <2>4, <2>5 DEF front
<1> QED BY <1>2, <1>3, <1>4

\* The line the Inventory service deducts next is one of the order in hand, or the end.
LEMMA NextWithin ==
    ASSUME IInv, IInv', WithinLines, [Next]_vars PROVE WithinLines'
<1> USE DEF IInv
<1>1. CASE UNCHANGED items /\ worker' \in {worker, IdleWorker}
  BY <1>1 DEF WithinLines, IdleWorker
<1>2. ASSUME NEW o \in Orders, NEW r \in Requests, CheckoutCreate(o, r)
      PROVE  WithinLines'
  <2>1. worker' = worker
    BY <1>2 DEF CheckoutCreate
  <2>2. worker.pc = "deduct" => items'[worker.order] = items[worker.order]
    BY <1>2, CreatedIsNew
  <2> QED BY <2>1, <2>2 DEF WithinLines
<1>3. CASE InventoryCheck
  <2>1. /\ worker'.next = 1 /\ items' = items
        /\ worker'.order = Head(queue["order-submitted"])
        /\ queue["order-submitted"] # <<>>
    BY <1>3 DEF InventoryCheck
  <2>2. worker'.order \in Orders
    BY <2>1, QueueTypes, QueuesAre
  <2>3. Len(items[worker'.order]) \in Nat
    BY <2>2, LenProperties DEF TypeOK
  <2> QED BY <2>1, <2>3 DEF WithinLines
<1>4. CASE InventoryDeduct
  <2>1. /\ worker.pc = "deduct" /\ items' = items
        /\ worker.next <= Len(items[worker.order])
        /\ worker'.next = worker.next + 1 /\ worker'.order = worker.order
    BY <1>4 DEF InventoryDeduct
  <2>2. worker.next \in Nat /\ Len(items[worker.order]) \in Nat
    BY <2>1, BusyHolds, LenProperties DEF TypeOK
  <2> QED BY <2>1, <2>2 DEF WithinLines
<1> QED
  BY <1>1, <1>2, <1>3, <1>4
     DEF Next, vars, CheckoutReject, CheckoutPublish, CheckoutFinish,
         CheckoutThrows, PaymentDecide, InventoryConfirm, InventoryRefuse,
         ConsumerFirst, ConsumerSecond, ConsumerPublish, ConsumerFails,
         PaymentReceive, Ship, InventoryFails, PaymentFails, ShippingFails,
         OrderApiCrash, BrokerRestart

\* What confirmed orders have taken can be added up.
LEMMA ReservedTypes ==
    ASSUME TypeOK, IsFiniteSet(Orders), NEW p
    PROVE  /\ \A o \in Orders : Demand(items[o], p) \in Int
           /\ Confirmed \subseteq Orders /\ IsFiniteSet(Confirmed)
           /\ Reserved(p) \in Int
<1>1. \A o \in Orders : Demand(items[o], p) \in Int
  BY DemandType DEF TypeOK
<1>2. Confirmed \subseteq Orders /\ IsFiniteSet(Confirmed)
  BY FS_Subset DEF Confirmed
<1> DEFINE F == [o \in Orders |-> Demand(items[o], p)]
<1>3. \A o \in Confirmed : F[o] \in Int
  BY <1>1, <1>2
<1>4. Reserved(p) = SumFunctionOnSet(F, Confirmed)
  BY DEF Reserved
<1> HIDE DEF F
<1> QED BY <1>1, <1>2, <1>3, <1>4, SumType

\* What is reserved changes with the confirmations, and with nothing else.
LEMMA ReservedSame ==
    ASSUME TypeOK, IsFiniteSet(Orders), NEW p, Confirmed' = Confirmed,
           \A o \in Confirmed : items'[o] = items[o]
    PROVE  Reserved(p)' = Reserved(p)
<1> DEFINE F == [o \in Orders |-> Demand(items[o], p)]
           G == [o \in Orders |-> Demand(items'[o], p)]
<1>1. /\ Confirmed \subseteq Orders /\ IsFiniteSet(Confirmed)
      /\ \A o \in Orders : Demand(items[o], p) \in Int
  BY ReservedTypes
<1>2. \A o \in Confirmed : F[o] \in Int /\ G[o] = F[o]
  BY <1>1
<1>3. Reserved(p) = SumFunctionOnSet(F, Confirmed) /\ Reserved(p)' = SumFunctionOnSet(G, Confirmed')
  BY DEF Reserved
<1> HIDE DEF F, G
<1> QED BY <1>1, <1>2, <1>3, SumSame

\* A confirmation adds what its order asks for to what is reserved.
LEMMA ReservedMore ==
    ASSUME TypeOK, IsFiniteSet(Orders), NEW p, NEW o \in Orders \ Confirmed,
           Confirmed' = Confirmed \cup {o}, items' = items
    PROVE  Reserved(p)' = Reserved(p) + Demand(items[o], p)
<1> DEFINE F == [x \in Orders |-> Demand(items[x], p)]
<1>1. /\ Confirmed \subseteq Orders /\ IsFiniteSet(Confirmed)
      /\ \A x \in Orders : Demand(items[x], p) \in Int
      /\ Reserved(p) \in Int
  BY ReservedTypes
<1>2. \A x \in Orders : F[x] \in Int
  BY <1>1
<1>3. /\ Reserved(p) = SumFunctionOnSet(F, Confirmed)
      /\ Reserved(p)' = SumFunctionOnSet(F, Confirmed \cup {o})
      /\ F[o] = Demand(items[o], p)
  BY DEF Reserved
<1> HIDE DEF F
<1>4. SumFunctionOnSet(F, Confirmed \cup {o}) = F[o] + SumFunctionOnSet(F, Confirmed)
  BY <1>1, <1>2, SumOneMore
<1> QED BY <1>1, <1>2, <1>3, <1>4

\* Only a confirmation adds to the orders confirmed.
LEMMA ConfirmedBy ==
    ASSUME IInv, IInv', [Next]_vars
    PROVE  \/ Confirmed' = Confirmed
           \/ InventoryConfirm
<1> SUFFICES ASSUME ~InventoryConfirm, NEW o \in Orders
             PROVE  Sent(o, "inventory-confirmed")' <=> Sent(o, "inventory-confirmed")
  BY DEF Confirmed
<1>1. "inventory-confirmed" \in Queues
  BY QueuesAre DEF ApiQueues
<1> QED BY <1>1, WhoSends DEF Sent

\* Every deduction and confirmation keeps the accounts of the stock.
LEMMA NextAccounted ==
    ASSUME IsFiniteSet(Orders), IInv, IInv', WithinLines, StockAccounted, [Next]_vars
    PROVE  StockAccounted'
<1> USE DEF IInv
<1> SUFFICES ASSUME faults' = 0, NEW p \in Products
             PROVE  stock'[p] = InitialStock[p] - Reserved(p)' - Deducted(p)'
  BY DEF StockAccounted
<1>0. /\ faults = 0 /\ ~Fault
      /\ stock[p] = InitialStock[p] - Reserved(p) - Deducted(p)
  BY FaultsStay DEF StockAccounted
<1>t. /\ Reserved(p) \in Int /\ InitialStock[p] \in Int /\ stock[p] \in Int
      /\ Confirmed \subseteq Orders
  <2>1. Reserved(p) \in Int /\ Confirmed \subseteq Orders
    BY ReservedTypes
  <2>2. InitialStock \in [Products -> Nat] /\ stock \in [Products -> Int]
    BY StockAssumption DEF TypeOK
  <2> QED BY <2>1, <2>2
<1>1. CASE UNCHANGED <<items, stock, worker>> /\ ~InventoryConfirm
  <2>1. Reserved(p)' = Reserved(p)
    BY <1>1, ConfirmedBy, ReservedSame
  <2>2. Deducted(p)' = Deducted(p)
    BY <1>1 DEF Deducted
  <2> QED BY <1>0, <1>1, <2>1, <2>2
<1>2. ASSUME NEW o \in Orders, NEW r \in Requests, CheckoutCreate(o, r)
      PROVE  stock'[p] = InitialStock[p] - Reserved(p)' - Deducted(p)'
  <2>1. stock' = stock /\ worker' = worker /\ sent' = sent
    BY <1>2 DEF CheckoutCreate
  <2>2. Confirmed' = Confirmed
    BY <2>1 DEF Confirmed, Sent
  <2>3. /\ \A q \in Orders \ {o} : items'[q] = items[q]
        /\ worker.pc = "deduct" => worker.order \in Orders \ {o}
        /\ o \notin Confirmed
    BY <1>2, CreatedIsNew
  <2>4. Reserved(p)' = Reserved(p)
    BY <1>t, <2>2, <2>3, ReservedSame
  <2>5. Deducted(p)' = Deducted(p)
    BY <2>1, <2>3 DEF Deducted
  <2> QED BY <1>0, <2>1, <2>4, <2>5
<1>3. CASE InventoryCheck
  <2>1. /\ UNCHANGED <<items, stock, sent>> /\ worker.pc = "idle"
        /\ worker'.next = 1 /\ worker'.order = Head(queue["order-submitted"])
        /\ queue["order-submitted"] # <<>>
    BY <1>3 DEF InventoryCheck
  <2>2. worker'.order \in Orders
    BY <2>1, QueueTypes, QueuesAre
  <2>3. items[worker'.order] \in Seq([product : ProductIds, qty : Int])
    BY <2>2 DEF TypeOK
  <2>4. Demand(SubSeq(items[worker'.order], 1, 0), p) = 0
    BY <2>3, DemandUpTo
  <2>5. Deducted(p) = 0 /\ Deducted(p)' = 0
    BY <2>1, <2>4 DEF Deducted
  <2>6. Reserved(p)' = Reserved(p)
    BY <2>1, ReservedSame DEF Confirmed, Sent
  <2> QED BY <1>0, <2>1, <2>5, <2>6
<1>4. CASE InventoryDeduct
  <2> DEFINE lines == items[worker.order]
             n == worker.next
  <2>1. /\ worker.pc = "deduct" /\ n <= Len(lines)
        /\ stock' = [stock EXCEPT ![lines[n].product] = @ - lines[n].qty]
        /\ worker'.pc = "deduct" /\ worker'.order = worker.order
        /\ worker'.next = n + 1
        /\ UNCHANGED <<items, sent>>
    BY <1>4 DEF InventoryDeduct
  <2>2. lines \in Seq([product : ProductIds, qty : Int]) /\ n \in Nat \ {0}
    BY <2>1, BusyHolds DEF TypeOK
  <2>3. stock \in [Products -> Int]
    BY DEF TypeOK
  <2>4. Deducted(p) = Demand(SubSeq(lines, 1, n - 1), p)
    BY <2>1 DEF Deducted
  <2>5. Deducted(p)' = Demand(SubSeq(lines, 1, n), p)
    <3>1. worker'.next = n + 1 /\ n \in Nat
      BY <2>1, <2>2
    <3> HIDE DEF n
    <3>2. worker'.next - 1 = n
      BY <3>1
    <3> QED BY <2>1, <3>2 DEF Deducted
  <2>6. Reserved(p)' = Reserved(p)
    BY <2>1, ReservedSame DEF Confirmed, Sent
  <2> HIDE DEF lines, n
  <2>7. n \in DOMAIN lines /\ lines[n].qty \in Int
    <3>1. DOMAIN lines = 1 .. Len(lines) /\ Len(lines) \in Nat
      BY <2>2, LenProperties
    <3>2. n \in DOMAIN lines
      BY <2>1, <2>2, <3>1
    <3> QED BY <2>2, <3>2, LinesAre
  <2>8. /\ Demand(SubSeq(lines, 1, n - 1), p) \in Int
        /\ Demand(SubSeq(lines, 1, n), p) = Demand(SubSeq(lines, 1, n - 1), p)
               + IF lines[n].product = p THEN lines[n].qty ELSE 0
    BY <2>2, <2>7, DemandUpTo
  <2>9. stock'[p] = stock[p] - IF lines[n].product = p THEN lines[n].qty ELSE 0
    BY <1>t, <2>1, <2>3, <2>7
  <2> QED BY <1>0, <1>t, <2>4, <2>5, <2>6, <2>7, <2>8, <2>9
<1>5. CASE InventoryConfirm
  <2> DEFINE o == worker.order
  <2>1. /\ worker.pc = "deduct" /\ worker.next > Len(items[o])
        /\ worker'.pc = "idle"
        /\ UNCHANGED <<items, stock>>
        /\ sent' = [sent EXCEPT ![o]["inventory-confirmed"] = @ + 1]
    BY <1>5 DEF InventoryConfirm, Publish, IdleWorker
  <2>2. /\ o \in Orders /\ items[o] \in Seq([product : ProductIds, qty : Int])
        /\ worker.next \in Nat /\ Len(items[o]) \in Nat
    BY <2>1, BusyHolds, LenProperties DEF TypeOK
  <2>3. worker.next - 1 = Len(items[o])
    BY <2>1, <2>2 DEF WithinLines
  <2>4. Deducted(p) = Demand(items[o], p) /\ Deducted(p)' = 0
    <3>1. Demand(SubSeq(items[o], 1, Len(items[o])), p) = Demand(items[o], p)
      BY <2>2, DemandUpTo
    <3> QED BY <2>1, <2>3, <3>1 DEF Deducted
  <2>5. sent[o]["inventory-confirmed"] = 0
    <3>1. o \in Stage("order-submitted")
      BY <2>2, HandsAre, OrdersAssumption DEF Stage
    <3> QED BY <3>1, SuccessorsAre, QueuesAre DEF StageDiscipline
  <2>6. Confirmed' = Confirmed \cup {o} /\ o \notin Confirmed
    <3>1. "inventory-confirmed" \in Queues
      BY QueuesAre DEF ApiQueues
    <3>2. \A x \in Orders : sent'[x]["inventory-confirmed"] =
              IF x = o THEN 1 ELSE sent[x]["inventory-confirmed"]
      BY <2>1, <2>2, <2>5, <3>1 DEF TypeOK
    <3> QED BY <2>2, <2>5, <3>2 DEF Confirmed, Sent
  <2>7. Reserved(p)' = Reserved(p) + Demand(items[o], p)
    BY <2>1, <2>2, <2>6, ReservedMore
  <2>8. Demand(items[o], p) \in Int
    BY <2>2, DemandType
  <2> QED BY <1>0, <1>t, <2>1, <2>4, <2>7, <2>8
<1>6. CASE InventoryRefuse
  <2>1. /\ worker.pc = "refuse" /\ worker'.pc = "idle"
        /\ UNCHANGED <<items, stock>>
    BY <1>6 DEF InventoryRefuse, IdleWorker
  <2>2. Deducted(p) = 0 /\ Deducted(p)' = 0
    BY <2>1 DEF Deducted
  <2>3. ~InventoryConfirm
    BY <2>1 DEF InventoryConfirm
  <2>4. Reserved(p)' = Reserved(p)
    BY <2>1, <2>3, ConfirmedBy, ReservedSame
  <2> QED BY <1>0, <2>1, <2>2, <2>4
<1> QED
  BY <1>0, <1>1, <1>2, <1>3, <1>4, <1>5, <1>6
     DEF Next, vars, CheckoutReject, CheckoutPublish, CheckoutFinish,
         CheckoutThrows, PaymentDecide, ConsumerFirst, ConsumerSecond,
         ConsumerPublish, ConsumerFails, PaymentReceive, Ship, InventoryFails,
         PaymentFails, ShippingFails, OrderApiCrash, BrokerRestart

\* While nothing fails the stock is the initial one less what is reserved for the orders
\* confirmed and what is deducted for the one in hand, whatever the requests name: no
\* update of StockQuantity is lost or made twice.
THEOREM StockAddsUp ==
    ASSUME IsFiniteSet(Orders) PROVE Spec => []StockAccounted
<1>1. Init => WithinLines /\ StockAccounted
  <2> SUFFICES ASSUME Init PROVE WithinLines /\ StockAccounted
    OBVIOUS
  <2>1. worker.pc = "idle" /\ stock = InitialStock /\ Confirmed = {}
    BY QueuesAre DEF Init, IdleWorker, Confirmed, Sent, ApiQueues
  <2>2. ASSUME NEW p \in Products
        PROVE  stock[p] = InitialStock[p] - Reserved(p) - Deducted(p)
    <3>1. Deducted(p) = 0
      BY <2>1 DEF Deducted
    <3>2. Reserved(p) = 0
      BY <2>1, SumEmpty DEF Reserved
    <3> QED BY <2>1, <3>1, <3>2, StockAssumption
  <2> QED BY <2>1, <2>2 DEF WithinLines, StockAccounted
<1>2. IInv /\ IInv' /\ WithinLines /\ StockAccounted /\ [Next]_vars
          => WithinLines' /\ StockAccounted'
  BY NextWithin, NextAccounted
<1> QED BY <1>1, <1>2, Inductive, PTL DEF Spec
=============================================================================
