# A TLA+ verification project for SportsStore

SportsStore is a shop with two halves. The newer half is a distributed order
workflow: an Order API, an Inventory, a Payment and a Shipping service that talk
through RabbitMQ, a Blazor customer portal and a React dashboard. The older half
is an ASP.NET store (project `SportsStore`) with a cart in the web session and a
checkout through Stripe. The two halves share no state.

This directory models the order workflow, the portal's cart and checkout, the
dashboard, the Stripe checkout, the store's catalogue and its administration; it
checks them on small instances with TLC, and proves with TLAPS, for every number of
orders, products, users, tabs, administrators and failures, every invariant and action
property that the passing runs check. What only TLC checks is liveness.

## 1. The system

### The order workflow

| Component | State | Operations | Talks to |
|---|---|---|---|
| Order API, `OrdersController` | tables Orders, OrderItems | `Checkout`: validate, insert with `Submitted`, publish `OrderSubmitted`, then write `InventoryPending`; GET endpoints read | queue `order-submitted` |
| Order API, `EfOrderService` | the same tables | `CreateOrder`, `UpdateOrderStatus` (overwrites the status) | called by controller and consumers |
| Order API, five consumers | the message in hand | two status writes for each message; those of confirmations and approvals then publish | `inventory-*`, `payment-*`, `shipping-*` |
| Messaging, `RabbitMqMessagePublisher` and broker | eight queues | declare and publish; non-durable, automatic acknowledgement, no prefetch limit | everyone |
| Inventory service | column `StockQuantity`, the message in hand | compare every line with the stock, then one committed update per line, then confirm; or refuse | `order-submitted` in, `inventory-*` out |
| Payment service | payments in their delay | wait, draw a result at random, publish it | `payment-requested` in, `payment-*` out |
| Shipping service | none | make a tracking number, publish it | `shipping-requested` in, `shipping-created` out |
| Customer portal | one `CartService` for all users; a circuit for each | add, remove, clear, check out | POST and GET of the Order API |
| Admin dashboard | the answer it has got, a filter, a selected order | fetch when mounted; filter, count, show details | GET of the Order API |

The Order API and the Inventory service open one SQLite file; the Inventory
service is the only writer of the stock once the data is seeded. What is hard:

* `Checkout` publishes before it writes its status, so the services run
  concurrently with the rest of the request that started them.
* Status writes are blind. Five consumers and the request write the status of one
  order, and only the order in which messages travel keeps them from going back.
* Check and deduction of the stock are separate, line by line, with no transaction.
* Payments overlap and finish in any order.
* Messages are acknowledged on delivery: whatever fails, nothing is delivered
  again, and half-done work stays half done.
* The portal's cart is a singleton that outlives every circuit. It is read before
  the await of the checkout call and cleared after it, and a circuit may end between.
* The dashboard shows an answer for as long as it is open, while the orders go on.

It is correct if the history of each order is a legal one (paid once, only with
its stock reserved, shipped once, only if paid), if no product is oversold, if a
status never claims what has not happened, and if every order comes to an end. The
portal is correct if a request names no product twice, and if what is clicked into
the cart is ordered once or is still there.

### The store

| Component | State | Operations | Talks to |
|---|---|---|---|
| Session cart (`Cart`, `SessionCart`, cart page) | key `Cart` of the web session | add, remove a line, clear | session middleware |
| Stripe checkout (`OrderController`, `StripePaymentService`, `EFOrderRepository`) | key `PendingOrderJson`, saved orders | `Checkout`, `PaymentSuccess`, `PaymentFailed`, `PaymentCancelled` | Stripe, and the browser it redirects |
| Admin pages | products, the `Shipped` mark, and the database context of each open page | create, edit, delete products; mark orders | the store's database |
| Catalogue | none | pages of a category, links to them | the store's database |
| Identity | user accounts | log in, log out | ASP.NET Identity |

What is hard: a request works on a copy of the session and writes all of it back
when it ends, so requests of two tabs overwrite each other; the order exists only
in the session between `Checkout` and the return from Stripe, while the payment stays
open at Stripe, for whoever goes back to it; and a return names its payment but not its
order. An admin page keeps one database context for as long
as it is open, and with it a memory of the rows it has read. The catalogue counts
products in one query and reads them in a later one.

The store should save with a payment what was paid with it, clear from the cart only what
was ordered, keep an order for every payment that can still be made, and tell an
administrator whose edit is not saved. It does none of these always; section 3 has a trace
for each. What it does: no order is made of two carts; with one tab no checkout becomes two
orders; who returns with a confirmed payment whose order is still pending gets that order,
unless something fails or a product of it was deleted; no administrator undoes what another
saved in a column they did not touch, or brings back what was deleted; a customer who walks
through a category misses few of its products.

`PROJECT.json` lists every component with its sources, the ones not modelled
included, and every hazard at its line with the properties that watch it.

## 2. Modules

| Module | What it is |
|---|---|
| `OrderPipeline` | the order workflow: requests, queues, services, consumers, failures |
| `OrderLifecycle` | the abstract promise of the workflow: one atomic reservation and one sequence of steps for each order, unless it is lost |
| `MCOrderPipeline` | small instances of `OrderPipeline` |
| `OrderLines` | the lines of a cart, a request and an order |
| `PortalCart` | the portal's cart, and its checkout calls to an Order API it knows little of |
| `PortalWorkflow` | `PortalCart` and `OrderPipeline` joined by the checkout calls |
| `Dashboard` | the React page of all orders |
| `StripeCheckout` | the store's cart and Stripe checkout, from one web session |
| `AdminOrders` | the order page of the store's administrators |
| `AdminProducts` | their product list and editor |
| `AdminPages` | what administrators have open: `AdminOrders` and `AdminProducts`, or `Dashboard` |
| `Catalogue` | the product pages, read while products change |
| `MC...` | small instances of the module it is named after (`AdminPages` needs none) |
| `...Proofs` | theorems about the module it is named after, checked by TLAPS; `OrderLifecycleProofs` has the refinement |

`OrderPipeline` refines `OrderLifecycle` (`Lifecycle == INSTANCE ... WITH`), and
`PortalWorkflow` refines both `PortalCart` and `OrderPipeline`: each of the two says
what it expects of the other, the composition that it gets it. `AdminPages` puts
the two pages of a store administrator on one screen. It also holds the dashboard, which
is the page of another application: as the two share nothing, one of them moves while
the other is as it started.

An operator named after another one and a slip (`HasStock_AnyLeft`,
`SaveOrder_KeepsPending`) is a *mutant*: the same handler with a plausible mistake. No
specification uses one. Put in the place of the original it makes one named
property fail under that property's own run: evidence that the property can tell
right code from wrong. `PROJECT.json` pairs each property with its mutant.

### OrderPipeline and the code

| In the model | In the code |
|---|---|
| `checkout[o]` | where the request that creates `o` is in `OrdersController.Checkout` |
| `status[o]`, `items[o]` | the row of Orders and its lines; `"Absent"` before the insert |
| `stock` | `Products.StockQuantity` |
| `queue[q]` | the messages of a RabbitMQ queue that no handler has taken |
| `worker` | the Inventory service's handler: idle, deducting line `next`, or refusing |
| `consumer[q]` | the handler of an Order API consumer: before its second write, or before it publishes |
| `paying` | handlers of the Payment service inside `Task.Delay` |
| `sent[o][q]` | a history variable: how often a message was published for `o`. No action reads it |
| `faults` | how many failures there were, at most `MaxFaults` |

An action is what happens between two points where someone else can see or
disturb it: `Checkout` is `CheckoutReject`, or `CheckoutCreate` (insert),
`CheckoutPublish`, `CheckoutFinish` (the late status write). The Inventory
service is `InventoryCheck` (all lines in one step, as nobody else writes the
stock), one `InventoryDeduct` per line, since each `SaveChanges` commits by
itself, then `InventoryConfirm`; or `InventoryRefuse`. Each consumer is
`ConsumerFirst`, `ConsumerSecond` and, for two of them, `ConsumerPublish`; what
they differ in is the record `Consumer(q)`. `PaymentReceive` and `PaymentDecide`
are the two sides of the delay. `UpdateOrderStatus` overwrites: the code does read
the row first, but only to see that it exists.

Failures (`Fault`) are exceptions and the end of a process. Acknowledgement is
automatic and there is no prefetch limit, so any prefix of a queue may have been
delivered already, and it goes with its consumer; an exception that a handler
catches is the case of an empty prefix. `PaymentFails` loses every payment in its
delay, as an exception in an `async void` handler ends the process.
`BrokerRestart` keeps at most what was delivered: the queues are not durable.

The refinement of `OrderLifecycle` holds with failures too. A failure maps to `Lose`: the
orders it concerns get no further, and of an order that was being taken off the stock
some lines may stay off. So a failure never makes a step happen twice, never takes stock
for an order that is not in hand, and never puts any back.

Left out: prices, names, e-mail addresses but for being blank, times, logs,
tracking numbers, correlation ids. No handler decides anything by them.

### StripeCheckout and the code

| In the model | In the code |
|---|---|
| `session` | the stored web session: keys `Cart` and `PendingOrderJson` |
| `tab[t].page` | the page a tab shows, or where its request is: `creating` and `verifying` are the two awaits of `OrderController`, `ending` is before the session middleware stores the session |
| `tab[t].copy` | the session as the request has loaded and changed it |
| `tab[t].payment` | the Stripe session in the tab's address |
| `stripe[s]` | a checkout session at Stripe: its state and the lines it has priced |
| `visited` | the pages of Stripe the browser has shown, to which it can go back |
| `saved[s]` | the orders saved with payment `s`: their lines, and `origin` |
| `origin` | a history field of sessions and orders: the payment that Stripe opened for the pending order. No action tests it |
| `catalogue` | the products there still are |

`Checkout`, `CreateCheckoutUrl` and `EndRequest` are the parts of one POST: the
pending order enters the request's copy, Stripe prices the cart of that copy, and
the copy is stored. `PaymentSuccess` loads the session and asks Stripe; then
`SaveOrder` or `NotPaid`. `DropPending` is both `PaymentFailed` and
`PaymentCancelled`. A request that changed nothing stores nothing (`GoTo`).

`DeleteProduct` is an administrator at work meanwhile. The foreign keys decide what it
does: the lines of saved orders go with the product, and an order that names one
that is gone cannot be stored (`SaveThrows`).

`Pay`, `Settle`, `Leave`, `GoBack` and `Revisit` are Stripe and the customer, known only
from how the code uses them: a payment may be confirmed when the customer returns or
later, a customer may cancel, walk away, go back to a page of Stripe that is still open
(also after cancelling, also with other things in the cart or another order pending) or to
a cancellation page, or ask for an old success page again.

One tab is one request at a time: a browser that reloads, clicks twice or goes back before
the answer is there counts as two tabs.

A response is taken to reach the browser after the session is stored; that holds
for the redirections, whose headers are sent when the request ends.

Left out: the customer's form (an invalid one changes nothing), prices, and the
rows of the order but for its lines.

### PortalCart, PortalWorkflow and the code

| In the model | In the code |
|---|---|
| `cart` | `CartService._items`, one list for all circuits |
| `adding[u]` | an `AddToCart` between its `FirstOrDefault` and its insertion |
| `calls[c]` | a `PostAsJsonAsync` of `Cart.razor`: sent, answered with success (`placed`) or not (`refused`), or given up after its timeout or with its circuit (`dropped`) |
| `ordered` | the calls that the Order API has created an order for |
| `added`, `tally` | history variables: what was clicked, taken out, changed during a call. No action reads them but for the bound on clicks |

`Checkout` is the handler up to its await, `CheckoutSucceeds` and `CheckoutFails` what
follows it. A handler runs on the dispatcher of its circuit, so between awaits it is
one step, except `AddToCart`, which is two (`AddLookUp`, `AddToCart`) so that
another circuit can come between. With one user this is exact. With two it is a part
of what can happen, as `List<T>` is not made for several threads; so the runs with two
users only look for violations, and claim nothing that holds. The two theorems that are
stated for several users (section 4) speak of the interleavings that the model has.

A call that `HttpClient` gives up throws a cancellation, which Blazor swallows: the circuit
lives on, and nothing after the await is run (`CallTimesOut`). When a circuit ends, all its
calls go with it (`CircuitEnds`). The Order API may have created the order in both cases.

A line that was found and then removed is an object nobody sees any more: its
increment is lost (`Forget`, `"stray"`).

`PortalWorkflow` puts `Order(c)` in the hands of `OrderPipeline`: `Receive` is
`CheckoutCreate` with the lines of the call, `AnswerOk` and `AnswerError` hand the end of
the request to the portal. A restart of the Order API answers an error in this model,
where `HttpClient` would rather throw: an exception that nobody catches ends the circuit,
which is `CircuitEnds`, and that can come at any time.

### Dashboard and the code

`orders`, `error`, `selectedOrder`, `statusFilter` are the four `useState`s of
`OrdersPage.jsx`; the filter, the cards and `getStatusName` are operators with the names
they have there. `Requests` holds the requests of one mount: one, or the two of
`StrictMode` in development. `status` is the API's, and rises as the workflow writes.

### The store's administration and catalogue, and the code

| In the model | In the code |
|---|---|
| `AdminOrders`: `page[a].marks` | the `Shipped` of the orders the page's context tracks, `"unseen"` if it does not |
| `AdminOrders`: `marker` | a history variable: who marked an order last |
| `AdminProducts`: `page[a].loaded`, `.form` | the values the context has read, and those of the form |
| `AdminProducts`: `used` | the ids given out: SQL identity columns use none twice |
| `Catalogue`: `request` | a page between the count (`Count`) and the deferred query (`Render`) |
| `Catalogue`: `known`, `seen`, `changes`, `steady` | history variables of a walk through the pages |

`UpdateData` of `AdminOrders` models what Entity Framework does with a query whose rows
the context tracks: it returns the tracked objects as they are. `SaveProduct` of
`AdminProducts` writes the columns that differ from what was read, and none of the
others. `Offset` of `Catalogue` wraps as an `int` does: `Half`, the number of negative
ones, is 2^31 in the code. It is a constant because the prover knows nothing of powers.

## 3. Runs

Every run is a module, a `.cfg` and the properties it names. `CHECK_DEADLOCK FALSE`
is set everywhere because the systems may stop: when every request has run its
course, or nobody clicks any more.

| Run | Instance | Shows |
|---|---|---|
| `pipeline_safety` | 3 orders, two products with stock 1 and 2, three valid and four invalid bodies, no failure; 168 thousand states | `TypeOK`, `LegalHistory`, `OnePlace`, `StatusHonest`, `NothingForgotten`, `StockAccounted`, `StockNeverNegative`, `OnlyCheckoutSetsBack` |
| `pipeline_faults` | 2 orders, valid bodies, up to 2 failures, fairness; 135 thousand states | the safety properties that do not need every message to arrive; `EveryOrderRuns`, `PromptCheckoutSettles`, `PipelineDrains`; `ImplementsLifecycle`, safety and liveness |
| `stripe_one_tab` | 1 tab, 2 products, 2 payments, going back to open payments, one return to an old success page, 1 failure, 1 deleted product, fairness; 184 thousand states | `TypeOK`, `OrderedOnce`, `PaidIsSaved` |
| `stripe_two_tabs` | 2 tabs, 2 products, 2 payments, going back to open payments, one return to an old success page; 787 thousand states | `OrderWasPriced` |
| `portal_one_user` | 1 user, 2 products, 2 calls, 4 clicks on Add to Cart; 293 thousand states | `TypeOK`, `RequestsDistinct`, `UnitsAccounted` |
| `portal_workflow` | 1 user, 1 product with stock 2, 2 orders, 2 clicks, 1 failure; 1.3 million states | `ImplementsPortal`, `ImplementsPipeline` |
| `admin_pages` | store: 2 administrators, 1 order, 2 products with 2 columns; dashboard: 1 order, two requests, one reload; fairness; 499 thousand states | `TypeOK`, `StaleOnlyByOthers`, `MarkTakesEffect`, `NoEditUndone`, `DeletedStaysGone`; `FiltersMatchCards`, `PanelMatchesTable`, `LoadsOrSays` |
| `catalogue` | 5 products in 2 categories, 2 on a page, 2 changes during a walk, an `int` of 5 bits; 1.8 million states | `TypeOK`, `LinksFit`, `FewMissed` |
| `final_status` | 1 order, fairness | **violated**: `FinalStatusReached` |
| `failed_step` | 1 order, 1 failure, fairness | **violated**: `FailedStepMarked` |
| `stripe_paid` | 1 tab, 2 payments, no failure | **violated**: `OrderPaid` |
| `portal_oversold` | 2 users, 1 product | **violated**: `StockNeverNegative` |

The violated runs check what a document or a comment says and the code does
not do:

* `README.md:123`, "Order API updates the order status to Completed or Failed". The
  write of `InventoryPending` at `OrdersController.cs:141` comes after the
  publication and may come after everything else; the order then shows
  `InventoryPending` for good. `OnlyCheckoutSetsBack` says that no other write
  does such a thing, and `PromptCheckoutSettles` that the final status is reached
  when this write was prompt.
* `README.md:135-137`, "If a step fails, the order is marked as: Failed". Only a
  refusal and a rejected payment are; an order whose handler failed keeps the
  status it had.
* `OrderController.cs:184`, "Save order only after payment confirmation". What is
  saved is the pending order of the session, what was confirmed is the payment in
  the address. A customer who leaves the page of Stripe, checks out something else, goes
  back to the first payment and pays it gets the second order for it, with one tab and no
  failure. `OrderedOnce` says what remains true with one tab: a checkout still becomes one
  order at most.
* `README.md:120`, "Inventory Service validates stock". Each line is compared with
  the stock by itself, so two lines with one product can oversell it. The portal sends
  such a body when two users add one product to the shared cart at the same time. With
  one user its requests are always well formed: that is `ImplementsPipeline`, whose
  requests are those with distinct lines, for which overselling is impossible; this is
  proved.

### Further configurations

Ten more configurations, not among the runs above, let TLC refute what a page says or a
user may expect. Each shows a disagreement next to one of those, or a smaller one; `tlc -config X.cfg M` gives
the trace.

| Configuration | Module | Refutes |
|---|---|---|
| `repeated_lines.cfg` | `MCOrderPipeline` | `StockNeverNegative` for a body that a direct caller of the Order API may send |
| `stripe_cleared.cfg` | `MCStripeCheckout` | `ClearedAsOrdered`, with one tab: what is put into the cart while the page of Stripe was left is cleared with the order (`OrderController.cs:198`), unordered |
| `stripe_cancelled.cfg` | `MCStripeCheckout` | `PaidIsPending`, with one tab. `PaymentCancelled.cshtml:6`, "You can go back and try again.": who goes back to the page of Stripe can pay, but the order is not pending any more |
| `stripe_twice.cfg` | `MCStripeCheckout` | `OrderedOnce` for two tabs: two requests for the success page may both find the pending order |
| `stripe_failed.cfg` | `MCStripeCheckout` | `ConfirmedIsNotFailed`. `PaymentFailed.cshtml:6`, "We couldn't confirm your payment. Please try again.": one `catch` covers the verification and the saving, so who has paid for a product that was deleted meanwhile is sent there too |
| `portal_two_users.cfg` | `MCPortalCart` | `OwnItems`. `Cart.razor:15`, "Review your selected items": the cart holds what all users have selected |
| `portal_failed.cfg` | `MCPortalWorkflow` | `FailedOrdersNothing`. `Cart.razor:140`, "Checkout failed", is also shown when the order was created and its publication failed |
| `admin_refresh.cfg` | `AdminOrders` | `RefreshShowsDatabase`. `Orders.razor:8`, "Refresh Data", reads through the context that remembers the old values |
| `admin_dropped.cfg` | `AdminProducts` | `SavedOrTold`: the editor of a product that is gone shows a blank one, whose edit is dropped without a word (`Editor.razor:58-59`) |
| `dashboard_failed.cfg` | `Dashboard` | `FailedOrderSeen`. `README.md:175-176`, "Monitor order processing flow", "Identify failed orders": the dashboard asks once |

### Bounds, and why they are enough

* Orders. The properties speak of one order, or of two that compete: for stock, for
  the handler, or for a place in a queue. Three orders add one that waits behind
  two others and one that overtakes. TLAPS lifts the bound for what is proved.
* Stock 1 and 2 with bodies that ask for one ball, for a cap and a ball, and for two
  caps: each pair but one competes, and both outcomes, also one after a partial
  match, occur. The invalid bodies are one per reason to refuse.
* `MaxFaults` 2 gives a failure during the aftermath of another. Failures need two
  orders, so that one order's handler fails while the other is delivered.
* `MaxQuantity`, `Payments`, `MaxRevisits`: two payments are the least that can be
  confused, or to be open at once; one of a product is enough, as lines are compared as
  wholes; one return to an old page replays a payment, and going back to an open one has no
  bound. A failure is excluded from `OrderWasPriced`
  because `CreateFails` does leave a pending order nobody priced, until the page it
  redirects to drops it.
* `MaxDeletions` 1 covers deletion before the checkout, during the payment and after the
  order; `stripe_two_tabs` has none, to keep two tabs within reach.
* Portal: two calls are the least that can overlap or repeat each other, four clicks
  give two lines and two units on one of them, with one to spare during a call. The
  composition is large, so it has one product and two clicks: enough for a second unit
  on a line, or a second line in the mutant and with two users.
* Dashboard: filters and cards treat each order by itself, so one order in each of its
  statuses is enough; two requests can overtake each other; one reload starts over with
  old answers under way. A production build asks once: the case where the second answer
  has not come.
* Administration: one page is stale by what one other does, so two administrators; two
  columns so that edits can cross; a second product to create when the first is gone. A
  page marks each order by itself. An administrator has one page, which is no
  restriction, as pages share nothing but the database.
* `Catalogue`: five products with two on a page make a full, a full and a last page with
  one; the addresses -1, 0, 9 and 17 lie before, past and beyond the range of a 5-bit
  `int` (`Half` 16), as 2^30 does for the real one. A sixth product would let a new one
  join the last page after it was shown; `FewMissed`, which leaves new products out, holds
  then too.
* `SYMMETRY` is used only in runs without liveness; orders, products and payments
  are not told apart where it is.

### Fairness

`FairSpec` of `OrderPipeline` is weak fairness of `CheckoutPublish`,
`CheckoutFinish` and `PaymentDecide` for each order, of the Inventory handler, of
`PaymentReceive`, `Ship`, and each consumer. The code justifies it: an accepted
request runs to its end on a thread of its own, a timer ends each delay, and each
consumer is called for as long as there are messages. Each of these actions stays
enabled until it is taken or a failure removes its message, so weak fairness is
enough. Nothing obliges a customer to check out, and no failure is ever obliged to
happen.

That a process which has ended is started again is an assumption: the Compose file
has no restart policy. `PipelineDrains` and the liveness of `ImplementsLifecycle` depend
on it after a failure; `EveryOrderRuns` and `PromptCheckoutSettles` promise nothing then.

`FairSpec` of `AdminPages` is that of `Dashboard`: a request is answered or fails, as a
browser's does. Nobody must click or load the page again, and in the store nobody waits
for anything but a database.

`FairSpec` of `StripeCheckout` is weak fairness of the server's steps for each tab: a
request that has arrived is served. Paying, leaving and clicking are never obliged.

## 4. Theorems

Each theorem holds for every value of the constants that the named `ASSUME`s of its module
allow: names for "none" are not names of something, the bounds are natural numbers, the
initial stock is natural and products have ids, requests are well typed, and all pages of
the catalogue can be numbered by an `int`. What a theorem assumes beyond that is in its
statement and in the last column. `Balanced`, `Demand`, `Reserved` are sums; a theorem about
them needs the sets they sum over to be finite, as every table is.

| Module, theorem | Proves | Beyond the `ASSUME`s |
|---|---|---|
| `OrderPipelineProofs` | | |
| `Inductive`, `TypeCorrect` | `[]IInv`, `[]TypeOK` | |
| `HistoryLegal` | `[]LegalHistory` | |
| `OnePlaceAlways` | `[]OnePlace` | |
| `StatusAlwaysHonest` | `[]StatusHonest` | |
| `SetBackOnlyByCheckout` | `OnlyCheckoutSetsBack` | |
| `NothingIsForgotten` | `[]NothingForgotten` | |
| `StockAddsUp` | `[]StockAccounted` | finitely many orders |
| `StockStaysPositive` | `[]StockNeverNegative` | distinct lines in every request |
| `OrderLifecycleProofs` | | |
| `KeepsLifecycle` | `Lifecycle!Safety` | distinct lines in every request |
| `PortalCartProofs` | | |
| `TypeCorrect` | `[]TypeOK` | (several users: the modelled interleavings) |
| `NoRepeatedLines` | `[]RequestsDistinct` | one user |
| `EveryUnitAccounted` | `[]UnitsAccounted` | one user, finitely many calls |
| `RequestsWithinClicks` | `[]RequestsBounded` | one user, finitely many products |
| `PortalWorkflowProofs` | | |
| `WorkflowServesPortal` | `ImplementsPortal` | (several users: the modelled interleavings) |
| `PortalServesWorkflow` | `ImplementsPipeline` | one user |
| `OneUserNeverOversells` | `[]StockNeverNegative` | one user |
| `StripeCheckoutProofs` | | |
| `TypeCorrect` | `[]TypeOK` | |
| `EveryOrderPriced` | `[]OrderWasPriced` | |
| `EachCheckoutOnce` | `[]OrderedOnce` | one tab |
| `AdminPagesProofs` | | |
| `TypeCorrect` | `[]TypeOK` | |
| `OnlyOthersMakeStale` | `[]StaleOnlyByOthers` | |
| `ClicksTakeEffect` | `MarkTakesEffect` | |
| `EditsSurvive` | `NoEditUndone` | |
| `DeletedNeverReturns` | `DeletedStaysGone` | |
| `CardsAndFiltersAgree` | `[]FiltersMatchCards` | finitely many orders |
| `PanelShowsTable` | `[]PanelMatchesTable` | finitely many requests |
| `CatalogueProofs` | | |
| `TypeCorrect` | `[]TypeOK` | |
| `LinksAlwaysFit` | `[]LinksFit` | |
| `FewAreMissed` | `FewMissed` | |

The hypotheses in the last column are not there for the prover's sake. Without them TLC
refutes the properties: `portal_oversold` with two users, `repeated_lines.cfg` with a body
that names a product twice, `stripe_twice.cfg` with two tabs.

### The workflow

`LegalHistory` is not inductive. That a message is published once needs that its cause is
handled once, hence that an order waits or is handled in one place. The inductive
invariant is

    IInv == TypeOK /\ LegalHistory /\ StageDiscipline /\ HandlersOK /\ RequestsOK

`StageDiscipline` says of every queue that an order is there once, waiting or in
hand, that its message was published, and that no message that follows has been.
`HandlersOK` ties handlers to the order they hold, `RequestsOK` a request to what it
has done. The proof sees every step of the pipeline as one of three moves (lemmas
`StagesQuiet`, `StagesTake`, `StagesPut`): nothing moves or something is lost; an
order goes from a queue to its handler; it leaves a stage and is published to a
successor. `NextStages` shows that each action is one of them. Losing messages
only shrinks stages, which is why the invariant survives every failure.

`OnePlace` follows (`InOnePlace`): of two stages one would have to precede the
other, and then its successor was published. The other theorems each add an invariant:

* `StatusWritten` for `StatusHonest`: the two statuses of each consumer are among those
  its message tells (`TellsAre`).
* `StatusBehind` for `OnlyCheckoutSetsBack`: the stage an order is at bounds its status, so
  that each consumer's writes can only raise it.
* `NoneDropped` for `NothingForgotten`: while nothing fails, an order that was submitted is
  at a stage, or its last message is out.
* `WithinLines` for `StockAccounted`: the Inventory service is at a line of its order or
  through with the last, so that when it confirms, what was deducted is what the order asks.
* `StockInHand` for `StockNeverNegative`: what was found in stock is there until it is
  deducted. It needs distinct lines.

### The refinement of the lifecycle

`KeepsLifecycle` is `ImplementsLifecycle` without its fairness: each initial state of the
workflow is one of `OrderLifecycle`, each step is a step there or leaves `phase`, `wanted`,
`onhand` and `lost` as they are. There is a lemma per step of the promise: `SubmitStep`,
`ReserveStep`, `RefuseStep`, `DecideStep`, `ShipStep`, and `FailStep` for `Lose`; the others
are stutters (`QuietStep`, `TakeStep`, `PassOnStep`).

The reservation is atomic in the promise and one update per line in the code. The mapped
stock is the stored stock with what has been deducted for the order in hand put back, so
a deduction changes nothing in it (`DeductStep`) and the confirmation takes the whole
order at once. `StockInHand` says that it is there to take; `RefusedShort` and
`OrdersHaveLines` that who is refused asked for what there was not. When the handler fails
after some of its updates (`DeductingFails`), these stay off: the case that `Lose` has a
range of stocks for.

### The portal, and the two together

The invariant for one user says that an `AddToCart` still finds what it found (`LookedRight`),
so that none inserts a second line; with two users that is false. The accounts
(`AccountsInv`) balance for the cart and for each open call at once: whichever of them is
taken as the order, no unit is lost or doubled.

`PortalWorkflow` is shown to implement both parts, which closes the circle between them:
`RowsInv` of the workflow gives the portal an Order API that creates an order at most
once per call, `LinesInv` and `ClicksInv` of the portal give the workflow requests with
distinct lines and bounded quantities, whence `OneUserNeverOversells`.

### The store

`PendingWasPriced` follows a pending order through the copies of requests: it is priced
before it is stored, so whichever copy wins, what a success page finds has been priced.

`OrderedOnce` needs to know, for one tab, that whatever pending order the session or the
request may still save is *fresh* (`FreshPending`): Stripe has opened a payment for it, and
nothing saved came of it so far. Saving removes it, and a new checkout gets a payment that
was not in use, whereas everything saved came of one that was (`OriginsUsed`). Which
payment is paid plays no part, so neither does going back.

The pages of administrators need little more than types, which shows what they rest
on: what one context does is decided by what it alone has read. `FiltersMatchCards` needs
that an answer has an order once (`OneRowEach`).

`LinksFit` is arithmetic on positions: rounding up gives every product a page and every page a
product, and the offset of no page that is linked leaves the range of `int`. `FewMissed`
compares the listing before and after a change: one that leaves moves those behind it up by
one, so at most one passes the end of the pages that were seen.

### What the proofs rest on

Sums (`Demand`, `Reserved`, `Deducted`, `OnOrders`) are folds of the community modules.
`OrderLinesProofs` derives what is needed of them: the empty sum, one member more, one value
changed, two sums added. These need induction over finite sets; the theorems that the library
has for it take an operator as a parameter, which the installed provers cannot instantiate.
A smallest counterexample does it instead: that the strict subsets of a finite set are
well-founded is a theorem of the library about a relation, without such a parameter.

### What proving has changed

* `FewMissed` said that a walk misses at most one product per change, new ones included. That
  is false: a product created after the page it belongs on was shown, because there was
  room on it, is missed and is no change to the others. Five products with two on a page
  were one too few for TLC to see it. Now it counts the products there were when the
  walk began (`known`).
* `Phase` of `OrderPipeline` had overlapping cases in a `CASE`, of which TLA+ says nothing;
  TLC takes the first. They are disjoint now.
* `SUBSET Orders \ {{}}` in `Lose` of `OrderLifecycle` has parentheses now: it was read as
  `SUBSET (Orders \ {{}})`, so that a failure could lose nobody.
* A bound on requests that the workflow assumes of its clients is now a property of the
  portal (`RequestsBounded`).

### Only model-checked

Liveness under fairness and `ENABLED` are beyond this prover, so `EveryOrderRuns`,
`PromptCheckoutSettles`, `PipelineDrains`, `PaidIsSaved`, `LoadsOrSays` and the fairness of
`ImplementsLifecycle` stay with TLC. All other properties of the passing runs are proved. The
properties of the violated runs and of the further configurations are false.
No module here declares a `RECURSIVE` operator.

## 5. What is not modelled

* *Portal order pages, product listing, mapping, navigation menu.* They read and lay
  out; no state changes.
* *`OrderDetailsPage.jsx`.* No route or component mounts it.
* *Several circuits inside one list operation.* `List<T>` gives no promise then; the
  models with two users stop at the interleavings between operations.
* *Clicks that cross a re-rendering in Blazor*: a button pressed in the browser while
  the server is changing it.
* *The JavaScript under `wwwroot/lib`* of the store and the portal: copies of Bootstrap
  and Font Awesome. They are most of the JavaScript in the repository, but the pages only
  link style sheets of them, and no line of the program calls them. The program's own
  JavaScript is the dashboard; the rest of it is C# and Razor.
* *Identity.* ASP.NET Identity does the work.
* *`InMemoryOrderService`, `ConsoleMessagePublisher`.* Not registered anywhere.
* *Start-up, configuration, seed data.* Wiring; what it decides (scoped database
  contexts, one publisher, consumers as hosted services, sessions in memory) is built
  into the models.
* *The RabbitMQ client under concurrent publication on one channel*, as the Payment
  service does it: what the library does then is not in the repository. The model
  publishes atomically.
* *SQLite and Entity Framework.* A `SaveChanges` is atomic, or throws.

## 6. Plan

1. `OrderPipeline`, `OrderLifecycle`, their runs and proofs. Done.
2. `StripeCheckout`, with one tab and with two. Done.
3. `PortalCart` and its composition with `OrderPipeline`. Done.
4. `AdminOrders`, `AdminProducts`, `Dashboard`, `AdminPages`, `Catalogue`. Done.
5. What is left, in this order:
   * `LegalHistory`, `OnePlace` and `StatusHonest` carried over to `PortalWorkflow`, whose
     number of users they do not depend on;
   * what of `OrderedOnce` survives with several tabs;
   * the safety half of the liveness properties: that no order waits for something which
     cannot happen, as an invariant.
