----------------------------- MODULE Dashboard -----------------------------
(***************************************************************************)
(* The administrators' dashboard (OrdersPage.jsx): a page that asks the    *)
(* Order API for all orders when it is mounted, and from then on works on  *)
(* the answer it got, while the workflow goes on changing the orders.      *)
(* A production build asks once; in development StrictMode mounts the page *)
(* twice, so it asks twice, and the answers may overtake each other.       *)
(***************************************************************************)
EXTENDS Integers, FiniteSets

CONSTANTS
    Orders,    \* the orders customers may place
    Requests,  \* what one opening of the page asks
    MaxReloads \* how often the page is loaded again

VARIABLES
    status,       \* Orders.Status at the API, 0 while there is no row
    request,      \* how far each request is: "asked", "answered", "done"
    answer,       \* the orders on their way to the page
    orders,       \* the state of the component: what it has been told,
    error,        \*     whether it says "Could not load orders",
    selectedOrder,\*     the order in the details panel (none or one),
    statusFilter, \*     and the choice in the list of statuses
    reloads

page == <<orders, error, selectedOrder, statusFilter>>
vars == <<status, request, answer, page, reloads>>

Names == <<"Submitted", "Inventory Pending", "Inventory Confirmed",
           "Inventory Failed", "Payment Pending", "Payment Approved",
           "Payment Failed", "Shipping Pending", "Shipping Created",
           "Completed", "Failed">>

\* Mutant: a case is missing.
getStatusName_NoCase9(s) == IF s \in DOMAIN Names \ {9} THEN Names[s] ELSE "Unknown"

getStatusName(s) == IF s \in DOMAIN Names THEN Names[s] ELSE "Unknown"

\* The entries of the list of statuses, written out a second time in the page.
Options == {"All", "Submitted", "Inventory Pending", "Inventory Confirmed",
            "Inventory Failed", "Payment Pending", "Payment Approved",
            "Payment Failed", "Shipping Pending", "Shipping Created",
            "Completed", "Failed"}

filteredOrders ==
    IF statusFilter = "All" THEN orders
    ELSE {row \in orders : getStatusName(row.status) = statusFilter}

completedOrders == Cardinality({row \in orders : row.status = 10})
failedOrders    == Cardinality({row \in orders : row.status = 11})
pendingOrders   == Cardinality({row \in orders : row.status \notin {10, 11}})

-----------------------------------------------------------------------------
Asked  == [r \in Requests |-> "asked"]
NoRows == [r \in Requests |-> {}]

Init ==
    /\ status = [o \in Orders |-> 0]
    /\ orders = {}
    /\ error = FALSE
    /\ selectedOrder = {}
    /\ statusFilter = "All"
    /\ request = Asked
    /\ answer = NoRows
    /\ reloads = 0

\* A write of the workflow.  OrderPipeline says more of their order; here it is
\* enough that statuses rise until the order is completed or failed.  (The late
\* write of Checkout, which may set it back, is left out.)
UpdateOrderStatus(o) ==
    /\ status[o] < 10
    /\ \E s \in (status[o] + 1) .. 11 : status' = [status EXCEPT ![o] = s]
    /\ UNCHANGED <<request, answer, page, reloads>>

\* The API reads all orders in one query.
GetAllOrders(r) ==
    /\ request[r] = "asked"
    /\ request' = [request EXCEPT ![r] = "answered"]
    /\ answer' = [answer EXCEPT ![r] =
           {[id |-> o, status |-> status[o]] : o \in {x \in Orders : status[x] > 0}}]
    /\ UNCHANGED <<status, page, reloads>>

\* then((data) => setOrders(data))
Load(r) ==
    /\ request[r] = "answered"
    /\ orders' = answer[r]
    /\ request' = [request EXCEPT ![r] = "done"]
    /\ answer' = [answer EXCEPT ![r] = {}]
    /\ UNCHANGED <<status, error, selectedOrder, statusFilter, reloads>>

\* Mutant: the exception is only logged.
CouldNotLoad_Logged(r) ==
    /\ request[r] # "done"
    /\ request' = [request EXCEPT ![r] = "done"]
    /\ answer' = [answer EXCEPT ![r] = {}]
    /\ UNCHANGED <<status, page, reloads>>

\* The API or the network fails, or the answer is not a success: catch((err)).
CouldNotLoad(r) ==
    /\ request[r] # "done"
    /\ error' = TRUE
    /\ request' = [request EXCEPT ![r] = "done"]
    /\ answer' = [answer EXCEPT ![r] = {}]
    /\ UNCHANGED <<status, orders, selectedOrder, statusFilter, reloads>>

handleViewDetails(row) ==
    /\ row \in filteredOrders
    /\ selectedOrder' = {row}
    /\ UNCHANGED <<status, request, answer, orders, error, statusFilter, reloads>>

handleCloseDetails ==
    /\ selectedOrder # {}
    /\ selectedOrder' = {}
    /\ UNCHANGED <<status, request, answer, orders, error, statusFilter, reloads>>

\* Mutant: the effect depends on the filter, and what it finds replaces the rows.
setStatusFilter_Refetches(option) ==
    /\ statusFilter # option
    /\ statusFilter' = option
    /\ orders' = {[id |-> row.id, status |-> status[row.id]] : row \in orders}
    /\ UNCHANGED <<status, request, answer, error, selectedOrder, reloads>>

\* The list of statuses, and the button "Clear Filter".
setStatusFilter(option) ==
    /\ statusFilter # option
    /\ statusFilter' = option
    /\ UNCHANGED <<status, request, answer, orders, error, selectedOrder, reloads>>

\* The browser loads the page again; answers still under way are dropped.
Reload ==
    /\ reloads < MaxReloads
    /\ reloads' = reloads + 1
    /\ orders' = {}
    /\ error' = FALSE
    /\ selectedOrder' = {}
    /\ statusFilter' = "All"
    /\ request' = Asked
    /\ answer' = NoRows
    /\ UNCHANGED status

Next ==
    \/ \E o \in Orders : UpdateOrderStatus(o)
    \/ \E r \in Requests : GetAllOrders(r) \/ Load(r) \/ CouldNotLoad(r)
    \/ \E row \in orders : handleViewDetails(row)
    \/ handleCloseDetails
    \/ \E option \in Options : setStatusFilter(option)
    \/ Reload

Spec == Init /\ [][Next]_vars

\* A request is answered or fails.  Nobody must click, nor load the page again.
FairSpec ==
    /\ Spec
    /\ \A r \in Requests : /\ WF_vars(GetAllOrders(r) \/ CouldNotLoad(r))
                           /\ WF_vars(Load(r) \/ CouldNotLoad(r))

-----------------------------------------------------------------------------
(***************************************************************************)
(* Properties.                                                             *)
(***************************************************************************)

Row == [id : Orders, status : 1..11]

TypeOK ==
    /\ status \in [Orders -> 0..11]
    /\ request \in [Requests -> {"asked", "answered", "done"}]
    /\ answer \in [Requests -> SUBSET Row]
    /\ orders \subseteq Row
    /\ error \in BOOLEAN
    /\ selectedOrder \subseteq Row
    /\ Cardinality(selectedOrder) <= 1
    /\ statusFilter \in Options
    /\ reloads \in 0..MaxReloads

\* Every order on the page can be found under one status of the list and no
\* other, and the cards count what the list shows.  The statuses are an
\* enumeration of the API, numbers in JSON, names in one function of the page,
\* names again in the list, and numbers in the cards.
FiltersMatchCards ==
    LET Under(option) == {row \in orders : getStatusName(row.status) = option}
    IN  /\ \A row \in orders :
               \E option \in Options \ {"All"} :
                   /\ row \in Under(option)
                   /\ \A other \in Options \ {option} : row \notin Under(other)
        /\ completedOrders = Cardinality(Under("Completed"))
        /\ failedOrders = Cardinality(Under("Failed"))
        /\ completedOrders + failedOrders + pendingOrders
               = Cardinality({row.id : row \in orders})

\* The details panel contradicts the table only if two answers have come: while
\* the page has been told once, the panel shows a row of the table as it is there.
PanelMatchesTable ==
    \/ selectedOrder \subseteq orders
    \/ Cardinality({r \in Requests : request[r] = "done"}) > 1

\* What the two above rest on.  A query shows an order once, on its way as on the
\* page, and the page shows nothing before an answer has come or failed to come.
OneRowEach ==
    \A shown \in {orders} \cup {answer[r] : r \in Requests} :
        \A row \in shown : \A other \in shown : row.id = other.id => row = other

ToldWhenDone ==
    orders # {} => \E r \in Requests : request[r] = "done"

PageInv == TypeOK /\ OneRowEach /\ ToldWhenDone /\ PanelMatchesTable

\* An administrator who opens the page is told something: once nothing is under
\* way any more, the orders there were when the API was asked, or an error.
LoadsOrSays ==
    \A o \in Orders :
        (status[o] > 0 /\ \A r \in Requests : request[r] = "asked") ~>
            (error \/ \E row \in orders : row.id = o)

\* README.md:175-176, "Monitor order processing flow", "Identify failed orders":
\* an order that fails is counted as failed on a page that is open, or the page
\* says that it could not load.  Not so: the page asks when it is mounted and
\* never again.
FailedOrderSeen ==
    \A o \in Orders :
        status[o] = 11 ~> (error \/ [id |-> o, status |-> 11] \in orders)
=============================================================================
