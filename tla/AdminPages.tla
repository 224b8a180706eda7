----------------------------- MODULE AdminPages -----------------------------
(***************************************************************************)
(* What the administrators of the two applications have open.  In the store*)
(* each has one page, the orders (AdminOrders) or the products             *)
(* (AdminProducts), over one database.  The dashboard (Dashboard) is the   *)
(* page of the order workflow.  It shares nothing with the store, so one of*)
(* the two applications moves while the other is as it started: that is all*)
(* there is to see of either.                                              *)
(***************************************************************************)
EXTENDS Integers, FiniteSets

CONSTANTS
    Admins, Orders, Nobody,                      \* of AdminOrders
    Products, Columns, Values, Blank, NoRow, New,\* of AdminProducts
    WorkflowOrders, Requests, MaxReloads         \* of Dashboard

ASSUME NobodyAssumption  == Nobody \notin Admins
ASSUME ValuesAssumption  == Blank \notin Values
ASSUME RowsAssumption    == NoRow \notin [Columns -> Values]
ASSUME NewAssumption     == New \notin Products
ASSUME ReloadsAssumption == MaxReloads \in Nat

VARIABLES
    shipped, orderPage, marker, \* of AdminOrders
    rows, used, productPage,    \* of AdminProducts
    status, request, answer, orders, error, selectedOrder, statusFilter,
    reloads                     \* of Dashboard

orderVars   == <<shipped, orderPage, marker>>
productVars == <<rows, used, productPage>>
storeVars   == <<orderVars, productVars>>
dashVars    == <<status, request, answer, orders, error, selectedOrder,
                 statusFilter, reloads>>
vars        == <<storeVars, dashVars>>

OrderPages   == INSTANCE AdminOrders WITH page <- orderPage
ProductPages == INSTANCE AdminProducts WITH page <- productPage
Dash         == INSTANCE Dashboard WITH Orders <- WorkflowOrders

Init == OrderPages!Init /\ ProductPages!Init /\ Dash!Init

\* A step that leaves each administrator of the store with one page.
OnePage ==
    \A a \in Admins : orderPage'[a] = OrderPages!Closed
                      \/ productPage'[a] = ProductPages!Away

InStore ==
    /\ Dash!Init
    /\ \/ OrderPages!Next /\ UNCHANGED productVars
       \/ ProductPages!Next /\ UNCHANGED orderVars
    /\ OnePage
    /\ UNCHANGED dashVars

\* Step A of the dashboard.
InDashboard(A) ==
    /\ OrderPages!Init /\ ProductPages!Init
    /\ A
    /\ UNCHANGED storeVars

Next == InStore \/ InDashboard(Dash!Next)

Spec == Init /\ [][Next]_vars

\* See Dashboard: a request of the dashboard is answered or fails.  In the store
\* nobody waits for anything but a database.
FairSpec ==
    /\ Spec
    /\ \A r \in Requests :
          /\ WF_vars(InDashboard(Dash!GetAllOrders(r) \/ Dash!CouldNotLoad(r)))
          /\ WF_vars(InDashboard(Dash!Load(r) \/ Dash!CouldNotLoad(r)))

-----------------------------------------------------------------------------
(***************************************************************************)
(* Properties: those of the pages, where they are explained, of the whole. *)
(***************************************************************************)

\* Each page, and what it shows of its database, has the form the code gives it.
TypeOK == OrderPages!TypeOK /\ ProductPages!TypeOK /\ Dash!TypeOK

\* A page of orders is wrong about a mark only if another administrator made it.
StaleOnlyByOthers == OrderPages!StaleOnlyByOthers

\* A click on Ship or Reset is never swallowed by a page that is behind.
MarkTakesEffect == OrderPages!MarkTakesEffect

\* No save of a product undoes what another saved in a column it did not touch.
NoEditUndone == ProductPages!NoEditUndone

\* No editor that was opened before brings a deleted product back.
DeletedStaysGone == ProductPages!DeletedStaysGone

\* Each order on the dashboard is under one filter, and the cards count alike.
FiltersMatchCards == Dash!FiltersMatchCards

\* The details panel contradicts the table only after a second answer.
PanelMatchesTable == Dash!PanelMatchesTable

\* Who opens the dashboard is shown the orders there were, or an error.
LoadsOrSays == Dash!LoadsOrSays
=============================================================================
