---------------------------- MODULE AdminOrders ----------------------------
(***************************************************************************)
(* The order page of the store's administrators (Pages/Admin/Orders.razor).*)
(* Every open page owns one database context for as long as it is open.    *)
(* The context keeps what it has read: a query returns the entity it knows *)
(* with the values it knows, and SaveChanges writes an entity only if it   *)
(* differs from what was read.  So a page has a memory of its own.         *)
(***************************************************************************)
EXTENDS Integers

CONSTANTS
    Admins, \* the administrators, each with one page
    Orders, \* the orders customers may place
    Nobody  \* who has marked an order that is as it was placed

VARIABLES
    shipped, \* column Shipped of table Orders, "absent" while there is no row
    page,    \* the page of each administrator, with the marks it knows
    marker   \* who clicked last on a button of an order

vars == <<shipped, page, marker>>

Closed == [pc |-> "closed", marks |-> [o \in Orders |-> "unseen"]]

Init ==
    /\ shipped = [o \in Orders |-> "absent"]
    /\ page = [a \in Admins |-> Closed]
    /\ marker = [o \in Orders |-> Nobody]

\* EFOrderRepository.SaveOrder of a new order, for a customer who has paid.
PlaceOrder(o) ==
    /\ shipped[o] = "absent"
    /\ shipped' = [shipped EXCEPT ![o] = "no"]
    /\ UNCHANGED <<page, marker>>

Open(a) ==
    /\ page[a].pc = "closed"
    /\ page' = [page EXCEPT ![a].pc = "loading"]
    /\ UNCHANGED <<shipped, marker>>

Leave(a) ==
    /\ page[a].pc # "closed"
    /\ page' = [page EXCEPT ![a] = Closed]
    /\ UNCHANGED <<shipped, marker>>

Refresh(a) ==
    /\ page[a].pc = "ready"
    /\ page' = [page EXCEPT ![a].pc = "loading"]
    /\ UNCHANGED <<shipped, marker>>

\* The query of UpdateData has come back: rows that are new to the context are
\* taken over, the others are as the context knows them.
UpdateData(a) ==
    /\ page[a].pc = "loading"
    /\ page' = [page EXCEPT ![a] =
           [pc |-> "ready",
            marks |-> [o \in Orders |->
                          IF page[a].marks[o] # "unseen" THEN page[a].marks[o]
                          ELSE IF shipped[o] = "absent" THEN "unseen"
                          ELSE shipped[o]]]]
    /\ UNCHANGED <<shipped, marker>>

\* The two tables.  They are queries over AllOrders, run each time the page is
\* rendered.  (A click made before the last rendering has reached the browser is
\* left out.)
\* Mutant: both buttons for every order.
UnshippedOrders_All(a) == {o \in Orders : page[a].marks[o] # "unseen"}

UnshippedOrders(a) == {o \in Orders : page[a].marks[o] = "no"}
ShippedOrders(a)   == {o \in Orders : page[a].marks[o] = "yes"}

\* Mutant: the row is updated past the context.
UpdateOrder_Past(a, o, value) ==
    /\ shipped' = [shipped EXCEPT ![o] = value]
    /\ marker' = [marker EXCEPT ![o] = a]
    /\ UNCHANGED page

\* The order is found in the context, marked, and written if that is news to it.
UpdateOrder(a, o, value) ==
    /\ page' = [page EXCEPT ![a].marks[o] = value]
    /\ shipped' = [shipped EXCEPT ![o] = IF page[a].marks[o] = value THEN @ ELSE value]
    /\ marker' = [marker EXCEPT ![o] = a]

ShipOrder(a, o) ==
    /\ page[a].pc = "ready"
    /\ o \in UnshippedOrders(a)
    /\ UpdateOrder(a, o, "yes")

ResetOrder(a, o) ==
    /\ page[a].pc = "ready"
    /\ o \in ShippedOrders(a)
    /\ UpdateOrder(a, o, "no")

\* A click on any button while the query is under way is a second operation on
\* the context, which throws; nobody catches it and the circuit ends.
ClickWhileLoading(a) ==
    /\ page[a].pc = "loading"
    /\ page' = [page EXCEPT ![a] = Closed]
    /\ UNCHANGED <<shipped, marker>>

Next ==
    \/ \E o \in Orders : PlaceOrder(o)
    \/ \E a \in Admins :
          \/ Open(a)
          \/ Leave(a)
          \/ Refresh(a)
          \/ UpdateData(a)
          \/ ClickWhileLoading(a)
          \/ \E o \in Orders : ShipOrder(a, o) \/ ResetOrder(a, o)

Spec == Init /\ [][Next]_vars

-----------------------------------------------------------------------------
(***************************************************************************)
(* Properties.                                                             *)
(***************************************************************************)

TypeOK ==
    /\ shipped \in [Orders -> {"absent", "no", "yes"}]
    /\ page \in [Admins -> [pc : {"closed", "loading", "ready"},
                            marks : [Orders -> {"unseen", "no", "yes"}]]]
    /\ marker \in [Orders -> Admins \cup {Nobody}]

\* A click is never swallowed: whatever others have done to the order since the
\* page was loaded, after a click on Ship it is shipped, after one on Reset it is
\* not.  SaveChanges writes nothing for an entity that is as it was read; only
\* because a page offers the button its own memory contradicts is there always
\* something to write.
MarkTakesEffect ==
    [][\A a \in Admins : \A o \in Orders :
          /\ ShipOrder(a, o) => shipped'[o] = "yes"
          /\ ResetOrder(a, o) => shipped'[o] = "no"]_vars

\* A page is wrong about an order only if another administrator has marked it
\* since: never about what its own administrator has done.
StaleOnlyByOthers ==
    \A a \in Admins : \A o \in Orders :
        page[a].marks[o] \notin {"unseen", shipped[o]} =>
            marker[o] \notin {a, Nobody}

\* Orders.razor:8, "Refresh Data": when it is done, the page shows what is stored.
\* Not so: the marks of the orders it knows stay as it knows them.
RefreshShowsDatabase ==
    [][\A a \in Admins :
          page[a].pc = "loading" /\ page'[a].pc = "ready" =>
              \A o \in Orders : shipped[o] # "absent" =>
                  page'[a].marks[o] = shipped[o]]_vars
=============================================================================
