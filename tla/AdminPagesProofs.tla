-------------------------- MODULE AdminPagesProofs --------------------------
(***************************************************************************)
(* What AdminPages promises for any number of administrators, orders,      *)
(* products, columns and requests.  A property of a page is shown from a   *)
(* step of its page alone; the whole moves one page at a time.             *)
(***************************************************************************)
EXTENDS AdminPages, FiniteSetTheorems, TLAPS

-----------------------------------------------------------------------------
(***************************************************************************)
(* The page of orders.                                                     *)
(***************************************************************************)

\* Whatever the page of orders does, what it knows has the form it should have.
LEMMA NextOrderTypes ==
    ASSUME OrderPages!TypeOK, OrderPages!Next \/ UNCHANGED orderVars
    PROVE  OrderPages!TypeOK'
<1> USE DEF OrderPages!TypeOK
<1>1. CASE UNCHANGED orderVars
  BY <1>1 DEF orderVars
<1>2. ASSUME NEW o \in Orders, OrderPages!PlaceOrder(o)
      PROVE  OrderPages!TypeOK'
  BY <1>2 DEF OrderPages!PlaceOrder
<1>3. ASSUME NEW a \in Admins, NEW p,
             orderPage' = [orderPage EXCEPT ![a] = p],
             p \in [pc : {"closed", "loading", "ready"},
                    marks : [Orders -> {"unseen", "no", "yes"}]],
             UNCHANGED <<shipped, marker>>
      PROVE  OrderPages!TypeOK'
  BY <1>3
<1>4. ASSUME NEW a \in Admins,
             \/ OrderPages!Open(a) \/ OrderPages!Refresh(a)
             \/ OrderPages!Leave(a) \/ OrderPages!ClickWhileLoading(a)
             \/ OrderPages!UpdateData(a)
      PROVE  OrderPages!TypeOK'
  <2>1. CASE OrderPages!Open(a) \/ OrderPages!Refresh(a)
    BY <1>3, <2>1 DEF OrderPages!Open, OrderPages!Refresh
  <2>2. CASE OrderPages!Leave(a) \/ OrderPages!ClickWhileLoading(a)
    BY <1>3, <2>2 DEF OrderPages!Leave, OrderPages!ClickWhileLoading,
                      OrderPages!Closed
  <2>3. CASE OrderPages!UpdateData(a)
    BY <1>3, <2>3 DEF OrderPages!UpdateData
  <2>. QED
    BY <1>4, <2>1, <2>2, <2>3
<1>5. ASSUME NEW a \in Admins, NEW o \in Orders,
             OrderPages!ShipOrder(a, o) \/ OrderPages!ResetOrder(a, o)
      PROVE  OrderPages!TypeOK'
  <2>1. PICK value \in {"yes", "no"} : OrderPages!UpdateOrder(a, o, value)
    BY <1>5 DEF OrderPages!ShipOrder, OrderPages!ResetOrder
  <2>2. (shipped \in [Orders -> {"absent", "no", "yes"}])'
    BY <2>1 DEF OrderPages!UpdateOrder
  <2>3. (marker \in [Orders -> Admins \cup {Nobody}])'
    BY <2>1 DEF OrderPages!UpdateOrder
  <2>4. [orderPage[a] EXCEPT !.marks = [@ EXCEPT ![o] = value]]
            \in [pc : {"closed", "loading", "ready"},
                marks : [Orders -> {"unseen", "no", "yes"}]]
    OBVIOUS
  <2>5. (orderPage \in [Admins -> [pc : {"closed", "loading", "ready"},
                                  marks : [Orders -> {"unseen", "no", "yes"}]]])'
    BY <2>1, <2>4 DEF OrderPages!UpdateOrder
  <2>. QED
    BY <2>2, <2>3, <2>5
<1>. QED
  BY <1>1, <1>2, <1>4, <1>5 DEF OrderPages!Next

\* A page that is wrong about a mark is so because of another administrator: a
\* page takes a mark over as it is stored, and its own clicks reach the table.
LEMMA NextStale ==
    ASSUME OrderPages!TypeOK, OrderPages!StaleOnlyByOthers,
           OrderPages!Next \/ UNCHANGED orderVars
    PROVE  OrderPages!StaleOnlyByOthers'
<1> USE DEF OrderPages!TypeOK, OrderPages!StaleOnlyByOthers
<1>1. CASE UNCHANGED orderVars
  BY <1>1 DEF orderVars
<1>2. ASSUME NEW o \in Orders, OrderPages!PlaceOrder(o)
      PROVE  OrderPages!StaleOnlyByOthers'
  BY <1>2 DEF OrderPages!PlaceOrder
<1>3. ASSUME NEW a \in Admins,
             \/ OrderPages!Open(a) \/ OrderPages!Leave(a)
             \/ OrderPages!Refresh(a) \/ OrderPages!ClickWhileLoading(a)
      PROVE  OrderPages!StaleOnlyByOthers'
  BY <1>3 DEF OrderPages!Open, OrderPages!Leave, OrderPages!Refresh,
              OrderPages!ClickWhileLoading, OrderPages!Closed
<1>4. ASSUME NEW a \in Admins, OrderPages!UpdateData(a)
      PROVE  OrderPages!StaleOnlyByOthers'
  BY <1>4 DEF OrderPages!UpdateData
<1>5. ASSUME NEW a \in Admins, NEW o \in Orders,
             OrderPages!ShipOrder(a, o) \/ OrderPages!ResetOrder(a, o)
      PROVE  OrderPages!StaleOnlyByOthers'
  <2> SUFFICES ASSUME NEW b \in Admins, NEW x \in Orders,
                      (orderPage[b].marks[x] \notin {"unseen", shipped[x]})'
               PROVE  (marker[x] \notin {b, Nobody})'
    OBVIOUS
  <2>1. PICK value \in {"yes", "no"} :
            /\ orderPage[a].marks[o] # value
            /\ OrderPages!UpdateOrder(a, o, value)
    BY <1>5 DEF OrderPages!ShipOrder, OrderPages!ResetOrder,
                OrderPages!UnshippedOrders, OrderPages!ShippedOrders
  <2>2. /\ shipped'[o] = value /\ marker'[o] = a
        /\ orderPage'[a].marks[o] = value
    BY <2>1 DEF OrderPages!UpdateOrder
  <2>3. CASE x = o
    BY <2>2, <2>3, NobodyAssumption
  <2>4. CASE x # o
    BY <2>1, <2>4 DEF OrderPages!UpdateOrder
  <2>. QED
    BY <2>3, <2>4
<1>. QED
  BY <1>1, <1>2, <1>3, <1>4, <1>5 DEF OrderPages!Next

\* A click takes effect: the button was there because the page knew the opposite.
LEMMA ClickWrites ==
    ASSUME OrderPages!TypeOK, NEW a \in Admins, NEW o \in Orders
    PROVE  /\ OrderPages!ShipOrder(a, o) => shipped'[o] = "yes"
           /\ OrderPages!ResetOrder(a, o) => shipped'[o] = "no"
BY DEF OrderPages!TypeOK, OrderPages!ShipOrder, OrderPages!ResetOrder,
       OrderPages!UpdateOrder, OrderPages!UnshippedOrders,
       OrderPages!ShippedOrders

-----------------------------------------------------------------------------
(***************************************************************************)
(* The pages of products.                                                  *)
(***************************************************************************)

\* A page is what its name says.
LEMMA PageIs ==
    ASSUME NEW p \in ProductPages!AwayPages \cup ProductPages!ListPages \cup ProductPages!EditorPages
    PROVE  /\ p.at = "away" => p \in ProductPages!AwayPages
           /\ p.at = "list" => p \in ProductPages!ListPages
           /\ p.at = "editor" => p \in ProductPages!EditorPages
           /\ p.at \in {"away", "list", "editor"}
BY DEF ProductPages!AwayPages, ProductPages!ListPages, ProductPages!EditorPages, ProductPages!Away

\* The pages the code opens are such pages.
LEMMA PagesOpened ==
    /\ ProductPages!Away \in ProductPages!AwayPages
    /\ \A s \in SUBSET Products : ProductPages!List(s) \in ProductPages!ListPages
    /\ \A id \in Products \cup {New} : \A r \in ProductPages!Row \cup {NoRow} :
           ProductPages!Editor(id, r) \in ProductPages!EditorPages
BY DEF ProductPages!AwayPages, ProductPages!ListPages, ProductPages!EditorPages, ProductPages!List, ProductPages!Editor,
       ProductPages!Row

\* Whatever the product pages do, the table and the pages have the form they should
\* have, and every row that is there has an id that was given out.
LEMMA NextProductTypes ==
    ASSUME ProductPages!TypeOK, ProductPages!Next \/ UNCHANGED productVars
    PROVE  ProductPages!TypeOK'
<1> USE DEF ProductPages!TypeOK, ProductPages!Existing
<1> DEFINE Pages == ProductPages!AwayPages \cup ProductPages!ListPages
                        \cup ProductPages!EditorPages
<1>1. CASE UNCHANGED productVars
  BY <1>1 DEF productVars
<1>2. ASSUME NEW a \in Admins, NEW p \in Pages, ProductPages!Show(a, p)
      PROVE  (productPage \in [Admins -> Pages])'
  BY <1>2 DEF ProductPages!Show
<1>3. ASSUME NEW a \in Admins
      PROVE  productPage[a] \in Pages
  OBVIOUS
<1>4. ASSUME NEW a \in Admins, NEW p \in Pages, ProductPages!Show(a, p),
             UNCHANGED <<rows, used>>
      PROVE  ProductPages!TypeOK'
  BY <1>2, <1>4
<1> HIDE DEF Pages
<1>5. ASSUME NEW a \in Admins,
             \/ ProductPages!Leave(a) \/ ProductPages!OpenList(a)
             \/ ProductPages!UpdateData(a) \/ ProductPages!Create(a)
      PROVE  ProductPages!TypeOK'
  <2>1. CASE ProductPages!Leave(a)
    BY <2>1, <1>4, PagesOpened DEF ProductPages!Leave, Pages
  <2>2. CASE ProductPages!OpenList(a)
    BY <2>2, <1>4, PagesOpened DEF ProductPages!OpenList, Pages
  <2>3. CASE ProductPages!UpdateData(a)
    <3>1. productPage[a] \in ProductPages!ListPages
      BY <2>3, <1>3, PageIs DEF ProductPages!UpdateData, Pages
    <3>2. [productPage[a] EXCEPT !.busy = FALSE, !.shows = ProductPages!Existing]
              \in ProductPages!ListPages
      BY <3>1 DEF ProductPages!ListPages
    <3>. QED
      BY <2>3, <3>2, <1>4 DEF ProductPages!UpdateData, Pages
  <2>4. CASE ProductPages!Create(a)
    BY <2>4, <1>4, PagesOpened DEF ProductPages!Create, Pages
  <2>. QED
    BY <1>5, <2>1, <2>2, <2>3, <2>4
<1>6. ASSUME NEW a \in Admins, NEW p \in Products, ProductPages!DeleteProduct(a, p)
      PROVE  ProductPages!TypeOK'
  <2>1. productPage[a] \in ProductPages!ListPages
    BY <1>6, <1>3, PageIs DEF ProductPages!DeleteProduct, Pages
  <2>2. ProductPages!List(productPage[a].shows) \in Pages
    BY <2>1, PagesOpened DEF ProductPages!ListPages, Pages
  <2>3. (productPage \in [Admins -> Pages])'
    BY <1>6, <2>2, <1>2 DEF ProductPages!DeleteProduct
  <2>. QED
    BY <1>6, <2>3 DEF ProductPages!DeleteProduct, Pages
<1>7. ASSUME NEW a \in Admins, NEW p \in Products,
             ProductPages!DeleteThrows(a, p) \/ ProductPages!Edit(a, p)
      PROVE  ProductPages!TypeOK'
  <2>1. CASE ProductPages!DeleteThrows(a, p)
    BY <2>1, <1>4, PagesOpened DEF ProductPages!DeleteThrows, Pages
  <2>2. CASE ProductPages!Edit(a, p)
    <3>1. ProductPages!Editor(p, rows[p]) \in Pages
      BY PagesOpened DEF Pages
    <3>. QED
      BY <2>2, <3>1, <1>4 DEF ProductPages!Edit
  <2>. QED
    BY <1>7, <2>1, <2>2
<1>8. ASSUME NEW a \in Admins, NEW p \in Products, ProductPages!CreateProduct(a, p)
      PROVE  ProductPages!TypeOK'
  <2>1. (productPage \in [Admins -> Pages])'
    BY <1>8, <1>2, PagesOpened DEF ProductPages!CreateProduct, Pages
  <2>2. /\ rows' = [rows EXCEPT ![p] = productPage[a].form]
        /\ productPage[a].form \in ProductPages!Row
        /\ used' = used \cup {p}
    BY <1>8 DEF ProductPages!CreateProduct, ProductPages!Submits
  <2>. QED
    BY <2>1, <2>2 DEF Pages
<1>9. ASSUME NEW a \in Admins, NEW c \in Columns, NEW v \in Values,
             ProductPages!Type(a, c, v)
      PROVE  ProductPages!TypeOK'
  <2>1. productPage[a] \in ProductPages!EditorPages
    BY <1>9, <1>3, PageIs DEF ProductPages!Type, Pages
  <2>2. [productPage[a] EXCEPT !.form = [@ EXCEPT ![c] = v]]
            \in ProductPages!EditorPages
    BY <2>1 DEF ProductPages!EditorPages
  <2>. QED
    BY <1>9, <2>2, <1>4 DEF ProductPages!Type, Pages
<1>10. ASSUME NEW a \in Admins, ProductPages!SaveProduct(a)
       PROVE  ProductPages!TypeOK'
  <2>1. (productPage \in [Admins -> Pages])'
    BY <1>10, <1>2, PagesOpened DEF ProductPages!SaveProduct, Pages
  <2>2. /\ productPage[a].form \in ProductPages!Row
        /\ rows' = [rows EXCEPT ![productPage[a].id] =
                       IF @ = NoRow THEN @
                       ELSE [c \in Columns |->
                                IF c \in ProductPages!Changed(a)
                                THEN productPage[a].form[c] ELSE @[c]]]
        /\ used' = used
    BY <1>10 DEF ProductPages!SaveProduct, ProductPages!Submits
  <2>3. \A p \in Products :
            /\ rows'[p] \in ProductPages!Row \cup {NoRow}
            /\ rows'[p] # NoRow => rows[p] # NoRow
    BY <2>2 DEF ProductPages!Row
  <2>. QED
    BY <2>1, <2>2, <2>3 DEF Pages
<1>11. ASSUME NEW a \in Admins,
              ProductPages!SaveUntracked(a) \/ ProductPages!SaveThrows(a)
       PROVE  ProductPages!TypeOK'
  <2>1. CASE ProductPages!SaveUntracked(a)
    BY <2>1, <1>4, PagesOpened DEF ProductPages!SaveUntracked, Pages
  <2>2. CASE ProductPages!SaveThrows(a)
    BY <2>2, <1>4, PagesOpened DEF ProductPages!SaveThrows, Pages
  <2>. QED
    BY <1>11, <2>1, <2>2
<1>. QED
  BY <1>1, <1>5, <1>6, <1>7, <1>8, <1>9, <1>10, <1>11 DEF ProductPages!Next

\* A column of a row changes only to what an editor has typed over what it read: a
\* new product has a new id, a deletion leaves no row, and a save writes the
\* columns that differ.
LEMMA OnlyTypedIsWritten ==
    ASSUME ProductPages!TypeOK, ProductPages!Next \/ UNCHANGED productVars,
           NEW p \in ProductPages!Existing, NEW c \in Columns,
           rows'[p] # NoRow, rows'[p][c] # rows[p][c]
    PROVE  \E a \in Admins :
               /\ productPage[a].at = "editor" /\ productPage[a].id = p
               /\ productPage[a].form[c] # productPage[a].loaded[c]
               /\ rows'[p][c] = productPage[a].form[c]
<1> USE DEF ProductPages!TypeOK, ProductPages!Existing
<1>1. rows' # rows
  OBVIOUS
<1>2. ASSUME NEW a \in Admins, NEW q \in Products, ProductPages!DeleteProduct(a, q)
      PROVE  FALSE
  BY <1>2 DEF ProductPages!DeleteProduct
<1>3. ASSUME NEW a \in Admins, NEW q \in Products, ProductPages!CreateProduct(a, q)
      PROVE  FALSE
  BY <1>3 DEF ProductPages!CreateProduct
<1>4. PICK a \in Admins : ProductPages!SaveProduct(a)
  BY <1>1, <1>2, <1>3 DEF ProductPages!Next, productVars, ProductPages!Leave,
         ProductPages!OpenList, ProductPages!UpdateData, ProductPages!Create,
         ProductPages!DeleteThrows, ProductPages!Edit, ProductPages!Type,
         ProductPages!SaveUntracked, ProductPages!SaveThrows
<1>5. /\ productPage[a].at = "editor"
      /\ rows' = [rows EXCEPT ![productPage[a].id] =
                     IF @ = NoRow THEN @
                     ELSE [d \in Columns |->
                              IF d \in ProductPages!Changed(a)
                              THEN productPage[a].form[d] ELSE @[d]]]
  BY <1>4 DEF ProductPages!SaveProduct, ProductPages!Submits
<1>6. productPage[a].id = p
  BY <1>5
<1>7. rows'[p][c] = IF c \in ProductPages!Changed(a) THEN productPage[a].form[c]
                    ELSE rows[p][c]
  BY <1>5, <1>6
<1>. QED
  BY <1>5, <1>6, <1>7 DEF ProductPages!Changed

\* A row that is gone stays so: a new product has a new id, and a save writes the
\* rows that are there.
LEMMA GoneStays ==
    ASSUME ProductPages!TypeOK, ProductPages!Next \/ UNCHANGED productVars,
           NEW p \in used, rows[p] = NoRow
    PROVE  rows'[p] = NoRow
<1> USE DEF ProductPages!TypeOK
<1>1. p \in Products
  OBVIOUS
<1>2. ASSUME NEW a \in Admins, NEW q \in Products,
             ProductPages!DeleteProduct(a, q) \/ ProductPages!CreateProduct(a, q)
      PROVE  rows'[p] = NoRow
  BY <1>1, <1>2 DEF ProductPages!DeleteProduct, ProductPages!CreateProduct
<1>3. ASSUME NEW a \in Admins, ProductPages!SaveProduct(a)
      PROVE  rows'[p] = NoRow
  BY <1>1, <1>3 DEF ProductPages!SaveProduct
<1>4. CASE rows' = rows
  BY <1>4
<1>. QED
  BY <1>2, <1>3, <1>4 DEF ProductPages!Next, productVars, ProductPages!Leave,
         ProductPages!OpenList, ProductPages!UpdateData, ProductPages!Create,
         ProductPages!DeleteThrows, ProductPages!Edit, ProductPages!Type,
         ProductPages!SaveUntracked, ProductPages!SaveThrows

-----------------------------------------------------------------------------
(***************************************************************************)
(* The dashboard.                                                          *)
(***************************************************************************)

\* Each status has an entry of its own in the list of statuses.
LEMMA EntryOfStatus ==
    /\ \A s \in 1..11 : Dash!getStatusName(s) \in Dash!Options \ {"All"}
    /\ \A s, t \in 1..11 :
           Dash!getStatusName(s) = Dash!getStatusName(t) => s = t
    /\ Dash!getStatusName(10) = "Completed"
    /\ Dash!getStatusName(11) = "Failed"
<1>1. /\ Dash!getStatusName(1) = "Submitted"
      /\ Dash!getStatusName(2) = "Inventory Pending"
      /\ Dash!getStatusName(3) = "Inventory Confirmed"
      /\ Dash!getStatusName(4) = "Inventory Failed"
      /\ Dash!getStatusName(5) = "Payment Pending"
      /\ Dash!getStatusName(6) = "Payment Approved"
      /\ Dash!getStatusName(7) = "Payment Failed"
      /\ Dash!getStatusName(8) = "Shipping Pending"
      /\ Dash!getStatusName(9) = "Shipping Created"
      /\ Dash!getStatusName(10) = "Completed"
      /\ Dash!getStatusName(11) = "Failed"
  BY DEF Dash!getStatusName, Dash!Names
<1>2. \A s \in 1..11 : \/ s = 1 \/ s = 2 \/ s = 3 \/ s = 4 \/ s = 5 \/ s = 6
                       \/ s = 7 \/ s = 8 \/ s = 9 \/ s = 10 \/ s = 11
  OBVIOUS
<1>3. \A s \in 1..11 : Dash!getStatusName(s) \in Dash!Options \ {"All"}
  BY <1>1, <1>2 DEF Dash!Options
<1>4. \A s, t \in 1..11 :
          Dash!getStatusName(s) = Dash!getStatusName(t) => s = t
  BY <1>1, <1>2
<1>. QED
  BY <1>1, <1>3, <1>4

\* The dashboard counts as one counts here.
LEMMA DashCardinality ==
    ASSUME NEW S
    PROVE  Dash!Cardinality(S) = Cardinality(S)
BY DEF Dash!Cardinality, Cardinality

\* Whatever the dashboard does, its state has the form it should have.
LEMMA NextDashTypes ==
    ASSUME Dash!TypeOK, Dash!Next \/ UNCHANGED dashVars
    PROVE  Dash!TypeOK'
<1> USE DEF Dash!TypeOK
<1>1. CASE UNCHANGED dashVars
  BY <1>1 DEF dashVars
<1>2. ASSUME NEW o \in WorkflowOrders, Dash!UpdateOrderStatus(o)
      PROVE  Dash!TypeOK'
  BY <1>2 DEF Dash!UpdateOrderStatus, Dash!page
<1>3. ASSUME NEW r \in Requests, Dash!GetAllOrders(r)
      PROVE  Dash!TypeOK'
  <2>1. \A o \in WorkflowOrders :
            status[o] > 0 => [id |-> o, status |-> status[o]] \in Dash!Row
    BY DEF Dash!Row
  <2>2. {[id |-> o, status |-> status[o]] :
            o \in {x \in WorkflowOrders : status[x] > 0}} \in SUBSET Dash!Row
    BY <2>1
  <2>. QED
    BY <1>3, <2>2 DEF Dash!GetAllOrders, Dash!page
<1>4. ASSUME NEW r \in Requests, Dash!Load(r) \/ Dash!CouldNotLoad(r)
      PROVE  Dash!TypeOK'
  BY <1>4 DEF Dash!Load, Dash!CouldNotLoad
<1>5. ASSUME NEW row \in orders, Dash!handleViewDetails(row)
      PROVE  Dash!TypeOK'
  <2>1. row \in Dash!Row /\ selectedOrder' = {row}
    BY <1>5 DEF Dash!handleViewDetails
  <2>2. (selectedOrder \subseteq Dash!Row /\ Dash!Cardinality(selectedOrder) <= 1)'
    <3>1. Cardinality({row}) = 1 /\ Dash!Cardinality({row}) = Cardinality({row})
      BY FS_Singleton, DashCardinality
    <3>. QED
      BY <2>1, <3>1
  <2>. QED
    BY <1>5, <2>2 DEF Dash!handleViewDetails
<1>6. CASE Dash!handleCloseDetails
  <2>1. (selectedOrder \subseteq Dash!Row /\ Dash!Cardinality(selectedOrder) <= 1)'
    BY <1>6, FS_EmptySet, DashCardinality DEF Dash!handleCloseDetails
  <2>. QED
    BY <1>6, <2>1 DEF Dash!handleCloseDetails
<1>7. ASSUME NEW option \in Dash!Options, Dash!setStatusFilter(option)
      PROVE  Dash!TypeOK'
  BY <1>7 DEF Dash!setStatusFilter
<1>8. CASE Dash!Reload
  <2>1. (selectedOrder \subseteq Dash!Row /\ Dash!Cardinality(selectedOrder) <= 1)'
    BY <1>8, FS_EmptySet, DashCardinality DEF Dash!Reload
  <2>2. (reloads \in 0..MaxReloads)'
    BY <1>8, ReloadsAssumption DEF Dash!Reload
  <2>3. /\ (request \in [Requests -> {"asked", "answered", "done"}])'
        /\ (answer \in [Requests -> SUBSET Dash!Row])'
    BY <1>8 DEF Dash!Reload, Dash!Asked, Dash!NoRows
  <2>4. (orders \subseteq Dash!Row /\ error \in BOOLEAN
              /\ statusFilter \in Dash!Options)'
    BY <1>8 DEF Dash!Reload, Dash!Options
  <2>. QED
    BY <1>8, <2>1, <2>2, <2>3, <2>4 DEF Dash!Reload
<1>. QED
  BY <1>1, <1>2, <1>3, <1>4, <1>5, <1>6, <1>7, <1>8 DEF Dash!Next

\* What is shown has one row for each order: a query finds each order once.
LEMMA NextOneRowEach ==
    ASSUME Dash!TypeOK, Dash!OneRowEach, Dash!Next \/ UNCHANGED dashVars
    PROVE  Dash!OneRowEach'
<1> DEFINE Single(shown) ==
        \A row \in shown : \A other \in shown : row.id = other.id => row = other
<1>1. Single(orders) /\ \A r \in Requests : Single(answer[r])
  BY DEF Dash!OneRowEach
<1>2. SUFFICES Single(orders') /\ \A r \in Requests : Single(answer'[r])
  BY DEF Dash!OneRowEach
<1>3. Single({})
  OBVIOUS
<1>4. answer \in [Requests -> SUBSET Dash!Row]
  BY DEF Dash!TypeOK
<1>5. ASSUME NEW r \in Requests, Dash!GetAllOrders(r)
      PROVE  Single(orders') /\ \A x \in Requests : Single(answer'[x])
  <2>1. Single({[id |-> o, status |-> status[o]] :
                   o \in {x \in WorkflowOrders : status[x] > 0}})
    OBVIOUS
  <2>2. orders' = orders
    BY <1>5 DEF Dash!GetAllOrders, Dash!page
  <2> HIDE DEF Single
  <2>. QED
    BY <1>1, <1>4, <1>5, <2>1, <2>2 DEF Dash!GetAllOrders
<1> HIDE DEF Single
<1>6. ASSUME NEW r \in Requests, Dash!Load(r)
      PROVE  Single(orders') /\ \A x \in Requests : Single(answer'[x])
  BY <1>1, <1>3, <1>4, <1>6 DEF Dash!Load
<1>7. ASSUME NEW r \in Requests, Dash!CouldNotLoad(r)
      PROVE  Single(orders') /\ \A x \in Requests : Single(answer'[x])
  BY <1>1, <1>3, <1>4, <1>7 DEF Dash!CouldNotLoad
<1>8. CASE Dash!Reload
  BY <1>3, <1>8 DEF Dash!Reload, Dash!NoRows
<1>9. CASE UNCHANGED <<orders, answer>>
  BY <1>1, <1>9
<1>. QED
  BY <1>5, <1>6, <1>7, <1>8, <1>9
     DEF Dash!Next, dashVars, Dash!UpdateOrderStatus, Dash!page,
         Dash!handleViewDetails, Dash!handleCloseDetails, Dash!setStatusFilter

\* The panel shows a row of the table until a second answer replaces the table: the
\* first comes to a page that shows nothing.
LEMMA NextPanel ==
    ASSUME IsFiniteSet(Requests), Dash!TypeOK, Dash!ToldWhenDone,
           Dash!PanelMatchesTable, Dash!Next \/ UNCHANGED dashVars
    PROVE  Dash!ToldWhenDone' /\ Dash!PanelMatchesTable'
<1> DEFINE Done == {r \in Requests : request[r] = "done"}
<1>1. /\ orders # {} => Done # {}
      /\ selectedOrder \subseteq orders \/ Cardinality(Done) > 1
  BY DashCardinality DEF Dash!ToldWhenDone, Dash!PanelMatchesTable
<1>2. SUFFICES /\ orders' # {} => Done' # {}
               /\ selectedOrder' \subseteq orders' \/ Cardinality(Done') > 1
  BY DashCardinality DEF Dash!ToldWhenDone, Dash!PanelMatchesTable
<1>3. /\ request \in [Requests -> {"asked", "answered", "done"}]
      /\ IsFiniteSet(Done) /\ Cardinality(Done) \in Nat
  BY FS_Subset, FS_CardinalityType DEF Dash!TypeOK
<1>4. ASSUME NEW r \in Requests, request[r] # "done",
             request' = [request EXCEPT ![r] = "done"]
      PROVE  /\ Done' # {}
             /\ Cardinality(Done') = Cardinality(Done) + 1
  <2>1. Done' = Done \cup {r} /\ r \notin Done
    BY <1>3, <1>4
  <2>. QED
    BY <1>3, <2>1, FS_AddElement
<1>5. Done # {} => Cardinality(Done) >= 1
  BY <1>3, FS_EmptySet
<1>6. ASSUME NEW r \in Requests, Dash!Load(r)
      PROVE  /\ orders' # {} => Done' # {}
             /\ selectedOrder' \subseteq orders' \/ Cardinality(Done') > 1
  <2>1. Done' # {} /\ Cardinality(Done') = Cardinality(Done) + 1
    BY <1>4, <1>6 DEF Dash!Load
  <2>2. CASE Done = {}
    <3>1. selectedOrder = {}
      BY <1>1, <2>2, FS_EmptySet
    <3>. QED
      BY <1>6, <2>1, <3>1 DEF Dash!Load
  <2>3. CASE Done # {}
    BY <1>3, <1>5, <2>1, <2>3
  <2>. QED
    BY <2>2, <2>3
<1>7. ASSUME NEW r \in Requests, Dash!CouldNotLoad(r)
      PROVE  /\ orders' # {} => Done' # {}
             /\ selectedOrder' \subseteq orders' \/ Cardinality(Done') > 1
  <2>1. Done' # {} /\ Cardinality(Done') = Cardinality(Done) + 1
    BY <1>4, <1>7 DEF Dash!CouldNotLoad
  <2>2. UNCHANGED <<orders, selectedOrder>>
    BY <1>7 DEF Dash!CouldNotLoad
  <2>. QED
    BY <1>1, <1>3, <2>1, <2>2
<1>8. ASSUME NEW r \in Requests, Dash!GetAllOrders(r)
      PROVE  Done' = Done /\ UNCHANGED <<orders, selectedOrder>>
  BY <1>3, <1>8 DEF Dash!GetAllOrders, Dash!page
<1>9. ASSUME NEW row \in orders, Dash!handleViewDetails(row)
      PROVE  Done' = Done /\ orders' = orders /\ selectedOrder' \subseteq orders
  BY <1>9 DEF Dash!handleViewDetails
<1>10. CASE Dash!handleCloseDetails
  BY <1>1, <1>10 DEF Dash!handleCloseDetails
<1>11. CASE Dash!Reload
  BY <1>11 DEF Dash!Reload
<1>12. CASE UNCHANGED <<request, orders, selectedOrder>>
  BY <1>1, <1>12
<1>13. ASSUME NEW option \in Dash!Options, Dash!setStatusFilter(option)
       PROVE  UNCHANGED <<request, orders, selectedOrder>>
  BY <1>13 DEF Dash!setStatusFilter
<1>14. ASSUME NEW o \in WorkflowOrders, Dash!UpdateOrderStatus(o)
       PROVE  UNCHANGED <<request, orders, selectedOrder>>
  BY <1>14 DEF Dash!UpdateOrderStatus, Dash!page
<1> HIDE DEF Done
<1>. QED
  BY <1>1, <1>6, <1>7, <1>8, <1>9, <1>10, <1>11, <1>12, <1>13, <1>14
     DEF Dash!Next, dashVars

\* The cards and the list agree on rows that have the form they should have, one
\* for each of finitely many orders.
LEMMA CardsCount ==
    ASSUME IsFiniteSet(WorkflowOrders), Dash!TypeOK, Dash!OneRowEach
    PROVE  Dash!FiltersMatchCards
<1> DEFINE Under(option) ==
               {row \in orders : Dash!getStatusName(row.status) = option}
           Ids == {row.id : row \in orders}
           Completed == {row \in orders : row.status = 10}
           Failed == {row \in orders : row.status = 11}
           Pending == {row \in orders : row.status \notin {10, 11}}
           f == [row \in orders |-> row.id]
<1>1. \A row \in orders : row.id \in WorkflowOrders /\ row.status \in 1..11
  BY DEF Dash!TypeOK, Dash!Row
<1>2. \A row \in orders : \A other \in orders : row.id = other.id => row = other
  BY DEF Dash!OneRowEach
<1>3. \A row \in orders :
          \E option \in Dash!Options \ {"All"} :
              /\ row \in Under(option)
              /\ \A other \in Dash!Options \ {option} : row \notin Under(other)
  BY <1>1, EntryOfStatus
<1>4. Completed = Under("Completed") /\ Failed = Under("Failed")
  <2>1. \A row \in orders :
            /\ row.status = 10 <=> Dash!getStatusName(row.status) = "Completed"
            /\ row.status = 11 <=> Dash!getStatusName(row.status) = "Failed"
    BY <1>1, EntryOfStatus
  <2>. QED
    BY <2>1
<1>5. IsFiniteSet(orders) /\ Cardinality(orders) = Cardinality(Ids)
  <2>1. IsFiniteSet(Ids)
    BY <1>1, FS_Subset
  <2>2. f \in Injection(orders, Ids) /\ f \in Surjection(orders, Ids)
    BY <1>2 DEF Injection, Surjection, IsInjective
  <2> HIDE DEF f, Ids
  <2>. QED
    BY <2>1, <2>2, FS_Injection
<1>6. Cardinality(orders) = Cardinality(Completed) + Cardinality(Failed)
                                + Cardinality(Pending)
  <2>1. /\ IsFiniteSet(Completed) /\ IsFiniteSet(Failed) /\ IsFiniteSet(Pending)
    BY <1>5, FS_Subset
  <2>2. /\ Completed \cap Failed = {}
        /\ (Completed \cup Failed) \cap Pending = {}
        /\ orders = (Completed \cup Failed) \cup Pending
    OBVIOUS
  <2> HIDE DEF Completed, Failed, Pending
  <2>3. /\ IsFiniteSet(Completed \cup Failed)
        /\ Cardinality(Completed \cup Failed)
               = Cardinality(Completed) + Cardinality(Failed) - Cardinality({})
    BY <2>1, <2>2, FS_Union
  <2>4. Cardinality(orders) = Cardinality(Completed \cup Failed)
                                  + Cardinality(Pending) - Cardinality({})
    BY <2>1, <2>2, <2>3, FS_Union
  <2>5. /\ Cardinality({}) = 0
        /\ Cardinality(Completed) \in Nat /\ Cardinality(Failed) \in Nat
        /\ Cardinality(Pending) \in Nat
    BY <2>1, FS_EmptySet, FS_CardinalityType
  <2>. QED
    BY <2>3, <2>4, <2>5
<1>7. \A S : Dash!Cardinality(S) = Cardinality(S)
  BY DashCardinality
<1>8. /\ Dash!completedOrders = Cardinality(Completed)
      /\ Dash!failedOrders = Cardinality(Failed)
      /\ Dash!pendingOrders = Cardinality(Pending)
  BY <1>7 DEF Dash!completedOrders, Dash!failedOrders, Dash!pendingOrders
<1> HIDE DEF Completed, Failed, Pending, f
<1>. QED
  BY <1>3, <1>4, <1>5, <1>6, <1>7, <1>8 DEF Dash!FiltersMatchCards

-----------------------------------------------------------------------------
(***************************************************************************)
(* The whole.                                                              *)
(***************************************************************************)

\* Each page makes a step of its own or none.
LEMMA EachOnItsOwn ==
    ASSUME [Next]_vars
    PROVE  /\ OrderPages!Next \/ UNCHANGED orderVars
           /\ ProductPages!Next \/ UNCHANGED productVars
           /\ Dash!Next \/ UNCHANGED dashVars
BY DEF Next, InStore, InDashboard, vars, storeVars

\* The pages start as they should.
LEMMA InitTypes ==
    ASSUME Init
    PROVE  TypeOK
<1>1. OrderPages!TypeOK
  BY DEF Init, OrderPages!Init, OrderPages!TypeOK, OrderPages!Closed
<1>2. ProductPages!TypeOK
  BY PagesOpened DEF Init, ProductPages!Init, ProductPages!TypeOK,
                     ProductPages!Existing
<1>3. Dash!TypeOK
  <2>1. Dash!Cardinality({}) <= 1
    BY DashCardinality, FS_EmptySet
  <2>2. 0 \in 0..MaxReloads /\ 0 \in 0..11
    BY ReloadsAssumption
  <2>3. /\ Dash!Asked \in [Requests -> {"asked", "answered", "done"}]
        /\ Dash!NoRows \in [Requests -> SUBSET Dash!Row]
        /\ "All" \in Dash!Options
    BY DEF Dash!Asked, Dash!NoRows, Dash!Options
  <2>. QED
    BY <2>1, <2>2, <2>3 DEF Init, Dash!Init, Dash!TypeOK
<1>. QED
  BY <1>1, <1>2, <1>3 DEF TypeOK

\* Each page, and what it shows of its database, has at all times the form the code
\* gives it; no row of products has an id that was not given out.
THEOREM TypeCorrect == Spec => []TypeOK
<1>1. Init => TypeOK
  BY InitTypes
<1>2. TypeOK /\ [Next]_vars => TypeOK'
  BY EachOnItsOwn, NextOrderTypes, NextProductTypes, NextDashTypes DEF TypeOK
<1>. QED
  BY <1>1, <1>2, PTL DEF Spec

\* A page of orders is wrong about a mark only if another administrator made it,
\* for any number of administrators and orders.
THEOREM OnlyOthersMakeStale == Spec => []StaleOnlyByOthers
<1>1. Init => StaleOnlyByOthers
  BY DEF Init, OrderPages!Init, OrderPages!Closed, StaleOnlyByOthers,
         OrderPages!StaleOnlyByOthers
<1>2. TypeOK /\ StaleOnlyByOthers /\ [Next]_vars => StaleOnlyByOthers'
  BY EachOnItsOwn, NextStale DEF TypeOK, StaleOnlyByOthers
<1>. QED
  BY <1>1, <1>2, TypeCorrect, PTL DEF Spec

\* A click on Ship or Reset is never swallowed by a page that is behind.
THEOREM ClicksTakeEffect == Spec => MarkTakesEffect
<1>1. TypeOK /\ [Next]_vars =>
          [\A a \in Admins : \A o \in Orders :
              /\ OrderPages!ShipOrder(a, o) => shipped'[o] = "yes"
              /\ OrderPages!ResetOrder(a, o) => shipped'[o] = "no"]_(OrderPages!vars)
  BY ClickWrites DEF TypeOK
<1>. QED
  BY <1>1, TypeCorrect, PTL DEF Spec, MarkTakesEffect, OrderPages!MarkTakesEffect

\* No save of a product undoes what another administrator saved in a column that it
\* did not touch.
THEOREM EditsSurvive == Spec => NoEditUndone
<1>1. TypeOK /\ [Next]_vars =>
          [\A p \in ProductPages!Existing : \A c \in Columns :
              rows'[p] # NoRow /\ rows'[p][c] # rows[p][c] =>
                  \E a \in Admins :
                      /\ productPage[a].at = "editor" /\ productPage[a].id = p
                      /\ productPage[a].form[c] # productPage[a].loaded[c]
                      /\ rows'[p][c] = productPage[a].form[c]]_(ProductPages!vars)
  BY EachOnItsOwn, OnlyTypedIsWritten DEF TypeOK
<1>. QED
  BY <1>1, TypeCorrect, PTL DEF Spec, NoEditUndone, ProductPages!NoEditUndone

\* No deleted product comes back: by no save of an editor that was opened before,
\* of any number of administrators.
THEOREM DeletedNeverReturns == Spec => DeletedStaysGone
<1>1. TypeOK /\ [Next]_vars =>
          [\A p \in used : rows[p] = NoRow => rows'[p] = NoRow]_(ProductPages!vars)
  BY EachOnItsOwn, GoneStays DEF TypeOK
<1>. QED
  BY <1>1, TypeCorrect, PTL DEF Spec, DeletedStaysGone, ProductPages!DeletedStaysGone

\* Each of finitely many orders on the dashboard is under one entry of the list of
\* statuses, and the cards count what the list shows.
THEOREM CardsAndFiltersAgree ==
    ASSUME IsFiniteSet(WorkflowOrders)
    PROVE  Spec => []FiltersMatchCards
<1>1. Init => Dash!OneRowEach
  BY DEF Init, Dash!Init, Dash!NoRows, Dash!OneRowEach
<1>2. TypeOK /\ Dash!OneRowEach /\ [Next]_vars => Dash!OneRowEach'
  BY EachOnItsOwn, NextOneRowEach DEF TypeOK
<1>3. TypeOK /\ Dash!OneRowEach => FiltersMatchCards
  BY CardsCount DEF TypeOK, FiltersMatchCards
<1>. QED
  BY <1>1, <1>2, <1>3, TypeCorrect, PTL DEF Spec

\* As long as the page of the dashboard has been told once, of any number of
\* requests, the details panel shows a row of the table.
THEOREM PanelShowsTable ==
    ASSUME IsFiniteSet(Requests)
    PROVE  Spec => []PanelMatchesTable
<1> DEFINE Told == Dash!ToldWhenDone /\ Dash!PanelMatchesTable
<1>1. Init => Told
  BY DEF Init, Dash!Init, Dash!ToldWhenDone, Dash!PanelMatchesTable
<1>2. TypeOK /\ Told /\ [Next]_vars => Told'
  BY EachOnItsOwn, NextPanel DEF TypeOK
<1>3. Told => PanelMatchesTable
  BY DEF PanelMatchesTable
<1> HIDE DEF Told
<1>. QED
  BY <1>1, <1>2, <1>3, TypeCorrect, PTL DEF Spec
=============================================================================
