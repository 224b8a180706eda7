----------------------------- MODULE Catalogue -----------------------------
(***************************************************************************)
(* The product pages of the store: HomeController, PagingInfo and the page *)
(* links, read by a customer while administrators change the products.     *)
(* Index counts the products when it runs; the query for the page itself is*)
(* deferred and runs when the view is rendered.                            *)
(***************************************************************************)
EXTENDS Integers, FiniteSets

CONSTANTS
    MaxId,      \* bound on the ids the database gives out, 1, 2, 3, ...
    Categories, \* what a product may be filed under
    PageSize,   \* products on a page
    Half,       \* how many numbers of an int are negative: 2^31 in the code
    Addresses,  \* the page numbers a customer may type
    MaxChanges  \* bound on the changes while a customer walks through the pages

ASSUME PageSizeAssumption == PageSize \in Nat \ {0}
ASSUME BoundsAssumption   ==
    /\ MaxId \in Nat
    /\ Half \in Nat \ {0}
    /\ MaxChanges \in Nat
    /\ Addresses \subseteq Int
\* All that there is can be counted, and so can a page more.
ASSUME RangeAssumption    == MaxId + 2 * PageSize < Half
ASSUME NamesAssumption    == {"any", "none"} \cap Categories = {}

VARIABLES
    category, \* Products.Category, "none" while or when there is no row
    lastId,   \* the last id given out
    request,  \* the page the customer looks at or waits for
    shown,    \* the products on it, {} if it is an error page
    known,    \* the last id given out when the first page was asked for
    seen,     \* the products shown since then
    changes,  \* departures from and arrivals in the category since then
    steady    \* nothing changed between the two queries of the page

vars == <<category, lastId, request, shown, known, seen, changes, steady>>

Ids == 1 .. MaxId

\* The products of a category, or all.
InCategory(c) ==
    {p \in Ids : category[p] # "none" /\ c \in {"any", category[p]}}

TotalItems(c) == Cardinality(InCategory(c))

\* Mutant: the last page counts only if it is full.
TotalPages_Floor(items) == items \div PageSize

TotalPages(items) == (items + PageSize - 1) \div PageSize

\* An int that has left its range comes back at the other end.
Wrap(n) == ((n + Half) % (2 * Half)) - Half

\* Mutant: pages are numbered from zero.
Offset_FromZero(k) == Wrap(k * PageSize)

Offset(k) == Wrap((k - 1) * PageSize)

\* Where p stands in the listing of c.
Position(p, c) == Cardinality({q \in InCategory(c) : q <= p})

\* Skip and Take.  The database refuses a negative offset.
Page(c, k) ==
    {p \in InCategory(c) : /\ Offset(k) >= 0
                           /\ Position(p, c) > Offset(k)
                           /\ Position(p, c) <= Offset(k) + PageSize}

Init ==
    /\ category = [p \in Ids |-> "none"]
    /\ lastId = 0
    /\ request = [pc |-> "read", cat |-> "any", page |-> 1, pages |-> 0, walks |-> TRUE]
    /\ shown = {}
    /\ known = 0
    /\ seen = {}
    /\ changes = 0
    /\ steady = TRUE

-----------------------------------------------------------------------------
(***************************************************************************)
(* The customer.                                                           *)
(***************************************************************************)

\* Index runs as far as to the count.
Count(c, k, walks) ==
    /\ request.pc = "read"
    /\ request' = [pc |-> "counted", cat |-> c, page |-> k,
                   pages |-> TotalPages(TotalItems(c)), walks |-> walks]
    /\ steady' = TRUE
    /\ UNCHANGED <<category, lastId, shown>>

\* A link of the navigation menu, or Home: the first page.
OpenCategory(c) ==
    /\ Count(c, 1, TRUE)
    /\ known' = lastId
    /\ seen' = {}
    /\ changes' = 0

\* The page link after that of the current page.
NextPage ==
    /\ request.page < request.pages
    /\ Count(request.cat, request.page + 1, request.walks)
    /\ UNCHANGED <<known, seen, changes>>

\* A page asked for by its address.
TypeAddress(k) ==
    /\ Count(request.cat, k, FALSE)
    /\ known' = lastId
    /\ seen' = {}
    /\ changes' = 0

\* The view is rendered: only now are the products read.
Render ==
    /\ request.pc = "counted"
    /\ request' = [request EXCEPT !.pc = "read"]
    /\ shown' = Page(request.cat, request.page)
    /\ seen' = seen \cup Page(request.cat, request.page)
    /\ UNCHANGED <<category, lastId, known, changes, steady>>

-----------------------------------------------------------------------------
(***************************************************************************)
(* The administrators (see AdminProducts).                                 *)
(***************************************************************************)

\* p is filed under c, or under "none".  Who joins behind all the others is no
\* change to a walk.
File(p, c) ==
    LET touched == {category[p], c} \cap
                   (IF request.cat = "any" THEN {"none"} ELSE {request.cat})
    IN  /\ category' = [category EXCEPT ![p] = c]
        /\ changes' = IF touched # {} /\ p <= lastId THEN changes + 1 ELSE changes
        /\ changes' <= MaxChanges
        /\ steady' = FALSE
        /\ UNCHANGED <<request, shown, known, seen>>

\* Mutant: an id is given out twice.
CreateProduct_SameId(c) ==
    /\ lastId < MaxId
    /\ File(lastId + 1, c)
    /\ UNCHANGED lastId

CreateProduct(c) ==
    /\ lastId < MaxId
    /\ lastId' = lastId + 1
    /\ File(lastId', c)

SaveProduct(p, c) ==
    /\ category[p] \notin {"none", c}
    /\ File(p, c)
    /\ UNCHANGED lastId

DeleteProduct(p) ==
    /\ category[p] # "none"
    /\ File(p, "none")
    /\ UNCHANGED lastId

Next ==
    \/ \E c \in Categories \cup {"any"} : OpenCategory(c)
    \/ NextPage
    \/ \E k \in Addresses : TypeAddress(k)
    \/ Render
    \/ \E c \in Categories : CreateProduct(c)
    \/ \E p \in Ids : \E c \in Categories : SaveProduct(p, c)
    \/ \E p \in Ids : DeleteProduct(p)

Spec == Init /\ [][Next]_vars

-----------------------------------------------------------------------------
(***************************************************************************)
(* Properties.                                                             *)
(***************************************************************************)

TypeOK ==
    /\ category \in [Ids -> Categories \cup {"none"}]
    /\ lastId \in 0 .. MaxId
    /\ \A p \in Ids : category[p] # "none" => p <= lastId
    /\ request \in [pc : {"read", "counted"}, cat : Categories \cup {"any"},
                    page : Int, pages : 0 .. MaxId, walks : BOOLEAN]
    /\ shown \subseteq Ids
    /\ known \in 0 .. MaxId
    /\ seen \subseteq Ids
    /\ changes \in 0 .. MaxChanges
    /\ steady \in BOOLEAN

\* What comes before the end of page k.
UpTo(c, k) == {p \in InCategory(c) : Position(p, c) <= k * PageSize}

\* Of the products there were at the first page, those up to the end of page k that
\* were not shown.
Missed(k) == {p \in UpTo(request.cat, k) \ seen : p <= known}

\* A customer who goes through the pages of a category one after the other has,
\* with each page, missed none of the products up to its end, but for one for each
\* that left the category or was moved into it meanwhile.  New products go to the
\* end and make nobody miss any other (but may be missed themselves: on a page
\* that had room for them when it was shown).
FewMissed ==
    [][Render /\ request.walks =>
          Cardinality(Missed(request.page)') <= changes]_vars

\* If nothing changed between the count and the query, the links are right: no link
\* leads to an empty page and none is missing after the last.  (Without a product
\* there is no link.)
LinksFit ==
    request.pc = "read" /\ steady /\ request.walks =>
        /\ request.page \in 1 .. request.pages => shown # {}
        /\ InCategory(request.cat) = UpTo(request.cat, request.pages)

-----------------------------------------------------------------------------
(***************************************************************************)
(* The inductive invariants behind the theorems of CatalogueProofs.        *)
(***************************************************************************)

\* Until something changes, the links are those of the count, and the page shown
\* is the one that there is.
CountKept ==
    steady => /\ request.pages = TotalPages(TotalItems(request.cat))
              /\ request.pc = "read" => shown = Page(request.cat, request.page)

\* The links lead to no page whose first product an int cannot number.
LinksInRange ==
    /\ \A k \in 1 .. request.pages : (k - 1) * PageSize <= MaxId
    /\ request.walks => request.page >= 1 /\ (request.page - 1) * PageSize <= MaxId

\* The last page shown on a walk, and what was missed up to its end.
Through == IF request.pc = "read" THEN request.page ELSE request.page - 1

MissedInv ==
    /\ known <= lastId
    /\ request.walks => Cardinality(Missed(Through)) <= changes
=============================================================================
