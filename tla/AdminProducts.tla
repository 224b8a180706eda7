--------------------------- MODULE AdminProducts ---------------------------
(***************************************************************************)
(* The product pages of the store's administrators: the list, with its     *)
(* Delete buttons, and the editor (Pages/Admin/Products.razor, Editor.razor*)
(* and EFStoreRepository).  Each page owns one database context, which     *)
(* remembers the values it has read; SaveChanges writes the columns that   *)
(* differ from them, and throws if the row is gone.                        *)
(***************************************************************************)
EXTENDS Integers

CONSTANTS
    Admins,   \* the administrators, each with one page
    Products, \* the ids the database may give out, each once
    Columns,  \* the columns of a product
    Values,   \* what a valid form may hold in a column
    Blank,    \* what an empty form holds in it
    NoRow,    \* a product that is not in the table
    New       \* what the editor edits that creates a product

VARIABLES
    rows, \* table Products
    used, \* the ids given out so far
    page  \* the page of each administrator

vars == <<rows, used, page>>

Row == [Columns -> Values]

Away == [at |-> "away"]

\* The list of products, empty until its query has come back.
List(shows) == [at |-> "list", busy |-> TRUE, shows |-> shows]

\* The editor for product id, with the row it has read and what the form holds.
\* Editor.razor puts a blank product in the place of one that is not there.
Editor(id, row) ==
    [at |-> "editor", id |-> id, loaded |-> row,
     form |-> IF row = NoRow THEN [c \in Columns |-> Blank] ELSE row]

Existing == {p \in Products : rows[p] # NoRow}

Init ==
    /\ rows = [p \in Products |-> NoRow]
    /\ used = {}
    /\ page = [a \in Admins |-> Away]

Show(a, p) == page' = [page EXCEPT ![a] = p]

\* The circuit of a ends, or a goes elsewhere.
Leave(a) ==
    /\ page[a].at # "away"
    /\ Show(a, Away)
    /\ UNCHANGED <<rows, used>>

-----------------------------------------------------------------------------
(***************************************************************************)
(* Products.razor.                                                         *)
(***************************************************************************)

OpenList(a) ==
    /\ page[a].at \in {"away", "editor"}
    /\ Show(a, List({}))
    /\ UNCHANGED <<rows, used>>

UpdateData(a) ==
    /\ page[a].at = "list"
    /\ page[a].busy
    /\ Show(a, [page[a] EXCEPT !.busy = FALSE, !.shows = Existing])
    /\ UNCHANGED <<rows, used>>

\* The row is deleted and the list read again.
DeleteProduct(a, p) ==
    /\ page[a].at = "list"
    /\ ~page[a].busy
    /\ p \in page[a].shows
    /\ rows[p] # NoRow
    /\ rows' = [rows EXCEPT ![p] = NoRow]
    /\ Show(a, List(page[a].shows))
    /\ UNCHANGED used

\* Deleting a row that is gone throws, and so does a second operation while the
\* list is being read: the circuit ends.
DeleteThrows(a, p) ==
    /\ page[a].at = "list"
    /\ p \in page[a].shows
    /\ page[a].busy \/ rows[p] = NoRow
    /\ Show(a, Away)
    /\ UNCHANGED <<rows, used>>

-----------------------------------------------------------------------------
(***************************************************************************)
(* Editor.razor.                                                           *)
(***************************************************************************)

\* The product is read when the page opens, by then maybe gone.
Edit(a, p) ==
    /\ page[a].at = "list"
    /\ p \in page[a].shows
    /\ Show(a, Editor(p, rows[p]))
    /\ UNCHANGED <<rows, used>>

Create(a) ==
    /\ page[a].at = "list"
    /\ Show(a, Editor(New, NoRow))
    /\ UNCHANGED <<rows, used>>

Type(a, c, v) ==
    /\ page[a].at = "editor"
    /\ page[a].form[c] # v
    /\ Show(a, [page[a] EXCEPT !.form[c] = v])
    /\ UNCHANGED <<rows, used>>

\* Mutant: the form is submitted whether or not it is valid.
Submits_Invalid(a, editsNew) ==
    /\ page[a].at = "editor"
    /\ (page[a].id = New) = editsNew

\* The form is valid and submitted.
Submits(a, editsNew) ==
    /\ page[a].at = "editor"
    /\ page[a].form \in Row
    /\ (page[a].id = New) = editsNew

CreateProduct(a, p) ==
    /\ Submits(a, TRUE)
    /\ p \notin used
    /\ rows' = [rows EXCEPT ![p] = page[a].form]
    /\ used' = used \cup {p}
    /\ Show(a, List({}))

\* What the form of a has changed of what was read.
\* Mutant: the whole product is marked as modified.
Changed_All(a) == Columns

Changed(a) == {c \in Columns : page[a].form[c] # page[a].loaded[c]}

\* Mutant: the product is put into the table, whether or not it is there.
SaveProduct_Upsert(a) ==
    /\ Submits(a, FALSE)
    /\ page[a].loaded # NoRow
    /\ rows' = [rows EXCEPT ![page[a].id] = page[a].form]
    /\ Show(a, List({}))
    /\ UNCHANGED used

SaveProduct(a) ==
    /\ Submits(a, FALSE)
    /\ page[a].loaded # NoRow
    /\ Changed(a) # {} => rows[page[a].id] # NoRow
    /\ rows' = [rows EXCEPT ![page[a].id] =
                   IF @ = NoRow THEN @
                   ELSE [c \in Columns |-> IF c \in Changed(a) THEN page[a].form[c]
                                           ELSE @[c]]]
    /\ Show(a, List({}))
    /\ UNCHANGED used

\* The product was gone when the page opened, and a blank one that the context
\* does not know took its place: nothing is written and nothing is said.
SaveUntracked(a) ==
    /\ Submits(a, FALSE)
    /\ page[a].loaded = NoRow
    /\ Show(a, List({}))
    /\ UNCHANGED <<rows, used>>

\* The product has been deleted since the page opened.
SaveThrows(a) ==
    /\ Submits(a, FALSE)
    /\ page[a].loaded # NoRow
    /\ Changed(a) # {} /\ rows[page[a].id] = NoRow
    /\ Show(a, Away)
    /\ UNCHANGED <<rows, used>>

Next ==
    \E a \in Admins :
        \/ Leave(a)
        \/ OpenList(a)
        \/ UpdateData(a)
        \/ Create(a)
        \/ \E p \in Products :
              \/ DeleteProduct(a, p)
              \/ DeleteThrows(a, p)
              \/ Edit(a, p)
              \/ CreateProduct(a, p)
        \/ \E c \in Columns : \E v \in Values : Type(a, c, v)
        \/ SaveProduct(a)
        \/ SaveUntracked(a)
        \/ SaveThrows(a)

Spec == Init /\ [][Next]_vars

-----------------------------------------------------------------------------
(***************************************************************************)
(* Properties.                                                             *)
(***************************************************************************)

AwayPages   == {Away}
ListPages   == [at : {"list"}, busy : BOOLEAN, shows : SUBSET Products]
EditorPages == [at : {"editor"}, id : Products \cup {New},
                loaded : Row \cup {NoRow},
                form : [Columns -> Values \cup {Blank}]]

TypeOK ==
    /\ rows \in [Products -> Row \cup {NoRow}]
    /\ used \subseteq Products
    /\ Existing \subseteq used
    /\ page \in [Admins -> AwayPages \cup ListPages \cup EditorPages]

\* What one administrator saved is not undone by the save of another who had the
\* product open at the same time and did not touch it: a column changes only to
\* what someone has typed over what was read, in a form that is submitted.
NoEditUndone ==
    [][\A p \in Existing : \A c \in Columns :
          rows'[p] # NoRow /\ rows'[p][c] # rows[p][c] =>
              \E a \in Admins :
                  /\ page[a].at = "editor" /\ page[a].id = p
                  /\ page[a].form[c] # page[a].loaded[c]
                  /\ rows'[p][c] = page[a].form[c]]_vars

\* A product that was deleted does not come back: not by the save of an editor that
\* was opened before, and not by a new product.
DeletedStaysGone ==
    [][\A p \in used : rows[p] = NoRow => rows'[p] = NoRow]_vars

\* The editor of a product goes on to the list as after a save only if what was
\* typed is stored.  Not so: what is typed for a product that was gone when the
\* editor opened is dropped, and nothing is said.
SavedOrTold ==
    [][\A a \in Admins :
          LET was == page[a]
          IN  (SaveProduct(a) \/ SaveUntracked(a) \/ SaveThrows(a))
                 /\ page'[a].at = "list"
              => \A c \in Columns :
                    was.loaded = NoRow \/ was.form[c] # was.loaded[c] =>
                        rows'[was.id] # NoRow /\ rows'[was.id][c] = was.form[c]]_vars
=============================================================================
