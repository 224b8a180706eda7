-------------------------- MODULE CatalogueProofs --------------------------
(***************************************************************************)
(* The product pages of the store, for any number of products, categories  *)
(* and changes, and any size of a page.                                    *)
(***************************************************************************)
EXTENDS Catalogue, FiniteSetTheorems, WellFoundedInduction, TLAPS

-----------------------------------------------------------------------------
(***************************************************************************)
(* Where the members of a set of ids stand in it.                          *)
(***************************************************************************)

\* Those of S up to p, how many they are, and the first m of S.
Before(S, p) == {q \in S : q <= p}
Pos(S, p) == Cardinality(Before(S, p))
First(S, m) == {p \in S : Pos(S, p) <= m}

\* Ids are natural numbers of at most MaxId.
LEMMA IdsAre == Ids \subseteq Nat /\ \A p \in Ids : p \in Int /\ p <= MaxId
  BY BoundsAssumption DEF Ids

\* Every set of products, and what comes before a product in it, can be counted.
LEMMA Counts ==
    ASSUME NEW S \in SUBSET Ids
    PROVE  /\ IsFiniteSet(S) /\ Cardinality(S) \in 0 .. MaxId
           /\ \A T \in SUBSET S : IsFiniteSet(T) /\ Cardinality(T) <= Cardinality(S)
           /\ \A p : Before(S, p) \subseteq S /\ IsFiniteSet(Before(S, p))
                     /\ Pos(S, p) \in 0 .. Cardinality(S) /\ Pos(S, p) \in Nat
<1>1. IsFiniteSet(Ids) /\ Cardinality(Ids) = MaxId
  BY BoundsAssumption, FS_Interval DEF Ids
<1>2. ASSUME NEW T \in SUBSET Ids, NEW U \in SUBSET T
      PROVE  /\ IsFiniteSet(U) /\ Cardinality(U) \in Nat
             /\ IsFiniteSet(T) /\ Cardinality(U) <= Cardinality(T)
  <2>1. IsFiniteSet(T)
    BY <1>1, FS_Subset
  <2> QED BY <2>1, FS_Subset, FS_CardinalityType
<1>3. Cardinality(S) <= MaxId /\ Cardinality(S) \in Nat /\ IsFiniteSet(S)
  BY <1>1, <1>2, FS_Subset
<1>4. Cardinality(S) \in 0 .. MaxId
  BY <1>3, BoundsAssumption
<1>5. ASSUME NEW p
      PROVE  /\ Before(S, p) \subseteq S /\ IsFiniteSet(Before(S, p))
             /\ Pos(S, p) \in 0 .. Cardinality(S) /\ Pos(S, p) \in Nat
  <2>1. Before(S, p) \subseteq S
    BY DEF Before
  <2>2. /\ IsFiniteSet(Before(S, p)) /\ Pos(S, p) \in Nat
        /\ Pos(S, p) <= Cardinality(S)
    BY <1>2, <2>1 DEF Pos
  <2> QED BY <1>3, <2>1, <2>2
<1> QED BY <1>2, <1>3, <1>4, <1>5

\* A set that holds at most one member more is greater by one at most.
LEMMA OneMore ==
    ASSUME NEW A, NEW B, NEW y, IsFiniteSet(B), A \subseteq B \cup {y}
    PROVE  /\ IsFiniteSet(A) /\ Cardinality(A) \in Nat /\ Cardinality(B) \in Nat
           /\ Cardinality(A) <= Cardinality(B) + 1
<1>1. /\ IsFiniteSet(B \cup {y})
      /\ Cardinality(B \cup {y}) = IF y \in B THEN Cardinality(B) ELSE Cardinality(B) + 1
  BY FS_AddElement
<1>2. Cardinality(B) \in Nat
  BY FS_CardinalityType
<1>3. IsFiniteSet(A) /\ Cardinality(A) <= Cardinality(B \cup {y})
  BY <1>1, FS_Subset
<1>4. Cardinality(A) \in Nat
  BY <1>3, FS_CardinalityType
<1> QED BY <1>1, <1>2, <1>3, <1>4

\* A member stands behind every smaller one.
LEMMA PosGrows ==
    ASSUME NEW S \in SUBSET Ids, NEW a \in S, NEW b \in S, a < b
    PROVE  Pos(S, a) + 1 <= Pos(S, b)
<1>1. \A q \in S : q \in Int
  BY IdsAre
<1>2. Before(S, a) \cup {b} \subseteq Before(S, b) /\ b \notin Before(S, a)
  <2>1. a \in Int /\ b \in Int /\ b <= b /\ ~(b <= a)
    BY <1>1
  <2>2. \A q \in S : q <= a => q <= b
    BY <1>1, <2>1
  <2> QED BY <2>1, <2>2 DEF Before
<1>3. IsFiniteSet(Before(S, a)) /\ IsFiniteSet(Before(S, b)) /\ Pos(S, a) \in Nat
  BY Counts
<1>4. Cardinality(Before(S, a) \cup {b}) = Pos(S, a) + 1
  BY <1>2, <1>3, FS_AddElement DEF Pos
<1> QED BY <1>2, <1>3, <1>4, FS_Subset DEF Pos

\* A member of a listing stands at its first place or behind it.
LEMMA PosOne == ASSUME NEW S \in SUBSET Ids, NEW p \in S PROVE Pos(S, p) >= 1
<1>1. p \in Before(S, p)
  BY DEF Before, Ids
<1>2. IsFiniteSet(Before(S, p)) /\ Pos(S, p) \in Nat
  BY Counts
<1> QED BY <1>1, <1>2, FS_EmptySet DEF Pos

\* Without x, the others stand where they stood, or one place before.
LEMMA PosWithout ==
    ASSUME NEW S \in SUBSET Ids, NEW x, NEW p
    PROVE  Pos(S \ {x}, p) <= Pos(S, p) /\ Pos(S, p) <= Pos(S \ {x}, p) + 1
<1>1. /\ Before(S \ {x}, p) \subseteq Before(S, p)
      /\ Before(S, p) \subseteq Before(S \ {x}, p) \cup {x}
  BY DEF Before
<1>2. IsFiniteSet(Before(S, p)) /\ IsFiniteSet(Before(S \ {x}, p))
  BY Counts
<1> QED BY <1>1, <1>2, OneMore, FS_Subset DEF Pos

\* Who joins pushes others out of the first m, and none into them.
LEMMA FirstJoined ==
    ASSUME NEW S \in SUBSET Ids, NEW x \in Ids, NEW m \in Nat
    PROVE  First(S \cup {x}, m) \subseteq First(S, m) \cup {x}
<1> SUFFICES ASSUME NEW p \in First(S \cup {x}, m), p # x PROVE p \in First(S, m)
  OBVIOUS
<1>1. p \in S /\ Pos(S \cup {x}, p) <= m
  BY DEF First
<1>2. CASE x \in S
  BY <1>1, <1>2 DEF First
<1>3. CASE x \notin S
  <2>1. (S \cup {x}) \ {x} = S /\ S \cup {x} \in SUBSET Ids
    BY <1>3
  <2>2. Pos(S, p) <= Pos(S \cup {x}, p)
    BY <2>1, PosWithout
  <2>3. Pos(S, p) \in Nat
    BY Counts
  <2>4. Pos(S \cup {x}, p) \in Nat
    BY <2>1, Counts
  <2> QED BY <1>1, <2>2, <2>3, <2>4 DEF First
<1> QED BY <1>2, <1>3

\* Who leaves lets one at most into the first m.
LEMMA FirstLeft ==
    ASSUME NEW S \in SUBSET Ids, NEW x, NEW m \in Nat
    PROVE  \E y : First(S \ {x}, m) \subseteq First(S, m) \cup {y}
<1> DEFINE New == First(S \ {x}, m) \ First(S, m)
<1>1. ASSUME NEW a \in New, NEW b \in New, a < b PROVE FALSE
  <2>1. /\ a \in S \ {x} /\ b \in S \ {x}
        /\ Pos(S \ {x}, b) <= m /\ ~(Pos(S, a) <= m)
    BY DEF First
  <2>2. Pos(S \ {x}, a) + 1 <= Pos(S \ {x}, b)
    BY <1>1, <2>1, PosGrows
  <2>3. Pos(S, a) <= Pos(S \ {x}, a) + 1
    BY PosWithout
  <2>4. Pos(S, a) \in Nat
    BY Counts
  <2>5. S \ {x} \in SUBSET Ids
    OBVIOUS
  <2>6. Pos(S \ {x}, a) \in Nat /\ Pos(S \ {x}, b) \in Nat
    BY <2>5, Counts
  <2> QED BY <2>1, <2>2, <2>3, <2>4, <2>6
<1>2. New \subseteq Int
  <2>1. New \subseteq S
    BY DEF First
  <2> QED BY <2>1, IdsAre
<1>3. \A a, b \in New : a = b
  <2> SUFFICES ASSUME NEW a \in New, NEW b \in New PROVE a = b
    OBVIOUS
  <2>1. a \in Int /\ b \in Int
    BY <1>2
  <2>2. ~(a < b) /\ ~(b < a)
    BY <1>1
  <2> QED BY <2>1, <2>2
<1> QED BY <1>3

\* There is a member at every place up to the last.
LEMMA SomeoneAt ==
    ASSUME NEW S \in SUBSET Ids, NEW m \in Nat, m < Cardinality(S)
    PROVE  \E p \in S : Pos(S, p) = m + 1
<1> DEFINE Late == {p \in S : Pos(S, p) > m}
<1>1. \A p : Pos(S, p) \in Nat /\ IsFiniteSet(Before(S, p))
  BY Counts
<1>2. Cardinality(S) \in Nat /\ S \subseteq Nat /\ S # {}
  <2>1. Cardinality(S) \in Nat /\ Cardinality(S) # 0
    BY Counts, BoundsAssumption
  <2> QED BY <2>1, FS_EmptySet DEF Ids
<1>3. ASSUME NEW T \in SUBSET S, T # {}
      PROVE  /\ \E i \in T : \A j \in T : i <= j
             /\ \E i \in T : \A j \in T : j <= i
  <2>1. ASSUME NEW U \in SUBSET Nat, U # {} PROVE \E i \in U : \A j \in U : i <= j
    <3>1. IsWellFoundedOn(OpToRel(<, Nat), Nat)
      BY NatLessThanWellFounded
    <3>2. PICK i \in U : \A j \in U : ~ (<<j, i>> \in OpToRel(<, Nat))
      BY <2>1, <3>1, WFMin
    <3>3. \A j \in U : ~ (j < i)
      BY <3>2 DEF OpToRel
    <3> QED BY <3>3
  <2>2. \E i \in T : \A j \in T : i <= j
    BY <1>2, <1>3, <2>1
  <2> DEFINE V == {n \in Nat : \E j \in T : n = MaxId - j}
  <2>3. PICK n \in V : \A k \in V : n <= k
    <3>1. PICK j \in T : TRUE
      BY <1>3
    <3>2. MaxId - j \in V
      BY <3>1, BoundsAssumption DEF Ids
    <3> HIDE DEF V
    <3>3. V # {}
      BY <3>2
    <3>4. V \subseteq Nat
      BY DEF V
    <3> QED BY <2>1, <3>3, <3>4
  <2>4. PICK i \in T : n = MaxId - i
    OBVIOUS
  <2>5. ASSUME NEW j \in T PROVE j <= i
    <3>1. j \in Ids /\ i \in Ids
      OBVIOUS
    <3>2. MaxId - j \in V
      BY <3>1, BoundsAssumption DEF Ids
    <3>3. n <= MaxId - j
      BY <2>3, <3>2
    <3> QED BY <2>4, <3>1, <3>3, BoundsAssumption DEF Ids
  <2> QED BY <2>2, <2>5
<1>4. Late # {}
  <2>1. PICK i \in S : \A j \in S : j <= i
    BY <1>2, <1>3
  <2>2. Before(S, i) = S
    BY <2>1 DEF Before
  <2>3. Pos(S, i) = Cardinality(S)
    BY <2>2 DEF Pos
  <2> QED BY <1>2, <2>3
<1>5. PICK p \in Late : \A q \in Late : p <= q
  <2>1. Late \subseteq S
    OBVIOUS
  <2> HIDE DEF Late
  <2> QED BY <1>3, <1>4, <2>1
<1>6. p \in S /\ Pos(S, p) > m /\ p \in Nat
  BY <1>2
<1>7. ASSUME Pos(S, p) > m + 1 PROVE FALSE
  <2> DEFINE T == Before(S, p) \ {p}
  <2>1. IsFiniteSet(T) /\ Cardinality(T) = Pos(S, p) - 1
    <3>1. p \in Before(S, p)
      BY <1>6 DEF Before
    <3> QED BY <1>1, <3>1, FS_RemoveElement DEF Pos
  <2>2. T # {} /\ T \subseteq S
    <3>1. Cardinality(T) # 0
      BY <1>1, <1>7, <2>1
    <3>2. T \subseteq S
      BY DEF Before
    <3> HIDE DEF T
    <3> QED BY <2>1, <3>1, <3>2, FS_EmptySet
  <2>3. PICK q \in T : \A j \in T : j <= q
    <3> HIDE DEF T
    <3> QED BY <1>3, <2>2
  <2>4. q \in S /\ q \in Nat /\ q < p
    BY <1>2, <1>6 DEF Before
  <2>5. Before(S, q) = T
    <3>1. ASSUME NEW j \in S PROVE j <= q <=> (j <= p /\ j # p)
      <4>1. j \in Nat /\ p \in Nat /\ q \in Nat /\ q < p
        BY <1>2, <1>6, <2>4
      <4>2. j <= p /\ j # p => j <= q
        BY <2>3 DEF Before
      <4> QED BY <4>1, <4>2
    <3> QED BY <3>1 DEF Before
  <2>6. Pos(S, q) > m
    <3>1. Pos(S, q) = Pos(S, p) - 1
      BY <2>1, <2>5 DEF Pos
    <3> QED BY <1>1, <1>7, <3>1
  <2>7. q \in Late
    BY <2>4, <2>6
  <2> HIDE DEF Late
  <2> QED BY <1>5, <1>6, <2>4, <2>7
<1> QED BY <1>1, <1>6, <1>7

-----------------------------------------------------------------------------
(***************************************************************************)
(* The numbers of pages.                                                   *)
(***************************************************************************)

\* What division gives: the largest multiple that fits.
LEMMA Quotient ==
    ASSUME NEW a \in Nat, NEW b \in Nat \ {0}
    PROVE  /\ a \div b \in Nat
           /\ (a \div b) * b <= a /\ a < (a \div b) * b + b
  OBVIOUS

\* Multiples of a page size are in the order of their factors.
LEMMA Multiples ==
    ASSUME NEW i \in Int, NEW j \in Int, NEW b \in Nat, i <= j
    PROVE  i * b <= j * b /\ i * b \in Int /\ (i + 1) * b = i * b + b
  OBVIOUS

\* The pages of n products hold them all, and none of the pages is empty.
LEMMA PagesAre ==
    ASSUME NEW n \in Nat
    PROVE  /\ TotalPages(n) \in 0 .. n
           /\ n <= TotalPages(n) * PageSize
           /\ \A k \in 1 .. TotalPages(n) : (k - 1) * PageSize < n
<1> DEFINE k == TotalPages(n)
           P == PageSize
<1>1. P \in Nat \ {0} /\ n + P - 1 \in Nat
  BY PageSizeAssumption
<1>2. /\ k \in Nat /\ k * P <= n + P - 1 /\ n + P - 1 < k * P + P
      /\ k * P \in Int
  BY <1>1, Quotient, Multiples DEF TotalPages
<1> HIDE DEF k, P
<1>3. n <= k * P
  BY <1>1, <1>2
<1>4. ASSUME NEW i \in 1 .. k PROVE (i - 1) * P < n
  <2>1. (i - 1) * P <= (k - 1) * P /\ (k - 1 + 1) * P = (k - 1) * P + P
        /\ (k - 1) * P \in Int /\ (i - 1) * P \in Int
    BY <1>1, <1>2, Multiples
  <2>2. (k - 1) * P + P <= n + P - 1
    BY <1>2, <2>1
  <2> QED BY <1>1, <2>1, <2>2
<1>5. k <= n
  <2>1. CASE k = 0
    BY <2>1
  <2>2. CASE k # 0
    <3>1. (k - 1) * P < n
      BY <1>2, <1>4, <2>2
    <3>2. (k - 1) * 1 <= (k - 1) * P
      <4>1. k - 1 \in Nat
        BY <1>2, <2>2
      <4> HIDE DEF k
      <4> QED BY <1>1, <4>1
    <3>3. (k - 1) * P \in Int
      BY <1>1, <1>2, Multiples
    <3> QED BY <1>2, <3>1, <3>2, <3>3
  <2> QED BY <2>1, <2>2
<1> QED BY <1>2, <1>3, <1>4, <1>5 DEF k, P

\* A number that an int can hold stays what it is.
LEMMA WrapIs == ASSUME NEW n \in Nat, n < Half PROVE Wrap(n) = n
<1>1. Half \in Nat \ {0} /\ 2 * Half \in Nat \ {0}
  BY BoundsAssumption
<1>2. n + Half \in 0 .. 2 * Half - 1
  BY <1>1
<1>3. (n + Half) % (2 * Half) = n + Half
  <2>1. ASSUME NEW a \in Nat, NEW b \in Nat \ {0}, a < b PROVE a % b = a
    BY <2>1
  <2> QED BY <1>1, <1>2, <2>1
<1> QED BY <1>1, <1>3 DEF Wrap

\* The products of a category, and where they stand.
LEMMA Listing ==
    /\ \A c : InCategory(c) \subseteq Ids
    /\ \A p, c : Position(p, c) = Pos(InCategory(c), p)
    /\ \A c, k : UpTo(c, k) = First(InCategory(c), k * PageSize)
    /\ \A c : TotalItems(c) \in 0 .. MaxId
<1>1. \A c : InCategory(c) \subseteq Ids
  BY DEF InCategory
<1>2. \A p, c : Position(p, c) = Pos(InCategory(c), p)
  BY DEF Position, Pos, Before
<1>3. \A c, k : UpTo(c, k) = First(InCategory(c), k * PageSize)
  BY <1>2 DEF UpTo, First
<1>4. \A c : TotalItems(c) \in 0 .. MaxId
  BY <1>1, Counts DEF TotalItems
<1> QED BY <1>1, <1>2, <1>3, <1>4

\* A page that an int can number holds who stands on it.
LEMMA PageIs ==
    ASSUME NEW c, NEW k \in Int, k >= 1, (k - 1) * PageSize <= MaxId
    PROVE  /\ Page(c, k) = {p \in InCategory(c) :
                               /\ Pos(InCategory(c), p) > (k - 1) * PageSize
                               /\ Pos(InCategory(c), p) <= (k - 1) * PageSize + PageSize}
           /\ k * PageSize = (k - 1) * PageSize + PageSize
           /\ (k - 1) * PageSize \in Nat /\ k * PageSize \in Nat
<1>1. PageSize \in Nat \ {0} /\ MaxId \in Nat /\ Half \in Nat
  BY PageSizeAssumption, BoundsAssumption
<1>2. /\ (k - 1) * PageSize \in Int /\ 0 * PageSize <= (k - 1) * PageSize
      /\ (k - 1 + 1) * PageSize = (k - 1) * PageSize + PageSize
  BY <1>1, Multiples
<1>3. (k - 1) * PageSize \in Nat /\ (k - 1) * PageSize < Half
  BY <1>1, <1>2, RangeAssumption
<1>4. Offset(k) = (k - 1) * PageSize
  BY <1>3, WrapIs DEF Offset
<1>5. k * PageSize = (k - 1) * PageSize + PageSize
  BY <1>2
<1>6. k * PageSize \in Nat
  BY <1>1, <1>3, <1>5
<1> QED BY <1>3, <1>4, <1>5, <1>6, Listing DEF Page

-----------------------------------------------------------------------------
(***************************************************************************)
(* Types.                                                                  *)
(***************************************************************************)

\* The steps of the administrators.
Administer ==
    \/ \E c \in Categories : CreateProduct(c)
    \/ \E p \in Ids : \E c \in Categories : SaveProduct(p, c)
    \/ \E p \in Ids : DeleteProduct(p)

\* Each files a product anew; a new one gets the next id.
LEMMA Files ==
    ASSUME TypeOK, Administer
    PROVE  \E p \in Ids : \E c \in Categories \cup {"none"} :
              /\ File(p, c) /\ category[p] # c
              /\ \/ p <= lastId /\ lastId' = lastId
                 \/ p > lastId /\ lastId' = p /\ category[p] = "none"
<1>1. ASSUME NEW c \in Categories, CreateProduct(c)
      PROVE  /\ lastId' \in Ids /\ File(lastId', c) /\ category[lastId'] # c
             /\ lastId' > lastId /\ category[lastId'] = "none"
  <2>1. lastId \in Nat /\ lastId' = lastId + 1 /\ lastId < MaxId /\ File(lastId', c)
    BY <1>1, BoundsAssumption DEF CreateProduct, TypeOK
  <2>2. lastId' \in Ids /\ lastId' > lastId
    BY <2>1, BoundsAssumption DEF Ids
  <2>3. category[lastId'] = "none"
    BY <2>1, <2>2 DEF TypeOK
  <2> QED BY <2>1, <2>2, <2>3, NamesAssumption
<1>2. ASSUME NEW p \in Ids, category[p] # "none" PROVE p <= lastId
  BY <1>2 DEF TypeOK
<1>3. ASSUME NEW p \in Ids, NEW c \in Categories, SaveProduct(p, c)
      PROVE  /\ File(p, c) /\ category[p] # c /\ p <= lastId /\ lastId' = lastId
  BY <1>2, <1>3 DEF SaveProduct
<1>4. ASSUME NEW p \in Ids, DeleteProduct(p)
      PROVE  /\ File(p, "none") /\ category[p] # "none" /\ p <= lastId /\ lastId' = lastId
  BY <1>2, <1>4 DEF DeleteProduct
<1>5. CASE \E c \in Categories : CreateProduct(c)
  <2>1. PICK c \in Categories : CreateProduct(c)
    BY <1>5
  <2>2. PICK p \in Ids : p = lastId'
    BY <1>1, <2>1
  <2> QED BY <1>1, <2>1, <2>2 DEF CreateProduct
<1> QED BY <1>3, <1>4, <1>5 DEF Administer

\* No products yet, and no page asked for but the first.
LEMMA InitType == Init => TypeOK
<1> SUFFICES ASSUME Init PROVE TypeOK
  OBVIOUS
<1>1. MaxId \in Nat /\ MaxChanges \in Nat
  BY BoundsAssumption
<1> QED BY <1>1 DEF Init, TypeOK

\* No request and no change of a product leaves the types.
LEMMA NextType ==
    ASSUME TypeOK, [Next]_vars PROVE TypeOK'
<1>0. MaxId \in Nat /\ MaxChanges \in Nat
  BY BoundsAssumption
<1>1. ASSUME NEW c \in Categories \cup {"any"}, NEW k \in Int, NEW w \in BOOLEAN,
             Count(c, k, w), known' \in {known, lastId}, seen' \in {seen, {}},
             changes' \in {changes, 0}
      PROVE  TypeOK'
  <2>1. TotalPages(TotalItems(c)) \in 0 .. MaxId
    <3>1. TotalItems(c) \in 0 .. MaxId
      BY Listing
    <3>2. TotalItems(c) \in Nat
      BY <3>1, <1>0
    <3> DEFINE n == TotalItems(c)
    <3> HIDE DEF n
    <3>3. TotalPages(n) \in 0 .. n
      BY <3>2, PagesAre DEF n
    <3>4. n \in 0 .. MaxId
      BY <3>1 DEF n
    <3> QED BY <1>0, <3>3, <3>4 DEF n
  <2>2. request' \in [pc : {"read", "counted"}, cat : Categories \cup {"any"},
                     page : Int, pages : 0 .. MaxId, walks : BOOLEAN]
    BY <1>1, <2>1 DEF Count
  <2>3. UNCHANGED <<category, lastId, shown>> /\ steady' = TRUE
    BY <1>1 DEF Count
  <2>4. known' \in 0 .. MaxId /\ seen' \subseteq Ids /\ changes' \in 0 .. MaxChanges
    BY <1>0, <1>1 DEF TypeOK
  <2> QED BY <2>2, <2>3, <2>4 DEF TypeOK
<1>2. ASSUME NEW c \in Categories \cup {"any"}, OpenCategory(c) PROVE TypeOK'
  <2>1. /\ Count(c, 1, TRUE)
        /\ known' = lastId /\ seen' = {} /\ changes' = 0
    BY <1>2 DEF OpenCategory
  <2>2. 1 \in Int /\ TRUE \in BOOLEAN
    OBVIOUS
  <2> QED BY <1>1, <2>1, <2>2, Zenon
<1>3. ASSUME NextPage PROVE TypeOK'
  <2>1. /\ Count(request.cat, request.page + 1, request.walks)
        /\ known' = known /\ seen' = seen /\ changes' = changes
    BY <1>3 DEF NextPage
  <2>2. /\ request.cat \in Categories \cup {"any"} /\ request.page + 1 \in Int
        /\ request.walks \in BOOLEAN
    BY DEF TypeOK
  <2> QED BY <1>1, <2>1, <2>2
<1>4. ASSUME NEW k \in Addresses, TypeAddress(k) PROVE TypeOK'
  <2>1. k \in Int /\ request.cat \in Categories \cup {"any"}
    BY BoundsAssumption DEF TypeOK
  <2> QED BY <1>1, <1>4, <2>1 DEF TypeAddress
<1>5. ASSUME Render PROVE TypeOK'
  <2>1. Page(request.cat, request.page) \subseteq Ids
    BY Listing DEF Page
  <2>2. shown' \subseteq Ids /\ seen' \subseteq Ids
    BY <1>5, <2>1 DEF Render, TypeOK
  <2>3. request' \in [pc : {"read", "counted"}, cat : Categories \cup {"any"},
                     page : Int, pages : 0 .. MaxId, walks : BOOLEAN]
    BY <1>5 DEF Render, TypeOK
  <2>4. UNCHANGED <<category, lastId, known, changes, steady>>
    BY <1>5 DEF Render
  <2> QED BY <2>2, <2>3, <2>4 DEF TypeOK
<1>6. ASSUME Administer PROVE TypeOK'
  <2>1. PICK p \in Ids, c \in Categories \cup {"none"} :
            /\ File(p, c)
            /\ \/ p <= lastId /\ lastId' = lastId
               \/ p > lastId /\ lastId' = p /\ category[p] = "none"
    BY <1>6, Files
  <2>2. category' = [category EXCEPT ![p] = c]
    BY <2>1 DEF File
  <2>3. lastId' \in 0 .. MaxId /\ lastId <= lastId' /\ p <= lastId'
    BY <1>0, <2>1, IdsAre DEF TypeOK, Ids
  <2>4. changes' \in 0 .. MaxChanges
    BY <1>0, <2>1 DEF File, TypeOK
  <2>5. \A q \in Ids : category'[q] # "none" => q <= lastId'
    <3>1. ASSUME NEW q \in Ids, category'[q] # "none", q # p PROVE q <= lastId'
      <4>1. category[q] # "none"
        BY <2>2, <3>1 DEF TypeOK
      <4>2. q <= lastId /\ lastId \in Int /\ lastId' \in Int /\ q \in Int
        BY <4>1, <2>3, <1>0, IdsAre DEF TypeOK
      <4> QED BY <2>3, <4>2
    <3> QED BY <2>3, <3>1
  <2>6. UNCHANGED <<request, shown, known, seen>> /\ steady' = FALSE
    BY <2>1 DEF File
  <2>7. category' \in [Ids -> Categories \cup {"none"}]
    BY <2>2 DEF TypeOK
  <2> QED BY <2>3, <2>4, <2>5, <2>6, <2>7 DEF TypeOK
<1>7. CASE UNCHANGED vars
  BY <1>7 DEF vars, TypeOK
<1> QED
  BY <1>2, <1>3, <1>4, <1>5, <1>6, <1>7 DEF Next, Administer

\* The variables of the product pages keep their types: ids and pages stay in range.
THEOREM TypeCorrect == Spec => []TypeOK
  BY InitType, NextType, PTL DEF Spec

-----------------------------------------------------------------------------
(***************************************************************************)
(* The page links.                                                         *)
(***************************************************************************)

\* Links and page stay those of the count until something changes.
LEMMA NextCounted ==
    ASSUME TypeOK, CountKept, [Next]_vars PROVE CountKept'
<1>1. ASSUME NEW c, NEW k, NEW w, Count(c, k, w) PROVE CountKept'
  BY <1>1 DEF Count, CountKept, TotalItems, InCategory
<1>2. ASSUME Render PROVE CountKept'
  <2>1. /\ UNCHANGED <<category, steady>>
        /\ request'.cat = request.cat /\ request'.page = request.page
        /\ request'.pages = request.pages
        /\ shown' = Page(request.cat, request.page)
    BY <1>2 DEF Render, TypeOK
  <2>2. \A c : InCategory(c)' = InCategory(c)
    BY <2>1 DEF InCategory
  <2>3. /\ TotalItems(request.cat)' = TotalItems(request.cat)
        /\ Page(request.cat, request.page)' = Page(request.cat, request.page)
    BY <2>1 DEF TotalItems, Page, Position, InCategory
  <2> QED BY <2>1, <2>3 DEF CountKept
<1>3. ASSUME Administer PROVE CountKept'
  <2>1. steady' = FALSE
    BY <1>3 DEF Administer, CreateProduct, SaveProduct, DeleteProduct, File
  <2> QED BY <2>1 DEF CountKept
<1>4. CASE UNCHANGED vars
  BY <1>4 DEF vars, CountKept, TotalItems, Page, Position, InCategory
<1> QED
  BY <1>1, <1>2, <1>3, <1>4
     DEF Next, Administer, OpenCategory, NextPage, TypeAddress

\* The numbers on the links are those of pages with products.
LEMMA CountInRange ==
    ASSUME NEW c
    PROVE  \A k \in 1 .. TotalPages(TotalItems(c)) : (k - 1) * PageSize <= MaxId
<1> DEFINE n == TotalItems(c)
<1>1. MaxId \in Nat /\ PageSize \in Nat
  BY BoundsAssumption, PageSizeAssumption
<1>2. n \in Nat /\ n <= MaxId
  BY <1>1, Listing
<1> HIDE DEF n
<1>3. TotalPages(n) \in Nat /\ \A k \in 1 .. TotalPages(n) : (k - 1) * PageSize < n
  BY <1>2, PagesAre
<1>4. ASSUME NEW k \in 1 .. TotalPages(n) PROVE (k - 1) * PageSize <= MaxId
  <2>1. k - 1 \in Int /\ (k - 1) * PageSize < n
    BY <1>3
  <2>2. (k - 1) * PageSize \in Int
    BY <1>1, <2>1, Multiples
  <2> QED BY <1>1, <1>2, <2>1, <2>2
<1> QED BY <1>4 DEF n

\* No step offers or follows a link whose offset an int cannot hold.
LEMMA NextInRange ==
    ASSUME TypeOK, LinksInRange, [Next]_vars PROVE LinksInRange'
<1>1. ASSUME NEW c, NEW k, NEW w, Count(c, k, w),
             w => k >= 1 /\ (k - 1) * PageSize <= MaxId
      PROVE  LinksInRange'
  <2>1. /\ request'.pages = TotalPages(TotalItems(c))
        /\ request'.page = k /\ request'.walks = w
    BY <1>1 DEF Count
  <2> QED BY <1>1, <2>1, CountInRange DEF LinksInRange
<1>2. ASSUME NEW c, OpenCategory(c) PROVE LinksInRange'
  <2>1. 1 >= 1 /\ (1 - 1) * PageSize <= MaxId
    BY BoundsAssumption, PageSizeAssumption
  <2>2. Count(c, 1, TRUE)
    BY <1>2 DEF OpenCategory
  <2>3. /\ request'.pages = TotalPages(TotalItems(c)) /\ request'.page = 1
    BY <2>2 DEF Count
  <2> QED BY <2>1, <2>3, CountInRange DEF LinksInRange
<1>3. ASSUME NextPage PROVE LinksInRange'
  <2> DEFINE k == request.page
  <2>1. /\ k \in Int /\ request.pages \in Nat /\ k < request.pages
        /\ Count(request.cat, k + 1, request.walks)
    BY <1>3, BoundsAssumption DEF NextPage, TypeOK
  <2>2. ASSUME request.walks PROVE k + 1 >= 1 /\ (k + 1 - 1) * PageSize <= MaxId
    <3>1. k >= 1
      BY <2>2 DEF LinksInRange
    <3>2. k + 1 \in 1 .. request.pages
      BY <2>1, <3>1
    <3> QED BY <2>1, <3>1, <3>2 DEF LinksInRange
  <2> QED BY <1>1, <2>1, <2>2
<1>4. ASSUME NEW k, TypeAddress(k) PROVE LinksInRange'
  BY <1>1, <1>4 DEF TypeAddress
<1>5. ASSUME Render \/ Administer \/ UNCHANGED vars PROVE LinksInRange'
  <2>1. /\ request'.pages = request.pages /\ request'.page = request.page
        /\ request'.walks = request.walks
    BY <1>5 DEF Render, Administer, CreateProduct, SaveProduct, DeleteProduct, File,
                vars, TypeOK
  <2> QED BY <2>1 DEF LinksInRange
<1> QED BY <1>2, <1>3, <1>4, <1>5 DEF Next, Administer

\* An empty store has no links.
LEMMA InitLinks == Init => CountKept /\ LinksInRange
<1> SUFFICES ASSUME Init PROVE CountKept /\ LinksInRange
  OBVIOUS
<1>1. \A c : InCategory(c) = {}
  BY DEF Init, InCategory
<1>2. \A c : TotalItems(c) = 0
  BY <1>1, FS_EmptySet DEF TotalItems
<1>3. TotalPages(0) = 0
  BY PagesAre
<1>4. \A c, k : Page(c, k) = {}
  BY <1>1 DEF Page
<1>5. /\ request.pages = 0 /\ request.page = 1 /\ shown = {}
  BY DEF Init
<1>6. (1 - 1) * PageSize <= MaxId
  BY BoundsAssumption, PageSizeAssumption
<1>7. CountKept
  BY <1>2, <1>3, <1>4, <1>5 DEF CountKept
<1>8. LinksInRange
  BY <1>5, <1>6 DEF LinksInRange
<1> QED BY <1>7, <1>8

\* Rounding up gives a page to every product and products to every page.
LEMMA LinksLead ==
    ASSUME TypeOK, CountKept, LinksInRange PROVE LinksFit
<1> SUFFICES ASSUME request.pc = "read", steady, request.walks
             PROVE  /\ request.page \in 1 .. request.pages => shown # {}
                    /\ InCategory(request.cat) = UpTo(request.cat, request.pages)
  BY DEF LinksFit
<1> DEFINE c == request.cat
           k == request.page
           S == InCategory(c)
           n == TotalItems(c)
<1>1. /\ request.pages = TotalPages(n) /\ shown = Page(c, k)
      /\ k \in Int /\ k >= 1 /\ (k - 1) * PageSize <= MaxId
  BY DEF CountKept, LinksInRange, TypeOK
<1>2. S \in SUBSET Ids /\ n = Cardinality(S) /\ n \in Nat
  BY Listing, BoundsAssumption DEF TotalItems
<1>3. PageSize \in Nat \ {0} /\ MaxId \in Nat
  BY PageSizeAssumption, BoundsAssumption
<1>4. UpTo(c, TotalPages(n)) = First(S, TotalPages(n) * PageSize)
  BY Listing
<1> HIDE DEF c, k, S, n
<1>5. /\ n <= TotalPages(n) * PageSize
      /\ \A i \in 1 .. TotalPages(n) : (i - 1) * PageSize < n
      /\ TotalPages(n) \in Int /\ TotalPages(n) * PageSize \in Int
  BY <1>2, <1>3, PagesAre, Multiples
<1>6. ASSUME k \in 1 .. TotalPages(n) PROVE Page(c, k) # {}
  <2> DEFINE m == (k - 1) * PageSize
  <2>1. m \in Nat /\ m < n
        /\ Page(c, k) = {p \in S : Pos(S, p) > m /\ Pos(S, p) <= m + PageSize}
    BY <1>1, <1>5, <1>6, PageIs DEF S
  <2> HIDE DEF m
  <2>2. PICK p \in S : Pos(S, p) = m + 1
    BY <1>2, <2>1, SomeoneAt
  <2>3. Pos(S, p) > m /\ Pos(S, p) <= m + PageSize
    BY <1>3, <2>1, <2>2
  <2> QED BY <2>1, <2>3
<1>7. S = First(S, TotalPages(n) * PageSize)
  <2>1. ASSUME NEW p \in S PROVE Pos(S, p) <= TotalPages(n) * PageSize
    <3>1. Pos(S, p) \in 0 .. Cardinality(S)
      BY <1>2, Counts
    <3> QED BY <1>2, <1>5, <3>1
  <2> QED BY <2>1 DEF First
<1> QED BY <1>1, <1>4, <1>6, <1>7 DEF S, c, k

\* Unless something changes between the count and the query of a page, no link leads
\* to an empty page, and none is missing after the last.
THEOREM LinksAlwaysFit == Spec => []LinksFit
<1>1. Init => TypeOK /\ CountKept /\ LinksInRange
  BY InitType, InitLinks
<1>2. TypeOK /\ CountKept /\ LinksInRange /\ [Next]_vars
          => (TypeOK /\ CountKept /\ LinksInRange)'
  BY NextType, NextCounted, NextInRange
<1>3. TypeOK /\ CountKept /\ LinksInRange => LinksFit
  BY LinksLead
<1> QED BY <1>1, <1>2, <1>3, PTL DEF Spec

-----------------------------------------------------------------------------
(***************************************************************************)
(* What a customer misses.                                                 *)
(***************************************************************************)

\* To file a product anew takes it from a category, or adds it to one, or changes
\* nothing there; what is counted as a change of the category is one.
LEMMA FileMoves ==
    ASSUME TypeOK, NEW p \in Ids, NEW c \in Categories \cup {"none"}, File(p, c),
           category[p] # c, NEW k \in Categories \cup {"any"}, request.cat = k
    PROVE  \/ InCategory(k)' = InCategory(k) /\ changes <= changes'
           \/ /\ \/ InCategory(k)' = InCategory(k) \ {p}
                 \/ InCategory(k)' = InCategory(k) \cup {p}
              /\ changes' = IF p <= lastId THEN changes + 1 ELSE changes
<1> DEFINE touched == {category[p], c} \cap (IF k = "any" THEN {"none"} ELSE {k})
<1>1. /\ category' = [category EXCEPT ![p] = c]
      /\ changes' = IF touched # {} /\ p <= lastId THEN changes + 1 ELSE changes
      /\ changes \in Nat
  BY BoundsAssumption DEF File, TypeOK
<1>2. /\ \A q \in Ids \ {p} : category'[q] = category[q]
      /\ category'[p] = c
  BY <1>1 DEF TypeOK
<1>3. \A q \in Ids : /\ q \in InCategory(k) <=> category[q] # "none" /\ k \in {"any", category[q]}
                     /\ q \in InCategory(k)' <=> category'[q] # "none" /\ k \in {"any", category'[q]}
  BY DEF InCategory
<1>4. InCategory(k) \subseteq Ids /\ InCategory(k)' \subseteq Ids
  BY DEF InCategory
<1>5. category[p] \in Categories \cup {"none"} /\ "any" # "none" /\ k # "none"
      /\ category[p] # "any" /\ c # "any"
  BY NamesAssumption DEF TypeOK
<1>6. \A q \in Ids \ {p} : q \in InCategory(k)' <=> q \in InCategory(k)
  BY <1>2, <1>3
<1>7. CASE touched = {}
  <2>1. p \in InCategory(k)' <=> p \in InCategory(k)
    BY <1>2, <1>3, <1>5, <1>7
  <2>2. InCategory(k)' = InCategory(k)
    BY <1>4, <1>6, <2>1
  <2> QED BY <1>1, <1>7, <2>2
<1>8. CASE touched # {}
  <2>1. \/ InCategory(k)' = InCategory(k) \ {p}
        \/ InCategory(k)' = InCategory(k) \cup {p}
    BY <1>4, <1>6
  <2> QED BY <1>1, <1>8, <2>1
<1> QED BY <1>7, <1>8

\* What is missed is what is not shown of the first places, as far as it was there
\* when the walk began.
LEMMA MissedIs ==
    ASSUME TypeOK
    PROVE  \A k : /\ Missed(k) = {p \in First(InCategory(request.cat), k * PageSize) :
                                     p \notin seen /\ p <= known}
                  /\ Missed(k) \subseteq Ids /\ IsFiniteSet(Missed(k))
                  /\ Cardinality(Missed(k)) \in Nat
<1>1. ASSUME NEW k
      PROVE  Missed(k) = {p \in First(InCategory(request.cat), k * PageSize) :
                             p \notin seen /\ p <= known}
  BY Listing DEF Missed
<1>2. ASSUME NEW k
      PROVE  /\ Missed(k) \subseteq Ids /\ IsFiniteSet(Missed(k))
             /\ Cardinality(Missed(k)) \in Nat
  <2>1. Missed(k) \subseteq Ids
    BY Listing DEF Missed, UpTo
  <2>2. IsFiniteSet(Missed(k))
    BY <2>1, Counts
  <2> QED BY <2>1, <2>2, FS_CardinalityType
<1> QED BY <1>1, <1>2

\* Missed after a step, in terms of the listing after it.
LEMMA MissedNext ==
    \A k : Missed(k)' = {p \in First(InCategory(request.cat)', k * PageSize) :
                            p \notin seen' /\ p <= known'}
<1>1. \A k : UpTo(request.cat, k)' = First(InCategory(request.cat)', k * PageSize)
  BY DEF UpTo, Position, First, Pos, Before
<1> QED BY <1>1 DEF Missed

\* A change makes a customer miss one product more, a new product none.
LEMMA MissedFiled ==
    ASSUME TypeOK, TypeOK', MissedInv, LinksInRange, Administer
    PROVE  MissedInv'
<1>1. PICK p \in Ids, c \in Categories \cup {"none"} :
          /\ File(p, c) /\ category[p] # c
          /\ \/ p <= lastId /\ lastId' = lastId
             \/ p > lastId /\ lastId' = p /\ category[p] = "none"
  BY Files
<1>2. UNCHANGED <<request, known, seen>>
  BY <1>1 DEF File
<1>3. /\ MaxId \in Nat /\ PageSize \in Nat \ {0} /\ changes \in Nat /\ changes' \in Nat
      /\ lastId \in Nat /\ known \in Nat /\ p \in Nat /\ known <= lastId
  BY BoundsAssumption, PageSizeAssumption, IdsAre DEF TypeOK, MissedInv
<1>4. known' <= lastId'
  BY <1>1, <1>2, <1>3
<1>5. ASSUME request.walks PROVE Cardinality(Missed(Through))' <= changes'
  <2>1. PICK k \in Int : k = Through
    BY DEF Through, TypeOK
  <2>2. PICK cat \in Categories \cup {"any"} : cat = request.cat
    BY DEF TypeOK
  <2>3. PICK S \in SUBSET Ids : S = InCategory(cat)
    BY Listing
  <2>4. PICK T : T = InCategory(cat)'
    OBVIOUS
  <2>5. PICK m \in Nat : m = k * PageSize
    <3>1. k >= 0
      BY <1>5, <2>1 DEF LinksInRange, Through, TypeOK
    <3> QED BY <1>3, <3>1
  <2>6. Through' = k
    BY <1>2, <2>1 DEF Through
  <2> DEFINE A == {q \in First(S, m) : q \notin seen /\ q <= known}
             B == {q \in First(T, m) : q \notin seen /\ q <= known}
  <2>7. Missed(Through) = A
    BY <2>1, <2>2, <2>3, <2>5, MissedIs
  <2>8. Missed(Through)' = B
    <3>1. Missed(k)' = {q \in First(InCategory(request.cat)', k * PageSize) :
                            q \notin seen' /\ q <= known'}
      BY MissedNext
    <3> QED BY <1>2, <2>2, <2>4, <2>5, <2>6, <3>1
  <2>9. IsFiniteSet(A) /\ Cardinality(A) <= changes
    BY <1>5, <2>7, MissedIs DEF MissedInv
  <2>10. \/ T = S /\ changes <= changes'
         \/ /\ T = S \ {p} \/ T = S \cup {p}
            /\ changes' = IF p <= lastId THEN changes + 1 ELSE changes
    BY <1>1, <2>2, <2>3, <2>4, FileMoves
  <2>11. CASE p > lastId
    <3>1. p \notin S
      BY <1>1, <1>3, <2>3, <2>11 DEF InCategory
    <3>2. T = S \/ T = S \cup {p}
      BY <2>10, <3>1
    <3>3. First(T, m) \subseteq First(S, m) \cup {p}
      BY <3>2, FirstJoined
    <3>4. B \subseteq A
      BY <1>3, <2>11, <3>3
    <3>5. Cardinality(B) <= Cardinality(A) /\ Cardinality(A) \in Nat
          /\ Cardinality(B) \in Nat
      <4> HIDE DEF A, B
      <4>1. IsFiniteSet(B) /\ Cardinality(B) <= Cardinality(A)
        BY <2>9, <3>4, FS_Subset
      <4> QED BY <2>9, <4>1, FS_CardinalityType
    <3>6. changes <= changes'
      BY <1>3, <2>10
    <3> HIDE DEF A, B
    <3> QED BY <1>3, <2>8, <2>9, <3>5, <3>6
  <2>12. CASE ~(p > lastId) /\ T # S
    <3>1. \E y : First(T, m) \subseteq First(S, m) \cup {y}
      BY <2>10, <2>12, FirstJoined, FirstLeft
    <3>2. PICK y : B \subseteq A \cup {y}
      BY <3>1
    <3>3. changes' = changes + 1
      BY <1>3, <2>10, <2>12
    <3> HIDE DEF A, B
    <3>4. /\ Cardinality(B) \in Nat /\ Cardinality(A) \in Nat
          /\ Cardinality(B) <= Cardinality(A) + 1
      BY <2>9, <3>2, OneMore
    <3> QED BY <1>3, <2>8, <2>9, <3>3, <3>4
  <2>13. CASE T = S
    <3>1. A = B
      BY <2>13
    <3>2. changes <= changes'
      BY <1>3, <2>10
    <3>3. Cardinality(A) \in Nat
      BY <2>9, FS_CardinalityType
    <3> HIDE DEF A, B
    <3> QED BY <1>3, <2>8, <2>9, <3>1, <3>2, <3>3
  <2> QED BY <2>11, <2>12, <2>13
<1> QED BY <1>2, <1>4, <1>5 DEF MissedInv

\* A page shown leaves unseen what was missed before it.
LEMMA MissedShown ==
    ASSUME TypeOK, TypeOK', MissedInv, LinksInRange, Render, request.walks
    PROVE  Cardinality(Missed(request.page)') <= changes
<1>1. /\ request.pc = "counted" /\ request'.cat = request.cat
      /\ request'.page = request.page
      /\ seen' = seen \cup Page(request.cat, request.page)
      /\ UNCHANGED <<category, known>>
  BY DEF Render, TypeOK
<1>2. PICK k \in Int : k = request.page
  BY DEF TypeOK
<1>3. PICK S \in SUBSET Ids : S = InCategory(request.cat) /\ S = InCategory(request.cat)'
  <2>1. InCategory(request.cat)' = InCategory(request.cat)
    BY <1>1 DEF InCategory
  <2> QED BY <2>1, Listing
<1>4. k >= 1 /\ (k - 1) * PageSize <= MaxId
  BY <1>2 DEF LinksInRange
<1> DEFINE m == (k - 1) * PageSize
<1>5. /\ Page(request.cat, k) = {p \in S : Pos(S, p) > m /\ Pos(S, p) <= m + PageSize}
      /\ k * PageSize = m + PageSize /\ m \in Nat
  BY <1>3, <1>4, PageIs
<1>6. Missed(k - 1) = {p \in First(S, m) : p \notin seen /\ p <= known}
  BY <1>3, MissedIs
<1>7. Missed(k)' = {p \in First(S, m + PageSize) : p \notin seen' /\ p <= known}
  <2>1. Missed(k)' = {p \in First(InCategory(request.cat)', k * PageSize) :
                         p \notin seen' /\ p <= known'}
    BY MissedNext
  <2> QED BY <1>1, <1>3, <1>5, <2>1
<1> HIDE DEF m
<1>8. Missed(k)' \subseteq Missed(k - 1)
  <2> SUFFICES ASSUME NEW p \in Missed(k)' PROVE p \in Missed(k - 1)
    OBVIOUS
  <2>1. /\ p \in S /\ Pos(S, p) <= m + PageSize /\ p \notin seen /\ p <= known
        /\ ~(Pos(S, p) > m)
    BY <1>1, <1>2, <1>5, <1>7 DEF First
  <2>2. Pos(S, p) \in Nat
    BY Counts
  <2> QED BY <1>5, <1>6, <2>1, <2>2 DEF First
<1>9. Cardinality(Missed(k - 1)) <= changes
  BY <1>1, <1>2 DEF MissedInv, Through
<1>10. IsFiniteSet(Missed(k - 1)) /\ Cardinality(Missed(k - 1)) \in Nat
  BY MissedIs
<1>11. /\ IsFiniteSet(Missed(k)') /\ Cardinality(Missed(k)') \in Nat
       /\ Cardinality(Missed(k)') <= Cardinality(Missed(k - 1))
  <2> DEFINE X == Missed(k)'
             Y == Missed(k - 1)
  <2>1. X \subseteq Y /\ IsFiniteSet(Y)
    BY <1>8, <1>10
  <2> HIDE DEF X, Y
  <2>2. IsFiniteSet(X) /\ Cardinality(X) <= Cardinality(Y)
    BY <2>1, FS_Subset
  <2> QED BY <2>2, FS_CardinalityType DEF X, Y
<1>12. changes \in Nat
  BY BoundsAssumption DEF TypeOK
<1> QED BY <1>1, <1>2, <1>9, <1>10, <1>11, <1>12

\* A change adds at most one to what a walk has missed; a page shown adds nothing.
LEMMA NextMissed ==
    ASSUME TypeOK, TypeOK', LinksInRange, MissedInv, [Next]_vars PROVE MissedInv'
<1>0. known \in Nat /\ lastId \in Nat /\ changes \in Nat
  BY BoundsAssumption DEF TypeOK
<1>1. ASSUME NEW c, OpenCategory(c) PROVE MissedInv'
  <2>1. /\ request'.pc = "counted" /\ request'.page = 1 /\ request'.cat = c
        /\ known' = lastId /\ lastId' = lastId /\ changes' = 0
    BY <1>1 DEF OpenCategory, Count
  <2>2. Through' = 0 /\ 0 * PageSize = 0
    BY <2>1, PageSizeAssumption DEF Through
  <2>3. Missed(0)' = {}
    <3>1. Missed(0)' \subseteq First(InCategory(request.cat)', 0)
      BY <2>2, MissedNext
    <3>2. PICK S \in SUBSET Ids : S = InCategory(request.cat)'
      BY DEF InCategory
    <3>3. First(S, 0) = {}
      <4> SUFFICES ASSUME NEW p \in S, Pos(S, p) <= 0 PROVE FALSE
        BY DEF First
      <4>1. Pos(S, p) \in Nat
        BY Counts
      <4> QED BY <4>1, PosOne
    <3> QED BY <3>1, <3>2, <3>3
  <2>4. Cardinality(Missed(Through)') = 0
    BY <2>2, <2>3, FS_EmptySet
  <2> QED BY <1>0, <2>1, <2>4 DEF MissedInv
<1>2. ASSUME NextPage PROVE MissedInv'
  <2>1. /\ request.pc = "read" /\ request'.pc = "counted"
        /\ request'.page = request.page + 1 /\ request'.cat = request.cat
        /\ request'.walks = request.walks
        /\ UNCHANGED <<category, lastId, known, seen, changes>>
    BY <1>2 DEF NextPage, Count
  <2>2. PICK k \in Int : k = request.page
    BY DEF TypeOK
  <2>3. Through = k /\ Through' = k
    BY <2>1, <2>2 DEF Through
  <2>4. InCategory(request.cat)' = InCategory(request.cat)
    BY <2>1 DEF InCategory
  <2>5. Missed(k)' = Missed(k)
    BY <2>1, <2>4, MissedNext, MissedIs
  <2> QED BY <2>1, <2>3, <2>5 DEF MissedInv
<1>3. ASSUME NEW k, TypeAddress(k) PROVE MissedInv'
  <2>1. request'.walks = FALSE /\ known' = lastId /\ lastId' = lastId
    BY <1>3 DEF TypeAddress, Count
  <2> QED BY <1>0, <2>1 DEF MissedInv
<1>4. ASSUME Render PROVE MissedInv'
  <2>1. /\ request'.pc = "read" /\ request'.page = request.page
        /\ request'.walks = request.walks
        /\ UNCHANGED <<lastId, known, changes>>
    BY <1>4 DEF Render, TypeOK
  <2>2. PICK k \in Int : k = request.page
    BY DEF TypeOK
  <2>3. Through' = k
    BY <2>1, <2>2 DEF Through
  <2>4. request.walks => Cardinality(Missed(k)') <= changes
    <3>1. Missed(request.page)' = Missed(k)'
      BY <2>1, <2>2
    <3> QED BY <1>4, <3>1, MissedShown
  <2> QED BY <2>1, <2>3, <2>4 DEF MissedInv
<1>5. ASSUME Administer PROVE MissedInv'
  BY <1>5, MissedFiled
<1>6. CASE UNCHANGED vars
  <2>1. /\ Through' = Through
        /\ UNCHANGED <<request, known, lastId, seen, changes>>
        /\ InCategory(request.cat)' = InCategory(request.cat)
    BY <1>6 DEF vars, Through, InCategory
  <2>2. Missed(Through)' = Missed(Through)
    BY <2>1, MissedNext, MissedIs
  <2> QED BY <2>1, <2>2 DEF MissedInv
<1> QED BY <1>1, <1>2, <1>3, <1>4, <1>5, <1>6 DEF Next, Administer

\* Nothing is missed before anything is there.
LEMMA InitMissed == Init => MissedInv
<1> SUFFICES ASSUME Init PROVE MissedInv
  OBVIOUS
<1>1. InCategory(request.cat) = {}
  BY DEF Init, InCategory
<1>2. Missed(Through) = {}
  BY <1>1 DEF Missed, UpTo
<1>3. known = 0 /\ lastId = 0 /\ changes = 0
  BY DEF Init
<1> QED BY <1>2, <1>3, FS_EmptySet DEF MissedInv

\* Who goes through the pages of a category misses no more of the products there
\* were than left it or were moved into it meanwhile, whoever adds products.
THEOREM FewAreMissed == Spec => FewMissed
<1>1. Init => TypeOK /\ CountKept /\ LinksInRange /\ MissedInv
  BY InitType, InitLinks, InitMissed
<1>2. TypeOK /\ CountKept /\ LinksInRange /\ MissedInv /\ [Next]_vars
          => (TypeOK /\ CountKept /\ LinksInRange /\ MissedInv)'
  BY NextType, NextCounted, NextInRange, NextMissed
<1>3. TypeOK /\ TypeOK' /\ LinksInRange /\ MissedInv /\ [Next]_vars
          => [Render /\ request.walks
                 => Cardinality(Missed(request.page)') <= changes]_vars
  BY MissedShown
<1> QED BY <1>1, <1>2, <1>3, PTL DEF Spec, FewMissed
=============================================================================
