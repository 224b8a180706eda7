-------------------------- MODULE PortalCartProofs --------------------------
(***************************************************************************)
(* Theorems about PortalCart, for any products, calls and number of clicks.*)
(***************************************************************************)
EXTENDS PortalCart, OrderLinesProofs

-----------------------------------------------------------------------------
(***************************************************************************)
(* Types.                                                                  *)
(***************************************************************************)

\* The lines of a cart are lines in the sense of OrderLines.
LEMMA LinesType ==
    ASSUME NEW lines \in Seq(CartItem)
    PROVE  /\ lines \in Seq([product : Products, qty : Int])
           /\ Len(lines) \in Nat /\ DOMAIN lines = 1 .. Len(lines)
           /\ \A i \in DOMAIN lines : lines[i] \in CartItem
           /\ \A p : Demand(lines, p) \in Nat
<1>1. lines \in Seq([product : Products, qty : Int])
  <2>1. CartItem \subseteq [product : Products, qty : Int]
    BY DEF CartItem
  <2> QED BY <2>1, SeqMonotonic
<1>2. Len(lines) \in Nat /\ DOMAIN lines = 1 .. Len(lines)
  BY LenProperties
<1>3. \A i \in DOMAIN lines : lines[i] \in CartItem
  BY <1>2, ElementOfSeq
<1>4. \A i \in DOMAIN lines : lines[i].qty \in Nat
  BY <1>3 DEF CartItem
<1>5. \A p : Demand(lines, p) \in Nat
  BY <1>1, <1>4, DemandType
<1> QED BY <1>1, <1>2, <1>3, <1>5

\* What Find finds.
LEMMA FindIs ==
    ASSUME cart \in Seq(CartItem), NEW p
    PROVE  /\ Find(p) = 0 <=> Places(cart, p) = {}
           /\ Find(p) # 0 => /\ Find(p) \in DOMAIN cart
                             /\ Find(p) \in Places(cart, p)
                             /\ cart[Find(p)].product = p
                             /\ cart[Find(p)].qty \in Nat \ {0}
<1> DEFINE S == Places(cart, p)
<1>1. /\ DOMAIN cart = 1 .. Len(cart) /\ Len(cart) \in Nat
      /\ \A i \in DOMAIN cart : cart[i] \in CartItem
  BY LinesType
<1>2. S \subseteq DOMAIN cart /\ \A i \in S : cart[i].product = p
  BY DEF Places
<1>3. CASE S = {}
  BY <1>3 DEF Find
<1>4. CASE S # {}
  <2>1. S \in SUBSET Nat
    BY <1>1, <1>2
  <2>2. \E i \in S : \A j \in S : i <= j
    <3> HIDE DEF S
    <3> QED BY <1>4, <2>1, LeastNatural
  <2>3. Find(p) = CHOOSE i \in S : \A j \in S : i <= j
    BY <1>4 DEF Find
  <2>4. Find(p) \in S
    <3> HIDE DEF S
    <3> QED BY <2>2, <2>3
  <2> QED BY <1>1, <1>2, <1>4, <2>4 DEF CartItem
<1> QED BY <1>3, <1>4

\* An empty cart, and nobody adding or checking out.
LEMMA InitCart == Init => CartInv
<1> SUFFICES ASSUME Init PROVE CartInv
  OBVIOUS
<1>1. <<>> \in Seq(CartItem)
  BY EmptySeq
<1>2. Nothing \in [Products -> Nat]
  BY DEF Nothing
<1> QED BY <1>1, <1>2 DEF Init, CartInv, TypeOK, FoundStays, Free, Tally

\* Only those who had found a line that is taken out lose it, and no line found is gone.
LEMMA ForgetTypes ==
    ASSUME TypeOK, NEW P, Forget(P)
    PROVE  /\ adding' \in [Users -> {<<>>} \cup (Products \X {"none", "line", "stray"})]
           /\ \A u \in Users :
                 \/ adding'[u] = adding[u]
                 \/ /\ adding[u] # <<>> /\ adding[u][1] \in P /\ adding[u][2] = "line"
                    /\ adding'[u] = <<adding[u][1], "stray">>
           /\ \A u \in Users : adding'[u] # <<>> /\ adding'[u][2] = "line" =>
                  adding'[u] = adding[u] /\ adding[u][1] \notin P
  BY DEF TypeOK, Forget

\* What TakeOut books: the units taken, and those of an open call.
LEMMA TakeOutTypes ==
    ASSUME TypeOK, NEW units \in [Products -> Nat], TakeOut(units)
    PROVE  /\ tally' \in Tally
           /\ tally'.twice = tally.twice /\ tally'.late = tally.late
           /\ \A p \in Products :
                 /\ tally'.taken[p] = tally.taken[p] + units[p]
                 /\ tally'.early[p] = tally.early[p] + IF Open = {} THEN 0 ELSE units[p]
<1>1. tally \in Tally
  BY DEF TypeOK
<1>2. /\ tally.taken \in [Products -> Nat] /\ tally.late \in [Products -> Nat]
      /\ tally.early \in [Products -> Nat] /\ tally.twice \in BOOLEAN
  BY <1>1 DEF Tally
<1>3. tally' = [tally EXCEPT
          !.taken = [p \in Products |-> tally.taken[p] + units[p]],
          !.early = [p \in Products |-> tally.early[p] + IF Open = {} THEN 0 ELSE units[p]]]
  BY Zenon DEF TakeOut
<1> DEFINE T == [p \in Products |-> tally.taken[p] + units[p]]
           E == [p \in Products |-> tally.early[p] + IF Open = {} THEN 0 ELSE units[p]]
<1>4. T \in [Products -> Nat] /\ E \in [Products -> Nat]
  BY <1>2
<1>5. /\ tally'.taken = T /\ tally'.early = E
      /\ tally'.late = tally.late /\ tally'.twice = tally.twice
      /\ tally' \in Tally
  <2> HIDE DEF T, E
  <2>1. tally' = [tally EXCEPT !.taken = T, !.early = E]
    BY <1>3, Zenon DEF T, E
  <2> QED BY <2>1, <1>1, <1>2, <1>4 DEF Tally
<1> QED BY <1>5

\* What AddToCart does to the cart, and to the accounts.
LEMMA AddIs ==
    ASSUME CartInv, NEW u \in Users, AddToCart(u)
    PROVE  /\ adding[u] \in Products \X {"none", "line", "stray"}
           /\ adding[u][2] = "none" =>
                 cart' = Append(cart, [product |-> adding[u][1], qty |-> 1])
           /\ adding[u][2] = "line" =>
                 /\ Find(adding[u][1]) \in DOMAIN cart
                 /\ cart[Find(adding[u][1])].product = adding[u][1]
                 /\ cart[Find(adding[u][1])].qty \in Nat \ {0}
                 /\ cart' = [cart EXCEPT ![Find(adding[u][1])].qty =
                                cart[Find(adding[u][1])].qty + 1]
           /\ adding[u][2] = "stray" => cart' = cart
           /\ added' = [added EXCEPT ![u][adding[u][1]] = added[u][adding[u][1]] + 1]
           /\ tally' \in Tally
           /\ tally'.taken = tally.taken /\ tally'.early = tally.early
           /\ tally'.twice = tally.twice
           /\ tally'.late = [tally.late EXCEPT ![adding[u][1]] =
                    tally.late[adding[u][1]] + IF Open = {} THEN 0 ELSE 1]
<1>1. adding[u] \in Products \X {"none", "line", "stray"}
  BY DEF AddToCart, CartInv, TypeOK, Free
<1>2. adding[u][2] = "none" =>
          cart' = Append(cart, [product |-> adding[u][1], qty |-> 1])
  BY Zenon DEF AddToCart
<1>3. adding[u][2] = "stray" => cart' = cart
  BY Zenon DEF AddToCart
<1>4. adding[u][2] = "line" =>
          cart' = [cart EXCEPT ![Find(adding[u][1])].qty = cart[Find(adding[u][1])].qty + 1]
  BY Zenon DEF AddToCart
<1>5. adding[u][2] = "line" =>
          /\ Find(adding[u][1]) \in DOMAIN cart
          /\ cart[Find(adding[u][1])].product = adding[u][1]
          /\ cart[Find(adding[u][1])].qty \in Nat \ {0}
  <2> SUFFICES ASSUME adding[u][2] = "line"
               PROVE  /\ Find(adding[u][1]) \in DOMAIN cart
                      /\ cart[Find(adding[u][1])].product = adding[u][1]
                      /\ cart[Find(adding[u][1])].qty \in Nat \ {0}
    OBVIOUS
  <2>1. cart \in Seq(CartItem)
    BY DEF CartInv, TypeOK
  <2>2. Places(cart, adding[u][1]) # {}
    BY DEF AddToCart, CartInv, FoundStays
  <2> QED BY <2>1, <2>2, FindIs
<1>6. added' = [added EXCEPT ![u][adding[u][1]] = added[u][adding[u][1]] + 1]
  BY Zenon DEF AddToCart
<1>7. /\ tally' \in Tally
      /\ tally'.taken = tally.taken /\ tally'.early = tally.early
      /\ tally'.twice = tally.twice
      /\ tally'.late = [tally.late EXCEPT ![adding[u][1]] =
               tally.late[adding[u][1]] + IF Open = {} THEN 0 ELSE 1]
  <2> DEFINE more == [tally.late EXCEPT ![adding[u][1]] =
                         tally.late[adding[u][1]] + IF Open = {} THEN 0 ELSE 1]
  <2>1. tally \in Tally
    BY DEF CartInv, TypeOK
  <2>2. tally' = [tally EXCEPT !.late[adding[u][1]] =
                     tally.late[adding[u][1]] + IF Open = {} THEN 0 ELSE 1]
    BY Zenon DEF AddToCart
  <2>3. tally' = [tally EXCEPT !.late = more]
    BY <2>1, <2>2 DEF Tally
  <2>4. more \in [Products -> Nat]
    BY <1>1, <2>1 DEF Tally
  <2> HIDE DEF more
  <2>5. /\ tally' \in Tally /\ tally'.late = more
        /\ tally'.taken = tally.taken /\ tally'.early = tally.early
        /\ tally'.twice = tally.twice
    BY <2>1, <2>3, <2>4 DEF Tally
  <2> QED BY <2>5 DEF more
<1> QED BY <1>1, <1>2, <1>3, <1>4, <1>5, <1>6, <1>7

\* A product stays in the lines when another one goes.
LEMMA WithoutKeeps ==
    ASSUME NEW S, NEW lines \in Seq(S), NEW i \in DOMAIN lines,
           NEW q, q # lines[i].product, Places(lines, q) # {}
    PROVE  Places(Without(lines, i), q) # {}
<1> DEFINE rest == Without(lines, i)
<1>1. /\ Len(lines) \in Nat /\ DOMAIN lines = 1 .. Len(lines)
      /\ DOMAIN rest = 1 .. Len(lines) - 1
      /\ \A j \in 1 .. Len(lines) - 1 : rest[j] = lines[IF j < i THEN j ELSE j + 1]
  BY WithoutIs, LenProperties
<1>2. PICK k \in DOMAIN lines : lines[k].product = q
  BY DEF Places
<1>3. k # i
  BY <1>2
<1> DEFINE j == IF k < i THEN k ELSE k - 1
<1>4. j \in 1 .. Len(lines) - 1 /\ (IF j < i THEN j ELSE j + 1) = k
  BY <1>1, <1>3
<1>5. j \in DOMAIN rest /\ rest[j] = lines[k]
  BY <1>1, <1>4
<1> HIDE DEF rest, j
<1>6. j \in Places(rest, q)
  BY <1>2, <1>5 DEF Places
<1> QED BY <1>6 DEF rest

\* What Remove does to the cart, and to the accounts.
LEMMA RemoveIs ==
    ASSUME CartInv, NEW u \in Users, NEW p \in Products, Remove(u, p)
    PROVE  /\ Find(p) \in DOMAIN cart /\ cart[Find(p)].product = p
           /\ cart[Find(p)].qty \in Nat \ {0}
           /\ cart' = Without(cart, Find(p)) /\ cart' \in Seq(CartItem)
           /\ tally' \in Tally
           /\ tally'.twice = tally.twice /\ tally'.late = tally.late
           /\ \A q \in Products :
                 LET units == IF q = p THEN cart[Find(p)].qty ELSE 0
                 IN  /\ tally'.taken[q] = tally.taken[q] + units
                     /\ tally'.early[q] = tally.early[q] + IF Open = {} THEN 0 ELSE units
<1>1. TypeOK /\ cart \in Seq(CartItem)
  BY DEF CartInv, TypeOK
<1>2. /\ Find(p) \in DOMAIN cart /\ cart[Find(p)].product = p
      /\ cart[Find(p)].qty \in Nat \ {0}
  BY <1>1, FindIs DEF Remove
<1> DEFINE units == [Nothing EXCEPT ![p] = cart[Find(p)].qty]
<1>3. /\ units \in [Products -> Nat]
      /\ \A q \in Products : units[q] = IF q = p THEN cart[Find(p)].qty ELSE 0
  BY <1>2 DEF Nothing
<1>4. TakeOut(units)
  BY DEF Remove
<1>5. cart' = Without(cart, Find(p)) /\ cart' \in Seq(CartItem)
  BY <1>1, <1>2, WithoutIs DEF Remove
<1> HIDE DEF units
<1>6. /\ tally' \in Tally
      /\ tally'.twice = tally.twice /\ tally'.late = tally.late
      /\ \A q \in Products :
            /\ tally'.taken[q] = tally.taken[q] + units[q]
            /\ tally'.early[q] = tally.early[q] + IF Open = {} THEN 0 ELSE units[q]
  BY <1>1, <1>3, <1>4, TakeOutTypes
<1>7. \A q \in Products :
          LET n == IF q = p THEN cart[Find(p)].qty ELSE 0
          IN  /\ tally'.taken[q] = tally.taken[q] + n
              /\ tally'.early[q] = tally.early[q] + IF Open = {} THEN 0 ELSE n
  BY <1>3, <1>6
<1> QED BY <1>2, <1>5, <1>6, <1>7

\* What ClearCart does.
LEMMA ClearIs ==
    ASSUME CartInv, NEW u \in Users, ClearCart(u)
    PROVE  /\ cart' = <<>> /\ cart' \in Seq(CartItem)
           /\ tally' \in Tally
           /\ tally'.twice = tally.twice /\ tally'.late = tally.late
           /\ \A q \in Products :
                 /\ tally'.taken[q] = tally.taken[q] + Demand(cart, q)
                 /\ tally'.early[q] = tally.early[q] + IF Open = {} THEN 0
                                                       ELSE Demand(cart, q)
<1>1. TypeOK /\ cart \in Seq(CartItem)
  BY DEF CartInv, TypeOK
<1> DEFINE units == [p \in Products |-> Demand(cart, p)]
<1>2. units \in [Products -> Nat] /\ \A q \in Products : units[q] = Demand(cart, q)
  BY <1>1, LinesType
<1>3. TakeOut(units)
  BY DEF ClearCart
<1>4. cart' = <<>> /\ cart' \in Seq(CartItem)
  BY EmptySeq DEF ClearCart
<1> HIDE DEF units
<1>5. /\ tally' \in Tally
      /\ tally'.twice = tally.twice /\ tally'.late = tally.late
      /\ \A q \in Products :
            /\ tally'.taken[q] = tally.taken[q] + units[q]
            /\ tally'.early[q] = tally.early[q] + IF Open = {} THEN 0 ELSE units[q]
  BY <1>1, <1>2, <1>3, TakeOutTypes
<1> QED BY <1>2, <1>4, <1>5

\* The line that an AddToCart has found stays, whatever else is done to the cart.
LEMMA NextCart == CartInv /\ [Next]_vars => CartInv'
<1> SUFFICES ASSUME CartInv, [Next]_vars PROVE CartInv'
  OBVIOUS
<1>0. TypeOK /\ FoundStays /\ cart \in Seq(CartItem)
  BY DEF CartInv, TypeOK
<1>1. ASSUME NEW u \in Users, NEW p \in Products, AddLookUp(u, p) PROVE CartInv'
  <2>1. adding' = [adding EXCEPT ![u] = <<p, IF Find(p) = 0 THEN "none" ELSE "line">>]
    BY <1>1 DEF AddLookUp
  <2>2. TypeOK'
    BY <1>0, <1>1, <2>1 DEF AddLookUp, TypeOK
  <2>3. FoundStays'
    <3> SUFFICES ASSUME NEW v \in Users, adding'[v] # <<>>, adding'[v][2] = "line"
                 PROVE  Places(cart, adding'[v][1]) # {}
      BY <1>1 DEF FoundStays, Free, AddLookUp
    <3>1. CASE v = u
      <4>1. adding'[v][1] = p /\ Find(p) # 0
        BY <1>0, <2>1, <3>1 DEF TypeOK
      <4> QED BY <1>0, <4>1, FindIs
    <3>2. CASE v # u
      BY <1>0, <2>1, <3>2 DEF TypeOK, FoundStays, Free
    <3> QED BY <3>1, <3>2
  <2> QED BY <2>2, <2>3 DEF CartInv
<1>2. ASSUME NEW u \in Users, AddToCart(u) PROVE CartInv'
  <2>1. /\ adding[u] \in Products \X {"none", "line", "stray"}
        /\ adding[u][2] = "none" =>
              cart' = Append(cart, [product |-> adding[u][1], qty |-> 1])
        /\ adding[u][2] = "line" =>
              /\ Find(adding[u][1]) \in DOMAIN cart
              /\ cart[Find(adding[u][1])].qty \in Nat \ {0}
              /\ cart' = [cart EXCEPT ![Find(adding[u][1])].qty =
                             cart[Find(adding[u][1])].qty + 1]
        /\ adding[u][2] = "stray" => cart' = cart
        /\ added' = [added EXCEPT ![u][adding[u][1]] = added[u][adding[u][1]] + 1]
        /\ tally' \in Tally
    BY <1>2, AddIs
  <2>2. /\ adding' = [adding EXCEPT ![u] = <<>>]
        /\ calls' = calls /\ ordered' = ordered
    BY <1>2 DEF AddToCart
  <2>3. /\ cart' \in Seq(CartItem)
        /\ \A q : Places(cart, q) # {} => Places(cart', q) # {}
    <3>1. CASE adding[u][2] = "none"
      <4> DEFINE line == [product |-> adding[u][1], qty |-> 1]
      <4>1. line \in CartItem
        BY <2>1 DEF CartItem
      <4>2. cart' = Append(cart, line)
        BY <2>1, <3>1
      <4> HIDE DEF line
      <4>3. /\ cart' \in Seq(CartItem) /\ DOMAIN cart = 1 .. Len(cart)
            /\ Len(cart) \in Nat
            /\ Len(cart') = Len(cart) + 1 /\ DOMAIN cart' = 1 .. Len(cart')
            /\ \A i \in DOMAIN cart : cart'[i] = cart[i]
        BY <1>0, <4>1, <4>2, AppendProperties, LenProperties
      <4> QED BY <4>3 DEF Places
    <3>2. CASE adding[u][2] = "line"
      <4> DEFINE f == Find(adding[u][1])
                 n == cart[f].qty + 1
      <4>1. f \in DOMAIN cart /\ cart[f].qty \in Nat \ {0} /\ n \in Nat \ {0}
            /\ cart' = [cart EXCEPT ![f].qty = n]
        BY <2>1, <3>2
      <4> HIDE DEF n, f
      <4>2. cart[f] \in CartItem
        BY <1>0, <4>1, LinesType
      <4>3. [cart[f] EXCEPT !.qty = n] \in CartItem
        BY <4>1, <4>2 DEF CartItem
      <4>4. cart' = [cart EXCEPT ![f] = [cart[f] EXCEPT !.qty = n]]
        BY <4>1
      <4>5. cart' \in Seq(CartItem)
        BY <1>0, <4>1, <4>3, <4>4, ExceptSeq
      <4>6. DOMAIN cart' = DOMAIN cart /\ \A i \in DOMAIN cart : cart'[i].product = cart[i].product
        BY <4>1, <4>2, <4>4 DEF CartItem
      <4> QED BY <4>5, <4>6 DEF Places
    <3>3. CASE adding[u][2] = "stray"
      BY <1>0, <2>1, <3>3
    <3> QED BY <2>1, <3>1, <3>2, <3>3
  <2>4. TypeOK'
    BY <1>0, <2>1, <2>2, <2>3 DEF TypeOK
  <2>5. FoundStays'
    BY <1>0, <2>2, <2>3 DEF TypeOK, FoundStays, Free
  <2> QED BY <2>4, <2>5 DEF CartInv
<1>3. ASSUME NEW u \in Users, NEW p \in Products, Remove(u, p) PROVE CartInv'
  <2>1. /\ Find(p) \in DOMAIN cart /\ cart[Find(p)].product = p
        /\ cart' = Without(cart, Find(p)) /\ cart' \in Seq(CartItem)
        /\ tally' \in Tally
    BY <1>3, RemoveIs
  <2>2. Forget({p}) /\ calls' = calls /\ ordered' = ordered /\ added' = added
    BY <1>3 DEF Remove
  <2>3. /\ adding' \in [Users -> {<<>>} \cup (Products \X {"none", "line", "stray"})]
        /\ \A v \in Users : adding'[v] # <<>> /\ adding'[v][2] = "line" =>
               adding'[v] = adding[v] /\ adding[v][1] # p
    BY <1>0, <2>2, ForgetTypes
  <2>4. TypeOK'
    BY <1>0, <2>1, <2>2, <2>3 DEF TypeOK
  <2>5. FoundStays'
    <3> SUFFICES ASSUME NEW v \in Users, adding'[v] # <<>>, adding'[v][2] = "line"
                 PROVE  Places(cart', adding'[v][1]) # {}
      BY DEF FoundStays, Free
    <3>1. adding'[v] = adding[v] /\ adding[v][1] # p /\ Places(cart, adding[v][1]) # {}
      BY <1>0, <2>3 DEF FoundStays, Free
    <3> QED BY <1>0, <2>1, <3>1, WithoutKeeps
  <2> QED BY <2>4, <2>5 DEF CartInv
<1>4. ASSUME NEW u \in Users, ClearCart(u) PROVE CartInv'
  <2>1. cart' \in Seq(CartItem) /\ tally' \in Tally
    BY <1>4, ClearIs
  <2>2. Forget(Products) /\ calls' = calls /\ ordered' = ordered /\ added' = added
    BY <1>4 DEF ClearCart
  <2>3. /\ adding' \in [Users -> {<<>>} \cup (Products \X {"none", "line", "stray"})]
        /\ \A v \in Users : adding'[v] # <<>> /\ adding'[v][2] = "line" =>
               adding'[v] = adding[v] /\ adding[v][1] \notin Products
    BY <1>0, <2>2, ForgetTypes
  <2>4. TypeOK'
    BY <1>0, <2>1, <2>2, <2>3 DEF TypeOK
  <2>5. FoundStays'
    BY <1>0, <2>3 DEF TypeOK, FoundStays, Free
  <2> QED BY <2>4, <2>5 DEF CartInv
<1>5. ASSUME NEW u \in Users, NEW c \in Calls, Checkout(u, c) PROVE CartInv'
  <2>1. TypeOK'
    <3>1. tally' \in Tally
      BY <1>0, <1>5 DEF Checkout, TypeOK, Tally
    <3> QED BY <1>0, <1>5, <3>1 DEF Checkout, TypeOK
  <2>2. FoundStays'
    BY <1>0, <1>5 DEF Checkout, FoundStays, Free
  <2> QED BY <2>1, <2>2 DEF CartInv
<1>6. ASSUME NEW u \in Users, CircuitEnds(u) PROVE CartInv'
  <2>1. TypeOK'
    BY <1>0, <1>6 DEF CircuitEnds, TypeOK
  <2>2. FoundStays'
    BY <1>0, <1>6 DEF CircuitEnds, FoundStays, Free
  <2> QED BY <2>1, <2>2 DEF CartInv
<1>7. ASSUME NEW c \in Calls, Order(c) PROVE CartInv'
  BY <1>0, <1>7 DEF Order, CartInv, TypeOK, FoundStays, Free
<1>8. ASSUME NEW c \in Calls, CheckoutSucceeds(c) PROVE CartInv'
  <2>1. /\ Forget(Products) /\ ordered' = ordered /\ added' = added /\ tally' = tally
        /\ cart' = <<>> /\ cart' \in Seq(CartItem)
    BY <1>8, EmptySeq DEF CheckoutSucceeds
  <2>2. /\ adding' \in [Users -> {<<>>} \cup (Products \X {"none", "line", "stray"})]
        /\ \A v \in Users : adding'[v] # <<>> /\ adding'[v][2] = "line" =>
               adding'[v] = adding[v] /\ adding[v][1] \notin Products
    BY <1>0, <2>1, ForgetTypes
  <2>3. TypeOK'
    BY <1>0, <1>8, <2>1, <2>2 DEF CheckoutSucceeds, TypeOK
  <2>4. FoundStays'
    BY <1>0, <2>2 DEF TypeOK, FoundStays, Free
  <2> QED BY <2>3, <2>4 DEF CartInv
<1>9. ASSUME NEW c \in Calls, CheckoutFails(c) PROVE CartInv'
  BY <1>0, <1>9 DEF CheckoutFails, CartInv, TypeOK, FoundStays, Free
<1>10. ASSUME NEW c \in Calls, CallTimesOut(c) PROVE CartInv'
  BY <1>0, <1>10 DEF CallTimesOut, CartInv, TypeOK, FoundStays, Free
<1>11. CASE UNCHANGED vars
  BY <1>0, <1>11 DEF vars, CartInv, TypeOK, FoundStays, Free
<1> QED
  BY <1>1, <1>2, <1>3, <1>4, <1>5, <1>6, <1>7, <1>8, <1>9, <1>10, <1>11 DEF Next

\* The types of the cart, of the calls and of the accounts are kept, by any number of
\* users whose handlers interleave as PortalCart lets them: from await to await, with
\* AddToCart in two steps.
THEOREM TypeCorrect == Spec => []TypeOK
<1>1. CartInv => TypeOK
  BY DEF CartInv
<1> QED BY <1>1, InitCart, NextCart, PTL DEF Spec

-----------------------------------------------------------------------------
(***************************************************************************)
(* One user.  With two, both circuits may look a product up before either  *)
(* adds it, and then the cart has two lines of it.                         *)
(***************************************************************************)

OneUser == \A u, v \in Users : u = v

\* With one user nothing is added while the cart is worked on otherwise, so that
\* Forget has nothing to forget.
LEMMA NothingToForget ==
    ASSUME OneUser, TypeOK, NEW u \in Users, Free(u), NEW P, Forget(P)
    PROVE  /\ adding' = adding
           /\ \A v \in Users : Free(v) /\ adding'[v] = <<>>
  BY DEF OneUser, TypeOK, Free, Forget

\* An empty cart repeats no line.
LEMMA InitLines == Init => LinesInv
<1> SUFFICES ASSUME Init PROVE LinesInv
  OBVIOUS
<1>1. DistinctLines(<<>>)
  BY DEF DistinctLines
<1> QED
  BY <1>1 DEF Init, LinesInv, LookedRight, CallersKnown, RequestsDistinct, Free

\* No step of a single user repeats a line.
LEMMA NextLines ==
    ASSUME OneUser, CartInv, LinesInv, [Next]_vars PROVE LinesInv'
<1>0. /\ TypeOK /\ LookedRight /\ CallersKnown /\ DistinctLines(cart) /\ RequestsDistinct
      /\ cart \in Seq(CartItem)
      /\ cart \in Seq([product : Products, qty : Int])
  BY LinesType DEF CartInv, TypeOK, LinesInv
<1>1. ASSUME NEW u \in Users, NEW p \in Products, AddLookUp(u, p) PROVE LinesInv'
  <2>1. /\ adding' = [adding EXCEPT ![u] = <<p, IF Find(p) = 0 THEN "none" ELSE "line">>]
        /\ calls' = calls /\ cart' = cart
    BY <1>1 DEF AddLookUp
  <2>2. \A v \in Users : adding'[v] = <<p, IF Find(p) = 0 THEN "none" ELSE "line">>
    BY <2>1, <1>0 DEF OneUser, TypeOK
  <2>3. LookedRight'
    BY <1>0, <2>1, <2>2, FindIs DEF LookedRight
  <2> QED BY <1>0, <2>1, <2>3 DEF LinesInv, CallersKnown, RequestsDistinct
<1>2. ASSUME NEW u \in Users, AddToCart(u) PROVE LinesInv'
  <2>1. /\ adding[u] \in Products \X {"none", "line", "stray"}
        /\ adding[u][2] = "none" =>
              cart' = Append(cart, [product |-> adding[u][1], qty |-> 1])
        /\ adding[u][2] = "line" =>
              /\ Find(adding[u][1]) \in DOMAIN cart
              /\ cart' = [cart EXCEPT ![Find(adding[u][1])].qty =
                             cart[Find(adding[u][1])].qty + 1]
        /\ adding[u][2] = "stray" => cart' = cart
    BY <1>2, AddIs
  <2>2. adding' = [adding EXCEPT ![u] = <<>>] /\ calls' = calls /\ ~Free(u)
    BY <1>2 DEF AddToCart
  <2>3. \A v \in Users : adding'[v] = <<>>
    BY <1>0, <2>2 DEF OneUser, TypeOK
  <2>4. DistinctLines(cart')
    <3>1. CASE adding[u][2] = "none"
      <4> DEFINE line == [product |-> adding[u][1], qty |-> 1]
      <4>1. line \in [product : Products, qty : Int] /\ line.product = adding[u][1]
        BY <2>1
      <4>2. Places(cart, line.product) = {}
        BY <1>0, <2>2, <3>1 DEF LookedRight
      <4>3. cart' = Append(cart, line)
        BY <2>1, <3>1
      <4> HIDE DEF line
      <4> QED BY <1>0, <4>1, <4>2, <4>3, DistinctKept
    <3>2. CASE adding[u][2] = "line"
      <4> DEFINE f == Find(adding[u][1])
                 n == cart[f].qty + 1
      <4>1. f \in DOMAIN cart /\ cart' = [cart EXCEPT ![f].qty = n]
        BY <2>1, <3>2
      <4> HIDE DEF n, f
      <4> QED BY <1>0, <4>1, DistinctKept
    <3>3. CASE adding[u][2] = "stray"
      BY <1>0, <2>1, <3>3
    <3> QED BY <2>1, <3>1, <3>2, <3>3
  <2>5. LookedRight'
    BY <2>3 DEF LookedRight, Free
  <2> QED BY <1>0, <2>2, <2>4, <2>5 DEF LinesInv, CallersKnown, RequestsDistinct
<1>3. ASSUME NEW u \in Users, NEW p \in Products, Remove(u, p) PROVE LinesInv'
  <2>1. Find(p) \in DOMAIN cart /\ cart' = Without(cart, Find(p))
    BY <1>3, RemoveIs
  <2>2. Forget({p}) /\ calls' = calls /\ Free(u)
    BY <1>3 DEF Remove
  <2>3. \A v \in Users : adding'[v] = <<>>
    BY <1>0, <2>2, NothingToForget
  <2>4. DistinctLines(cart')
    BY <1>0, <2>1, DistinctKept
  <2>5. LookedRight'
    BY <2>3 DEF LookedRight, Free
  <2> QED BY <1>0, <2>2, <2>4, <2>5 DEF LinesInv, CallersKnown, RequestsDistinct
<1>4. ASSUME NEW u \in Users, ClearCart(u) PROVE LinesInv'
  <2>1. Forget(Products) /\ cart' = <<>> /\ calls' = calls /\ Free(u)
    BY <1>4 DEF ClearCart
  <2>2. \A v \in Users : adding'[v] = <<>>
    BY <1>0, <2>1, NothingToForget
  <2>3. DistinctLines(cart')
    BY <2>1 DEF DistinctLines
  <2>4. LookedRight'
    BY <2>2 DEF LookedRight, Free
  <2> QED BY <1>0, <2>1, <2>3, <2>4 DEF LinesInv, CallersKnown, RequestsDistinct
<1>5. ASSUME NEW u \in Users, NEW c \in Calls, Checkout(u, c) PROVE LinesInv'
  <2>1. /\ calls' = [calls EXCEPT ![c] = [pc |-> "sent", user |-> u, lines |-> cart]]
        /\ cart' = cart /\ adding' = adding
    BY <1>5 DEF Checkout
  <2>2. \A d \in Calls : /\ d # c => calls'[d] = calls[d]
                         /\ d = c => calls'[d].lines = cart /\ calls'[d].user = u
    BY <1>0, <2>1 DEF TypeOK
  <2>3. CallersKnown' /\ RequestsDistinct'
    BY <1>0, <2>2 DEF CallersKnown, RequestsDistinct
  <2> QED BY <1>0, <2>1, <2>3 DEF LinesInv, LookedRight, Free
<1>6. ASSUME NEW u \in Users, CircuitEnds(u) PROVE LinesInv'
  <2>1. /\ cart' = cart /\ adding' = adding
        /\ \A c \in Calls : /\ calls'[c].lines = calls[c].lines
                            /\ calls'[c].user = calls[c].user
                            /\ calls'[c].pc # "none" => calls[c].pc # "none"
    BY <1>0, <1>6 DEF CircuitEnds, TypeOK, Open
  <2>2. CallersKnown' /\ RequestsDistinct'
    BY <1>0, <2>1 DEF CallersKnown, RequestsDistinct
  <2> QED BY <1>0, <2>1, <2>2 DEF LinesInv, LookedRight, Free
<1>7. ASSUME NEW c \in Calls, Order(c) PROVE LinesInv'
  BY <1>0, <1>7 DEF Order, LinesInv, LookedRight, CallersKnown, RequestsDistinct, Free
<1>8. ASSUME NEW c \in Calls, CheckoutSucceeds(c) PROVE LinesInv'
  <2>1. /\ Forget(Products) /\ cart' = <<>> /\ Free(calls[c].user)
        /\ calls' = [calls EXCEPT ![c].pc = "placed"] /\ calls[c].pc = "sent"
    BY <1>8 DEF CheckoutSucceeds, Open
  <2>2. calls[c].user \in Users
    BY <1>0, <2>1 DEF CallersKnown
  <2>3. \A v \in Users : adding'[v] = <<>>
    BY <1>0, <2>1, <2>2, NothingToForget
  <2>4. DistinctLines(cart')
    BY <2>1 DEF DistinctLines
  <2>5. LookedRight'
    BY <2>3 DEF LookedRight, Free
  <2>6. \A d \in Calls : /\ calls'[d].lines = calls[d].lines
                         /\ calls'[d].user = calls[d].user
                         /\ calls'[d].pc # "none" => calls[d].pc # "none"
    BY <1>0, <2>1 DEF TypeOK
  <2>7. CallersKnown' /\ RequestsDistinct'
    BY <1>0, <2>6 DEF CallersKnown, RequestsDistinct
  <2> QED BY <2>4, <2>5, <2>7 DEF LinesInv
<1>9. ASSUME NEW c \in Calls, CheckoutFails(c) PROVE LinesInv'
  <2>1. /\ cart' = cart /\ adding' = adding
        /\ \A d \in Calls : /\ calls'[d].lines = calls[d].lines
                            /\ calls'[d].user = calls[d].user
                            /\ calls'[d].pc # "none" => calls[d].pc # "none"
    BY <1>0, <1>9 DEF CheckoutFails, TypeOK, Open
  <2>2. CallersKnown' /\ RequestsDistinct'
    BY <1>0, <2>1 DEF CallersKnown, RequestsDistinct
  <2> QED BY <1>0, <2>1, <2>2 DEF LinesInv, LookedRight, Free
<1>10. ASSUME NEW c \in Calls, CallTimesOut(c) PROVE LinesInv'
  <2>1. /\ cart' = cart /\ adding' = adding
        /\ \A d \in Calls : /\ calls'[d].lines = calls[d].lines
                            /\ calls'[d].user = calls[d].user
                            /\ calls'[d].pc # "none" => calls[d].pc # "none"
    BY <1>0, <1>10 DEF CallTimesOut, TypeOK, Open
  <2>2. CallersKnown' /\ RequestsDistinct'
    BY <1>0, <2>1 DEF CallersKnown, RequestsDistinct
  <2> QED BY <1>0, <2>1, <2>2 DEF LinesInv, LookedRight, Free
<1>11. CASE UNCHANGED vars
  BY <1>0, <1>11 DEF vars, LinesInv, LookedRight, CallersKnown, RequestsDistinct, Free
<1> QED
  BY <1>1, <1>2, <1>3, <1>4, <1>5, <1>6, <1>7, <1>8, <1>9, <1>10, <1>11 DEF Next

\* Whatever one user clicks and in whatever order the answers come, no request names a
\* product on two lines.
THEOREM NoRepeatedLines == OneUser => (Spec => []RequestsDistinct)
<1> SUFFICES ASSUME OneUser PROVE Spec => []RequestsDistinct
  OBVIOUS
<1>1. CartInv /\ LinesInv /\ [Next]_vars => LinesInv'
  BY NextLines
<1>2. LinesInv => RequestsDistinct
  BY DEF LinesInv
<1> QED BY <1>1, <1>2, InitCart, NextCart, InitLines, PTL DEF Spec

-----------------------------------------------------------------------------
(***************************************************************************)
(* The accounts: what was clicked, and what became of it.                  *)
(***************************************************************************)

\* One user or none can be counted.
LEMMA UsersFinite == ASSUME OneUser PROVE IsFiniteSet(Users)
<1>1. CASE Users = {}
  BY <1>1, FS_EmptySet
<1>2. CASE Users # {}
  <2>1. PICK u \in Users : Users = {u}
    BY <1>2 DEF OneUser
  <2> QED BY <2>1, FS_Singleton
<1> QED BY <1>1, <1>2

\* What is tallied is counted in natural numbers.
LEMMA TallyType ==
    ASSUME TypeOK, NEW p \in Products
    PROVE  tally.taken[p] \in Nat /\ tally.late[p] \in Nat /\ tally.early[p] \in Nat
  BY DEF TypeOK, Tally

\* Clicks are counted in natural numbers.
LEMMA ClickedType ==
    ASSUME TypeOK, IsFiniteSet(Users), NEW p \in Products PROVE Clicked(p) \in Nat
<1> DEFINE F == [u \in Users |-> added[u][p]]
<1>1. DOMAIN F = Users /\ \A u \in Users : F[u] \in Nat
  BY DEF TypeOK
<1>2. Clicked(p) = SumFunctionOnSet(F, DOMAIN F)
  BY DEF Clicked, SumFunction
<1> HIDE DEF F
<1> QED BY <1>1, <1>2, SumNat

\* A click more.
LEMMA ClickedMore ==
    ASSUME TypeOK, IsFiniteSet(Users), NEW u \in Users, NEW q \in Products,
           added' = [added EXCEPT ![u][q] = added[u][q] + 1], NEW p \in Products
    PROVE  Clicked(p)' = Clicked(p) + IF p = q THEN 1 ELSE 0
<1> DEFINE F == [v \in Users |-> added[v][p]]
           G == [v \in Users |-> added'[v][p]]
<1>1. /\ DOMAIN F = Users /\ DOMAIN G = Users
      /\ \A v \in Users : F[v] \in Nat /\ G[v] \in Nat
      /\ \A v \in Users \ {u} : G[v] = F[v]
      /\ G[u] = F[u] + IF p = q THEN 1 ELSE 0
  BY DEF TypeOK
<1>2. Clicked(p) = SumFunctionOnSet(F, Users) /\ Clicked(p)' = SumFunctionOnSet(G, Users)
  BY <1>1 DEF Clicked, SumFunction
<1> HIDE DEF F, G
<1>3. \A v \in Users : F[v] \in Int /\ G[v] \in Int
  BY <1>1
<1>4. SumFunctionOnSet(G, Users) = SumFunctionOnSet(F, Users) + G[u] - F[u]
  BY <1>1, <1>3, SumChange
<1>5. SumFunctionOnSet(F, Users) \in Int
  BY <1>3, SumType
<1> QED BY <1>1, <1>2, <1>3, <1>4, <1>5

\* What is on orders is counted in natural numbers.
LEMMA OrdersType ==
    ASSUME TypeOK, IsFiniteSet(Calls), NEW p
    PROVE  /\ OnOrders(p) \in Nat
           /\ \A c \in Calls : Demand(calls[c].lines, p) \in Nat
<1> DEFINE F == [c \in Calls |-> Demand(calls[c].lines, p)]
<1>1. \A c \in Calls : calls[c].lines \in Seq(CartItem)
  BY DEF TypeOK
<1>2. \A c \in Calls : Demand(calls[c].lines, p) \in Nat
  BY <1>1, LinesType
<1>3. IsFiniteSet(Placed) /\ \A c \in Placed : F[c] \in Nat
  BY <1>2, FS_Subset DEF Placed
<1>4. OnOrders(p) = SumFunctionOnSet(F, Placed)
  BY DEF OnOrders
<1> HIDE DEF F
<1> QED BY <1>2, <1>3, <1>4, SumNat

\* The orders placed ask for what they asked for, as long as no call is placed.
LEMMA OrdersSame ==
    ASSUME TypeOK, IsFiniteSet(Calls), NEW p, Placed' = Placed,
           \A c \in Placed : calls'[c].lines = calls[c].lines
    PROVE  OnOrders(p)' = OnOrders(p)
<1> DEFINE F == [c \in Calls |-> Demand(calls[c].lines, p)]
           G == [c \in Calls |-> Demand(calls'[c].lines, p)]
<1>1. \A c \in Calls : Demand(calls[c].lines, p) \in Nat
  BY OrdersType
<1>2. Placed \subseteq Calls /\ IsFiniteSet(Placed)
  BY FS_Subset DEF Placed
<1>3. \A c \in Placed : F[c] \in Int /\ G[c] = F[c]
  BY <1>1, <1>2
<1>4. OnOrders(p) = SumFunctionOnSet(F, Placed) /\ OnOrders(p)' = SumFunctionOnSet(G, Placed')
  BY DEF OnOrders
<1> HIDE DEF F, G
<1> QED BY <1>2, <1>3, <1>4, SumSame

\* A call is placed.
LEMMA OrdersMore ==
    ASSUME TypeOK, IsFiniteSet(Calls), NEW p, NEW c \in Calls, c \notin Placed,
           calls' = [calls EXCEPT ![c].pc = "placed"]
    PROVE  OnOrders(p)' = OnOrders(p) + Demand(calls[c].lines, p)
<1> DEFINE F == [d \in Calls |-> Demand(calls[d].lines, p)]
           G == [d \in Calls |-> Demand(calls'[d].lines, p)]
<1>1. \A d \in Calls : Demand(calls[d].lines, p) \in Nat
  BY OrdersType
<1>2. Placed \subseteq Calls /\ IsFiniteSet(Placed)
  BY FS_Subset DEF Placed
<1>3. /\ Placed' = Placed \cup {c}
      /\ \A d \in Calls : calls'[d].lines = calls[d].lines
  BY DEF TypeOK, Placed
<1>4. \A d \in Calls : F[d] \in Int /\ G[d] = F[d]
  BY <1>1, <1>3
<1>5. /\ OnOrders(p) = SumFunctionOnSet(F, Placed)
      /\ OnOrders(p)' = SumFunctionOnSet(G, Placed')
      /\ F[c] = Demand(calls[c].lines, p)
  BY DEF OnOrders
<1> HIDE DEF F, G
<1>6. IsFiniteSet(Placed \cup {c}) /\ \A d \in Placed \cup {c} : F[d] \in Int /\ G[d] = F[d]
  BY <1>2, <1>4, FS_AddElement
<1>7. SumFunctionOnSet(G, Placed \cup {c}) = SumFunctionOnSet(F, Placed \cup {c})
  BY <1>6, SumSame
<1>8. SumFunctionOnSet(F, Placed \cup {c}) = F[c] + SumFunctionOnSet(F, Placed)
  BY <1>2, <1>6, SumOneMore
<1>9. OnOrders(p) \in Nat
  BY OrdersType
<1> QED BY <1>1, <1>3, <1>5, <1>7, <1>8, <1>9

\* The accounts start at zero.
LEMMA InitAccounts ==
    ASSUME OneUser, IsFiniteSet(Calls), Init PROVE AccountsInv
<1>1. TypeOK
  BY InitCart DEF CartInv
<1>2. Open = {} /\ Placed = {}
  BY DEF Init, Open, Placed
<1>3. ASSUME NEW p \in Products PROVE Balanced(Demand(cart, p), p)
  <2>1. Clicked(p) = 0
    <3> DEFINE F == [u \in Users |-> added[u][p]]
    <3>1. DOMAIN F = Users /\ \A u \in Users : F[u] = 0
      BY DEF Init, Nothing
    <3>2. Clicked(p) = SumFunctionOnSet(F, DOMAIN F)
      BY DEF Clicked, SumFunction
    <3> HIDE DEF F
    <3> QED BY <3>1, <3>2, UsersFinite, SumZero
  <2>2. OnOrders(p) = 0
    BY <1>2, SumEmpty DEF OnOrders
  <2>3. Demand(cart, p) = 0
    BY DemandEmpty DEF Init
  <2>4. tally.late[p] = 0 /\ tally.taken[p] = 0 /\ tally.early[p] = 0
    BY DEF Init, Nothing
  <2> QED BY <2>1, <2>2, <2>3, <2>4 DEF Balanced
<1> QED BY <1>2, <1>3 DEF AccountsInv

\* Every click, call and answer keeps the accounts.
LEMMA NextAccounts ==
    ASSUME OneUser, IsFiniteSet(Calls), CartInv, LinesInv, AccountsInv, [Next]_vars
    PROVE  AccountsInv'
<1>0. /\ TypeOK /\ LookedRight /\ CallersKnown
      /\ cart \in Seq(CartItem) /\ cart \in Seq([product : Products, qty : Int])
      /\ \A p : Demand(cart, p) \in Nat
      /\ IsFiniteSet(Users)
  BY LinesType, UsersFinite DEF CartInv, TypeOK, LinesInv
<1>n. \A p \in Products :
          /\ Clicked(p) \in Nat /\ OnOrders(p) \in Nat
          /\ \A c \in Calls : Demand(calls[c].lines, p) \in Nat
          /\ tally.taken[p] \in Nat /\ tally.late[p] \in Nat /\ tally.early[p] \in Nat
  BY <1>0, ClickedType, OrdersType, TallyType
<1>1. ASSUME NEW u \in Users, NEW p \in Products, AddLookUp(u, p) PROVE AccountsInv'
  BY <1>1 DEF AddLookUp, AccountsInv, Open, Smooth, Balanced, Clicked, OnOrders, Placed
<1>2. ASSUME NEW u \in Users, AddToCart(u) PROVE AccountsInv'
  <2> DEFINE q == adding[u][1]
             d(p) == IF p = q THEN 1 ELSE 0
  <2>1. /\ q \in Products
        /\ adding[u] \in Products \X {"none", "line", "stray"}
        /\ adding[u][2] = "none" => cart' = Append(cart, [product |-> q, qty |-> 1])
        /\ adding[u][2] = "line" =>
              /\ Find(q) \in DOMAIN cart
              /\ cart[Find(q)].product = q
              /\ cart[Find(q)].qty \in Nat
              /\ cart' = [cart EXCEPT ![Find(q)].qty = cart[Find(q)].qty + 1]
        /\ added' = [added EXCEPT ![u][q] = added[u][q] + 1]
        /\ tally'.taken = tally.taken /\ tally'.early = tally.early
        /\ tally'.twice = tally.twice
        /\ tally'.late = [tally.late EXCEPT ![q] =
                 tally.late[q] + IF Open = {} THEN 0 ELSE 1]
    BY <1>2, AddIs
  <2>2. /\ calls' = calls /\ ordered' = ordered /\ adding[u][2] # "stray"
    BY <1>0, <1>2 DEF AddToCart, LookedRight
  <2>3. Open' = Open /\ Placed' = Placed /\ Smooth' = Smooth
    BY <2>1, <2>2 DEF Open, Placed, Smooth
  <2>4. ASSUME NEW p \in Products
        PROVE  /\ Demand(cart', p) = Demand(cart, p) + d(p)
               /\ Clicked(p)' = Clicked(p) + d(p)
               /\ OnOrders(p)' = OnOrders(p)
               /\ tally'.late[p] = tally.late[p] + IF Open = {} THEN 0 ELSE d(p)
    <3>1. ASSUME adding[u][2] = "none"
          PROVE  Demand(cart', p) = Demand(cart, p) + d(p)
      <4> DEFINE line == [product |-> q, qty |-> 1]
      <4>1. /\ line \in [product : Products, qty : Int]
            /\ line.product = q /\ line.qty = 1
            /\ cart' = Append(cart, line)
        BY <2>1, <3>1
      <4> HIDE DEF line, q
      <4>2. Demand(cart', p) = Demand(cart, p) + d(p)
        BY <1>0, <4>1, DemandAppend
      <4> QED BY <4>2
    <3>2. ASSUME adding[u][2] = "line"
          PROVE  Demand(cart', p) = Demand(cart, p) + d(p)
      <4> DEFINE f == Find(q)
                 n == cart[f].qty + 1
      <4>1. /\ f \in DOMAIN cart /\ n \in Int
            /\ cart' = [cart EXCEPT ![f].qty = n]
            /\ cart[f].product = q /\ n - cart[f].qty = 1
        BY <2>1, <3>2
      <4> HIDE DEF n, f, q
      <4>2. /\ DOMAIN cart' = DOMAIN cart /\ cart'[f].qty = n
            /\ \A j \in DOMAIN cart : cart'[j].product = cart[j].product
            /\ \A j \in DOMAIN cart \ {f} : cart'[j] = cart[j]
        <5>1. \A j \in DOMAIN cart : cart[j] \in CartItem
          BY <1>0, LinesType
        <5> QED BY <4>1, <5>1 DEF CartItem
      <4>3. Demand(cart', p) = Demand(cart, p) +
                IF cart[f].product = p THEN cart'[f].qty - cart[f].qty ELSE 0
        <5>1. f \in DOMAIN cart /\ cart'[f].qty \in Int
          BY <4>1, <4>2
        <5>2. cart \in Seq([product : Products, qty : Int])
          BY <1>0
        <5> QED BY <4>2, <5>1, <5>2, DemandChange, ZenonT(60)
      <4> QED BY <4>1, <4>2, <4>3
    <3>3. Demand(cart', p) = Demand(cart, p) + d(p)
      BY <2>1, <2>2, <3>1, <3>2
    <3>4. Clicked(p)' = Clicked(p) + d(p)
      <4> HIDE DEF q
      <4> QED BY <1>0, <2>1, ClickedMore
    <3>5. OnOrders(p)' = OnOrders(p)
      BY <1>0, <2>2, <2>3, OrdersSame
    <3>6. tally'.late[p] = tally.late[p] + IF Open = {} THEN 0 ELSE d(p)
      <4>1. tally.late \in [Products -> Nat]
        BY <1>0 DEF TypeOK, Tally
      <4> HIDE DEF q
      <4> QED BY <2>1, <4>1
    <3> QED BY <3>3, <3>4, <3>5, <3>6
  <2>5. ASSUME Smooth, NEW p \in Products
        PROVE  /\ Balanced(Demand(cart, p), p)'
               /\ \A c \in Open : Balanced(Demand(calls[c].lines, p), p)'
    <3>1. /\ Balanced(Demand(cart, p), p)
          /\ \A c \in Open : Balanced(Demand(calls[c].lines, p), p)
      BY <2>5 DEF AccountsInv
    <3>2. /\ tally'.taken[p] = tally.taken[p] /\ tally'.early[p] = tally.early[p]
          /\ d(p) \in Nat
      BY <2>1
    <3>3. Open \subseteq Calls
      BY DEF Open
    <3> HIDE DEF d
    <3>t. /\ Demand(cart, p) \in Nat /\ Clicked(p) \in Nat /\ OnOrders(p) \in Nat
          /\ tally.taken[p] \in Nat /\ tally.late[p] \in Nat /\ tally.early[p] \in Nat
      BY <1>0, <1>n
    <3>d. /\ Demand(cart', p) = Demand(cart, p) + d(p)
          /\ Clicked(p)' = Clicked(p) + d(p)
          /\ OnOrders(p)' = OnOrders(p)
          /\ tally'.late[p] = tally.late[p] + IF Open = {} THEN 0 ELSE d(p)
      BY <2>4
    <3>4. Balanced(Demand(cart, p), p)'
      BY <3>t, <3>d, <3>1, <3>2 DEF Balanced
    <3>5. ASSUME NEW c \in Open PROVE Balanced(Demand(calls[c].lines, p), p)'
      <4>1. /\ Demand(calls[c].lines, p) \in Nat /\ Open # {}
            /\ Balanced(Demand(calls[c].lines, p), p)
        BY <1>n, <3>1, <3>3
      <4>2. Demand(calls[c].lines, p)' = Demand(calls[c].lines, p)
        BY <2>2
      <4> QED BY <3>t, <3>d, <3>2, <4>1, <4>2 DEF Balanced
    <3> QED BY <3>4, <3>5
  <2> QED BY <2>1, <2>2, <2>3, <2>5 DEF AccountsInv
<1>3. ASSUME NEW u \in Users, NEW q \in Products, Remove(u, q) PROVE AccountsInv'
  <2> DEFINE d(p) == IF p = q THEN cart[Find(q)].qty ELSE 0
  <2>1. /\ Find(q) \in DOMAIN cart /\ cart[Find(q)].product = q
        /\ cart[Find(q)].qty \in Nat
        /\ cart' = Without(cart, Find(q))
        /\ tally'.twice = tally.twice /\ tally'.late = tally.late
        /\ \A p \in Products :
              /\ tally'.taken[p] = tally.taken[p] + d(p)
              /\ tally'.early[p] = tally.early[p] + IF Open = {} THEN 0 ELSE d(p)
    BY <1>3, RemoveIs
  <2>2. added' = added /\ calls' = calls /\ ordered' = ordered
    BY <1>3 DEF Remove
  <2>3. Open' = Open /\ Placed' = Placed /\ Smooth' = Smooth
    BY <2>1, <2>2 DEF Open, Placed, Smooth
  <2>4. ASSUME Smooth, NEW p \in Products
        PROVE  /\ Balanced(Demand(cart, p), p)'
               /\ \A c \in Open : Balanced(Demand(calls[c].lines, p), p)'
    <3>1. /\ Balanced(Demand(cart, p), p)
          /\ \A c \in Open : Balanced(Demand(calls[c].lines, p), p)
      BY <2>4 DEF AccountsInv
    <3>2. Demand(cart', p) = Demand(cart, p) - d(p)
      <4> DEFINE f == Find(q)
      <4>1. f \in DOMAIN cart /\ cart' = Without(cart, f)
            /\ d(p) = IF cart[f].product = p THEN cart[f].qty ELSE 0
        BY <2>1
      <4> HIDE DEF f, d
      <4> QED BY <1>0, <4>1, DemandWithout
    <3>3. Clicked(p)' = Clicked(p) /\ OnOrders(p)' = OnOrders(p)
      BY <1>0, <2>2, <2>3, OrdersSame DEF Clicked
    <3>4. Open \subseteq Calls /\ d(p) \in Nat
      BY <2>1 DEF Open
    <3>t. /\ Demand(cart, p) \in Nat /\ Clicked(p) \in Nat /\ OnOrders(p) \in Nat
          /\ tally.taken[p] \in Nat /\ tally.late[p] \in Nat /\ tally.early[p] \in Nat
      BY <1>0, <1>n
    <3>d. /\ tally'.taken[p] = tally.taken[p] + d(p) /\ tally'.late[p] = tally.late[p]
          /\ tally'.early[p] = tally.early[p] + IF Open = {} THEN 0 ELSE d(p)
      BY <2>1
    <3> HIDE DEF d
    <3>5. Balanced(Demand(cart, p), p)'
      BY <3>t, <3>d, <3>1, <3>2, <3>3, <3>4 DEF Balanced
    <3>6. ASSUME NEW c \in Open PROVE Balanced(Demand(calls[c].lines, p), p)'
      <4>1. /\ Demand(calls[c].lines, p) \in Nat /\ Open # {}
            /\ Balanced(Demand(calls[c].lines, p), p)
        BY <1>n, <3>1, <3>4
      <4>2. Demand(calls[c].lines, p)' = Demand(calls[c].lines, p)
        BY <2>2
      <4> QED BY <3>t, <3>d, <3>3, <3>4, <4>1, <4>2 DEF Balanced
    <3> QED BY <3>5, <3>6
  <2> QED BY <2>1, <2>2, <2>3, <2>4 DEF AccountsInv
<1>4. ASSUME NEW u \in Users, ClearCart(u) PROVE AccountsInv'
  <2>1. /\ cart' = <<>>
        /\ tally'.twice = tally.twice /\ tally'.late = tally.late
        /\ \A p \in Products :
              /\ tally'.taken[p] = tally.taken[p] + Demand(cart, p)
              /\ tally'.early[p] = tally.early[p] + IF Open = {} THEN 0
                                                    ELSE Demand(cart, p)
    BY <1>4, ClearIs
  <2>2. added' = added /\ calls' = calls /\ ordered' = ordered
    BY <1>4 DEF ClearCart
  <2>3. Open' = Open /\ Placed' = Placed /\ Smooth' = Smooth
    BY <2>1, <2>2 DEF Open, Placed, Smooth
  <2>4. ASSUME Smooth, NEW p \in Products
        PROVE  /\ Balanced(Demand(cart, p), p)'
               /\ \A c \in Open : Balanced(Demand(calls[c].lines, p), p)'
    <3>1. /\ Balanced(Demand(cart, p), p)
          /\ \A c \in Open : Balanced(Demand(calls[c].lines, p), p)
      BY <2>4 DEF AccountsInv
    <3>2. Demand(cart', p) = 0
      BY <2>1, DemandEmpty
    <3>3. Clicked(p)' = Clicked(p) /\ OnOrders(p)' = OnOrders(p)
      BY <1>0, <2>2, <2>3, OrdersSame DEF Clicked
    <3>4. Open \subseteq Calls
      BY DEF Open
    <3>t. /\ Demand(cart, p) \in Nat /\ Clicked(p) \in Nat /\ OnOrders(p) \in Nat
          /\ tally.taken[p] \in Nat /\ tally.late[p] \in Nat /\ tally.early[p] \in Nat
      BY <1>0, <1>n
    <3>d. /\ tally'.taken[p] = tally.taken[p] + Demand(cart, p)
          /\ tally'.late[p] = tally.late[p]
          /\ tally'.early[p] = tally.early[p] + IF Open = {} THEN 0 ELSE Demand(cart, p)
      BY <2>1
    <3>5. Balanced(Demand(cart, p), p)'
      BY <3>t, <3>d, <3>1, <3>2, <3>3 DEF Balanced
    <3>6. ASSUME NEW c \in Open PROVE Balanced(Demand(calls[c].lines, p), p)'
      <4>1. /\ Demand(calls[c].lines, p) \in Nat /\ Open # {}
            /\ Balanced(Demand(calls[c].lines, p), p)
        BY <1>n, <3>1, <3>4
      <4>2. Demand(calls[c].lines, p)' = Demand(calls[c].lines, p)
        BY <2>2
      <4> QED BY <3>t, <3>d, <3>3, <4>1, <4>2 DEF Balanced
    <3> QED BY <3>5, <3>6
  <2> QED BY <2>1, <2>2, <2>3, <2>4 DEF AccountsInv
<1>5. ASSUME NEW u \in Users, NEW c \in Calls, Checkout(u, c) PROVE AccountsInv'
  <2>1. /\ calls[c].pc = "none"
        /\ calls' = [calls EXCEPT ![c] = [pc |-> "sent", user |-> u, lines |-> cart]]
        /\ cart' = cart /\ added' = added /\ ordered' = ordered
        /\ tally' = [tally EXCEPT !.twice = tally.twice \/ Open # {}]
    BY <1>5 DEF Checkout
  <2>2. /\ tally'.taken = tally.taken /\ tally'.late = tally.late
        /\ tally'.early = tally.early
        /\ tally'.twice = (tally.twice \/ Open # {})
    BY <1>0, <2>1 DEF TypeOK, Tally
  <2>3. /\ Open' = Open \cup {c} /\ Placed' = Placed /\ c \notin Placed
        /\ \A e \in Calls \ {c} : calls'[e] = calls[e]
        /\ calls'[c].lines = cart
    BY <1>0, <2>1 DEF TypeOK, Open, Placed
  <2>4. Smooth' => Smooth
    BY <1>0, <2>1, <2>2, <2>3 DEF Smooth
  <2>5. ~tally'.twice => Open' = {c}
    BY <2>2, <2>3
  <2>6. ASSUME Smooth', NEW p \in Products
        PROVE  /\ Balanced(Demand(cart, p), p)'
               /\ \A e \in Open' : Balanced(Demand(calls[e].lines, p), p)'
    <3>1. Balanced(Demand(cart, p), p)
      BY <2>4, <2>6 DEF AccountsInv
    <3>2. \A e \in Placed : calls'[e].lines = calls[e].lines
      BY <2>3 DEF Placed
    <3>3. Clicked(p)' = Clicked(p) /\ OnOrders(p)' = OnOrders(p)
      BY <1>0, <2>1, <2>3, <3>2, OrdersSame DEF Clicked
    <3>4. Balanced(Demand(cart, p), p)'
      BY <2>1, <2>2, <3>1, <3>3 DEF Balanced
    <3>5. Open' = {c}
      BY <2>5, <2>6 DEF Smooth
    <3>6. Demand(calls'[c].lines, p) = Demand(cart', p)
      BY <2>1, <2>3
    <3> QED BY <3>4, <3>5, <3>6 DEF Balanced
  <2> QED BY <2>5, <2>6 DEF AccountsInv
<1>6. ASSUME NEW u \in Users, CircuitEnds(u) PROVE AccountsInv'
  <2>1. PICK c \in Open : calls[c].user = u
    BY <1>6 DEF CircuitEnds
  <2>2. /\ tally' = tally
        /\ calls' = [d \in Calls |-> IF d \in Open /\ calls[d].user = u
                                     THEN [calls[d] EXCEPT !.pc = "dropped"]
                                     ELSE calls[d]]
    BY <1>6 DEF CircuitEnds
  <2>3. c \in Calls /\ calls'[c].pc = "dropped" /\ Open' \subseteq Open
    BY <1>0, <2>1, <2>2 DEF TypeOK, Open
  <2>4. ~Smooth'
    BY <2>3 DEF Smooth
  <2> QED BY <2>2, <2>3, <2>4 DEF AccountsInv
<1>7. ASSUME NEW c \in Calls, Order(c) PROVE AccountsInv'
  <2>1. /\ ordered \subseteq ordered'
        /\ cart' = cart /\ calls' = calls /\ added' = added /\ tally' = tally
    BY <1>7 DEF Order
  <2>2. Smooth' => Smooth
    BY <2>1 DEF Smooth
  <2> QED
    BY <2>1, <2>2 DEF AccountsInv, Open, Balanced, Clicked, OnOrders, Placed
<1>8. ASSUME NEW c \in Calls, CheckoutSucceeds(c) PROVE AccountsInv'
  <2>1. /\ c \in Open /\ calls[c].pc = "sent"
        /\ calls' = [calls EXCEPT ![c].pc = "placed"]
        /\ cart' = <<>> /\ ordered' = ordered /\ added' = added /\ tally' = tally
    BY <1>8 DEF CheckoutSucceeds, Open
  <2>2. /\ Open' = Open \ {c} /\ c \notin Placed
        /\ \A d \in Calls \ {c} : calls'[d] = calls[d]
    BY <1>0, <2>1 DEF TypeOK, Open, Placed
  <2>3. Smooth' => Smooth
    BY <2>1, <2>2 DEF Smooth
  <2>4. ~tally'.twice => Open' = {}
    BY <2>1, <2>2 DEF AccountsInv
  <2>5. ASSUME Smooth', NEW p \in Products PROVE Balanced(Demand(cart, p), p)'
    <3>1. Balanced(Demand(calls[c].lines, p), p)
      BY <2>1, <2>3, <2>5 DEF AccountsInv
    <3>2. Demand(cart', p) = 0
      BY <2>1, DemandEmpty
    <3>3. Clicked(p)' = Clicked(p)
      BY <2>1 DEF Clicked
    <3>4. OnOrders(p)' = OnOrders(p) + Demand(calls[c].lines, p)
      BY <1>0, <2>1, <2>2, OrdersMore
    <3> QED BY <1>n, <2>1, <3>1, <3>2, <3>3, <3>4 DEF Balanced
  <2>6. Smooth' => Open' = {}
    BY <2>4 DEF Smooth
  <2> QED BY <2>4, <2>5, <2>6 DEF AccountsInv
<1>9. ASSUME NEW c \in Calls, CheckoutFails(c) PROVE AccountsInv'
  <2>1. /\ c \in Open /\ calls[c].pc = "sent"
        /\ calls' = [calls EXCEPT ![c].pc = "refused"]
        /\ cart' = cart /\ ordered' = ordered /\ added' = added /\ tally' = tally
    BY <1>9 DEF CheckoutFails, Open
  <2>2. /\ Open' = Open \ {c} /\ Placed' = Placed
        /\ \A d \in Calls \ {c} : calls'[d] = calls[d]
        /\ \A d \in Calls : calls'[d].lines = calls[d].lines
    BY <1>0, <2>1 DEF TypeOK, Open, Placed
  <2>3. Smooth' => Smooth
    BY <2>1, <2>2 DEF Smooth
  <2>4. ASSUME Smooth', NEW p \in Products
        PROVE  /\ Balanced(Demand(cart, p), p)'
               /\ \A d \in Open' : Balanced(Demand(calls[d].lines, p), p)'
    <3>1. /\ Balanced(Demand(cart, p), p)
          /\ \A d \in Open : Balanced(Demand(calls[d].lines, p), p)
      BY <2>3, <2>4 DEF AccountsInv
    <3>2. \A d \in Placed : calls'[d].lines = calls[d].lines
      BY <2>2 DEF Placed
    <3>3. Clicked(p)' = Clicked(p) /\ OnOrders(p)' = OnOrders(p)
      BY <1>0, <2>1, <2>2, <3>2, OrdersSame DEF Clicked
    <3>4. Balanced(Demand(cart, p), p)'
      BY <2>1, <3>1, <3>3 DEF Balanced
    <3>5. ASSUME NEW d \in Open' PROVE Balanced(Demand(calls[d].lines, p), p)'
      <4>1. d \in Open /\ d \in Calls /\ calls'[d].lines = calls[d].lines
        BY <2>2 DEF Open
      <4> QED BY <2>1, <3>1, <3>3, <4>1 DEF Balanced
    <3> QED BY <3>4, <3>5
  <2> QED BY <2>1, <2>2, <2>4 DEF AccountsInv
<1>10. ASSUME NEW c \in Calls, CallTimesOut(c) PROVE AccountsInv'
  <2>1. tally' = tally /\ calls' = [calls EXCEPT ![c].pc = "dropped"]
    BY <1>10 DEF CallTimesOut
  <2>2. calls'[c].pc = "dropped" /\ Open' \subseteq Open
    BY <1>0, <2>1 DEF TypeOK, Open
  <2>3. ~Smooth'
    BY <2>2 DEF Smooth
  <2> QED BY <2>1, <2>2, <2>3 DEF AccountsInv
<1>11. CASE UNCHANGED vars
  BY <1>11
     DEF vars, AccountsInv, Open, Smooth, Balanced, Clicked, OnOrders, Placed
<1> QED
  BY <1>1, <1>2, <1>3, <1>4, <1>5, <1>6, <1>7, <1>8, <1>9, <1>10, <1>11 DEF Next

\* For one user, however many calls and clicks there are: while nothing fails in the eyes
\* of the portal and no call is made beside an open one, every unit clicked into the cart
\* is in it, or was taken out, or is on exactly one order that the user was told of; but
\* for those put in, or taken out, while a call was open.
THEOREM EveryUnitAccounted ==
    ASSUME OneUser, IsFiniteSet(Calls) PROVE Spec => []UnitsAccounted
<1>1. CartInv /\ LinesInv /\ [Next]_vars => LinesInv'
  BY NextLines
<1>2. Init => AccountsInv
  BY InitAccounts
<1>3. CartInv /\ LinesInv /\ AccountsInv /\ [Next]_vars => AccountsInv'
  BY NextAccounts
<1>4. AccountsInv => UnitsAccounted
  BY DEF AccountsInv, UnitsAccounted
<1> QED BY <1>1, <1>2, <1>3, <1>4, InitCart, NextCart, InitLines, PTL DEF Spec

-----------------------------------------------------------------------------
(***************************************************************************)
(* What a request can ask for.                                             *)
(***************************************************************************)

\* A part of a sum of natural numbers is not greater than the sum.
LEMMA PartOfSum ==
    ASSUME NEW S, IsFiniteSet(S), NEW f, \A y \in S : f[y] \in Nat, NEW x \in S
    PROVE  f[x] <= SumFunctionOnSet(f, S)
<1>1. IsFiniteSet(S \ {x}) /\ \A y \in S : f[y] \in Int
  BY FS_RemoveElement
<1>2. SumFunctionOnSet(f, S) = f[x] + SumFunctionOnSet(f, S \ {x})
  BY <1>1, SumSplit
<1>3. SumFunctionOnSet(f, S \ {x}) \in Nat
  BY <1>1, SumNat
<1> QED BY <1>2, <1>3

\* The clicks, user by user.
LEMMA ClicksAre ==
    ASSUME TypeOK, IsFiniteSet(Users), IsFiniteSet(Products)
    PROVE  /\ Clicks \in Nat
           /\ \A u \in Users : \A p \in Products : added[u][p] <= Clicks
<1> DEFINE F == [u \in Users |-> SumFunction(added[u])]
<1>1. \A u \in Users : /\ SumFunction(added[u]) = SumFunctionOnSet(added[u], Products)
                       /\ \A p \in Products : added[u][p] \in Nat
  <2>1. \A u \in Users : DOMAIN added[u] = Products
                         /\ \A p \in Products : added[u][p] \in Nat
    BY DEF TypeOK
  <2> QED BY <2>1 DEF SumFunction
<1>2. \A u \in Users : F[u] \in Nat
  BY <1>1, SumNat
<1>3. Clicks = SumFunctionOnSet(F, Users)
  <2>1. DOMAIN F = Users
    OBVIOUS
  <2> QED BY <2>1 DEF Clicks, SumFunction
<1>4. \A u \in Users : \A p \in Products : added[u][p] <= F[u]
  BY <1>1, PartOfSum
<1> HIDE DEF F
<1>5. Clicks \in Nat /\ \A u \in Users : F[u] <= Clicks
  BY <1>2, <1>3, SumNat, PartOfSum
<1>6. ASSUME NEW u \in Users, NEW p \in Products PROVE added[u][p] <= Clicks
  <2>1. added[u][p] \in Nat /\ F[u] \in Nat /\ added[u][p] <= F[u] /\ F[u] <= Clicks
    BY <1>1, <1>2, <1>4, <1>5
  <2> QED BY <2>1, <1>5
<1> QED BY <1>5, <1>6

\* A click makes one more.
LEMMA ClicksOneMore ==
    ASSUME TypeOK, IsFiniteSet(Users), IsFiniteSet(Products),
           NEW u \in Users, NEW q \in Products,
           added' = [added EXCEPT ![u][q] = added[u][q] + 1]
    PROVE  Clicks' = Clicks + 1
<1> DEFINE F == [v \in Users |-> SumFunction(added[v])]
           G == [v \in Users |-> SumFunction(added'[v])]
<1>1. \A v \in Users : \A p \in Products :
          /\ added[v][p] \in Nat /\ added'[v][p] \in Nat
          /\ added'[v][p] = IF v = u /\ p = q THEN added[v][p] + 1 ELSE added[v][p]
  BY DEF TypeOK
<1>2. \A v \in Users : /\ SumFunction(added[v]) = SumFunctionOnSet(added[v], Products)
                       /\ SumFunction(added'[v]) = SumFunctionOnSet(added'[v], Products)
  <2>1. \A v \in Users : DOMAIN added[v] = Products /\ DOMAIN added'[v] = Products
    BY DEF TypeOK
  <2> QED BY <2>1 DEF SumFunction
<1>3. \A v \in Users : F[v] \in Nat /\ G[v] \in Nat
  <2> SUFFICES ASSUME NEW v \in Users PROVE F[v] \in Nat /\ G[v] \in Nat
    OBVIOUS
  <2>1. SumFunctionOnSet(added[v], Products) \in Nat
    BY <1>1, SumNat
  <2>2. SumFunctionOnSet(added'[v], Products) \in Nat
    BY <1>1, SumNat
  <2> QED BY <1>2, <2>1, <2>2
<1>4. G[u] = F[u] + 1
  <2> DEFINE f == added[u]
             g == added'[u]
  <2>1. /\ \A p \in Products : f[p] \in Int /\ g[p] \in Int
        /\ \A p \in Products \ {q} : g[p] = f[p]
        /\ g[q] = f[q] + 1
    BY <1>1
  <2>2. SumFunctionOnSet(f, Products) = F[u] /\ SumFunctionOnSet(g, Products) = G[u]
    BY <1>2
  <2>3. F[u] \in Int
    BY <1>3
  <2> HIDE DEF f, g, F, G
  <2>4. SumFunctionOnSet(g, Products) = SumFunctionOnSet(f, Products) + g[q] - f[q]
    BY <2>1, SumChange
  <2>5. f[q] \in Int
    BY <2>1
  <2> QED BY <2>1, <2>2, <2>3, <2>4, <2>5
<1>5. \A v \in Users \ {u} : G[v] = F[v]
  <2>1. \A v \in Users \ {u} : added'[v] = added[v]
    BY DEF TypeOK
  <2> QED BY <2>1
<1>6. Clicks = SumFunctionOnSet(F, Users) /\ Clicks' = SumFunctionOnSet(G, Users)
  <2>1. DOMAIN F = Users /\ DOMAIN G = Users
    OBVIOUS
  <2> QED BY <2>1 DEF Clicks, SumFunction
<1> HIDE DEF F, G
<1>7. \A v \in Users : F[v] \in Int /\ G[v] \in Int
  BY <1>3
<1>8. SumFunctionOnSet(G, Users) = SumFunctionOnSet(F, Users) + G[u] - F[u]
  BY <1>5, <1>7, SumChange
<1>9. SumFunctionOnSet(F, Users) \in Int /\ F[u] \in Int
  BY <1>7, SumType
<1> QED BY <1>4, <1>6, <1>8, <1>9

\* No line asks for more than was clicked: a line that is found is that of the product,
\* and it grows with the count of clicks.
LEMMA NextClicks ==
    ASSUME OneUser, IsFiniteSet(Products), CartInv, LinesInv, ClicksInv, [Next]_vars
    PROVE  ClicksInv'
<1>0. /\ TypeOK /\ cart \in Seq(CartItem) /\ IsFiniteSet(Users)
      /\ Clicks \in Nat /\ Clicks <= MaxAdds /\ MaxAdds \in Nat
      /\ LinesClicked(cart) /\ \A c \in Calls : LinesClicked(calls[c].lines)
      /\ \A u \in Users : ~Free(u) => Clicks < MaxAdds
  BY UsersFinite, ClicksAre, MaxAddsAssumption DEF CartInv, TypeOK, ClicksInv
<1> DEFINE Fits(lines) == \A v \in Users : \A i \in DOMAIN lines :
                              lines[i].qty <= added'[v][lines[i].product]
<1>f. Fits(<<>>)
  OBVIOUS
<1>1. ASSUME NEW u \in Users, NEW p \in Products, AddLookUp(u, p) PROVE ClicksInv'
  BY <1>0, <1>1 DEF AddLookUp, ClicksInv, LinesClicked, Clicks, Free
<1>2. ASSUME NEW u \in Users, AddToCart(u) PROVE ClicksInv'
  <2> DEFINE q == adding[u][1]
  <2>1. /\ adding[u] \in Products \X {"none", "line", "stray"}
        /\ adding[u][2] = "none" =>
              cart' = Append(cart, [product |-> q, qty |-> 1])
        /\ adding[u][2] = "line" =>
              /\ Find(q) \in DOMAIN cart
              /\ cart[Find(q)].product = q
              /\ cart[Find(q)].qty \in Nat \ {0}
              /\ cart' = [cart EXCEPT ![Find(q)].qty = cart[Find(q)].qty + 1]
        /\ adding[u][2] = "stray" => cart' = cart
        /\ added' = [added EXCEPT ![u][q] = added[u][q] + 1]
    BY <1>2, AddIs
  <2>2. q \in Products /\ adding[u][2] \in {"none", "line", "stray"}
    BY <2>1
  <2>3. adding' = [adding EXCEPT ![u] = <<>>] /\ calls' = calls /\ ~Free(u)
    BY <1>2 DEF AddToCart
  <2>4. \A v \in Users : Free(v)'
    BY <1>0, <2>3 DEF OneUser, TypeOK, Free
  <2> HIDE DEF q
  <2>5. Clicks' = Clicks + 1
    BY <1>0, <2>1, <2>2, ClicksOneMore
  <2>6. \A v \in Users : \A p \in Products :
            /\ added[v][p] \in Nat /\ added'[v][p] \in Nat
            /\ added[v][p] <= added'[v][p]
            /\ p = q => added'[v][p] = added[v][p] + 1
    BY <1>0, <2>1, <2>2 DEF OneUser, TypeOK
  <2>7. ASSUME NEW lines \in Seq(CartItem), LinesClicked(lines) PROVE Fits(lines)
    <3> SUFFICES ASSUME NEW v \in Users, NEW i \in DOMAIN lines
                 PROVE  lines[i].qty <= added'[v][lines[i].product]
      OBVIOUS
    <3>1. lines[i] \in CartItem /\ lines[i].qty <= added[v][lines[i].product]
      BY <2>7, LinesType DEF LinesClicked
    <3>2. lines[i].product \in Products /\ lines[i].qty \in Nat
      BY <3>1 DEF CartItem
    <3> QED BY <2>6, <3>1, <3>2
  <2>8. Fits(cart)
    BY <1>0, <2>7
  <2>9. \A c \in Calls : Fits(calls[c].lines)
    BY <1>0, <2>7 DEF TypeOK
  <2>10. Fits(cart')
    <3>0. /\ DOMAIN cart = 1 .. Len(cart) /\ Len(cart) \in Nat
          /\ \A i \in DOMAIN cart : cart[i] \in CartItem
      BY <1>0, LinesType
    <3> SUFFICES ASSUME NEW v \in Users, NEW i \in DOMAIN cart'
                 PROVE  cart'[i].qty <= added'[v][cart'[i].product]
      OBVIOUS
    <3>1. CASE adding[u][2] = "none"
      <4> DEFINE line == [product |-> q, qty |-> 1]
      <4>1. cart' = Append(cart, line) /\ line.product = q /\ line.qty = 1
        BY <2>1, <3>1
      <4> HIDE DEF line
      <4>2. \/ i \in DOMAIN cart /\ cart'[i] = cart[i]
            \/ cart'[i] = line
        BY <1>0, <3>0, <4>1
      <4>3. added[v][q] \in Nat /\ added'[v][q] = added[v][q] + 1
        BY <2>2, <2>6
      <4>4. 1 <= added'[v][q]
        BY <4>3
      <4> QED BY <2>8, <4>1, <4>2, <4>4
    <3>2. CASE adding[u][2] = "line"
      <4> DEFINE f == Find(q)
                 n == cart[f].qty + 1
      <4>1. /\ f \in DOMAIN cart /\ cart[f].product = q /\ cart[f].qty \in Nat
            /\ cart' = [cart EXCEPT ![f].qty = n]
        BY <2>1, <3>2
      <4>2. n = cart[f].qty + 1
        OBVIOUS
      <4> HIDE DEF f, n
      <4>3. CASE i # f
        <5>1. i \in DOMAIN cart /\ cart'[i] = cart[i]
          BY <4>1, <4>3
        <5> QED BY <2>8, <5>1
      <4>4. CASE i = f
        <5>1. cart'[i].qty = n /\ cart'[i].product = q
          BY <3>0, <4>1, <4>4 DEF CartItem
        <5>2. cart[f].qty <= added[v][q]
          BY <1>0, <4>1 DEF LinesClicked
        <5>3. added[v][q] \in Nat /\ added'[v][q] = added[v][q] + 1
          BY <2>2, <2>6
        <5>4. n <= added'[v][q]
          BY <4>1, <4>2, <5>2, <5>3
        <5> QED BY <5>1, <5>4
      <4> QED BY <4>3, <4>4
    <3>3. CASE adding[u][2] = "stray"
      <4>1. cart' = cart
        BY <2>1, <3>3
      <4> QED BY <2>8, <4>1
    <3> QED BY <2>2, <3>1, <3>2, <3>3
  <2>11. Clicks' <= MaxAdds
    BY <1>0, <2>3, <2>5
  <2> QED BY <2>3, <2>4, <2>9, <2>10, <2>11 DEF ClicksInv, LinesClicked
<1>3. ASSUME NEW u \in Users, NEW p \in Products, Remove(u, p) PROVE ClicksInv'
  <2>1. Find(p) \in DOMAIN cart /\ cart' = Without(cart, Find(p))
    BY <1>3, RemoveIs
  <2>2. Forget({p}) /\ calls' = calls /\ added' = added /\ Free(u)
    BY <1>3 DEF Remove
  <2>3. adding' = adding
    BY <1>0, <2>2, NothingToForget
  <2>4. ASSUME NEW i \in DOMAIN cart' PROVE \E j \in DOMAIN cart : cart'[i] = cart[j]
    <3>1. /\ Len(cart) \in Nat /\ DOMAIN cart = 1 .. Len(cart)
          /\ DOMAIN Without(cart, Find(p)) = 1 .. Len(cart) - 1
          /\ \A j \in 1 .. Len(cart) - 1 :
                Without(cart, Find(p))[j] = cart[IF j < Find(p) THEN j ELSE j + 1]
      BY <1>0, <2>1, LinesType, WithoutIs
    <3>2. i \in 1 .. Len(cart) - 1
      BY <2>1, <3>1
    <3>3. (IF i < Find(p) THEN i ELSE i + 1) \in DOMAIN cart
      BY <3>1, <3>2
    <3> QED BY <2>1, <3>1, <3>2, <3>3
  <2>5. LinesClicked(cart)'
    BY <1>0, <2>2, <2>4 DEF LinesClicked
  <2> QED BY <1>0, <2>2, <2>3, <2>5 DEF ClicksInv, LinesClicked, Clicks, Free
<1>4. ASSUME NEW u \in Users, ClearCart(u) PROVE ClicksInv'
  <2>1. Forget(Products) /\ cart' = <<>> /\ calls' = calls /\ added' = added /\ Free(u)
    BY <1>4 DEF ClearCart
  <2>2. adding' = adding
    BY <1>0, <2>1, NothingToForget
  <2> QED BY <1>0, <1>f, <2>1, <2>2 DEF ClicksInv, LinesClicked, Clicks, Free
<1>5. ASSUME NEW u \in Users, NEW c \in Calls, Checkout(u, c) PROVE ClicksInv'
  <2>1. /\ calls' = [calls EXCEPT ![c] = [pc |-> "sent", user |-> u, lines |-> cart]]
        /\ cart' = cart /\ adding' = adding /\ added' = added
    BY <1>5 DEF Checkout
  <2>2. \A d \in Calls : calls'[d].lines = calls[d].lines \/ calls'[d].lines = cart
    BY <1>0, <2>1 DEF TypeOK
  <2> QED BY <1>0, <2>1, <2>2 DEF ClicksInv, LinesClicked, Clicks, Free
<1>6. ASSUME NEW u \in Users, CircuitEnds(u) PROVE ClicksInv'
  <2>1. /\ cart' = cart /\ adding' = adding /\ added' = added
        /\ \A c \in Calls : calls'[c].lines = calls[c].lines
    BY <1>0, <1>6 DEF CircuitEnds, TypeOK, Open
  <2> QED BY <1>0, <2>1 DEF ClicksInv, LinesClicked, Clicks, Free
<1>7. ASSUME NEW c \in Calls, Order(c) PROVE ClicksInv'
  BY <1>0, <1>7 DEF Order, ClicksInv, LinesClicked, Clicks, Free
<1>8. ASSUME NEW c \in Calls, CheckoutSucceeds(c) PROVE ClicksInv'
  <2>1. /\ Forget(Products) /\ cart' = <<>> /\ Free(calls[c].user) /\ added' = added
        /\ calls' = [calls EXCEPT ![c].pc = "placed"] /\ calls[c].pc = "sent"
    BY <1>8 DEF CheckoutSucceeds, Open
  <2>2. calls[c].user \in Users
    BY <2>1 DEF LinesInv, CallersKnown
  <2>3. adding' = adding
    BY <1>0, <2>1, <2>2, NothingToForget
  <2>4. \A d \in Calls : calls'[d].lines = calls[d].lines
    BY <1>0, <2>1 DEF TypeOK
  <2> QED BY <1>0, <1>f, <2>1, <2>3, <2>4 DEF ClicksInv, LinesClicked, Clicks, Free
<1>9. ASSUME NEW c \in Calls, CheckoutFails(c) PROVE ClicksInv'
  <2>1. /\ cart' = cart /\ adding' = adding /\ added' = added
        /\ \A d \in Calls : calls'[d].lines = calls[d].lines
    BY <1>0, <1>9 DEF CheckoutFails, TypeOK, Open
  <2> QED BY <1>0, <2>1 DEF ClicksInv, LinesClicked, Clicks, Free
<1>10. ASSUME NEW c \in Calls, CallTimesOut(c) PROVE ClicksInv'
  <2>1. /\ cart' = cart /\ adding' = adding /\ added' = added
        /\ \A d \in Calls : calls'[d].lines = calls[d].lines
    BY <1>0, <1>10 DEF CallTimesOut, TypeOK, Open
  <2> QED BY <1>0, <2>1 DEF ClicksInv, LinesClicked, Clicks, Free
<1>11. CASE UNCHANGED vars
  BY <1>0, <1>11 DEF vars, ClicksInv, LinesClicked, Clicks, Free
<1> QED
  BY <1>1, <1>2, <1>3, <1>4, <1>5, <1>6, <1>7, <1>8, <1>9, <1>10, <1>11 DEF Next

\* Nobody has clicked yet.
LEMMA InitClicks ==
    ASSUME OneUser, IsFiniteSet(Products), Init PROVE ClicksInv
<1>0. IsFiniteSet(Users) /\ MaxAdds \in Nat
  BY UsersFinite, MaxAddsAssumption
<1>1. \A u \in Users : SumFunction(added[u]) = 0
  <2> SUFFICES ASSUME NEW u \in Users PROVE SumFunction(added[u]) = 0
    OBVIOUS
  <2> DEFINE f == added[u]
  <2>1. DOMAIN f = Products /\ \A p \in Products : f[p] = 0
    BY DEF Init, Nothing
  <2>2. SumFunction(f) = SumFunctionOnSet(f, Products)
    BY <2>1 DEF SumFunction
  <2> HIDE DEF f
  <2>3. SumFunctionOnSet(f, Products) = 0
    BY <2>1, SumZero
  <2>4. SumFunction(f) = 0
    BY <2>2, <2>3
  <2> QED BY <2>4 DEF f
<1>2. Clicks = 0
  <2> DEFINE F == [u \in Users |-> SumFunction(added[u])]
  <2>1. DOMAIN F = Users /\ \A u \in Users : F[u] = 0
    BY <1>1
  <2>2. Clicks = SumFunctionOnSet(F, Users)
    BY <2>1 DEF Clicks, SumFunction
  <2> HIDE DEF F
  <2> QED BY <1>0, <2>1, <2>2, SumZero
<1>3. LinesClicked(<<>>)
  BY DEF LinesClicked
<1>4. cart = <<>> /\ \A c \in Calls : calls[c].lines = <<>>
  BY DEF Init
<1>5. \A u \in Users : Free(u)
  BY DEF Init, Free
<1> QED BY <1>0, <1>2, <1>3, <1>4, <1>5 DEF ClicksInv

\* A call that was made has lines.
HaveLines == \A c \in Calls : calls[c].pc # "none" => calls[c].lines # <<>>

\* No step sends a request without lines.
LEMMA NextHaveLines ==
    TypeOK /\ HaveLines /\ [Next]_vars => HaveLines'
<1> SUFFICES ASSUME TypeOK, HaveLines, [Next]_vars PROVE HaveLines'
  OBVIOUS
<1>1. ASSUME NEW u \in Users, NEW c \in Calls, Checkout(u, c) PROVE HaveLines'
  BY <1>1 DEF Checkout, TypeOK, HaveLines
<1>2. ASSUME NEW u \in Users, CircuitEnds(u) PROVE HaveLines'
  BY <1>2 DEF CircuitEnds, Open, TypeOK, HaveLines
<1>3. ASSUME NEW c \in Calls, CheckoutSucceeds(c) \/ CheckoutFails(c) \/ CallTimesOut(c)
      PROVE  HaveLines'
  BY <1>3 DEF CheckoutSucceeds, CheckoutFails, CallTimesOut, Open, TypeOK, HaveLines
<1>4. CASE calls' = calls
  BY <1>4 DEF HaveLines
<1>5. ASSUME NEW u \in Users, NEW p \in Products, AddLookUp(u, p) \/ Remove(u, p)
      PROVE  HaveLines'
  BY <1>4, <1>5 DEF AddLookUp, Remove
<1>6. ASSUME NEW u \in Users, AddToCart(u) \/ ClearCart(u) PROVE HaveLines'
  BY <1>4, <1>6 DEF AddToCart, ClearCart
<1>7. ASSUME NEW c \in Calls, Order(c) PROVE HaveLines'
  BY <1>4, <1>7 DEF Order
<1>8. CASE UNCHANGED vars
  BY <1>4, <1>8 DEF vars
<1> QED BY <1>1, <1>2, <1>3, <1>5, <1>6, <1>7, <1>8 DEF Next

\* A line cannot ask for more than all clicks together.
LEMMA WithinClicks ==
    ASSUME IsFiniteSet(Users), IsFiniteSet(Products), CartInv, LinesInv, ClicksInv, HaveLines
    PROVE  RequestsBounded
<1> SUFFICES ASSUME NEW c \in Calls, calls[c].pc # "none",
                    NEW i \in DOMAIN calls[c].lines
             PROVE  calls[c].lines[i].qty <= MaxAdds
  BY DEF RequestsBounded, HaveLines
<1>1. TypeOK /\ MaxAdds \in Nat /\ Clicks \in Nat /\ Clicks <= MaxAdds
  BY ClicksAre, MaxAddsAssumption DEF CartInv, ClicksInv
<1> DEFINE u == calls[c].user
           line == calls[c].lines[i]
<1>2. u \in Users
  BY DEF LinesInv, CallersKnown
<1>3. line \in CartItem
  <2>1. calls[c].lines \in Seq(CartItem)
    BY <1>1 DEF TypeOK
  <2> QED BY <2>1, LinesType
<1>4. line.qty <= added[u][line.product]
  BY <1>2 DEF ClicksInv, LinesClicked
<1> HIDE DEF u, line
<1>5. line.product \in Products /\ line.qty \in Nat
  BY <1>3 DEF CartItem
<1>6. added[u][line.product] \in Nat /\ added[u][line.product] <= Clicks
  BY <1>1, <1>2, <1>5, ClicksAre DEF TypeOK
<1>7. line.qty <= MaxAdds
  BY <1>1, <1>4, <1>5, <1>6
<1> QED BY <1>7 DEF line

\* For one user, and any finite catalogue: a request that was made has a line, and no
\* line of it asks for more than was ever clicked.
THEOREM RequestsWithinClicks ==
    ASSUME OneUser, IsFiniteSet(Products) PROVE Spec => []RequestsBounded
<1>1. CartInv /\ LinesInv /\ [Next]_vars => LinesInv'
  BY NextLines
<1>2. Init => ClicksInv
  BY InitClicks
<1>3. CartInv /\ LinesInv /\ ClicksInv /\ [Next]_vars => ClicksInv'
  BY NextClicks
<1>4. Init => HaveLines
  BY DEF Init, HaveLines
<1>5. CartInv /\ HaveLines /\ [Next]_vars => HaveLines'
  BY NextHaveLines DEF CartInv
<1>6. CartInv /\ LinesInv /\ ClicksInv /\ HaveLines => RequestsBounded
  BY UsersFinite, WithinClicks
<1> QED BY <1>1, <1>2, <1>3, <1>4, <1>5, <1>6, InitCart, NextCart, InitLines, PTL DEF Spec
=============================================================================
