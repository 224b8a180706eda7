------------------------ MODULE StripeCheckoutProofs ------------------------
(***************************************************************************)
(* What StripeCheckout promises for any number of products, payments,      *)
(* failures, deletions and returns to old pages: for any number of tabs    *)
(* that every order was priced as one cart, and for one tab that each      *)
(* checkout becomes one order at most.                                     *)
(***************************************************************************)
EXTENDS StripeCheckout, SequenceTheorems, TLAPS

Pages == {"store", "ending", "creating", "stripe", "success", "verifying",
          "failed", "cancelled", "completed"}

NextPages == {"store", "stripe", "failed", "completed"}

-----------------------------------------------------------------------------
(***************************************************************************)
(* Tabs and sessions.                                                      *)
(***************************************************************************)

\* A new session has the form of one, and is empty.
LEMMA EmptySession ==
    /\ NoLines \in Lines
    /\ NewSession \in Sessions
    /\ NewSession.cart = NoLines /\ NewSession.pending = NoLines
    /\ NewSession.origin = NoPayment
    /\ Browsing \in TabStates
    /\ Browsing.page = "store" /\ Browsing.copy = NewSession
BY QuantityAssumption DEF NoLines, Lines, NewSession, Sessions, Browsing, TabStates

\* A session whose cart or pending order is replaced.
LEMMA SessionWith ==
    ASSUME NEW s \in Sessions, NEW lines \in Lines
    PROVE  /\ [s EXCEPT !.cart = lines] \in Sessions
           /\ [s EXCEPT !.cart = lines].pending = s.pending
           /\ [s EXCEPT !.cart = lines].origin = s.origin
           /\ [s EXCEPT !.pending = lines, !.origin = NoPayment] \in Sessions
           /\ [s EXCEPT !.pending = lines, !.origin = NoPayment].pending = lines
           /\ [s EXCEPT !.pending = lines, !.origin = NoPayment].cart = s.cart
BY DEF Sessions

\* A session whose pending order is dropped.
LEMMA SessionDropped ==
    ASSUME NEW s \in Sessions
    PROVE  WithoutPending(s) \in Sessions /\ WithoutPending(s).pending = NoLines
BY EmptySession DEF WithoutPending, Sessions

\* What an answered request leaves of the tabs.
LEMMA Responded ==
    ASSUME TypeOK, NEW t \in Tabs, NEW c \in Sessions, NEW page \in NextPages,
           Respond(t, c, page)
    PROVE  /\ tab' \in [Tabs -> TabStates]
           /\ tab'[t].page = "ending" /\ tab'[t].next = page
           /\ tab'[t].payment = tab[t].payment /\ tab'[t].copy = c
           /\ \A u \in Tabs \ {t} : tab'[u] = tab[u]
BY DEF TypeOK, Respond, TabStates, NextPages

\* What a tab is when it shows a page.
LEMMA WentTo ==
    ASSUME TypeOK, NEW t \in Tabs, NEW page \in Pages, GoTo(t, page)
    PROVE  /\ tab' \in [Tabs -> TabStates]
           /\ tab'[t].page = page
           /\ page \in {"stripe", "success"} => tab'[t].payment = tab[t].payment
           /\ \A u \in Tabs \ {t} : tab'[u] = tab[u]
<1> DEFINE payment == IF page \in {"stripe", "success"} THEN tab[t].payment
                                                       ELSE NoPayment
           shown == [Browsing EXCEPT !.page = page, !.payment = payment]
<1>1. payment \in Payments \cup {NoPayment}
  BY DEF TypeOK, TabStates
<1>2. shown \in TabStates /\ shown.page = page /\ shown.payment = payment
  BY <1>1, EmptySession DEF TabStates, Pages
<1>3. tab' = [tab EXCEPT ![t] = shown]
  BY DEF GoTo
<1> HIDE DEF shown
<1>. QED
  BY <1>2, <1>3 DEF TypeOK

-----------------------------------------------------------------------------
(***************************************************************************)
(* Types.                                                                  *)
(***************************************************************************)

\* What is at Stripe when a payment is created or changes its state.
LEMMA StripeTypes ==
    ASSUME TypeOK, NEW s, NEW state \in {"unused", "open", "processing", "paid"},
           NEW lines \in Lines,
           \/ stripe' = [stripe EXCEPT ![s].state = state]
           \/ stripe' = [stripe EXCEPT ![s] = [state |-> state, lines |-> lines]]
    PROVE  stripe' \in [Payments -> [state : {"unused", "open", "processing", "paid"},
                                     lines : Lines]]
<1> DEFINE S == [state : {"unused", "open", "processing", "paid"}, lines : Lines]
<1>1. stripe \in [Payments -> S]
  BY DEF TypeOK
<1>2. \A x \in Payments : [stripe[x] EXCEPT !.state = state] \in S
  BY <1>1
<1>3. [state |-> state, lines |-> lines] \in S
  OBVIOUS
<1> HIDE DEF S
<1>4. stripe' \in [Payments -> S]
  BY <1>1, <1>2, <1>3
<1>. QED
  BY <1>4 DEF S

\* Types are kept by each action of a tab.
LEMMA TypeServed ==
    ASSUME TypeOK, NEW t \in Tabs, Server(t)
    PROVE  TypeOK'
<1>t. tab[t] \in TabStates /\ session \in Sessions /\ tab[t].copy \in Sessions
  BY DEF TypeOK, TabStates
<1>1. CASE EndRequest(t)
  <2>1. tab[t].next \in Pages
    BY DEF TypeOK, TabStates, Pages
  <2>2. tab' \in [Tabs -> TabStates]
    BY <1>1, <2>1, WentTo DEF EndRequest
  <2>3. visited' \subseteq Payments
    BY <1>1 DEF EndRequest, TypeOK
  <2>. QED
    BY <1>1, <1>t, <2>2, <2>3 DEF EndRequest, TypeOK
<1>2. ASSUME NEW s \in Payments, CreateCheckoutUrl(t, s)
      PROVE  TypeOK'
  <2>1. tab[t].copy.cart \in Lines
    BY <1>t DEF Sessions
  <2>2. stripe' \in [Payments -> [state : {"unused", "open", "processing", "paid"},
                                  lines : Lines]]
    BY <1>2, <2>1, StripeTypes DEF CreateCheckoutUrl
  <2>3. tab' \in [Tabs -> TabStates]
    <3>1. tab' = [tab EXCEPT ![t].page = "ending", ![t].next = "stripe",
                             ![t].payment = s, ![t].copy.origin = s]
      BY <1>2 DEF CreateCheckoutUrl
    <3>2. ASSUME NEW u \in Tabs
          PROVE  tab'[u] \in TabStates
      BY <1>t, <3>1 DEF TypeOK, TabStates, Sessions
    <3>. QED
      BY <3>1, <3>2 DEF TypeOK
  <2>. QED
    BY <1>2, <2>2, <2>3 DEF CreateCheckoutUrl, TypeOK
<1>3. CASE PaymentSuccess(t)
  <2>1. CASE GoTo(t, "failed")
    BY <1>3, <2>1, WentTo DEF PaymentSuccess, TypeOK, Pages
  <2>2. CASE tab' = [tab EXCEPT ![t].page = "verifying", ![t].copy = session]
    <3>1. tab' \in [Tabs -> TabStates]
      BY <1>t, <2>2 DEF TypeOK, TabStates
    <3>. QED
      BY <1>3, <3>1 DEF PaymentSuccess, TypeOK
  <2>. QED
    BY <1>3, <2>1, <2>2 DEF PaymentSuccess
<1>4. CASE SaveOrder(t)
  <2>1. tab' \in [Tabs -> TabStates]
    BY <1>4, Responded, EmptySession DEF SaveOrder, NextPages
  <2>2. Pending(t) \in Orders
    BY <1>t DEF Sessions, Orders, Pending
  <2>3. saved' \in [Payments -> Seq(Orders)]
    BY <1>4, <2>2, AppendProperties DEF SaveOrder, TypeOK
  <2>. QED
    BY <1>4, <2>1, <2>3 DEF SaveOrder, TypeOK
<1>5. CASE SaveThrows(t) \/ NotPaid(t)
  BY <1>5, WentTo DEF SaveThrows, NotPaid, TypeOK, Pages
<1>6. CASE DropPending(t)
  <2>1. WithoutPending(session) \in Sessions
    BY <1>t, SessionDropped
  <2>2. tab' \in [Tabs -> TabStates]
    BY <1>6, <2>1, WentTo, Responded DEF DropPending, NextPages, Pages
  <2>. QED
    BY <1>6, <2>2 DEF DropPending, TypeOK
<1>. QED
  BY <1>1, <1>2, <1>3, <1>4, <1>5, <1>6 DEF Server

\* Types are kept by every step.
LEMMA NextTypes ==
    ASSUME TypeOK, [Next]_vars
    PROVE  TypeOK'
<1>t. session \in Sessions
  BY DEF TypeOK
<1>1. CASE UNCHANGED vars
  BY <1>1 DEF vars, TypeOK
<1>2. ASSUME NEW t \in Tabs, NEW p \in Products, AddItem(t, p) \/ RemoveLine(t, p)
      PROVE  TypeOK'
  <2>1. session.cart \in Lines /\ p \in Products
    BY <1>t DEF Sessions
  <2>2. /\ session.cart[p] < MaxQuantity =>
               [session.cart EXCEPT ![p] = @ + 1] \in Lines
        /\ [session.cart EXCEPT ![p] = 0] \in Lines
    BY <2>1, QuantityAssumption DEF Lines
  <2>3. PICK lines \in Lines :
            Respond(t, [session EXCEPT !.cart = lines], "store")
    BY <1>2, <2>2 DEF AddItem, RemoveLine
  <2>4. tab' \in [Tabs -> TabStates]
    BY <1>t, <2>3, SessionWith, Responded DEF NextPages
  <2>. QED
    BY <1>2, <2>4 DEF AddItem, RemoveLine, TypeOK
<1>3. ASSUME NEW t \in Tabs, NEW s \in Payments, Revisit(t, s)
      PROVE  TypeOK'
  <2>1. tab' \in [Tabs -> TabStates]
    BY <1>3 DEF Revisit, TypeOK, TabStates
  <2>2. revisits' \in 0 .. MaxRevisits
    BY <1>3, BoundsAssumption DEF Revisit, TypeOK
  <2>. QED
    BY <1>3, <2>1, <2>2 DEF Revisit, TypeOK
<1>4. ASSUME NEW t \in Tabs, Checkout(t)
      PROVE  TypeOK'
  <2>1. [session EXCEPT !.pending = session.cart, !.origin = NoPayment] \in Sessions
    BY <1>t, SessionWith DEF Sessions
  <2>2. tab' \in [Tabs -> TabStates]
    BY <1>4, <2>1 DEF Checkout, TypeOK, TabStates
  <2>. QED
    BY <1>4, <2>2 DEF Checkout, TypeOK
<1>5. ASSUME NEW t \in Tabs, Pay(t)
      PROVE  TypeOK'
  <2>1. PICK state \in {"paid", "processing"} :
            stripe' = [stripe EXCEPT ![tab[t].payment].state = state]
    BY <1>5 DEF Pay
  <2>2. stripe' \in [Payments -> [state : {"unused", "open", "processing", "paid"},
                                  lines : Lines]]
    BY <2>1, StripeTypes, EmptySession
  <2>. QED
    BY <1>5, <2>2, WentTo DEF Pay, TypeOK, Pages
<1>6. ASSUME NEW t \in Tabs, Leave(t)
      PROVE  TypeOK'
  BY <1>6, WentTo DEF Leave, TypeOK, Pages
<1>13. ASSUME NEW t \in Tabs, GoBack(t)
       PROVE  TypeOK'
  <2>1. ASSUME NEW s \in visited,
               tab' = [tab EXCEPT ![t].page = "stripe", ![t].payment = s]
        PROVE  tab' \in [Tabs -> TabStates]
    BY <2>1 DEF TypeOK, TabStates
  <2>2. GoTo(t, "cancelled") => tab' \in [Tabs -> TabStates]
    BY WentTo DEF Pages
  <2>. QED
    BY <1>13, <2>1, <2>2 DEF GoBack, TypeOK
<1>7. ASSUME NEW t \in Tabs, CreateFails(t)
      PROVE  TypeOK'
  <2>1. tab[t].copy \in Sessions
    BY DEF TypeOK, TabStates
  <2>2. tab' \in [Tabs -> TabStates]
    BY <1>7, <2>1, Responded DEF CreateFails, NextPages
  <2>. QED
    BY <1>7, <2>2, BoundsAssumption DEF CreateFails, Fault, TypeOK
<1>8. ASSUME NEW t \in Tabs, VerifyFails(t)
      PROVE  TypeOK'
  BY <1>8, WentTo, BoundsAssumption DEF VerifyFails, Fault, TypeOK, Pages
<1>9. ASSUME NEW s \in Payments, Settle(s)
      PROVE  TypeOK'
  <2>1. stripe' \in [Payments -> [state : {"unused", "open", "processing", "paid"},
                                  lines : Lines]]
    BY <1>9, StripeTypes, EmptySession DEF Settle
  <2>. QED
    BY <1>9, <2>1 DEF Settle, TypeOK
<1>10. ASSUME NEW p \in Products, DeleteProduct(p)
       PROVE  TypeOK'
  <2>1. ASSUME NEW s \in Payments
        PROVE  saved'[s] \in Seq(Orders)
    <3>1. saved[s] \in Seq(Orders)
      BY DEF TypeOK
    <3>2. \A i \in DOMAIN saved[s] : [saved[s][i] EXCEPT !.lines[p] = 0] \in Orders
      <4>1. ASSUME NEW o \in Orders
            PROVE  [o EXCEPT !.lines[p] = 0] \in Orders
        <5>1. [o.lines EXCEPT ![p] = 0] \in Lines
          BY QuantityAssumption DEF Orders, Lines
        <5>2. [o EXCEPT !.lines[p] = 0] = [o EXCEPT !.lines = [o.lines EXCEPT ![p] = 0]]
          BY DEF Orders
        <5>. QED
          BY <5>1, <5>2 DEF Orders
      <4>. QED
        BY <3>1, <4>1
    <3>3. DOMAIN saved[s] = 1 .. Len(saved[s]) /\ Len(saved[s]) \in Nat
      BY <3>1
    <3>. QED
      <4> DEFINE kept == [i \in 1 .. Len(saved[s]) |->
                             [saved[s][i] EXCEPT !.lines[p] = 0]]
      <4>1. saved'[s] = kept
        BY <1>10, <3>3 DEF DeleteProduct
      <4>2. kept \in Seq(Orders)
        BY <3>2, <3>3
      <4>. QED
        BY <4>1, <4>2
  <2>. QED
    BY <1>10, <2>1 DEF DeleteProduct, TypeOK
<1>11. CASE SessionExpires
  BY <1>11, EmptySession, BoundsAssumption DEF SessionExpires, Fault, TypeOK
<1>12. CASE ServerRestarts
  BY <1>12, EmptySession, BoundsAssumption DEF ServerRestarts, Fault, TypeOK
<1>. QED
  BY <1>1, <1>2, <1>3, <1>4, <1>5, <1>6, <1>7, <1>8, <1>9, <1>10, <1>11, <1>12,
     <1>13, TypeServed DEF Next

\* The store starts without carts and orders.
LEMMA InitTypes ==
    ASSUME Init
    PROVE  TypeOK
<1>1. [state |-> "unused", lines |-> NoLines]
          \in [state : {"unused", "open", "processing", "paid"}, lines : Lines]
  BY EmptySession
<1>2. 0 \in 0 .. MaxRevisits /\ 0 \in 0 .. MaxFaults
  BY BoundsAssumption
<1>. QED
  BY <1>1, <1>2, EmptySession DEF Init, TypeOK

-----------------------------------------------------------------------------
(***************************************************************************)
(* Prices and deleted products.                                            *)
(***************************************************************************)

\* What Stripe has priced stays as it was priced, what is paid stays paid.
LEMMA PricedStays ==
    ASSUME TypeOK, [Next]_vars, NEW r \in Payments, stripe[r].state # "unused"
    PROVE  /\ stripe'[r].state # "unused" /\ stripe'[r].lines = stripe[r].lines
           /\ stripe[r].state = "paid" => stripe'[r].state = "paid"
<1>1. stripe \in [Payments -> [state : {"unused", "open", "processing", "paid"},
                               lines : Lines]]
  BY DEF TypeOK
<1>2. ASSUME NEW t \in Tabs, NEW s \in Payments, CreateCheckoutUrl(t, s)
      PROVE  stripe'[r] = stripe[r]
  BY <1>1, <1>2 DEF CreateCheckoutUrl
<1>3. ASSUME NEW t \in Tabs, Pay(t)
      PROVE  /\ stripe'[r].state # "unused" /\ stripe'[r].lines = stripe[r].lines
             /\ stripe[r].state = "paid" => stripe'[r].state = "paid"
  <2>1. PICK state \in {"paid", "processing"} :
            /\ stripe' = [stripe EXCEPT ![tab[t].payment].state = state]
            /\ stripe[tab[t].payment].state = "open"
    BY <1>3 DEF Pay
  <2>. QED
    BY <1>1, <2>1
<1>4. ASSUME NEW s \in Payments, Settle(s)
      PROVE  /\ stripe'[r].state # "unused" /\ stripe'[r].lines = stripe[r].lines
             /\ stripe[r].state = "paid" => stripe'[r].state = "paid"
  BY <1>1, <1>4 DEF Settle
<1>5. CASE stripe' = stripe
  BY <1>5
<1>. QED
  BY <1>2, <1>3, <1>4, <1>5
     DEF Next, vars, Server, AddItem, RemoveLine, Revisit, Checkout, EndRequest,
         PaymentSuccess, SaveOrder, SaveThrows, NotPaid, DropPending, Leave, GoBack,
         CreateFails, VerifyFails, DeleteProduct, SessionExpires, ServerRestarts

\* Lines that can be stored are kept as they are.
LEMMA KeptAsStored ==
    ASSUME NEW lines \in Lines, Storable(lines)
    PROVE  Kept(lines) = lines
BY QuantityAssumption DEF Lines, Storable, Kept

\* Failures are counted.
LEMMA NoFaultSoFar ==
    ASSUME TypeOK, [Next]_vars, faults' = 0
    PROVE  faults = 0 /\ ~Fault
<1>1. faults \in Nat
  BY BoundsAssumption DEF TypeOK
<1>2. ~Fault
  BY <1>1 DEF Fault
<1>. QED
  BY <1>2 DEF Next, vars, Server, AddItem, RemoveLine, Revisit, Checkout, EndRequest,
         CreateCheckoutUrl, PaymentSuccess, SaveOrder, SaveThrows, NotPaid,
         DropPending, Pay, Settle, Leave, GoBack, CreateFails, VerifyFails, DeleteProduct,
         SessionExpires, ServerRestarts

\* A pending order has been priced before it is stored in the session.
LEMMA NextPending ==
    ASSUME TypeOK, PendingWasPriced, [Next]_vars
    PROVE  PendingWasPriced'
<1> DEFINE P(lines) == \E r \in Payments : /\ stripe'[r].state # "unused"
                                           /\ stripe'[r].lines = lines
           Was(u) ==
               /\ tab[u].page = "creating" => tab[u].copy.pending = tab[u].copy.cart
               /\ tab[u].page = "ending" /\ tab[u].copy.pending # NoLines =>
                      P(tab[u].copy.pending)
               /\ tab[u].page = "verifying" => P(tab[u].copy.pending)
           Is(u) ==
               /\ tab'[u].page = "creating" => tab'[u].copy.pending = tab'[u].copy.cart
               /\ tab'[u].page = "ending" /\ tab'[u].copy.pending # NoLines =>
                      P(tab'[u].copy.pending)
               /\ tab'[u].page = "verifying" => P(tab'[u].copy.pending)
<1> SUFFICES ASSUME faults' = 0
             PROVE  /\ session'.pending # NoLines => P(session'.pending)
                    /\ \A u \in Tabs : Is(u)
  BY DEF PendingWasPriced, Priced
<1>1. faults = 0 /\ ~Fault
  BY NoFaultSoFar
<1>2. \A lines : Priced(lines) => P(lines)
  BY PricedStays DEF Priced
<1>3. /\ session.pending # NoLines => P(session.pending)
      /\ \A u \in Tabs : Was(u)
  BY <1>1, <1>2 DEF PendingWasPriced
<1>4. /\ session \in Sessions
      /\ tab \in [Tabs -> TabStates]
      /\ \A u \in Tabs : tab[u] \in TabStates /\ tab[u].copy \in Sessions
  BY DEF TypeOK, TabStates
<1> HIDE DEF P
<1>5. ASSUME NEW t \in Tabs, NEW page \in Pages, GoTo(t, page),
             page \notin {"ending", "creating", "verifying"}
      PROVE  \A u \in Tabs : Is(u)
  <2>1. tab'[t].page = page /\ \A u \in Tabs \ {t} : tab'[u] = tab[u]
    BY <1>5, WentTo
  <2>. QED
    BY <1>3, <1>5, <2>1
<1>6. ASSUME NEW t \in Tabs, NEW c \in Sessions, NEW page \in NextPages,
             Respond(t, c, page), c.pending # NoLines => P(c.pending)
      PROVE  \A u \in Tabs : Is(u)
  <2>1. /\ tab'[t].page = "ending" /\ tab'[t].copy = c
        /\ \A u \in Tabs \ {t} : tab'[u] = tab[u]
    BY <1>6, Responded
  <2>. QED
    BY <1>3, <1>6, <2>1
<1>7. ASSUME NEW t \in Tabs, NEW p \in Products, AddItem(t, p) \/ RemoveLine(t, p)
      PROVE  session' = session /\ \A u \in Tabs : Is(u)
  <2>1. session.cart \in Lines
    BY <1>4 DEF Sessions
  <2>2. /\ session.cart[p] < MaxQuantity =>
               [session.cart EXCEPT ![p] = @ + 1] \in Lines
        /\ [session.cart EXCEPT ![p] = 0] \in Lines
    BY <2>1, QuantityAssumption DEF Lines
  <2>3. PICK lines \in Lines :
            Respond(t, [session EXCEPT !.cart = lines], "store")
    BY <1>7, <2>2 DEF AddItem, RemoveLine
  <2>4. /\ [session EXCEPT !.cart = lines] \in Sessions
        /\ [session EXCEPT !.cart = lines].pending = session.pending
    BY <1>4, SessionWith
  <2>5. \A u \in Tabs : Is(u)
    BY <1>3, <1>6, <2>3, <2>4 DEF NextPages
  <2>. QED
    BY <1>7, <2>5 DEF AddItem, RemoveLine
<1>8. ASSUME NEW t \in Tabs, NEW s \in Payments, Revisit(t, s)
      PROVE  session' = session /\ \A u \in Tabs : Is(u)
  <2>1. tab'[t].page = "success" /\ \A u \in Tabs \ {t} : tab'[u] = tab[u]
    BY <1>4, <1>8 DEF Revisit, TabStates
  <2>. QED
    BY <1>3, <1>8, <2>1 DEF Revisit
<1>9. ASSUME NEW t \in Tabs, Checkout(t)
      PROVE  session' = session /\ \A u \in Tabs : Is(u)
  <2>1. /\ tab'[t].page = "creating"
        /\ tab'[t].copy = [session EXCEPT !.pending = session.cart,
                                           !.origin = NoPayment]
        /\ \A u \in Tabs \ {t} : tab'[u] = tab[u]
    BY <1>4, <1>9 DEF Checkout, TabStates
  <2>2. tab'[t].copy.pending = tab'[t].copy.cart
    BY <1>4, <2>1 DEF Sessions
  <2>. QED
    BY <1>3, <1>9, <2>1, <2>2 DEF Checkout
<1>10. ASSUME NEW t \in Tabs, EndRequest(t)
       PROVE  /\ session' = tab[t].copy /\ tab[t].page = "ending"
              /\ \A u \in Tabs : Is(u)
  <2>1. tab[t].next \in Pages \ {"ending", "creating", "verifying"}
    BY <1>4 DEF TabStates, Pages
  <2>. QED
    BY <1>5, <1>10, <2>1 DEF EndRequest
<1>11. ASSUME NEW t \in Tabs, NEW s \in Payments, CreateCheckoutUrl(t, s)
       PROVE  session' = session /\ \A u \in Tabs : Is(u)
  <2>1. /\ tab'[t].page = "ending" /\ tab'[t].copy = [tab[t].copy EXCEPT !.origin = s]
        /\ \A u \in Tabs \ {t} : tab'[u] = tab[u]
        /\ tab[t].page = "creating"
    BY <1>4, <1>11 DEF CreateCheckoutUrl, TabStates
  <2>4. tab'[t].copy.pending = tab[t].copy.pending
    BY <1>4, <2>1 DEF Sessions
  <2>2. stripe'[s].state = "open" /\ stripe'[s].lines = tab[t].copy.cart
    BY <1>11 DEF CreateCheckoutUrl, TypeOK
  <2>3. P(tab[t].copy.cart)
    BY <2>2 DEF P
  <2>. QED
    BY <1>3, <1>11, <2>1, <2>3, <2>4 DEF CreateCheckoutUrl
<1>12. ASSUME NEW t \in Tabs, PaymentSuccess(t)
       PROVE  session' = session /\ \A u \in Tabs : Is(u)
  <2>1. CASE session.pending = NoLines
    BY <1>5, <1>12, <2>1 DEF PaymentSuccess, Pages
  <2>2. CASE session.pending # NoLines
    <3>1. /\ tab'[t].page = "verifying" /\ tab'[t].copy = session
          /\ \A u \in Tabs \ {t} : tab'[u] = tab[u]
      BY <1>4, <1>12, <2>2 DEF PaymentSuccess, TabStates
    <3>. QED
      BY <1>3, <1>12, <2>2, <3>1 DEF PaymentSuccess
  <2>. QED
    BY <2>1, <2>2
<1>13. ASSUME NEW t \in Tabs, SaveOrder(t)
       PROVE  session' = session /\ \A u \in Tabs : Is(u)
  BY <1>6, <1>13, EmptySession DEF SaveOrder, NextPages
<1>14. ASSUME NEW t \in Tabs, SaveThrows(t) \/ NotPaid(t) \/ Pay(t) \/ Leave(t)
       PROVE  session' = session /\ \A u \in Tabs : Is(u)
  BY <1>5, <1>14 DEF SaveThrows, NotPaid, Pay, Leave, Pages
<1>21. ASSUME NEW t \in Tabs, GoBack(t)
       PROVE  session' = session /\ \A u \in Tabs : Is(u)
  <2>1. ASSUME NEW s \in visited,
               tab' = [tab EXCEPT ![t].page = "stripe", ![t].payment = s]
        PROVE  \A u \in Tabs : Is(u)
    <3>1. tab'[t].page = "stripe" /\ \A u \in Tabs \ {t} : tab'[u] = tab[u]
      BY <1>4, <2>1 DEF TabStates
    <3>. QED
      BY <1>3, <3>1
  <2>2. GoTo(t, "cancelled") => \A u \in Tabs : Is(u)
    BY <1>5 DEF Pages
  <2> HIDE DEF Is
  <2>. QED
    BY <1>21, <2>1, <2>2 DEF GoBack
<1>15. ASSUME NEW t \in Tabs, DropPending(t)
       PROVE  session' = session /\ \A u \in Tabs : Is(u)
  <2>1. CASE session.pending = NoLines
    BY <1>5, <1>15, <2>1 DEF DropPending, Pages
  <2>2. CASE session.pending # NoLines
    <3>1. /\ WithoutPending(session) \in Sessions
          /\ WithoutPending(session).pending = NoLines
      BY <1>4, SessionDropped
    <3>. QED
      BY <1>6, <1>15, <2>2, <3>1 DEF DropPending, NextPages
  <2>. QED
    BY <2>1, <2>2
<1>16. CASE session' = session /\ tab' = tab
  BY <1>3, <1>16
<1>17. /\ \A t \in Tabs : ~CreateFails(t) /\ ~VerifyFails(t)
       /\ ~SessionExpires /\ ~ServerRestarts
  BY <1>1 DEF CreateFails, VerifyFails, SessionExpires, ServerRestarts
<1>18. ASSUME NEW s \in Payments, Settle(s)
       PROVE  session' = session /\ tab' = tab
  BY <1>18 DEF Settle
<1>19. ASSUME NEW p \in Products, DeleteProduct(p)
       PROVE  session' = session /\ tab' = tab
  BY <1>19 DEF DeleteProduct
<1> HIDE DEF Is
<1>20. (session' = session \/ \E t \in Tabs : session' = tab[t].copy
            /\ tab[t].page = "ending") /\ \A u \in Tabs : Is(u)
  BY <1>7, <1>8, <1>9, <1>10, <1>11, <1>12, <1>13, <1>14, <1>15, <1>16, <1>17,
     <1>18, <1>19, <1>21 DEF Next, Server, vars
<1>. QED
  BY <1>3, <1>20

\* Only SaveOrder and DeleteProduct touch the orders that are saved.
LEMMA WhoSaves ==
    ASSUME [Next]_vars,
           \A t \in Tabs : ~SaveOrder(t),
           \A p \in Products : ~DeleteProduct(p)
    PROVE  saved' = saved /\ catalogue' = catalogue
BY DEF Next, vars, Server, AddItem, RemoveLine, Revisit, Checkout, EndRequest,
       CreateCheckoutUrl, PaymentSuccess, SaveThrows, NotPaid, DropPending, Pay,
       Settle, Leave, GoBack, CreateFails, VerifyFails, SessionExpires, ServerRestarts

\* What a saved order becomes when a product is deleted.
LEMMA SavedAfterDeletion ==
    ASSUME TypeOK, NEW p \in Products, DeleteProduct(p), NEW s \in Payments
    PROVE  /\ saved[s] \in Seq(Orders) /\ DOMAIN saved'[s] = DOMAIN saved[s]
           /\ \A i \in DOMAIN saved[s] :
                  /\ saved'[s][i].lines = [saved[s][i].lines EXCEPT ![p] = 0]
                  /\ saved'[s][i].origin = saved[s][i].origin
<1>1. saved[s] \in Seq(Orders)
  BY DEF TypeOK
<1>2. saved'[s] = [i \in DOMAIN saved[s] |-> [saved[s][i] EXCEPT !.lines[p] = 0]]
  BY DEF DeleteProduct
<1>3. \A i \in DOMAIN saved[s] : saved[s][i] \in Orders
  BY <1>1
<1>. QED
  BY <1>1, <1>2, <1>3 DEF Orders

\* What is saved when an order is: one more, at the end.
LEMMA SavedAfterSave ==
    ASSUME TypeOK, NEW t \in Tabs, SaveOrder(t), NEW s \in Payments
    PROVE  /\ saved[s] \in Seq(Orders) /\ Pending(t) \in Orders
           /\ s # tab[t].payment => saved'[s] = saved[s]
           /\ s = tab[t].payment => saved'[s] = Append(saved[s], Pending(t))
           /\ \A i \in DOMAIN saved[s] : i \in DOMAIN saved'[s]
                                       /\ saved'[s][i] = saved[s][i]
           /\ \A i \in DOMAIN saved'[s] \ DOMAIN saved[s] :
                  /\ s = tab[t].payment /\ i = Len(saved[s]) + 1
                  /\ saved'[s][i] = Pending(t)
<1>1. saved \in [Payments -> Seq(Orders)] /\ Pending(t) \in Orders
  BY DEF TypeOK, TabStates, Sessions, Orders, Pending
<1>2. saved' = [saved EXCEPT ![tab[t].payment] = Append(@, Pending(t))]
  BY DEF SaveOrder
<1>3. saved'[s] = IF s = tab[t].payment THEN Append(saved[s], Pending(t)) ELSE saved[s]
  BY <1>1, <1>2
<1>4. saved[s] \in Seq(Orders)
  BY <1>1
<1>. QED
  BY <1>1, <1>3, <1>4

\* Nothing is ordered that was not priced, and a deletion takes the same from what
\* was priced and from what was saved.
LEMMA NextOrderPriced ==
    ASSUME TypeOK, PendingWasPriced, OrderWasPriced, [Next]_vars
    PROVE  OrderWasPriced'
<1> DEFINE KeptNow(lines) == [q \in Products |-> IF q \in catalogue' THEN lines[q] ELSE 0]
           Fits(lines) == \E r \in Payments : /\ stripe'[r].state # "unused"
                                              /\ KeptNow(stripe'[r].lines) = lines
<1> SUFFICES ASSUME faults' = 0, NEW s \in Payments, NEW i \in DOMAIN saved'[s]
             PROVE  Fits(saved'[s][i].lines)
  BY DEF OrderWasPriced, Kept
<1>1. faults = 0
  BY NoFaultSoFar
<1>2. \A x \in Payments : \A j \in DOMAIN saved[x] :
          \E r \in Payments : stripe[r].state # "unused"
                              /\ Kept(stripe[r].lines) = saved[x][j].lines
  BY <1>1 DEF OrderWasPriced
<1>3. CASE saved' = saved /\ catalogue' = catalogue
  <2>1. PICK r \in Payments : /\ stripe[r].state # "unused"
                              /\ Kept(stripe[r].lines) = saved[s][i].lines
    BY <1>2, <1>3
  <2>2. stripe'[r].state # "unused" /\ stripe'[r].lines = stripe[r].lines
    BY <2>1, PricedStays
  <2>. QED
    BY <1>3, <2>1, <2>2 DEF Kept
<1>4. ASSUME NEW t \in Tabs, SaveOrder(t)
      PROVE  Fits(saved'[s][i].lines)
  <2> DEFINE lines == tab[t].copy.pending
  <2>1. lines \in Lines
    BY DEF TypeOK, TabStates, Sessions
  <2>2. catalogue' = catalogue /\ Storable(lines) /\ Priced(lines)
    BY <1>1, <1>4 DEF SaveOrder, PendingWasPriced
  <2>3. Kept(lines) = lines
    BY <2>1, <2>2, KeptAsStored
  <2> HIDE DEF lines
  <2>4. \/ saved'[s][i].lines = lines
        \/ i \in DOMAIN saved[s] /\ saved'[s][i] = saved[s][i]
    <3>1. CASE i \in DOMAIN saved[s]
      BY <1>4, <3>1, SavedAfterSave
    <3>2. CASE i \notin DOMAIN saved[s]
      <4>1. saved'[s][i] = Pending(t)
        BY <1>4, <3>2, SavedAfterSave
      <4>. QED
        BY <4>1 DEF Pending, lines
    <3>. QED
      BY <3>1, <3>2
  <2>5. PICK r \in Payments : /\ stripe[r].state # "unused"
                              /\ Kept(stripe[r].lines) = saved'[s][i].lines
    BY <1>2, <2>2, <2>3, <2>4 DEF Priced
  <2>6. stripe'[r].state # "unused" /\ stripe'[r].lines = stripe[r].lines
    BY <2>5, PricedStays
  <2>7. KeptNow(stripe'[r].lines) = Kept(stripe[r].lines)
    BY <2>2, <2>6 DEF Kept
  <2>. QED
    BY <2>5, <2>6, <2>7
<1>5. ASSUME NEW p \in Products, DeleteProduct(p)
      PROVE  Fits(saved'[s][i].lines)
  <2>1. i \in DOMAIN saved[s] /\ saved'[s][i].lines = [saved[s][i].lines EXCEPT ![p] = 0]
    BY <1>5, SavedAfterDeletion
  <2>2. PICK r \in Payments : /\ stripe[r].state # "unused"
                              /\ Kept(stripe[r].lines) = saved[s][i].lines
    BY <1>2, <2>1
  <2>3. stripe[r].lines \in Lines /\ stripe' = stripe
    BY <1>5 DEF TypeOK, DeleteProduct
  <2>4. KeptNow(stripe[r].lines) = [Kept(stripe[r].lines) EXCEPT ![p] = 0]
    BY <1>5 DEF DeleteProduct, Kept
  <2>. QED
    BY <2>1, <2>2, <2>3, <2>4
<1>. QED
  BY <1>3, <1>4, <1>5, WhoSaves

\* Tabs, sessions, payments and orders have the form the code gives them.
THEOREM TypeCorrect == Spec => []TypeOK
BY InitTypes, NextTypes, PTL DEF Spec

\* For any number of tabs of one browser, whatever their requests overwrite of each
\* other, no order mixes the lines of two carts: unless something failed, each is
\* what Stripe priced for some payment, less what has been deleted since.
THEOREM EveryOrderPriced == Spec => []OrderWasPriced
<1>1. Init => PricedInv
  BY InitTypes, EmptySession DEF Init, PricedInv, PendingWasPriced, OrderWasPriced
<1>2. PricedInv /\ [Next]_vars => PricedInv'
  BY NextTypes, NextPending, NextOrderPriced DEF PricedInv
<1>3. PricedInv => OrderWasPriced
  BY DEF PricedInv
<1>. QED
  BY <1>1, <1>2, <1>3, PTL DEF Spec

-----------------------------------------------------------------------------
(***************************************************************************)
(* A customer with one tab.                                                *)
(***************************************************************************)

OneTab == \A t, u \in Tabs : t = u

\* No step but SaveOrder makes an order of a pending one.
LEMMA OrderedStays ==
    ASSUME TypeOK, [Next]_vars, \A t \in Tabs : ~SaveOrder(t)
    PROVE  \A s \in Payments :
              /\ DOMAIN saved'[s] = DOMAIN saved[s]
              /\ \A i \in DOMAIN saved[s] : saved'[s][i].origin = saved[s][i].origin
<1>1. ASSUME NEW p \in Products, DeleteProduct(p)
      PROVE  \A s \in Payments :
                /\ DOMAIN saved'[s] = DOMAIN saved[s]
                /\ \A i \in DOMAIN saved[s] : saved'[s][i].origin = saved[s][i].origin
  BY <1>1, SavedAfterDeletion
<1>2. CASE \A p \in Products : ~DeleteProduct(p)
  BY <1>2, WhoSaves
<1>. QED
  BY <1>1, <1>2

\* A pending order that may be saved stays so until one is saved.
LEMMA FreshStays ==
    ASSUME TypeOK, [Next]_vars, \A t \in Tabs : ~SaveOrder(t), NEW c, Fresh(c)
    PROVE  c.pending # NoLines =>
              /\ c.origin \in Payments /\ stripe'[c.origin].state # "unused"
              /\ \A r \in Payments : \A i \in DOMAIN saved'[r] :
                     saved'[r][i].origin # c.origin
BY OrderedStays, PricedStays DEF Fresh, Ordered

\* Orders come from checkouts that Stripe knows, after every step.
LEMMA NextOrigins ==
    ASSUME TypeOK, \A t \in Tabs : FreshPending(t), OriginsUsed, [Next]_vars
    PROVE  OriginsUsed'
<1>1. ASSUME NEW t \in Tabs, SaveOrder(t)
      PROVE  OriginsUsed'
  <2>1. /\ tab[t].copy.origin \in Payments
        /\ stripe[tab[t].copy.origin].state # "unused"
    BY <1>1 DEF SaveOrder, FreshPending, Fresh
  <2>2. stripe' = stripe
    BY <1>1 DEF SaveOrder
  <2>3. ASSUME NEW s \in Payments, NEW i \in DOMAIN saved'[s]
        PROVE  \/ i \in DOMAIN saved[s] /\ saved'[s][i] = saved[s][i]
               \/ saved'[s][i] = Pending(t)
    BY <1>1, SavedAfterSave
  <2>. QED
    BY <2>1, <2>2, <2>3 DEF OriginsUsed, Pending
<1>2. CASE \A t \in Tabs : ~SaveOrder(t)
  BY <1>2, OrderedStays, PricedStays DEF OriginsUsed
<1>. QED
  BY <1>1, <1>2

\* A fresh pending order is not ordered yet, so that saving it orders it once.
LEMMA NextOnce ==
    ASSUME TypeOK, \A t \in Tabs : FreshPending(t), OrderedOnce, [Next]_vars
    PROVE  OrderedOnce'
<1>1. ASSUME NEW t \in Tabs, SaveOrder(t)
      PROVE  OrderedOnce'
  <2> DEFINE new == Len(saved[tab[t].payment]) + 1
  <2>1. \A r \in Payments : \A i \in DOMAIN saved[r] :
            saved[r][i].origin # tab[t].copy.origin
    BY <1>1 DEF SaveOrder, FreshPending, Fresh, Ordered
  <2>2. ASSUME NEW r \in Payments, NEW i \in DOMAIN saved'[r]
        PROVE  \/ /\ i \in DOMAIN saved[r] /\ saved'[r][i] = saved[r][i]
                  /\ saved'[r][i].origin # tab[t].copy.origin
               \/ /\ r = tab[t].payment /\ i = new
                  /\ saved'[r][i].origin = tab[t].copy.origin
    <3>1. CASE i \in DOMAIN saved[r]
      BY <1>1, <2>1, <3>1, SavedAfterSave
    <3>2. CASE i \notin DOMAIN saved[r]
      <4>1. r = tab[t].payment /\ i = Len(saved[r]) + 1 /\ saved'[r][i] = Pending(t)
        BY <1>1, <3>2, SavedAfterSave
      <4>. QED
        BY <4>1 DEF Pending
    <3>. QED
      BY <3>1, <3>2
  <2> HIDE DEF new
  <2>. QED
    BY <2>2 DEF OrderedOnce
<1>2. CASE \A t \in Tabs : ~SaveOrder(t)
  BY <1>2, OrderedStays DEF OrderedOnce
<1>. QED
  BY <1>1, <1>2

\* The one tab saves fresh orders only: a checkout gets a payment that is unused, a
\* saved order is removed from the session with the cart, and after a failure the
\* page the tab is sent to drops the pending order.
LEMMA NextFresh ==
    ASSUME OneTab, TypeOK, OriginsUsed, [Next]_vars, NEW t \in Tabs, FreshPending(t)
    PROVE  FreshPending(t)'
<1> DEFINE Ok(c) == c.pending # NoLines =>
               /\ c.origin \in Payments /\ stripe'[c.origin].state # "unused"
               /\ \A r \in Payments : \A i \in DOMAIN saved'[r] :
                      saved'[r][i].origin # c.origin
           Rests == {"store", "stripe", "success", "cancelled", "completed"}
           Is == /\ tab'[t].page \in Rests => Ok(session')
                 /\ tab'[t].page = "verifying" =>
                        tab'[t].copy.pending # NoLines /\ Ok(tab'[t].copy)
                 /\ tab'[t].page = "ending" /\ tab'[t].next # "failed" =>
                        Ok(tab'[t].copy)
<1> SUFFICES Is
  BY DEF FreshPending, Fresh, Ordered
<1>1. \A u \in Tabs : u = t
  BY DEF OneTab
<1>2. /\ session \in Sessions /\ tab \in [Tabs -> TabStates]
      /\ tab[t] \in TabStates /\ tab[t].copy \in Sessions
  BY DEF TypeOK, TabStates
<1>3. ASSUME ~SaveOrder(t)
      PROVE  /\ tab[t].page \in Rests => Ok(session)
             /\ tab[t].page = "verifying" => Ok(tab[t].copy)
             /\ tab[t].page = "ending" /\ tab[t].next # "failed" => Ok(tab[t].copy)
  BY <1>1, <1>3, FreshStays DEF FreshPending
<1>4. \A c : c.pending = NoLines => Ok(c)
  OBVIOUS
<1>5. Ok(NewSession)
  BY <1>4, EmptySession
<1> HIDE DEF Ok
<1>6. CASE SaveOrder(t)
  <2>1. tab'[t].page = "ending" /\ tab'[t].copy = NewSession
    BY <1>6, Responded, EmptySession DEF SaveOrder, NextPages
  <2>. QED
    BY <1>5, <2>1
<1> SUFFICES ASSUME ~SaveOrder(t)
             PROVE  Is
  BY <1>6
<1>7. ASSUME NEW page \in Rests, GoTo(t, page), tab[t].page \in Rests,
             session' = session
      PROVE  Is
  <2>1. tab'[t].page = page
    BY <1>7, WentTo DEF Pages
  <2>. QED
    BY <1>3, <1>7, <2>1
<1>8. ASSUME GoTo(t, "failed")
      PROVE  Is
  BY <1>8, WentTo DEF Pages
<1>9. ASSUME NEW c \in Sessions, NEW page \in NextPages, Respond(t, c, page),
             Ok(c) \/ page = "failed"
      PROVE  Is
  BY <1>9, Responded
<1>10. ASSUME NEW p \in Products, AddItem(t, p) \/ RemoveLine(t, p)
       PROVE  Is
  <2>1. session.cart \in Lines
    BY <1>2 DEF Sessions
  <2>2. /\ session.cart[p] < MaxQuantity =>
               [session.cart EXCEPT ![p] = @ + 1] \in Lines
        /\ [session.cart EXCEPT ![p] = 0] \in Lines
    BY <2>1, QuantityAssumption DEF Lines
  <2>3. PICK lines \in Lines :
            Respond(t, [session EXCEPT !.cart = lines], "store")
    BY <1>10, <2>2 DEF AddItem, RemoveLine
  <2> DEFINE c == [session EXCEPT !.cart = lines]
  <2>4. /\ c \in Sessions
        /\ c.pending = session.pending /\ c.origin = session.origin
    BY <1>2, SessionWith
  <2>5. Ok(session)
    BY <1>3, <1>10 DEF AddItem, RemoveLine
  <2> HIDE DEF c
  <2>6. Ok(c)
    BY <2>4, <2>5 DEF Ok
  <2>7. Respond(t, c, "store")
    BY <2>3 DEF c
  <2>. QED
    BY <1>9, <2>4, <2>6, <2>7 DEF NextPages
<1>11. ASSUME NEW s \in Payments, Revisit(t, s)
       PROVE  Is
  <2>1. tab'[t].page = "success" /\ session' = session /\ tab[t].page = "store"
    BY <1>2, <1>11 DEF Revisit, TabStates
  <2>. QED
    BY <1>3, <2>1
<1>12. CASE Checkout(t)
  <2>1. tab'[t].page = "creating"
    BY <1>2, <1>12 DEF Checkout, TabStates
  <2>. QED
    BY <2>1
<1>13. CASE EndRequest(t)
  <2>1. tab'[t].page = tab[t].next /\ session' = tab[t].copy /\ tab[t].page = "ending"
    BY <1>2, <1>13, WentTo DEF EndRequest, Pages, TabStates
  <2>2. tab[t].next \in NextPages
    BY <1>2 DEF TabStates, NextPages
  <2>. QED
    BY <1>3, <2>1, <2>2 DEF NextPages
<1>14. ASSUME NEW s \in Payments, CreateCheckoutUrl(t, s)
       PROVE  Is
  <2>1. /\ tab'[t].page = "ending" /\ tab'[t].copy = [tab[t].copy EXCEPT !.origin = s]
        /\ saved' = saved /\ stripe[s].state = "unused"
        /\ stripe'[s].state = "open"
    BY <1>2, <1>14 DEF CreateCheckoutUrl, TabStates, TypeOK
  <2>2. tab'[t].copy.origin = s
    BY <1>2, <2>1 DEF Sessions
  <2>3. \A r \in Payments : \A i \in DOMAIN saved'[r] : saved'[r][i].origin # s
    BY <2>1 DEF OriginsUsed
  <2>4. Ok(tab'[t].copy)
    BY <2>1, <2>2, <2>3 DEF Ok
  <2>. QED
    BY <2>1, <2>4
<1>15. CASE PaymentSuccess(t)
  <2>1. CASE session.pending = NoLines
    BY <1>8, <1>15, <2>1 DEF PaymentSuccess
  <2>2. CASE session.pending # NoLines
    <3>1. tab'[t].page = "verifying" /\ tab'[t].copy = session
      BY <1>2, <1>15, <2>2 DEF PaymentSuccess, TabStates
    <3>2. tab[t].page = "success"
      BY <1>15 DEF PaymentSuccess
    <3>. QED
      BY <1>3, <2>2, <3>1, <3>2
  <2>. QED
    BY <2>1, <2>2
<1>16. CASE SaveThrows(t) \/ NotPaid(t) \/ VerifyFails(t)
  BY <1>8, <1>16 DEF SaveThrows, NotPaid, VerifyFails
<1>17. CASE DropPending(t)
  <2>1. CASE session.pending = NoLines
    <3>1. tab'[t].page = "store" /\ session' = session
      BY <1>17, <2>1, WentTo DEF DropPending, Pages
    <3>. QED
      BY <1>4, <2>1, <3>1
  <2>2. CASE session.pending # NoLines
    <3>1. /\ WithoutPending(session) \in Sessions
          /\ WithoutPending(session).pending = NoLines
      BY <1>2, SessionDropped
    <3>2. Ok(WithoutPending(session))
      BY <1>4, <3>1
    <3>. QED
      BY <1>9, <1>17, <2>2, <3>1, <3>2 DEF DropPending, NextPages
  <2>. QED
    BY <2>1, <2>2
<1>18. CASE Pay(t) \/ Leave(t)
  BY <1>7, <1>18 DEF Pay, Leave
<1>19. CASE GoBack(t)
  <2>1. ASSUME NEW s \in visited,
               tab' = [tab EXCEPT ![t].page = "stripe", ![t].payment = s]
        PROVE  Is
    <3>1. tab'[t].page = "stripe" /\ session' = session /\ tab[t].page = "store"
      BY <1>2, <1>19, <2>1 DEF GoBack, TabStates
    <3>. QED
      BY <1>3, <3>1
  <2>2. CASE GoTo(t, "cancelled")
    BY <1>7, <1>19, <2>2 DEF GoBack
  <2>. QED
    BY <1>19, <2>1, <2>2 DEF GoBack
<1>20. CASE CreateFails(t)
  BY <1>2, <1>9, <1>20 DEF CreateFails, NextPages
<1>21. CASE session' = session /\ tab' = tab
  BY <1>3, <1>21 DEF FreshPending
<1>22. ASSUME NEW s \in Payments, Settle(s)
       PROVE  session' = session /\ tab' = tab
  BY <1>22 DEF Settle
<1>23. ASSUME NEW p \in Products, DeleteProduct(p)
       PROVE  session' = session /\ tab' = tab
  BY <1>23 DEF DeleteProduct
<1>24. CASE SessionExpires
  <2>1. session' = NewSession /\ tab' = tab
    BY <1>24 DEF SessionExpires
  <2>. QED
    BY <1>3, <1>5, <2>1 DEF FreshPending
<1>25. CASE ServerRestarts
  <2>1. /\ session' = NewSession
        /\ tab'[t] = IF tab[t].page \in {"ending", "creating", "verifying"}
                     THEN Browsing ELSE tab[t]
    BY <1>25 DEF ServerRestarts
  <2>. QED
    BY <1>5, <2>1, EmptySession
<1> HIDE DEF Is
<1>. QED
  BY <1>1, <1>10, <1>11, <1>12, <1>13, <1>14, <1>15, <1>16, <1>17, <1>18, <1>19,
     <1>20, <1>21, <1>22, <1>23, <1>24, <1>25 DEF Next, Server, vars

\* For a customer with one tab, who may leave and cancel payments, go back to them
\* and to their success pages, and whatever fails or is deleted: each checkout
\* becomes one order at most.
THEOREM EachCheckoutOnce ==
    ASSUME OneTab
    PROVE  Spec => []OrderedOnce
<1>1. Init => OnceInv
  <2> SUFFICES ASSUME Init
               PROVE  OnceInv
    OBVIOUS
  <2>1. session.pending = NoLines /\ \A t \in Tabs : tab[t].page = "store"
    BY EmptySession DEF Init
  <2>2. \A s \in Payments : DOMAIN saved[s] = {}
    BY DEF Init
  <2>. QED
    BY <2>1, <2>2, InitTypes DEF OnceInv, FreshPending, Fresh, OriginsUsed, OrderedOnce
<1>2. OnceInv /\ [Next]_vars => OnceInv'
  <2> SUFFICES ASSUME OnceInv, [Next]_vars
               PROVE  OnceInv'
    OBVIOUS
  <2>1. TypeOK /\ OriginsUsed /\ OrderedOnce /\ \A t \in Tabs : FreshPending(t)
    BY DEF OnceInv
  <2>2. (\A t \in Tabs : FreshPending(t))'
    BY <2>1, NextFresh
  <2>. QED
    BY <2>1, <2>2, NextTypes, NextOrigins, NextOnce DEF OnceInv
<1>3. OnceInv => OrderedOnce
  BY DEF OnceInv
<1>. QED
  BY <1>1, <1>2, <1>3, PTL DEF Spec
=============================================================================
