-------------------------- MODULE OrderLinesProofs --------------------------
(***************************************************************************)
(* Facts about SumFunctionOnSet, by which the carts, the requests and the  *)
(* stock are added up.  It is a fold: it takes the elements in an order of *)
(* its own.  The facts below are what there is to know of it: the sum over *)
(* nothing is zero, and an element more adds its value, whatever the order.*)
(*                                                                         *)
(* They need induction over finite sets.  It is done by a smallest         *)
(* counterexample, for which the theorem of the library about well-founded *)
(* relations asks for no operator as a parameter.                          *)
(***************************************************************************)
EXTENDS OrderLines, FiniteSetTheorems, SequenceTheorems, TLAPS

-----------------------------------------------------------------------------

\* Among subsets of a finite set there is one that contains no other of them.
LEMMA SmallestSubset ==
    ASSUME NEW S, IsFiniteSet(S), NEW Bad \in SUBSET SUBSET S, Bad # {}
    PROVE  \E T \in Bad : \A U \in Bad : U \subseteq T => U = T
<1>1. IsWellFoundedOn(StrictSubsetOrdering(S), SUBSET S)
  BY FS_StrictSubsetOrderingWellFounded, FS_FiniteSubsetsOfFinite
<1>2. PICK T \in Bad : \A U \in Bad : <<U, T>> \notin StrictSubsetOrdering(S)
  BY <1>1, WFMin
<1> QED
  BY <1>2 DEF StrictSubsetOrdering

\* What is true of the empty set, and stays true when an element is added, is true
\* of every finite set.  Good is the set of those of which it is true.
LEMMA BuildUp ==
    ASSUME NEW S, IsFiniteSet(S), NEW Good, {} \in Good,
           \A T \in SUBSET S : \A x \in S \ T : T \in Good => T \cup {x} \in Good
    PROVE  S \in Good
<1> DEFINE Bad == (SUBSET S) \ Good
<1> SUFFICES ASSUME S \notin Good PROVE FALSE
  OBVIOUS
<1>1. Bad \in SUBSET SUBSET S /\ Bad # {}
  OBVIOUS
<1>2. PICK T \in Bad : \A U \in Bad : U \subseteq T => U = T
  <2> HIDE DEF Bad
  <2> QED BY <1>1, SmallestSubset
<1>3. PICK x \in T : TRUE
  BY <1>2
<1>4. /\ T \ {x} \in SUBSET S /\ T \ {x} \notin Bad
      /\ x \in S \ (T \ {x}) /\ (T \ {x}) \cup {x} = T
  BY <1>2
<1> QED BY <1>2, <1>4

\* A adds up f on the subsets of S, whatever the order.
Adds(A, f, S) ==
    /\ A \in [SUBSET S -> Int]
    /\ A[{}] = 0
    /\ \A T \in SUBSET S : \A x \in S \ T : A[T \cup {x}] = f[x] + A[T]

\* For every finite set there is a way to add it up member by member.
LEMMA AddsExists ==
    ASSUME NEW S, IsFiniteSet(S), NEW f, \A x \in S : f[x] \in Int
    PROVE  \E A : Adds(A, f, S)
<1> DEFINE Bad == {T \in SUBSET S : ~ \E A : Adds(A, f, T)}
<1> SUFFICES ASSUME Bad # {} PROVE FALSE
  OBVIOUS
<1>0. Bad \in SUBSET SUBSET S
  OBVIOUS
<1>1. PICK T \in Bad : \A U \in Bad : U \subseteq T => U = T
  <2> HIDE DEF Bad
  <2> QED BY <1>0, SmallestSubset
<1>2. CASE T = {}
  <2>1. Adds([U \in SUBSET T |-> 0], f, T)
    BY <1>2 DEF Adds
  <2> QED BY <1>1, <2>1
<1>3. CASE T # {}
  <2>1. PICK y \in T : TRUE
    BY <1>3
  <2>2. T \ {y} \notin Bad
    BY <1>1, <2>1
  <2>3. PICK A : Adds(A, f, T \ {y})
    BY <1>1, <2>2
  <2> DEFINE B == [U \in SUBSET T |-> IF y \in U THEN f[y] + A[U \ {y}] ELSE A[U]]
  <2>4. B \in [SUBSET T -> Int]
    <3>1. \A U \in SUBSET T : U \ {y} \in SUBSET (T \ {y})
      OBVIOUS
    <3>2. \A U \in SUBSET T : y \notin U => U \in SUBSET (T \ {y})
      OBVIOUS
    <3>3. f[y] \in Int
      BY <1>1, <2>1
    <3> QED BY <2>3, <3>1, <3>2, <3>3 DEF Adds
  <2>5. B[{}] = 0
    BY <2>3 DEF Adds
  <2>6. ASSUME NEW U \in SUBSET T, NEW x \in T \ U
        PROVE  B[U \cup {x}] = f[x] + B[U]
    <3>1. f[x] \in Int /\ f[y] \in Int
      BY <1>1, <2>1
    <3>2. CASE x = y
      <4>1. (U \cup {x}) \ {y} = U /\ y \notin U /\ y \in U \cup {x}
        BY <3>2
      <4> QED BY <3>2, <4>1
    <3>3. CASE x # y /\ y \notin U
      <4>1. U \in SUBSET (T \ {y}) /\ x \in (T \ {y}) \ U /\ y \notin U \cup {x}
        BY <3>3
      <4> QED BY <2>3, <3>3, <4>1 DEF Adds
    <3>4. CASE x # y /\ y \in U
      <4> DEFINE V == U \ {y}
      <4>1. /\ V \in SUBSET (T \ {y}) /\ x \in (T \ {y}) \ V
            /\ (U \cup {x}) \ {y} = V \cup {x} /\ y \in U \cup {x}
        BY <3>4
      <4>2. A[V \cup {x}] = f[x] + A[V] /\ A[V] \in Int
        BY <2>3, <4>1 DEF Adds
      <4>3. B[U \cup {x}] = f[y] + A[V \cup {x}] /\ B[U] = f[y] + A[V]
        BY <3>4, <4>1
      <4> HIDE DEF B, V
      <4> QED BY <3>1, <4>2, <4>3
    <3> QED BY <3>2, <3>3, <3>4
  <2>7. Adds(B, f, T)
    <3> HIDE DEF B
    <3> QED BY <2>4, <2>5, <2>6 DEF Adds
  <2> QED BY <1>1, <2>7
<1> QED BY <1>2, <1>3

\* The fold follows one order, so its value is that of any.
LEMMA SumAdds ==
    ASSUME NEW S, IsFiniteSet(S), NEW f, \A x \in S : f[x] \in Int,
           NEW A, Adds(A, f, S)
    PROVE  SumFunctionOnSet(f, S) = A[S]
<1> DEFINE Step(g, s) == IF s = {} THEN 0
                         ELSE f[CHOOSE x \in s : TRUE] + g[s \ {CHOOSE x \in s : TRUE}]
           iter == CHOOSE g : g = [s \in SUBSET S |-> Step(g, s)]
<1>1. SumFunctionOnSet(f, S) = iter[S]
  BY DEF SumFunctionOnSet, FoldFunctionOnSet, MapThenFoldSet
<1>2. \A s \in SUBSET S : A[s] = Step(A, s)
  <2> SUFFICES ASSUME NEW s \in SUBSET S, s # {}
               PROVE  A[s] = Step(A, s)
    BY DEF Adds
  <2> DEFINE c == CHOOSE x \in s : TRUE
  <2>1. c \in s
    OBVIOUS
  <2> HIDE DEF c
  <2>2. s \ {c} \in SUBSET S /\ c \in S \ (s \ {c}) /\ (s \ {c}) \cup {c} = s
    BY <2>1
  <2>3. A[s] = f[c] + A[s \ {c}]
    BY <2>2 DEF Adds
  <2> QED BY <2>3 DEF c
<1>3. A = [s \in SUBSET S |-> Step(A, s)]
  BY <1>2 DEF Adds
<1>4. iter = [s \in SUBSET S |-> Step(iter, s)]
  BY <1>3
<1> HIDE DEF iter
<1>5. \A s \in SUBSET S : iter[s] = A[s]
  <2> DEFINE Bad == {s \in SUBSET S : iter[s] # A[s]}
  <2> SUFFICES ASSUME Bad # {} PROVE FALSE
    OBVIOUS
  <2>0. Bad \in SUBSET SUBSET S
    OBVIOUS
  <2>1. PICK s \in Bad : \A U \in Bad : U \subseteq s => U = s
    <3> HIDE DEF Bad
    <3> QED BY <2>0, SmallestSubset
  <2>2. iter[s] = Step(iter, s) /\ A[s] = Step(A, s)
    BY <1>2, <1>4, <2>1
  <2>3. s # {}
    BY <2>1, <2>2
  <2> DEFINE c == CHOOSE x \in s : TRUE
  <2>4. c \in s
    BY <2>3
  <2> HIDE DEF c
  <2>5. s \ {c} \in SUBSET S /\ s \ {c} \notin Bad
    BY <2>1, <2>4
  <2>6. iter[s \ {c}] = A[s \ {c}]
    BY <2>5
  <2> QED BY <2>1, <2>2, <2>3, <2>6 DEF c
<1> QED BY <1>1, <1>5

-----------------------------------------------------------------------------
(***************************************************************************)
(* What the proofs about the components use.                               *)
(***************************************************************************)

\* The empty sum is zero.
LEMMA SumEmpty == \A f : SumFunctionOnSet(f, {}) = 0
<1> SUFFICES ASSUME NEW f PROVE SumFunctionOnSet(f, {}) = 0
  OBVIOUS
<1>1. IsFiniteSet({})
  BY FS_EmptySet
<1>2. PICK A : Adds(A, f, {})
  BY <1>1, AddsExists
<1>3. A[{}] = 0
  BY <1>2 DEF Adds
<1> QED BY <1>1, <1>2, <1>3, SumAdds

\* A sum of integers is one.
LEMMA SumType ==
    ASSUME NEW S, IsFiniteSet(S), NEW f, \A x \in S : f[x] \in Int
    PROVE  SumFunctionOnSet(f, S) \in Int
<1>1. PICK A : Adds(A, f, S)
  BY AddsExists
<1>2. A[S] \in Int
  BY <1>1 DEF Adds
<1> QED BY <1>1, <1>2, SumAdds

\* One more member adds its own value, wherever the sum begins.
LEMMA SumOneMore ==
    ASSUME NEW S, IsFiniteSet(S), NEW f, \A y \in S : f[y] \in Int,
           NEW x, x \notin S, f[x] \in Int
    PROVE  SumFunctionOnSet(f, S \cup {x}) = f[x] + SumFunctionOnSet(f, S)
<1> DEFINE T == S \cup {x}
<1>1. IsFiniteSet(T)
  BY FS_AddElement
<1>2. PICK A : Adds(A, f, T)
  <2> HIDE DEF T
  <2>1. \A y \in T : f[y] \in Int
    BY DEF T
  <2> QED BY <1>1, <2>1, AddsExists
<1>3. A[T] = f[x] + A[S]
  BY <1>2 DEF Adds
<1>4. SumFunctionOnSet(f, T) = A[T]
  BY <1>1, <1>2, SumAdds
<1> DEFINE B == [U \in SUBSET S |-> A[U]]
<1>5. Adds(B, f, S)
  <2>1. SUBSET S \subseteq SUBSET T /\ \A U \in SUBSET S : S \ U \subseteq T \ U
    OBVIOUS
  <2> HIDE DEF T
  <2> QED BY <1>2, <2>1 DEF Adds
<1>6. SumFunctionOnSet(f, S) = A[S]
  <2>1. B[S] = A[S]
    OBVIOUS
  <2> HIDE DEF B
  <2> QED BY <1>5, <2>1, SumAdds
<1> QED BY <1>3, <1>4, <1>6

\* Any member may be taken out of a sum.
LEMMA SumSplit ==
    ASSUME NEW S, IsFiniteSet(S), NEW f, \A y \in S : f[y] \in Int, NEW x \in S
    PROVE  SumFunctionOnSet(f, S) = f[x] + SumFunctionOnSet(f, S \ {x})
<1>1. IsFiniteSet(S \ {x}) /\ (S \ {x}) \cup {x} = S /\ x \notin S \ {x}
  BY FS_RemoveElement
<1> HIDE DEF SumFunctionOnSet
<1> QED BY <1>1, SumOneMore, Zenon

\* A sum does not look at values outside its set.
LEMMA SumSame ==
    ASSUME NEW S, IsFiniteSet(S), NEW f, \A x \in S : f[x] \in Int,
           NEW g, \A x \in S : g[x] = f[x]
    PROVE  SumFunctionOnSet(g, S) = SumFunctionOnSet(f, S)
<1>1. PICK A : Adds(A, f, S)
  BY AddsExists
<1>2. Adds(A, g, S)
  BY <1>1 DEF Adds
<1>3. \A x \in S : g[x] \in Int
  OBVIOUS
<1> QED BY <1>1, <1>2, <1>3, SumAdds

\* One value changes.
LEMMA SumChange ==
    ASSUME NEW S, IsFiniteSet(S), NEW f, \A y \in S : f[y] \in Int,
           NEW g, \A y \in S : g[y] \in Int,
           NEW x \in S, \A y \in S \ {x} : g[y] = f[y]
    PROVE  SumFunctionOnSet(g, S) = SumFunctionOnSet(f, S) + g[x] - f[x]
<1>1. IsFiniteSet(S \ {x})
  BY FS_RemoveElement
<1>2. SumFunctionOnSet(g, S \ {x}) = SumFunctionOnSet(f, S \ {x})
  BY <1>1, SumSame
<1>3. SumFunctionOnSet(f, S \ {x}) \in Int
  BY <1>1, SumType
<1>4. /\ SumFunctionOnSet(f, S) = f[x] + SumFunctionOnSet(f, S \ {x})
      /\ SumFunctionOnSet(g, S) = g[x] + SumFunctionOnSet(g, S \ {x})
  BY SumSplit
<1> QED BY <1>2, <1>3, <1>4

\* Nothing negative: no part exceeds the whole.
LEMMA SumNat ==
    ASSUME NEW S, IsFiniteSet(S), NEW f, \A x \in S : f[x] \in Nat
    PROVE  SumFunctionOnSet(f, S) \in Nat
<1> DEFINE Good == {T \in SUBSET S : SumFunctionOnSet(f, T) \in Nat}
<1>1. {} \in Good
  BY SumEmpty
<1>2. ASSUME NEW T \in SUBSET S, NEW x \in S \ T, T \in Good
      PROVE  T \cup {x} \in Good
  <2>1. IsFiniteSet(T)
    BY FS_Subset
  <2>2. SumFunctionOnSet(f, T \cup {x}) = f[x] + SumFunctionOnSet(f, T)
    BY <2>1, SumOneMore
  <2> QED BY <1>2, <2>2
<1>3. S \in Good
  <2> HIDE DEF Good
  <2> QED BY <1>1, <1>2, BuildUp
<1> QED BY <1>3

\* Sums over a set add up.
LEMMA SumPlus ==
    ASSUME NEW S, IsFiniteSet(S), NEW f, \A x \in S : f[x] \in Int,
           NEW g, \A x \in S : g[x] \in Int,
           NEW h, \A x \in S : h[x] = f[x] + g[x]
    PROVE  SumFunctionOnSet(h, S) = SumFunctionOnSet(f, S) + SumFunctionOnSet(g, S)
<1> DEFINE Good == {T \in SUBSET S : SumFunctionOnSet(h, T) =
                        SumFunctionOnSet(f, T) + SumFunctionOnSet(g, T)}
<1>1. {} \in Good
  BY SumEmpty
<1>2. ASSUME NEW T \in SUBSET S, NEW x \in S \ T, T \in Good
      PROVE  T \cup {x} \in Good
  <2>1. IsFiniteSet(T)
    BY FS_Subset
  <2>2. /\ SumFunctionOnSet(f, T) \in Int
        /\ SumFunctionOnSet(g, T) \in Int
        /\ SumFunctionOnSet(f, T \cup {x}) = f[x] + SumFunctionOnSet(f, T)
        /\ SumFunctionOnSet(g, T \cup {x}) = g[x] + SumFunctionOnSet(g, T)
        /\ SumFunctionOnSet(h, T \cup {x}) = h[x] + SumFunctionOnSet(h, T)
    BY <2>1, SumOneMore, SumType
  <2>3. h[x] = f[x] + g[x] /\ f[x] \in Int /\ g[x] \in Int
    OBVIOUS
  <2>4. SumFunctionOnSet(h, T) = SumFunctionOnSet(f, T) + SumFunctionOnSet(g, T)
    BY <1>2
  <2>5. SumFunctionOnSet(h, T \cup {x})
            = SumFunctionOnSet(f, T \cup {x}) + SumFunctionOnSet(g, T \cup {x})
    BY <2>2, <2>3, <2>4
  <2> QED BY <2>5
<1>3. S \in Good
  <2> HIDE DEF Good
  <2> QED BY <1>1, <1>2, BuildUp
<1> QED BY <1>3

\* Nothing adds up to nothing.
LEMMA SumZero ==
    ASSUME NEW S, IsFiniteSet(S), NEW f, \A x \in S : f[x] = 0
    PROVE  SumFunctionOnSet(f, S) = 0
<1>1. \A x \in S : f[x] \in Int /\ f[x] = f[x] + f[x]
  OBVIOUS
<1>2. SumFunctionOnSet(f, S) = SumFunctionOnSet(f, S) + SumFunctionOnSet(f, S)
  BY <1>1, SumPlus
<1>3. SumFunctionOnSet(f, S) \in Int
  BY <1>1, SumType
<1> QED BY <1>2, <1>3

\* The order in which things are listed makes no difference: h tells where each
\* element of S is listed in another set.
LEMMA SumMoved ==
    ASSUME NEW S, IsFiniteSet(S), NEW f, \A x \in S : f[x] \in Int,
           NEW h, \A x, y \in S : h[x] = h[y] => x = y,
           NEW g, \A x \in S : g[h[x]] = f[x]
    PROVE  SumFunctionOnSet(g, {h[x] : x \in S}) = SumFunctionOnSet(f, S)
<1> DEFINE At(T) == {h[x] : x \in T}
           Good == {T \in SUBSET S : /\ IsFiniteSet(At(T))
                                     /\ SumFunctionOnSet(g, At(T)) = SumFunctionOnSet(f, T)}
<1>1. {} \in Good
  <2>1. At({}) = {}
    OBVIOUS
  <2> QED BY <2>1, SumEmpty, FS_EmptySet
<1>2. ASSUME NEW T \in SUBSET S, NEW x \in S \ T, T \in Good
      PROVE  T \cup {x} \in Good
  <2>1. IsFiniteSet(T) /\ \A y \in T : f[y] \in Int
    BY FS_Subset
  <2>2. SumFunctionOnSet(f, T \cup {x}) = f[x] + SumFunctionOnSet(f, T)
    BY <2>1, SumOneMore
  <2>3. At(T \cup {x}) = At(T) \cup {h[x]} /\ h[x] \notin At(T)
    OBVIOUS
  <2>4. /\ \A y \in At(T) : g[y] \in Int
        /\ g[h[x]] = f[x] /\ f[x] \in Int
        /\ IsFiniteSet(At(T))
        /\ SumFunctionOnSet(g, At(T)) = SumFunctionOnSet(f, T)
    BY <1>2
  <2> HIDE DEF At
  <2>5. SumFunctionOnSet(g, At(T) \cup {h[x]}) = g[h[x]] + SumFunctionOnSet(g, At(T))
    BY <2>3, <2>4, SumOneMore
  <2>6. IsFiniteSet(At(T \cup {x}))
    <3>1. IsFiniteSet(At(T) \cup {h[x]})
      BY <2>4, FS_AddElement
    <3> QED BY <2>3, <3>1
  <2> QED BY <2>2, <2>3, <2>4, <2>5, <2>6
<1>3. S \in Good
  <2> HIDE DEF Good
  <2> QED BY <1>1, <1>2, BuildUp
<1> QED BY <1>3

-----------------------------------------------------------------------------
(***************************************************************************)
(* Sequences of lines.                                                     *)
(***************************************************************************)

\* Every non-empty set of natural numbers has a least member.
LEMMA LeastNatural ==
    ASSUME NEW S \in SUBSET Nat, S # {} PROVE \E i \in S : \A j \in S : i <= j
<1>1. IsWellFoundedOn(OpToRel(<, Nat), Nat)
  BY NatLessThanWellFounded
<1>2. PICK i \in S : \A j \in S : ~ (<<j, i>> \in OpToRel(<, Nat))
  BY <1>1, WFMin
<1>3. \A j \in S : ~ (j < i)
  BY <1>2 DEF OpToRel
<1> QED BY <1>3

-----------------------------------------------------------------------------
(***************************************************************************)
(* What lines ask for.                                                     *)
(***************************************************************************)

\* The domain, the members and the places of a list of lines.
LEMMA LinesAre ==
    ASSUME NEW P, NEW lines \in Seq([product : P, qty : Int])
    PROVE  /\ Len(lines) \in Nat /\ DOMAIN lines = 1 .. Len(lines)
           /\ \A i \in DOMAIN lines : lines[i] \in [product : P, qty : Int]
           /\ \A i \in DOMAIN lines : Quantities(lines)[i] = lines[i].qty
                                      /\ lines[i].qty \in Int
           /\ \A p : Places(lines, p) \subseteq DOMAIN lines
                     /\ IsFiniteSet(Places(lines, p))
<1>1. Len(lines) \in Nat /\ DOMAIN lines = 1 .. Len(lines)
  BY LenProperties
<1>2. IsFiniteSet(DOMAIN lines)
  BY <1>1, FS_Interval
<1>3. \A p : Places(lines, p) \in SUBSET DOMAIN lines
  BY DEF Places
<1>4. \A p : IsFiniteSet(Places(lines, p))
  BY <1>2, <1>3, FS_Subset
<1>5. \A i \in DOMAIN lines : lines[i] \in [product : P, qty : Int]
  BY <1>1, ElementOfSeq
<1> QED BY <1>1, <1>3, <1>4, <1>5 DEF Quantities

\* What lines ask for is an integer, and natural if each quantity is.
LEMMA DemandType ==
    ASSUME NEW P, NEW lines \in Seq([product : P, qty : Int]), NEW p
    PROVE  /\ Demand(lines, p) \in Int
           /\ (\A i \in DOMAIN lines : lines[i].qty \in Nat) => Demand(lines, p) \in Nat
<1>1. /\ IsFiniteSet(Places(lines, p))
      /\ \A i \in Places(lines, p) : Quantities(lines)[i] \in Int
      /\ (\A i \in DOMAIN lines : lines[i].qty \in Nat) =>
             \A i \in Places(lines, p) : Quantities(lines)[i] \in Nat
  BY LinesAre
<1> QED BY <1>1, SumType, SumNat DEF Demand

\* No lines ask for nothing.
LEMMA DemandEmpty == \A p : Demand(<<>>, p) = 0
<1> SUFFICES ASSUME NEW p PROVE Demand(<<>>, p) = 0
  OBVIOUS
<1>1. Places(<<>>, p) = {}
  BY DEF Places
<1> QED BY <1>1, SumEmpty DEF Demand

\* A line more.
LEMMA DemandAppend ==
    ASSUME NEW P, NEW lines \in Seq([product : P, qty : Int]),
           NEW line \in [product : P, qty : Int], NEW p
    PROVE  Demand(Append(lines, line), p)
               = Demand(lines, p) + IF line.product = p THEN line.qty ELSE 0
<1> DEFINE more == Append(lines, line)
           n == Len(lines) + 1
<1>1. /\ more \in Seq([product : P, qty : Int])
      /\ DOMAIN more = 1 .. n /\ more[n] = line
      /\ \A i \in DOMAIN lines : more[i] = lines[i]
      /\ DOMAIN lines = 1 .. Len(lines) /\ Len(lines) \in Nat
  BY LinesAre, AppendProperties
<1>2. DOMAIN more = DOMAIN lines \cup {n} /\ n \in DOMAIN more /\ n \notin DOMAIN lines
  BY <1>1
<1> HIDE DEF more, n
<1>3. /\ IsFiniteSet(Places(lines, p)) /\ n \notin Places(lines, p)
      /\ \A i \in Places(lines, p) : Quantities(lines)[i] \in Int
      /\ \A i \in Places(lines, p) : Quantities(more)[i] = Quantities(lines)[i]
      /\ Quantities(more)[n] = line.qty /\ line.qty \in Int
  <2>1. Places(lines, p) \subseteq DOMAIN lines /\ IsFiniteSet(Places(lines, p))
    BY LinesAre
  <2>2. \A i \in DOMAIN lines : Quantities(lines)[i] = lines[i].qty /\ lines[i].qty \in Int
    BY LinesAre
  <2>3. \A i \in DOMAIN more : Quantities(more)[i] = more[i].qty
    BY DEF Quantities
  <2> QED BY <1>1, <1>2, <2>1, <2>2, <2>3
<1>4. SumFunctionOnSet(Quantities(more), Places(lines, p)) = Demand(lines, p)
  BY <1>3, SumSame DEF Demand
<1>5. CASE line.product = p
  <2>1. Places(more, p) = Places(lines, p) \cup {n}
    BY <1>1, <1>2, <1>5 DEF Places
  <2>2. \A i \in Places(lines, p) : Quantities(more)[i] \in Int
    BY <1>3
  <2>3. SumFunctionOnSet(Quantities(more), Places(lines, p) \cup {n})
            = Quantities(more)[n] + SumFunctionOnSet(Quantities(more), Places(lines, p))
    BY <1>3, <2>2, SumOneMore
  <2>4. Demand(more, p) = line.qty + Demand(lines, p)
    BY <1>3, <1>4, <2>1, <2>3 DEF Demand
  <2>5. Demand(lines, p) \in Int
    BY DemandType
  <2> QED BY <1>3, <1>5, <2>4, <2>5 DEF more
<1>6. CASE line.product # p
  <2>1. Places(more, p) = Places(lines, p)
    BY <1>1, <1>2, <1>6 DEF Places
  <2>2. Demand(more, p) = Demand(lines, p) /\ Demand(lines, p) \in Int
    BY <1>4, <2>1, DemandType DEF Demand
  <2> QED BY <1>6, <2>2 DEF more
<1> QED BY <1>5, <1>6

\* One line is changed, and names the same product.
LEMMA DemandChange ==
    ASSUME NEW P, NEW lines \in Seq([product : P, qty : Int]), NEW p,
           NEW i \in DOMAIN lines,
           NEW new, DOMAIN new = DOMAIN lines, new[i].qty \in Int,
           \A j \in DOMAIN lines : new[j].product = lines[j].product,
           \A j \in DOMAIN lines \ {i} : new[j] = lines[j]
    PROVE  Demand(new, p) = Demand(lines, p) +
               IF lines[i].product = p THEN new[i].qty - lines[i].qty ELSE 0
<1>3. /\ Places(new, p) = Places(lines, p)
      /\ \A j \in DOMAIN lines : Quantities(new)[j] = new[j].qty
  BY DEF Places, Quantities
<1>4. /\ IsFiniteSet(Places(lines, p))
      /\ \A j \in Places(lines, p) : Quantities(lines)[j] \in Int
      /\ \A j \in Places(lines, p) : Quantities(new)[j] \in Int
      /\ \A j \in Places(lines, p) \ {i} : Quantities(new)[j] = Quantities(lines)[j]
      /\ Quantities(new)[i] = new[i].qty
      /\ Quantities(lines)[i] = lines[i].qty /\ lines[i].qty \in Int
      /\ i \in Places(lines, p) <=> lines[i].product = p
  <2>1. Places(lines, p) \subseteq DOMAIN lines
    BY LinesAre
  <2>2. /\ IsFiniteSet(Places(lines, p))
        /\ \A j \in DOMAIN lines : Quantities(lines)[j] = lines[j].qty /\ lines[j].qty \in Int
    BY LinesAre
  <2>3. i \in Places(lines, p) <=> lines[i].product = p
    BY DEF Places
  <2> QED BY <1>3, <2>1, <2>2, <2>3
<1>5. Demand(lines, p) \in Int
  BY DemandType
<1>6. CASE lines[i].product = p
  <2>1. SumFunctionOnSet(Quantities(new), Places(lines, p))
            = SumFunctionOnSet(Quantities(lines), Places(lines, p))
              + Quantities(new)[i] - Quantities(lines)[i]
    BY <1>4, <1>6, SumChange
  <2>2. Demand(new, p) = Demand(lines, p) + new[i].qty - lines[i].qty
    BY <1>3, <1>4, <2>1 DEF Demand
  <2> QED BY <1>4, <1>5, <1>6, <2>2
<1>7. CASE lines[i].product # p
  <2>1. \A j \in Places(lines, p) : Quantities(new)[j] = Quantities(lines)[j]
    BY <1>4, <1>7
  <2>2. Demand(new, p) = Demand(lines, p)
    BY <1>3, <1>4, <2>1, SumSame DEF Demand
  <2> QED BY <1>5, <1>7, <2>2
<1> QED BY <1>6, <1>7

\* A line is taken out: those behind it move up.
LEMMA WithoutIs ==
    ASSUME NEW S, NEW lines \in Seq(S), NEW i \in DOMAIN lines
    PROVE  /\ Without(lines, i) \in Seq(S)
           /\ DOMAIN Without(lines, i) = 1 .. Len(lines) - 1
           /\ \A j \in 1 .. Len(lines) - 1 :
                 Without(lines, i)[j] = lines[IF j < i THEN j ELSE j + 1]
<1> DEFINE front == SubSeq(lines, 1, i - 1)
           back  == SubSeq(lines, i + 1, Len(lines))
<1>1. Len(lines) \in Nat /\ DOMAIN lines = 1 .. Len(lines)
  BY LenProperties
<1>2. /\ front \in Seq(S) /\ Len(front) = i - 1
      /\ \A j \in 1 .. i - 1 : front[j] = lines[j]
  BY <1>1, SubSeqProperties
<1>3. /\ back \in Seq(S) /\ Len(back) = Len(lines) - i
      /\ \A j \in 1 .. Len(lines) - i : back[j] = lines[i + j]
  BY <1>1, SubSeqProperties
<1>4. Without(lines, i) = front \o back
  BY DEF Without
<1> HIDE DEF front, back
<1>5. /\ front \o back \in Seq(S)
      /\ Len(front \o back) = Len(front) + Len(back)
      /\ \A j \in 1 .. Len(front) + Len(back) :
            (front \o back)[j] = IF j <= Len(front) THEN front[j] ELSE back[j - Len(front)]
  BY <1>2, <1>3, ConcatProperties
<1>6. ASSUME NEW j \in 1 .. Len(lines) - 1
      PROVE  (front \o back)[j] = lines[IF j < i THEN j ELSE j + 1]
  <2>1. CASE j < i
    <3>1. j \in 1 .. i - 1 /\ j <= Len(front) /\ j \in 1 .. Len(front) + Len(back)
      BY <1>1, <1>2, <1>3, <2>1
    <3> QED BY <1>2, <1>5, <2>1, <3>1
  <2>2. CASE ~(j < i)
    <3> DEFINE k == j - (i - 1)
    <3>1. /\ j \in 1 .. Len(front) + Len(back) /\ ~(j <= Len(front))
          /\ j - Len(front) = k /\ k \in 1 .. Len(lines) - i /\ i + k = j + 1
      BY <1>1, <1>2, <1>3, <2>2
    <3>2. (front \o back)[j] = back[k]
      BY <1>5, <3>1
    <3> HIDE DEF k
    <3> QED BY <1>3, <2>2, <3>1, <3>2
  <2> QED BY <2>1, <2>2
<1>7. DOMAIN (front \o back) = 1 .. Len(lines) - 1
  <2> DEFINE t == front \o back
  <2>1. t \in Seq(S) /\ Len(t) = Len(lines) - 1
    BY <1>1, <1>2, <1>3, <1>5
  <2> HIDE DEF t
  <2>2. DOMAIN t = 1 .. Len(t)
    BY <2>1, LenProperties
  <2> QED BY <2>1, <2>2 DEF t
<1> QED BY <1>4, <1>5, <1>6, <1>7

\* CartService.Remove takes out exactly what its line asked for.
LEMMA DemandWithout ==
    ASSUME NEW P, NEW lines \in Seq([product : P, qty : Int]), NEW p,
           NEW i \in DOMAIN lines
    PROVE  Demand(Without(lines, i), p)
               = Demand(lines, p) - IF lines[i].product = p THEN lines[i].qty ELSE 0
<1> DEFINE rest == Without(lines, i)
           S == Places(lines, p) \ {i}
           h == [j \in DOMAIN lines |-> IF j < i THEN j ELSE j - 1]
<1>1. /\ rest \in Seq([product : P, qty : Int])
      /\ DOMAIN rest = 1 .. Len(lines) - 1
      /\ \A j \in 1 .. Len(lines) - 1 : rest[j] = lines[IF j < i THEN j ELSE j + 1]
  BY WithoutIs
<1>2. /\ Len(lines) \in Nat /\ DOMAIN lines = 1 .. Len(lines)
      /\ Places(lines, p) \subseteq DOMAIN lines
      /\ IsFiniteSet(Places(lines, p))
  BY LinesAre
<1>3. \A j \in DOMAIN lines : Quantities(lines)[j] = lines[j].qty /\ lines[j].qty \in Int
  BY LinesAre
<1>4. /\ IsFiniteSet(S)
      /\ \A j \in S : Quantities(lines)[j] \in Int
      /\ S \subseteq DOMAIN lines \ {i}
  BY <1>2, <1>3, FS_RemoveElement
<1> HIDE DEF rest
<1>5. ASSUME NEW j \in DOMAIN lines \ {i}
      PROVE  h[j] \in DOMAIN rest /\ rest[h[j]] = lines[j]
  <2>1. CASE j < i
    <3>1. h[j] = j /\ j \in 1 .. Len(lines) - 1
      BY <1>2, <2>1
    <3> HIDE DEF h
    <3> QED BY <1>1, <2>1, <3>1
  <2>2. CASE ~(j < i)
    <3>1. h[j] = j - 1 /\ j - 1 \in 1 .. Len(lines) - 1 /\ ~(j - 1 < i) /\ (j - 1) + 1 = j
      BY <1>2, <2>2
    <3> HIDE DEF h
    <3> QED BY <1>1, <3>1
  <2> QED BY <2>1, <2>2
<1>6. \A j, k \in DOMAIN lines \ {i} : h[j] = h[k] => j = k
  BY <1>2
<1>7. \A k \in DOMAIN rest : \E j \in DOMAIN lines \ {i} : h[j] = k
  <2> SUFFICES ASSUME NEW k \in DOMAIN rest
               PROVE  \E j \in DOMAIN lines \ {i} : h[j] = k
    OBVIOUS
  <2>1. CASE k < i
    <3>1. k \in DOMAIN lines \ {i} /\ h[k] = k
      BY <1>1, <1>2, <2>1
    <3> QED BY <3>1
  <2>2. CASE ~(k < i)
    <3>1. k + 1 \in DOMAIN lines \ {i} /\ h[k + 1] = k
      BY <1>1, <1>2, <2>2
    <3> QED BY <3>1
  <2> QED BY <2>1, <2>2
<1> HIDE DEF h
<1>8. Places(rest, p) = {h[j] : j \in S}
  <2>1. \A j \in DOMAIN lines \ {i} : h[j] \in Places(rest, p) <=> j \in Places(lines, p)
    BY <1>5 DEF Places
  <2>2. Places(rest, p) \subseteq DOMAIN rest
    BY DEF Places
  <2> QED BY <1>4, <1>7, <2>1, <2>2
<1>9. \A j \in S : Quantities(rest)[h[j]] = Quantities(lines)[j]
  BY <1>3, <1>4, <1>5 DEF Quantities
<1> HIDE DEF S
<1>10. Demand(rest, p) = SumFunctionOnSet(Quantities(lines), S)
  <2>1. \A j, k \in S : h[j] = h[k] => j = k
    BY <1>4, <1>6
  <2> QED BY <1>4, <1>8, <1>9, <2>1, SumMoved DEF Demand
<1>11. CASE lines[i].product = p
  <2>1. i \in Places(lines, p) /\ \A j \in Places(lines, p) : Quantities(lines)[j] \in Int
    BY <1>2, <1>3, <1>11 DEF Places
  <2>2. Demand(lines, p) = Quantities(lines)[i] + SumFunctionOnSet(Quantities(lines), S)
    BY <1>2, <2>1, SumSplit DEF Demand, S
  <2>3. SumFunctionOnSet(Quantities(lines), S) \in Int
    BY <1>4, SumType
  <2> QED BY <1>3, <1>10, <1>11, <2>2, <2>3 DEF rest
<1>12. CASE lines[i].product # p
  <2>1. S = Places(lines, p)
    BY <1>12 DEF S, Places
  <2>2. Demand(rest, p) = Demand(lines, p) /\ Demand(lines, p) \in Int
    BY <1>10, <2>1, DemandType DEF Demand
  <2> QED BY <1>12, <2>2 DEF rest
<1> QED BY <1>11, <1>12

\* No product twice: there is one line to look at.
LEMMA DemandDistinct ==
    ASSUME NEW P, NEW lines \in Seq([product : P, qty : Int]), DistinctLines(lines),
           NEW i \in DOMAIN lines
    PROVE  Demand(lines, lines[i].product) = lines[i].qty
<1> DEFINE p == lines[i].product
<1>1. Places(lines, p) = {i}
  BY DEF Places, DistinctLines
<1>2. /\ IsFiniteSet(Places(lines, p))
      /\ Quantities(lines)[i] = lines[i].qty /\ lines[i].qty \in Int
  BY LinesAre
<1> HIDE DEF p
<1>3. SumFunctionOnSet(Quantities(lines), {i})
          = Quantities(lines)[i] + SumFunctionOnSet(Quantities(lines), {i} \ {i})
  BY <1>1, <1>2, SumSplit
<1>4. SumFunctionOnSet(Quantities(lines), {i} \ {i}) = 0
  <2>1. {i} \ {i} = {}
    OBVIOUS
  <2>2. SumFunctionOnSet(Quantities(lines), {}) = 0
    BY SumEmpty
  <2> QED BY <2>1, <2>2, Zenon
<1>5. Demand(lines, p) = lines[i].qty
  BY <1>1, <1>2, <1>3, <1>4 DEF Demand
<1> QED BY <1>5 DEF p

\* Lines that do not name a product ask for none of it.
LEMMA DemandNone ==
    ASSUME NEW lines, NEW p, Places(lines, p) = {} PROVE Demand(lines, p) = 0
  BY SumEmpty DEF Demand

\* The lines stay distinct when one goes, when one changes its quantity, and when
\* one joins of a product that is not there.
LEMMA DistinctKept ==
    ASSUME NEW P, NEW lines \in Seq([product : P, qty : Int]), DistinctLines(lines)
    PROVE  /\ DistinctLines(<<>>)
           /\ \A i \in DOMAIN lines : DistinctLines(Without(lines, i))
           /\ \A i \in DOMAIN lines : \A n : DistinctLines([lines EXCEPT ![i].qty = n])
           /\ \A line \in [product : P, qty : Int] :
                 Places(lines, line.product) = {} => DistinctLines(Append(lines, line))
<1>1. DistinctLines(<<>>)
  BY DEF DistinctLines
<1>2. ASSUME NEW i \in DOMAIN lines PROVE DistinctLines(Without(lines, i))
  <2> DEFINE rest == Without(lines, i)
             at(j) == IF j < i THEN j ELSE j + 1
  <2>1. /\ Len(lines) \in Nat /\ DOMAIN lines = 1 .. Len(lines)
        /\ DOMAIN rest = 1 .. Len(lines) - 1
        /\ \A j \in 1 .. Len(lines) - 1 : rest[j] = lines[at(j)]
    BY LinesAre, WithoutIs
  <2> HIDE DEF rest
  <2>2. \A j \in DOMAIN rest : at(j) \in DOMAIN lines /\ rest[j] = lines[at(j)]
    BY <2>1
  <2>3. \A j, k \in DOMAIN rest : at(j) = at(k) => j = k
    BY <2>1
  <2> HIDE DEF at
  <2>4. DistinctLines(rest)
    BY <2>2, <2>3 DEF DistinctLines
  <2> QED BY <2>4 DEF rest
<1>3. ASSUME NEW i \in DOMAIN lines, NEW n
      PROVE  DistinctLines([lines EXCEPT ![i].qty = n])
  <2>1. \A j \in DOMAIN lines : lines[j] \in [product : P, qty : Int]
    BY LinesAre
  <2>2. \A j \in DOMAIN lines :
            [lines EXCEPT ![i].qty = n][j].product = lines[j].product
    BY <2>1
  <2> QED BY <2>2 DEF DistinctLines
<1>4. ASSUME NEW line \in [product : P, qty : Int], Places(lines, line.product) = {}
      PROVE  DistinctLines(Append(lines, line))
  <2> DEFINE more == Append(lines, line)
             n == Len(lines) + 1
  <2>1. /\ Len(lines) \in Nat /\ DOMAIN lines = 1 .. Len(lines)
        /\ DOMAIN more = 1 .. n /\ more[n] = line
        /\ \A j \in DOMAIN lines : more[j] = lines[j]
    BY LinesAre, AppendProperties
  <2>2. DOMAIN more = DOMAIN lines \cup {n}
    BY <2>1
  <2>3. \A j \in DOMAIN lines : lines[j].product # line.product
    BY <1>4 DEF Places
  <2> HIDE DEF more, n
  <2>4. DistinctLines(more)
    BY <2>1, <2>2, <2>3 DEF DistinctLines
  <2> QED BY <2>4 DEF more
<1> QED BY <1>1, <1>2, <1>3, <1>4
=============================================================================
