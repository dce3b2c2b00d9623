-------------------------- MODULE AlgorithmsProofs --------------------------
(***************************************************************************)
(* Proofs about the pure computations of Algorithms, for every input its   *)
(* assumptions admit.                                                      *)
(*                                                                         *)
(* The sums and products of the allocator, and the sums of counters, are   *)
(* folds over finite sets, which take the elements in an order nobody      *)
(* chose.  The first part shows, by induction over the subsets of a finite *)
(* set, that a fold over it is a function on its subsets that obeys the    *)
(* equation of the fold; the second and third that sums and products do    *)
(* what arithmetic says.  The next four follow the two vectors of the      *)
(* allocator from an artifact to the parts its hotkey is paid.  Then come  *)
(* comparators, readings and scores.                                       *)
(*                                                                         *)
(* The plan of a round needs what a loop computes: the shuffle, and the    *)
(* corpus of several roots, are functions on 0 .. k of which each value is *)
(* made from the one before.  The pool of a side is followed by the place  *)
(* of a package among the sorted ones, a profile by the interval of points *)
(* that draw it.  At the end come the calls.                               *)
(***************************************************************************)
EXTENDS Algorithms, FiniteSetTheorems, WellFoundedInduction, TLAPS

-----------------------------------------------------------------------------
(***************************************************************************)
(* Folds over finite sets.                                                 *)
(***************************************************************************)

(* What holds of a finite set whenever it holds of its proper subsets      *)
(* holds of all.                                                           *)
LEMMA SetInduction ==
  ASSUME NEW S, IsFiniteSet(S), NEW Good,
         \A T \in SUBSET S :
           (\A U \in SUBSET T : U # T => U \in Good) => T \in Good
  PROVE  \A T \in SUBSET S : T \in Good
<1> DEFINE Bad == {T \in SUBSET S : T \notin Good}
<1>1. SUFFICES ASSUME Bad # {} PROVE FALSE
  OBVIOUS
<1>2. IsWellFoundedOn(StrictSubsetOrdering(S), SUBSET S)
  BY FS_FiniteSubsetsOfFinite, FS_StrictSubsetOrderingWellFounded
<1>3. \E T \in Bad : \A U \in Bad : ~ (<<U, T>> \in StrictSubsetOrdering(S))
  <2>1. Bad \subseteq SUBSET S
    OBVIOUS
  <2> HIDE DEF Bad
  <2> QED
    BY <1>1, <1>2, <2>1, WFMin
<1>4. PICK T \in Bad : \A U \in Bad : ~ (<<U, T>> \in StrictSubsetOrdering(S))
  BY <1>3
<1>5. \A U \in SUBSET T : U # T => U \in Good
  BY <1>4 DEF StrictSubsetOrdering
<1> QED
  BY <1>4, <1>5

(* The element a fold takes first. *)
Some(T) == CHOOSE x \in T : TRUE

LEMMA SomeElement ==
  ASSUME NEW T, T # {}
  PROVE  Some(T) \in T /\ T \ {Some(T)} \in SUBSET T /\ T \ {Some(T)} # T
  BY DEF Some

(* F is the fold over every subset of S: b of none, and otherwise a step   *)
(* from what is left without the element taken first.                      *)
IsFold(F, S, b, step) ==
  \A T \in SUBSET S :
    F[T] = IF T = {} THEN b ELSE step[<<Some(T), F[T \ {Some(T)}]>>]

(* Folds over two sets agree on the subsets of both, whatever else is in   *)
(* them.                                                                   *)
LEMMA FoldUnique ==
  ASSUME NEW A, NEW B, NEW T, IsFiniteSet(T), T \subseteq A, T \subseteq B,
         NEW b, NEW step, NEW F, NEW G, IsFold(F, A, b, step), IsFold(G, B, b, step)
  PROVE  \A U \in SUBSET T : F[U] = G[U]
<1> DEFINE Good == {U \in SUBSET T : F[U] = G[U]}
<1>1. ASSUME NEW U \in SUBSET T, \A W \in SUBSET U : W # U => W \in Good
      PROVE  U \in Good
  <2>1. CASE U = {}
    BY <2>1 DEF IsFold
  <2>2. CASE U # {}
    <3>1. U \ {Some(U)} \in Good
      BY <1>1, <2>2, SomeElement
    <3>2. U \in SUBSET A /\ U \in SUBSET B
      OBVIOUS
    <3> QED
      BY <2>2, <3>1, <3>2 DEF IsFold
  <2> QED
    BY <2>1, <2>2
<1>2. \A U \in SUBSET T : U \in Good
  <2> HIDE DEF Good
  <2> QED
    BY <1>1, SetInduction
<1> QED
  BY <1>2

(* There is a fold, of the type its steps keep to. *)
LEMMA FoldExists ==
  ASSUME NEW S, IsFiniteSet(S), NEW V, NEW b \in V, NEW step \in [S \X V -> V]
  PROVE  \E F \in [SUBSET S -> V] : IsFold(F, S, b, step)
<1> DEFINE Fold(T, G) == G \in [SUBSET T -> V] /\ IsFold(G, T, b, step)
           Good == {T \in SUBSET S : \E G : Fold(T, G)}
           Of == [T \in SUBSET S |-> CHOOSE G : Fold(T, G)]
<1>1. ASSUME NEW T \in SUBSET S, \A U \in SUBSET T : U # T => U \in Good
      PROVE  T \in Good
  <2>1. ASSUME NEW U \in SUBSET T, U # T
        PROVE  Fold(U, Of[U])
    BY <1>1, <2>1
  <2> DEFINE last == IF T = {} THEN b
                     ELSE step[<<Some(T), Of[T \ {Some(T)}][T \ {Some(T)}]>>]
             G == [U \in SUBSET T |-> IF U = T THEN last ELSE Of[U][U]]
  <2>2. last \in V
    <3>1. CASE T = {}
      BY <3>1
    <3>2. CASE T # {}
      <4>1. Of[T \ {Some(T)}] \in [SUBSET (T \ {Some(T)}) -> V]
        BY <2>1, <3>2, SomeElement
      <4> HIDE DEF Of
      <4>2. Of[T \ {Some(T)}][T \ {Some(T)}] \in V
        BY <4>1
      <4> QED
        BY <3>2, <4>2, SomeElement
    <3> QED
      BY <3>1, <3>2
  <2>3. G \in [SUBSET T -> V]
    <3> HIDE DEF last, Of
    <3> QED
      BY <2>1, <2>2
  <2>4. ASSUME NEW U \in SUBSET T
        PROVE  G[U] = IF U = {} THEN b ELSE step[<<Some(U), G[U \ {Some(U)}]>>]
    <3>1. CASE U = T
      <4> HIDE DEF Of
      <4> QED
        BY <3>1, SomeElement
    <3>2. CASE U # T
      <4>1. Fold(U, Of[U])
        BY <2>1, <3>2
      <4>2. Of[U][U] = IF U = {} THEN b ELSE step[<<Some(U), Of[U][U \ {Some(U)}]>>]
        <5> HIDE DEF Of
        <5> QED
          BY <4>1 DEF IsFold
      <4>3. CASE U = {}
        <5> HIDE DEF Of, last
        <5> QED
          BY <3>2, <4>2, <4>3
      <4>4. CASE U # {}
        <5> DEFINE W == U \ {Some(U)}
        <5>1. W \in SUBSET U /\ W \in SUBSET T /\ W # U /\ W # T
          BY <3>2, <4>4, SomeElement
        <5>2. Fold(W, Of[W])
          BY <2>1, <5>1
        <5>3. IsFiniteSet(W)
          BY FS_Subset
        <5> HIDE DEF Of, W
        <5>4. Of[U][W] = Of[W][W]
          BY <4>1, <5>1, <5>2, <5>3, FoldUnique
        <5>5. G[W] = Of[W][W] /\ G[U] = Of[U][U]
          <6> HIDE DEF last
          <6> QED
            BY <3>2, <5>1
        <5> HIDE DEF G
        <5> QED
          BY <4>2, <4>4, <5>4, <5>5 DEF W
      <4> QED
        BY <4>3, <4>4
    <3> QED
      BY <3>1, <3>2
  <2>5. Fold(T, G)
    <3> HIDE DEF G
    <3> QED
      BY <2>3, <2>4 DEF IsFold
  <2> QED
    <3> HIDE DEF G
    <3> QED
      BY <2>5
<1>2. S \in Good
  <2> HIDE DEF Good
  <2> QED
    BY <1>1, SetInduction
<1> QED
  BY <1>2

-----------------------------------------------------------------------------
(***************************************************************************)
(* Sums.                                                                   *)
(***************************************************************************)

(* f counts something of each element of S. *)
Counts(f, S) == \A x \in S : f[x] \in Nat

(* The equation that SumFunctionOnSet chooses a solution of. *)
SumRule(g, f, S) ==
  g = [T \in SUBSET S |->
        IF T = {} THEN 0
        ELSE LET x == CHOOSE x \in T : TRUE IN f[x] + g[T \ {x}]]

LEMMA SumUnfolds ==
  ASSUME NEW f, NEW S
  PROVE  SumFunctionOnSet(f, S) = (CHOOSE g : SumRule(g, f, S))[S]
BY DEF SumFunctionOnSet, FoldFunctionOnSet, MapThenFoldSet, SumRule

SumSteps(f, S) == [p \in S \X Nat |-> f[p[1]] + p[2]]

(* F holds the sum over every subset of S. *)
SumTable(F, f, S) ==
  /\ F \in [SUBSET S -> Nat]
  /\ IsFold(F, S, 0, SumSteps(f, S))
  /\ \A T \in SUBSET S : SumFunctionOnSet(f, T) = F[T]

LEMMA SumIsFold ==
  ASSUME NEW S, IsFiniteSet(S), NEW f, Counts(f, S)
  PROVE  \E F : SumTable(F, f, S)
<1> DEFINE step == SumSteps(f, S)
<1>1. step \in [S \X Nat -> Nat]
  BY DEF Counts, SumSteps
<1>2. PICK F \in [SUBSET S -> Nat] : IsFold(F, S, 0, step)
  <2> HIDE DEF step
  <2> QED
    BY <1>1, FoldExists
<1>3. ASSUME NEW T \in SUBSET S
      PROVE  SumFunctionOnSet(f, T) = F[T]
  <2> DEFINE H == [U \in SUBSET T |-> F[U]]
  <2>1. ASSUME NEW U \in SUBSET T, U # {}
        PROVE  F[U] = f[Some(U)] + F[U \ {Some(U)}]
    BY <1>2, <2>1, SomeElement DEF IsFold, SumSteps
  <2>2. SumRule(H, f, T)
    <3>1. F[{}] = 0
      BY <1>2 DEF IsFold
    <3>2. ASSUME NEW U \in SUBSET T
          PROVE  H[U] = IF U = {} THEN 0 ELSE LET x == CHOOSE x \in U : TRUE IN f[x] + H[U \ {x}]
      BY <2>1, <3>1 DEF Some
    <3> HIDE DEF H
    <3>3. H = [U \in SUBSET T |-> H[U]]
      BY DEF H
    <3> QED
      BY <3>2, <3>3 DEF SumRule
  <2> DEFINE g == CHOOSE g : SumRule(g, f, T)
  <2>3. SumRule(g, f, T)
    <3> HIDE DEF H
    <3> QED
      BY <2>2
  <2>4. IsFiniteSet(T)
    BY FS_Subset
  <2> DEFINE Good == {U \in SUBSET T : g[U] = F[U]}
  <2>5. ASSUME NEW U \in SUBSET T, \A W \in SUBSET U : W # U => W \in Good
        PROVE  U \in Good
    <3> HIDE DEF g
    <3>1. CASE U = {}
      BY <3>1, <2>3, <1>2 DEF SumRule, IsFold
    <3>2. CASE U # {}
      <4>1. g[U \ {Some(U)}] = F[U \ {Some(U)}]
        BY <2>5, <3>2, SomeElement
      <4>2. g[U] = f[Some(U)] + g[U \ {Some(U)}]
        BY <2>3, <3>2 DEF SumRule, Some
      <4> QED
        BY <4>1, <4>2, <2>1, <3>2
    <3> QED
      BY <3>1, <3>2
  <2>6. T \in Good
    <3> HIDE DEF Good
    <3> QED
      BY <2>4, <2>5, SetInduction
  <2> QED
    BY <2>6, SumUnfolds
<1> QED
  BY <1>2, <1>3 DEF SumTable

(* A sum unfolds by one element. *)
LEMMA SumStep ==
  ASSUME NEW S, IsFiniteSet(S), NEW f, Counts(f, S)
  PROVE  /\ SumFunctionOnSet(f, S) \in Nat
         /\ S = {} => SumFunctionOnSet(f, S) = 0
         /\ S # {} => SumFunctionOnSet(f, S)
                        = f[Some(S)] + SumFunctionOnSet(f, S \ {Some(S)})
<1>1. PICK F : SumTable(F, f, S)
  BY SumIsFold
<1>2. S # {} => F[S] = f[Some(S)] + F[S \ {Some(S)}] /\ S \ {Some(S)} \in SUBSET S
                /\ Some(S) \in S
  BY <1>1, SomeElement DEF SumTable, IsFold, SumSteps
<1>3. S = {} => F[S] = 0
  BY <1>1 DEF SumTable, IsFold
<1> QED
  BY <1>1, <1>2, <1>3 DEF SumTable

(* The order of a sum does not matter. *)
LEMMA SumRemove ==
  ASSUME NEW S, IsFiniteSet(S), NEW f, Counts(f, S)
  PROVE  \A x \in S : SumFunctionOnSet(f, S) = f[x] + SumFunctionOnSet(f, S \ {x})
<1> DEFINE Sum(T) == SumFunctionOnSet(f, T)
           Good == {T \in SUBSET S : \A x \in T : Sum(T) = f[x] + Sum(T \ {x})}
<1>1. ASSUME NEW T \in SUBSET S
      PROVE  IsFiniteSet(T) /\ Counts(f, T)
  BY FS_Subset DEF Counts
<1>2. ASSUME NEW T \in SUBSET S, \A U \in SUBSET T : U # T => U \in Good
      PROVE  T \in Good
  <2>1. SUFFICES ASSUME NEW x \in T
                 PROVE  Sum(T) = f[x] + Sum(T \ {x})
    OBVIOUS
  <2> DEFINE y == Some(T)
  <2>2. y \in T /\ Sum(T) = f[y] + Sum(T \ {y})
    BY <1>1, SumStep, SomeElement
  <2>3. CASE x = y
    BY <2>2, <2>3
  <2>4. CASE x # y
    <3> HIDE DEF y
    <3>1. T \ {y} \in Good /\ T \ {x} \in Good
      BY <1>2, <2>2
    <3>2. x \in T \ {y} /\ y \in T \ {x} /\ (T \ {y}) \ {x} = (T \ {x}) \ {y}
      BY <2>2, <2>4
    <3>3. Sum(T \ {y}) = f[x] + Sum((T \ {x}) \ {y})
      BY <3>1, <3>2
    <3>4. Sum(T \ {x}) = f[y] + Sum((T \ {x}) \ {y})
      BY <3>1, <3>2
    <3>5. Sum((T \ {x}) \ {y}) \in Nat /\ f[x] \in Nat /\ f[y] \in Nat
      <4>1. IsFiniteSet((T \ {x}) \ {y}) /\ Counts(f, (T \ {x}) \ {y})
        BY <1>1
      <4> QED
        BY <4>1, <2>2, SumStep DEF Counts
    <3> HIDE DEF Sum
    <3> QED
      BY <2>2, <3>3, <3>4, <3>5
  <2> QED
    BY <2>3, <2>4
<1>3. S \in Good
  <2> HIDE DEF Good
  <2> QED
    BY <1>2, SetInduction
<1> QED
  BY <1>3

(* A sum of counts is no less than any one or two of them. *)
LEMMA SumBounds ==
  ASSUME NEW S, IsFiniteSet(S), NEW f, Counts(f, S)
  PROVE  /\ \A x \in S : SumFunctionOnSet(f, S) >= f[x]
         /\ \A x, y \in S : x # y => SumFunctionOnSet(f, S) >= f[x] + f[y]
<1> DEFINE Sum(T) == SumFunctionOnSet(f, T)
<1>1. ASSUME NEW T \in SUBSET S
      PROVE  IsFiniteSet(T) /\ Counts(f, T) /\ Sum(T) \in Nat
  BY FS_Subset, SumStep DEF Counts
<1>2. ASSUME NEW T \in SUBSET S, NEW x \in T
      PROVE  Sum(T) = f[x] + Sum(T \ {x}) /\ f[x] \in Nat /\ Sum(T \ {x}) \in Nat
  <2>1. T \ {x} \in SUBSET S
    OBVIOUS
  <2>2. Sum(T \ {x}) \in Nat
    BY <1>1, <2>1
  <2> QED
    BY <1>1, <1>2, <2>2, SumRemove DEF Counts
<1> HIDE DEF Sum
<1>3. ASSUME NEW x \in S
      PROVE  Sum(S) >= f[x]
  <2>1. Sum(S) = f[x] + Sum(S \ {x}) /\ f[x] \in Nat /\ Sum(S \ {x}) \in Nat
    BY <1>2
  <2> QED
    BY <2>1
<1>4. ASSUME NEW x \in S, NEW y \in S, x # y
      PROVE  Sum(S) >= f[x] + f[y]
  <2>1. Sum(S) = f[x] + Sum(S \ {x}) /\ f[x] \in Nat
    BY <1>2
  <2>2. Sum(S \ {x}) = f[y] + Sum((S \ {x}) \ {y}) /\ f[y] \in Nat
         /\ Sum((S \ {x}) \ {y}) \in Nat
    <3>1. y \in S \ {x} /\ S \ {x} \in SUBSET S
      BY <1>4
    <3> QED
      BY <3>1, <1>2
  <2> QED
    BY <2>1, <2>2
<1> QED
  BY <1>3, <1>4 DEF Sum

(* Multiplying every term multiplies the sum. *)
LEMMA SumScaled ==
  ASSUME NEW S, IsFiniteSet(S), NEW f, Counts(f, S), NEW a \in Nat,
         NEW k, \A x \in S : k[x] = a * f[x]
  PROVE  SumFunctionOnSet(k, S) = a * SumFunctionOnSet(f, S)
<1> DEFINE Good == {T \in SUBSET S : SumFunctionOnSet(k, T) = a * SumFunctionOnSet(f, T)}
<1>1. ASSUME NEW T \in SUBSET S
      PROVE  IsFiniteSet(T) /\ Counts(f, T) /\ Counts(k, T)
  <2>1. ASSUME NEW x \in S
        PROVE  k[x] \in Nat
    <3>1. f[x] \in Nat
      BY DEF Counts
    <3>2. a * f[x] \in Nat
      BY <3>1
    <3> QED
      BY <3>2
  <2> QED
    BY <2>1, FS_Subset DEF Counts
<1>2. ASSUME NEW T \in SUBSET S, \A U \in SUBSET T : U # T => U \in Good
      PROVE  T \in Good
  <2>1. CASE T = {}
    <3>1. SumFunctionOnSet(f, T) = 0
      BY <1>1, <2>1, SumStep
    <3>2. SumFunctionOnSet(k, T) = 0
      BY <1>1, <2>1, SumStep
    <3> QED
      BY <3>1, <3>2
  <2>2. CASE T # {}
    <3> DEFINE x == Some(T)
    <3>1. x \in T /\ T \ {x} \in Good /\ T \ {x} \in SUBSET S
      BY <1>2, <2>2, SomeElement
    <3> HIDE DEF x
    <3>2. /\ SumFunctionOnSet(f, T) = f[x] + SumFunctionOnSet(f, T \ {x})
          /\ SumFunctionOnSet(k, T) = k[x] + SumFunctionOnSet(k, T \ {x})
      BY <1>1, <3>1, SumRemove
    <3>3. SumFunctionOnSet(f, T \ {x}) \in Nat /\ f[x] \in Nat
      BY <1>1, <3>1, SumStep DEF Counts
    <3>4. k[x] = a * f[x]
      BY <3>1
    <3>5. SumFunctionOnSet(k, T) = a * f[x] + a * SumFunctionOnSet(f, T \ {x})
      BY <3>1, <3>2, <3>4
    <3> QED
      BY <3>2, <3>3, <3>5
  <2> QED
    BY <2>1, <2>2
<1>3. S \in Good
  <2> HIDE DEF Good
  <2> QED
    BY <1>2, SetInduction
<1> QED
  BY <1>3

-----------------------------------------------------------------------------
(***************************************************************************)
(* Products.                                                               *)
(***************************************************************************)

Positive == Nat \ {0}

(* The equation that Product chooses a solution of. *)
ProductRule(g, f, S) ==
  g = [T \in SUBSET S |->
        IF T = {} THEN 1
        ELSE LET x == CHOOSE x \in T : TRUE IN g[T \ {x}] * f[x]]

LEMMA ProductUnfolds ==
  ASSUME NEW f, NEW S
  PROVE  Product(f, S) = (CHOOSE g : ProductRule(g, f, S))[S]
BY DEF Product, FoldFunctionOnSet, MapThenFoldSet, ProductRule

ProductSteps(f, S) == [p \in S \X Positive |-> p[2] * f[p[1]]]

(* F holds the product over every subset of S. *)
ProductTable(F, f, S) ==
  /\ F \in [SUBSET S -> Positive]
  /\ IsFold(F, S, 1, ProductSteps(f, S))
  /\ \A T \in SUBSET S : Product(f, T) = F[T]

LEMMA TimesPositive ==
  \A m, n \in Positive : m * n \in Positive
BY DEF Positive

LEMMA ProductIsFold ==
  ASSUME NEW S, IsFiniteSet(S), NEW f, \A x \in S : f[x] \in Positive
  PROVE  \E F : ProductTable(F, f, S)
<1> DEFINE step == ProductSteps(f, S)
<1>1. step \in [S \X Positive -> Positive]
  <2>1. ASSUME NEW p \in S \X Positive
        PROVE  p[2] * f[p[1]] \in Positive
    BY TimesPositive
  <2> QED
    BY <2>1 DEF ProductSteps
<1>2. PICK F \in [SUBSET S -> Positive] : IsFold(F, S, 1, step)
  <2>1. 1 \in Positive
    BY DEF Positive
  <2> HIDE DEF step
  <2> QED
    BY <1>1, <2>1, FoldExists
<1>3. ASSUME NEW T \in SUBSET S
      PROVE  Product(f, T) = F[T]
  <2> DEFINE H == [U \in SUBSET T |-> F[U]]
  <2>1. ASSUME NEW U \in SUBSET T, U # {}
        PROVE  F[U] = F[U \ {Some(U)}] * f[Some(U)]
    BY <1>2, <2>1, SomeElement DEF IsFold, ProductSteps
  <2>2. ProductRule(H, f, T)
    <3>1. F[{}] = 1
      BY <1>2 DEF IsFold
    <3>2. ASSUME NEW U \in SUBSET T
          PROVE  H[U] = IF U = {} THEN 1 ELSE LET x == CHOOSE x \in U : TRUE IN H[U \ {x}] * f[x]
      BY <2>1, <3>1 DEF Some
    <3> HIDE DEF H
    <3>3. H = [U \in SUBSET T |-> H[U]]
      BY DEF H
    <3> QED
      BY <3>2, <3>3 DEF ProductRule
  <2> DEFINE g == CHOOSE g : ProductRule(g, f, T)
  <2>3. ProductRule(g, f, T)
    <3> HIDE DEF H
    <3> QED
      BY <2>2
  <2>4. IsFiniteSet(T)
    BY FS_Subset
  <2> DEFINE Good == {U \in SUBSET T : g[U] = F[U]}
  <2>5. ASSUME NEW U \in SUBSET T, \A W \in SUBSET U : W # U => W \in Good
        PROVE  U \in Good
    <3> HIDE DEF g
    <3>1. CASE U = {}
      BY <3>1, <2>3, <1>2 DEF ProductRule, IsFold
    <3>2. CASE U # {}
      <4>1. g[U \ {Some(U)}] = F[U \ {Some(U)}]
        BY <2>5, <3>2, SomeElement
      <4>2. g[U] = g[U \ {Some(U)}] * f[Some(U)]
        BY <2>3, <3>2 DEF ProductRule, Some
      <4> QED
        BY <4>1, <4>2, <2>1, <3>2
    <3> QED
      BY <3>1, <3>2
  <2>6. T \in Good
    <3> HIDE DEF Good
    <3> QED
      BY <2>4, <2>5, SetInduction
  <2> QED
    BY <2>6, ProductUnfolds
<1> QED
  BY <1>2, <1>3 DEF ProductTable

(* A product unfolds by one factor. *)
LEMMA ProductStep ==
  ASSUME NEW S, IsFiniteSet(S), NEW f, \A x \in S : f[x] \in Positive
  PROVE  /\ Product(f, S) \in Positive
         /\ S = {} => Product(f, S) = 1
         /\ S # {} => Product(f, S) = Product(f, S \ {Some(S)}) * f[Some(S)]
<1>1. PICK F : ProductTable(F, f, S)
  BY ProductIsFold
<1>2. S # {} => /\ F[S] = F[S \ {Some(S)}] * f[Some(S)]
                /\ S \ {Some(S)} \in SUBSET S
  BY <1>1, SomeElement DEF ProductTable, IsFold, ProductSteps
<1>3. S = {} => F[S] = 1
  BY <1>1 DEF ProductTable, IsFold
<1> QED
  BY <1>1, <1>2, <1>3 DEF ProductTable

LEMMA TimesGrows ==
  \A k, l, m, n \in Positive : k <= l /\ m <= n => k * m <= l * n
BY DEF Positive

(* A product of greater factors is not smaller. *)
LEMMA ProductGrows ==
  ASSUME NEW S, IsFiniteSet(S), NEW f, NEW g,
         \A x \in S : f[x] \in Positive /\ g[x] \in Positive /\ f[x] <= g[x]
  PROVE  Product(f, S) <= Product(g, S)
<1> DEFINE Good == {T \in SUBSET S : Product(f, T) <= Product(g, T)}
<1>1. ASSUME NEW T \in SUBSET S, \A U \in SUBSET T : U # T => U \in Good
      PROVE  T \in Good
  <2>1. IsFiniteSet(T) /\ \A x \in T : f[x] \in Positive /\ g[x] \in Positive
    BY FS_Subset
  <2>2. CASE T = {}
    <3>1. Product(f, T) = 1 /\ Product(g, T) = 1
      BY <2>1, <2>2, ProductStep
    <3> QED
      BY <3>1
  <2>3. CASE T # {}
    <3> DEFINE x == Some(T)
    <3>1. x \in T /\ T \ {x} \in Good
      BY <1>1, <2>3, SomeElement
    <3>2. /\ Product(f, T) = Product(f, T \ {x}) * f[x]
          /\ Product(g, T) = Product(g, T \ {x}) * g[x]
      BY <2>1, <2>3, ProductStep
    <3> HIDE DEF x
    <3>3. IsFiniteSet(T \ {x}) /\ \A y \in T \ {x} : f[y] \in Positive /\ g[y] \in Positive
      BY <2>1, FS_Subset
    <3>4. Product(f, T \ {x}) \in Positive /\ Product(g, T \ {x}) \in Positive
      BY <3>3, ProductStep
    <3>5. Product(f, T \ {x}) <= Product(g, T \ {x})
      BY <3>1
    <3>6. f[x] \in Positive /\ g[x] \in Positive /\ f[x] <= g[x]
      BY <3>1
    <3> QED
      BY <3>2, <3>4, <3>5, <3>6, TimesGrows
  <2> QED
    BY <2>2, <2>3
<1>2. S \in Good
  <2> HIDE DEF Good
  <2> QED
    BY <1>1, SetInduction
<1> QED
  BY <1>2

-----------------------------------------------------------------------------
(***************************************************************************)
(* Vectors, and the splitting of a share.                                  *)
(***************************************************************************)

(* Fractions of the emission for every hotkey, with a denominator that can *)
(* divide.                                                                 *)
Vectors == [parts : [Hotkeys -> Nat], of : Positive]

(* A value for every hotkey. *)
Amounts == [Hotkeys -> Nat]

Aggregates == [Tasks -> Nat \cup {Failed}]

Champion == [digest : Digests \cup {None}, hotkey : Hotkeys \cup {None}, decay : 1 .. 20]

(* What RoundsAssumption says of a round. *)
RoundOf(aggs, records) ==
  /\ DOMAIN aggs \subseteq Digests
  /\ aggs \in [DOMAIN aggs -> Aggregates]
  /\ \A d \in DOMAIN aggs : /\ records[d].rounds \in Nat
                            /\ records[d].failures \in 0 .. records[d].rounds

(* A sum of nothing but zeros is zero. *)
LEMMA SumZero ==
  ASSUME NEW S, IsFiniteSet(S), NEW f, Counts(f, S), \A x \in S : f[x] = 0
  PROVE  SumFunctionOnSet(f, S) = 0
<1>1. \A x \in S : f[x] = 0 * f[x]
  BY DEF Counts
<1>2. SumFunctionOnSet(f, S) = 0 * SumFunctionOnSet(f, S)
  BY <1>1, SumScaled
<1>3. SumFunctionOnSet(f, S) \in Nat
  BY SumStep
<1> QED
  BY <1>2, <1>3

(* The sum of what the hotkeys have, and no hotkey has more. *)
LEMMA AmountsAddUp ==
  ASSUME NEW v \in Amounts
  PROVE  /\ SumFunction(v) = SumFunctionOnSet(v, Hotkeys)
         /\ SumFunction(v) \in Nat
         /\ Counts(v, Hotkeys)
         /\ \A h \in Hotkeys : SumFunction(v) >= v[h]
<1>1. Counts(v, Hotkeys) /\ DOMAIN v = Hotkeys
  BY DEF Counts, Amounts
<1> QED
  BY <1>1, MinersAssumption, SumStep, SumBounds DEF SumFunction

LEMMA NothingIsAVector == Nothing \in Vectors
BY DEF Nothing, Vectors, Positive

(* Captures do not lower the geometric mean. *)
LEMMA StandingType ==
  ASSUME NEW agg \in Aggregates, NEW tasks \in SUBSET Tasks
  PROVE  Standing(agg, tasks) \in Nat
<1> DEFINE f == [t \in tasks |-> Unit]
           g == [t \in tasks |-> Unit + capture(agg[t])]
<1>1. IsFiniteSet(tasks)
  BY TasksAssumption, FS_Subset
<1>2. \A t \in tasks : f[t] \in Positive /\ g[t] \in Positive /\ f[t] <= g[t]
  BY DEF Unit, capture, Failed, Aggregates, Positive
<1> HIDE DEF f, g
<1>3. Product(f, tasks) \in Nat /\ Product(g, tasks) \in Nat
  BY <1>1, <1>2, ProductStep DEF Positive
<1>4. Product(f, tasks) <= Product(g, tasks)
  BY <1>1, <1>2, ProductGrows
<1>5. Product(g, tasks) - Product(f, tasks) \in Nat
  BY <1>3, <1>4
<1> QED
  BY <1>5 DEF Standing, f, g

(* What the artifacts of a miner earn: it has at most one in a round. *)
LEMMA PerHotkeyPays ==
  ASSUME NEW D \in SUBSET Digests, NEW v \in [D -> Nat]
  PROVE  /\ PerHotkey(v) \in Amounts
         /\ \A d \in D : Owner[d] \in Hotkeys /\ PerHotkey(v)[Owner[d]] = v[d]
         /\ \A h \in Hotkeys : (\A d \in D : Owner[d] # h) => PerHotkey(v)[h] = 0
<1> DEFINE Of(h) == {d \in D : Owner[d] = h}
<1>1. PerHotkey(v) = [h \in Hotkeys |-> SumFunctionOnSet(v, Of(h))]
  BY DEF PerHotkey
<1>2. ASSUME NEW h \in Hotkeys
      PROVE  IsFiniteSet(Of(h)) /\ Counts(v, Of(h))
  <2>1. IsFiniteSet(Of(h))
    BY MinersAssumption, FS_Subset
  <2> QED
    BY <2>1 DEF Counts
<1>3. PerHotkey(v) \in Amounts
  <2> HIDE DEF Of
  <2> QED
    BY <1>1, <1>2, SumStep DEF Amounts
<1>4. ASSUME NEW d \in D
      PROVE  Owner[d] \in Hotkeys /\ PerHotkey(v)[Owner[d]] = v[d]
  <2>1. Owner[d] \in Hotkeys
    BY MinersAssumption
  <2>2. Of(Owner[d]) = {d}
    BY MinersAssumption DEF IsInjective
  <2>3. IsFiniteSet({d}) /\ Counts(v, {d}) /\ IsFiniteSet({})
    BY FS_Singleton, FS_EmptySet DEF Counts
  <2>4. SumFunctionOnSet(v, {d}) = v[d] + SumFunctionOnSet(v, {d} \ {d})
    BY <2>3, SumRemove
  <2>5. SumFunctionOnSet(v, {d} \ {d}) = 0
    BY <2>3, SumStep DEF Counts
  <2>6. v[d] \in Nat
    OBVIOUS
  <2> HIDE DEF Of
  <2> QED
    BY <1>1, <2>1, <2>2, <2>4, <2>5, <2>6
<1>5. ASSUME NEW h \in Hotkeys, \A d \in D : Owner[d] # h
      PROVE  PerHotkey(v)[h] = 0
  <2>1. Of(h) = {}
    BY <1>5
  <2>2. SumFunctionOnSet(v, Of(h)) = 0
    BY <1>2, <2>1, SumStep
  <2> HIDE DEF Of
  <2> QED
    BY <1>1, <2>2
<1> QED
  BY <1>3, <1>4, <1>5

(* A share split by values is a vector. *)
LEMMA SplitType ==
  ASSUME NEW share \in Int, NEW of \in Positive, NEW v \in Amounts
  PROVE  Split(share, of, v) \in Vectors
<1>1. CASE share <= 0 \/ SumFunction(v) = 0
  BY <1>1, NothingIsAVector DEF Split
<1>2. CASE ~ (share <= 0 \/ SumFunction(v) = 0)
  <2>1. of * SumFunction(v) \in Positive
    <3>1. SumFunction(v) \in Positive
      BY <1>2, AmountsAddUp DEF Positive
    <3> QED
      BY <3>1, TimesPositive
  <2>2. \A h \in Hotkeys : share * v[h] \in Nat
    <3>1. \A m, n \in Nat : m * n \in Nat
      OBVIOUS
    <3> QED
      BY <1>2, <3>1 DEF Amounts
  <2> QED
    BY <1>2, <2>1, <2>2 DEF Split, Vectors
<1> QED
  BY <1>1, <1>2

(* A split pays a hotkey its value, times the share. *)
LEMMA SplitPays ==
  ASSUME NEW share \in Positive, NEW of \in Positive, NEW v \in Amounts, SumFunction(v) > 0
  PROVE  /\ Split(share, of, v).parts = [h \in Hotkeys |-> share * v[h]]
         /\ Split(share, of, v).of = of * SumFunction(v)
BY DEF Split, Positive

(* The parts of a split add up to the share. *)
LEMMA WholeParts ==
  \A m, n \in Positive :
    /\ n % m = 0 => n \div m \in Positive
    /\ (m * n) \div m = n /\ (m * n) \div n = m
    /\ n \div n = 1
BY DEF Positive

(* A hotkey that either vector pays is paid by both together. *)
LEMMA PlusPays ==
  ASSUME NEW u \in Vectors, NEW v \in Vectors
  PROVE  /\ Plus(u, v) \in Vectors
         /\ \A h \in Hotkeys : u.parts[h] > 0 \/ v.parts[h] > 0 => Plus(u, v).parts[h] > 0
<1> DEFINE whole == IF v.of % u.of = 0 THEN v.of ELSE u.of * v.of
           m == whole \div u.of
           n == whole \div v.of
<1>1. u.of \in Positive /\ v.of \in Positive
  BY DEF Vectors
<1>2. whole \in Positive /\ m \in Positive /\ n \in Positive
  <2>1. CASE v.of % u.of = 0
    <3>1. whole = v.of /\ v.of \div u.of \in Positive /\ v.of \div v.of = 1
      BY <1>1, <2>1, WholeParts
    <3> QED
      BY <1>1, <3>1 DEF Positive
  <2>2. CASE v.of % u.of # 0
    <3>1. /\ whole = u.of * v.of
          /\ (u.of * v.of) \div u.of = v.of
          /\ (u.of * v.of) \div v.of = u.of
          /\ u.of * v.of \in Positive
      BY <1>1, <2>2, WholeParts, TimesPositive
    <3> QED
      BY <1>1, <3>1
  <2> QED
    BY <2>1, <2>2
<1>3. Plus(u, v) = [parts |-> [h \in Hotkeys |-> u.parts[h] * m + v.parts[h] * n], of |-> whole]
  BY DEF Plus
<1> HIDE DEF whole, m, n
<1>4. ASSUME NEW h \in Hotkeys
      PROVE  /\ u.parts[h] * m + v.parts[h] * n \in Nat
             /\ u.parts[h] > 0 \/ v.parts[h] > 0 => u.parts[h] * m + v.parts[h] * n > 0
  <2>1. u.parts[h] \in Nat /\ v.parts[h] \in Nat
    BY DEF Vectors
  <2>2. \A a \in Nat, b \in Positive : a * b \in Nat /\ (a > 0 => a * b > 0)
    BY DEF Positive
  <2>3. /\ u.parts[h] * m \in Nat /\ (u.parts[h] > 0 => u.parts[h] * m > 0)
        /\ v.parts[h] * n \in Nat /\ (v.parts[h] > 0 => v.parts[h] * n > 0)
    BY <1>2, <2>1, <2>2
  <2> QED
    BY <2>3
<1> QED
  BY <1>2, <1>3, <1>4 DEF Vectors

-----------------------------------------------------------------------------
(***************************************************************************)
(* The values by which the pools are divided.                              *)
(***************************************************************************)

FloorValues(aggs, records) ==
  PerHotkey([d \in {d \in DOMAIN aggs : eligible(records[d])} |->
               gates_passed(aggs[d]) * reliability(records[d])])

Earned(aggs, others) == PerHotkey([d \in others |-> held_out_score(aggs[d])])

HeldOutValues(aggs, others) ==
  IF SumFunction(Earned(aggs, others)) > 0 THEN Earned(aggs, others)
  ELSE [h \in Hotkeys |-> IF \E d \in others : Owner[d] = h THEN 1 ELSE 0]

LEMMA GatesType ==
  ASSUME NEW agg \in Aggregates
  PROVE  gates_passed(agg) \in Nat
<1>1. IsFiniteSet({t \in DOMAIN agg : agg[t] # Failed})
  BY TasksAssumption, FS_Subset DEF Aggregates
<1> QED
  BY <1>1, FS_CardinalityType DEF gates_passed

LEMMA ReliabilityType ==
  ASSUME NEW record, record.rounds \in Nat, record.failures \in 0 .. record.rounds
  PROVE  reliability(record) \in Positive
<1>1. CASE record.rounds = 0
  BY <1>1 DEF reliability, Positive
<1>2. CASE record.rounds # 0
  <2> DEFINE kept == (10 * (record.rounds - record.failures)) \div record.rounds
  <2>1. kept \in Int
    BY <1>2
  <2>2. reliability(record) = Max({kept, 1})
    BY <1>2 DEF reliability
  <2> HIDE DEF kept
  <2>3. \E x \in {kept, 1} : \A y \in {kept, 1} : x >= y
    BY <2>1
  <2>4. /\ Max({kept, 1}) \in {kept, 1}
        /\ \A y \in {kept, 1} : Max({kept, 1}) >= y
    BY <2>3 DEF Max
  <2> QED
    BY <2>1, <2>2, <2>4 DEF Positive
<1> QED
  BY <1>1, <1>2

(* An eligible artifact that passed a gate has a claim to the floor. *)
LEMMA FloorPays ==
  ASSUME NEW aggs, NEW records, RoundOf(aggs, records)
  PROVE  /\ FloorValues(aggs, records) \in Amounts
         /\ \A d \in DOMAIN aggs :
              gates_passed(aggs[d]) > 0 /\ eligible(records[d])
                => Owner[d] \in Hotkeys /\ FloorValues(aggs, records)[Owner[d]] > 0
<1> DEFINE D == {d \in DOMAIN aggs : eligible(records[d])}
           v == [d \in D |-> gates_passed(aggs[d]) * reliability(records[d])]
<1>1. ASSUME NEW d \in D
      PROVE  /\ gates_passed(aggs[d]) * reliability(records[d]) \in Nat
             /\ gates_passed(aggs[d]) > 0
                  => gates_passed(aggs[d]) * reliability(records[d]) > 0
  <2>1. gates_passed(aggs[d]) \in Nat
    BY GatesType DEF RoundOf
  <2>2. reliability(records[d]) \in Positive
    BY ReliabilityType DEF RoundOf
  <2>3. \A a \in Nat, b \in Positive : a * b \in Nat /\ (a > 0 => a * b > 0)
    BY DEF Positive
  <2> QED
    BY <2>1, <2>2, <2>3
<1>2. D \in SUBSET Digests /\ v \in [D -> Nat]
  <2>1. D \in SUBSET Digests
    BY DEF RoundOf
  <2> QED
    BY <1>1, <2>1
<1>3. FloorValues(aggs, records) = PerHotkey(v)
  BY DEF FloorValues
<1>4. ASSUME NEW d \in DOMAIN aggs, gates_passed(aggs[d]) > 0, eligible(records[d])
      PROVE  d \in D /\ v[d] > 0
  BY <1>1, <1>4
<1> HIDE DEF D, v
<1> QED
  BY <1>2, <1>3, <1>4, PerHotkeyPays

LEMMA HeldOutType ==
  ASSUME NEW agg \in Aggregates
  PROVE  held_out_score(agg) \in Nat
<1>1. HiddenTasks \in SUBSET Tasks
  BY DEF Tasks
<1> QED
  BY <1>1, StandingType DEF held_out_score

(* Each hotkey earns the held-out score of its one artifact. *)
LEMMA EarnedPays ==
  ASSUME NEW aggs, NEW records, RoundOf(aggs, records), NEW others \in SUBSET DOMAIN aggs
  PROVE  /\ Earned(aggs, others) \in Amounts
         /\ \A d \in others : /\ Owner[d] \in Hotkeys
                              /\ Earned(aggs, others)[Owner[d]] = held_out_score(aggs[d])
         /\ \A h \in Hotkeys : (\A d \in others : Owner[d] # h) => Earned(aggs, others)[h] = 0
<1> DEFINE v == [d \in others |-> held_out_score(aggs[d])]
<1>1. others \in SUBSET Digests /\ v \in [others -> Nat]
  <2>1. \A d \in others : held_out_score(aggs[d]) \in Nat
    BY HeldOutType DEF RoundOf
  <2> QED
    BY <2>1 DEF RoundOf
<1>2. Earned(aggs, others) = PerHotkey(v)
  BY DEF Earned
<1>3. \A d \in others : v[d] = held_out_score(aggs[d])
  OBVIOUS
<1> HIDE DEF v
<1> QED
  BY <1>1, <1>2, <1>3, PerHotkeyPays

(* The pool of the survivors always pays someone, and only them.  *)
LEMMA HeldOutPays ==
  ASSUME NEW aggs, NEW records, RoundOf(aggs, records), NEW others \in SUBSET DOMAIN aggs,
         others # {}
  PROVE  /\ HeldOutValues(aggs, others) \in Amounts
         /\ SumFunction(HeldOutValues(aggs, others)) > 0
         /\ \A h \in Hotkeys :
              (\A d \in others : Owner[d] # h) => HeldOutValues(aggs, others)[h] = 0
         /\ \A d, e \in others :
              held_out_score(aggs[d]) >= held_out_score(aggs[e])
                => HeldOutValues(aggs, others)[Owner[d]] >= HeldOutValues(aggs, others)[Owner[e]]
<1>1. CASE SumFunction(Earned(aggs, others)) > 0
  <2>1. HeldOutValues(aggs, others) = Earned(aggs, others)
    BY <1>1 DEF HeldOutValues
  <2> QED
    BY <1>1, <2>1, EarnedPays
<1>2. CASE ~ SumFunction(Earned(aggs, others)) > 0
  <2> DEFINE evenly == [h \in Hotkeys |-> IF \E d \in others : Owner[d] = h THEN 1 ELSE 0]
  <2>1. HeldOutValues(aggs, others) = evenly
    BY <1>2 DEF HeldOutValues
  <2>2. evenly \in Amounts
    BY DEF Amounts
  <2>3. \A d \in others : Owner[d] \in Hotkeys /\ evenly[Owner[d]] = 1
    BY EarnedPays
  <2>4. \A h \in Hotkeys : (\A d \in others : Owner[d] # h) => evenly[h] = 0
    OBVIOUS
  <2> HIDE DEF evenly
  <2>5. SumFunction(evenly) > 0
    <3>1. PICK d \in others : TRUE
      OBVIOUS
    <3>2. SumFunction(evenly) >= evenly[Owner[d]] /\ SumFunction(evenly) \in Nat
      BY <2>2, <2>3, AmountsAddUp
    <3> QED
      BY <2>3, <3>2
  <2> QED
    BY <2>1, <2>2, <2>3, <2>4, <2>5
<1> QED
  BY <1>1, <1>2

(* The floor and the pool split a share by those values. *)
LEMMA SharesAreSplits ==
  ASSUME NEW aggs, NEW records, NEW others, NEW share, NEW of
  PROVE  /\ floor_distribution(aggs, records, share, of)
              = Split(share, of, FloorValues(aggs, records))
         /\ held_out_distribution(aggs, others, share, of)
              = Split(share, of, HeldOutValues(aggs, others))
<1>1. floor_distribution(aggs, records, share, of) = Split(share, of, FloorValues(aggs, records))
  BY DEF floor_distribution, FloorValues
<1>2. held_out_distribution(aggs, others, share, of)
        = Split(share, of, HeldOutValues(aggs, others))
  BY DEF held_out_distribution, HeldOutValues, Earned
<1> QED
  BY <1>1, <1>2

(* The weights that ranks earn in a cell. *)
LEMMA CellType ==
  ASSUME NEW aggs, NEW records, RoundOf(aggs, records), NEW cell \in Cells
  PROVE  cell_distribution(aggs, cell) \in Vectors
<1> DEFINE f(i) == [j \in 1 .. TopK - 1 |-> IF j <= i THEN 4 ELSE 5]
           Decay(i) == Product(f(i), 1 .. TopK - 1)
           v == [d \in top_k(aggs, cell) |-> Decay(rank(aggs, cell, d))]
<1>1. ASSUME NEW i
      PROVE  Decay(i) \in Nat
  <2>1. \A j \in 1 .. TopK - 1 : f(i)[j] \in Positive
    BY DEF Positive
  <2>2. IsFiniteSet(1 .. TopK - 1)
    BY TasksAssumption, FS_Interval
  <2> HIDE DEF f
  <2> QED
    BY <2>1, <2>2, ProductStep DEF Positive
<1>2. top_k(aggs, cell) \in SUBSET Digests
  BY DEF top_k, RoundOf
<1> HIDE DEF Decay
<1>3. v \in [top_k(aggs, cell) -> Nat]
  BY <1>1
<1>4. PerHotkey(v) \in Amounts
  <2> HIDE DEF v
  <2> QED
    BY <1>2, <1>3, PerHotkeyPays
<1>5. 8 * Cardinality(Cells) \in Positive
  <2>1. Cardinality(Cells) \in Nat /\ Cardinality(Cells) # 0
    BY TasksAssumption, FS_CardinalityType, FS_EmptySet
  <2> QED
    BY <2>1 DEF Positive
<1>6. cell_distribution(aggs, cell) = Split(5, 8 * Cardinality(Cells), PerHotkey(v))
  BY DEF cell_distribution, Decay
<1> HIDE DEF v
<1> QED
  BY <1>4, <1>5, <1>6, SplitType

CellsVector(aggs) ==
  FoldSet(LAMBDA cell, v : Plus(cell_distribution(aggs, cell), v), Nothing, Cells)

(* The equation that the fold over the cells chooses a solution of. *)
CellsRule(g, aggs) ==
  g = [T \in SUBSET Cells |->
        IF T = {} THEN Nothing
        ELSE LET x == CHOOSE x \in T : TRUE
             IN  Plus(cell_distribution(aggs, x), g[T \ {x}])]

LEMMA CellsUnfold ==
  ASSUME NEW aggs
  PROVE  CellsVector(aggs) = (CHOOSE g : CellsRule(g, aggs))[Cells]
BY DEF CellsVector, FoldSet, MapThenFoldSet, CellsRule

(* The cells together make a vector. *)
LEMMA CellsVectorType ==
  ASSUME NEW aggs, NEW records, RoundOf(aggs, records)
  PROVE  CellsVector(aggs) \in Vectors
<1> DEFINE step == [p \in Cells \X Vectors |-> Plus(cell_distribution(aggs, p[1]), p[2])]
           g == CHOOSE g : CellsRule(g, aggs)
<1>1. step \in [Cells \X Vectors -> Vectors]
  <2>1. ASSUME NEW p \in Cells \X Vectors
        PROVE  Plus(cell_distribution(aggs, p[1]), p[2]) \in Vectors
    BY CellType, PlusPays
  <2> QED
    BY <2>1
<1>2. PICK F \in [SUBSET Cells -> Vectors] : IsFold(F, Cells, Nothing, step)
  <2> HIDE DEF step
  <2> QED
    BY <1>1, TasksAssumption, NothingIsAVector, FoldExists
<1>3. CellsRule(g, aggs)
  <2>1. F[{}] = Nothing
    BY <1>2 DEF IsFold
  <2>2. ASSUME NEW T \in SUBSET Cells, T # {}
        PROVE  F[T] = Plus(cell_distribution(aggs, Some(T)), F[T \ {Some(T)}])
    <3>1. Some(T) \in Cells /\ T \ {Some(T)} \in SUBSET Cells
      BY <2>2, SomeElement
    <3>2. F[T] = step[<<Some(T), F[T \ {Some(T)}]>>]
      BY <1>2, <2>2 DEF IsFold
    <3> QED
      BY <3>1, <3>2
  <2>3. CellsRule(F, aggs)
    <3>1. F = [T \in SUBSET Cells |-> F[T]]
      OBVIOUS
    <3>2. ASSUME NEW T \in SUBSET Cells
          PROVE  F[T] = IF T = {} THEN Nothing
                        ELSE LET x == CHOOSE x \in T : TRUE
                             IN  Plus(cell_distribution(aggs, x), F[T \ {x}])
      BY <2>1, <2>2 DEF Some
    <3> QED
      BY <3>1, <3>2 DEF CellsRule
  <2> QED
    BY <2>3
<1> DEFINE Good == {T \in SUBSET Cells : g[T] \in Vectors}
<1>4. ASSUME NEW T \in SUBSET Cells, \A U \in SUBSET T : U # T => U \in Good
      PROVE  T \in Good
  <2> HIDE DEF g
  <2>1. CASE T = {}
    BY <1>3, <2>1, NothingIsAVector DEF CellsRule
  <2>2. CASE T # {}
    <3>1. g[T \ {Some(T)}] \in Vectors /\ Some(T) \in Cells
      BY <1>4, <2>2, SomeElement
    <3>2. g[T] = Plus(cell_distribution(aggs, Some(T)), g[T \ {Some(T)}])
      BY <1>3, <2>2 DEF CellsRule, Some
    <3> QED
      BY <3>1, <3>2, CellType, PlusPays
  <2> QED
    BY <2>1, <2>2
<1>5. Cells \in Good
  <2> HIDE DEF Good
  <2> QED
    BY <1>4, TasksAssumption, SetInduction
<1> QED
  BY <1>5, CellsUnfold

-----------------------------------------------------------------------------
(***************************************************************************)
(* Who is paid.                                                            *)
(***************************************************************************)

(* A vector that pays somebody is not rejected as empty. *)
LEMMA NormalisedPays ==
  ASSUME NEW v \in Vectors, NEW h \in Hotkeys, v.parts[h] > 0
  PROVE  Normalised(v).of > 0
<1>1. v.parts \in Amounts /\ v.parts[h] \in Nat
  BY DEF Vectors, Amounts
<1>2. SumFunction(v.parts) \in Nat /\ SumFunction(v.parts) >= v.parts[h]
  BY <1>1, AmountsAddUp
<1> QED
  BY <1>1, <1>2 DEF Normalised

(* A sum of nothing but zeros is not positive. *)
LEMMA SomeoneHasAmount ==
  ASSUME NEW v \in Amounts, SumFunction(v) > 0
  PROVE  \E h \in Hotkeys : v[h] > 0
<1>1. SUFFICES ASSUME \A h \in Hotkeys : ~ v[h] > 0
               PROVE  FALSE
  OBVIOUS
<1>2. IsFiniteSet(Hotkeys) /\ Counts(v, Hotkeys)
  BY AmountsAddUp, MinersAssumption
<1>3. \A h \in Hotkeys : v[h] = 0
  BY <1>1 DEF Amounts
<1>4. SumFunctionOnSet(v, Hotkeys) = 0
  BY <1>2, <1>3, SumZero
<1> QED
  BY <1>4, AmountsAddUp

(* A positive share of a pool that anyone has a claim to reaches someone. *)
LEMMA SplitReachesSomeone ==
  ASSUME NEW share \in Positive, NEW of \in Positive, NEW v \in Amounts, SumFunction(v) > 0
  PROVE  \E h \in Hotkeys : Split(share, of, v).parts[h] > 0
<1>1. PICK h \in Hotkeys : v[h] > 0
  BY SomeoneHasAmount
<1>2. Split(share, of, v).parts[h] = share * v[h]
  <2>1. Split(share, of, v).parts = [g \in Hotkeys |-> share * v[g]]
    BY SplitPays
  <2> QED
    BY <2>1
<1>3. v[h] \in Nat
  BY DEF Amounts
<1>4. share * v[h] > 0
  BY <1>1, <1>3 DEF Positive
<1> QED
  BY <1>2, <1>4

LEMMA AllAreSurvivors ==
  ASSUME NEW aggs, NEW records, RoundOf(aggs, records)
  PROVE  Survivors(aggs) \in SUBSET DOMAIN aggs /\ Survivors(aggs) \in SUBSET Digests
BY DEF Survivors, RoundOf

(* The crown of allocate_generalist, written down directly. *)
crown_of(champion) ==
  [parts |-> [h \in Hotkeys |-> IF h = champion_hotkey(champion) THEN 17 * champion.decay
                                ELSE 0],
   of |-> 400]

(* A champion among the survivors is paid a crown of 17/400 of the         *)
(* emission for each step of decay_multiplier.                             *)
LEMMA CrownType ==
  ASSUME NEW champion \in Champion, champion.digest \in Digests
  PROVE  /\ champion_hotkey(champion) \in Hotkeys
         /\ crown_of(champion) \in Vectors
         /\ crown_of(champion).of = 400
         /\ \A h \in Hotkeys : crown_of(champion).parts[h]
                = IF h = champion_hotkey(champion) THEN 17 * champion.decay ELSE 0
         /\ 17 * champion.decay \in Positive
         /\ 400 - 17 * champion.decay \in Positive
<1>1. champion_hotkey(champion) \in Hotkeys
  BY MinersAssumption DEF Champion, champion_hotkey
<1>2. 17 * champion.decay \in Positive /\ 400 - 17 * champion.decay \in Positive
  BY DEF Champion, Positive
<1> QED
  BY <1>1, <1>2 DEF crown_of, Vectors, Positive

PoolValues(aggs, records, others) ==
  IF others = {} THEN FloorValues(aggs, records) ELSE HeldOutValues(aggs, others)

(* The pool splits its share by the floor or by the held-out scores. *)
LEMMA PoolIsASplit ==
  ASSUME NEW aggs, NEW records, NEW others, NEW share, NEW of
  PROVE  pool(aggs, records, others, share, of)
           = Split(share, of, PoolValues(aggs, records, others))
BY SharesAreSplits DEF pool, PoolValues

LEMMA PoolType ==
  ASSUME NEW aggs, NEW records, RoundOf(aggs, records), NEW others \in SUBSET DOMAIN aggs
  PROVE  PoolValues(aggs, records, others) \in Amounts
BY FloorPays, HeldOutPays DEF PoolValues

(* Verified work or a survivor leaves a generalist vector that pays        *)
(* someone.                                                                *)
LEMMA GeneralistIsPaid ==
  ASSUME NEW aggs, NEW records, RoundOf(aggs, records), NEW champion \in Champion,
         Survivors(aggs) # {} \/
           \E d \in DOMAIN aggs : gates_passed(aggs[d]) > 0 /\ eligible(records[d])
  PROVE  allocate_generalist(aggs, records, champion).of > 0
<1> DEFINE survivors == Survivors(aggs)
<1>1. 1 \in Positive /\ 1 \in Int
  BY DEF Positive
<1>2. survivors \in SUBSET DOMAIN aggs /\ survivors \in SUBSET Digests
  BY AllAreSurvivors
<1>3. CASE survivors = {}
  <2>1. PICK d \in DOMAIN aggs : gates_passed(aggs[d]) > 0 /\ eligible(records[d])
    BY <1>3
  <2> DEFINE v == FloorValues(aggs, records)
  <2>2. v \in Amounts /\ Owner[d] \in Hotkeys /\ v[Owner[d]] > 0
    BY <2>1, FloorPays
  <2>3. allocate_generalist(aggs, records, champion) = Normalised(Split(1, 1, v))
    BY <1>3, SharesAreSplits DEF allocate_generalist
  <2> HIDE DEF v
  <2>4. SumFunction(v) > 0
    <3>1. SumFunction(v) >= v[Owner[d]] /\ SumFunction(v) \in Nat /\ v[Owner[d]] \in Nat
      BY <2>2, AmountsAddUp DEF Amounts
    <3> QED
      BY <2>2, <3>1
  <2> QED
    BY <1>1, <2>2, <2>3, <2>4, SplitType, SplitReachesSomeone, NormalisedPays
<1>4. CASE champion.digest \in survivors
  <2> DEFINE u == crown_of(champion)
             v == pool(aggs, records, survivors \ {champion.digest},
                       400 - 17 * champion.decay, 400)
             H == champion_hotkey(champion)
  <2>1. allocate_generalist(aggs, records, champion) = Normalised(Plus(u, v))
    BY <1>4 DEF allocate_generalist, crown_of
  <2>2. H \in Hotkeys /\ u \in Vectors /\ u.parts[H] > 0
    BY <1>2, <1>4, CrownType DEF Positive
  <2>3. v \in Vectors
    <3>1. 400 \in Positive /\ 400 - 17 * champion.decay \in Int
      BY <1>2, <1>4, CrownType DEF Positive
    <3>2. PoolValues(aggs, records, survivors \ {champion.digest}) \in Amounts
      BY <1>2, PoolType
    <3> QED
      BY <3>1, <3>2, PoolIsASplit, SplitType
  <2> HIDE DEF u, v, H
  <2> QED
    BY <2>1, <2>2, <2>3, PlusPays, NormalisedPays
<1>5. CASE survivors # {} /\ champion.digest \notin survivors
  <2> DEFINE v == HeldOutValues(aggs, survivors)
  <2>1. v \in Amounts /\ SumFunction(v) > 0
    BY <1>2, <1>5, HeldOutPays
  <2>2. allocate_generalist(aggs, records, champion) = Normalised(Split(1, 1, v))
    BY <1>5, SharesAreSplits DEF allocate_generalist
  <2> HIDE DEF v
  <2> QED
    BY <1>1, <2>1, <2>2, SplitType, SplitReachesSomeone, NormalisedPays
<1> QED
  BY <1>3, <1>4, <1>5

(* Verified work leaves a specialist vector that pays someone. *)
LEMMA SpecialistIsPaid ==
  ASSUME NEW aggs, NEW records, RoundOf(aggs, records),
         \E d \in DOMAIN aggs : gates_passed(aggs[d]) > 0 /\ eligible(records[d])
  PROVE  allocate_specialist(aggs, records).of > 0
<1> DEFINE cells == CellsVector(aggs)
           left == cells.of - SumFunction(cells.parts)
           v == FloorValues(aggs, records)
           floor == Split(left, cells.of, v)
<1>1. cells \in Vectors /\ cells.parts \in Amounts /\ cells.of \in Positive
  BY CellsVectorType DEF Vectors, Amounts
<1>2. allocate_specialist(aggs, records) = Normalised(Plus(cells, floor))
  BY SharesAreSplits DEF allocate_specialist, CellsVector
<1>3. v \in Amounts /\ \E h \in Hotkeys : v[h] > 0
  BY FloorPays
<1> HIDE DEF cells, v
<1>4. SumFunction(v) > 0
  <2>1. PICK h \in Hotkeys : v[h] > 0
    BY <1>3
  <2>2. SumFunction(v) >= v[h] /\ SumFunction(v) \in Nat /\ v[h] \in Nat
    BY <1>3, AmountsAddUp DEF Amounts
  <2> QED
    BY <2>1, <2>2
<1>5. SumFunction(cells.parts) \in Nat
  BY <1>1, AmountsAddUp
<1>6. left \in Int /\ floor \in Vectors
  <2>1. left \in Int
    BY <1>1, <1>5 DEF Positive
  <2> HIDE DEF left
  <2> QED
    BY <2>1, <1>1, <1>3, SplitType
<1>7. \E h \in Hotkeys : cells.parts[h] > 0 \/ floor.parts[h] > 0
  <2>1. CASE left > 0
    <3>1. left \in Positive
      BY <2>1, <1>6 DEF Positive
    <3> HIDE DEF left
    <3> QED
      BY <3>1, <1>1, <1>3, <1>4, SplitReachesSomeone
  <2>2. CASE ~ left > 0
    <3>1. SumFunction(cells.parts) > 0
      BY <2>2, <1>1, <1>5 DEF Positive
    <3> QED
      BY <3>1, <1>1, SomeoneHasAmount
  <2> QED
    BY <2>1, <2>2
<1> HIDE DEF floor
<1> QED
  BY <1>1, <1>2, <1>6, <1>7, PlusPays, NormalisedPays

(* What a hotkey is paid when a champion survives: a crown, if it is first, *)
(* and its part of the pool.                                               *)
CrownedPart(decay, first, values, h) ==
  (IF h = first THEN 17 * decay * SumFunction(values) ELSE 0) + (400 - 17 * decay) * values[h]

(* The vector with a champion, in parts of the same whole. *)
LEMMA CrownedShares ==
  ASSUME NEW aggs, NEW records, RoundOf(aggs, records), NEW champion \in Champion,
         champion.digest \in Survivors(aggs),
         NEW values, values = PoolValues(aggs, records, Survivors(aggs) \ {champion.digest}),
         SumFunction(values) > 0
  PROVE  /\ \A h \in Hotkeys :
              allocate_generalist(aggs, records, champion).parts[h]
                = CrownedPart(champion.decay, champion_hotkey(champion), values, h)
         /\ allocate_generalist(aggs, records, champion).of = 400 * SumFunction(values)
<1> DEFINE others == Survivors(aggs) \ {champion.digest}
           S == SumFunction(values)
           paid == 17 * champion.decay
           H == champion_hotkey(champion)
           u == crown_of(champion)
           v == Split(400 - paid, 400, values)
<1>1. allocate_generalist(aggs, records, champion) = Normalised(Plus(u, v))
  BY PoolIsASplit DEF allocate_generalist, crown_of
<1>2. champion.digest \in Digests /\ values \in Amounts
  <2>1. others \in SUBSET DOMAIN aggs
    BY AllAreSurvivors
  <2> QED
    BY <2>1, AllAreSurvivors, PoolType
<1>3. /\ H \in Hotkeys /\ u.of = 400
      /\ paid \in Positive /\ 400 - paid \in Positive
      /\ \A h \in Hotkeys : u.parts[h] = IF h = H THEN paid ELSE 0
  BY <1>2, CrownType
<1>4. S \in Nat /\ S > 0
  BY <1>2, AmountsAddUp
<1> HIDE DEF others
<1>5. v.parts = [h \in Hotkeys |-> (400 - paid) * values[h]] /\ v.of = 400 * S
  <2>1. 400 \in Positive
    BY DEF Positive
  <2> DEFINE share == 400 - paid
  <2> HIDE DEF share
  <2>2. share \in Positive /\ SumFunction(values) > 0
    BY <1>3, <1>4 DEF share
  <2>3. /\ Split(share, 400, values).parts = [h \in Hotkeys |-> share * values[h]]
        /\ Split(share, 400, values).of = 400 * SumFunction(values)
    BY <2>1, <2>2, <1>2, SplitPays
  <2> QED
    BY <2>3 DEF share
<1> HIDE DEF S, paid, H, u, v
<1>6. v.of % u.of = 0 /\ v.of \div u.of = S /\ v.of \div v.of = 1
  BY <1>3, <1>4, <1>5
<1>7. Plus(u, v) = [parts |-> [h \in Hotkeys |-> u.parts[h] * S + v.parts[h] * 1], of |-> v.of]
  BY <1>6 DEF Plus
<1>8. ASSUME NEW h \in Hotkeys
      PROVE  Plus(u, v).parts[h] = (IF h = H THEN paid * S ELSE 0) + (400 - paid) * values[h]
  <2>1. values[h] \in Nat
    BY <1>2 DEF Amounts
  <2>2. (400 - paid) * values[h] \in Nat
    <3>1. 400 - paid \in Nat /\ \A m, n \in Nat : m * n \in Nat
      BY <1>3 DEF Positive
    <3> QED
      BY <2>1, <3>1
  <2>3. u.parts[h] * S = IF h = H THEN paid * S ELSE 0
    BY <1>3, <1>4 DEF Positive
  <2>4. Plus(u, v).parts[h] = u.parts[h] * S + v.parts[h] * 1
    BY <1>7
  <2> QED
    BY <2>2, <2>3, <2>4, <1>5
<1> DEFINE k == Plus(u, v).parts
<1>9. SumFunction(k) = 400 * S
  <2> DEFINE Rest == Hotkeys \ {H}
  <2>1. k \in Amounts /\ SumFunction(k) = SumFunctionOnSet(k, Hotkeys) /\ Counts(k, Hotkeys)
    <3>1. u \in Vectors /\ v \in Vectors
      <4>1. u \in Vectors
        BY <1>2, CrownType DEF u
      <4>2. v \in Vectors
        BY <1>2, <1>3, SplitType DEF v, Positive
      <4> QED
        BY <4>1, <4>2
    <3>2. k \in Amounts
      BY <3>1, PlusPays DEF Vectors, Amounts
    <3> HIDE DEF k
    <3> QED
      BY <3>2, AmountsAddUp
  <2>2. SumFunctionOnSet(k, Hotkeys) = k[H] + SumFunctionOnSet(k, Rest)
    <3> HIDE DEF k
    <3> QED
      BY <2>1, <1>3, MinersAssumption, SumRemove
  <2>3. S = values[H] + SumFunctionOnSet(values, Rest)
    BY <1>2, <1>3, MinersAssumption, AmountsAddUp, SumRemove DEF S
  <2>4. IsFiniteSet(Rest) /\ Counts(values, Rest)
    BY <1>2, MinersAssumption, FS_RemoveElement DEF Counts, Amounts
  <2>5. SumFunctionOnSet(k, Rest) = (400 - paid) * SumFunctionOnSet(values, Rest)
    <3>1. ASSUME NEW h \in Rest
          PROVE  k[h] = (400 - paid) * values[h]
      <4>1. values[h] \in Nat
        BY <1>2 DEF Amounts
      <4>2. (400 - paid) * values[h] \in Nat
        <5>1. 400 - paid \in Nat /\ \A m, n \in Nat : m * n \in Nat
          BY <1>3 DEF Positive
        <5> QED
          BY <4>1, <5>1
      <4>3. h \in Hotkeys /\ h # H
        BY <3>1
      <4> DEFINE part == (400 - paid) * values[h]
      <4>4. k[h] = 0 + part
        BY <1>8, <4>3
      <4> HIDE DEF part, k
      <4>5. part \in Nat
        BY <4>2 DEF part
      <4>6. k[h] = part
        BY <4>4, <4>5
      <4> QED
        BY <4>6 DEF part
    <3> DEFINE a == 400 - paid
    <3>2. a \in Nat
      BY <1>3 DEF Positive
    <3>3. \A h \in Rest : k[h] = a * values[h]
      BY <3>1
    <3> HIDE DEF a, k, Rest
    <3>4. SumFunctionOnSet(k, Rest) = a * SumFunctionOnSet(values, Rest)
      BY <2>4, <3>2, <3>3, SumScaled
    <3> QED
      BY <3>4 DEF a
  <2>6. k[H] = paid * S + (400 - paid) * values[H]
    BY <1>3, <1>8
  <2>7. values[H] \in Nat /\ SumFunctionOnSet(values, Rest) \in Nat /\ paid \in Int
    <3>1. values[H] \in Nat /\ paid \in Int
      BY <1>2, <1>3 DEF Amounts, Positive
    <3>2. SumFunctionOnSet(values, Rest) \in Nat
      BY <2>4, SumStep
    <3> QED
      BY <3>1, <3>2
  <2> HIDE DEF k, Rest
  <2>8. SumFunction(k) = paid * S + ((400 - paid) * values[H]
                                      + (400 - paid) * SumFunctionOnSet(values, Rest))
    <3> DEFINE a == paid * S
               b == (400 - paid) * values[H]
               c == (400 - paid) * SumFunctionOnSet(values, Rest)
    <3>1. a \in Int /\ b \in Int /\ c \in Int
      BY <2>7, <1>4
    <3>2. SumFunction(k) = (a + b) + c
      BY <2>1, <2>2, <2>5, <2>6
    <3> HIDE DEF a, b, c
    <3>3. SumFunction(k) = a + (b + c)
      BY <3>1, <3>2
    <3> QED
      BY <3>3 DEF a, b, c
  <2>9. (400 - paid) * values[H] + (400 - paid) * SumFunctionOnSet(values, Rest)
          = (400 - paid) * S
    BY <2>3, <2>7
  <2> QED
    BY <1>4, <2>7, <2>8, <2>9
<1>10. /\ Normalised(Plus(u, v)).parts = k
       /\ Normalised(Plus(u, v)).of = SumFunction(k)
  BY DEF Normalised
<1> QED
  BY <1>1, <1>8, <1>9, <1>10 DEF S, paid, H, others, CrownedPart

-----------------------------------------------------------------------------
(***************************************************************************)
(* What an allocation promises.                                            *)
(***************************************************************************)

LEMMA RoundsAreTyped ==
  ASSUME NEW round \in Rounds
  PROVE  /\ RoundOf(round.aggs, round.records)
         /\ round.champion \in Champion
         /\ Decays \subseteq 1 .. 20
BY RoundsAssumption DEF RoundOf, Aggregates, Champion, Decays

LEMMA DecayOf ==
  ASSUME NEW c \in Champion, NEW decay \in 1 .. 20
  PROVE  /\ [c EXCEPT !.decay = decay] \in Champion
         /\ [c EXCEPT !.decay = decay].decay = decay
         /\ [c EXCEPT !.decay = decay].digest = c.digest
         /\ champion_hotkey([c EXCEPT !.decay = decay]) = champion_hotkey(c)
BY DEF Champion, champion_hotkey

(* What the champion has of the whole 400 * S, when p parts of 400 are its *)
(* crown and the values, S in all and v of them its own, divide the rest.  *)
Kept(p, S, v) == (p * S + (400 - p) * v) * (400 * S)

(* It is less when the crown is less. *)
LEMMA LessIsLess ==
  ASSUME NEW p \in Nat, NEW q \in Nat, p < q, q < 400,
         NEW v \in Nat, NEW S \in Nat, v < S
  PROVE  Kept(p, S, v) < Kept(q, S, v)
<1> DEFINE d == q - p
           w == S - v
           a == p * S + (400 - p) * v
           b == q * S + (400 - q) * v
<1>1. b - a = d * w
  OBVIOUS
<1>2. d \in Nat /\ d > 0 /\ w \in Nat /\ w > 0 /\ a \in Int /\ b \in Int
  OBVIOUS
<1>3. d * w > 0
  <2> HIDE DEF d, w
  <2> QED
    BY <1>2
<1>4. a < b
  <2> HIDE DEF a, b, d, w
  <2>1. d * w \in Int
    BY <1>2
  <2> QED
    BY <1>1, <1>2, <1>3, <2>1
<1>5. \A m, n, k \in Int : m < n /\ k > 0 => m * k < n * k
  OBVIOUS
<1>6. 400 * S \in Int /\ 400 * S > 0
  OBVIOUS
<1> HIDE DEF a, b
<1>7. a * (400 * S) < b * (400 * S)
  BY <1>2, <1>4, <1>5, <1>6
<1> QED
  BY <1>7 DEF a, b, Kept

(* StagnationIsNotRewarded, of one round: the hotkey of the champion has   *)
(* less than all of the pool, so what the crown loses others gain.         *)
LEMMA DecayBitesAlways ==
  ASSUME NEW round \in Rounds
  PROVE  DecayBites(round, Allocation(round), Decays)
<1> DEFINE c == round.champion
           aggs == round.aggs
           records == round.records
           others == Survivors(aggs) \ {c.digest}
           values == PoolValues(aggs, records, others)
           S == SumFunction(values)
           H == champion_hotkey(c)
<1>1. SUFFICES ASSUME c.digest \in Survivors(aggs), H = Owner[c.digest],
                      NEW d \in DOMAIN aggs \ {c.digest},
                      d \in Survivors(aggs) \/ Works(round, d),
                      NEW decay \in Decays, decay > c.decay
               PROVE  EarnsLess(allocate_generalist(aggs, records, c),
                                allocate_generalist(aggs, records, [c EXCEPT !.decay = decay]), H)
  BY DEF DecayBites, Allocation
<1>2. RoundOf(aggs, records) /\ c \in Champion /\ decay \in 1 .. 20
  BY RoundsAreTyped
<1>3. /\ others \in SUBSET DOMAIN aggs
      /\ Survivors(aggs) \in SUBSET Digests /\ DOMAIN aggs \subseteq Digests
  BY <1>2, AllAreSurvivors DEF RoundOf
<1> DEFINE c2 == [c EXCEPT !.decay = decay]
<1>4. c2 \in Champion /\ c2.decay = decay /\ c2.digest = c.digest /\ champion_hotkey(c2) = H
  BY <1>2, DecayOf
<1>5. H \in Hotkeys
  BY <1>1, <1>2, <1>3, CrownType
<1>6. values \in Amounts /\ S \in Nat /\ values[H] \in Nat
  <2>1. values \in Amounts
    BY <1>2, <1>3, PoolType
  <2> HIDE DEF values
  <2> QED
    BY <2>1, <1>5, AmountsAddUp DEF Amounts
<1>7. values[H] < S
  <2>1. CASE others = {}
    <3>1. values = FloorValues(aggs, records)
      BY <2>1 DEF PoolValues
    <3>2. gates_passed(aggs[d]) > 0 /\ eligible(records[d])
      BY <1>1, <2>1 DEF Works
    <3>3. Owner[d] \in Hotkeys /\ values[Owner[d]] > 0
      BY <1>2, <3>1, <3>2, FloorPays
    <3>4. Owner[d] # H
      BY <1>1, <1>3, MinersAssumption DEF IsInjective
    <3>5. /\ S >= values[Owner[d]] + values[H]
          /\ values[Owner[d]] \in Nat
      <4> HIDE DEF values
      <4>1. Counts(values, Hotkeys) /\ S = SumFunctionOnSet(values, Hotkeys)
        BY <1>6, AmountsAddUp
      <4>2. IsFiniteSet(Hotkeys)
        BY MinersAssumption
      <4> HIDE DEF S
      <4> QED
        BY <1>5, <3>3, <3>4, <4>1, <4>2, SumBounds DEF Counts
    <3> HIDE DEF values, S
    <3> QED
      BY <1>6, <3>3, <3>5
  <2>2. CASE others # {}
    <3>1. values = HeldOutValues(aggs, others)
      BY <2>2 DEF PoolValues
    <3>2. \A e \in others : Owner[e] # H
      BY <1>1, <1>3, MinersAssumption DEF IsInjective
    <3>3. SumFunction(HeldOutValues(aggs, others)) > 0 /\ HeldOutValues(aggs, others)[H] = 0
      <4> HIDE DEF others, H
      <4> QED
        BY <1>2, <1>3, <1>5, <2>2, <3>2, HeldOutPays
    <3> QED
      BY <3>1, <3>3
  <2> QED
    BY <2>1, <2>2
<1>8. S > 0
  <2> HIDE DEF values, S
  <2> QED
    BY <1>6, <1>7
<1> DEFINE Parts(e) == e * S + (400 - e) * values[H]
           vector == allocate_generalist(aggs, records, c)
           vector2 == allocate_generalist(aggs, records, c2)
<1>9. vector.parts[H] = Parts(17 * c.decay) /\ vector.of = 400 * S
  <2>1. vector.parts[H] = CrownedPart(c.decay, H, values, H) /\ vector.of = 400 * S
    <3> HIDE DEF aggs, records, c, values
    <3> QED
      BY <1>1, <1>2, <1>5, <1>8, CrownedShares DEF values
  <2> HIDE DEF H, values, S
  <2> QED
    BY <2>1 DEF CrownedPart, S
<1>10. vector2.parts[H] = Parts(17 * decay) /\ vector2.of = 400 * S
  <2>1. vector2.parts[H] = CrownedPart(c2.decay, H, values, H) /\ vector2.of = 400 * S
    <3> HIDE DEF aggs, records, c, c2, values
    <3> QED
      BY <1>1, <1>2, <1>4, <1>5, <1>8, CrownedShares DEF values
  <2> HIDE DEF H, values, S, c2
  <2> QED
    BY <2>1, <1>4 DEF CrownedPart, S
<1>11. Parts(17 * c.decay) * (400 * S) < Parts(17 * decay) * (400 * S)
  <2>1. /\ 17 * c.decay \in Nat /\ 17 * decay \in Nat
        /\ 17 * c.decay < 17 * decay /\ 17 * decay < 400
    BY <1>1, <1>2 DEF Champion
  <2> DEFINE p == 17 * c.decay
             q == 17 * decay
  <2>2. p \in Nat /\ q \in Nat /\ p < q /\ q < 400
    BY <2>1
  <2> DEFINE v == values[H]
  <2>3. v \in Nat /\ S \in Nat /\ v < S
    BY <1>6, <1>7
  <2>4. Kept(p, S, v) < Kept(q, S, v)
    <3> HIDE DEF p, q, v, S
    <3> QED
      BY <2>2, <2>3, LessIsLess
  <2> HIDE DEF S, values
  <2> QED
    BY <2>4 DEF Kept, p, q, v
<1> HIDE DEF Parts, S, values, c2
<1> QED
  BY <1>9, <1>10, <1>11 DEF EarnsLess, c2

(* NothingIsWithheld, of one round. *)
LEMMA AllocatesAllAlways ==
  ASSUME NEW round \in Rounds
  PROVE  AllocatesAll(round, Allocation(round))
<1>1. RoundOf(round.aggs, round.records) /\ round.champion \in Champion
  BY RoundsAreTyped
<1>2. ASSUME Survivors(round.aggs) # {} \/ \E d \in DOMAIN round.aggs : Works(round, d)
      PROVE  allocate_generalist(round.aggs, round.records, round.champion).of > 0
  BY <1>1, <1>2, GeneralistIsPaid DEF Works
<1>3. ASSUME \E d \in DOMAIN round.aggs : Works(round, d)
      PROVE  allocate_specialist(round.aggs, round.records).of > 0
  BY <1>1, <1>3, SpecialistIsPaid DEF Works
<1> QED
  BY <1>2, <1>3 DEF AllocatesAll, Allocation

(* SurvivorsEarnByHeldOut, of one round: outside the crown a vector is a   *)
(* multiple of the held-out values.                                        *)
LEMMA PoolFollowsHeldOutAlways ==
  ASSUME NEW round \in Rounds
  PROVE  PoolFollowsHeldOut(round, Allocation(round))
<1> DEFINE c == round.champion
           aggs == round.aggs
           records == round.records
           vector == allocate_generalist(aggs, records, c)
           paid == {d \in Survivors(aggs) : d # c.digest /\ Owner[d] # champion_hotkey(c)}
           pooled == Survivors(aggs) \ {c.digest}
           values == HeldOutValues(aggs, pooled)
<1>1. SUFFICES ASSUME NEW d \in paid
               PROVE  /\ \A e \in paid : held_out_score(aggs[d]) >= held_out_score(aggs[e])
                           => vector.parts[Owner[d]] >= vector.parts[Owner[e]]
                      /\ \A e \in DOMAIN aggs \ Survivors(aggs) :
                           Owner[e] # champion_hotkey(c) => vector.parts[Owner[e]] = 0
  BY DEF PoolFollowsHeldOut, Allocation, held_out_score
<1>2. RoundOf(aggs, records) /\ c \in Champion
  BY RoundsAreTyped
<1>3. /\ Survivors(aggs) \in SUBSET DOMAIN aggs /\ Survivors(aggs) \in SUBSET Digests
      /\ DOMAIN aggs \subseteq Digests /\ paid \subseteq pooled
      /\ pooled \in SUBSET DOMAIN aggs /\ pooled # {}
      /\ \A e \in DOMAIN aggs : Owner[e] \in Hotkeys
  BY <1>2, AllAreSurvivors, MinersAssumption DEF RoundOf
<1> HIDE DEF c, aggs, records
<1>4. /\ values \in Amounts /\ SumFunction(values) > 0
      /\ \A d1, d2 \in paid : held_out_score(aggs[d1]) >= held_out_score(aggs[d2])
           => values[Owner[d1]] >= values[Owner[d2]]
      /\ \A e \in DOMAIN aggs \ Survivors(aggs) : values[Owner[e]] = 0
  <2>1. \A e \in DOMAIN aggs \ Survivors(aggs) : \A s \in pooled : Owner[s] # Owner[e]
    BY <1>3, MinersAssumption DEF IsInjective
  <2>2. \A e \in DOMAIN aggs \ Survivors(aggs) :
          Owner[e] \in Hotkeys /\ \A s \in pooled : Owner[s] # Owner[e]
    BY <1>3, <2>1
  <2> HIDE DEF pooled, paid
  <2>3. /\ values \in Amounts /\ SumFunction(values) > 0
        /\ \A h \in Hotkeys : (\A s \in pooled : Owner[s] # h) => values[h] = 0
        /\ \A d1, d2 \in pooled : held_out_score(aggs[d1]) >= held_out_score(aggs[d2])
             => values[Owner[d1]] >= values[Owner[d2]]
    BY <1>2, <1>3, HeldOutPays
  <2> HIDE DEF values
  <2> QED
    BY <1>3, <2>2, <2>3
<1>5. \E share \in Positive :
        \A e \in DOMAIN aggs : Owner[e] # champion_hotkey(c) \/ c.digest \notin Survivors(aggs) =>
          vector.parts[Owner[e]] = share * values[Owner[e]]
  <2>1. CASE c.digest \in Survivors(aggs)
    <3>1. values = PoolValues(aggs, records, pooled)
      BY <1>3 DEF PoolValues
    <3>2. \A h \in Hotkeys :
            vector.parts[h] = CrownedPart(c.decay, champion_hotkey(c), values, h)
      <4> HIDE DEF values
      <4> QED
        BY <1>2, <1>4, <2>1, <3>1, CrownedShares
    <3>3. c.digest \in Digests /\ 400 - 17 * c.decay \in Positive
      BY <1>2, <1>3, <2>1, CrownType
    <3> DEFINE share == 400 - 17 * c.decay
    <3> HIDE DEF values
    <3>4. ASSUME NEW e \in DOMAIN aggs, Owner[e] # champion_hotkey(c)
          PROVE  vector.parts[Owner[e]] = share * values[Owner[e]]
      <4>1. Owner[e] \in Hotkeys /\ values[Owner[e]] \in Nat
        BY <1>3, <1>4 DEF Amounts
      <4>2. vector.parts[Owner[e]] = 0 + share * values[Owner[e]]
        BY <3>2, <3>4, <4>1 DEF CrownedPart
      <4>3. share * values[Owner[e]] \in Int
        BY <3>3, <4>1 DEF Positive
      <4> HIDE DEF share, vector
      <4> QED
        BY <4>2, <4>3
    <3> QED
      BY <2>1, <3>3, <3>4
  <2>2. CASE c.digest \notin Survivors(aggs)
    <3>1. pooled = Survivors(aggs)
      BY <2>2
    <3>2. vector = Normalised(Split(1, 1, values))
      BY <1>3, <2>2, <3>1, SharesAreSplits DEF allocate_generalist
    <3>3. 1 \in Positive
      BY DEF Positive
    <3> HIDE DEF values, vector
    <3>4. Split(1, 1, values).parts = [h \in Hotkeys |-> 1 * values[h]]
      BY <1>4, <3>3, SplitPays
    <3>5. vector.parts = [h \in Hotkeys |-> 1 * values[h]]
      BY <3>2, <3>4 DEF Normalised
    <3> QED
      BY <1>3, <3>3, <3>5
  <2> QED
    BY <2>1, <2>2
<1>6. PICK share \in Positive :
        \A e \in DOMAIN aggs : Owner[e] # champion_hotkey(c) =>
          vector.parts[Owner[e]] = share * values[Owner[e]]
  BY <1>5
<1> HIDE DEF values, vector
<1>7. \A e \in DOMAIN aggs : values[Owner[e]] \in Nat
  BY <1>3, <1>4 DEF Amounts
<1>8. ASSUME NEW e \in paid, held_out_score(aggs[d]) >= held_out_score(aggs[e])
      PROVE  vector.parts[Owner[d]] >= vector.parts[Owner[e]]
  <2>1. values[Owner[d]] >= values[Owner[e]]
    BY <1>4, <1>8
  <2>2. \A m, n \in Nat : m >= n => share * m >= share * n
    BY DEF Positive
  <2>3. d \in DOMAIN aggs /\ e \in DOMAIN aggs
    BY <1>3
  <2> QED
    BY <1>6, <1>7, <2>1, <2>2, <2>3
<1>9. ASSUME NEW e \in DOMAIN aggs \ Survivors(aggs), Owner[e] # champion_hotkey(c)
      PROVE  vector.parts[Owner[e]] = 0
  <2>1. vector.parts[Owner[e]] = share * 0
    BY <1>4, <1>6, <1>9
  <2> QED
    BY <2>1 DEF Positive
<1> QED
  BY <1>8, <1>9

-----------------------------------------------------------------------------
(***************************************************************************)
(* Comparators.                                                            *)
(***************************************************************************)

(* The finite doubles and the infinite ones, which is what a number prints *)
(* as.                                                                     *)
Floats == [negative : BOOLEAN, bits : 0 .. Infinite]

(* What ComparisonsAssumption says of a comparison. *)
AreCompared(b, c, contract) ==
  /\ b.stdout.numbers \in Seq(Floats) /\ c.stdout.numbers \in Seq(Floats)
  /\ contract.discipline \in Disciplines
  /\ contract.relative # Unset => contract.relative \in Nat
  /\ contract.ulp # Unset => contract.ulp \in 0 .. 2 * (Magnitude - Infinite) - 1

(* Both floats are finite: the ordered integers of a sign are in the order *)
(* of the bits, and those of different signs are a gap apart.              *)
LEMMA OrderedDistance ==
  ASSUME NEW x \in Floats, NEW y \in Floats
  PROVE  /\ _ulp_distance(x, y) \in Nat
         /\ _ulp_distance(x, y) = _ulp_distance(y, x)
         /\ x.negative = y.negative => _ulp_distance(x, y) = RepresentableSteps(x, y)
         /\ x.negative # y.negative => _ulp_distance(x, y) >= 2 * (Magnitude - Infinite)
<1>1. x.bits \in 0 .. Infinite /\ y.bits \in 0 .. Infinite
      /\ x.negative \in BOOLEAN /\ y.negative \in BOOLEAN
  BY DEF Floats
<1>2. Magnitude \in Nat /\ Infinite \in 0 .. Magnitude - 1
  BY FloatAssumption
<1>3. /\ to_ordered_int(x) = IF x.negative THEN 2 * Magnitude - x.bits ELSE x.bits
      /\ to_ordered_int(y) = IF y.negative THEN 2 * Magnitude - y.bits ELSE y.bits
  BY <1>1, <1>2 DEF to_ordered_int, signed_bits
<1> QED
  BY <1>1, <1>2, <1>3 DEF _ulp_distance, Distance, RepresentableSteps

(* Within the budget, numbers are of one sign, where the distance is that  *)
(* of representable steps.                                                 *)
LEMMA SameNumberEitherWay ==
  ASSUME NEW x \in Floats, NEW y \in Floats, NEW contract,
         contract.relative = Unset, contract.ulp \in 0 .. 2 * (Magnitude - Infinite) - 1,
         same_number(x, y, contract)
  PROVE  /\ same_number(y, x, contract)
         /\ x = y \/ RepresentableSteps(x, y) <= contract.ulp
<1>1. CASE Infinite \in {x.bits, y.bits}
  BY <1>1 DEF same_number
<1>2. CASE Infinite \notin {x.bits, y.bits}
  <2>1. _ulp_distance(x, y) <= contract.ulp
    BY <1>2 DEF same_number, _within_budget
  <2>2. _ulp_distance(y, x) <= contract.ulp
    BY <2>1, OrderedDistance
  <2>3. same_number(y, x, contract)
    BY <1>2, <2>2 DEF same_number, _within_budget
  <2>4. x.negative = y.negative
    <3>1. SUFFICES ASSUME x.negative # y.negative
                   PROVE  FALSE
      OBVIOUS
    <3>2. _ulp_distance(x, y) >= 2 * (Magnitude - Infinite) /\ _ulp_distance(x, y) \in Nat
      BY <3>1, OrderedDistance
    <3> QED
      BY <2>1, <3>2, FloatAssumption
  <2> QED
    BY <2>1, <2>3, <2>4, OrderedDistance
<1> QED
  BY <1>1, <1>2

(* Differences of declared channels do not depend on who is first. *)
LEMMA ChannelsEitherWay ==
  ASSUME NEW b, NEW c, NEW contract
  PROVE  _compare_declared_channels(b, c, contract) = _compare_declared_channels(c, b, contract)
<1>1. files_differ(b, c) <=> files_differ(c, b)
  BY DEF files_differ
<1>2. /\ When(b.exit_code # c.exit_code, "exit_code") = When(c.exit_code # b.exit_code, "exit_code")
      /\ When(contract.discipline = "byte_equal" /\ b.stdout # c.stdout, "stdout")
           = When(contract.discipline = "byte_equal" /\ c.stdout # b.stdout, "stdout")
      /\ When(b.stderr # c.stderr, "stderr") = When(c.stderr # b.stderr, "stderr")
      /\ When(files_differ(b, c), "written_files") = When(files_differ(c, b), "written_files")
  BY <1>1 DEF When
<1> QED
  BY <1>2 DEF _compare_declared_channels

(* Neither does an acceptance of numbers within the budget. *)
LEMMA NumbersEitherWay ==
  ASSUME NEW b, NEW c, NEW contract, AreCompared(b, c, contract),
         contract.relative = Unset, contract.ulp # Unset, ~ NumbersDiffer(b, c, contract)
  PROVE  ~ NumbersDiffer(c, b, contract)
<1> DEFINE m == b.stdout.numbers
           n == c.stdout.numbers
<1>1. /\ m \in Seq(Floats) /\ n \in Seq(Floats)
      /\ contract.ulp \in 0 .. 2 * (Magnitude - Infinite) - 1
  BY DEF AreCompared
<1>2. /\ Len(m) = Len(n) /\ b.stdout.shape = c.stdout.shape
      /\ \A i \in DOMAIN m : same_number(m[i], n[i], contract)
  BY DEF NumbersDiffer
<1>3. ~ NumbersDiffer(c, b, contract) <=>
        \A i \in DOMAIN n : same_number(n[i], m[i], contract)
  BY <1>2 DEF NumbersDiffer
<1> HIDE DEF m, n
<1>4. DOMAIN m = DOMAIN n /\ \A i \in DOMAIN m : m[i] \in Floats /\ n[i] \in Floats
  BY <1>1, <1>2
<1> QED
  BY <1>1, <1>2, <1>3, <1>4, SameNumberEitherWay DEF m, n

(* Nor that of any other discipline. *)
LEMMA DisciplineEitherWay ==
  ASSUME NEW b, NEW c, NEW contract, AreCompared(b, c, contract), contract.relative = Unset,
         contract.discipline = "float_tolerance" => contract.ulp # Unset,
         discipline_divergences(b, c, contract) = {}
  PROVE  discipline_divergences(c, b, contract) = {}
<1>1. CASE contract.discipline = "byte_equal"
  BY <1>1 DEF discipline_divergences
<1>2. CASE contract.discipline = "round_trip"
  BY <1>2 DEF discipline_divergences, When
<1>3. CASE contract.discipline = "float_tolerance"
  <2>1. ~ NumbersDiffer(b, c, contract)
    BY <1>3 DEF discipline_divergences, When
  <2>2. ~ NumbersDiffer(c, b, contract)
    BY <1>3, <2>1, NumbersEitherWay
  <2> QED
    BY <1>3, <2>2 DEF discipline_divergences, When
<1>4. CASE contract.discipline = "structural"
  BY <1>4 DEF discipline_divergences, When
<1>5. CASE contract.discipline = "state_invariant"
  BY <1>5 DEF discipline_divergences, When, KeyDiffers
<1>6. CASE contract.discipline = "operation_sequence"
  BY <1>6 DEF discipline_divergences, When, KeyDiffers
<1> QED
  BY <1>1, <1>2, <1>3, <1>4, <1>5, <1>6 DEF AreCompared, Disciplines

(* No declared channel diverges only when all that are declared agree. *)
LEMMA NoDivergenceSameEffects ==
  ASSUME NEW b, NEW c, NEW contract, _compare_declared_channels(b, c, contract) = {}
  PROVE  SameEffects(b, c, contract)
<1> DEFINE effects == contract.side_effects
<1>1. /\ When(b.exit_code # c.exit_code, "exit_code") \cap effects = {}
      /\ When(contract.discipline = "byte_equal" /\ b.stdout # c.stdout, "stdout")
           \cap effects = {}
      /\ When(b.stderr # c.stderr, "stderr") \cap effects = {}
      /\ When(files_differ(b, c), "written_files") \cap effects = {}
  BY DEF _compare_declared_channels
<1>2. /\ "exit_code" \in effects => b.exit_code = c.exit_code
      /\ "stdout" \in effects /\ contract.discipline = "byte_equal" => b.stdout = c.stdout
      /\ "stderr" \in effects => b.stderr = c.stderr
      /\ "written_files" \in effects => ~ files_differ(b, c)
  BY <1>1 DEF When
<1>3. ASSUME ~ files_differ(b, c)
      PROVE  /\ DOMAIN b.written_files = DOMAIN c.written_files
             /\ \A f \in DOMAIN b.written_files : b.written_files[f] = c.written_files[f]
  BY <1>3 DEF files_differ
<1> QED
  BY <1>2, <1>3 DEF SameEffects

(* Numbers taken for the same may stand for each other. *)
LEMMA SameNumbersInterchange ==
  ASSUME NEW x \in Floats, NEW y \in Floats, NEW contract,
         \/ contract.relative # Unset /\ contract.relative \in Nat
         \/ contract.relative = Unset /\ contract.ulp \in 0 .. 2 * (Magnitude - Infinite) - 1,
         same_number(x, y, contract)
  PROVE  Interchangeable(x, y, contract)
<1>1. CASE Infinite \in {x.bits, y.bits}
  BY <1>1 DEF same_number, Interchangeable
<1>2. CASE Infinite \notin {x.bits, y.bits} /\ contract.relative = Unset
  BY <1>2, SameNumberEitherWay DEF Interchangeable
<1>3. CASE Infinite \notin {x.bits, y.bits} /\ contract.relative # Unset
  <2> DEFINE allowed == contract.relative * x.bits
  <2>1. x.bits \in Nat /\ value(x) \in Int /\ value(y) \in Int
    BY FloatAssumption DEF Floats, value
  <2>2. allowed \in Int
    BY <1>3, <2>1
  <2>3. 100 * Distance(value(x), value(y)) <= allowed
    BY <1>3 DEF same_number, _within_budget
  <2> HIDE DEF allowed
  <2>4. 100 * value(y) \in (100 * value(x) - allowed) .. (100 * value(x) + allowed)
    BY <2>1, <2>2, <2>3 DEF Distance
  <2> QED
    BY <1>3, <2>4 DEF Interchangeable, allowed
<1> QED
  BY <1>1, <1>2, <1>3

(* Numbers that do not differ print the same, within the budget. *)
LEMMA NoDivergenceSamePrint ==
  ASSUME NEW b, NEW c, NEW contract, AreCompared(b, c, contract),
         contract.relative # Unset \/ contract.ulp # Unset, ~ NumbersDiffer(b, c, contract)
  PROVE  SamePrint(b, c, contract)
<1> DEFINE m == b.stdout.numbers
           n == c.stdout.numbers
<1>1. /\ m \in Seq(Floats) /\ n \in Seq(Floats)
      /\ \/ contract.relative # Unset /\ contract.relative \in Nat
         \/ contract.relative = Unset /\ contract.ulp \in 0 .. 2 * (Magnitude - Infinite) - 1
  BY DEF AreCompared
<1>2. /\ Len(m) = Len(n) /\ b.stdout.shape = c.stdout.shape
      /\ \A i \in DOMAIN m : same_number(m[i], n[i], contract)
  BY DEF NumbersDiffer
<1> HIDE DEF m, n
<1>3. DOMAIN m = DOMAIN n /\ \A i \in DOMAIN m : m[i] \in Floats /\ n[i] \in Floats
  BY <1>1, <1>2
<1>4. \A i \in DOMAIN m : Interchangeable(m[i], n[i], contract)
  BY <1>1, <1>2, <1>3, SameNumbersInterchange
<1> QED
  BY <1>2, <1>3, <1>4 DEF SamePrint, m, n

(* What a discipline lets pass behaves the same. *)
LEMMA NoDivergenceSameBehaviour ==
  ASSUME NEW b, NEW c, NEW contract, AreCompared(b, c, contract), resolvable(contract),
         discipline_divergences(b, c, contract) = {}
  PROVE  SameBehaviour(b, c, contract)
<1>1. CASE contract.discipline = "byte_equal"
  BY <1>1 DEF SameBehaviour
<1>2. CASE contract.discipline = "round_trip"
  <2>1. RecoversInput(b) /\ RecoversInput(c)
    BY <1>2 DEF discipline_divergences, When
  <2>2. ASSUME NEW obs, RecoversInput(obs)
        PROVE  /\ {"original_input", "round_trip_input"} \subseteq DOMAIN obs.state
               /\ obs.state["round_trip_input"] = obs.state["original_input"]
    BY <2>2 DEF RecoversInput, Reported
  <2> QED
    BY <1>2, <2>1, <2>2 DEF SameBehaviour
<1>3. CASE contract.discipline = "float_tolerance"
  <2>1. ~ NumbersDiffer(b, c, contract)
    BY <1>3 DEF discipline_divergences, When
  <2>2. SamePrint(b, c, contract)
    BY <1>3, <2>1, NoDivergenceSamePrint DEF resolvable
  <2> QED
    BY <1>3, <2>2 DEF SameBehaviour
<1>4. CASE contract.discipline = "structural"
  BY <1>4 DEF discipline_divergences, When, SameBehaviour
<1>5. CASE contract.discipline = "state_invariant"
  <2>1. /\ ~ KeyDiffers(b, c, "invariants") /\ ~ KeyDiffers(b, c, "ordered_transitions")
        /\ Unordered(b) = Unordered(c)
    BY <1>5 DEF discipline_divergences, When
  <2> QED
    BY <1>5, <2>1 DEF SameBehaviour, SameReport, KeyDiffers
<1>6. CASE contract.discipline = "operation_sequence"
  <2>1. /\ ~ KeyDiffers(b, c, "operation_results")
        /\ Reported(b, "operation_results") # Unset
        /\ ~ KeyDiffers(b, c, "iterator_invalidations")
    BY <1>6 DEF discipline_divergences, When
  <2>2. /\ Reported(b, "operation_results") = Reported(c, "operation_results")
        /\ Reported(b, "iterator_invalidations") = Reported(c, "iterator_invalidations")
    BY <2>1 DEF KeyDiffers
  <2>3. "operation_results" \in DOMAIN b.state \cap DOMAIN c.state
    BY <2>1, <2>2 DEF Reported
  <2> QED
    BY <1>6, <2>2, <2>3 DEF SameBehaviour, SameReport
<1> QED
  BY <1>1, <1>2, <1>3, <1>4, <1>5, <1>6 DEF AreCompared, Disciplines

(* AcceptanceIsBacked, of one comparison. *)
LEMMA AcceptanceAlwaysHolds ==
  ASSUME NEW comparison \in Comparisons,
         Divergences(comparison.b, comparison.c, comparison.contract) = {}
  PROVE  AcceptanceHolds(comparison.b, comparison.c, comparison.contract)
<1> DEFINE b == comparison.b
           c == comparison.c
           contract == comparison.contract
<1>1. AreCompared(b, c, contract) /\ Unset # {}
  BY ComparisonsAssumption DEF AreCompared, Floats
<1>2. /\ resolvable(contract)
      /\ _compare_declared_channels(b, c, contract) = {}
      /\ discipline_divergences(b, c, contract) = {}
  BY <1>1 DEF Divergences
<1> HIDE DEF b, c, contract
<1>3. SameEffects(b, c, contract)
  BY <1>2, NoDivergenceSameEffects
<1>4. SameBehaviour(b, c, contract)
  BY <1>1, <1>2, NoDivergenceSameBehaviour
<1>5. ASSUME contract.relative = Unset
      PROVE  Divergences(c, b, contract) = {}
  <2>1. contract.discipline = "float_tolerance" => contract.ulp # Unset
    BY <1>2, <1>5 DEF resolvable
  <2>2. _compare_declared_channels(c, b, contract) = {}
    BY <1>2, ChannelsEitherWay
  <2>3. discipline_divergences(c, b, contract) = {}
    BY <1>1, <1>2, <1>5, <2>1, DisciplineEitherWay
  <2> QED
    BY <1>2, <2>2, <2>3 DEF Divergences
<1> QED
  BY <1>3, <1>4, <1>5 DEF AcceptanceHolds, b, c, contract

-----------------------------------------------------------------------------
(***************************************************************************)
(* Readings.                                                               *)
(***************************************************************************)

(* Terms that are zero can be left out of a sum. *)
LEMMA SumOfTheRest ==
  ASSUME NEW S, IsFiniteSet(S), NEW f, Counts(f, S), NEW T \in SUBSET S,
         \A x \in S \ T : f[x] = 0
  PROVE  SumFunctionOnSet(f, S) = SumFunctionOnSet(f, T)
<1> DEFINE Sum(U) == SumFunctionOnSet(f, U)
           Good == {U \in SUBSET S : T \subseteq U => Sum(U) = Sum(T)}
<1>1. ASSUME NEW U \in SUBSET S, \A W \in SUBSET U : W # U => W \in Good
      PROVE  U \in Good
  <2>1. SUFFICES ASSUME T \subseteq U, T # U
                 PROVE  Sum(U) = Sum(T)
    OBVIOUS
  <2>2. PICK x \in U : x \notin T
    BY <2>1
  <2>3. IsFiniteSet(U) /\ Counts(f, U)
    BY FS_Subset DEF Counts
  <2>4. Sum(U) = f[x] + Sum(U \ {x})
    BY <2>2, <2>3, SumRemove
  <2>5. Sum(U \ {x}) = Sum(T)
    BY <1>1, <2>1, <2>2
  <2>6. Sum(T) \in Nat
    BY <2>1, <2>3, FS_Subset, SumStep DEF Counts
  <2>7. f[x] = 0
    BY <2>2
  <2> HIDE DEF Sum
  <2> QED
    BY <2>4, <2>5, <2>6, <2>7
<1>2. \A U \in SUBSET S : U \in Good
  <2> HIDE DEF Good
  <2> QED
    BY <1>1, SetInduction
<1> QED
  BY <1>2

(* What a process wrote is read as its work, or as nothing if it had none. *)
LEMMA WrittenIsRead ==
  ASSUME NEW work \in [1 .. Events -> Nat], NEW version
  PROVE  parse_callgrind_output(Written(work, version)) = IF work[1] > 0 THEN work ELSE Unmeasured
<1> DEFINE lines == Written(work, version)
           usable == {i \in DOMAIN lines : Len(lines[i]) >= Events /\ lines[i][1] > 0}
           best == {i \in usable : \A j \in usable : lines[j][1] <= lines[i][1]}
           place == IF version = "3.22" THEN 2 ELSE 1
<1>1. Events \in Nat /\ Events >= 1
  BY EventsAssumption
<1>2. Len(work) = Events /\ work[1] \in Nat
  BY <1>1
<1>3. /\ DOMAIN lines = {1, 2} /\ place \in {1, 2}
      /\ lines[place] = work /\ \A i \in {1, 2} : i # place => lines[i] = <<0>>
  BY DEF Written
<1>4. usable = IF work[1] > 0 THEN {place} ELSE {}
  <2> HIDE DEF lines, place
  <2> QED
    BY <1>1, <1>2, <1>3
<1>5. CASE work[1] > 0
  <2>1. usable = {place}
    BY <1>4, <1>5
  <2>2. best = {place}
    <3> HIDE DEF lines, place, usable
    <3>1. lines[place][1] <= lines[place][1]
      BY <1>2, <1>3
    <3> QED
      BY <2>1, <3>1
  <2>3. Min({place}) = place
    BY DEF Min
  <2>4. parse_callgrind_output(lines) = lines[Min(best)]
    BY <2>1 DEF parse_callgrind_output
  <2> HIDE DEF best, lines, place
  <2> QED
    BY <1>3, <1>5, <2>2, <2>3, <2>4 DEF lines
<1>6. CASE ~ (work[1] > 0)
  BY <1>4, <1>6 DEF parse_callgrind_output
<1> QED
  BY <1>5, <1>6

(* ReadingIsTheWork, of one reading. *)
LEMMA ReadingAlwaysAddsUp ==
  ASSUME NEW reading \in Readings
  PROVE  measure([p \in DOMAIN reading.works |-> Written(reading.works[p], reading.version)])
           = AllWork(reading.works)
<1> DEFINE works == reading.works
           files == [p \in DOMAIN works |-> Written(works[p], reading.version)]
           readings == [p \in DOMAIN works |-> parse_callgrind_output(files[p])]
           reported == {p \in DOMAIN works : readings[p] # Unmeasured}
<1>1. /\ works \in Seq([1 .. Events -> Nat])
      /\ \A p \in DOMAIN works : works[p][1] = 0 => works[p] = [e \in 1 .. Events |-> 0]
  BY ReadingsAssumption
<1>2. IsFiniteSet(DOMAIN works) /\ \A p \in DOMAIN works : works[p] \in [1 .. Events -> Nat]
  <2> HIDE DEF works
  <2>1. Len(works) \in Nat /\ DOMAIN works = 1 .. Len(works)
        /\ \A p \in 1 .. Len(works) : works[p] \in [1 .. Events -> Nat]
    BY <1>1
  <2> HIDE DEF works
  <2>2. 1 \in Int /\ Len(works) \in Int
    BY <2>1
  <2>3. IsFiniteSet(1 .. Len(works))
    BY <2>2, FS_Interval
  <2> QED
    BY <2>1, <2>3
<1>3. Events \in Nat /\ Events >= 1
  BY EventsAssumption
<1> HIDE DEF works
<1>4. \A p \in DOMAIN works : readings[p] = IF works[p][1] > 0 THEN works[p] ELSE Unmeasured
  BY <1>2, WrittenIsRead
<1>5. \A p \in DOMAIN works : works[p] # Unmeasured /\ works[p][1] \in Nat
  BY <1>2, <1>3 DEF Unmeasured
<1>6. /\ reported = {p \in DOMAIN works : works[p][1] > 0}
      /\ \A p \in reported : readings[p] = works[p]
  <2> HIDE DEF readings
  <2> QED
    BY <1>4, <1>5
<1>7. measure(files) = IF reported = {} THEN Unmeasured ELSE Added(readings, reported)
  BY DEF measure
<1>8. reported = {} <=> \A p \in DOMAIN works : works[p][1] = 0
  <2> HIDE DEF reported
  <2> QED
    BY <1>5, <1>6
<1>9. Added(readings, reported) = Added(works, DOMAIN works)
  <2> HIDE DEF readings, reported
  <2>1. reported \in SUBSET DOMAIN works
    BY <1>6
  <2>2. ASSUME NEW e \in 1 .. Events
        PROVE  SumFunctionOnSet([p \in reported |-> readings[p][e]], reported)
                 = SumFunctionOnSet([p \in DOMAIN works |-> works[p][e]], DOMAIN works)
    <3> DEFINE f == [p \in DOMAIN works |-> works[p][e]]
               g == [p \in reported |-> readings[p][e]]
    <3>1. Counts(f, DOMAIN works) /\ Counts(f, reported) /\ IsFiniteSet(reported)
      BY <1>2, <2>1, FS_Subset DEF Counts
    <3>2. \A p \in DOMAIN works \ reported : f[p] = 0
      <4> SUFFICES ASSUME NEW p \in DOMAIN works \ reported
                   PROVE  works[p][e] = 0
        OBVIOUS
      <4>1. works[p][1] = 0
        BY <1>5, <1>6
      <4> QED
        BY <1>1, <4>1
    <3>3. \A p \in reported : g[p] = 1 * f[p]
      <4> SUFFICES ASSUME NEW p \in reported
                   PROVE  readings[p][e] = 1 * works[p][e]
        BY <2>1
      <4>1. readings[p] = works[p] /\ works[p][e] \in Nat
        BY <1>2, <1>6, <2>1
      <4> QED
        BY <4>1
    <3> HIDE DEF f, g
    <3>4. SumFunctionOnSet(f, DOMAIN works) = SumFunctionOnSet(f, reported)
      BY <1>2, <2>1, <3>1, <3>2, SumOfTheRest
    <3>5. SumFunctionOnSet(g, reported) = 1 * SumFunctionOnSet(f, reported)
      BY <3>1, <3>3, SumScaled
    <3>6. SumFunctionOnSet(f, reported) \in Nat
      BY <3>1, SumStep
    <3> QED
      BY <3>4, <3>5, <3>6 DEF f, g
  <2> QED
    BY <2>2 DEF Added
<1> HIDE DEF reported, readings, files
<1>10. measure(files) = AllWork(works)
  BY <1>7, <1>8, <1>9 DEF AllWork
<1> QED
  BY <1>10 DEF files, works

-----------------------------------------------------------------------------
(***************************************************************************)
(* Repeats in order.                                                       *)
(***************************************************************************)

(* Repeats of a measurement. *)
Samples == Seq(Nat \ {0}) \ {<<>>}

(* A speedup. *)
Ratio == [num : Positive, den : Positive]

(* A finite set of numbers has a greatest. *)
LEMMA GreatestExists ==
  ASSUME NEW S, IsFiniteSet(S), S \subseteq Nat, S # {}
  PROVE  \E x \in S : \A y \in S : y <= x
<1> DEFINE Good == {T \in SUBSET S : T = {} \/ \E x \in T : \A y \in T : y <= x}
<1>1. ASSUME NEW T \in SUBSET S, \A U \in SUBSET T : U # T => U \in Good
      PROVE  T \in Good
  <2>1. SUFFICES ASSUME T # {}
                 PROVE  \E x \in T : \A y \in T : y <= x
    OBVIOUS
  <2>2. PICK z \in T : TRUE
    BY <2>1
  <2>3. T \ {z} \in Good
    BY <1>1
  <2>4. CASE T \ {z} = {}
    <3>1. \A y \in T : y = z
      BY <2>4
    <3> QED
      BY <3>1
  <2>5. CASE \E x \in T \ {z} : \A y \in T \ {z} : y <= x
    <3>1. PICK x \in T \ {z} : \A y \in T \ {z} : y <= x
      BY <2>5
    <3>2. x \in Nat /\ z \in Nat /\ \A y \in T : y \in Nat
      OBVIOUS
    <3>3. CASE x <= z
      <4>1. \A y \in T : y <= z
        BY <3>1, <3>2, <3>3
      <4> QED
        BY <4>1
    <3>4. CASE z <= x
      <4>1. \A y \in T : y <= x
        BY <3>1, <3>2, <3>4
      <4> QED
        BY <4>1
    <3> QED
      BY <3>2, <3>3, <3>4
  <2> QED
    BY <2>3, <2>4, <2>5
<1>2. S \in Good
  <2> HIDE DEF Good
  <2> QED
    BY <1>1, SetInduction
<1> QED
  BY <1>2

(* A set of numbers has a least, and Min chooses it. *)
LEMMA MinIsLeast ==
  ASSUME NEW S, S \subseteq Nat, S # {}
  PROVE  Min(S) \in S /\ \A y \in S : Min(S) <= y
<1> DEFINE R == OpToRel(<, Nat)
<1>1. IsWellFoundedOn(R, Nat)
  BY NatLessThanWellFounded
<1>2. \A x, y \in Nat : <<y, x>> \in R <=> y < x
  BY Zenon DEF OpToRel
<1> HIDE DEF R
<1>3. \E x \in S : \A y \in S : ~ (<<y, x>> \in R)
  BY <1>1, WFMin
<1>4. PICK x \in S : \A y \in S : ~ (<<y, x>> \in R)
  BY <1>3
<1>5. ASSUME NEW y \in S
      PROVE  x <= y
  <2>1. x \in Nat /\ y \in Nat
    OBVIOUS
  <2>2. ~ (y < x)
    BY <1>2, <1>4, <2>1, Zenon
  <2> QED
    BY <2>1, <2>2
<1> QED
  BY <1>5 DEF Min

(* There is at least one repeat, and each counts something. *)
LEMMA SamplesAreNumbers ==
  ASSUME NEW s \in Samples
  PROVE  /\ Len(s) \in Nat /\ Len(s) >= 1 /\ DOMAIN s = 1 .. Len(s)
         /\ IsFiniteSet(DOMAIN s) /\ Cardinality(DOMAIN s) = Len(s)
         /\ IsFiniteSet(ToSet(s)) /\ ToSet(s) \subseteq Positive /\ ToSet(s) # {}
<1>1. /\ Len(s) \in Nat /\ Len(s) >= 1 /\ DOMAIN s = 1 .. Len(s)
      /\ \A i \in DOMAIN s : s[i] \in Positive
  BY DEF Samples, Positive
<1>2. IsFiniteSet(DOMAIN s) /\ Cardinality(DOMAIN s) = Len(s)
  <2> DEFINE n == Len(s)
  <2>1. n \in Nat /\ n >= 1
    BY <1>1
  <2> HIDE DEF n
  <2>2. IsFiniteSet(1 .. n) /\ Cardinality(1 .. n) = n
    <3>1. \A a, b \in Int : /\ IsFiniteSet(a .. b)
                           /\ Cardinality(a .. b) = IF a > b THEN 0 ELSE b - a + 1
      BY FS_Interval
    <3> QED
      BY <2>1, <3>1
  <2> QED
    BY <1>1, <2>2 DEF n
<1>3. ToSet(s) = {s[i] : i \in DOMAIN s}
  BY DEF ToSet
<1>4. IsFiniteSet(ToSet(s))
  <2>1. s \in Surjection(DOMAIN s, ToSet(s))
    <3>1. s \in [DOMAIN s -> ToSet(s)]
      <4>1. s \in [DOMAIN s -> Positive]
        BY <1>1 DEF Samples, Positive
      <4>2. \A i \in DOMAIN s : s[i] \in ToSet(s)
        BY <1>3
      <4> QED
        BY <4>1, <4>2
    <3>2. \A x \in ToSet(s) : \E i \in DOMAIN s : s[i] = x
      BY <1>3
    <3> QED
      BY <3>1, <3>2 DEF Surjection
  <2> QED
    BY <1>2, <2>1, FS_Surjection
<1>5. s[1] \in ToSet(s)
  BY <1>1, <1>3
<1> QED
  BY <1>1, <1>2, <1>3, <1>4, <1>5

(* Every place in the order of samples is taken by one of them. *)
LEMMA RankedIsASample ==
  ASSUME NEW s \in Samples, NEW k \in 1 .. Len(s)
  PROVE  Ranked(s, k) \in ToSet(s) /\ Ranked(s, k) \in Positive
<1> DEFINE Below(x) == {i \in DOMAIN s : s[i] <= x}
           reached == {x \in ToSet(s) : Cardinality(Below(x)) >= k}
<1>1. PICK x \in ToSet(s) : \A y \in ToSet(s) : y <= x
  BY SamplesAreNumbers, GreatestExists DEF Positive
<1>2. Below(x) = DOMAIN s
  BY <1>1 DEF ToSet
<1>3. x \in reached
  <2> HIDE DEF Below
  <2> QED
    BY <1>2, SamplesAreNumbers
<1>4. reached \subseteq ToSet(s) /\ reached \subseteq Nat /\ reached # {}
  BY <1>3, SamplesAreNumbers DEF Positive
<1>5. Min(reached) \in reached
  <2> HIDE DEF reached
  <2> QED
    BY <1>4, MinIsLeast
<1>6. Ranked(s, k) = Min(reached)
  BY DEF Ranked
<1> HIDE DEF reached
<1> QED
  BY <1>4, <1>5, <1>6, SamplesAreNumbers

(* So does the middle one. *)
LEMMA MedianIsASample ==
  ASSUME NEW s \in Samples
  PROVE  median(s) \in ToSet(s) /\ median(s) \in Positive
<1>1. (Len(s) + 1) \div 2 \in 1 .. Len(s)
  BY SamplesAreNumbers
<1> QED
  BY <1>1, RankedIsASample DEF median

(* Repeats that are all the same are stable around what they are. *)
LEMMA EqualRepeats ==
  ASSUME NEW s \in Samples
  PROVE  /\ [i \in DOMAIN s |-> median(s)] \in Samples
         /\ median([i \in DOMAIN s |-> median(s)]) = median(s)
         /\ stable([i \in DOMAIN s |-> median(s)])
<1> DEFINE m == median(s)
           e == [i \in DOMAIN s |-> m]
<1>1. m \in Positive /\ Len(s) \in Nat /\ Len(s) >= 1 /\ DOMAIN s = 1 .. Len(s)
  BY MedianIsASample, SamplesAreNumbers
<1> HIDE DEF m
<1>2. e \in Samples /\ Len(e) = Len(s)
  BY <1>1 DEF Samples, Positive
<1>3. ToSet(e) = {m}
  BY <1>1 DEF ToSet
<1>4. \A k \in 1 .. Len(e) : Ranked(e, k) = m
  <2> HIDE DEF e
  <2> QED
    BY <1>2, <1>3, RankedIsASample
<1>5. median(e) = m
  <2> HIDE DEF e
  <2>1. (Len(e) + 1) \div 2 \in 1 .. Len(e)
    BY <1>2, SamplesAreNumbers
  <2> QED
    BY <1>4, <2>1 DEF median
<1>6. stable(e)
  <2> HIDE DEF e
  <2>1. Ranked(e, Len(e)) = m /\ Ranked(e, 1) = m
    BY <1>1, <1>2, <1>4
  <2> QED
    BY <1>1, <1>5, <2>1 DEF stable, Positive
<1> QED
  BY <1>2, <1>5, <1>6 DEF m

-----------------------------------------------------------------------------
(***************************************************************************)
(* Captures and scores.                                                    *)
(***************************************************************************)

(* The smaller of two numbers. *)
LEMMA LessOfTwo ==
  ASSUME NEW a \in Int, NEW b \in Int
  PROVE  Min({a, b}) = IF a <= b THEN a ELSE b
BY DEF Min

(* What rounding down loses is less than the divisor. *)
LEMMA Division ==
  ASSUME NEW a \in Int, NEW b \in Positive
  PROVE  a \div b \in Int /\ b * (a \div b) <= a /\ a < b * (a \div b) + b
BY DEF Positive

(* Cancelling a factor. *)
LEMMA Cancel ==
  ASSUME NEW a \in Int, NEW b \in Int, NEW k \in Positive, k * a < k * b
  PROVE  a < b
BY DEF Positive

LEMMA Scale ==
  ASSUME NEW a \in Int, NEW b \in Int, NEW k \in Nat, a <= b
  PROVE  k * a <= k * b /\ a * k <= b * k
OBVIOUS

(* A greater fraction rounds down to no less. *)
LEMMA DivisionGrows ==
  ASSUME NEW a \in Int, NEW c \in Int, NEW b \in Positive, NEW e \in Positive, a * e <= c * b
  PROVE  a \div b <= c \div e
<1> DEFINE p == a \div b
           q == c \div e
<1>1. p \in Int /\ q \in Int /\ b * p <= a /\ c < e * q + e
  BY Division
<1> HIDE DEF p, q
<1>2. b \in Nat /\ b > 0 /\ e \in Nat /\ e > 0
  BY DEF Positive
<1>3. (b * p) * e <= a * e
  <2> DEFINE l == b * p
  <2>1. l \in Int /\ l <= a
    BY <1>1, <1>2
  <2> HIDE DEF l
  <2> QED
    BY <1>2, <2>1, Scale DEF l
<1>4. c * b < (e * q + e) * b
  <2> DEFINE r == e * q + e
  <2>1. r \in Int /\ c < r
    BY <1>1, <1>2
  <2> HIDE DEF r
  <2>2. c * b < r * b
    BY <1>2, <2>1
  <2> QED
    BY <2>2 DEF r
<1>5. (b * e) * p < (b * e) * (q + 1)
  <2>1. (b * p) * e = (b * e) * p /\ (e * q + e) * b = (b * e) * (q + 1)
    BY <1>1, <1>2
  <2>2. /\ (b * p) * e \in Int /\ a * e \in Int /\ c * b \in Int /\ (e * q + e) * b \in Int
    BY <1>1, <1>2
  <2>3. (b * p) * e < (e * q + e) * b
    <3> DEFINE u == (b * p) * e
               v == a * e
               w == c * b
               x == (e * q + e) * b
    <3>1. u \in Int /\ v \in Int /\ w \in Int /\ x \in Int /\ u <= v /\ v <= w /\ w < x
      BY <1>3, <1>4, <2>2
    <3> HIDE DEF u, v, w, x
    <3>2. u < x
      BY <3>1
    <3> QED
      BY <3>2 DEF u, x
  <2> QED
    BY <2>1, <2>3
<1>6. b * e \in Positive
  BY TimesPositive
<1>7. p < q + 1
  <2> DEFINE k == b * e
  <2>1. k \in Positive /\ k * p < k * (q + 1)
    BY <1>5, <1>6
  <2> HIDE DEF k
  <2> QED
    BY <1>1, <2>1, Cancel
<1>8. p <= q
  BY <1>1, <1>7
<1> QED
  BY <1>8 DEF p, q

LEMMA DivisionOfCounts ==
  ASSUME NEW a \in Nat, NEW b \in Positive
  PROVE  a \div b \in Nat
<1> DEFINE q == a \div b
<1>1. q \in Int /\ a < b * q + b
  BY Division
<1> HIDE DEF q
<1>2. q >= 0
  <2> SUFFICES ASSUME q <= -1
               PROVE  FALSE
    BY <1>1
  <2>1. b * q <= b * (-1)
    BY <1>1, Scale DEF Positive
  <2> QED
    BY <1>1, <2>1 DEF Positive
<1>3. q \in Nat
  BY <1>1, <1>2
<1> QED
  BY <1>3 DEF q

(* Thousandths of the capture of the reference, up to its double. *)
Captures == 0 .. 2000

(* A reference the speedup can be normalised against gives a capture. *)
LEMMA CaptureType ==
  ASSUME NEW s \in Ratio, NEW s_ref \in Nat, normalisable(s_ref)
  PROVE  compute_capture(s, s_ref) \in Captures
<1> DEFINE a == 100000 * (s.num - s.den)
           b == s.den * (s_ref - 100)
<1>1. s.num \in Positive /\ s.den \in Positive /\ s_ref - 100 \in Positive
  BY DEF Ratio, normalisable, Positive
<1>2. b \in Positive
  BY <1>1, TimesPositive
<1>3. CASE 100 * s.num < 101 * s.den
  BY <1>3 DEF compute_capture, Captures
<1>4. CASE ~ (100 * s.num < 101 * s.den)
  <2>1. a \in Nat
    BY <1>1, <1>4 DEF Positive
  <2>2. compute_capture(s, s_ref) = Min({a \div b, 2000})
    BY <1>4 DEF compute_capture
  <2> HIDE DEF a, b
  <2>3. a \div b \in Nat
    BY <1>2, <2>1, DivisionOfCounts
  <2> DEFINE q == a \div b
  <2>4. q \in Nat /\ compute_capture(s, s_ref) = Min({q, 2000})
    BY <2>2, <2>3
  <2> HIDE DEF q
  <2>5. Min({q, 2000}) = IF q <= 2000 THEN q ELSE 2000
    BY <2>4, LessOfTwo
  <2> QED
    BY <2>4, <2>5 DEF Captures
<1> QED
  BY <1>3, <1>4

(* A greater speedup captures no less. *)
LEMMA CaptureGrows ==
  ASSUME NEW s \in Ratio, NEW t \in Ratio, AtMost(s, t),
         NEW s_ref \in Nat, normalisable(s_ref)
  PROVE  compute_capture(s, s_ref) <= compute_capture(t, s_ref)
<1> DEFINE k == s_ref - 100
           sn == s.num
           sd == s.den
           tn == t.num
           td == t.den
           cs == compute_capture(s, s_ref)
           ct == compute_capture(t, s_ref)
<1>1. sn \in Positive /\ sd \in Positive /\ tn \in Positive /\ td \in Positive /\ k \in Positive
  BY DEF Ratio, normalisable, Positive
<1>2. sn * td <= tn * sd
  BY DEF AtMost
<1>3. cs \in 0 .. 2000 /\ ct \in 0 .. 2000
  BY CaptureType DEF Captures
<1>4. /\ cs = IF 100 * sn < 101 * sd THEN 0 ELSE Min({(100000 * (sn - sd)) \div (sd * k), 2000})
      /\ ct = IF 100 * tn < 101 * td THEN 0 ELSE Min({(100000 * (tn - td)) \div (td * k), 2000})
  BY DEF compute_capture
<1> HIDE DEF sn, sd, tn, td, k, cs, ct
<1>5. CASE 100 * sn < 101 * sd
  BY <1>3, <1>4, <1>5 DEF cs, ct
<1>6. CASE ~ (100 * sn < 101 * sd)
  <2>1. ~ (100 * tn < 101 * td)
    <3> SUFFICES ASSUME 100 * tn < 101 * td
                 PROVE  FALSE
      OBVIOUS
    <3>1. sd * (100 * tn) < sd * (101 * td)
      BY <1>1 DEF Positive
    <3>2. td * (101 * sd) <= td * (100 * sn)
      BY <1>1, <1>6, Scale DEF Positive
    <3>3. /\ sd * (100 * tn) = 100 * (tn * sd) /\ td * (100 * sn) = 100 * (sn * td)
          /\ sd * (101 * td) = td * (101 * sd)
      BY <1>1 DEF Positive
    <3> DEFINE u == tn * sd
               v == sn * td
               w == td * (101 * sd)
    <3>4. u \in Int /\ v \in Int /\ w \in Int
      BY <1>1 DEF Positive
    <3>5. 100 * u < w /\ w <= 100 * v /\ v <= u
      BY <1>2, <3>1, <3>2, <3>3
    <3> HIDE DEF u, v, w
    <3> QED
      BY <3>4, <3>5
  <2> DEFINE a == 100000 * (sn - sd)
             c == 100000 * (tn - td)
             b == sd * k
             e == td * k
  <2>2. a \in Int /\ c \in Int /\ b \in Positive /\ e \in Positive
    BY <1>1, TimesPositive DEF Positive
  <2>3. a * e <= c * b
    <3> DEFINE m == 100000 * k
               x == (sn - sd) * td
               y == (tn - td) * sd
    <3>1. m \in Nat /\ x \in Int /\ y \in Int
      BY <1>1 DEF Positive
    <3>2. x <= y
      <4>1. x = sn * td - sd * td /\ y = tn * sd - sd * td
        BY <1>1 DEF Positive
      <4>2. sn * td \in Int /\ tn * sd \in Int /\ sd * td \in Int
        BY <1>1 DEF Positive
      <4> HIDE DEF x, y
      <4> QED
        BY <1>2, <4>1, <4>2
    <3>3. a * e = m * x /\ c * b = m * y
      BY <1>1 DEF Positive
    <3> HIDE DEF m, x, y
    <3>4. m * x <= m * y
      BY <3>1, <3>2, Scale
    <3> HIDE DEF a, b, c, e
    <3> QED
      BY <3>3, <3>4
  <2>4. cs = Min({a \div b, 2000}) /\ ct = Min({c \div e, 2000})
    BY <1>4, <1>6, <2>1
  <2> HIDE DEF a, b, c, e
  <2>5. a \div b <= c \div e /\ a \div b \in Int /\ c \div e \in Int
    BY <2>2, <2>3, Division, DivisionGrows
  <2>6. cs <= ct
    <3> DEFINE p == a \div b
               q == c \div e
    <3>1. p <= q /\ p \in Int /\ q \in Int /\ cs = Min({p, 2000}) /\ ct = Min({q, 2000})
      BY <2>4, <2>5
    <3> HIDE DEF p, q
    <3>2. cs = (IF p <= 2000 THEN p ELSE 2000) /\ ct = IF q <= 2000 THEN q ELSE 2000
      BY <3>1, LessOfTwo
    <3> QED
      BY <3>1, <3>2
  <2> QED
    BY <2>6 DEF cs, ct
<1> QED
  BY <1>5, <1>6 DEF cs, ct

(* A baseline and a candidate, if there is such evidence. *)
Pair == {Absent} \cup (Nat \X Nat)

Evidence == [peak_rss : Pair, p95 : Pair, compile_time : Pair,
             agreement : {Absent} \cup 0 .. 1000]

(* Evidence earns this part, in thousandths, of whatever its weight is. *)
IsCredit(part, pair, full) ==
  /\ part \in Nat /\ part <= 1000
  /\ \A weight \in Nat : credit(weight, improvement_pct(pair), full) = weight * part

(* What evidence earns is a part, in thousandths, of its weight. *)
LEMMA CreditType ==
  ASSUME NEW pair \in Pair, NEW full \in Positive
  PROVE  \E part : IsCredit(part, pair, full)
<1> DEFINE pct == improvement_pct(pair)
           q == (1000 * pct) \div full
<1>1. CASE pct = Absent
  <2>1. \A weight \in Nat : credit(weight, improvement_pct(pair), full) = weight * 0
    BY <1>1 DEF credit
  <2>2. IsCredit(0, pair, full)
    BY <2>1 DEF IsCredit
  <2> QED
    BY <2>2
<1>2. CASE pct # Absent
  <2>1. pct \in Int
    <3>1. pair \in Nat \X Nat /\ pair # Absent
      BY <1>2 DEF improvement_pct, Pair
    <3>2. pair[1] # 0 /\ pct = (100 * (pair[1] - pair[2])) \div pair[1]
      BY <1>2, <3>1 DEF improvement_pct
    <3> DEFINE a == 100 * (pair[1] - pair[2])
               b == pair[1]
    <3>3. a \in Int /\ b \in Positive /\ pct = a \div b
      BY <3>1, <3>2 DEF Positive
    <3> HIDE DEF a, b, pct
    <3> QED
      BY <3>3, Division
  <2>2. \A weight \in Nat : credit(weight, pct, full) = weight * saturating(pct, full)
    BY <1>2 DEF credit
  <2> HIDE DEF pct
  <2>3. saturating(pct, full) \in Nat /\ saturating(pct, full) <= 1000
    <3>1. CASE pct <= 0
      BY <3>1 DEF saturating
    <3>2. CASE ~ (pct <= 0)
      <4> DEFINE n == 1000 * pct
      <4>1. n \in Nat
        BY <2>1, <3>2
      <4>2. saturating(pct, full) = Min({q, 1000}) /\ q = n \div full
        BY <3>2 DEF saturating
      <4> HIDE DEF n
      <4>3. n \div full \in Nat
        BY <4>1, DivisionOfCounts
      <4>4. q \in Nat
        BY <4>2, <4>3
      <4> HIDE DEF q
      <4>5. Min({q, 1000}) = IF q <= 1000 THEN q ELSE 1000
        BY <4>4, LessOfTwo
      <4> QED
        BY <4>2, <4>4, <4>5
    <3> QED
      BY <3>1, <3>2
  <2>4. IsCredit(saturating(pct, full), pair, full)
    BY <2>2, <2>3 DEF pct, IsCredit
  <2> QED
    BY <2>4
<1> QED
  BY <1>1, <1>2

(* The capture, as a part of the credit for it. *)
NormalisedCapture(capture_won) == Min({capture_won \div 2, 1000})

(* The part of a score that the capture earns. *)
CaptureCredit(capture_won, hidden) ==
  55 * NormalisedCapture(capture_won) + IF hidden THEN 10 * NormalisedCapture(capture_won) ELSE 0

(* What the agreement of validators adds. *)
Agreed(agreement) == IF agreement = Absent THEN 0 ELSE 5 * agreement

(* A score is the sum of five parts. *)
LEMMA ScoreOfParts ==
  ASSUME NEW capture_won, NEW hidden, NEW evidence
  PROVE  score_components(capture_won, hidden, evidence)
           = CaptureCredit(capture_won, hidden)
              + credit(15, improvement_pct(evidence.peak_rss), 25)
              + credit(10, improvement_pct(evidence.p95), 25)
              + credit(5, improvement_pct(evidence.compile_time), 10)
              + Agreed(evidence.agreement)
BY DEF score_components, CaptureCredit, NormalisedCapture, Agreed

(* A greater capture scores no less. *)
LEMMA CaptureCreditGrows ==
  ASSUME NEW a \in Captures, NEW b \in Captures, a <= b, NEW hidden
  PROVE  /\ CaptureCredit(a, hidden) \in Nat /\ CaptureCredit(a, hidden) <= 65000
         /\ CaptureCredit(b, hidden) \in Nat /\ CaptureCredit(a, hidden) <= CaptureCredit(b, hidden)
<1> DEFINE p == a \div 2
           q == b \div 2
<1>1. 2 \in Positive /\ a \in Int /\ b \in Int /\ 0 <= a /\ a <= b /\ b <= 2000
  BY DEF Positive, Captures
<1>2. p \in Int /\ 2 * p <= a /\ a < 2 * p + 2
  BY <1>1, Division
<1>3. q \in Int /\ 2 * q <= b /\ b < 2 * q + 2
  BY <1>1, Division
<1>4. NormalisedCapture(a) = Min({p, 1000}) /\ NormalisedCapture(b) = Min({q, 1000})
  BY DEF NormalisedCapture
<1> HIDE DEF p, q
<1>5. p \in Nat /\ q \in Nat /\ p <= q /\ q <= 1000
  BY <1>1, <1>2, <1>3
<1>6. Min({p, 1000}) = p /\ Min({q, 1000}) = q
  BY <1>5, LessOfTwo
<1>7. CaptureCredit(a, hidden) = 55 * p + (IF hidden THEN 10 * p ELSE 0)
      /\ CaptureCredit(b, hidden) = 55 * q + (IF hidden THEN 10 * q ELSE 0)
  BY <1>4, <1>6 DEF CaptureCredit
<1>8. CASE hidden
  BY <1>5, <1>7, <1>8
<1>9. CASE ~ hidden
  BY <1>5, <1>7, <1>9
<1> QED
  BY <1>8, <1>9

(* No more thousandths than the weight has. *)
IsWorth(points, weight) == points \in Nat /\ points <= 1000 * weight

(* Agreement never earns more than its weight. *)
LEMMA AgreedType ==
  ASSUME NEW agreement \in {Absent} \cup 0 .. 1000
  PROVE  IsWorth(Agreed(agreement), 5)
<1>1. CASE agreement = Absent
  BY <1>1 DEF Agreed, IsWorth
<1>2. CASE agreement # Absent
  BY <1>2 DEF Agreed, IsWorth
<1> QED
  BY <1>1, <1>2

(* Each evidence adds no more than its weight. *)
LEMMA ScoreParts ==
  ASSUME NEW e \in Evidence
  PROVE  /\ IsWorth(credit(15, improvement_pct(e.peak_rss), 25), 15)
         /\ IsWorth(credit(10, improvement_pct(e.p95), 25), 10)
         /\ IsWorth(credit(5, improvement_pct(e.compile_time), 10), 5)
         /\ IsWorth(Agreed(e.agreement), 5)
<1>1. /\ e.peak_rss \in Pair /\ e.p95 \in Pair /\ e.compile_time \in Pair
      /\ e.agreement \in {Absent} \cup 0 .. 1000
  BY DEF Evidence
<1>2. 25 \in Positive /\ 10 \in Positive
  BY DEF Positive
<1>3. IsWorth(credit(15, improvement_pct(e.peak_rss), 25), 15)
  <2>1. PICK part : IsCredit(part, e.peak_rss, 25)
    BY <1>1, <1>2, CreditType
  <2>2. 15 \in Nat /\ part \in Nat /\ part <= 1000
    BY <2>1 DEF IsCredit
  <2>3. credit(15, improvement_pct(e.peak_rss), 25) = 15 * part
    BY <2>1, <2>2 DEF IsCredit
  <2> QED
    BY <2>2, <2>3 DEF IsWorth
<1>4. IsWorth(credit(10, improvement_pct(e.p95), 25), 10)
  <2>1. PICK part : IsCredit(part, e.p95, 25)
    BY <1>1, <1>2, CreditType
  <2>2. 10 \in Nat /\ part \in Nat /\ part <= 1000
    BY <2>1 DEF IsCredit
  <2>3. credit(10, improvement_pct(e.p95), 25) = 10 * part
    BY <2>1, <2>2 DEF IsCredit
  <2> QED
    BY <2>2, <2>3 DEF IsWorth
<1>5. IsWorth(credit(5, improvement_pct(e.compile_time), 10), 5)
  <2>1. PICK part : IsCredit(part, e.compile_time, 10)
    BY <1>1, <1>2, CreditType
  <2>2. 5 \in Nat /\ part \in Nat /\ part <= 1000
    BY <2>1 DEF IsCredit
  <2>3. credit(5, improvement_pct(e.compile_time), 10) = 5 * part
    BY <2>1, <2>2 DEF IsCredit
  <2> QED
    BY <2>2, <2>3 DEF IsWorth
<1>6. IsWorth(Agreed(e.agreement), 5)
  BY <1>1, AgreedType
<1> QED
  BY <1>3, <1>4, <1>5, <1>6

(* A score grows with the capture and never passes the whole. *)
LEMMA ScoreGrows ==
  ASSUME NEW a \in Captures, NEW b \in Captures, a <= b, NEW hidden,
         NEW e \in Evidence
  PROVE  /\ score_components(a, hidden, e) <= 100000
         /\ score_components(a, hidden, e) <= score_components(b, hidden, e)
<1> DEFINE t == CaptureCredit(a, hidden)
           u == CaptureCredit(b, hidden)
           c1 == credit(15, improvement_pct(e.peak_rss), 25)
           c2 == credit(10, improvement_pct(e.p95), 25)
           c3 == credit(5, improvement_pct(e.compile_time), 10)
           c4 == Agreed(e.agreement)
<1>1. /\ c1 \in Nat /\ c1 <= 15000 /\ c2 \in Nat /\ c2 <= 10000
      /\ c3 \in Nat /\ c3 <= 5000 /\ c4 \in Nat /\ c4 <= 5000
  <2>1. IsWorth(c1, 15) /\ IsWorth(c2, 10) /\ IsWorth(c3, 5) /\ IsWorth(c4, 5)
    BY ScoreParts
  <2> HIDE DEF c1, c2, c3, c4
  <2> QED
    BY <2>1 DEF IsWorth
<1>2. t \in Nat /\ t <= 65000 /\ u \in Nat /\ t <= u
  BY CaptureCreditGrows
<1>3. /\ score_components(a, hidden, e) = t + c1 + c2 + c3 + c4
      /\ score_components(b, hidden, e) = u + c1 + c2 + c3 + c4
  BY ScoreOfParts
<1> HIDE DEF t, u, c1, c2, c3, c4
<1> QED
  BY <1>1, <1>2, <1>3

(* Evidence without one of its items. *)
Lacking(e, item) == [e EXCEPT ![item] = Absent]

(* Evidence that is taken away adds nothing. *)
LEMMA LessEvidence ==
  ASSUME NEW a \in Captures, NEW hidden, NEW e \in Evidence,
         NEW item \in DOMAIN e
  PROVE  score_components(a, hidden, Lacking(e, item)) <= score_components(a, hidden, e)
<1> DEFINE f == Lacking(e, item)
           t == CaptureCredit(a, hidden)
           c1(g) == credit(15, improvement_pct(g.peak_rss), 25)
           c2(g) == credit(10, improvement_pct(g.p95), 25)
           c3(g) == credit(5, improvement_pct(g.compile_time), 10)
           c4(g) == Agreed(g.agreement)
<1>1. item \in {"peak_rss", "p95", "compile_time", "agreement"}
  BY DEF Evidence
<1>2. /\ f.peak_rss \in {e.peak_rss, Absent} /\ f.p95 \in {e.p95, Absent}
      /\ f.compile_time \in {e.compile_time, Absent} /\ f.agreement \in {e.agreement, Absent}
  BY <1>1 DEF Lacking, Evidence
<1> HIDE DEF f
<1>3. /\ credit(15, improvement_pct(Absent), 25) = 0
      /\ credit(10, improvement_pct(Absent), 25) = 0
      /\ credit(5, improvement_pct(Absent), 10) = 0
      /\ Agreed(Absent) = 0
  BY DEF credit, improvement_pct, Agreed
<1>4. /\ c1(f) \in {c1(e), 0} /\ c2(f) \in {c2(e), 0}
      /\ c3(f) \in {c3(e), 0} /\ c4(f) \in {c4(e), 0}
  BY <1>2, <1>3
<1>5. c1(e) \in Nat /\ c2(e) \in Nat /\ c3(e) \in Nat /\ c4(e) \in Nat
  BY ScoreParts DEF IsWorth
<1>6. t \in Nat
  <2>1. a <= a
    BY DEF Captures
  <2> QED
    BY <2>1, CaptureCreditGrows
<1>7. /\ score_components(a, hidden, e) = t + c1(e) + c2(e) + c3(e) + c4(e)
      /\ score_components(a, hidden, f) = t + c1(f) + c2(f) + c3(f) + c4(f)
  BY ScoreOfParts
<1> HIDE DEF t, c1, c2, c3, c4
<1>8. /\ c1(f) \in Nat /\ c1(f) <= c1(e) /\ c2(f) \in Nat /\ c2(f) <= c2(e)
      /\ c3(f) \in Nat /\ c3(f) <= c3(e) /\ c4(f) \in Nat /\ c4(f) <= c4(e)
  BY <1>4, <1>5
<1>9. score_components(a, hidden, f) <= score_components(a, hidden, e)
  BY <1>5, <1>6, <1>7, <1>8
<1> QED
  BY <1>9 DEF f

(* What MeasurementsAssumption says of a measurement. *)
Measured(m) ==
  /\ m.base \in Samples /\ m.cand \in Samples /\ m.lcb \in Ratio
  /\ m.s_ref \in Nat /\ m.hidden \in BOOLEAN /\ m.evidence \in Evidence

LEMMA MeasurementsAreTyped ==
  ASSUME NEW m \in Measurements
  PROVE  /\ Measured(m)
         /\ DOMAIN m = {"base", "cand", "lcb", "s_ref", "hidden", "evidence"}
<1> DEFINE Kind == [base : Samples, cand : Samples, lcb : Ratio, s_ref : Nat, hidden : BOOLEAN,
                    evidence : Evidence]
<1>1. m \in Kind
  BY MeasurementsAssumption DEF Samples, Ratio, Positive, Evidence, Pair
<1> QED
  BY <1>1 DEF Measured

(* The bound of a speedup is a ratio, and never above the point estimate. *)
LEMMA BoundIsBounded ==
  ASSUME NEW base \in Samples, NEW cand \in Samples, NEW lcb \in Ratio
  PROVE  /\ point(base, cand) \in Ratio
         /\ speedup_lcb(base, cand, lcb) \in Ratio
         /\ AtMost(speedup_lcb(base, cand, lcb), point(base, cand))
         /\ speedup_lcb(base, cand, point(base, cand)) = point(base, cand)
<1>1. point(base, cand) \in Ratio
  BY MedianIsASample DEF point, Ratio
<1>2. AtMost(point(base, cand), point(base, cand))
  <2> DEFINE n == point(base, cand).num * point(base, cand).den
  <2>1. n \in Int
    BY <1>1 DEF Ratio, Positive
  <2>2. n <= n
    <3> HIDE DEF n
    <3> QED
      BY <2>1
  <2> QED
    BY <2>2 DEF AtMost
<1> QED
  BY <1>1, <1>2 DEF speedup_lcb

(* The capture of a measurement that is scored. *)
Won(m) == compute_capture(speedup_lcb(m.base, m.cand, m.lcb), m.s_ref)

(* There is no measurement error. *)
Scored(m) == stable(m.base) /\ stable(m.cand) /\ normalisable(m.s_ref)

LEMMA ScoreOfWon ==
  ASSUME NEW m
  PROVE  /\ Scored(m) => Score(m) = score_components(Won(m), m.hidden, m.evidence)
         /\ ~ Scored(m) => Score(m) = Absent
BY DEF Score, Scored, Won

(* Repeats that differ earn no more than repeats equal to their median. *)
LEMMA ExactWinsNoLess ==
  ASSUME NEW m, Measured(m), Scored(m), NEW exact,
         exact.base = [i \in DOMAIN m.base |-> median(m.base)],
         exact.cand = [i \in DOMAIN m.cand |-> median(m.cand)],
         exact.lcb = point(m.base, m.cand), exact.s_ref = m.s_ref
  PROVE  Scored(exact) /\ Won(m) \in Captures /\ Won(exact) \in Captures /\ Won(m) <= Won(exact)
<1>1. /\ m.base \in Samples /\ m.cand \in Samples /\ m.lcb \in Ratio
      /\ m.s_ref \in Nat /\ normalisable(m.s_ref)
  BY DEF Measured, Scored
<1>2. /\ exact.base \in Samples /\ median(exact.base) = median(m.base) /\ stable(exact.base)
      /\ exact.cand \in Samples /\ median(exact.cand) = median(m.cand) /\ stable(exact.cand)
  BY <1>1, EqualRepeats
<1>3. point(exact.base, exact.cand) = point(m.base, m.cand)
  BY <1>2 DEF point
<1>4. speedup_lcb(exact.base, exact.cand, exact.lcb) = point(m.base, m.cand)
  BY <1>2, <1>3, BoundIsBounded, <1>1
<1> DEFINE s == speedup_lcb(m.base, m.cand, m.lcb)
           t == point(m.base, m.cand)
<1>5. s \in Ratio /\ t \in Ratio /\ AtMost(s, t)
  BY <1>1, BoundIsBounded
<1>6. Won(m) = compute_capture(s, m.s_ref) /\ Won(exact) = compute_capture(t, m.s_ref)
  BY <1>4 DEF Won
<1> HIDE DEF s, t
<1>7. compute_capture(s, m.s_ref) <= compute_capture(t, m.s_ref)
  BY <1>1, <1>5, CaptureGrows
<1>8. compute_capture(s, m.s_ref) \in Captures /\ compute_capture(t, m.s_ref) \in Captures
  BY <1>1, <1>5, CaptureType
<1>9. Scored(exact)
  BY <1>1, <1>2 DEF Scored
<1> QED
  BY <1>6, <1>7, <1>8, <1>9

(* UncertaintyCostsTheMiner, of one measurement. *)
LEMMA UncertaintyAlwaysCosts ==
  ASSUME NEW m \in Measurements
  PROVE  UncertaintyCosts(m, Score(m))
<1> DEFINE exact == [m EXCEPT !.base = [i \in DOMAIN m.base |-> median(m.base)],
                              !.cand = [i \in DOMAIN m.cand |-> median(m.cand)],
                              !.lcb = point(m.base, m.cand)]
           Less(item) == [m EXCEPT !.evidence = [m.evidence EXCEPT ![item] = Absent]]
<1>1. SUFFICES ASSUME Score(m) # Absent
               PROVE  /\ Score(m) <= Score(exact)
                      /\ \A item \in DOMAIN m.evidence : Score(Less(item)) <= Score(m)
                      /\ Score(m) <= 100000
  BY DEF UncertaintyCosts
<1>2. /\ Measured(m)
      /\ DOMAIN m = {"base", "cand", "lcb", "s_ref", "hidden", "evidence"}
  BY MeasurementsAreTyped
<1>3. Scored(m) /\ m.evidence \in Evidence
  BY <1>1, <1>2, ScoreOfWon DEF Measured
<1>4. /\ exact.base = [i \in DOMAIN m.base |-> median(m.base)]
      /\ exact.cand = [i \in DOMAIN m.cand |-> median(m.cand)]
      /\ exact.lcb = point(m.base, m.cand) /\ exact.s_ref = m.s_ref
      /\ exact.hidden = m.hidden /\ exact.evidence = m.evidence
  BY <1>2
<1>5. \A item \in DOMAIN m.evidence :
        /\ Less(item).base = m.base /\ Less(item).cand = m.cand /\ Less(item).lcb = m.lcb
        /\ Less(item).s_ref = m.s_ref /\ Less(item).hidden = m.hidden
        /\ Less(item).evidence = Lacking(m.evidence, item)
  BY <1>2 DEF Lacking
<1> HIDE DEF exact, Less
<1>6. Scored(exact) /\ Won(m) \in Captures /\ Won(exact) \in Captures /\ Won(m) <= Won(exact)
  BY <1>2, <1>3, <1>4, ExactWinsNoLess
<1>7. /\ Score(m) = score_components(Won(m), m.hidden, m.evidence)
      /\ Score(exact) = score_components(Won(exact), m.hidden, m.evidence)
  BY <1>3, <1>4, <1>6, ScoreOfWon
<1>8. Score(m) <= Score(exact) /\ Score(m) <= 100000
  BY <1>3, <1>6, <1>7, ScoreGrows
<1>9. ASSUME NEW item \in DOMAIN m.evidence
      PROVE  Score(Less(item)) <= Score(m)
  <2>1. Won(Less(item)) = Won(m) /\ Scored(Less(item))
    BY <1>3, <1>5 DEF Won, Scored
  <2>2. Score(Less(item)) = score_components(Won(m), m.hidden, Lacking(m.evidence, item))
    BY <1>5, <2>1, ScoreOfWon
  <2> QED
    BY <1>3, <1>6, <1>7, <2>2, LessEvidence
<1> QED
  BY <1>8, <1>9

-----------------------------------------------------------------------------
(***************************************************************************)
(* Loops.                                                                  *)
(***************************************************************************)

(* What holds of 0, and of a number whenever it holds of the one before,   *)
(* holds of all up to n.                                                   *)
LEMMA CountingUp ==
  ASSUME NEW n \in Nat, NEW Good, 0 \in Good,
         \A i \in 1 .. n : i - 1 \in Good => i \in Good
  PROVE  \A i \in 0 .. n : i \in Good
<1> DEFINE Bad == {i \in 0 .. n : i \notin Good}
<1>1. SUFFICES ASSUME Bad # {} PROVE FALSE
  OBVIOUS
<1>2. \E i \in Bad : \A j \in Bad : ~ (<<j, i>> \in OpToRel(<, Nat))
  <2>1. Bad \subseteq Nat
    OBVIOUS
  <2> HIDE DEF Bad
  <2> QED
    BY <1>1, <2>1, NatLessThanWellFounded, WFMin
<1>3. PICK i \in Bad : \A j \in Bad : ~ (j < i)
  <2>1. Bad \subseteq Nat
    OBVIOUS
  <2> HIDE DEF Bad
  <2> QED
    BY <1>2, <2>1 DEF OpToRel
<1>4. i # 0 /\ i - 1 \in 0 .. n
  OBVIOUS
<1>5. i - 1 \in Good
  BY <1>3, <1>4
<1> QED
  BY <1>3, <1>4, <1>5

(* F has a value for every step of a loop of k steps, each made from the   *)
(* one before.                                                             *)
IsLoop(F, k, b, step) ==
  F[0] = b /\ \A i \in 1 .. k : F[i] = step[<<i, F[i - 1]>>]

LEMMA LoopExists ==
  ASSUME NEW k \in Nat, NEW V, NEW b \in V, NEW step \in [(1 .. k) \X V -> V]
  PROVE  \E F \in [0 .. k -> V] : IsLoop(F, k, b, step)
<1> DEFINE Good == {m \in 0 .. k : \E F \in [0 .. m -> V] : IsLoop(F, m, b, step)}
<1>1. 0 \in Good
  <2>1. [i \in 0 .. 0 |-> b] \in [0 .. 0 -> V] /\ IsLoop([i \in 0 .. 0 |-> b], 0, b, step)
    BY DEF IsLoop
  <2> QED
    BY <2>1
<1>2. ASSUME NEW m \in 1 .. k, m - 1 \in Good
      PROVE  m \in Good
  <2>1. PICK F \in [0 .. m - 1 -> V] : IsLoop(F, m - 1, b, step)
    BY <1>2
  <2> DEFINE last == step[<<m, F[m - 1]>>]
             G == [i \in 0 .. m |-> IF i = m THEN last ELSE F[i]]
  <2>2. last \in V
    <3>1. F[m - 1] \in V
      BY <2>1
    <3> QED
      BY <3>1
  <2>3. G \in [0 .. m -> V]
    <3> HIDE DEF last
    <3> QED
      BY <2>1, <2>2
  <2>4. G[0] = b
    BY <2>1 DEF IsLoop
  <2>5. ASSUME NEW i \in 1 .. m
        PROVE  G[i] = step[<<i, G[i - 1]>>]
    <3>1. G[i - 1] = F[i - 1]
      OBVIOUS
    <3>2. CASE i = m
      <4>1. G[m] = last
        OBVIOUS
      <4> HIDE DEF G
      <4> QED
        BY <3>1, <3>2, <4>1
    <3>3. CASE i # m
      <4>1. G[i] = F[i] /\ i \in 1 .. m - 1
        BY <3>3
      <4> HIDE DEF G, last
      <4> QED
        BY <2>1, <3>1, <4>1 DEF IsLoop
    <3> QED
      BY <3>2, <3>3
  <2>6. IsLoop(G, m, b, step)
    <3> HIDE DEF G
    <3> QED
      BY <2>4, <2>5 DEF IsLoop
  <2> HIDE DEF G
  <2> QED
    BY <2>3, <2>6
<1>3. k \in Good
  <2> HIDE DEF Good
  <2> QED
    BY <1>1, <1>2, CountingUp
<1> QED
  BY <1>3

-----------------------------------------------------------------------------
(***************************************************************************)
(* The shuffle.                                                            *)
(***************************************************************************)

(* The equation of the shuffled pools. *)
ShuffleRule(g, items, k, draws) ==
  g = [i \in 0 .. k |->
        IF i = 0 THEN items
        ELSE Swapped(g[i - 1], i, position(i, Len(items), draws[i]))]

Shuffled(items, k, draws) == CHOOSE g : ShuffleRule(g, items, k, draws)

LEMMA SampleUnfolds ==
  ASSUME NEW items, NEW k, NEW draws
  PROVE  sample_without_replacement(items, k, draws)
           = SubSeq(Shuffled(items, k, draws)[k], 1, k)
BY DEF sample_without_replacement, Shuffled, ShuffleRule

Apart(s) == \A a, b \in DOMAIN s : a # b => s[a].id # s[b].id

(* The orders of items, of which no two have the same id. *)
Orders(items) == {s \in [1 .. Len(items) -> ToSet(items)] : Apart(s)}

(* What a shuffle of k steps is given. *)
Shuffles(items, k, draws) ==
  /\ Len(items) \in Nat
  /\ k \in 0 .. Len(items)
  /\ items \in Orders(items)
  /\ \A i \in 1 .. k : draws[i] \in Nat

LEMMA PositionRange ==
  ASSUME NEW n \in Nat, NEW i \in 1 .. n, NEW d \in Nat
  PROVE  /\ position(i, n, d) \in i .. n
         /\ position(i, n, d) = i + (d % (n - i + 1))
         /\ d % (n - i + 1) \in Nat
<1>1. n - i + 1 \in Nat \ {0}
  OBVIOUS
<1>2. d % (n - i + 1) \in 0 .. n - i
  BY <1>1
<1> QED
  BY <1>2 DEF position

LEMMA ShufflePlaces ==
  ASSUME NEW items, NEW k, NEW draws, Shuffles(items, k, draws)
  PROVE  /\ Len(items) \in Nat /\ k \in Nat /\ k <= Len(items) /\ items \in Orders(items)
         /\ \A i \in 1 .. k :
              /\ i \in 1 .. Len(items) /\ i - 1 \in 0 .. k
              /\ position(i, Len(items), draws[i]) \in 1 .. Len(items)
              /\ position(i, Len(items), draws[i]) >= i
              /\ position(i, Len(items), draws[i])
                   = i + (draws[i] % (Len(items) - i + 1))
              /\ draws[i] % (Len(items) - i + 1) \in Nat
<1>1. Len(items) \in Nat /\ k \in Nat /\ k <= Len(items) /\ items \in Orders(items)
  BY DEF Shuffles
<1>2. ASSUME NEW i \in 1 .. k
      PROVE  /\ i \in 1 .. Len(items) /\ i - 1 \in 0 .. k
             /\ position(i, Len(items), draws[i]) \in 1 .. Len(items)
             /\ position(i, Len(items), draws[i]) >= i
             /\ position(i, Len(items), draws[i])
                  = i + (draws[i] % (Len(items) - i + 1))
             /\ draws[i] % (Len(items) - i + 1) \in Nat
  <2>1. i \in 1 .. Len(items) /\ i - 1 \in 0 .. k
    BY <1>1
  <2>2. draws[i] \in Nat
    BY DEF Shuffles
  <2>3. /\ position(i, Len(items), draws[i]) \in i .. Len(items)
        /\ position(i, Len(items), draws[i]) = i + (draws[i] % (Len(items) - i + 1))
        /\ draws[i] % (Len(items) - i + 1) \in Nat
    BY <1>1, <2>1, <2>2, PositionRange
  <2> QED
    BY <1>1, <2>1, <2>3
<1> QED
  BY <1>1, <1>2

(* A swap is another order. *)
LEMMA SwapKeeps ==
  ASSUME NEW items, Len(items) \in Nat, NEW s \in Orders(items),
         NEW i \in 1 .. Len(items), NEW j \in 1 .. Len(items)
  PROVE  /\ Swapped(s, i, j) \in Orders(items)
         /\ Swapped(s, i, j)[i] = s[j]
         /\ \A a \in 1 .. Len(items) : a # i /\ a # j => Swapped(s, i, j)[a] = s[a]
<1> DEFINE t == Swapped(s, i, j)
<1>1. s \in [1 .. Len(items) -> ToSet(items)] /\ Apart(s)
  BY DEF Orders
<1>2. t \in [1 .. Len(items) -> ToSet(items)]
  BY <1>1 DEF Swapped
<1>3. /\ t[i] = s[j]
      /\ t[j] = s[i]
      /\ \A a \in 1 .. Len(items) : a # i /\ a # j => t[a] = s[a]
  BY <1>1 DEF Swapped
<1>4. Apart(t)
  <2> HIDE DEF t
  <2> QED
    BY <1>1, <1>2, <1>3 DEF Apart
<1> QED
  BY <1>2, <1>3, <1>4 DEF Orders

(* Every pool of a shuffle is an order of the items, made from the one     *)
(* before.                                                                 *)
LEMMA ShuffleSteps ==
  ASSUME NEW items, NEW k, NEW draws, Shuffles(items, k, draws)
  PROVE  LET g == Shuffled(items, k, draws)
         IN  /\ g[0] = items
             /\ \A i \in 0 .. k : g[i] \in Orders(items)
             /\ \A i \in 1 .. k :
                  g[i] = Swapped(g[i - 1], i, position(i, Len(items), draws[i]))
<1> DEFINE n == Len(items)
           V == Orders(items)
           At(i) == position(i, n, draws[i])
           step == [q \in (1 .. k) \X V |-> Swapped(q[2], q[1], At(q[1]))]
           g == Shuffled(items, k, draws)
<1>1. n \in Nat /\ k \in Nat /\ items \in V
  BY ShufflePlaces
<1>2. \A i \in 1 .. k : At(i) \in 1 .. n /\ i \in 1 .. n
  BY ShufflePlaces
<1>3. step \in [(1 .. k) \X V -> V]
  <2>1. ASSUME NEW i \in 1 .. k, NEW s \in V
        PROVE  Swapped(s, i, At(i)) \in V
    <3> HIDE DEF At
    <3> QED
      BY <1>1, <1>2, SwapKeeps
  <2> HIDE DEF V, At
  <2> QED
    BY <2>1
<1>4. PICK F \in [0 .. k -> V] : IsLoop(F, k, items, step)
  <2> HIDE DEF step, V
  <2> QED
    BY <1>1, <1>3, LoopExists
<1>5. ASSUME NEW i \in 1 .. k
      PROVE  F[i] = Swapped(F[i - 1], i, At(i))
  <2>1. F[i] = step[<<i, F[i - 1]>>] /\ F[i - 1] \in V
    <3> HIDE DEF step, V
    <3> QED
      BY <1>1, <1>4 DEF IsLoop
  <2> HIDE DEF V, At
  <2> QED
    BY <2>1
<1>6. ShuffleRule(F, items, k, draws)
  <2>1. F[0] = items /\ F = [i \in 0 .. k |-> F[i]]
    BY <1>4 DEF IsLoop
  <2>2. ASSUME NEW i \in 0 .. k
        PROVE  F[i] = IF i = 0 THEN items ELSE Swapped(F[i - 1], i, At(i))
    <3>1. CASE i = 0
      BY <2>1, <3>1
    <3>2. CASE i # 0
      <4>1. i \in 1 .. k
        BY <1>1, <3>2
      <4> HIDE DEF At
      <4> QED
        BY <1>5, <3>2, <4>1
    <3> QED
      BY <3>1, <3>2
  <2> QED
    BY <2>1, <2>2 DEF ShuffleRule
<1>7. ShuffleRule(g, items, k, draws)
  BY <1>6 DEF Shuffled
<1>8. g[0] = items /\ \A i \in 1 .. k : g[i] = Swapped(g[i - 1], i, At(i))
  <2> HIDE DEF g
  <2> QED
    BY <1>1, <1>7 DEF ShuffleRule
<1> DEFINE Good == {i \in 0 .. k : g[i] \in V}
<1>9. 0 \in Good
  BY <1>1, <1>8
<1>10. ASSUME NEW i \in 1 .. k, i - 1 \in Good
       PROVE  i \in Good
  <2>1. Swapped(g[i - 1], i, At(i)) \in V
    <3> HIDE DEF g, At
    <3> QED
      BY <1>1, <1>2, <1>10, SwapKeeps
  <2> HIDE DEF V, At, g
  <2> QED
    BY <1>8, <2>1
<1>11. \A i \in 0 .. k : g[i] \in V
  <2>1. \A i \in 0 .. k : i \in Good
    <3> HIDE DEF Good
    <3> QED
      BY <1>1, <1>9, <1>10, CountingUp
  <2> QED
    BY <2>1
<1> QED
  BY <1>8, <1>11

(* What a step puts in its place stays there. *)
LEMMA ShuffleSettles ==
  ASSUME NEW items, NEW k, NEW draws, Shuffles(items, k, draws),
         NEW j \in 1 .. k
  PROVE  LET g == Shuffled(items, k, draws)
         IN  g[k][j] = g[j - 1][position(j, Len(items), draws[j])]
<1> DEFINE n == Len(items)
           g == Shuffled(items, k, draws)
           At(i) == position(i, n, draws[i])
           Good == {i \in 0 .. k : i < j \/ g[i][j] = g[j][j]}
<1>1. n \in Nat /\ k \in Nat /\ \A i \in 1 .. k : i \in 1 .. n
  BY ShufflePlaces
<1>2. /\ \A i \in 0 .. k : g[i] \in Orders(items)
      /\ \A i \in 1 .. k : g[i] = Swapped(g[i - 1], i, At(i))
  BY ShuffleSteps
<1>3. \A i \in 1 .. k : At(i) >= i /\ At(i) \in 1 .. n /\ i - 1 \in 0 .. k
  BY ShufflePlaces
<1> HIDE DEF g, At
<1>4. 0 \in Good
  BY <1>1
<1>5. ASSUME NEW i \in 1 .. k, i - 1 \in Good
      PROVE  i \in Good
  <2>1. CASE i <= j
    BY <1>1, <2>1
  <2>2. CASE i > j
    <3>1. g[i - 1][j] = g[j][j] /\ j # i /\ j # At(i) /\ j \in 1 .. n
      BY <1>1, <1>3, <1>5, <2>2
    <3>2. g[i - 1] \in Orders(items) /\ i \in 1 .. n /\ At(i) \in 1 .. n
      BY <1>1, <1>2, <1>3
    <3>3. \A a \in 1 .. n : a # i /\ a # At(i) => Swapped(g[i - 1], i, At(i))[a] = g[i - 1][a]
      <4> DEFINE s == g[i - 1]
                 m == At(i)
      <4>1. s \in Orders(items) /\ m \in 1 .. n /\ i \in 1 .. n
        BY <3>2
      <4> HIDE DEF s, m
      <4>2. \A a \in 1 .. n : a # i /\ a # m => Swapped(s, i, m)[a] = s[a]
        BY <1>1, <4>1, SwapKeeps
      <4> QED
        BY <4>2 DEF s, m
    <3>4. g[i][j] = g[i - 1][j]
      BY <1>2, <3>1, <3>3
    <3> QED
      BY <3>1, <3>4
  <2> QED
    BY <1>1, <2>1, <2>2
<1>6. k \in Good
  <2>1. \A i \in 1 .. k : i - 1 \in Good => i \in Good
    BY <1>5
  <2> HIDE DEF Good
  <2>2. \A i \in 0 .. k : i \in Good
    BY <1>1, <1>4, <2>1, CountingUp
  <2> QED
    BY <1>1, <2>2
<1>7. g[k][j] = g[j][j]
  BY <1>1, <1>6
<1>8. g[j][j] = g[j - 1][At(j)]
  BY <1>1, <1>2, <1>3, SwapKeeps
<1> QED
  BY <1>7, <1>8 DEF g, At

(* A sample is k of the items, all different. *)
LEMMA SampleIs ==
  ASSUME NEW items, NEW k, NEW draws, Shuffles(items, k, draws)
  PROVE  LET sample == sample_without_replacement(items, k, draws)
         IN  /\ sample = [j \in 1 .. k |-> Shuffled(items, k, draws)[k][j]]
             /\ sample \in [1 .. k -> ToSet(items)]
             /\ Apart(sample)
<1> DEFINE last == Shuffled(items, k, draws)[k]
<1>1. k \in Nat /\ Len(items) \in Nat /\ k <= Len(items)
  BY DEF Shuffles
<1>2. last \in [1 .. Len(items) -> ToSet(items)] /\ Apart(last)
  <2>1. last \in Orders(items)
    BY <1>1, ShuffleSteps
  <2> QED
    BY <2>1 DEF Orders
<1> HIDE DEF last
<1>3. SubSeq(last, 1, k) = [j \in 1 .. k |-> last[j]]
  BY <1>1, <1>2
<1>4. sample_without_replacement(items, k, draws) = [j \in 1 .. k |-> last[j]]
  BY <1>3, SampleUnfolds DEF last
<1> QED
  BY <1>1, <1>2, <1>4 DEF Apart, last

(* Different remainders draw a different sample. *)
LEMMA SampleTells ==
  ASSUME NEW items, NEW k, NEW d, NEW e, Shuffles(items, k, d), Shuffles(items, k, e),
         \A j \in 1 .. k : sample_without_replacement(items, k, d)[j].id
                             = sample_without_replacement(items, k, e)[j].id
  PROVE  \A j \in 1 .. k : d[j] % (Len(items) - j + 1) = e[j] % (Len(items) - j + 1)
<1> DEFINE n == Len(items)
           f == Shuffled(items, k, d)
           g == Shuffled(items, k, e)
           Good == {i \in 0 .. k : f[i] = g[i]}
<1>1. n \in Nat /\ k \in Nat /\ \A i \in 1 .. k : i \in 1 .. n
  BY ShufflePlaces
<1>2. /\ f[0] = items /\ g[0] = items
      /\ \A i \in 0 .. k : f[i] \in Orders(items) /\ g[i] \in Orders(items)
      /\ \A i \in 1 .. k : f[i] = Swapped(f[i - 1], i, position(i, n, d[i]))
      /\ \A i \in 1 .. k : g[i] = Swapped(g[i - 1], i, position(i, n, e[i]))
  BY ShuffleSteps
<1>3. \A j \in 1 .. k : /\ f[k][j] = f[j - 1][position(j, n, d[j])]
                        /\ g[k][j] = g[j - 1][position(j, n, e[j])]
  BY ShuffleSettles
<1>4. \A j \in 1 .. k : f[k][j].id = g[k][j].id
  <2>1. /\ sample_without_replacement(items, k, d) = [j \in 1 .. k |-> f[k][j]]
        /\ sample_without_replacement(items, k, e) = [j \in 1 .. k |-> g[k][j]]
    BY SampleIs
  <2> HIDE DEF f, g
  <2> QED
    BY <2>1
<1> HIDE DEF f, g
<1>5. ASSUME NEW i \in 1 .. k, f[i - 1] = g[i - 1]
      PROVE  /\ position(i, n, d[i]) = position(i, n, e[i])
             /\ f[i] = g[i]
  <2> DEFINE a == position(i, n, d[i])
             b == position(i, n, e[i])
             p == f[i - 1]
  <2>1. a \in 1 .. n /\ b \in 1 .. n
    BY ShufflePlaces
  <2>2. p \in [1 .. n -> ToSet(items)] /\ Apart(p)
    BY <1>1, <1>2 DEF Orders
  <2>3. p[a].id = p[b].id
    BY <1>3, <1>4, <1>5
  <2>4. a = b
    <3> HIDE DEF a, b, p
    <3> QED
      BY <2>1, <2>2, <2>3 DEF Apart
  <2> QED
    BY <1>2, <1>5, <2>4
<1>6. \A i \in 0 .. k : i \in Good
  <2>1. 0 \in Good
    BY <1>1, <1>2
  <2>2. ASSUME NEW i \in 1 .. k, i - 1 \in Good
        PROVE  i \in Good
    <3>1. f[i - 1] = g[i - 1]
      BY <2>2
    <3>2. f[i] = g[i]
      BY <1>5, <3>1
    <3>3. i \in 0 .. k
      BY <1>1
    <3> QED
      BY <3>2, <3>3
  <2>3. \A i \in 1 .. k : i - 1 \in Good => i \in Good
    BY <2>2
  <2> HIDE DEF Good
  <2> QED
    BY <1>1, <2>1, <2>3, CountingUp
<1>7. ASSUME NEW j \in 1 .. k
      PROVE  d[j] % (n - j + 1) = e[j] % (n - j + 1)
  <2>1. f[j - 1] = g[j - 1]
    BY <1>1, <1>6
  <2>2. position(j, n, d[j]) = position(j, n, e[j])
    BY <1>5, <2>1
  <2> DEFINE p == d[j] % (n - j + 1)
             q == e[j] % (n - j + 1)
  <2>3. /\ position(j, n, d[j]) = j + p /\ p \in Nat
        /\ position(j, n, e[j]) = j + q /\ q \in Nat
        /\ j \in 1 .. n
    BY ShufflePlaces
  <2> HIDE DEF p, q
  <2>4. j \in Nat /\ p \in Nat /\ q \in Nat
    BY <1>1, <2>3
  <2>5. j + p = j + q
    BY <2>2, <2>3
  <2>6. p = q
    BY <2>4, <2>5
  <2> QED
    BY <2>6 DEF p, q
<1> QED
  BY <1>7

-----------------------------------------------------------------------------
(***************************************************************************)
(* The sorted packages of a side.                                          *)
(***************************************************************************)

(* A map that tells the elements of a finite set apart, into one as large, *)
(* reaches all of it.                                                      *)
LEMMA OneToOne ==
  ASSUME NEW S, IsFiniteSet(S), NEW T, IsFiniteSet(T), NEW f \in [S -> T],
         \A x, y \in S : x # y => f[x] # f[y]
  PROVE  /\ Cardinality(S) <= Cardinality(T)
         /\ Cardinality(S) = Cardinality(T) => \A t \in T : \E s \in S : f[s] = t
         /\ (\A t \in T : \E s \in S : f[s] = t) => Cardinality(S) = Cardinality(T)
<1>1. f \in Injection(S, T)
  BY DEF Injection, IsInjective
<1>2. /\ Cardinality(S) <= Cardinality(T)
      /\ Cardinality(S) = Cardinality(T) <=> f \in Surjection(S, T)
  BY <1>1, FS_Injection
<1> QED
  BY <1>2 DEF Surjection

(* Packages of which no id appears twice, as load makes sure.              *)
Loaded(packages) == packages \in Seq(Packages) /\ Apart(packages)

LEMMA LoadedIds ==
  ASSUME NEW packages, Loaded(packages)
  PROVE  /\ DOMAIN packages = 1 .. Len(packages) /\ Len(packages) \in Nat
         /\ \A i \in DOMAIN packages : i \in Nat /\ packages[i] \in Packages
                                       /\ packages[i].id \in Nat
         /\ \A i, j \in DOMAIN packages : i # j => packages[i].id # packages[j].id
<1>1. packages \in Seq(Packages) /\ Apart(packages)
  BY DEF Loaded
<1>2. DOMAIN packages = 1 .. Len(packages) /\ Len(packages) \in Nat
  BY <1>1
<1>3. ASSUME NEW i \in DOMAIN packages
      PROVE  i \in Nat /\ packages[i] \in Packages /\ packages[i].id \in Nat
  <2>1. packages[i] \in Packages
    BY <1>1
  <2>2. i \in Nat
    BY <1>2
  <2> QED
    BY <2>1, <2>2 DEF Packages
<1> QED
  BY <1>1, <1>2, <1>3 DEF Apart

(* load accepts only packages of different ids.                            *)
LEMMA IdsDiffer ==
  ASSUME NEW packages \in Seq(Packages), ~ (Cardinality(Ids(packages)) < Len(packages))
  PROVE  Loaded(packages)
<1> DEFINE n == Len(packages)
           S == 1 .. n
           f == [i \in S |-> packages[i].id]
<1>1. n \in Nat /\ DOMAIN packages = S
  OBVIOUS
<1>2. IsFiniteSet(S) /\ Cardinality(S) = n
  BY <1>1, FS_Interval
<1>3. f \in Surjection(S, Ids(packages))
  BY <1>1 DEF Surjection, Ids
<1> HIDE DEF f, n, S
<1>4. /\ IsFiniteSet(Ids(packages))
      /\ Cardinality(Ids(packages)) <= Cardinality(S)
      /\ Cardinality(Ids(packages)) = Cardinality(S) <=> f \in Injection(S, Ids(packages))
  BY <1>2, <1>3, FS_Surjection
<1>5. Cardinality(Ids(packages)) \in Nat
  BY <1>4, FS_CardinalityType
<1>6. ~ (Cardinality(Ids(packages)) < n)
  BY DEF n
<1>7. Cardinality(Ids(packages)) = Cardinality(S)
  BY <1>1, <1>2, <1>4, <1>5, <1>6
<1>8. \A i, j \in S : f[i] = f[j] => i = j
  BY <1>3, <1>4, <1>7 DEF Injection, IsInjective, Surjection
<1>9. \A i \in S : f[i] = packages[i].id
  BY DEF f
<1> QED
  BY <1>1, <1>8, <1>9 DEF Loaded, Apart

(* How many packages of its side come before each.                         *)
Rank(packages, S, j) == Cardinality(Ahead(packages, S, j))

LEMMA SideIsFinite ==
  ASSUME NEW packages, Loaded(packages), NEW hidden
  PROVE  /\ IsFiniteSet(Side(packages, hidden))
         /\ Side(packages, hidden) \subseteq DOMAIN packages
         /\ Cardinality(Side(packages, hidden)) \in Nat
<1>1. DOMAIN packages = 1 .. Len(packages) /\ Len(packages) \in Nat
  BY LoadedIds
<1>2. IsFiniteSet(DOMAIN packages)
  BY <1>1, FS_Interval
<1>3. Side(packages, hidden) \in SUBSET DOMAIN packages
  BY DEF Side
<1> QED
  BY <1>2, <1>3, FS_Subset, FS_CardinalityType

(* The package ahead of another has the smaller id.                        *)
LEMMA AheadById ==
  ASSUME NEW packages, Loaded(packages), NEW S \in SUBSET (DOMAIN packages), NEW j \in S
  PROVE  Ahead(packages, S, j) = {i \in S : packages[i].id < packages[j].id}
<1>1. \A i \in DOMAIN packages : packages[i].id \in Nat /\ i \in Nat
  BY LoadedIds
<1>2. ASSUME NEW i \in S
      PROVE  ~ (packages[i].id = packages[j].id /\ i < j)
  <2>1. i # j => packages[i].id # packages[j].id
    BY LoadedIds
  <2>2. i = j => ~ (i < j)
    BY <1>1
  <2> QED
    BY <2>1, <2>2
<1> QED
  BY <1>2 DEF Ahead

(* Each place of a side has exactly one package before which that many     *)
(* others come.                                                            *)
LEMMA RanksAreAll ==
  ASSUME NEW packages, Loaded(packages), NEW hidden
  PROVE  LET S == Side(packages, hidden)
         IN  /\ \A j \in S : Rank(packages, S, j) \in 0 .. Cardinality(S) - 1
             /\ \A i, j \in S : i # j => Rank(packages, S, i) # Rank(packages, S, j)
             /\ \A k \in 1 .. Cardinality(S) : \E j \in S : Rank(packages, S, j) = k - 1
<1> DEFINE S == Side(packages, hidden)
           n == Cardinality(S)
           id(i) == packages[i].id
           place == [j \in S |-> Rank(packages, S, j)]
           Ranks == 0 .. n - 1
<1>1. IsFiniteSet(S) /\ S \subseteq DOMAIN packages /\ n \in Nat
  BY SideIsFinite
<1>2. /\ \A i \in S : id(i) \in Nat
      /\ \A i, j \in S : i # j => id(i) # id(j)
  BY <1>1, LoadedIds
<1> HIDE DEF S, id
<1>3. ASSUME NEW j \in S
      PROVE  Ahead(packages, S, j) = {i \in S : id(i) < id(j)}
  BY <1>1, AheadById DEF id
<1>4. ASSUME NEW i \in S, NEW j \in S, id(i) < id(j)
      PROVE  Rank(packages, S, i) < Rank(packages, S, j)
  <2> DEFINE A == Ahead(packages, S, i)
             B == Ahead(packages, S, j)
  <2>1. A \in SUBSET B /\ i \in B /\ i \notin A /\ B \in SUBSET S
    BY <1>2, <1>3, <1>4
  <2>2. IsFiniteSet(A) /\ IsFiniteSet(B)
    BY <1>1, <2>1, FS_Subset
  <2> HIDE DEF A, B
  <2>3. Cardinality(A) <= Cardinality(B) /\ Cardinality(A) # Cardinality(B)
    BY <2>1, <2>2, FS_Subset
  <2>4. Cardinality(A) \in Nat /\ Cardinality(B) \in Nat
    BY <2>2, FS_CardinalityType
  <2> QED
    BY <2>3, <2>4 DEF Rank, A, B
<1>5. ASSUME NEW j \in S
      PROVE  Rank(packages, S, j) \in 0 .. n - 1
  <2> DEFINE A == Ahead(packages, S, j)
  <2>1. A \in SUBSET S /\ j \notin A
    BY <1>2, <1>3
  <2> HIDE DEF A
  <2>2. IsFiniteSet(A) /\ Cardinality(A) <= n /\ Cardinality(A) # n
    BY <1>1, <2>1, FS_Subset
  <2>3. Cardinality(A) \in Nat
    BY <2>2, FS_CardinalityType
  <2> HIDE DEF n
  <2> QED
    BY <1>1, <2>2, <2>3 DEF Rank, A
<1>6. ASSUME NEW i \in S, NEW j \in S, i # j
      PROVE  Rank(packages, S, i) # Rank(packages, S, j)
  <2>1. id(i) < id(j) \/ id(j) < id(i)
    BY <1>2, <1>6
  <2>2. Rank(packages, S, i) \in Nat /\ Rank(packages, S, j) \in Nat
    BY <1>1, <1>5
  <2>3. Rank(packages, S, i) < Rank(packages, S, j) \/ Rank(packages, S, j) < Rank(packages, S, i)
    BY <1>4, <2>1
  <2> QED
    BY <2>2, <2>3
<1>7. ASSUME NEW k \in 1 .. n
      PROVE  \E j \in S : Rank(packages, S, j) = k - 1
  <2>1. IsFiniteSet(Ranks) /\ Cardinality(Ranks) = n
    <3> HIDE DEF n
    <3>1. IsFiniteSet(0 .. n - 1)
          /\ Cardinality(0 .. n - 1) = IF 0 > n - 1 THEN 0 ELSE (n - 1) - 0 + 1
      BY <1>1, FS_Interval
    <3> QED
      BY <1>1, <3>1
  <2>2. place \in [S -> Ranks] /\ \A i, j \in S : i # j => place[i] # place[j]
    BY <1>5, <1>6
  <2>3. k - 1 \in Ranks
    BY <1>1
  <2> HIDE DEF place, Ranks
  <2>4. \A t \in Ranks : \E s \in S : place[s] = t
    BY <1>1, <2>1, <2>2, OneToOne
  <2> QED
    BY <2>3, <2>4 DEF place
<1> QED
  BY <1>5, <1>6, <1>7 DEF S

(* The place of a package in the sorted side.                              *)
PlaceOf(packages, S, k) == CHOOSE j \in S : Rank(packages, S, j) = k - 1

(* The pool of a side has each of its packages once.                       *)
LEMMA PoolIs ==
  ASSUME NEW packages, Loaded(packages), NEW hidden
  PROVE  LET S == Side(packages, hidden)
             sorted == Pool(packages, hidden)
         IN  /\ Cardinality(S) \in Nat
             /\ Len(sorted) = Cardinality(S)
             /\ DOMAIN sorted = 1 .. Cardinality(S)
             /\ \A k \in 1 .. Cardinality(S) :
                  /\ PlaceOf(packages, S, k) \in S
                  /\ Rank(packages, S, PlaceOf(packages, S, k)) = k - 1
                  /\ sorted[k] = packages[PlaceOf(packages, S, k)]
             /\ sorted \in Orders(sorted)
<1> DEFINE S == Side(packages, hidden)
           n == Cardinality(S)
           sorted == Pool(packages, hidden)
<1>1. sorted = [k \in 1 .. n |-> packages[PlaceOf(packages, S, k)]]
  BY DEF Pool, PlaceOf, Rank
<1>2. n \in Nat /\ S \subseteq DOMAIN packages
  BY SideIsFinite
<1>3. \A k \in 1 .. n : /\ PlaceOf(packages, S, k) \in S
                        /\ Rank(packages, S, PlaceOf(packages, S, k)) = k - 1
  <2>1. \A k \in 1 .. n : \E j \in S : Rank(packages, S, j) = k - 1
    BY RanksAreAll
  <2> QED
    BY <2>1 DEF PlaceOf
<1> HIDE DEF S, n, sorted
<1>4. Len(sorted) = n /\ DOMAIN sorted = 1 .. n
  BY <1>1, <1>2
<1>5. ASSUME NEW a \in 1 .. n, NEW b \in 1 .. n, a # b
      PROVE  sorted[a].id # sorted[b].id
  <2> DEFINE i == PlaceOf(packages, S, a)
             j == PlaceOf(packages, S, b)
  <2>1. i \in DOMAIN packages /\ j \in DOMAIN packages
    BY <1>2, <1>3
  <2>2. Rank(packages, S, i) # Rank(packages, S, j)
    BY <1>2, <1>3, <1>5
  <2>3. packages[i].id # packages[j].id
    BY <2>1, <2>2, LoadedIds
  <2> QED
    BY <1>1, <2>3
<1>6. sorted \in [1 .. n -> ToSet(sorted)]
  <2>1. \A k \in 1 .. n : sorted[k] \in ToSet(sorted)
    BY <1>4 DEF ToSet
  <2> QED
    BY <1>1, <2>1
<1>7. sorted \in Orders(sorted)
  BY <1>4, <1>5, <1>6 DEF Orders, Apart
<1> QED
  BY <1>1, <1>2, <1>3, <1>4, <1>7 DEF S, n, sorted

(* As many packages as places they are at. *)
LEMMA CountedByPlace ==
  ASSUME NEW packages, Loaded(packages), NEW S \in SUBSET (DOMAIN packages)
  PROVE  Cardinality({packages[i] : i \in S}) = Cardinality(S)
<1> DEFINE T == {packages[i] : i \in S}
           f == [i \in S |-> packages[i]]
<1>1. \A i, j \in S : packages[i] = packages[j] => i = j
  BY LoadedIds
<1>2. f \in Bijection(S, T)
  BY <1>1 DEF Bijection, Injection, Surjection, IsInjective
<1>3. IsFiniteSet(S)
  <2>1. IsFiniteSet(DOMAIN packages)
    BY LoadedIds, FS_Interval
  <2> QED
    BY <2>1, FS_Subset
<1> HIDE DEF T
<1>4. ExistsBijection(S, T)
  BY <1>2 DEF ExistsBijection
<1>5. Cardinality(T) = Cardinality(S)
  BY <1>3, <1>4, FS_Bijection
<1> QED
  BY <1>5 DEF T

(* The packages of a side whose ids come before. *)
Below(side, x) == {y \in side : y.id < x.id}

SideOf(packages, hidden) == {x \in ToSet(packages) : x.hidden = hidden}

(* The place of a package depends on the set of packages, not their order. *)
LEMMA RankIsBelow ==
  ASSUME NEW packages, Loaded(packages), NEW hidden
  PROVE  LET S == Side(packages, hidden)
             side == SideOf(packages, hidden)
         IN  /\ Cardinality(S) = Cardinality(side)
             /\ \A j \in S : Rank(packages, S, j) = Cardinality(Below(side, packages[j]))
<1> DEFINE S == Side(packages, hidden)
           side == SideOf(packages, hidden)
<1>1. S \subseteq DOMAIN packages
  BY SideIsFinite
<1>2. side = {packages[i] : i \in S}
  BY DEF SideOf, Side, ToSet
<1> HIDE DEF S, side
<1>3. Cardinality(S) = Cardinality(side)
  BY <1>1, <1>2, CountedByPlace
<1>4. ASSUME NEW j \in S
      PROVE  Rank(packages, S, j) = Cardinality(Below(side, packages[j]))
  <2> DEFINE A == Ahead(packages, S, j)
  <2>1. A = {i \in S : packages[i].id < packages[j].id}
    BY <1>1, AheadById
  <2>2. Below(side, packages[j]) = {packages[i] : i \in A}
    <3> HIDE DEF A
    <3> QED
      BY <1>2, <2>1 DEF Below
  <2>3. A \in SUBSET (DOMAIN packages)
    BY <1>1, <2>1
  <2> HIDE DEF A
  <2>4. Cardinality({packages[i] : i \in A}) = Cardinality(A)
    BY <2>3, CountedByPlace
  <2> QED
    BY <2>2, <2>4 DEF Rank, A
<1> QED
  BY <1>3, <1>4 DEF S, side

(* Corpora of the same packages have the same pools. *)
LEMMA PoolsAgree ==
  ASSUME NEW mine, Loaded(mine), NEW theirs, Loaded(theirs),
         ToSet(mine) = ToSet(theirs), NEW hidden
  PROVE  Pool(mine, hidden) = Pool(theirs, hidden)
<1> DEFINE S == Side(mine, hidden)
           R == Side(theirs, hidden)
           side == SideOf(mine, hidden)
           n == Cardinality(side)
           p == Pool(mine, hidden)
           q == Pool(theirs, hidden)
<1>1. SideOf(theirs, hidden) = side
  BY DEF SideOf
<1>2. /\ Cardinality(S) = n /\ Cardinality(R) = n
      /\ \A j \in S : Rank(mine, S, j) = Cardinality(Below(side, mine[j]))
      /\ \A j \in R : Rank(theirs, R, j) = Cardinality(Below(side, theirs[j]))
  BY <1>1, RankIsBelow
<1>3. /\ p = [k \in 1 .. n |-> mine[PlaceOf(mine, S, k)]]
      /\ q = [k \in 1 .. n |-> theirs[PlaceOf(theirs, R, k)]]
  BY <1>2 DEF Pool, PlaceOf, Rank
<1>4. ASSUME NEW k \in 1 .. n
      PROVE  mine[PlaceOf(mine, S, k)] = theirs[PlaceOf(theirs, R, k)]
  <2> DEFINE i == PlaceOf(mine, S, k)
             j == PlaceOf(theirs, R, k)
  <2>1. i \in S /\ Rank(mine, S, i) = k - 1 /\ j \in R /\ Rank(theirs, R, j) = k - 1
    BY <1>2, PoolIs
  <2> HIDE DEF i, j
  <2>2. PICK m \in DOMAIN theirs : theirs[m] = mine[i] /\ m \in R
    BY <2>1 DEF Side, ToSet
  <2>3. Rank(theirs, R, m) = k - 1
    BY <1>2, <2>1, <2>2
  <2>4. m = j
    BY <2>1, <2>2, <2>3, RanksAreAll
  <2> QED
    BY <2>2, <2>4 DEF i, j
<1> QED
  BY <1>3, <1>4

-----------------------------------------------------------------------------
(***************************************************************************)
(* Profiles.                                                               *)
(***************************************************************************)

(* The weights laid end to end. *)
LEMMA WeightGrows ==
  ASSUME NEW weights \in Seq(Nat)
  PROVE  /\ Len(weights) \in Nat
         /\ Weight(weights, 0) = 0
         /\ \A k \in 0 .. Len(weights) : Weight(weights, k) \in Nat
         /\ \A k \in 1 .. Len(weights) :
              Weight(weights, k) = Weight(weights, k - 1) + weights[k]
         /\ \A j, k \in 0 .. Len(weights) : j <= k => Weight(weights, j) <= Weight(weights, k)
<1> DEFINE n == Len(weights)
           W(k) == Weight(weights, k)
<1>1. n \in Nat /\ \A k \in 1 .. n : weights[k] \in Nat
  OBVIOUS
<1> HIDE DEF n
<1>2. ASSUME NEW k \in 0 .. n
      PROVE  IsFiniteSet(1 .. k) /\ Counts(weights, 1 .. k)
  <2>1. IsFiniteSet(1 .. k)
    BY <1>1, FS_Interval
  <2>2. \A i \in 1 .. k : i \in 1 .. n
    BY <1>1
  <2> QED
    BY <1>1, <2>1, <2>2 DEF Counts
<1>3. \A k \in 0 .. n : W(k) \in Nat
  BY <1>2, SumStep DEF Weight
<1>4. W(0) = 0
  <2>1. 1 .. 0 = {} /\ 0 \in 0 .. n
    BY <1>1
  <2> QED
    BY <1>2, <2>1, SumStep DEF Weight
<1>5. ASSUME NEW k \in 1 .. n
      PROVE  W(k) = W(k - 1) + weights[k]
  <2>1. k \in 1 .. k /\ (1 .. k) \ {k} = 1 .. k - 1 /\ k \in 0 .. n /\ k - 1 \in 0 .. n
    BY <1>1
  <2>2. SumFunctionOnSet(weights, 1 .. k)
          = weights[k] + SumFunctionOnSet(weights, (1 .. k) \ {k})
    BY <1>2, <2>1, SumRemove
  <2>3. W(k) = weights[k] + W(k - 1)
    BY <2>1, <2>2 DEF Weight
  <2>4. W(k - 1) \in Nat /\ weights[k] \in Nat
    BY <1>1, <1>3, <2>1
  <2> HIDE DEF W
  <2> QED
    BY <2>3, <2>4
<1> HIDE DEF W
<1>6. ASSUME NEW j \in 0 .. n, NEW k \in 0 .. n, j <= k
      PROVE  W(j) <= W(k)
  <2> DEFINE Good == {i \in 0 .. n : j <= i => W(j) <= W(i)}
  <2>1. 0 \in Good
    <3>1. j <= 0 => j = 0
      BY <1>1
    <3>2. 0 \in 0 .. n /\ W(0) \in Nat
      BY <1>1, <1>3
    <3> QED
      BY <3>1, <3>2
  <2>2. ASSUME NEW i \in 1 .. n, i - 1 \in Good
        PROVE  i \in Good
    <3>1. /\ i \in 0 .. n /\ i - 1 \in 0 .. n
          /\ W(j) \in Nat /\ W(i) \in Nat /\ W(i - 1) \in Nat /\ weights[i] \in Nat
      BY <1>1, <1>3
    <3>2. CASE j <= i - 1
      BY <1>5, <2>2, <3>1, <3>2
    <3>3. CASE ~ (j <= i - 1)
      <4>1. j <= i => j = i
        BY <1>1, <3>3
      <4> QED
        BY <3>1, <4>1
    <3> QED
      BY <3>2, <3>3
  <2>3. \A i \in 0 .. n : i \in Good
    <3>1. \A i \in 1 .. n : i - 1 \in Good => i \in Good
      BY <2>2
    <3> HIDE DEF Good
    <3> QED
      BY <1>1, <2>1, <3>1, CountingUp
  <2> QED
    BY <1>6, <2>3
<1> QED
  BY <1>1, <1>3, <1>4, <1>5, <1>6 DEF n, W

(* The point falls on the part of the line that is the profile's. *)
LEMMA ProfileDrawn ==
  ASSUME NEW weights \in Seq(Nat), Weight(weights, Len(weights)) > 0, Points \in Nat \ {0},
         NEW p \in 0 .. Points - 1, NEW k \in DOMAIN weights
  PROVE  LET total == Weight(weights, Len(weights))
         IN  select_profile(weights, p) = k
               <=> /\ Weight(weights, k - 1) * Points <= p * total
                   /\ p * total < Weight(weights, k) * Points
<1> DEFINE n == Len(weights)
           W(i) == Weight(weights, i)
           total == W(n)
           x == p * total
           L(i) == W(i) * Points
           past == {i \in DOMAIN weights : x < L(i)}
<1>1. n \in Nat /\ DOMAIN weights = 1 .. n /\ Points \in Nat /\ Points > 0
  OBVIOUS
<1>2. /\ W(0) = 0
      /\ \A i \in 0 .. n : W(i) \in Nat
      /\ \A i, j \in 0 .. n : i <= j => W(i) <= W(j)
  BY WeightGrows
<1>3. p % Points = p
  BY <1>1
<1>4. total \in Nat /\ total > 0 /\ n \in 0 .. n
  BY <1>1, <1>2
<1>5. select_profile(weights, p) = IF past = {} THEN n ELSE Min(past)
  <2>1. ~ (total <= 0)
    <3> HIDE DEF total
    <3> QED
      BY <1>4
  <2> QED
    BY <1>3, <2>1 DEF select_profile
<1> HIDE DEF n, W
<1>6. \A i \in 0 .. n : L(i) \in Nat
  <2>1. ASSUME NEW i \in 0 .. n
        PROVE  L(i) \in Nat
    <3>1. W(i) \in Nat
      BY <1>2
    <3> QED
      BY <1>1, <3>1
  <2> QED
    BY <2>1
<1>7. \A i, j \in 0 .. n : i <= j => L(i) <= L(j)
  <2>1. ASSUME NEW i \in 0 .. n, NEW j \in 0 .. n, i <= j
        PROVE  L(i) <= L(j)
    <3> DEFINE a == W(i)
               b == W(j)
    <3>1. a \in Nat /\ b \in Nat /\ a <= b
      BY <1>2, <2>1
    <3> HIDE DEF a, b
    <3>2. a * Points <= b * Points
      BY <1>1, <3>1, Scale
    <3> QED
      BY <3>2 DEF a, b
  <2> QED
    BY <2>1
<1>8. x \in Nat /\ x < L(n) /\ L(0) = 0
  <2> HIDE DEF total
  <2>1. p \in Nat /\ p < Points
    BY <1>1
  <2>2. p * total < Points * total
    BY <1>1, <1>4, <2>1
  <2>3. Points * total = total * Points
    BY <1>1, <1>4
  <2>4. p * total \in Nat
    BY <1>4, <2>1
  <2> QED
    BY <1>1, <1>2, <2>2, <2>3, <2>4 DEF total
<1> HIDE DEF x, L
<1>9. n \in past /\ past \subseteq Nat
  <2>1. n \in 1 .. n
    <3>1. n # 0
      BY <1>8
    <3> QED
      BY <1>1, <3>1
  <2> QED
    BY <1>1, <1>8, <2>1
<1>10. Min(past) \in past /\ \A i \in past : Min(past) <= i
  <2> HIDE DEF past
  <2> QED
    BY <1>9, MinIsLeast
<1>11. select_profile(weights, p) = Min(past)
  <2> HIDE DEF past
  <2> QED
    BY <1>5, <1>9
<1>12. k \in 0 .. n /\ k - 1 \in 0 .. n /\ k \in Nat
  BY <1>1
<1>13. ASSUME Min(past) = k
       PROVE  L(k - 1) <= x /\ x < L(k)
  <2>1. x < L(k)
    BY <1>10, <1>13
  <2>2. CASE k = 1
    BY <1>8, <2>1, <2>2
  <2>3. CASE k # 1
    <3>1. k - 1 \in DOMAIN weights /\ ~ (k <= k - 1)
      BY <1>1, <1>12, <2>3
    <3>2. k - 1 \notin past
      <4> HIDE DEF past
      <4> QED
        BY <1>10, <1>13, <3>1
    <3>3. ~ (x < L(k - 1))
      BY <3>1, <3>2
    <3>4. L(k - 1) \in Nat
      BY <1>6, <1>12
    <3> QED
      BY <1>8, <2>1, <3>3, <3>4
  <2> QED
    BY <2>2, <2>3
<1>14. ASSUME L(k - 1) <= x, x < L(k)
       PROVE  Min(past) = k
  <2> DEFINE m == Min(past)
  <2>1. k \in past
    BY <1>14
  <2>2. m <= k /\ m \in past
    <3> HIDE DEF past
    <3> QED
      BY <1>10, <2>1
  <2>3. m \in DOMAIN weights /\ x < L(m)
    <3> HIDE DEF m
    <3> QED
      BY <2>2
  <2> HIDE DEF m
  <2>4. m \in 0 .. n /\ m \in Nat
    BY <1>1, <2>3
  <2>5. ~ (m <= k - 1)
    <3> SUFFICES ASSUME m <= k - 1 PROVE FALSE
      OBVIOUS
    <3>1. L(m) <= L(k - 1) /\ L(m) \in Nat /\ L(k - 1) \in Nat
      BY <1>6, <1>7, <1>12, <2>4
    <3> QED
      BY <1>8, <1>14, <2>3, <3>1
  <2>6. m = k
    BY <1>12, <2>2, <2>4, <2>5
  <2> QED
    BY <2>6 DEF m
<1> HIDE DEF past
<1> QED
  BY <1>11, <1>13, <1>14 DEF n, W, x, L, total

(* The first of the multiples of a number to reach another. *)
LEMMA FirstMultiple ==
  ASSUME NEW x \in Nat, NEW t \in Positive
  PROVE  \E c \in Nat : /\ x <= c * t /\ c * t < x + t
                        /\ \A p \in Nat : p < c <=> p * t < x
<1> DEFINE c == (x + t - 1) \div t
<1>1. t \in Nat /\ t > 0
  BY DEF Positive
<1>2. c \in Int /\ t * c <= x + t - 1 /\ x + t - 1 < t * c + t
  <2>1. x + t - 1 \in Int
    BY <1>1
  <2> QED
    BY <2>1, Division
<1> HIDE DEF c
<1>3. t * c \in Int /\ t * c = c * t
  BY <1>1, <1>2
<1>4. x <= c * t /\ c * t < x + t
  BY <1>1, <1>2, <1>3
<1>5. c \in Nat
  <2>1. SUFFICES ASSUME c < 0 PROVE FALSE
    BY <1>2
  <2>2. c * t <= (-1) * t
    BY <1>1, <1>2, <2>1, Scale
  <2>3. (-1) * t = 0 - t
    BY <1>1
  <2> QED
    BY <1>1, <1>3, <1>4, <2>2, <2>3
<1>6. ASSUME NEW p \in Nat
      PROVE  p < c <=> p * t < x
  <2>1. p * t \in Int
    BY <1>1
  <2>2. CASE p < c
    <3>1. p <= c - 1
      BY <1>2, <2>2
    <3>2. p * t <= (c - 1) * t
      <4> DEFINE b == c - 1
      <4>1. b \in Int /\ p <= b
        BY <1>2, <3>1
      <4> HIDE DEF b
      <4>2. p * t <= b * t
        BY <1>1, <4>1, Scale
      <4> QED
        BY <4>2 DEF b
    <3>3. (c - 1) * t = c * t - t
      BY <1>1, <1>2
    <3> QED
      BY <1>1, <1>3, <1>4, <2>1, <2>2, <3>2, <3>3
  <2>3. CASE ~ (p < c)
    <3>1. c * t <= p * t
      BY <1>1, <1>2, <2>3, Scale
    <3> QED
      BY <1>1, <1>3, <1>4, <2>1, <2>3, <3>1
  <2> QED
    BY <2>2, <2>3
<1> QED
  BY <1>4, <1>5, <1>6

(* The multiples of t between two bounds, counted in units of t, are as    *)
(* many as fit between them, but for less than one.                        *)
LEMMA MultiplesBetween ==
  ASSUME NEW a \in Nat, NEW b \in Nat, a <= b, NEW t \in Positive, NEW r \in Nat, b <= r * t
  PROVE  LET n == Cardinality({p \in 0 .. r - 1 : a <= p * t /\ p * t < b})
         IN  n * t < b - a + t /\ n * t > b - a - t
<1>1. t \in Nat /\ t > 0
  BY DEF Positive
<1>2. PICK i \in Nat : /\ a <= i * t /\ i * t < a + t
                       /\ \A p \in Nat : p < i <=> p * t < a
  BY FirstMultiple
<1>3. PICK j \in Nat : /\ b <= j * t /\ j * t < b + t
                       /\ \A p \in Nat : p < j <=> p * t < b
  BY FirstMultiple
<1>4. i * t \in Int /\ j * t \in Int /\ r * t \in Int
  BY <1>1
<1>5. j <= r
  <2>1. ~ (r * t < b)
    BY <1>4
  <2>2. ~ (r < j)
    BY <1>3, <2>1
  <2> QED
    BY <2>2
<1>6. i <= j
  <2>1. ~ (j * t < b)
    BY <1>3, <1>4
  <2>2. ~ (j * t < a)
    BY <1>3, <1>4
  <2>3. ~ (j < i)
    BY <1>2, <2>2
  <2> QED
    BY <2>3
<1>7. {p \in 0 .. r - 1 : a <= p * t /\ p * t < b} = i .. j - 1
  <2>1. ASSUME NEW p \in Nat
        PROVE  a <= p * t <=> ~ (p < i)
    <3>1. p * t \in Int
      BY <1>1
    <3> QED
      BY <1>2, <3>1
  <2>2. ASSUME NEW p \in Nat
        PROVE  p * t < b <=> p < j
    BY <1>3
  <2> QED
    BY <1>5, <2>1, <2>2
<1>8. Cardinality(i .. j - 1) = j - i
  <2>1. Cardinality(i .. j - 1) = IF i > j - 1 THEN 0 ELSE (j - 1) - i + 1
    BY FS_Interval
  <2> QED
    BY <1>6, <2>1
<1>9. (j - i) * t = j * t - i * t
  BY <1>1
<1>10. j * t - i * t < b - a + t /\ j * t - i * t > b - a - t
  <2> DEFINE u == i * t
             v == j * t
  <2>1. u \in Int /\ v \in Int /\ a <= u /\ u < a + t /\ b <= v /\ v < b + t
    BY <1>2, <1>3, <1>4
  <2> HIDE DEF u, v
  <2>2. v - u < b - a + t /\ v - u > b - a - t
    BY <1>1, <2>1
  <2> QED
    BY <2>2 DEF u, v
<1> QED
  BY <1>7, <1>8, <1>9, <1>10

(* However its weights are read, a package is evaluated with each of its   *)
(* profiles as often as the weight says.                                   *)
LEMMA WeightsAlwaysKept ==
  ASSUME NEW weights \in Seq(Nat), Points \in Nat \ {0}
  PROVE  WeightsAreKept(weights)
<1> DEFINE total == Weight(weights, Len(weights))
           Drawing(k) == Cardinality({p \in 0 .. Points - 1 : select_profile(weights, p) = k})
           A(k) == Weight(weights, k - 1) * Points
           B(k) == Weight(weights, k) * Points
<1>1. SUFFICES ASSUME total > 0, NEW k \in DOMAIN weights
               PROVE  /\ Drawing(k) * total < weights[k] * Points + total
                      /\ Drawing(k) * total > weights[k] * Points - total
  BY DEF WeightsAreKept
<1>2. /\ Len(weights) \in Nat /\ k \in 1 .. Len(weights) /\ k \in 0 .. Len(weights)
      /\ k - 1 \in 0 .. Len(weights) /\ Len(weights) \in 0 .. Len(weights)
      /\ weights[k] \in Nat
  OBVIOUS
<1>3. /\ Weight(weights, k - 1) \in Nat /\ Weight(weights, k) \in Nat /\ total \in Nat
      /\ Weight(weights, k) = Weight(weights, k - 1) + weights[k]
      /\ Weight(weights, k) <= total
  BY <1>2, WeightGrows
<1>4. {p \in 0 .. Points - 1 : select_profile(weights, p) = k}
        = {p \in 0 .. Points - 1 : A(k) <= p * total /\ p * total < B(k)}
  BY <1>1, ProfileDrawn
<1> HIDE DEF total
<1>5. A(k) \in Nat /\ B(k) \in Nat /\ A(k) <= B(k) /\ B(k) = A(k) + weights[k] * Points
      /\ weights[k] * Points \in Nat
  <2> DEFINE a == Weight(weights, k - 1)
             w == weights[k]
             b == Weight(weights, k)
  <2>1. a \in Nat /\ w \in Nat /\ b = a + w /\ Points \in Nat
    BY <1>2, <1>3
  <2> HIDE DEF a, w, b
  <2>2. a * Points \in Nat /\ w * Points \in Nat /\ b * Points = a * Points + w * Points
    BY <2>1
  <2> QED
    BY <2>2 DEF a, w, b
<1>6. B(k) <= Points * total
  <2> DEFINE b == Weight(weights, k)
  <2>1. b \in Nat /\ b <= total /\ total \in Nat /\ Points \in Nat
    BY <1>3
  <2> HIDE DEF b
  <2>2. b * Points <= total * Points
    BY <2>1, Scale
  <2>3. total * Points = Points * total
    BY <2>1
  <2> QED
    BY <2>2, <2>3 DEF b
<1>7. total \in Positive
  BY <1>1, <1>3 DEF Positive
<1> HIDE DEF A, B
<1>8. Drawing(k) * total < B(k) - A(k) + total /\ Drawing(k) * total > B(k) - A(k) - total
  BY <1>4, <1>5, <1>6, <1>7, MultiplesBetween
<1> HIDE DEF Drawing
<1>9. B(k) - A(k) = weights[k] * Points
  BY <1>5
<1> QED
  BY <1>8, <1>9 DEF total, Drawing

-----------------------------------------------------------------------------
(***************************************************************************)
(* Plans.                                                                  *)
(***************************************************************************)

(* The corpus is the packages of its roots, in order. *)
FlattenRule(g, roots) ==
  g = [i \in 1 .. Len(roots) |-> IF i = 1 THEN roots[i] ELSE g[i - 1] \o roots[i]]

LEMMA FlattenUnfolds ==
  ASSUME NEW roots
  PROVE  FlattenSeq(roots) = IF Len(roots) = 0 THEN roots
                             ELSE (CHOOSE g : FlattenRule(g, roots))[Len(roots)]
  BY DEF FlattenSeq, FlattenRule

LEMMA FlattenType ==
  ASSUME NEW T, NEW roots \in Seq(Seq(T))
  PROVE  FlattenSeq(roots) \in Seq(T)
<1> DEFINE n == Len(roots)
           V == Seq(T)
           step == [q \in (1 .. n) \X V |-> IF q[1] = 1 THEN roots[q[1]] ELSE q[2] \o roots[q[1]]]
<1>1. n \in Nat /\ \A i \in 1 .. n : roots[i] \in V
  OBVIOUS
<1>2. CASE n = 0
  <2>1. roots = <<>>
    BY <1>2
  <2>2. FlattenSeq(roots) = <<>>
    BY <1>2, <2>1, FlattenUnfolds
  <2>3. <<>> \in Seq(T)
    OBVIOUS
  <2> QED
    BY <2>2, <2>3
<1>3. CASE n # 0
  <2>1. <<>> \in V
    OBVIOUS
  <2>2. step \in [(1 .. n) \X V -> V]
    <3> HIDE DEF n
    <3>1. ASSUME NEW i \in 1 .. n, NEW s \in V
          PROVE  (IF i = 1 THEN roots[i] ELSE s \o roots[i]) \in V
      BY <1>1
    <3> HIDE DEF V
    <3> QED
      BY <3>1
  <2>3. PICK F \in [0 .. n -> V] : IsLoop(F, n, <<>>, step)
    <3> HIDE DEF step, V, n
    <3> QED
      BY <1>1, <2>1, <2>2, LoopExists
  <2> DEFINE G == [i \in 1 .. n |-> F[i]]
             g == CHOOSE g : FlattenRule(g, roots)
  <2>4. ASSUME NEW i \in 1 .. n
        PROVE  F[i] = IF i = 1 THEN roots[i] ELSE F[i - 1] \o roots[i]
    <3> HIDE DEF n, V
    <3>1. F[i] = step[<<i, F[i - 1]>>] /\ F[i - 1] \in V
      <4> HIDE DEF step
      <4> QED
        BY <1>1, <2>3 DEF IsLoop
    <3> QED
      BY <3>1
  <2>5. FlattenRule(G, roots)
    <3>1. ASSUME NEW i \in 1 .. n
          PROVE  F[i] = IF i = 1 THEN roots[i] ELSE G[i - 1] \o roots[i]
      <4>1. i # 1 => G[i - 1] = F[i - 1]
        BY <1>1
      <4> HIDE DEF G, n
      <4> QED
        BY <2>4, <4>1
    <3> QED
      BY <3>1 DEF FlattenRule
  <2>6. FlattenRule(g, roots)
    <3> HIDE DEF G
    <3> QED
      BY <2>5
  <2> HIDE DEF g, G
  <2>7. \A i \in 1 .. n : g[i] = IF i = 1 THEN roots[i] ELSE g[i - 1] \o roots[i]
    BY <2>6 DEF FlattenRule
  <2> DEFINE Good == {i \in 0 .. n : i = 0 \/ g[i] \in V}
  <2>8. ASSUME NEW i \in 1 .. n, i - 1 \in Good
        PROVE  i \in Good
    <3>1. i = 1 => g[i] \in V
      BY <1>1, <2>7
    <3>2. i # 1 => g[i] \in V
      <4> HAVE i # 1
      <4>1. g[i - 1] \in V
        BY <1>1, <2>8
      <4>2. g[i] = g[i - 1] \o roots[i]
        BY <2>7
      <4>3. roots[i] \in V
        BY <1>1
      <4> QED
        BY <4>1, <4>2, <4>3
    <3> QED
      BY <1>1, <3>1, <3>2
  <2>9. \A i \in 0 .. n : i \in Good
    <3>1. 0 \in Good
      BY <1>1
    <3>2. \A i \in 1 .. n : i - 1 \in Good => i \in Good
      BY <2>8
    <3> HIDE DEF Good, n
    <3> QED
      BY <1>1, <3>1, <3>2, CountingUp
  <2>10. g[n] \in V
    BY <1>1, <1>3, <2>9
  <2> QED
    BY <1>3, <2>10, FlattenUnfolds DEF g
<1> QED
  BY <1>2, <1>3

(* What load accepts is every package of the roots, under different ids.   *)
LEMMA LoadAccepts ==
  ASSUME NEW roots \in Seq(Seq(Packages)), ~ load(roots).refused
  PROVE  Loaded(load(roots).packages)
<1> DEFINE all == FlattenSeq(roots)
<1>1. all \in Seq(Packages)
  BY FlattenType
<1>2. Refused.refused
  BY DEF Refused
<1>3. ~ (Cardinality(Ids(all)) < Len(all)) /\ load(roots).packages = all
  BY <1>2 DEF load
<1> HIDE DEF all
<1> QED
  BY <1>1, <1>3, IdsDiffer

(* A corpus without the packages a round needs. *)
NoRound(packages) ==
  Pool(packages, FALSE) = <<>> \/ (HiddenCount > 0 /\ Pool(packages, TRUE) = <<>>)

(* The tasks of the two sides of a corpus. *)
Round(packages, entropy) ==
  [refused |-> FALSE,
   public |-> Tasked(Pool(packages, FALSE), PublicCount, entropy.public, entropy.profile),
   hidden |-> Tasked(Pool(packages, TRUE), HiddenCount, entropy.hidden, entropy.profile)]

LEMMA RoundOfCorpus ==
  ASSUME NEW roots, NEW entropy
  PROVE  LET packages == load(roots).packages
         IN  derive_round(roots, entropy)
               = IF load(roots).refused \/ NoRound(packages) THEN Refused
                 ELSE Round(packages, entropy)
BY DEF derive_round, NoRound, Round

LEMMA RoundParts ==
  ASSUME NEW packages, NEW entropy
  PROVE  /\ Round(packages, entropy).public
              = Tasked(Pool(packages, FALSE), PublicCount, entropy.public, entropy.profile)
         /\ Round(packages, entropy).hidden
              = Tasked(Pool(packages, TRUE), HiddenCount, entropy.hidden, entropy.profile)
BY DEF Round

(* A round is refused for its corpus, whatever its entropy. *)
LEMMA RoundAccepted ==
  ASSUME NEW roots, NEW entropy, ~ derive_round(roots, entropy).refused
  PROVE  /\ ~ load(roots).refused
         /\ \A e : LET other == derive_round(roots, e)
                       packages == load(roots).packages
                   IN  /\ other.public
                            = Tasked(Pool(packages, FALSE), PublicCount, e.public, e.profile)
                       /\ other.hidden
                            = Tasked(Pool(packages, TRUE), HiddenCount, e.hidden, e.profile)
<1> DEFINE packages == load(roots).packages
<1>1. ~ (load(roots).refused \/ NoRound(packages))
  <2>1. SUFFICES ASSUME load(roots).refused \/ NoRound(packages) PROVE FALSE
    OBVIOUS
  <2>2. derive_round(roots, entropy) = Refused
    BY <2>1, RoundOfCorpus
  <2>3. Refused.refused = TRUE
    BY DEF Refused
  <2> QED
    BY <2>2, <2>3
<1>2. ASSUME NEW e
      PROVE  derive_round(roots, e) = Round(packages, e)
  BY <1>1, RoundOfCorpus
<1>3. ASSUME NEW e
      PROVE  LET other == derive_round(roots, e)
             IN  /\ other.public
                      = Tasked(Pool(packages, FALSE), PublicCount, e.public, e.profile)
                 /\ other.hidden
                      = Tasked(Pool(packages, TRUE), HiddenCount, e.hidden, e.profile)
  <2>1. derive_round(roots, e) = Round(packages, e)
    BY <1>2
  <2> HIDE DEF packages
  <2> QED
    BY <2>1, RoundParts
<1> QED
  BY <1>1, <1>3

(* A draw is a number. *)
Draws(draws, count) == \A i \in 1 .. count : draws[i] \in Nat

NamesOf(s, k) == [i \in 1 .. k |-> s[i].id]

(* The tasks of a side are a sample of its pool. *)
LEMMA TasksAreASample ==
  ASSUME NEW packages, Loaded(packages), NEW hidden, NEW count \in Nat,
         NEW draws, Draws(draws, count), NEW profile_draw
  PROVE  LET sorted == Pool(packages, hidden)
             k == Smaller(count, Len(sorted))
             sample == sample_without_replacement(sorted, k, draws)
             tasks == Tasked(sorted, count, draws, profile_draw)
         IN  /\ k \in Nat
             /\ Shuffles(sorted, k, draws)
             /\ sample \in [1 .. k -> ToSet(sorted)] /\ Apart(sample)
             /\ DOMAIN tasks = 1 .. k
             /\ \A i \in 1 .. k : tasks[i].id = sample[i].id
             /\ Chosen(tasks) = NamesOf(sample, k)
<1> DEFINE sorted == Pool(packages, hidden)
           k == Smaller(count, Len(sorted))
           sample == sample_without_replacement(sorted, k, draws)
           tasks == Tasked(sorted, count, draws, profile_draw)
<1>1. Len(sorted) \in Nat /\ sorted \in Orders(sorted)
  BY PoolIs
<1> HIDE DEF sorted
<1>2. k \in 0 .. Len(sorted) /\ k \in 0 .. count /\ k \in Nat
  BY <1>1 DEF Smaller
<1> HIDE DEF k
<1>3. Shuffles(sorted, k, draws)
  BY <1>1, <1>2 DEF Shuffles, Draws
<1>4. sample \in [1 .. k -> ToSet(sorted)] /\ Apart(sample)
  BY <1>3, SampleIs
<1> HIDE DEF sample
<1>5. tasks = [i \in 1 .. k |->
                 [id |-> sample[i].id,
                  profile |-> select_profile(sample[i].weights, profile_draw[sample[i].id])]]
  BY <1>4 DEF Tasked, k, sample
<1> HIDE DEF tasks
<1>6. DOMAIN tasks = 1 .. k /\ \A i \in 1 .. k : tasks[i].id = sample[i].id
  BY <1>5
<1>7. Chosen(tasks) = NamesOf(sample, k)
  BY <1>6 DEF Chosen, NamesOf
<1> QED
  BY <1>2, <1>3, <1>4, <1>6, <1>7 DEF sorted, k, sample, tasks

LEMMA TasksDrawnOnce ==
  ASSUME NEW packages, Loaded(packages), NEW hidden, NEW count \in Nat,
         NEW draws, Draws(draws, count), NEW profile_draw
  PROVE  DrawnOnce(Tasked(Pool(packages, hidden), count, draws, profile_draw), packages, hidden)
<1> DEFINE sorted == Pool(packages, hidden)
           S == Side(packages, hidden)
           k == Smaller(count, Len(sorted))
           sample == sample_without_replacement(sorted, k, draws)
           tasks == Tasked(sorted, count, draws, profile_draw)
<1>1. /\ sample \in [1 .. k -> ToSet(sorted)] /\ Apart(sample)
      /\ DOMAIN tasks = 1 .. k
      /\ \A i \in 1 .. k : tasks[i].id = sample[i].id
      /\ Chosen(tasks) = NamesOf(sample, k)
  BY TasksAreASample
<1>2. /\ DOMAIN sorted = 1 .. Cardinality(S)
      /\ \A m \in 1 .. Cardinality(S) : /\ PlaceOf(packages, S, m) \in S
                                        /\ sorted[m] = packages[PlaceOf(packages, S, m)]
  BY PoolIs
<1> HIDE DEF sorted, S, k, sample, tasks
<1>3. IsInjective(Chosen(tasks))
  <2>1. \A a, b \in 1 .. k : sample[a].id = sample[b].id => a = b
    BY <1>1 DEF Apart
  <2> QED
    BY <1>1, <2>1 DEF IsInjective, NamesOf
<1>4. ASSUME NEW i \in DOMAIN tasks
      PROVE  \E j \in S : packages[j].id = tasks[i].id
  <2>1. sample[i] \in ToSet(sorted) /\ tasks[i].id = sample[i].id
    BY <1>1
  <2>2. PICK m \in DOMAIN sorted : sorted[m] = sample[i]
    BY <2>1 DEF ToSet
  <2> QED
    BY <1>2, <2>1, <2>2
<1> QED
  BY <1>3, <1>4 DEF DrawnOnce, tasks, sorted, S

LEMMA TasksTellTheDraws ==
  ASSUME NEW packages, Loaded(packages), NEW hidden, NEW count \in Nat,
         NEW d, Draws(d, count), NEW f, NEW e, Draws(e, count), NEW g,
         Chosen(Tasked(Pool(packages, hidden), count, d, f))
           = Chosen(Tasked(Pool(packages, hidden), count, e, g))
  PROVE  Remainders(Pool(packages, hidden), count, d)
           = Remainders(Pool(packages, hidden), count, e)
<1> DEFINE sorted == Pool(packages, hidden)
           k == Smaller(count, Len(sorted))
           mine == sample_without_replacement(sorted, k, d)
           theirs == sample_without_replacement(sorted, k, e)
<1>1. /\ Shuffles(sorted, k, d)
      /\ Chosen(Tasked(sorted, count, d, f)) = NamesOf(mine, k)
  BY TasksAreASample
<1>2. /\ Shuffles(sorted, k, e)
      /\ Chosen(Tasked(sorted, count, e, g)) = NamesOf(theirs, k)
  BY TasksAreASample
<1>3. \A j \in 1 .. k : mine[j].id = theirs[j].id
  <2>1. NamesOf(mine, k) = NamesOf(theirs, k)
    BY <1>1, <1>2
  <2>2. \A j \in 1 .. k : NamesOf(mine, k)[j] = mine[j].id /\ NamesOf(theirs, k)[j] = theirs[j].id
    BY DEF NamesOf
  <2> HIDE DEF mine, theirs, k
  <2> QED
    BY <2>1, <2>2
<1> HIDE DEF sorted, k
<1>4. \A j \in 1 .. k : d[j] % (Len(sorted) - j + 1) = e[j] % (Len(sorted) - j + 1)
  BY <1>1, <1>2, <1>3, SampleTells
<1> QED
  BY <1>4 DEF Remainders, sorted, k

(* A plan of Plans is made of packages and draws. *)
PlanIsTyped(plan) ==
  /\ plan.roots \in Seq(Seq(Packages))
  /\ Draws(plan.entropy.public, PublicCount)
  /\ Draws(plan.entropy.hidden, HiddenCount)

LEMMA SelectionIsAlwaysFair ==
  ASSUME NEW mine \in Plans, ~ derive_round(mine.roots, mine.entropy).refused
  PROVE  LET tasks == derive_round(mine.roots, mine.entropy)
             packages == load(mine.roots).packages
             public == Pool(packages, FALSE)
             hidden == Pool(packages, TRUE)
         IN  /\ DrawnOnce(tasks.public, packages, FALSE)
             /\ DrawnOnce(tasks.hidden, packages, TRUE)
             /\ \A plan \in Plans :
                  LET other == derive_round(plan.roots, plan.entropy)
                  IN  plan.roots = mine.roots =>
                        /\ Chosen(other.public) = Chosen(tasks.public) =>
                             Remainders(public, PublicCount, plan.entropy.public)
                               = Remainders(public, PublicCount, mine.entropy.public)
                        /\ Chosen(other.hidden) = Chosen(tasks.hidden) =>
                             Remainders(hidden, HiddenCount, plan.entropy.hidden)
                               = Remainders(hidden, HiddenCount, mine.entropy.hidden)
             /\ \A i \in DOMAIN packages : WeightsAreKept(packages[i].weights)
<1> DEFINE tasks == derive_round(mine.roots, mine.entropy)
           packages == load(mine.roots).packages
           public == Pool(packages, FALSE)
           hidden == Pool(packages, TRUE)
<1>1. PublicCount \in Nat /\ HiddenCount \in Nat /\ Points \in Nat \ {0}
  BY CountsAssumption
<1>2. \A plan \in Plans : PlanIsTyped(plan)
  BY PlansAssumption DEF PlanIsTyped, Draws
<1>3. Loaded(packages)
  BY <1>2, LoadAccepts, RoundAccepted DEF PlanIsTyped
<1>4. ASSUME NEW plan \in Plans, plan.roots = mine.roots
      PROVE  LET other == derive_round(plan.roots, plan.entropy)
             IN  /\ other.public = Tasked(public, PublicCount, plan.entropy.public, plan.entropy.profile)
                 /\ other.hidden = Tasked(hidden, HiddenCount, plan.entropy.hidden, plan.entropy.profile)
  <2>1. \A e : LET other == derive_round(mine.roots, e)
                IN  /\ other.public = Tasked(public, PublicCount, e.public, e.profile)
                    /\ other.hidden = Tasked(hidden, HiddenCount, e.hidden, e.profile)
    BY RoundAccepted
  <2> QED
    BY <1>4, <2>1
<1>5. /\ tasks.public = Tasked(public, PublicCount, mine.entropy.public, mine.entropy.profile)
      /\ tasks.hidden = Tasked(hidden, HiddenCount, mine.entropy.hidden, mine.entropy.profile)
  BY <1>4
<1>6. DrawnOnce(tasks.public, packages, FALSE)
  <2> HIDE DEF tasks, packages
  <2> QED
    BY <1>1, <1>2, <1>3, <1>5, TasksDrawnOnce DEF PlanIsTyped
<1>7. DrawnOnce(tasks.hidden, packages, TRUE)
  <2> HIDE DEF tasks, packages
  <2> QED
    BY <1>1, <1>2, <1>3, <1>5, TasksDrawnOnce DEF PlanIsTyped
<1>8. ASSUME NEW plan \in Plans, plan.roots = mine.roots
      PROVE  LET other == derive_round(plan.roots, plan.entropy)
             IN  /\ Chosen(other.public) = Chosen(tasks.public) =>
                      Remainders(public, PublicCount, plan.entropy.public)
                        = Remainders(public, PublicCount, mine.entropy.public)
                 /\ Chosen(other.hidden) = Chosen(tasks.hidden) =>
                      Remainders(hidden, HiddenCount, plan.entropy.hidden)
                        = Remainders(hidden, HiddenCount, mine.entropy.hidden)
  <2> DEFINE other == derive_round(plan.roots, plan.entropy)
  <2>1. /\ other.public = Tasked(public, PublicCount, plan.entropy.public, plan.entropy.profile)
        /\ other.hidden = Tasked(hidden, HiddenCount, plan.entropy.hidden, plan.entropy.profile)
    BY <1>4, <1>8
  <2>2. PlanIsTyped(plan) /\ PlanIsTyped(mine)
    BY <1>2
  <2> HIDE DEF other, tasks, packages
  <2>3. ASSUME Chosen(other.public) = Chosen(tasks.public)
        PROVE  Remainders(public, PublicCount, plan.entropy.public)
                 = Remainders(public, PublicCount, mine.entropy.public)
    <3>1. Chosen(Tasked(Pool(packages, FALSE), PublicCount, plan.entropy.public, plan.entropy.profile))
            = Chosen(Tasked(Pool(packages, FALSE), PublicCount, mine.entropy.public, mine.entropy.profile))
      BY <1>5, <2>1, <2>3
    <3>2. Draws(plan.entropy.public, PublicCount) /\ Draws(mine.entropy.public, PublicCount)
      BY <2>2 DEF PlanIsTyped
    <3> DEFINE d == plan.entropy.public
               e == mine.entropy.public
               f == plan.entropy.profile
               g == mine.entropy.profile
    <3> HIDE DEF d, e, f, g
    <3>3. Draws(d, PublicCount) /\ Draws(e, PublicCount)
      BY <3>2 DEF d, e
    <3> DEFINE side == FALSE
    <3>4. Chosen(Tasked(Pool(packages, side), PublicCount, d, f))
            = Chosen(Tasked(Pool(packages, side), PublicCount, e, g))
      BY <3>1 DEF d, e, f, g
    <3> HIDE DEF side
    <3>5. Remainders(Pool(packages, side), PublicCount, d) = Remainders(Pool(packages, side), PublicCount, e)
      BY <1>1, <1>3, <3>3, <3>4, TasksTellTheDraws
    <3> QED
      BY <3>5 DEF d, e, side
  <2>4. ASSUME Chosen(other.hidden) = Chosen(tasks.hidden)
        PROVE  Remainders(hidden, HiddenCount, plan.entropy.hidden)
                 = Remainders(hidden, HiddenCount, mine.entropy.hidden)
    <3>1. Chosen(Tasked(Pool(packages, TRUE), HiddenCount, plan.entropy.hidden, plan.entropy.profile))
            = Chosen(Tasked(Pool(packages, TRUE), HiddenCount, mine.entropy.hidden, mine.entropy.profile))
      BY <1>5, <2>1, <2>4
    <3>2. Draws(plan.entropy.hidden, HiddenCount) /\ Draws(mine.entropy.hidden, HiddenCount)
      BY <2>2 DEF PlanIsTyped
    <3> DEFINE d == plan.entropy.hidden
               e == mine.entropy.hidden
               f == plan.entropy.profile
               g == mine.entropy.profile
    <3> HIDE DEF d, e, f, g
    <3>3. Draws(d, HiddenCount) /\ Draws(e, HiddenCount)
      BY <3>2 DEF d, e
    <3> DEFINE side == TRUE
    <3>4. Chosen(Tasked(Pool(packages, side), HiddenCount, d, f))
            = Chosen(Tasked(Pool(packages, side), HiddenCount, e, g))
      BY <3>1 DEF d, e, f, g
    <3> HIDE DEF side
    <3>5. Remainders(Pool(packages, side), HiddenCount, d) = Remainders(Pool(packages, side), HiddenCount, e)
      BY <1>1, <1>3, <3>3, <3>4, TasksTellTheDraws
    <3> QED
      BY <3>5 DEF d, e, side
  <2> QED
    BY <2>3, <2>4 DEF other
<1>9. ASSUME NEW i \in DOMAIN packages
      PROVE  WeightsAreKept(packages[i].weights)
  <2>1. packages[i] \in Packages
    BY <1>3, LoadedIds
  <2>2. packages[i].weights \in Seq(Nat)
    BY <2>1 DEF Packages
  <2> QED
    BY <1>1, <2>2, WeightsAlwaysKept
<1> HIDE DEF tasks, packages, public, hidden
<1> QED
  BY <1>6, <1>7, <1>8, <1>9 DEF tasks, packages, public, hidden

(* Corpora of the same packages derive the same tasks. *)
LEMMA SamePackagesSameTasks ==
  ASSUME NEW mine \in Seq(Seq(Packages)), NEW theirs \in Seq(Seq(Packages)), NEW entropy,
         ~ load(mine).refused, ~ load(theirs).refused,
         ToSet(load(theirs).packages) = ToSet(load(mine).packages)
  PROVE  derive_round(theirs, entropy) = derive_round(mine, entropy)
<1>1. Loaded(load(mine).packages) /\ Loaded(load(theirs).packages)
  BY LoadAccepts
<1>2. /\ Pool(load(theirs).packages, FALSE) = Pool(load(mine).packages, FALSE)
      /\ Pool(load(theirs).packages, TRUE) = Pool(load(mine).packages, TRUE)
  BY <1>1, PoolsAgree
<1>3. NoRound(load(theirs).packages) = NoRound(load(mine).packages)
  BY <1>2 DEF NoRound
<1>4. Round(load(theirs).packages, entropy) = Round(load(mine).packages, entropy)
  BY <1>2 DEF Round
<1> QED
  BY <1>3, <1>4, RoundOfCorpus

-----------------------------------------------------------------------------
(***************************************************************************)
(* Calls.                                                                  *)
(***************************************************************************)

Computations == {"plan", "vectors", "reading", "score", "verdict"}

(* The inputs of a computation. *)
InputsOf(computation) ==
  CASE computation = "plan" -> Plans
    [] computation = "vectors" -> Rounds
    [] computation = "reading" -> Readings
    [] computation = "score" -> Measurements
    [] computation = "verdict" -> Comparisons

(* A call stays what it was, and its answer is what its computation gives. *)
Returned ==
  /\ call.of \in Computations
  /\ call.input \in InputsOf(call.of)
  /\ Answered("plan") => answer = derive_round(call.input.roots, call.input.entropy)
  /\ Answered("vectors") => answer = Allocation(call.input)
  /\ Answered("reading") =>
       answer = measure([p \in DOMAIN call.input.works |->
                           Written(call.input.works[p], call.input.version)])
  /\ Answered("score") => answer = Score(call.input)
  /\ Answered("verdict") =>
       answer = Divergences(call.input.b, call.input.c, call.input.contract)

(* A call is answered once, with what its computation returns. *)
LEMMA SpecReturned == Spec => []Returned
<1>1. Init => Returned
  BY DEF Init, Returned, Computations, InputsOf, Answered
<1>2. Returned /\ [Next]_vars => Returned'
  <2> SUFFICES ASSUME Returned, [Next]_vars
               PROVE  Returned'
    OBVIOUS
  <2>1. CASE DeriveRound
    BY <2>1 DEF DeriveRound, Called, Return, Returned, Answered
  <2>2. CASE Allocate
    BY <2>2 DEF Allocate, Called, Return, Returned, Answered
  <2>3. CASE ReadCounters
    BY <2>3 DEF ReadCounters, Called, Return, Returned, Answered
  <2>4. CASE ScoreTask
    BY <2>4 DEF ScoreTask, Called, Return, Returned, Answered
  <2>5. CASE Compare
    BY <2>5 DEF Compare, Called, Return, Returned, Answered
  <2>6. CASE UNCHANGED vars
    BY <2>6 DEF vars, Returned, Answered
  <2> QED
    BY <2>1, <2>2, <2>3, <2>4, <2>5, <2>6 DEF Next
<1> QED
  BY <1>1, <1>2, PTL DEF Spec

(* Executions that are accepted agree in every declared side effect, and   *)
(* in what the discipline judges: their numbers within the budget of the   *)
(* contract, in percent of the baseline's or in steps of representable     *)
(* doubles (the integers _ulp_distance compares leave a gap between the    *)
(* signs that no budget bridges), all else exactly, but for the order of   *)
(* transitions left open.  Of a round trip it says that each side recovers *)
(* its own input.  Without a relative budget they would be accepted with   *)
(* the sides swapped.                                                      *)
THEOREM AcceptanceCanBeTrusted == Spec => []AcceptanceIsBacked
<1>1. Returned => AcceptanceIsBacked
  <2>1. SUFFICES ASSUME Returned, Answered("verdict"), answer = {}
                 PROVE  AcceptanceHolds(call.input.b, call.input.c, call.input.contract)
    BY DEF AcceptanceIsBacked
  <2>2. /\ call.input \in Comparisons
        /\ Divergences(call.input.b, call.input.c, call.input.contract) = {}
    BY <2>1 DEF Returned, InputsOf, Answered
  <2> QED
    BY <2>2, AcceptanceAlwaysHolds
<1> QED
  BY <1>1, SpecReturned, PTL

(* What Rounds assumes is needed of the answer only: Returned says of      *)
(* which round it is.                                                      *)
LEMMA VectorsAreAllocated ==
  ASSUME Returned, Answered("vectors")
  PROVE  call.input \in Rounds /\ answer = Allocation(call.input)
BY DEF Returned, InputsOf, Answered

(* Of the packages of a side, no draws are better than others: different   *)
(* remainders draw different packages, or the same in another order, and   *)
(* none is drawn twice, however many there are; and a profile is drawn by  *)
(* its weight of the points, but for less than one.                        *)
THEOREM TasksAreDrawnFairly == Spec => []SelectionIsFair
<1>1. Returned => SelectionIsFair
  <2>1. SUFFICES ASSUME Returned, Answered("plan"), ~ answer.refused
                 PROVE  SelectionIsFair
    BY DEF SelectionIsFair
  <2>2. /\ call.input \in Plans
        /\ answer = derive_round(call.input.roots, call.input.entropy)
    BY <2>1 DEF Returned, InputsOf, Answered
  <2> QED
    BY <2>1, <2>2, SelectionIsAlwaysFair DEF SelectionIsFair
<1> QED
  BY <1>1, SpecReturned, PTL

(* The place of a package among the sorted ones of its side depends on how *)
(* many ids are smaller, so validators with the same packages derive the   *)
(* same tasks however their corpora are split over roots and listed.       *)
THEOREM PlansAgree == Spec => []PlanIgnoresLoadOrder
<1>1. Returned => PlanIgnoresLoadOrder
  <2>1. SUFFICES ASSUME Returned, Answered("plan"), ~ answer.refused,
                        NEW plan \in Plans, plan.entropy = call.input.entropy,
                        ~ load(plan.roots).refused,
                        ToSet(load(plan.roots).packages) = ToSet(load(call.input.roots).packages)
                 PROVE  derive_round(plan.roots, plan.entropy) = answer
    BY DEF PlanIgnoresLoadOrder
  <2>2. /\ call.input \in Plans
        /\ answer = derive_round(call.input.roots, call.input.entropy)
    BY <2>1 DEF Returned, InputsOf, Answered
  <2>3. ~ load(call.input.roots).refused
    BY <2>1, <2>2, RoundAccepted
  <2>4. plan.roots \in Seq(Seq(Packages)) /\ call.input.roots \in Seq(Seq(Packages))
    BY <2>2, PlansAssumption
  <2> QED
    BY <2>1, <2>2, <2>3, <2>4, SamePackagesSameTasks
<1> QED
  BY <1>1, SpecReturned, PTL

(* Emission is never withheld from a round with verified work: the values  *)
(* of a split add up to more than 0 as soon as one artifact has some.      *)
THEOREM WorkIsAlwaysPaid == Spec => []NothingIsWithheld
<1>1. Returned => NothingIsWithheld
  BY VectorsAreAllocated, AllocatesAllAlways DEF NothingIsWithheld
<1> QED
  BY <1>1, SpecReturned, PTL

(* The share a stagnant champion loses goes to others, if there are any,   *)
(* at every step of decay_multiplier and for every split of the pool.      *)
THEOREM StagnationAlwaysCosts == Spec => []StagnationIsNotRewarded
<1>1. Returned => StagnationIsNotRewarded
  BY VectorsAreAllocated, DecayBitesAlways DEF StagnationIsNotRewarded
<1> QED
  BY <1>1, SpecReturned, PTL

(* The pool orders the survivors of the screen by their held-out score and *)
(* pays nobody who did not survive it.                                     *)
THEOREM PoolPaysWhatGeneralises == Spec => []SurvivorsEarnByHeldOut
<1>1. Returned => SurvivorsEarnByHeldOut
  BY VectorsAreAllocated, PoolFollowsHeldOutAlways DEF SurvivorsEarnByHeldOut
<1> QED
  BY <1>1, SpecReturned, PTL

(* A reading holds the work of every process of the benchmark, whichever   *)
(* of the two lines a version of valgrind writes it to.                    *)
THEOREM ReadingsAddUp == Spec => []ReadingIsTheWork
<1>1. Returned => ReadingIsTheWork
  <2>1. SUFFICES ASSUME Returned, Answered("reading")
                 PROVE  answer = AllWork(call.input.works)
    BY DEF ReadingIsTheWork
  <2>2. /\ call.input \in Readings
        /\ answer = measure([p \in DOMAIN call.input.works |->
                               Written(call.input.works[p], call.input.version)])
    BY <2>1 DEF Returned, InputsOf, Answered
  <2> QED
    BY <2>2, ReadingAlwaysAddsUp
<1> QED
  BY <1>1, SpecReturned, PTL

(* Uncertainty costs the miner and never the network: whatever the repeats *)
(* and whatever bound their bootstrap returns, a score is at most that of  *)
(* repeats equal to the median, no evidence is better missing, and nothing *)
(* passes the whole.                                                       *)
THEOREM UncertaintyIsCharged == Spec => []UncertaintyCostsTheMiner
<1>1. Returned => UncertaintyCostsTheMiner
  <2>1. SUFFICES ASSUME Returned, Answered("score")
                 PROVE  UncertaintyCosts(call.input, answer)
    BY DEF UncertaintyCostsTheMiner
  <2>2. call.input \in Measurements /\ answer = Score(call.input)
    BY <2>1 DEF Returned, InputsOf, Answered
  <2> QED
    BY <2>2, UncertaintyAlwaysCosts
<1> QED
  BY <1>1, SpecReturned, PTL

=============================================================================
