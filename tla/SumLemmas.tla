----------------------------- MODULE SumLemmas ------------------------------
(***************************************************************************)
(* Facts about SumFunctionOnSet(f, S), the sum of f[x] over the elements x *)
(* of a finite set S, on which the proofs about used_memory_bytes_ rest.   *)
(*                                                                         *)
(* The sum is defined through a recursive function on the subsets of S.    *)
(* That the recursion has a solution, and everything said about it, is     *)
(* proved by induction over the subsets of S in the form of SubsetInduction*)
(* whose induction hypothesis is a set.                                    *)
(***************************************************************************)
EXTENDS Integers, FiniteSets, Functions, FiniteSetTheorems, TLAPS

\* Induction over the subsets of a finite set: if a subset is good whenever
\* all its proper subsets are, then all subsets are good.
LEMMA SubsetInduction ==
  ASSUME NEW S, IsFiniteSet(S), NEW Good,
         \A T \in SUBSET S :
           (\A U \in SUBSET T : U # T => U \in Good) => T \in Good
  PROVE  \A T \in SUBSET S : T \in Good
<1> DEFINE Bad == {T \in SUBSET S : T \notin Good}
<1>1. SUFFICES ASSUME Bad # {} PROVE FALSE
  OBVIOUS
<1>2. IsWellFoundedOn(StrictSubsetOrdering(S), FiniteSubsetsOf(S))
  BY FS_StrictSubsetOrderingWellFounded
<1>3. Bad \subseteq FiniteSubsetsOf(S)
  BY FS_Subset DEF FiniteSubsetsOf
<1>4. PICK T \in Bad : \A U \in Bad : <<U, T>> \notin StrictSubsetOrdering(S)
  <2> HIDE DEF Bad
  <2> QED BY <1>1, <1>2, <1>3, WFMin
<1>5. ASSUME NEW U \in SUBSET T, U # T PROVE U \in Good
  <2>1. <<U, T>> \in StrictSubsetOrdering(S)
    BY <1>5 DEF StrictSubsetOrdering
  <2> QED BY <1>4, <2>1
<1> QED BY <1>5

-----------------------------------------------------------------------------
Pick(s) == CHOOSE x \in s : TRUE
Body(f, S, g) ==
  [s \in SUBSET S |-> IF s = {} THEN 0 ELSE f[Pick(s)] + g[s \ {Pick(s)}]]
Iter(f, S) == CHOOSE g : g = Body(f, S, g)

\* The community modules' sum is the value of Iter at the whole set.
LEMMA SumIsIter ==
  ASSUME NEW f, NEW S
  PROVE  SumFunctionOnSet(f, S) = Iter(f, S)[S]
BY DEF SumFunctionOnSet, FoldFunctionOnSet, MapThenFoldSet, Iter, Body, Pick

\* Two solutions of the recursion agree wherever both are defined.
LEMMA IterUnique ==
  ASSUME NEW f, NEW S, IsFiniteSet(S), NEW U \in SUBSET S, NEW V \in SUBSET S,
         NEW g, g = Body(f, U, g), NEW h, h = Body(f, V, h)
  PROVE  \A s \in SUBSET (U \cap V) : g[s] = h[s]
<1> DEFINE Good == {s \in SUBSET (U \cap V) : g[s] = h[s]}
<1>1. IsFiniteSet(U \cap V)
  BY FS_Subset
<1>2. ASSUME NEW T \in SUBSET (U \cap V),
             \A W \in SUBSET T : W # T => W \in Good
      PROVE  T \in Good
  <2>1. /\ g[T] = IF T = {} THEN 0 ELSE f[Pick(T)] + g[T \ {Pick(T)}]
        /\ h[T] = IF T = {} THEN 0 ELSE f[Pick(T)] + h[T \ {Pick(T)}]
    BY DEF Body
  <2>2. CASE T = {}
    BY <2>1, <2>2
  <2>3. CASE T # {}
    <3>1. Pick(T) \in T
      BY <2>3 DEF Pick
    <3>2. T \ {Pick(T)} \in Good
      BY <1>2, <3>1
    <3> QED BY <2>1, <3>2
  <2> QED BY <2>2, <2>3
<1>3. \A T \in SUBSET (U \cap V) : T \in Good
  <2> HIDE DEF Good
  <2> QED BY <1>1, <1>2, SubsetInduction
<1> QED BY <1>3

\* The recursion has a solution on every finite set.
LEMMA IterExists ==
  ASSUME NEW f, NEW S, IsFiniteSet(S)
  PROVE  \A T \in SUBSET S : Iter(f, T) = Body(f, T, Iter(f, T))
<1> DEFINE Good == {T \in SUBSET S : \E g : g = Body(f, T, g)}
<1>1. ASSUME NEW T \in SUBSET S, \A U \in SUBSET T : U # T => U \in Good
      PROVE  T \in Good
  <2> DEFINE h == [s \in SUBSET T |->
                     IF s = T
                     THEN IF T = {} THEN 0
                          ELSE f[Pick(T)] + Iter(f, T \ {Pick(T)})[T \ {Pick(T)}]
                     ELSE Iter(f, s)[s]]
  <2>1. ASSUME NEW U \in SUBSET T, U # T PROVE Iter(f, U) = Body(f, U, Iter(f, U))
    BY <1>1, <2>1 DEF Iter
  <2>2. ASSUME NEW s \in SUBSET T
        PROVE  h[s] = IF s = {} THEN 0 ELSE f[Pick(s)] + h[s \ {Pick(s)}]
    <3>1. CASE s = {}
      <4>1. CASE T = {}
        BY <3>1, <4>1
      <4>2. CASE T # {}
        <5>1. h[s] = Iter(f, s)[s]
          BY <3>1, <4>2
        <5>2. Iter(f, s)[s] = 0
          BY <2>1, <3>1, <4>2 DEF Body
        <5> QED BY <3>1, <5>1, <5>2
      <4> QED BY <4>1, <4>2
    <3>2. CASE s # {}
      <4> DEFINE r == s \ {Pick(s)}
      <4>1. Pick(s) \in s /\ r \in SUBSET T /\ r # T /\ r # s
        BY <3>2 DEF Pick
      <4>2. h[r] = Iter(f, r)[r]
        BY <4>1
      <4>3. CASE s = T
        BY <3>2, <4>2, <4>3
      <4>4. CASE s # T
        <5>1. h[s] = Iter(f, s)[s]
          BY <4>4
        <5>2. Iter(f, s)[s] = f[Pick(s)] + Iter(f, s)[r]
          BY <2>1, <3>2, <4>4 DEF Body
        <5>3. Iter(f, s)[r] = Iter(f, r)[r]
          <6>1. /\ Iter(f, s) = Body(f, s, Iter(f, s))
                /\ Iter(f, r) = Body(f, r, Iter(f, r))
            BY <2>1, <4>1, <4>4
          <6>2. s \in SUBSET S /\ r \in SUBSET S /\ r \in SUBSET (s \cap r)
            OBVIOUS
          <6> HIDE DEF r
          <6> QED BY <6>1, <6>2, IterUnique
        <5> QED BY <3>2, <4>2, <5>1, <5>2, <5>3
      <4> QED BY <4>3, <4>4
    <3> QED BY <3>1, <3>2
  <2>3. h = Body(f, T, h)
    <3>1. h = [s \in SUBSET T |-> h[s]]
      OBVIOUS
    <3> HIDE DEF h
    <3> QED BY <2>2, <3>1, Zenon DEF Body
  <2> HIDE DEF h
  <2> QED BY <2>3
<1>2. \A T \in SUBSET S : T \in Good
  <2> HIDE DEF Good
  <2> QED BY <1>1, SubsetInduction
<1> QED BY <1>2 DEF Iter

-----------------------------------------------------------------------------
\* The sum over the empty set, and the sum with the picked element split off.
LEMMA SumUnfold ==
  ASSUME NEW f, NEW S, IsFiniteSet(S)
  PROVE  SumFunctionOnSet(f, S) =
           IF S = {} THEN 0
           ELSE f[Pick(S)] + SumFunctionOnSet(f, S \ {Pick(S)})
<1> DEFINE R == S \ {Pick(S)}
<1>1. Iter(f, S) = Body(f, S, Iter(f, S)) /\ Iter(f, R) = Body(f, R, Iter(f, R))
  BY IterExists
<1>2. Iter(f, S)[S] = IF S = {} THEN 0 ELSE f[Pick(S)] + Iter(f, S)[R]
  BY <1>1 DEF Body
<1>3. Iter(f, S)[R] = Iter(f, R)[R]
  <2>1. S \in SUBSET S /\ R \in SUBSET S /\ R \in SUBSET (S \cap R)
    OBVIOUS
  <2> HIDE DEF R
  <2> QED BY <1>1, <2>1, IterUnique
<1> QED BY <1>2, <1>3, SumIsIter

\* The empty sum.
LEMMA SumEmpty == ASSUME NEW f PROVE SumFunctionOnSet(f, {}) = 0
BY SumUnfold, FS_EmptySet

\* A sum of natural numbers is one.
LEMMA SumType ==
  ASSUME NEW f, NEW S, IsFiniteSet(S), \A x \in S : f[x] \in Nat
  PROVE  \A T \in SUBSET S : SumFunctionOnSet(f, T) \in Nat
<1> DEFINE Good == {T \in SUBSET S : SumFunctionOnSet(f, T) \in Nat}
<1>1. ASSUME NEW T \in SUBSET S, \A U \in SUBSET T : U # T => U \in Good
      PROVE  T \in Good
  <2>1. IsFiniteSet(T)
    BY FS_Subset
  <2>2. CASE T = {}
    BY <2>2, SumEmpty
  <2>3. CASE T # {}
    <3>1. Pick(T) \in T
      BY <2>3 DEF Pick
    <3>2. SumFunctionOnSet(f, T \ {Pick(T)}) \in Nat
      BY <1>1, <3>1
    <3>3. SumFunctionOnSet(f, T) = f[Pick(T)] + SumFunctionOnSet(f, T \ {Pick(T)})
      BY <2>1, <2>3, SumUnfold
    <3> QED BY <3>1, <3>2, <3>3
  <2> QED BY <2>2, <2>3
<1> HIDE DEF Good
<1>2. \A T \in SUBSET S : T \in Good
  BY <1>1, SubsetInduction
<1> QED BY <1>2 DEF Good

\* Any element can be split off.
LEMMA SumRemove ==
  ASSUME NEW f, NEW S, IsFiniteSet(S), \A x \in S : f[x] \in Nat
  PROVE  \A T \in SUBSET S : \A x \in T :
           SumFunctionOnSet(f, T) = f[x] + SumFunctionOnSet(f, T \ {x})
<1> DEFINE Splits(T, x) == SumFunctionOnSet(f, T) = f[x] + SumFunctionOnSet(f, T \ {x})
           Good == {T \in SUBSET S : \A x \in T : Splits(T, x)}
<1>1. ASSUME NEW T \in SUBSET S, \A U \in SUBSET T : U # T => U \in Good
      PROVE  T \in Good
  <2>1. SUFFICES ASSUME NEW x \in T PROVE Splits(T, x)
    OBVIOUS
  <2> DEFINE p == Pick(T)
  <2>2. p \in T
    BY DEF Pick
  <2>3. Splits(T, p)
    BY FS_Subset, SumUnfold
  <2>4. CASE x = p
    BY <2>3, <2>4
  <2>5. CASE x # p
    <3>1. Splits(T \ {p}, x) /\ Splits(T \ {x}, p)
      BY <1>1, <2>2, <2>5
    <3>2. (T \ {p}) \ {x} = (T \ {x}) \ {p}
      OBVIOUS
    <3>3. /\ f[x] \in Nat /\ f[p] \in Nat
          /\ SumFunctionOnSet(f, (T \ {x}) \ {p}) \in Nat
      BY <2>2, SumType
    <3> QED BY <2>3, <3>1, <3>2, <3>3
  <2> QED BY <2>4, <2>5
<1>2. \A T \in SUBSET S : T \in Good
  <2> HIDE DEF Good
  <2> QED BY <1>1, SubsetInduction
<1> QED BY <1>2

\* The sum depends only on the values on the set.
LEMMA SumEqual ==
  ASSUME NEW f, NEW g, NEW S, IsFiniteSet(S), \A x \in S : f[x] = g[x]
  PROVE  SumFunctionOnSet(f, S) = SumFunctionOnSet(g, S)
<1> DEFINE Good == {T \in SUBSET S : SumFunctionOnSet(f, T) = SumFunctionOnSet(g, T)}
<1>1. ASSUME NEW T \in SUBSET S, \A U \in SUBSET T : U # T => U \in Good
      PROVE  T \in Good
  <2>1. IsFiniteSet(T)
    BY FS_Subset
  <2>2. CASE T = {}
    BY <2>2, SumEmpty
  <2>3. CASE T # {}
    <3>1. Pick(T) \in T
      BY <2>3 DEF Pick
    <3>2. SumFunctionOnSet(f, T \ {Pick(T)}) = SumFunctionOnSet(g, T \ {Pick(T)})
      BY <1>1, <3>1
    <3> QED BY <2>1, <2>3, <3>1, <3>2, SumUnfold
  <2> QED BY <2>2, <2>3
<1>2. \A T \in SUBSET S : T \in Good
  <2> HIDE DEF Good
  <2> QED BY <1>1, SubsetInduction
<1> QED BY <1>2

\* Changing the function at one element changes the sum by the difference.
LEMMA SumUpdate ==
  ASSUME NEW f, NEW g, NEW S, IsFiniteSet(S), NEW x \in S,
         \A y \in S : f[y] \in Nat /\ g[y] \in Nat,
         \A y \in S \ {x} : f[y] = g[y]
  PROVE  SumFunctionOnSet(g, S) = SumFunctionOnSet(f, S) - f[x] + g[x]
<1>1. /\ SumFunctionOnSet(f, S) = f[x] + SumFunctionOnSet(f, S \ {x})
      /\ SumFunctionOnSet(g, S) = g[x] + SumFunctionOnSet(g, S \ {x})
  BY SumRemove
<1>2. SumFunctionOnSet(f, S \ {x}) = SumFunctionOnSet(g, S \ {x})
  BY SumEqual, FS_Subset
<1>3. SumFunctionOnSet(f, S \ {x}) \in Nat
  BY SumType
<1> QED BY <1>1, <1>2, <1>3

\* Setting the function to zero on a subset takes that subset's sum away.
LEMMA SumClear ==
  ASSUME NEW f, NEW g, NEW S, IsFiniteSet(S), NEW K \in SUBSET S,
         \A y \in S : f[y] \in Nat,
         \A y \in S : g[y] = IF y \in K THEN 0 ELSE f[y]
  PROVE  SumFunctionOnSet(g, S) = SumFunctionOnSet(f, S) - SumFunctionOnSet(f, K)
<1> DEFINE h(T) == [y \in S |-> IF y \in T THEN 0 ELSE f[y]]
           Good == {T \in SUBSET K :
                      SumFunctionOnSet(h(T), S)
                        = SumFunctionOnSet(f, S) - SumFunctionOnSet(f, T)}
<1>1. IsFiniteSet(K)
  BY FS_Subset
<1>2. ASSUME NEW T \in SUBSET K, \A U \in SUBSET T : U # T => U \in Good
      PROVE  T \in Good
  <2>1. SumFunctionOnSet(f, S) \in Nat /\ SumFunctionOnSet(f, T) \in Nat
    BY SumType
  <2>2. CASE T = {}
    <3>1. SumFunctionOnSet(h(T), S) = SumFunctionOnSet(f, S)
      BY <2>2, SumEqual
    <3> QED BY <2>1, <2>2, <3>1, SumEmpty
  <2>3. CASE T # {}
    <3>1. PICK x \in T : TRUE
      BY <2>3
    <3> DEFINE U == T \ {x}
    <3>2. SumFunctionOnSet(h(U), S) = SumFunctionOnSet(f, S) - SumFunctionOnSet(f, U)
      BY <1>2
    <3>3. SumFunctionOnSet(h(T), S) = SumFunctionOnSet(h(U), S) - f[x] + 0
      <4>1. /\ \A y \in S : h(U)[y] \in Nat /\ h(T)[y] \in Nat
            /\ \A y \in S \ {x} : h(U)[y] = h(T)[y]
            /\ h(U)[x] = f[x] /\ h(T)[x] = 0 /\ x \in S
        OBVIOUS
      <4> HIDE DEF h, U
      <4> QED BY <4>1, SumUpdate
    <3>4. SumFunctionOnSet(f, T) = f[x] + SumFunctionOnSet(f, U)
      BY SumRemove
    <3>5. f[x] \in Nat /\ SumFunctionOnSet(f, U) \in Nat
      BY SumType
    <3> HIDE DEF h, U
    <3>6. SumFunctionOnSet(h(T), S) = SumFunctionOnSet(f, S) - SumFunctionOnSet(f, T)
      BY <2>1, <3>2, <3>3, <3>4, <3>5
    <3> QED BY <3>6
  <2> QED BY <2>2, <2>3
<1>3. \A T \in SUBSET K : T \in Good
  <2> HIDE DEF Good
  <2> QED BY <1>1, <1>2, SubsetInduction
<1>4. SumFunctionOnSet(h(K), S) = SumFunctionOnSet(f, S) - SumFunctionOnSet(f, K)
  BY <1>3
<1>5. SumFunctionOnSet(g, S) = SumFunctionOnSet(h(K), S)
  BY SumEqual
<1> QED BY <1>4, <1>5
=============================================================================
