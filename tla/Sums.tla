-------------------------------- MODULE Sums --------------------------------
(* What SumFunctionOnSet of the module Functions returns for a finite set: it  *)
(* adds with a recursive function, which is why the facts the proofs of the    *)
(* orders' sums need are shown by induction over the subsets of the set.       *)
EXTENDS FiniteSetTheorems, TLAPS

\* The element a sum takes next.
First(s) == CHOOSE x \in s : TRUE

\* g adds f over every subset of S.
Adds(g, f, S) ==
    g = [s \in SUBSET S |->
            IF s = {} THEN 0 ELSE f[First(s)] + g[s \ {First(s)}]]

\* The sum is read off a function that adds over every subset.
LEMMA SumUnfolds ==
    ASSUME NEW f, NEW S
    PROVE  SumFunctionOnSet(f, S) = (CHOOSE g : Adds(g, f, S))[S]
BY DEF SumFunctionOnSet, FoldFunctionOnSet, MapThenFoldSet, Adds, First

\* Of a family of subsets of a finite set, one has no member of the family one element smaller.
LEMMA SmallestSet ==
    ASSUME NEW D, IsFiniteSet(D), NEW Bad, Bad \subseteq SUBSET D, Bad # {}
    PROVE  \E T \in Bad : \A x \in T : T \ {x} \notin Bad
<1> DEFINE Rel == StrictSubsetOrdering(D)
<1>2. IsWellFoundedOn(Rel, SUBSET D)
  BY FS_StrictSubsetOrderingWellFounded, FS_FiniteSubsetsOfFinite
<1>3. \E T \in Bad : \A U \in Bad : ~(<<U, T>> \in Rel)
  <2> HIDE DEF Rel
  <2> QED BY <1>2, WFMin
<1>4. \A T \in Bad : \A x \in T : <<T \ {x}, T>> \in Rel
  BY DEF StrictSubsetOrdering
<1> QED BY <1>3, <1>4

\* Induction over the subsets of a finite set, stated with a set of those it holds for.
LEMMA SubsetInduction ==
    ASSUME NEW D, IsFiniteSet(D), NEW F,
           \A T \in SUBSET D : (\A x \in T : T \ {x} \in F) => T \in F
    PROVE  \A T \in SUBSET D : T \in F
<1> DEFINE Bad == {T \in SUBSET D : T \notin F}
<1> SUFFICES ASSUME Bad # {} PROVE FALSE
  OBVIOUS
<1>1. PICK T \in Bad : \A x \in T : T \ {x} \notin Bad
  <2>1. Bad \subseteq SUBSET D
    OBVIOUS
  <2> QED
    <3> HIDE DEF Bad
    <3> QED BY <2>1, SmallestSet
<1> QED BY <1>1

\* What such a function returns, one step down.
LEMMA AddsAt ==
    ASSUME NEW g, NEW f, NEW S, Adds(g, f, S), NEW s \in SUBSET S
    PROVE  g[s] = IF s = {} THEN 0 ELSE f[First(s)] + g[s \ {First(s)}]
BY DEF Adds

\* The element taken first is one of the set.
LEMMA FirstIn == ASSUME NEW s, s # {} PROVE First(s) \in s
BY DEF First

\* Such a function does not depend on the set it is made for.
LEMMA AddsAgree ==
    ASSUME NEW f, NEW S, IsFiniteSet(S), NEW U \in SUBSET S,
           NEW g, Adds(g, f, S), NEW h, Adds(h, f, U)
    PROVE  \A s \in SUBSET U : g[s] = h[s]
<1> DEFINE F == {s \in SUBSET U : g[s] = h[s]}
<1>0. IsFiniteSet(U)
  BY FS_Subset
<1>1. ASSUME NEW T \in SUBSET U, \A x \in T : T \ {x} \in F
      PROVE  T \in F
  <2>1. g[T] = IF T = {} THEN 0 ELSE f[First(T)] + g[T \ {First(T)}]
    BY AddsAt
  <2>2. h[T] = IF T = {} THEN 0 ELSE f[First(T)] + h[T \ {First(T)}]
    BY AddsAt
  <2>3. T # {} => First(T) \in T
    BY FirstIn
  <2> QED BY <2>1, <2>2, <2>3, <1>1
<1>2. \A T \in SUBSET U : T \in F
  <2> HIDE DEF F
  <2> QED BY <1>0, <1>1, SubsetInduction
<1> QED BY <1>2

Narrow(g, U) == [s \in SUBSET U |-> g[s]]

\* It can be narrowed to a subset.
LEMMA AddsRestricts ==
    ASSUME NEW f, NEW S, NEW U \in SUBSET S, NEW g, Adds(g, f, S)
    PROVE  Adds(Narrow(g, U), f, U) /\ Narrow(g, U)[U] = g[U]
<1> DEFINE h == [s \in SUBSET U |-> g[s]]
<1>1. ASSUME NEW s \in SUBSET U
      PROVE  h[s] = IF s = {} THEN 0 ELSE f[First(s)] + h[s \ {First(s)}]
  BY AddsAt
<1>2. h = [s \in SUBSET U |-> h[s]]
  OBVIOUS
<1> QED
  <2> HIDE DEF h
  <2>1. h = [s \in SUBSET U |-> IF s = {} THEN 0 ELSE f[First(s)] + h[s \ {First(s)}]]
    BY <1>1, <1>2
  <2>2. Adds(h, f, U)
    BY <2>1 DEF Adds
  <2> QED BY <2>2 DEF h, Narrow

\* Any such function returns the sum.
LEMMA SumOf ==
    ASSUME NEW f, NEW S, NEW g, Adds(g, f, S), IsFiniteSet(S)
    PROVE  SumFunctionOnSet(f, S) = g[S]
<1>1. Adds((CHOOSE h : Adds(h, f, S)), f, S)
  OBVIOUS
<1> QED BY <1>1, AddsAgree, SumUnfolds

\* There is such a function for every finite set.
LEMMA AddsExists ==
    ASSUME NEW f, NEW S, IsFiniteSet(S)
    PROVE  \E g : Adds(g, f, S)
<1> DEFINE F == {s \in SUBSET S : \E g : Adds(g, f, s)}
           V(s) == SumFunctionOnSet(f, s)
<1>1. ASSUME NEW T \in SUBSET S, \A x \in T : T \ {x} \in F
      PROVE  T \in F
  <2> DEFINE g == [s \in SUBSET T |->
                      IF s # T THEN V(s)
                      ELSE IF s = {} THEN 0 ELSE f[First(s)] + V(s \ {First(s)})]
  <2>1. ASSUME NEW s \in SUBSET T, s # T
        PROVE  V(s) = IF s = {} THEN 0 ELSE f[First(s)] + V(s \ {First(s)})
    <3>1. PICK x \in T : s \in SUBSET (T \ {x})
      BY <2>1
    <3>2. PICK h : Adds(h, f, T \ {x})
      BY <1>1
    <3>3. IsFiniteSet(T \ {x})
      BY FS_Subset
    <3>4. ASSUME NEW u \in SUBSET (T \ {x}) PROVE V(u) = h[u]
      <4>1. Adds(Narrow(h, u), f, u) /\ Narrow(h, u)[u] = h[u]
        <5> HIDE DEF g, V, F
        <5> QED BY <3>2, AddsRestricts
      <4>2. IsFiniteSet(u)
        BY <3>3, FS_Subset
      <4> QED BY <4>1, <4>2, SumOf
    <3>5. V(s) = h[s] /\ V(s \ {First(s)}) = h[s \ {First(s)}]
      BY <3>1, <3>4
    <3>6. h[s] = IF s = {} THEN 0 ELSE f[First(s)] + h[s \ {First(s)}]
      BY <3>1, <3>2, AddsAt
    <3> HIDE DEF V
    <3> QED BY <3>5, <3>6
  <2>2. ASSUME NEW s \in SUBSET T
        PROVE  g[s] = IF s = {} THEN 0 ELSE f[First(s)] + g[s \ {First(s)}]
    <3>1. s # {} => s \ {First(s)} # T
      BY FirstIn
    <3> HIDE DEF V
    <3> QED BY <2>1, <3>1
  <2>3. g = [s \in SUBSET T |-> g[s]]
    OBVIOUS
  <2>4. Adds(g, f, T)
    <3> HIDE DEF g
    <3> QED BY <2>2, <2>3 DEF Adds
  <2> QED BY <2>4
<1>2. \A T \in SUBSET S : T \in F
  <2> HIDE DEF F
  <2> QED BY <1>1, SubsetInduction
<1> QED BY <1>2

\* The sum is that of one element and of the rest.
LEMMA SumStep ==
    ASSUME NEW f, NEW S, IsFiniteSet(S)
    PROVE  SumFunctionOnSet(f, S) =
              IF S = {} THEN 0 ELSE f[First(S)] + SumFunctionOnSet(f, S \ {First(S)})
<1>1. PICK g : Adds(g, f, S)
  BY AddsExists
<1>2. SumFunctionOnSet(f, S) = g[S]
  BY <1>1, SumOf
<1> DEFINE U == S \ {First(S)}
<1>3. Adds(Narrow(g, U), f, U) /\ Narrow(g, U)[U] = g[U]
  BY <1>1, AddsRestricts
<1>4. SumFunctionOnSet(f, U) = g[U]
  <2>1. IsFiniteSet(U)
    BY FS_Subset
  <2> QED BY <1>3, <2>1, SumOf
<1> QED BY <1>1, <1>2, <1>4, AddsAt

\* A sum over no element is 0.
LEMMA SumEmpty == ASSUME NEW f PROVE SumFunctionOnSet(f, {}) = 0
BY SumStep, FS_EmptySet

\* A sum of integers is an integer.
LEMMA SumInt ==
    ASSUME NEW f, NEW S, IsFiniteSet(S), \A s \in S : f[s] \in Int
    PROVE  SumFunctionOnSet(f, S) \in Int
<1> DEFINE F == {T \in SUBSET S : SumFunctionOnSet(f, T) \in Int}
<1>1. ASSUME NEW T \in SUBSET S, \A x \in T : T \ {x} \in F
      PROVE  T \in F
  <2>1. IsFiniteSet(T) /\ (T # {} => First(T) \in T)
    BY FS_Subset, FirstIn
  <2>2. SumFunctionOnSet(f, T) =
            IF T = {} THEN 0 ELSE f[First(T)] + SumFunctionOnSet(f, T \ {First(T)})
    BY <2>1, SumStep
  <2> QED BY <1>1, <2>1, <2>2
<1>2. \A T \in SUBSET S : T \in F
  <2> HIDE DEF F
  <2> QED BY <1>1, SubsetInduction
<1> QED BY <1>2

\* Any element may be taken out of a sum first.
LEMMA SumRemove ==
    ASSUME NEW f, NEW S, IsFiniteSet(S), \A s \in S : f[s] \in Int, NEW e \in S
    PROVE  SumFunctionOnSet(f, S) = f[e] + SumFunctionOnSet(f, S \ {e})
<1> DEFINE V(s) == SumFunctionOnSet(f, s)
           F == {T \in SUBSET S : \A x \in T : V(T) = f[x] + V(T \ {x})}
<1>1. ASSUME NEW T \in SUBSET S, \A x \in T : T \ {x} \in F
      PROVE  T \in F
  <2> SUFFICES ASSUME NEW x \in T PROVE V(T) = f[x] + V(T \ {x})
    OBVIOUS
  <2> DEFINE c == First(T)
  <2>1. IsFiniteSet(T) /\ c \in T
    BY FS_Subset, FirstIn
  <2>2. V(T) = f[c] + V(T \ {c})
    BY <2>1, SumStep
  <2>3. CASE x = c
    BY <2>2, <2>3
  <2>4. CASE x # c
    <3>1. V(T \ {c}) = f[x] + V((T \ {c}) \ {x})
      BY <1>1, <2>1, <2>4
    <3>2. V(T \ {x}) = f[c] + V((T \ {x}) \ {c})
      BY <1>1, <2>1, <2>4
    <3>3. (T \ {x}) \ {c} = (T \ {c}) \ {x}
      OBVIOUS
    <3>4. V((T \ {c}) \ {x}) \in Int
      BY <2>1, FS_Subset, SumInt
    <3>5. f[c] \in Int /\ f[x] \in Int
      BY <2>1
    <3>6. V(T) = f[c] + (f[x] + V((T \ {c}) \ {x}))
      BY <2>2, <3>1
    <3>7. V(T \ {x}) = f[c] + V((T \ {c}) \ {x})
      BY <3>2, <3>3
    <3>8. \A a, b, w \in Int : a + (b + w) = b + (a + w)
      OBVIOUS
    <3> QED BY <3>4, <3>5, <3>6, <3>7, <3>8
  <2> QED BY <2>3, <2>4
<1>2. \A T \in SUBSET S : T \in F
  <2> HIDE DEF F
  <2> QED BY <1>1, SubsetInduction
<1> QED BY <1>2

\* So a sum grows by what an element adds.
LEMMA SumAdd ==
    ASSUME NEW f, NEW S, IsFiniteSet(S), NEW e, e \notin S,
           \A s \in S \cup {e} : f[s] \in Int
    PROVE  SumFunctionOnSet(f, S \cup {e}) = SumFunctionOnSet(f, S) + f[e]
<1>1. IsFiniteSet(S \cup {e}) /\ (S \cup {e}) \ {e} = S
  BY FS_AddElement
<1>2. SumFunctionOnSet(f, S) \in Int
  BY SumInt
<1> QED BY <1>1, <1>2, SumRemove

\* Functions that agree on a set have the same sum over it.
LEMMA SumSame ==
    ASSUME NEW f, NEW g, NEW S, IsFiniteSet(S), \A s \in S : f[s] = g[s]
    PROVE  SumFunctionOnSet(f, S) = SumFunctionOnSet(g, S)
<1> DEFINE F == {T \in SUBSET S : SumFunctionOnSet(f, T) = SumFunctionOnSet(g, T)}
<1>1. ASSUME NEW T \in SUBSET S, \A x \in T : T \ {x} \in F
      PROVE  T \in F
  <2>1. IsFiniteSet(T) /\ (T # {} => First(T) \in T)
    BY FS_Subset, FirstIn
  <2>2. SumFunctionOnSet(f, T) =
            IF T = {} THEN 0 ELSE f[First(T)] + SumFunctionOnSet(f, T \ {First(T)})
    BY <2>1, SumStep
  <2>3. SumFunctionOnSet(g, T) =
            IF T = {} THEN 0 ELSE g[First(T)] + SumFunctionOnSet(g, T \ {First(T)})
    BY <2>1, SumStep
  <2> QED BY <1>1, <2>1, <2>2, <2>3
<1>2. \A T \in SUBSET S : T \in F
  <2> HIDE DEF F
  <2> QED BY <1>1, SubsetInduction
<1> QED BY <1>2

\* A function changed at one point changes its sum by as much.
LEMMA SumChange ==
    ASSUME NEW f, NEW g, NEW S, IsFiniteSet(S), NEW e \in S,
           \A s \in S : f[s] \in Int /\ g[s] \in Int,
           \A s \in S \ {e} : f[s] = g[s]
    PROVE  SumFunctionOnSet(g, S) = SumFunctionOnSet(f, S) + g[e] - f[e]
<1>1. IsFiniteSet(S \ {e})
  BY FS_RemoveElement
<1>2. SumFunctionOnSet(f, S \ {e}) = SumFunctionOnSet(g, S \ {e})
  BY <1>1, SumSame
<1>3. SumFunctionOnSet(f, S \ {e}) \in Int
  BY <1>1, SumInt
<1>4. SumFunctionOnSet(f, S) = f[e] + SumFunctionOnSet(f, S \ {e})
  BY SumRemove
<1>5. SumFunctionOnSet(g, S) = g[e] + SumFunctionOnSet(g, S \ {e})
  BY SumRemove
<1> QED BY <1>2, <1>3, <1>4, <1>5

\* A sum of numbers is a number.
LEMMA SumNat ==
    ASSUME NEW f, NEW S, IsFiniteSet(S), \A s \in S : f[s] \in Nat
    PROVE  SumFunctionOnSet(f, S) \in Nat
<1> DEFINE F == {T \in SUBSET S : SumFunctionOnSet(f, T) \in Nat}
<1>1. ASSUME NEW T \in SUBSET S, \A x \in T : T \ {x} \in F
      PROVE  T \in F
  <2>1. IsFiniteSet(T) /\ (T # {} => First(T) \in T)
    BY FS_Subset, FirstIn
  <2>2. SumFunctionOnSet(f, T) =
            IF T = {} THEN 0 ELSE f[First(T)] + SumFunctionOnSet(f, T \ {First(T)})
    BY <2>1, SumStep
  <2> QED BY <1>1, <2>1, <2>2
<1>2. \A T \in SUBSET S : T \in F
  <2> HIDE DEF F
  <2> QED BY <1>1, SubsetInduction
<1> QED BY <1>2

\* A sum of zeros is 0.
LEMMA SumZero ==
    ASSUME NEW f, NEW S, IsFiniteSet(S), \A s \in S : f[s] = 0
    PROVE  SumFunctionOnSet(f, S) = 0
<1> DEFINE F == {T \in SUBSET S : SumFunctionOnSet(f, T) = 0}
<1>1. ASSUME NEW T \in SUBSET S, \A x \in T : T \ {x} \in F
      PROVE  T \in F
  <2>1. IsFiniteSet(T) /\ (T # {} => First(T) \in T)
    BY FS_Subset, FirstIn
  <2>2. SumFunctionOnSet(f, T) =
            IF T = {} THEN 0 ELSE f[First(T)] + SumFunctionOnSet(f, T \ {First(T)})
    BY <2>1, SumStep
  <2> QED BY <1>1, <2>1, <2>2
<1>2. \A T \in SUBSET S : T \in F
  <2> HIDE DEF F
  <2> QED BY <1>1, SubsetInduction
<1> QED BY <1>2

\* A function that is nowhere larger has no larger sum.
LEMMA SumLeq ==
    ASSUME NEW f, NEW g, NEW S, IsFiniteSet(S),
           \A s \in S : f[s] \in Int /\ g[s] \in Int /\ f[s] <= g[s]
    PROVE  SumFunctionOnSet(f, S) <= SumFunctionOnSet(g, S)
<1> DEFINE F == {T \in SUBSET S : SumFunctionOnSet(f, T) <= SumFunctionOnSet(g, T)}
<1>1. ASSUME NEW T \in SUBSET S, \A x \in T : T \ {x} \in F
      PROVE  T \in F
  <2>1. IsFiniteSet(T) /\ (T # {} => First(T) \in T)
    BY FS_Subset, FirstIn
  <2>2. SumFunctionOnSet(f, T) =
            IF T = {} THEN 0 ELSE f[First(T)] + SumFunctionOnSet(f, T \ {First(T)})
    BY <2>1, SumStep
  <2>3. SumFunctionOnSet(g, T) =
            IF T = {} THEN 0 ELSE g[First(T)] + SumFunctionOnSet(g, T \ {First(T)})
    BY <2>1, SumStep
  <2>4. CASE T = {}
    BY <2>2, <2>3, <2>4
  <2>5. CASE T # {}
    <3> DEFINE U == T \ {First(T)}
    <3>1. IsFiniteSet(U) /\ U \subseteq S
      BY FS_Subset
    <3>2. SumFunctionOnSet(f, U) \in Int /\ SumFunctionOnSet(g, U) \in Int
      BY <3>1, SumInt
    <3>3. SumFunctionOnSet(f, U) <= SumFunctionOnSet(g, U)
      BY <1>1, <2>1, <2>5
    <3>4. f[First(T)] \in Int /\ g[First(T)] \in Int /\ f[First(T)] <= g[First(T)]
      BY <2>1, <2>5
    <3> HIDE DEF U, F
    <3>5. SumFunctionOnSet(f, T) <= SumFunctionOnSet(g, T)
      BY <2>2, <2>3, <2>5, <3>2, <3>3, <3>4 DEF U
    <3> QED BY <3>5 DEF F
  <2> QED BY <2>4, <2>5
<1>2. \A T \in SUBSET S : T \in F
  <2> HIDE DEF F
  <2> QED BY <1>1, SubsetInduction
<1> QED BY <1>2

\* A function changed at one point changes its sums by as much, those over sets
\* with the point, and not the others.
LEMMA SumShift ==
    ASSUME NEW D, NEW S \in SUBSET D, IsFiniteSet(S), NEW e \in D,
           NEW f \in [D -> Int], NEW g \in [D -> Int],
           \A s \in D \ {e} : f[s] = g[s]
    PROVE  SumFunctionOnSet(g, S) =
              SumFunctionOnSet(f, S) + (IF e \in S THEN g[e] - f[e] ELSE 0)
<1>1. SumFunctionOnSet(f, S) \in Int
  BY SumInt
<1>2. CASE e \in S
  <2>1. SumFunctionOnSet(g, S) = SumFunctionOnSet(f, S) + g[e] - f[e]
    BY <1>2, SumChange
  <2> QED BY <1>1, <1>2, <2>1
<1>3. CASE e \notin S
  BY <1>1, <1>3, SumSame
<1> QED BY <1>2, <1>3

=============================================================================
