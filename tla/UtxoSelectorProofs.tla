------------------------- MODULE UtxoSelectorProofs -------------------------
(***************************************************************************)
(* Theorems of UtxoSelector, for every wallet, request and limit.          *)
(***************************************************************************)
EXTENDS UtxoSelector, Functions, FiniteSetTheorems, SequenceTheorems, TLAPS

-----------------------------------------------------------------------------
(***************************************************************************)
(* The sum of a function over a finite set, SumFunctionOnSet of the module *)
(* Functions. Its definition takes out one element after the other, in an  *)
(* order that CHOOSE determines; the sum does not depend on it. Induction  *)
(* over the finite sets is by a least counterexample.                      *)
(***************************************************************************)
Some(s) == CHOOSE x \in s : TRUE

\* g is what the definition of a sum chooses, for the subsets of S.
Adds(g, f, S) ==
    g = [s \in SUBSET S |-> IF s = {} THEN 0 ELSE f[Some(s)] + g[s \ {Some(s)}]]

Same(f, e, S) == \A x \in S : f[x] = e[x]
Integral(f, S) == \A x \in S : f[x] \in Int

\* Any element may be taken out first.
InAnyOrder(g, f, S) == g[S] \in Int /\ \A x \in S : g[S] = f[x] + g[S \ {x}]

\* The sum that is defined is what some such function answers.
LEMMA SumIsChosen ==
    ASSUME NEW f, NEW S
    PROVE  SumFunctionOnSet(f, S) = (CHOOSE g : Adds(g, f, S))[S]
  BY DEF SumFunctionOnSet, FoldFunctionOnSet, MapThenFoldSet, Adds, Some

\* Among some subsets of a finite set one contains no other of them.
LEMMA LeastSubset ==
    ASSUME NEW S, IsFiniteSet(S), NEW B, B \subseteq SUBSET S, B # {}
    PROVE  \E U \in B : \A V \in B : V \subseteq U => V = U
<1>1. IsWellFoundedOn(StrictSubsetOrdering(S), SUBSET S)
  BY FS_StrictSubsetOrderingWellFounded, FS_FiniteSubsetsOfFinite
<1>2. PICK U \in B : \A V \in B : <<V, U>> \notin StrictSubsetOrdering(S)
  BY <1>1, WFMin
<1>3. ASSUME NEW V \in B, V \subseteq U PROVE V = U
  <2>1. <<V, U>> \in (SUBSET S) \X (SUBSET S)
    OBVIOUS
  <2> QED
    BY <1>2, <1>3, <2>1 DEF StrictSubsetOrdering
<1> QED
  BY <1>3

\* A non-empty set of natural numbers has a least one.
LEMMA LeastNat ==
    ASSUME NEW B, B \subseteq Nat, B # {}
    PROVE  \E n \in B : \A m \in B : n <= m
<1>1. PICK n \in B : \A m \in B : <<m, n>> \notin OpToRel(<, Nat)
  BY NatLessThanWellFounded, WFMin
<1>2. \A m \in B : ~(m < n)
  BY <1>1 DEF OpToRel
<1> QED
  BY <1>2

\* A function that adds up every subset exists: it is built for the subsets of
\* at most n elements.
LEMMA AddsExists ==
    ASSUME NEW f, NEW S, IsFiniteSet(S)
    PROVE  \E g : Adds(g, f, S)
<1> DEFINE Small(n) == {s \in SUBSET S : Cardinality(s) <= n}
           Upto(g, n) == g = [s \in Small(n) |-> IF s = {} THEN 0
                                                 ELSE f[Some(s)] + g[s \ {Some(s)}]]
           Bad == {n \in Nat : ~\E g : Upto(g, n)}
<1>1. \A s \in SUBSET S : /\ IsFiniteSet(s) /\ Cardinality(s) \in Nat
                          /\ Cardinality(s) = 0 <=> s = {}
                          /\ Cardinality(s) <= Cardinality(S)
  BY FS_Subset, FS_CardinalityType, FS_EmptySet
<1>2. \A s \in SUBSET S : s # {} => /\ Some(s) \in s /\ s \ {Some(s)} \in SUBSET S
                                    /\ Cardinality(s \ {Some(s)}) = Cardinality(s) - 1
  <2> SUFFICES ASSUME NEW s \in SUBSET S, s # {}
               PROVE  Some(s) \in s /\ Cardinality(s \ {Some(s)}) = Cardinality(s) - 1
    OBVIOUS
  <2>1. Some(s) \in s
    BY DEF Some
  <2> QED
    BY <1>1, <2>1, FS_RemoveElement
<1>3. ASSUME NEW n \in Nat, NEW h, Upto(h, n) PROVE \E g : Upto(g, n + 1)
  <2> DEFINE g == [s \in Small(n + 1) |-> IF s = {} THEN 0
                                          ELSE f[Some(s)] + h[s \ {Some(s)}]]
  <2>1. \A s \in Small(n) : g[s] = h[s]
    <3>1. Small(n) \subseteq Small(n + 1)
      BY <1>1
    <3>2. \A s \in Small(n) : h[s] = IF s = {} THEN 0 ELSE f[Some(s)] + h[s \ {Some(s)}]
      BY <1>3
    <3>3. \A s \in Small(n + 1) : g[s] = IF s = {} THEN 0 ELSE f[Some(s)] + h[s \ {Some(s)}]
      OBVIOUS
    <3> HIDE DEF g, Small, Upto
    <3> QED
      BY <3>1, <3>2, <3>3
  <2>2. \A s \in Small(n + 1) : s # {} => s \ {Some(s)} \in Small(n)
    BY <1>1, <1>2
  <2>3. g = [s \in Small(n + 1) |-> IF s = {} THEN 0 ELSE f[Some(s)] + g[s \ {Some(s)}]]
    <3> HIDE DEF Small
    <3>1. \A s \in Small(n + 1) : (IF s = {} THEN 0 ELSE f[Some(s)] + h[s \ {Some(s)}])
                                = (IF s = {} THEN 0 ELSE f[Some(s)] + g[s \ {Some(s)}])
      <4> HIDE DEF g
      <4> QED
        BY <2>1, <2>2
    <3>2. g = [s \in Small(n + 1) |-> IF s = {} THEN 0 ELSE f[Some(s)] + h[s \ {Some(s)}]]
      OBVIOUS
    <3> HIDE DEF g
    <3> QED
      BY <3>1, <3>2
  <2>4. Upto(g, n + 1)
    BY <2>3
  <2> HIDE DEF g, Upto
  <2> QED
    BY <2>4
<1>4. \E g : Upto(g, 0)
  <2> DEFINE g == [s \in Small(0) |-> 0]
  <2>1. \A s \in Small(0) : s = {}
    BY <1>1
  <2>2. g = [s \in Small(0) |-> IF s = {} THEN 0 ELSE f[Some(s)] + g[s \ {Some(s)}]]
    <3> HIDE DEF Small
    <3> QED
      BY <2>1
  <2>3. Upto(g, 0)
    BY <2>2
  <2> HIDE DEF g, Upto
  <2> QED
    BY <2>3
<1>5. Bad = {}
  <2> SUFFICES ASSUME Bad # {} PROVE FALSE
    OBVIOUS
  <2> HIDE DEF Upto
  <2>1. PICK n \in Bad : \A m \in Bad : n <= m
    BY LeastNat
  <2>2. n \in Nat /\ n # 0
    BY <1>4
  <2>3. n - 1 \in Nat /\ n - 1 \notin Bad
    BY <2>1, <2>2
  <2>4. PICK h : Upto(h, n - 1)
    BY <2>3
  <2>5. \E g : Upto(g, (n - 1) + 1)
    BY <1>3, <2>3, <2>4
  <2> QED
    BY <2>2, <2>5
<1>6. Cardinality(S) \in Nat
  BY FS_CardinalityType
<1>7. PICK g : Upto(g, Cardinality(S))
  BY <1>5, <1>6
<1>8. Small(Cardinality(S)) = SUBSET S
  BY <1>1
<1> QED
  BY <1>7, <1>8 DEF Adds

LEMMA SumAdds ==
    ASSUME NEW f, NEW S, IsFiniteSet(S)
    PROVE  \E g : Adds(g, f, S) /\ SumFunctionOnSet(f, S) = g[S]
  BY AddsExists, SumIsChosen

\* What is added up depends only on the terms.
LEMMA AddsAgree ==
    ASSUME NEW f, NEW e, NEW S, NEW T, IsFiniteSet(S), NEW g, NEW h,
           Adds(g, f, S), Adds(h, e, T),
           NEW W, W \subseteq S, W \subseteq T, Same(f, e, W)
    PROVE  g[W] = h[W]
<1> USE DEF Same
<1> DEFINE Bad == {U \in SUBSET W : g[U] # h[U]}
<1> SUFFICES ASSUME Bad # {} PROVE FALSE
  OBVIOUS
<1>1. IsFiniteSet(W)
  BY FS_Subset
<1>2. PICK U \in Bad : \A V \in Bad : V \subseteq U => V = U
  <2>1. Bad \subseteq SUBSET W
    OBVIOUS
  <2> HIDE DEF Bad
  <2> QED
    BY <1>1, <2>1, LeastSubset
<1>3. /\ g[U] = IF U = {} THEN 0 ELSE f[Some(U)] + g[U \ {Some(U)}]
      /\ h[U] = IF U = {} THEN 0 ELSE e[Some(U)] + h[U \ {Some(U)}]
  <2>1. U \in SUBSET S /\ U \in SUBSET T
    OBVIOUS
  <2>2. g[U] = IF U = {} THEN 0 ELSE f[Some(U)] + g[U \ {Some(U)}]
    BY <2>1 DEF Adds
  <2>3. h[U] = IF U = {} THEN 0 ELSE e[Some(U)] + h[U \ {Some(U)}]
    BY <2>1 DEF Adds
  <2> QED
    BY <2>2, <2>3
<1>4. CASE U = {}
  BY <1>3, <1>4
<1>5. CASE U # {}
  <2>1. Some(U) \in U
    BY <1>5 DEF Some
  <2>2. U \ {Some(U)} \notin Bad
    BY <1>2, <2>1
  <2>3. g[U \ {Some(U)}] = h[U \ {Some(U)}]
    BY <2>2
  <2> QED
    BY <1>3, <1>5, <2>1, <2>3
<1> QED
  BY <1>4, <1>5

\* The order in which Some takes elements out does not matter.
LEMMA AddsInAnyOrder ==
    ASSUME NEW f, NEW S, IsFiniteSet(S), NEW g, Adds(g, f, S), Integral(f, S)
    PROVE  InAnyOrder(g, f, S)
<1> USE DEF Integral, InAnyOrder
<1> DEFINE Good(U) == g[U] \in Int /\ \A x \in U : g[U] = f[x] + g[U \ {x}]
           Bad == {U \in SUBSET S : ~Good(U)}
<1> SUFFICES ASSUME Bad # {} PROVE FALSE
  OBVIOUS
<1>1. PICK U \in Bad : \A V \in Bad : V \subseteq U => V = U
  <2>1. Bad \subseteq SUBSET S
    OBVIOUS
  <2> HIDE DEF Bad
  <2> QED
    BY <2>1, LeastSubset
<1>2. g[U] = IF U = {} THEN 0 ELSE f[Some(U)] + g[U \ {Some(U)}]
  BY DEF Adds
<1>3. \A V \in SUBSET U : V # U => Good(V)
  <2> HIDE DEF Good
  <2> QED
    BY <1>1
<1>4. CASE U = {}
  BY <1>2, <1>4
<1>5. CASE U # {}
  <2> DEFINE c == Some(U)
  <2>1. c \in U
    BY <1>5 DEF Some
  <2>2. Good(U \ {c}) /\ g[U] = f[c] + g[U \ {c}] /\ f[c] \in Int
    BY <1>2, <1>3, <1>5, <2>1
  <2>3. ASSUME NEW x \in U, x # c PROVE g[U] = f[x] + g[U \ {x}]
    <3> DEFINE V == (U \ {c}) \ {x}
    <3>1. g[U \ {c}] = f[x] + g[V]
      BY <2>2, <2>3
    <3>2. Good(U \ {x})
      BY <1>3
    <3>3. V = (U \ {x}) \ {c} /\ c \in U \ {x}
      BY <2>1, <2>3
    <3>4. g[U \ {x}] = f[c] + g[V]
      BY <3>2, <3>3
    <3>5. g[V] \in Int
      <4>1. V \in SUBSET U /\ V # U
        BY <2>1
      <4> HIDE DEF V
      <4> QED
        BY <1>3, <4>1
    <3>6. f[x] \in Int
      OBVIOUS
    <3> HIDE DEF V, c
    <3> QED
      BY <2>2, <3>1, <3>4, <3>5, <3>6
  <2>4. g[U] \in Int
    <3>1. g[U \ {c}] \in Int
      BY <2>2
    <3> HIDE DEF c
    <3> QED
      BY <2>2, <3>1
  <2>5. \A x \in U : g[U] = f[x] + g[U \ {x}]
    BY <2>2, <2>3
  <2> QED
    BY <2>4, <2>5
<1> QED
  BY <1>4, <1>5

-----------------------------------------------------------------------------
\* The sum over nothing is zero.
LEMMA SumEmpty == ASSUME NEW f PROVE SumFunctionOnSet(f, {}) = 0
<1>1. PICK g : Adds(g, f, {}) /\ SumFunctionOnSet(f, {}) = g[{}]
  BY SumAdds, FS_EmptySet
<1> QED
  BY <1>1 DEF Adds

\* The sum depends on the terms alone.
LEMMA SumSame ==
    ASSUME NEW S, IsFiniteSet(S), NEW f, NEW e, \A x \in S : f[x] = e[x]
    PROVE  SumFunctionOnSet(f, S) = SumFunctionOnSet(e, S)
<1>1. PICK g : Adds(g, f, S) /\ SumFunctionOnSet(f, S) = g[S]
  BY SumAdds
<1>2. PICK h : Adds(h, e, S) /\ SumFunctionOnSet(e, S) = h[S]
  BY SumAdds
<1>3. Adds(g, f, S) /\ Adds(h, e, S) /\ S \subseteq S /\ Same(f, e, S)
  BY <1>1, <1>2 DEF Same
<1>4. g[S] = h[S]
  BY <1>3, AddsAgree
<1> QED
  BY <1>1, <1>2, <1>4

\* A sum of integers is one, and any term may be taken out first.
LEMMA SumRemove ==
    ASSUME NEW S, IsFiniteSet(S), NEW f, \A x \in S : f[x] \in Int
    PROVE  /\ SumFunctionOnSet(f, S) \in Int
           /\ \A x \in S : SumFunctionOnSet(f, S) = f[x] + SumFunctionOnSet(f, S \ {x})
<1>1. PICK g : Adds(g, f, S) /\ SumFunctionOnSet(f, S) = g[S]
  BY SumAdds
<1>2. g[S] \in Int /\ \A x \in S : g[S] = f[x] + g[S \ {x}]
  <2>1. Integral(f, S)
    BY DEF Integral
  <2>2. InAnyOrder(g, f, S)
    BY <1>1, <2>1, AddsInAnyOrder
  <2> QED
    BY <2>2 DEF InAnyOrder
<1>3. ASSUME NEW x \in S PROVE g[S \ {x}] = SumFunctionOnSet(f, S \ {x})
  <2>1. IsFiniteSet(S \ {x})
    BY FS_RemoveElement
  <2>2. PICK h : Adds(h, f, S \ {x}) /\ SumFunctionOnSet(f, S \ {x}) = h[S \ {x}]
    BY <2>1, SumAdds
  <2>3. S \ {x} \subseteq S
    OBVIOUS
  <2>4. g[S \ {x}] = h[S \ {x}]
    BY <1>1, <2>2, <2>3, AddsAgree DEF Same
  <2> QED
    BY <2>2, <2>4
<1> QED
  BY <1>1, <1>2, <1>3

\* A term is added to the sum over the rest.
LEMMA SumAdd ==
    ASSUME NEW S, IsFiniteSet(S), NEW x, x \notin S, NEW f,
           \A y \in S \cup {x} : f[y] \in Int
    PROVE  SumFunctionOnSet(f, S \cup {x}) = f[x] + SumFunctionOnSet(f, S)
<1>1. IsFiniteSet(S \cup {x})
  BY FS_AddElement
<1>2. (S \cup {x}) \ {x} = S
  OBVIOUS
<1>3. x \in S \cup {x}
  OBVIOUS
<1> QED
  BY <1>1, <1>2, <1>3, SumRemove

\* A sum of natural numbers is one, and so is that of a part, which is smaller.
LEMMA SumNat ==
    ASSUME NEW S, IsFiniteSet(S), NEW f, \A x \in S : f[x] \in Nat
    PROVE  SumFunctionOnSet(f, S) \in Nat
<1> DEFINE Bad == {U \in SUBSET S : SumFunctionOnSet(f, U) \notin Nat}
<1> SUFFICES ASSUME Bad # {} PROVE FALSE
  OBVIOUS
<1>1. PICK U \in Bad : \A V \in Bad : V \subseteq U => V = U
  <2>1. Bad \subseteq SUBSET S
    OBVIOUS
  <2> HIDE DEF Bad
  <2> QED
    BY <2>1, LeastSubset
<1>2. U # {}
  BY SumEmpty
<1>3. PICK x : x \in U
  BY <1>2
<1>4. SumFunctionOnSet(f, U \ {x}) \in Nat
  BY <1>1, <1>3
<1>5. SumFunctionOnSet(f, U) = f[x] + SumFunctionOnSet(f, U \ {x})
  <2>1. IsFiniteSet(U) /\ \A y \in U : f[y] \in Int
    BY FS_Subset
  <2> QED
    BY <1>3, <2>1, SumRemove
<1>6. f[x] \in Nat
  BY <1>3
<1> QED
  BY <1>4, <1>5, <1>6

LEMMA SumPart ==
    ASSUME NEW S, IsFiniteSet(S), NEW f, \A x \in S : f[x] \in Nat,
           NEW T, T \subseteq S
    PROVE  SumFunctionOnSet(f, T) <= SumFunctionOnSet(f, S)
<1> DEFINE Between == {U \in SUBSET S : T \subseteq U}
           Bad == {U \in Between : ~(SumFunctionOnSet(f, T) <= SumFunctionOnSet(f, U))}
<1> SUFFICES ASSUME Bad # {} PROVE FALSE
  OBVIOUS
<1>1. PICK U \in Bad : \A V \in Bad : V \subseteq U => V = U
  <2>1. Bad \subseteq SUBSET S
    OBVIOUS
  <2> HIDE DEF Bad
  <2> QED
    BY <2>1, LeastSubset
<1>2. \A V \in SUBSET S : SumFunctionOnSet(f, V) \in Nat
  <2> SUFFICES ASSUME NEW V \in SUBSET S PROVE SumFunctionOnSet(f, V) \in Nat
    OBVIOUS
  <2>1. IsFiniteSet(V)
    BY FS_Subset
  <2> QED
    BY <2>1, SumNat
<1>3. PICK x \in U : x \notin T
  BY <1>2
<1>4. U \ {x} \in Between /\ U \ {x} # U
  BY <1>3
<1>5. SumFunctionOnSet(f, T) <= SumFunctionOnSet(f, U \ {x})
  BY <1>1, <1>4
<1>6. SumFunctionOnSet(f, U) = f[x] + SumFunctionOnSet(f, U \ {x})
  <2>1. IsFiniteSet(U) /\ \A y \in U : f[y] \in Int
    BY FS_Subset
  <2> QED
    BY <1>3, <2>1, SumRemove
<1>7. /\ f[x] \in Nat /\ SumFunctionOnSet(f, U \ {x}) \in Nat
      /\ SumFunctionOnSet(f, T) \in Nat
  BY <1>2, <1>3
<1> QED
  BY <1>5, <1>6, <1>7

\* The terms may have other names: f[x] is e[to[x]].
Renames(to, e, f, S) ==
    /\ \A x, y \in S : to[x] = to[y] => x = y
    /\ \A x \in S : e[to[x]] = f[x]
Names(to, S) == {to[x] : x \in S}

LEMMA SumRenamed ==
    ASSUME NEW S, IsFiniteSet(S), NEW f, Integral(f, S), NEW to, NEW e, Renames(to, e, f, S)
    PROVE  SumFunctionOnSet(e, Names(to, S)) = SumFunctionOnSet(f, S)
<1> USE DEF Integral, Renames, Names
<1> DEFINE Image(U) == {to[x] : x \in U}
           Bad == {U \in SUBSET S : SumFunctionOnSet(e, Image(U)) # SumFunctionOnSet(f, U)}
<1> SUFFICES ASSUME Bad # {} PROVE FALSE
  OBVIOUS
<1>1. PICK U \in Bad : \A V \in Bad : V \subseteq U => V = U
  <2>1. Bad \subseteq SUBSET S
    OBVIOUS
  <2> HIDE DEF Bad
  <2> QED
    BY <2>1, LeastSubset
<1>2. U # {}
  <2>1. Image({}) = {}
    OBVIOUS
  <2> HIDE DEF Image
  <2> QED
    BY <2>1, SumEmpty
<1>3. PICK x : x \in U
  BY <1>2
<1>4. U \ {x} \in SUBSET S /\ U \ {x} # U /\ U \ {x} \subseteq U
  BY <1>3
<1>5. SumFunctionOnSet(e, Image(U \ {x})) = SumFunctionOnSet(f, U \ {x})
  <2> HIDE DEF Image
  <2> QED
    BY <1>1, <1>4
<1>6. Image(U) = Image(U \ {x}) \cup {to[x]} /\ to[x] \notin Image(U \ {x})
  BY <1>3
<1>7. IsFiniteSet(U) /\ IsFiniteSet(U \ {x}) /\ \A y \in U : f[y] \in Int
  BY FS_Subset, FS_RemoveElement
<1>8. IsFiniteSet(Image(U \ {x}))
  <2>1. [y \in U \ {x} |-> to[y]] \in Surjection(U \ {x}, Image(U \ {x}))
    BY DEF Surjection
  <2> HIDE DEF Image
  <2> QED
    BY <1>7, <2>1, FS_Surjection
<1>9. \A z \in Image(U \ {x}) \cup {to[x]} : e[z] \in Int
  BY <1>3
<1>10. SumFunctionOnSet(e, Image(U)) = e[to[x]] + SumFunctionOnSet(e, Image(U \ {x}))
  <2> HIDE DEF Image
  <2> QED
    BY <1>6, <1>8, <1>9, SumAdd
<1>11. SumFunctionOnSet(f, U) = f[x] + SumFunctionOnSet(f, U \ {x})
  BY <1>3, <1>7, SumRemove
<1>12. e[to[x]] = f[x]
  BY <1>3
<1> QED
  BY <1>5, <1>10, <1>11, <1>12

\* Terms that are zero add nothing.
LEMMA SumRest ==
    ASSUME NEW S, IsFiniteSet(S), NEW f, \A x \in S : f[x] \in Int,
           NEW T, T \subseteq S, \A x \in S \ T : f[x] = 0
    PROVE  SumFunctionOnSet(f, S) = SumFunctionOnSet(f, T)
<1> DEFINE Bad == {U \in SUBSET S : T \subseteq U /\ SumFunctionOnSet(f, U) # SumFunctionOnSet(f, T)}
<1> SUFFICES ASSUME Bad # {} PROVE FALSE
  OBVIOUS
<1>1. PICK U \in Bad : \A V \in Bad : V \subseteq U => V = U
  <2>1. Bad \subseteq SUBSET S
    OBVIOUS
  <2> HIDE DEF Bad
  <2> QED
    BY <2>1, LeastSubset
<1>2. PICK x \in U : x \notin T
  <2>1. T \subseteq U /\ SumFunctionOnSet(f, U) # SumFunctionOnSet(f, T)
    OBVIOUS
  <2>2. U # T
    BY <2>1
  <2> QED
    BY <2>1, <2>2
<1>3. IsFiniteSet(U) /\ \A y \in U : f[y] \in Int
  BY FS_Subset
<1>4. SumFunctionOnSet(f, U) = f[x] + SumFunctionOnSet(f, U \ {x})
  BY <1>3, SumRemove
<1>5. f[x] = 0
  BY <1>2
<1>6. IsFiniteSet(U \ {x}) /\ \A y \in U \ {x} : f[y] \in Int
  BY <1>3, FS_Subset
<1>7. SumFunctionOnSet(f, U \ {x}) \in Int
  BY <1>6, SumRemove
<1>8. SumFunctionOnSet(f, U) = SumFunctionOnSet(f, U \ {x})
  BY <1>4, <1>5, <1>7
<1>9. U \ {x} \in Bad
  BY <1>2, <1>8
<1> QED
  BY <1>1, <1>9

\* Only the first of n terms, or the first two, are not zero.
ZeroBeyond(v, k, n) ==
    /\ n \in Nat /\ k \in {1, 2} /\ DOMAIN v = 1..(k + n)
    /\ \A i \in 1..(k + n) : v[i] \in Int /\ (i > k => v[i] = 0)

LEMMA SumOfFirst ==
    ASSUME NEW n, NEW k, NEW v, ZeroBeyond(v, k, n)
    PROVE  SumFunction(v) = v[1] + (IF k = 1 THEN 0 ELSE v[2])
<1> USE DEF ZeroBeyond
<1>1. IsFiniteSet(1..(k + n)) /\ IsFiniteSet({}) /\ IsFiniteSet({1})
  <2>1. k + n \in Int
    OBVIOUS
  <2>2. IsFiniteSet(1..(k + n))
    BY <2>1, FS_Interval
  <2> QED
    BY <2>2, FS_EmptySet, FS_Singleton
<1>2. 1..k \subseteq 1..(k + n) /\ \A i \in (1..(k + n)) \ (1..k) : v[i] = 0
  OBVIOUS
<1>3. SumFunction(v) = SumFunctionOnSet(v, 1..k)
  BY <1>1, <1>2, SumRest DEF SumFunction
<1>4. v[1] \in Int /\ (k = 2 => v[2] \in Int)
  OBVIOUS
<1>5. SumFunctionOnSet(v, {1}) = v[1]
  <2>1. SumFunctionOnSet(v, {} \cup {1}) = v[1] + SumFunctionOnSet(v, {})
    BY <1>1, <1>4, SumAdd
  <2> QED
    BY <1>4, <2>1, SumEmpty
<1>6. CASE k = 1
  <2>1. 1..k = {1}
    BY <1>6
  <2> QED
    BY <1>3, <1>4, <1>5, <1>6, <2>1
<1>7. CASE k = 2
  <2>1. 1..k = {1} \cup {2}
    BY <1>7
  <2>2. SumFunctionOnSet(v, {1} \cup {2}) = v[2] + SumFunctionOnSet(v, {1})
    BY <1>1, <1>4, <1>7, SumAdd
  <2>3. SumFunction(v) = v[2] + v[1]
    BY <1>3, <1>5, <2>1, <2>2
  <2>4. v[2] + v[1] = v[1] + v[2]
    BY <1>4, <1>7
  <2> QED
    BY <1>7, <2>3, <2>4
<1> QED
  BY <1>6, <1>7

-----------------------------------------------------------------------------
\* A count of positions of a list is a natural number.
LEMMA CountType ==
    ASSUME NEW outs \in Seq(UnspentOutput), NEW S, S \subseteq DOMAIN outs
    PROVE  Cardinality(S) \in Nat
<1>1. IsFiniteSet(1..Len(outs))
  BY FS_Interval
<1>2. DOMAIN outs = 1..Len(outs)
  OBVIOUS
<1>3. IsFiniteSet(S)
  BY <1>1, <1>2, FS_Subset
<1> QED
  BY <1>3, FS_CardinalityType

\* A product of natural numbers is one.
LEMMA ProductType ==
    ASSUME NEW a \in Nat, NEW b \in Nat
    PROVE  a * b \in Nat
  OBVIOUS

\* Weights round to a natural number of bytes.
LEMMA ToBytesType ==
    ASSUME NEW w \in Nat
    PROVE  toBytes(w) \in Nat
  BY DEF toBytes

\* The bytes and the witness weight of a list of inputs are natural numbers.
LEMMA InputBytesType ==
    ASSUME NEW outs \in Seq(UnspentOutput)
    PROVE  InputBytes(outs) \in Nat /\ WitnessWeight(outs) \in Nat
<1>1. ASSUME NEW T PROVE Spending(outs, T) \in Nat
  <2>1. {i \in DOMAIN outs : outs[i].scriptType \in T} \subseteq DOMAIN outs
    OBVIOUS
  <2>2. Cardinality({i \in DOMAIN outs : outs[i].scriptType \in T}) \in Nat
    BY <2>1, CountType
  <2> QED
    BY <2>2 DEF Spending
<1>2. RedeemingP2SH(outs) \in Nat
  <2> DEFINE S == {i \in DOMAIN outs : /\ outs[i].scriptType = "P2SH"
                                      /\ outs[i].redeemScript}
  <2>1. S \subseteq DOMAIN outs
    OBVIOUS
  <2>2. Cardinality(S) \in Nat
    BY <2>1, CountType
  <2> QED
    BY <2>2 DEF RedeemingP2SH, S
<1>3. (signatureLength + pubKeyLength + RedeemPush) * RedeemingP2SH(outs) \in Nat
  BY <1>2, ProductType, RedeemPushAssumption DEF signatureLength, pubKeyLength
<1>4. ScriptSigBytes(outs) \in Nat
  BY <1>1, <1>3 DEF ScriptSigBytes, signatureLength, pubKeyLength, p2shwpkhLength
<1>5. WitnessWeight(outs) \in Nat
  BY <1>1 DEF WitnessWeight, witnessData, legacyWitnessData, signatureLength,
              pubKeyLength
<1> QED
  BY <1>4, <1>5 DEF InputBytes

\* The size of a transaction is a natural number.
LEMMA TransactionSizeType ==
    ASSUME NEW outs \in Seq(UnspentOutput), NEW n \in Nat
    PROVE  transactionSize(outs, n) \in Nat
<1>1. InputBytes(outs) \in Nat /\ WitnessWeight(outs) \in Nat
  BY InputBytesType
<1> DEFINE txWeight == IF Spending(outs, WitnessType) > 0 THEN witnessTx ELSE legacyTx
           inputWeight == 4 * InputBytes(outs)
               + (IF Spending(outs, WitnessType) > 0 THEN WitnessWeight(outs) ELSE 0)
<1>2. txWeight \in Nat
  BY DEF witnessTx, legacyTx
<1>3. inputWeight \in Nat
  BY <1>1
<1>4. txWeight + inputWeight + 4 * n \in Nat
  BY <1>2, <1>3
<1> QED
  BY <1>4, ToBytesType DEF transactionSize

\* The size of an output is a natural number, whatever its script type.
LEMMA OutputSizeType ==
    ASSUME NEW t
    PROVE  outputSize(t) \in Nat
  BY DEF outputSize, lockingScriptSize

\* What the calculator is given for a selection is a list of outputs.
LEMMA OutputsType ==
    ASSUME NEW s \in Seq(Utxo)
    PROVE  Outputs(s) \in Seq(UnspentOutput)
<1>1. Outputs(s) = [i \in 1..Len(s) |-> Info[s[i]]]
  BY DEF Outputs
<1>2. \A i \in 1..Len(s) : Info[s[i]] \in UnspentOutput
  BY UtxoAssumption
<1> QED
  BY <1>1, <1>2

\* Both fees of a selection are natural numbers.
LEMMA FeeType ==
    ASSUME NEW s \in Seq(Utxo), req \in Request
    PROVE  /\ feeAmount(s) \in Nat
           /\ changeOutputHavingTransactionFee(s) \in Nat
<1>1. req.feeRate \in Nat
  BY RequestAssumption
<1>2. /\ outputSize(req.receiveType) \in Nat
      /\ outputSize(req.receiveType) + outputSize(req.changeType) \in Nat
  BY OutputSizeType
<1>3. transactionSize(Outputs(s), outputSize(req.receiveType)) \in Nat
  BY <1>2, OutputsType, TransactionSizeType
<1>4. transactionSize(Outputs(s), outputSize(req.receiveType)
                                   + outputSize(req.changeType)) \in Nat
  BY <1>2, OutputsType, TransactionSizeType
<1> QED
  BY <1>1, <1>3, <1>4, ProductType DEF feeAmount, changeOutputHavingTransactionFee

\* A non-empty set of natural numbers has a smallest member, so sortedBy and
\* first are defined.
LEMMA SmallestType ==
    ASSUME NEW S, S \subseteq Nat, S # {}
    PROVE  Smallest(S) \in S
<1>1. \E x \in S : \A y \in S : ~(<<y, x>> \in OpToRel(<, Nat))
  BY NatLessThanWellFounded, WFMin
<1>2. \A x, y \in S : y < x => <<y, x>> \in OpToRel(<, Nat)
  BY DEF OpToRel
<1>3. \E x \in S : \A y \in S : ~(y < x)
  BY <1>1, <1>2
<1>4. \E x \in S : \A y \in S : x <= y
  BY <1>3
<1> QED
  BY <1>4 DEF Smallest

\* What is left of a selection over the limit is a selection, and what is
\* taken off the total for it is a natural number.
LEMMA KeptType ==
    ASSUME NEW s \in Seq(Utxo), s # <<>>
    PROVE  Kept(s) \in Seq(Utxo) /\ Excluded(s) \in Nat
<1>1. Tail(s) \in Seq(Utxo)
  OBVIOUS
<1>2. Values(s) \subseteq Nat
  BY UtxoAssumption DEF Values, UnspentOutput
<1>3. 1 \in DOMAIN s
  OBVIOUS
<1>4. Values(s) # {}
  BY <1>3 DEF Values
<1>5. Smallest(Values(s)) \in Nat
  BY <1>2, <1>4, SmallestType
<1> QED
  BY <1>1, <1>5 DEF Kept, Excluded

\* A page is a list of outputs.
LEMMA PageType ==
    ASSUME NEW U, U \subseteq Utxo, NEW p \in Pages(U)
    PROVE  p \in Seq(Utxo)
<1>1. Cardinality(U) \in Nat
  BY UtxoAssumption, FS_Subset, FS_CardinalityType
<1>2. PICK n \in 1..Cardinality(U) : p \in [1..n -> U]
  BY DEF Pages
<1>3. n \in Nat
  BY <1>1, <1>2
<1>4. p \in [1..n -> Utxo]
  BY <1>2
<1> QED
  BY <1>3, <1>4

\* For a fee, what the recipient gets and what is sent are integers.
LEMMA AmountsType ==
    ASSUME NEW fee \in Nat, req \in Request
    PROVE  RecipientAmount(fee) \in Int /\ SentAmount(fee) \in Int
  BY RequestAssumption DEF RecipientAmount, SentAmount

-----------------------------------------------------------------------------
\* Every step of select, and every further call, keeps the state well typed.
LEMMA TypeStep == TypeOK /\ [Next]_vars => TypeOK'
<1> SUFFICES ASSUME TypeOK, [Next]_vars PROVE TypeOK'
  OBVIOUS
<1>0. \A s \in Seq(Utxo) : /\ feeAmount(s) \in Nat
                           /\ changeOutputHavingTransactionFee(s) \in Nat
  BY FeeType DEF TypeOK
<1>1. CASE SelectDust
  BY <1>1 DEF SelectDust, Finish, Thrown, Error, TypeOK, Outcome
<1>2. CASE Select
  BY <1>2 DEF Select, TypeOK
<1>3. CASE nextUtxoList
  <2>1. PICK p \in Pages(unseen) : /\ page' = p
                                  /\ unseen' = unseen \ {p[i] : i \in DOMAIN p}
    BY <1>3 DEF nextUtxoList
  <2>2. page' \in Seq(Utxo)
    BY <2>1, PageType DEF TypeOK
  <2> QED
    BY <1>3, <2>1, <2>2 DEF nextUtxoList, TypeOK
<1>4. CASE nextUtxoListEmpty
  BY <1>4 DEF nextUtxoListEmpty, TypeOK
<1>5. CASE AddUnspentOutput
  <2> DEFINE added == Append(selected, Head(page))
             fee == feeAmount(Kept(added))
  <2>1. Head(page) \in Utxo /\ Tail(page) \in Seq(Utxo)
    BY <1>5 DEF AddUnspentOutput, TypeOK
  <2>2. added \in Seq(Utxo) /\ added # <<>>
    BY <2>1 DEF TypeOK
  <2>3. Kept(added) \in Seq(Utxo) /\ Excluded(added) \in Nat
    BY <2>2, KeptType
  <2>4. fee \in Nat
    BY <2>3, <1>0
  <2>5. Info[Head(page)].value \in Nat
    BY <2>1, UtxoAssumption DEF UnspentOutput
  <2>6. /\ selected' = Kept(added)
        /\ total' = total + Info[Head(page)].value - Excluded(added)
        /\ recipient' = RecipientAmount(fee)
        /\ sent' = SentAmount(fee)
        /\ UNCHANGED <<req, unseen>>
    BY <1>5 DEF AddUnspentOutput
  <2>7. /\ selected' \in Seq(Utxo) /\ total' \in Int
        /\ recipient' \in Int /\ sent' \in Int
    <3>1. RecipientAmount(fee) \in Int /\ SentAmount(fee) \in Int
      BY <2>4, AmountsType DEF TypeOK
    <3>2. total + Info[Head(page)].value - Excluded(added) \in Int
      BY <2>3, <2>5 DEF TypeOK
    <3> QED
      BY <2>3, <2>6, <3>1, <3>2
  <2>8. page' \in {<<>>, page, Tail(page)}
    BY <1>5 DEF AddUnspentOutput
  <2>9. pc' \in {pc, "done"} /\ outcome' \in {outcome, Thrown("Dust")}
    BY <1>5 DEF AddUnspentOutput, Finish
  <2>10. page' \in Seq(Utxo)
    <3>1. <<>> \in Seq(Utxo) /\ page \in Seq(Utxo)
      BY DEF TypeOK
    <3> QED
      BY <2>1, <2>8, <3>1
  <2>11. outcome' \in Outcome
    BY <2>9 DEF Thrown, Error, Outcome, TypeOK
  <2> QED
    BY <2>6, <2>7, <2>9, <2>10, <2>11 DEF TypeOK
<1>6. CASE EndOfPage
  BY <1>6 DEF EndOfPage, TypeOK
<1>7. CASE Settle
  <2> DEFINE fee == changeOutputHavingTransactionFee(selected)
  <2>1. fee \in Nat
    BY <1>0 DEF TypeOK
  <2>2. RecipientAmount(fee) \in Int /\ SentAmount(fee) \in Int
    BY <2>1, AmountsType DEF TypeOK
  <2>3. \/ Settled \in {Thrown(e) : e \in Error}
        \/ Settled = Exact(selected, recipient)
        \/ Settled = WithChange(selected, RecipientAmount(fee),
                                total - SentAmount(fee))
    BY DEF Settled, Error
  <2>4. Settled \in Outcome
    BY <2>2, <2>3 DEF Outcome, Thrown, Exact, WithChange, TypeOK
  <2> QED
    BY <1>7, <2>4 DEF Settle, Finish, TypeOK
<1>8. CASE SelectAgain
  BY <1>8 DEF SelectAgain, TypeOK, Outcome, Pending
<1>9. CASE UNCHANGED vars
  BY <1>9 DEF vars, TypeOK
<1> QED
  BY <1>1, <1>2, <1>3, <1>4, <1>5, <1>6, <1>7, <1>8, <1>9 DEF Next, Step

\* The state of select is always well typed.
THEOREM TypeCorrect == Spec => []TypeOK
<1>1. Init => TypeOK
  BY DEF Init, TypeOK, Outcome, Pending
<1> QED
  BY <1>1, TypeStep, PTL DEF Spec

-----------------------------------------------------------------------------
(***************************************************************************)
(* PaidInFull speaks of the outcome, which appears in one step from the    *)
(* amounts the loop left behind. Over the total it is inductive together   *)
(* with AmountsCurrent, that those amounts belong to the present selection, *)
(* and with the facts that select begins with nothing selected, has an      *)
(* outcome only when it ends and returns what is selected. That the total   *)
(* is the value of the selection is FundsMatch.                            *)
(***************************************************************************)
PaidByTotal ==
    /\ outcome.kind = "exact" =>
        LET r == outcome.recipientValue
            fee == feeAmount(outcome.outputs)
            feeWithChange == changeOutputHavingTransactionFee(outcome.outputs)
        IN  /\ total >= r + fee
            /\ IF req.senderPay THEN total < r + feeWithChange + req.dust
                                ELSE total < r + fee + req.dust
    /\ outcome.kind = "change" =>
        /\ total = outcome.recipientValue + outcome.changeValue
                     + changeOutputHavingTransactionFee(outcome.outputs)
        /\ outcome.changeValue >= req.dust
        /\ outcome.recipientValue > req.dust

OutcomeAtEnd ==
    /\ pc = "idle" => selected = <<>>
    /\ pc # "done" => outcome = Pending
    /\ pc = "done" => outcome.kind # "pending"
    /\ outcome.kind \in {"exact", "change"} => outcome.outputs = selected

Inv == TypeOK /\ AmountsCurrent /\ OutcomeAtEnd /\ PaidByTotal

\* Before its first step select satisfies the invariant.
LEMMA InitInv == Init => Inv
<1> SUFFICES ASSUME Init PROVE Inv
  OBVIOUS
<1>1. TypeOK
  BY DEF Init, TypeOK, Outcome, Pending
<1> QED
  BY <1>1 DEF Init, Inv, AmountsCurrent, OutcomeAtEnd, PaidByTotal, Pending

\* Nothing that PaidByTotal reads changes, or there is no outcome yet.
LEMMA PaidByTotalKept ==
    ASSUME PaidByTotal, UNCHANGED <<req, total, outcome>>
    PROVE  PaidByTotal'
  BY DEF PaidByTotal, feeAmount, changeOutputHavingTransactionFee

\* An outcome without outputs has nothing to pay.
LEMMA PaidByTotalVacuous ==
    ASSUME outcome.kind \notin {"exact", "change"}
    PROVE  PaidByTotal
  BY DEF PaidByTotal

\* AmountsCurrent reads neither unseen nor page.
LEMMA AmountsKept ==
    ASSUME AmountsCurrent, UNCHANGED <<req, selected, recipient, sent>>,
           pc \in {"scan", "next", "settle"} \/ selected = <<>>
    PROVE  AmountsCurrent'
  BY DEF AmountsCurrent, feeAmount, RecipientAmount, SentAmount

\* The outcome that Settle computes pays its fee.
LEMMA SettledPays ==
    ASSUME TypeOK, AmountsCurrent, pc = "settle", outcome' = Settled,
           UNCHANGED <<req, total>>
    PROVE  PaidByTotal'
<1> DEFINE fee == feeAmount(selected)
           feeC == changeOutputHavingTransactionFee(selected)
<1>1. fee \in Nat /\ feeC \in Nat
  BY FeeType DEF TypeOK
<1>2. req.senderPay \in BOOLEAN /\ req.amount \in Int /\ req.dust \in Nat
  BY RequestAssumption DEF TypeOK
<1>3. \A s : /\ feeAmount(s)' = feeAmount(s)
             /\ changeOutputHavingTransactionFee(s)'
                  = changeOutputHavingTransactionFee(s)
  BY DEF feeAmount, changeOutputHavingTransactionFee
<1>4. CASE selected = <<>> \/ total < sent
  BY <1>4, PaidByTotalVacuous DEF Settled, Thrown, PaidByTotal
<1>5. CASE selected # <<>> /\ ~(total < sent) /\ ~NeedsChange
  <2>1. outcome' = Exact(selected, recipient)
    BY <1>5 DEF Settled
  <2>2. recipient = RecipientAmount(fee) /\ sent = SentAmount(fee)
    BY <1>5 DEF AmountsCurrent
  <2>3. total >= sent /\ total < RecipientAmount(feeC) + feeC + req.dust
    <3>1. RecipientAmount(feeC) \in Int
      BY <1>1, AmountsType DEF TypeOK
    <3> QED
      BY <1>1, <1>2, <1>5, <3>1 DEF NeedsChange, TypeOK
  <2>4. /\ total >= recipient + fee
        /\ IF req.senderPay THEN total < recipient + feeC + req.dust
                            ELSE total < recipient + fee + req.dust
    <3>1. total \in Int
      BY DEF TypeOK
    <3>2. fee \in Int /\ feeC \in Int
      BY <1>1
    <3> HIDE DEF fee, feeC
    <3> QED
      BY <1>2, <2>2, <2>3, <3>1, <3>2 DEF RecipientAmount, SentAmount
  <2> QED
    BY <1>3, <2>1, <2>4 DEF PaidByTotal, Exact
<1>6. CASE selected # <<>> /\ ~(total < sent) /\ NeedsChange
  <2>1. CASE RecipientAmount(feeC) <= req.dust
    BY <1>6, <2>1 DEF Settled, Thrown, PaidByTotal
  <2>2. CASE ~(RecipientAmount(feeC) <= req.dust)
    <3>1. outcome' = WithChange(selected, RecipientAmount(feeC),
                                total - SentAmount(feeC))
      BY <1>6, <2>2 DEF Settled
    <3>2. /\ total = RecipientAmount(feeC) + (total - SentAmount(feeC)) + feeC
          /\ total - SentAmount(feeC) >= req.dust
          /\ RecipientAmount(feeC) > req.dust
      <4>1. total >= RecipientAmount(feeC) + feeC + req.dust
        BY <1>6 DEF NeedsChange
      <4>2. total \in Int
        BY DEF TypeOK
      <4>3. feeC \in Int
        BY <1>1
      <4> HIDE DEF fee, feeC
      <4> QED
        BY <1>2, <2>2, <4>1, <4>2, <4>3 DEF RecipientAmount, SentAmount
    <3> QED
      BY <1>3, <3>1, <3>2 DEF PaidByTotal, WithChange
  <2> QED
    BY <2>1, <2>2
<1> QED
  BY <1>4, <1>5, <1>6

\* Every step of select, and every further call, preserves the invariant.
LEMMA StepInv == Inv /\ TypeOK' /\ [Next]_vars => Inv'
<1> SUFFICES ASSUME Inv, TypeOK', [Next]_vars
             PROVE  AmountsCurrent' /\ OutcomeAtEnd' /\ PaidByTotal'
  BY DEF Inv
<1> USE DEF Inv
<1>1. CASE SelectDust
  BY <1>1 DEF SelectDust, Finish, Thrown, AmountsCurrent, OutcomeAtEnd, PaidByTotal
<1>2. CASE Select
  <2>1. outcome = Pending
    BY <1>2 DEF Select, OutcomeAtEnd
  <2>2. PaidByTotal'
    BY <1>2, PaidByTotalKept DEF Select
  <2>3. AmountsCurrent'
    BY <1>2, AmountsKept DEF Select, OutcomeAtEnd
  <2> QED
    BY <1>2, <2>1, <2>2, <2>3 DEF Select, OutcomeAtEnd
<1>3. CASE nextUtxoList
  <2>1. UNCHANGED <<req, selected, total, recipient, sent, outcome>>
    BY <1>3 DEF nextUtxoList
  <2>2. pc = "next" /\ pc' = "scan"
    BY <1>3 DEF nextUtxoList
  <2> QED
    BY <2>1, <2>2, PaidByTotalKept, AmountsKept DEF OutcomeAtEnd
<1>4. CASE nextUtxoListEmpty
  BY <1>4, PaidByTotalKept, AmountsKept DEF nextUtxoListEmpty, OutcomeAtEnd
<1>5. CASE AddUnspentOutput
  <2> DEFINE kept == Kept(Append(selected, Head(page)))
  <2>1. /\ selected' = kept /\ req' = req
        /\ recipient' = RecipientAmount(feeAmount(kept))
        /\ sent' = SentAmount(feeAmount(kept))
    BY <1>5 DEF AddUnspentOutput
  <2>2. AmountsCurrent'
    <3>1. feeAmount(selected)' = feeAmount(kept)
      BY <2>1 DEF feeAmount
    <3> QED
      BY <2>1, <3>1 DEF AmountsCurrent, RecipientAmount, SentAmount
  <2>3. \/ pc' = "scan" /\ outcome' = outcome
        \/ pc' = "done" /\ outcome' = Thrown("Dust")
    BY <1>5 DEF AddUnspentOutput, Finish
  <2>4. outcome = Pending
    BY <1>5 DEF AddUnspentOutput, OutcomeAtEnd
  <2>5. PaidByTotal'
    BY <2>3, <2>4 DEF PaidByTotal, Pending, Thrown
  <2> QED
    BY <2>2, <2>3, <2>4, <2>5 DEF OutcomeAtEnd, Thrown, Pending
<1>6. CASE EndOfPage
  <2>1. pc = "scan" /\ pc' \in {"settle", "next"}
    BY <1>6 DEF EndOfPage
  <2> QED
    BY <1>6, <2>1, PaidByTotalKept, AmountsKept DEF EndOfPage, OutcomeAtEnd
<1>7. CASE Settle
  <2>1. PaidByTotal'
    BY <1>7, SettledPays DEF Settle, Finish
  <2>2. Settled.kind # "pending"
    BY DEF Settled, Thrown, Exact, WithChange
  <2>3. Settled.kind \in {"exact", "change"} => Settled.outputs = selected
    BY DEF Settled, Thrown, Exact, WithChange
  <2> QED
    BY <1>7, <2>1, <2>2, <2>3 DEF Settle, Finish, AmountsCurrent, OutcomeAtEnd
<1>8. CASE SelectAgain
  BY <1>8 DEF SelectAgain, AmountsCurrent, OutcomeAtEnd, PaidByTotal, Pending
<1>9. CASE UNCHANGED vars
  <2>1. AmountsCurrent'
    BY <1>9 DEF vars, AmountsCurrent, feeAmount, RecipientAmount, SentAmount
  <2> QED
    BY <1>9, <2>1, PaidByTotalKept DEF vars, OutcomeAtEnd
<1> QED
  BY <1>1, <1>2, <1>3, <1>4, <1>5, <1>6, <1>7, <1>8, <1>9 DEF Next, Step

LEMMA InvAlways == Spec => []Inv
  BY InitInv, StepInv, TypeCorrect, PTL DEF Spec

-----------------------------------------------------------------------------
(***************************************************************************)
(* The running total against the value of the outputs selected.            *)
(***************************************************************************)
Worth(s) == [i \in DOMAIN s |-> Info[s[i]].value]

LEMMA WorthType ==
    ASSUME NEW s \in Seq(Utxo)
    PROVE  /\ DOMAIN s = 1..Len(s) /\ IsFiniteSet(DOMAIN s)
           /\ \A i \in DOMAIN s : s[i] \in Utxo /\ Worth(s)[i] \in Nat
           /\ ValueOf(s) = SumFunctionOnSet(Worth(s), DOMAIN s)
           /\ ValueOf(s) \in Nat
<1>1. DOMAIN s = 1..Len(s) /\ Len(s) \in Nat
  OBVIOUS
<1>2. IsFiniteSet(DOMAIN s)
  BY <1>1, FS_Interval
<1>3. \A i \in DOMAIN s : s[i] \in Utxo /\ Worth(s)[i] \in Nat
  BY UtxoAssumption DEF Worth, UnspentOutput
<1>4. ValueOf(s) = SumFunctionOnSet(Worth(s), DOMAIN s)
  BY DEF ValueOf, SumFunction, Worth
<1>5. SumFunctionOnSet(Worth(s), DOMAIN s) \in Nat
  BY <1>2, <1>3, SumNat
<1> QED
  BY <1>1, <1>2, <1>3, <1>4, <1>5

\* Nothing is worth nothing; one more output adds its value.
LEMMA ValueEmpty == ValueOf(<<>>) = 0
  BY SumEmpty DEF ValueOf, SumFunction

LEMMA ValueAppend ==
    ASSUME NEW s \in Seq(Utxo), NEW u \in Utxo
    PROVE  ValueOf(Append(s, u)) = ValueOf(s) + Info[u].value
<1> DEFINE t == Append(s, u)
           n == Len(s)
<1>1. /\ t \in Seq(Utxo) /\ Len(t) = n + 1 /\ n \in Nat
      /\ \A i \in 1..n : t[i] = s[i]
      /\ t[n + 1] = u
  BY AppendProperties
<1> HIDE DEF t, n
<1>2. DOMAIN s = 1..n /\ DOMAIN t = 1..(n + 1) /\ IsFiniteSet(1..n)
  BY <1>1, WorthType DEF n
<1>3. 1..(n + 1) = (1..n) \cup {n + 1} /\ n + 1 \notin 1..n
  BY <1>1
<1>4. \A i \in 1..n : Worth(t)[i] = Worth(s)[i]
  BY <1>1, <1>2, <1>3 DEF Worth
<1>5. Worth(t)[n + 1] = Info[u].value
  BY <1>1, <1>2, <1>3 DEF Worth
<1>6. \A i \in (1..n) \cup {n + 1} : Worth(t)[i] \in Int
  BY <1>1, <1>2, <1>3, WorthType
<1>7. SumFunctionOnSet(Worth(t), (1..n) \cup {n + 1})
        = Worth(t)[n + 1] + SumFunctionOnSet(Worth(t), 1..n)
  BY <1>2, <1>3, <1>6, SumAdd
<1>8. SumFunctionOnSet(Worth(t), 1..n) = SumFunctionOnSet(Worth(s), 1..n)
  BY <1>2, <1>4, SumSame
<1>9. /\ ValueOf(t) = SumFunctionOnSet(Worth(t), DOMAIN t)
      /\ ValueOf(s) = SumFunctionOnSet(Worth(s), DOMAIN s) /\ ValueOf(s) \in Nat
  BY <1>1, WorthType
<1>10. Info[u].value \in Nat
  BY UtxoAssumption DEF UnspentOutput
<1>11. ValueOf(t) = Info[u].value + ValueOf(s)
  BY <1>2, <1>3, <1>5, <1>7, <1>8, <1>9
<1>12. ValueOf(t) = ValueOf(s) + Info[u].value
  BY <1>9, <1>10, <1>11
<1> QED
  BY <1>12 DEF t

\* Without its first output a list is worth that much less.
LEMMA ValueTail ==
    ASSUME NEW s \in Seq(Utxo), s # <<>>
    PROVE  ValueOf(s) = Info[s[1]].value + ValueOf(Tail(s))
<1> DEFINE t == Tail(s)
           n == Len(s) - 1
<1>1. /\ t \in Seq(Utxo) /\ Len(t) = n /\ n \in Nat
      /\ \A i \in 1..n : t[i] = s[i + 1]
  <2>1. Len(s) \in Nat \ {0}
    BY EmptySeq
  <2> QED
    BY <2>1, HeadTailProperties
<1> HIDE DEF t, n
<1>2. DOMAIN t = 1..n /\ DOMAIN s = 1..(n + 1) /\ IsFiniteSet(1..n) /\ IsFiniteSet(1..(n + 1))
  BY <1>1, WorthType DEF n
<1> DEFINE up == [i \in 1..n |-> i + 1]
<1>3. {up[i] : i \in 1..n} = 1..(n + 1) \ {1}
  <2>1. ASSUME NEW j \in 1..(n + 1), j # 1 PROVE \E i \in 1..n : j = up[i]
    <3>1. j - 1 \in 1..n /\ up[j - 1] = j
      BY <1>1, <2>1
    <3> QED
      BY <3>1
  <2>2. \A i \in 1..n : up[i] \in 1..(n + 1) /\ up[i] # 1
    BY <1>1
  <2> QED
    BY <2>1, <2>2
<1>4. \A i, j \in 1..n : up[i] = up[j] => i = j
  BY <1>1
<1>5. /\ \A i \in 1..n : Worth(s)[up[i]] = Worth(t)[i]
      /\ \A i \in 1..n : Worth(t)[i] \in Int
  <2>1. \A i \in 1..n : up[i] \in DOMAIN s /\ i \in DOMAIN t /\ t[i] = s[up[i]]
    BY <1>1, <1>2
  <2>2. \A i \in 1..n : Worth(s)[up[i]] = Worth(t)[i]
    <3> HIDE DEF up
    <3> QED
      BY <2>1 DEF Worth
  <2>3. \A i \in DOMAIN t : Worth(t)[i] \in Nat
    BY <1>1, WorthType
  <2> QED
    BY <1>2, <2>2, <2>3
<1>6. SumFunctionOnSet(Worth(s), 1..(n + 1) \ {1}) = SumFunctionOnSet(Worth(t), 1..n)
  <2> HIDE DEF up
  <2>1. Integral(Worth(t), 1..n) /\ Renames(up, Worth(s), Worth(t), 1..n)
    BY <1>4, <1>5 DEF Integral, Renames
  <2>2. SumFunctionOnSet(Worth(s), Names(up, 1..n)) = SumFunctionOnSet(Worth(t), 1..n)
    BY <1>2, <2>1, SumRenamed
  <2> QED
    BY <1>3, <2>2 DEF Names
<1>7. \A i \in 1..(n + 1) : Worth(s)[i] \in Int
  <2>1. \A i \in DOMAIN s : Worth(s)[i] \in Nat
    BY WorthType
  <2> QED
    BY <1>2, <2>1
<1>8. 1 \in 1..(n + 1)
  BY <1>1
<1>9. SumFunctionOnSet(Worth(s), 1..(n + 1))
        = Worth(s)[1] + SumFunctionOnSet(Worth(s), 1..(n + 1) \ {1})
  BY <1>2, <1>7, <1>8, SumRemove
<1>10. Worth(s)[1] = Info[s[1]].value
  BY <1>2, <1>8 DEF Worth
<1>11. /\ ValueOf(t) = SumFunctionOnSet(Worth(t), DOMAIN t)
       /\ ValueOf(s) = SumFunctionOnSet(Worth(s), DOMAIN s)
  BY <1>1, WorthType
<1> QED
  BY <1>2, <1>6, <1>9, <1>10, <1>11 DEF t

-----------------------------------------------------------------------------
(***************************************************************************)
(* FundsMatch: the total moves with the selection, until the list has as   *)
(* many outputs as the limit allows; from there on it keeps that length.   *)
(***************************************************************************)
Funds == TypeOK /\ FundsMatch

LEMMA FundsStep ==
    ASSUME Funds, AddUnspentOutput
    PROVE  FundsMatch'
<1> DEFINE u == Head(page)
           added == Append(selected, u)
<1>1. u \in Utxo /\ Info[u].value \in Nat
  <2>1. u \in Utxo
    BY DEF AddUnspentOutput, Funds, TypeOK
  <2> QED
    BY <2>1, UtxoAssumption DEF UnspentOutput
<1>2. /\ added \in Seq(Utxo) /\ added # <<>> /\ Len(added) = Len(selected) + 1
      /\ selected \in Seq(Utxo) /\ Len(selected) \in Nat
  BY <1>1, AppendProperties DEF Funds, TypeOK
<1>3. ValueOf(added) = ValueOf(selected) + Info[u].value /\ ValueOf(selected) \in Nat
  BY <1>1, <1>2, ValueAppend, WorthType
<1>4. /\ selected' = Kept(added) /\ total' = total + Info[u].value - Excluded(added)
      /\ req' = req
  BY DEF AddUnspentOutput
<1>5. total \in Int /\ req.limit \in Nat \cup {NoLimit}
  BY RequestAssumption DEF Funds, TypeOK
<1> HIDE DEF u, added
<1>6. CASE ~Exceeds(added)
  <2>1. selected' = added /\ total' = total + Info[u].value
    BY <1>1, <1>4, <1>5, <1>6 DEF Kept, Excluded
  <2>2. ValueOf(selected)' = ValueOf(selected) + Info[u].value
    BY <1>3, <2>1 DEF ValueOf
  <2>3. req.limit # NoLimit => Len(added) <= req.limit
    BY <1>2, <1>5, <1>6 DEF Exceeds
  <2>4. NoneExcluded(added) => NoneExcluded(selected)
    BY <1>2, <1>5 DEF NoneExcluded
  <2>5. NoneExcluded(added) => total' = ValueOf(added)
    BY <1>1, <1>3, <2>1, <2>4 DEF FundsMatch, Funds
  <2>6. NoneExcluded(selected)' = NoneExcluded(added)
    BY <1>4, <2>1 DEF NoneExcluded
  <2>7. ValueOf(selected)' = ValueOf(added)
    BY <2>1 DEF ValueOf
  <2> QED
    BY <1>4, <2>1, <2>3, <2>5, <2>6, <2>7 DEF FundsMatch
<1>7. CASE Exceeds(added)
  <2>1. selected' = Tail(added) /\ req.limit # NoLimit /\ Len(added) > req.limit
    BY <1>4, <1>7 DEF Kept, Exceeds
  <2>2. Len(Tail(added)) = Len(selected)
    BY <1>2, HeadTailProperties
  <2>3. Len(selected) = req.limit
    <3>1. Len(selected) <= req.limit
      BY <2>1 DEF Funds, FundsMatch
    <3> QED
      BY <1>2, <1>5, <2>1, <3>1
  <2> QED
    BY <1>4, <1>5, <2>1, <2>2, <2>3 DEF FundsMatch, NoneExcluded
<1> QED
  BY <1>6, <1>7

LEMMA FundsKept == Funds /\ TypeOK' /\ [Next]_vars => Funds'
<1> SUFFICES ASSUME Funds, TypeOK', [Next]_vars PROVE FundsMatch'
  BY DEF Funds
<1>1. CASE UNCHANGED <<req, selected, total>>
  BY <1>1 DEF Funds, FundsMatch, NoneExcluded, ValueOf
<1>2. CASE SelectAgain
  <2>1. selected' = <<>> /\ total' = 0 /\ req' \in Request /\ Len(<<>>) = 0
    BY <1>2 DEF SelectAgain
  <2>2. req.limit' \in Nat \cup {NoLimit}
    BY <2>1, RequestAssumption
  <2>3. ValueOf(selected)' = 0
    BY <2>1, ValueEmpty DEF ValueOf
  <2> QED
    BY <2>1, <2>2, <2>3 DEF FundsMatch
<1>3. CASE Step \/ UNCHANGED vars
  <2>1. AddUnspentOutput \/ UNCHANGED <<req, selected, total>>
    BY <1>3 DEF Step, SelectDust, Select, nextUtxoList, nextUtxoListEmpty, EndOfPage,
                Settle, vars
  <2> QED
    BY <1>1, <2>1, FundsStep
<1> QED
  BY <1>2, <1>3 DEF Next

LEMMA FundsInv == Spec => []Funds
<1>1. Init => Funds
  <2> SUFFICES ASSUME Init PROVE Funds
    OBVIOUS
  <2>1. TypeOK
    BY DEF Init, TypeOK, Outcome, Pending
  <2>2. selected = <<>> /\ total = 0 /\ req \in Request /\ Len(selected) = 0
    BY DEF Init
  <2>3. req.limit \in Nat \cup {NoLimit}
    BY <2>2, RequestAssumption
  <2> QED
    BY <2>1, <2>2, <2>3, ValueEmpty DEF Funds, FundsMatch
<1> QED
  BY <1>1, FundsKept, TypeCorrect, PTL DEF Spec

\* Until an output is excluded the running total is the value of the outputs
\* selected, and the limit is kept, for every wallet, request and paging: no
\* money is created or lost.
THEOREM TotalIsSelected == Spec => []FundsMatch
<1>1. Funds => FundsMatch
  BY DEF Funds
<1> QED
  BY <1>1, FundsInv, PTL

\* What select returns pays for itself, for every wallet, page order and request:
\* where none was excluded for the limit, the outputs it returns are worth the
\* recipient's value, the change and the fee.
THEOREM SelectionPaysItsFee == Spec => []PaidInFull
<1>1. Inv /\ FundsMatch => PaidInFull
  <2> SUFFICES ASSUME Inv, FundsMatch, outcome.kind \in {"exact", "change"},
                      NoneExcluded(outcome.outputs)
               PROVE  ValueOf(outcome.outputs) = total
    BY DEF Inv, PaidByTotal, PaidInFull
  <2> QED
    BY DEF Inv, OutcomeAtEnd, FundsMatch
<1> QED
  BY <1>1, InvAlways, TotalIsSelected, PTL

-----------------------------------------------------------------------------
(***************************************************************************)
(* Sizes and fees depend on which outputs are spent, not on their order,   *)
(* and grow with them.                                                     *)
(***************************************************************************)
\* A list without repetitions has as many places for the outputs in P as there
\* are such outputs in it.
LEMMA PlacesCount ==
    ASSUME NEW s \in Seq(Utxo), IsInjective(s), NEW P
    PROVE  /\ Cardinality({i \in DOMAIN s : s[i] \in P}) = Cardinality(Range(s) \cap P)
           /\ IsFiniteSet(Range(s)) /\ Range(s) \subseteq Utxo
<1> DEFINE Place == {i \in DOMAIN s : s[i] \in P}
           at == [i \in Place |-> s[i]]
<1>1. IsFiniteSet(Place)
  BY WorthType, FS_Subset
<1>2. at \in Bijection(Place, Range(s) \cap P)
  BY DEF Bijection, Injection, Surjection, IsInjective, Range
<1>3. Cardinality(Range(s) \cap P) = Cardinality(Place)
  <2>1. ExistsBijection(Place, Range(s) \cap P)
    BY <1>2 DEF ExistsBijection
  <2> HIDE DEF Place
  <2> QED
    BY <1>1, <2>1, FS_Bijection
<1>4. Range(s) \subseteq Utxo
  BY WorthType DEF Range
<1> QED
  BY <1>3, <1>4, UtxoAssumption, FS_Subset

\* What the calculator counts, in terms of the set of outputs spent
OfType(T) == {u \in Utxo : Info[u].scriptType \in T}
Redeemable == {u \in Utxo : Info[u].scriptType = "P2SH" /\ Info[u].redeemScript}

LEMMA CountsOfSet ==
    ASSUME NEW s \in Seq(Utxo), IsInjective(s)
    PROVE  /\ \A T : Spending(Outputs(s), T) = Cardinality(Range(s) \cap OfType(T))
           /\ RedeemingP2SH(Outputs(s)) = Cardinality(Range(s) \cap Redeemable)
           /\ Len(Outputs(s)) = Cardinality(Range(s))
<1>1. /\ DOMAIN Outputs(s) = DOMAIN s /\ DOMAIN s = 1..Len(s) /\ Len(s) \in Nat
      /\ \A i \in DOMAIN s : s[i] \in Utxo /\ Outputs(s)[i] = Info[s[i]]
  BY WorthType DEF Outputs
<1>2. ASSUME NEW T
      PROVE  Spending(Outputs(s), T) = Cardinality(Range(s) \cap OfType(T))
  <2>1. {i \in DOMAIN Outputs(s) : Outputs(s)[i].scriptType \in T}
          = {i \in DOMAIN s : s[i] \in OfType(T)}
    BY <1>1 DEF OfType
  <2> QED
    BY <2>1, PlacesCount DEF Spending
<1>3. RedeemingP2SH(Outputs(s)) = Cardinality(Range(s) \cap Redeemable)
  <2>1. {i \in DOMAIN Outputs(s) : /\ Outputs(s)[i].scriptType = "P2SH"
                                   /\ Outputs(s)[i].redeemScript}
          = {i \in DOMAIN s : s[i] \in Redeemable}
    BY <1>1 DEF Redeemable
  <2> QED
    BY <2>1, PlacesCount DEF RedeemingP2SH
<1>4. Len(Outputs(s)) = Cardinality(Range(s))
  <2>1. {i \in DOMAIN s : s[i] \in Range(s)} = 1..Len(s) /\ Range(s) \cap Range(s) = Range(s)
    BY <1>1 DEF Range
  <2>2. Cardinality(1..Len(s)) = Cardinality(Range(s))
    BY <2>1, PlacesCount
  <2>3. Cardinality(1..Len(s)) = Len(s)
    BY <1>1, FS_Interval
  <2>4. Len(Outputs(s)) = Len(s)
    BY <1>1, OutputsType
  <2> QED
    BY <2>2, <2>3, <2>4
<1> QED
  BY <1>2, <1>3, <1>4

\* A product grows with its first factor.
LEMMA ProductGrows ==
    ASSUME NEW a \in Nat, NEW b \in Nat, NEW c \in Nat, a <= b
    PROVE  a * c <= b * c /\ c * a <= c * b
<1>1. PICK d \in Nat : b = a + d
  <2>1. b - a \in Nat /\ b = a + (b - a)
    OBVIOUS
  <2> QED
    BY <2>1
<1>2. b * c = a * c + d * c
  BY <1>1
<1>3. d * c \in Nat /\ a * c \in Nat /\ a * c = c * a /\ b * c = c * b
  BY <1>1, ProductType
<1> QED
  BY <1>2, <1>3

LEMMA ToBytesGrows ==
    ASSUME NEW v \in Nat, NEW w \in Nat, v <= w
    PROVE  toBytes(v) <= toBytes(w) /\ (v > 0 => toBytes(v) > 0)
  BY DEF toBytes

\* A transaction that spends more outputs, and pays more, is not smaller.
LEMMA SizeGrows ==
    ASSUME NEW s \in Seq(Utxo), NEW t \in Seq(Utxo), IsInjective(s), IsInjective(t),
           Range(s) \subseteq Range(t), NEW m \in Nat, NEW n \in Nat, m <= n
    PROVE  /\ transactionSize(Outputs(s), m) <= transactionSize(Outputs(t), n)
           /\ transactionSize(Outputs(s), m) \in Nat \ {0}
<1> DEFINE a == Outputs(s)
           b == Outputs(t)
<1>1. /\ \A P : /\ Cardinality(Range(s) \cap P) \in Nat /\ Cardinality(Range(t) \cap P) \in Nat
                /\ Cardinality(Range(s) \cap P) <= Cardinality(Range(t) \cap P)
      /\ Cardinality(Range(s)) \in Nat /\ Cardinality(Range(t)) \in Nat
      /\ Cardinality(Range(s)) <= Cardinality(Range(t))
  <2>1. IsFiniteSet(Range(s)) /\ IsFiniteSet(Range(t))
    BY PlacesCount
  <2>2. ASSUME NEW P
        PROVE  /\ Cardinality(Range(s) \cap P) \in Nat /\ Cardinality(Range(t) \cap P) \in Nat
               /\ Cardinality(Range(s) \cap P) <= Cardinality(Range(t) \cap P)
    <3>1. IsFiniteSet(Range(s) \cap P) /\ IsFiniteSet(Range(t) \cap P)
      BY <2>1, FS_Intersection
    <3>2. Range(s) \cap P \subseteq Range(t) \cap P
      OBVIOUS
    <3> QED
      BY <3>1, <3>2, FS_CardinalityType, FS_Subset
  <2> QED
    BY <2>1, <2>2, FS_CardinalityType, FS_Subset
<1>2. ASSUME NEW T
      PROVE  /\ Spending(a, T) \in Nat /\ Spending(b, T) \in Nat
             /\ Spending(a, T) <= Spending(b, T)
  <2>1. /\ Spending(a, T) = Cardinality(Range(s) \cap OfType(T))
        /\ Spending(b, T) = Cardinality(Range(t) \cap OfType(T))
    BY CountsOfSet
  <2> QED
    BY <1>1, <2>1
<1>3. /\ RedeemingP2SH(a) \in Nat /\ RedeemingP2SH(b) \in Nat
      /\ RedeemingP2SH(a) <= RedeemingP2SH(b)
      /\ Len(a) \in Nat /\ Len(b) \in Nat /\ Len(a) <= Len(b)
  <2>1. /\ RedeemingP2SH(a) = Cardinality(Range(s) \cap Redeemable)
        /\ RedeemingP2SH(b) = Cardinality(Range(t) \cap Redeemable)
        /\ Len(a) = Cardinality(Range(s)) /\ Len(b) = Cardinality(Range(t))
    BY CountsOfSet
  <2> QED
    BY <1>1, <2>1
<1> HIDE DEF a, b
<1> DEFINE k == signatureLength + pubKeyLength + RedeemPush
<1>4. k \in Nat
  BY RedeemPushAssumption DEF signatureLength, pubKeyLength
<1>5. k * RedeemingP2SH(a) <= k * RedeemingP2SH(b) /\ k * RedeemingP2SH(a) \in Nat
        /\ k * RedeemingP2SH(b) \in Nat
  <2> HIDE DEF k
  <2> QED
    BY <1>3, <1>4, ProductGrows, ProductType
<1>6. /\ ScriptSigBytes(a) \in Nat /\ ScriptSigBytes(b) \in Nat
      /\ ScriptSigBytes(a) <= ScriptSigBytes(b)
  <2>1. ScriptSigBytes(a) = 73 * Spending(a, {"P2PK"}) + 107 * Spending(a, {"P2PKH"})
              + 23 * Spending(a, {"P2SHWPKH", "P2SHWSH"}) + k * RedeemingP2SH(a)
    BY DEF ScriptSigBytes, signatureLength, pubKeyLength, p2shwpkhLength
  <2>2. ScriptSigBytes(b) = 73 * Spending(b, {"P2PK"}) + 107 * Spending(b, {"P2PKH"})
              + 23 * Spending(b, {"P2SHWPKH", "P2SHWSH"}) + k * RedeemingP2SH(b)
    BY DEF ScriptSigBytes, signatureLength, pubKeyLength, p2shwpkhLength
  <2>3. PICK x1 \in Nat, y1 \in Nat : /\ x1 = Spending(a, {"P2PK"}) /\ x1 <= y1
                                      /\ y1 = Spending(b, {"P2PK"})
    BY <1>2
  <2>4. PICK x2 \in Nat, y2 \in Nat : /\ x2 = Spending(a, {"P2PKH"}) /\ x2 <= y2
                                      /\ y2 = Spending(b, {"P2PKH"})
    BY <1>2
  <2>5. PICK x3 \in Nat, y3 \in Nat : /\ x3 = Spending(a, {"P2SHWPKH", "P2SHWSH"}) /\ x3 <= y3
                                      /\ y3 = Spending(b, {"P2SHWPKH", "P2SHWSH"})
    BY <1>2
  <2>6. PICK x4 \in Nat, y4 \in Nat : /\ x4 = k * RedeemingP2SH(a) /\ x4 <= y4
                                      /\ y4 = k * RedeemingP2SH(b)
    BY <1>5
  <2>7. /\ ScriptSigBytes(a) = 73 * x1 + 107 * x2 + 23 * x3 + x4
        /\ ScriptSigBytes(b) = 73 * y1 + 107 * y2 + 23 * y3 + y4
    BY <2>1, <2>2, <2>3, <2>4, <2>5, <2>6
  <2>8. x1 <= y1 /\ x2 <= y2 /\ x3 <= y3 /\ x4 <= y4
    BY <2>3, <2>4, <2>5, <2>6
  <2>9. /\ 73 * x1 + 107 * x2 + 23 * x3 + x4 \in Nat
        /\ 73 * y1 + 107 * y2 + 23 * y3 + y4 \in Nat
        /\ 73 * x1 + 107 * x2 + 23 * x3 + x4 <= 73 * y1 + 107 * y2 + 23 * y3 + y4
    BY <2>8
  <2> QED
    BY <2>7, <2>9
<1>7. InputBytes(a) \in Nat /\ InputBytes(b) \in Nat /\ InputBytes(a) <= InputBytes(b)
  BY <1>3, <1>6 DEF InputBytes
<1>8. /\ WitnessWeight(a) \in Nat /\ WitnessWeight(b) \in Nat
      /\ WitnessWeight(a) <= WitnessWeight(b)
  BY <1>2 DEF WitnessWeight, witnessData, legacyWitnessData, signatureLength, pubKeyLength
<1> DEFINE weight(outs, x) ==
               (IF Spending(outs, WitnessType) > 0 THEN witnessTx ELSE legacyTx)
                 + (4 * InputBytes(outs)
                      + (IF Spending(outs, WitnessType) > 0 THEN WitnessWeight(outs) ELSE 0))
                 + 4 * x
<1>9. weight(a, m) \in Nat /\ weight(b, n) \in Nat /\ weight(a, m) <= weight(b, n)
        /\ weight(a, m) > 0
  <2>1. /\ Spending(a, WitnessType) \in Nat /\ Spending(b, WitnessType) \in Nat
        /\ Spending(a, WitnessType) <= Spending(b, WitnessType)
    BY <1>2
  <2>2. witnessTx = 42 /\ legacyTx = 40
    BY DEF witnessTx, legacyTx
  <2>3. PICK x1 \in Nat, y1 \in Nat : /\ x1 = Spending(a, WitnessType) /\ x1 <= y1
                                      /\ y1 = Spending(b, WitnessType)
    BY <2>1
  <2>4. PICK x2 \in Nat, y2 \in Nat : x2 = InputBytes(a) /\ y2 = InputBytes(b) /\ x2 <= y2
    BY <1>7
  <2>5. PICK x3 \in Nat, y3 \in Nat : x3 = WitnessWeight(a) /\ y3 = WitnessWeight(b) /\ x3 <= y3
    BY <1>8
  <2>6. /\ weight(a, m) = (IF x1 > 0 THEN 42 ELSE 40) + (4 * x2 + (IF x1 > 0 THEN x3 ELSE 0)) + 4 * m
        /\ weight(b, n) = (IF y1 > 0 THEN 42 ELSE 40) + (4 * y2 + (IF y1 > 0 THEN y3 ELSE 0)) + 4 * n
    BY <2>2, <2>3, <2>4, <2>5
  <2>7. x1 <= y1 /\ x2 <= y2 /\ x3 <= y3
    BY <2>3, <2>4, <2>5
  <2> DEFINE v == (IF x1 > 0 THEN 42 ELSE 40) + (4 * x2 + (IF x1 > 0 THEN x3 ELSE 0)) + 4 * m
             w == (IF y1 > 0 THEN 42 ELSE 40) + (4 * y2 + (IF y1 > 0 THEN y3 ELSE 0)) + 4 * n
  <2>8. v \in Nat /\ w \in Nat /\ v <= w /\ v > 0
    BY <2>7
  <2> HIDE DEF k, weight
  <2> QED
    BY <2>6, <2>8
<1>10. /\ transactionSize(a, m) = toBytes(weight(a, m))
       /\ transactionSize(b, n) = toBytes(weight(b, n))
  BY DEF transactionSize
<1>11. /\ toBytes(weight(a, m)) <= toBytes(weight(b, n)) /\ toBytes(weight(a, m)) > 0
       /\ toBytes(weight(a, m)) \in Nat
  <2> HIDE DEF weight
  <2> QED
    BY <1>9, ToBytesGrows, ToBytesType
<1> QED
  BY <1>10, <1>11 DEF a, b

-----------------------------------------------------------------------------
(***************************************************************************)
(* UtxoSelector implements CoinSelection. The promise speaks of the whole  *)
(* wallet, the loop of what it has seen of it.                             *)
(***************************************************************************)
\* Both modules count, sum and size a transaction in the same way.
LEMMA SameCount == \A S : Promise!Cardinality(S) = Cardinality(S)
  BY DEF Promise!Cardinality, Cardinality

LEMMA SameSum == \A f : Promise!SumFunction(f) = SumFunction(f)
  BY DEF Promise!SumFunction, SumFunction, Promise!SumFunctionOnSet, SumFunctionOnSet,
         Promise!FoldFunctionOnSet, FoldFunctionOnSet, Promise!MapThenFoldSet, MapThenFoldSet

LEMMA SameSize == \A outs, n : Promise!transactionSize(outs, n) = transactionSize(outs, n)
<1> SUFFICES ASSUME NEW outs, NEW n
             PROVE  Promise!transactionSize(outs, n) = transactionSize(outs, n)
  OBVIOUS
<1>1. \A T : Promise!Spending(outs, T) = Spending(outs, T)
  BY SameCount DEF Promise!Spending, Spending
<1>2. Promise!RedeemingP2SH(outs) = RedeemingP2SH(outs)
  BY SameCount DEF Promise!RedeemingP2SH, RedeemingP2SH
<1>3. /\ Promise!signatureLength = signatureLength /\ Promise!pubKeyLength = pubKeyLength
      /\ Promise!p2shwpkhLength = p2shwpkhLength
  BY DEF Promise!signatureLength, signatureLength, Promise!pubKeyLength, pubKeyLength,
         Promise!p2shwpkhLength, p2shwpkhLength
<1>4. Promise!InputBytes(outs) = InputBytes(outs)
  BY <1>1, <1>2, <1>3 DEF Promise!InputBytes, InputBytes, Promise!ScriptSigBytes, ScriptSigBytes
<1>5. Promise!WitnessType = WitnessType /\ Promise!ScriptType = ScriptType
  BY DEF Promise!WitnessType, WitnessType, Promise!ScriptType, ScriptType
<1>6. Promise!WitnessWeight(outs) = WitnessWeight(outs)
  BY <1>1, <1>3, <1>5 DEF Promise!WitnessWeight, WitnessWeight, Promise!witnessData, witnessData,
                          Promise!legacyWitnessData, legacyWitnessData
<1>7. Promise!legacyTx = legacyTx /\ Promise!witnessTx = witnessTx
  BY DEF Promise!legacyTx, legacyTx, Promise!witnessTx, witnessTx
<1>8. \A w : Promise!toBytes(w) = toBytes(w)
  BY DEF Promise!toBytes, toBytes
<1> QED
  BY <1>1, <1>4, <1>5, <1>6, <1>7, <1>8 DEF Promise!transactionSize, transactionSize

LEMMA SameOutputSize == \A t : Promise!outputSize(t) = outputSize(t)
  BY DEF Promise!outputSize, outputSize, Promise!lockingScriptSize, lockingScriptSize

\* The sum over a list of one or two output types
LEMMA OutputSizes ==
    ASSUME NEW a, NEW b
    PROVE  /\ SumFunction([i \in DOMAIN <<a>> |-> Promise!outputSize(<<a>>[i])]) = outputSize(a)
           /\ SumFunction([i \in DOMAIN <<a, b>> |-> Promise!outputSize(<<a, b>>[i])])
                = outputSize(a) + outputSize(b)
<1> DEFINE f == [i \in DOMAIN <<a>> |-> Promise!outputSize(<<a>>[i])]
           g == [i \in DOMAIN <<a, b>> |-> Promise!outputSize(<<a, b>>[i])]
<1>1. DOMAIN f = {1} /\ f[1] = outputSize(a) /\ outputSize(a) \in Nat /\ outputSize(b) \in Nat
  BY SameOutputSize, OutputSizeType
<1>2. DOMAIN g = {1, 2} /\ g[1] = outputSize(a) /\ g[2] = outputSize(b)
  BY SameOutputSize
<1> HIDE DEF f, g
<1>3. /\ IsFiniteSet({1}) /\ {1} = {} \cup {1} /\ 1 \notin {} /\ IsFiniteSet({})
      /\ {1, 2} = {1} \cup {2} /\ 2 \notin {1}
  <2>1. IsFiniteSet({1}) /\ IsFiniteSet({})
    BY FS_EmptySet, FS_Singleton
  <2> QED
    BY <2>1
<1>4. SumFunctionOnSet(f, {1}) = f[1] + SumFunctionOnSet(f, {})
  <2>1. \A y \in {} \cup {1} : f[y] \in Int
    BY <1>1
  <2>2. SumFunctionOnSet(f, {} \cup {1}) = f[1] + SumFunctionOnSet(f, {})
    BY <1>3, <2>1, SumAdd
  <2> QED
    BY <1>3, <2>2
<1>5. SumFunctionOnSet(g, {1}) = g[1] + SumFunctionOnSet(g, {})
  <2>1. \A y \in {} \cup {1} : g[y] \in Int
    BY <1>1, <1>2
  <2>2. SumFunctionOnSet(g, {} \cup {1}) = g[1] + SumFunctionOnSet(g, {})
    BY <1>3, <2>1, SumAdd
  <2> QED
    BY <1>3, <2>2
<1>6. SumFunctionOnSet(g, {1, 2}) = g[2] + SumFunctionOnSet(g, {1})
  <2>1. \A y \in {1} \cup {2} : g[y] \in Int
    BY <1>1, <1>2
  <2>2. SumFunctionOnSet(g, {1} \cup {2}) = g[2] + SumFunctionOnSet(g, {1})
    BY <1>3, <2>1, SumAdd
  <2> QED
    BY <1>3, <2>2
<1>7. SumFunctionOnSet(f, {}) = 0 /\ SumFunctionOnSet(g, {}) = 0
  BY SumEmpty
<1>8. SumFunction(f) = outputSize(a) /\ SumFunction(g) = outputSize(a) + outputSize(b)
  BY <1>1, <1>2, <1>4, <1>5, <1>6, <1>7 DEF SumFunction
<1> QED
  BY <1>8 DEF f, g

\* The fees of the promise are those of the selector.
SizeOf(s, a) == transactionSize(Outputs(s), outputSize(a))
SizeOfBoth(s, a, b) == transactionSize(Outputs(s), outputSize(a) + outputSize(b))

LEMMA SameFee ==
    /\ \A s, a : Promise!transactionSize([i \in DOMAIN s |-> Info[s[i]]],
           Promise!SumFunction([i \in DOMAIN <<a>> |-> Promise!outputSize(<<a>>[i])]))
         = SizeOf(s, a)
    /\ \A s, a, b : Promise!transactionSize([i \in DOMAIN s |-> Info[s[i]]],
           Promise!SumFunction([i \in DOMAIN <<a, b>> |-> Promise!outputSize(<<a, b>>[i])]))
         = SizeOfBoth(s, a, b)
  BY SameSize, SameSum, OutputSizes DEF SizeOf, SizeOfBoth, Outputs

-----------------------------------------------------------------------------
\* A list, one output longer
LEMMA AppendParts ==
    ASSUME NEW s \in Seq(Utxo), NEW u \in Utxo
    PROVE  /\ Append(s, u) \in Seq(Utxo) /\ Append(s, u) # <<>>
           /\ Range(Append(s, u)) = Range(s) \cup {u}
           /\ IsInjective(s) /\ u \notin Range(s) => IsInjective(Append(s, u))
<1> DEFINE t == Append(s, u)
           n == Len(s)
<1>1. /\ t \in Seq(Utxo) /\ Len(t) = n + 1 /\ n \in Nat
      /\ \A i \in 1..n : t[i] = s[i]
      /\ t[n + 1] = u
  BY AppendProperties
<1> HIDE DEF t, n
<1>2. DOMAIN s = 1..n /\ DOMAIN t = 1..(n + 1)
  BY <1>1, WorthType DEF n
<1>3. 1..(n + 1) = (1..n) \cup {n + 1} /\ n + 1 \notin 1..n
  BY <1>1
<1>4. Range(t) = Range(s) \cup {u}
  BY <1>1, <1>2, <1>3 DEF Range
<1>5. IsInjective(s) /\ u \notin Range(s) => IsInjective(t)
  BY <1>1, <1>2, <1>3 DEF Range, IsInjective
<1>6. t # <<>>
  BY <1>1, EmptySeq
<1> QED
  BY <1>1, <1>4, <1>5, <1>6 DEF t

\* A list without repetitions, and what is left of it without its first output
LEMMA TailParts ==
    ASSUME NEW s \in Seq(Utxo), s # <<>>, IsInjective(s)
    PROVE  /\ Head(s) \in Utxo /\ Tail(s) \in Seq(Utxo)
           /\ Range(s) = Range(Tail(s)) \cup {Head(s)}
           /\ Head(s) \notin Range(Tail(s)) /\ IsInjective(Tail(s))
<1> DEFINE t == Tail(s)
           n == Len(s) - 1
<1>1. /\ t \in Seq(Utxo) /\ Len(t) = n /\ n \in Nat /\ Len(s) = n + 1
      /\ \A i \in 1..n : t[i] = s[i + 1]
      /\ Head(s) = s[1] /\ Head(s) \in Utxo
  BY HeadTailProperties, EmptySeq
<1> HIDE DEF t, n
<1>2. DOMAIN s = 1..(n + 1) /\ DOMAIN t = 1..n
  BY <1>1, WorthType
<1>3. /\ \A i \in DOMAIN t : t[i] = s[i + 1] /\ i + 1 \in DOMAIN s /\ i + 1 # 1 /\ i \in Nat
      /\ 1 \in DOMAIN s
  BY <1>1, <1>2
<1>4. \A j \in DOMAIN s : s[j] = Head(s) \/ \E i \in DOMAIN t : s[j] = t[i]
  <2> SUFFICES ASSUME NEW j \in DOMAIN s, j # 1
               PROVE  \E i \in DOMAIN t : s[j] = t[i]
    BY <1>1
  <2>1. j - 1 \in 1..n /\ (j - 1) + 1 = j
    BY <1>1, <1>2
  <2> QED
    BY <1>2, <1>3, <2>1
<1>5. Range(s) = Range(t) \cup {Head(s)}
  <2>1. ASSUME NEW x \in Range(s) PROVE x \in Range(t) \cup {Head(s)}
    BY <1>4 DEF Range
  <2>2. ASSUME NEW x \in Range(t) \cup {Head(s)} PROVE x \in Range(s)
    BY <1>1, <1>3 DEF Range
  <2> QED
    BY <2>1, <2>2
<1>6. Head(s) \notin Range(t)
  BY <1>1, <1>2, <1>3 DEF Range, IsInjective
<1>7. IsInjective(t)
  <2> SUFFICES ASSUME NEW a \in DOMAIN t, NEW b \in DOMAIN t, t[a] = t[b]
               PROVE  a = b
    BY DEF IsInjective
  <2>1. a + 1 = b + 1
    BY <1>3 DEF IsInjective
  <2> QED
    BY <1>3, <2>1
<1> QED
  BY <1>1, <1>5, <1>6, <1>7 DEF t

\* Lists of the same outputs, each once, are worth the same.
LEMMA ValueOfSet ==
    ASSUME NEW s \in Seq(Utxo), NEW t \in Seq(Utxo), IsInjective(s), IsInjective(t),
           Range(s) = Range(t)
    PROVE  ValueOf(s) = ValueOf(t)
<1> DEFINE value == [u \in Utxo |-> Info[u].value]
<1>1. ASSUME NEW r \in Seq(Utxo), IsInjective(r)
      PROVE  ValueOf(r) = SumFunctionOnSet(value, Range(r))
  <2>1. IsFiniteSet(DOMAIN r) /\ Integral(Worth(r), DOMAIN r)
    BY WorthType DEF Integral
  <2>2. Renames(r, value, Worth(r), DOMAIN r)
    BY <1>1, WorthType DEF Renames, IsInjective, Worth
  <2>3. SumFunctionOnSet(value, Names(r, DOMAIN r)) = SumFunctionOnSet(Worth(r), DOMAIN r)
    BY <2>1, <2>2, SumRenamed
  <2>4. Names(r, DOMAIN r) = Range(r)
    BY DEF Names, Range
  <2> QED
    BY <2>3, <2>4, WorthType
<1> QED
  BY <1>1

\* The whole wallet as a list
LEMMA WalletList ==
    /\ Promise!Wallet \in Seq(Utxo) /\ IsInjective(Promise!Wallet)
    /\ Range(Promise!Wallet) = Utxo
<1> DEFINE w == Promise!Wallet
<1>1. PICK n \in Nat : ExistsBijection(1..n, Utxo)
  BY UtxoAssumption, FS_NatBijection
<1>2. Cardinality(Utxo) = n
  BY <1>1, FS_CountingElements
<1>3. \E f \in [1..n -> Utxo] : IsInjective(f)
  BY <1>1 DEF ExistsBijection, Bijection, Injection, IsInjective
<1>4. \A f : Promise!IsInjective(f) <=> IsInjective(f)
  BY DEF Promise!IsInjective, IsInjective
<1>5. w = CHOOSE f \in [1..n -> Utxo] : Promise!IsInjective(f)
  BY <1>2, SameCount DEF Promise!Wallet, Promise!SetToSeq
<1>6. w \in [1..n -> Utxo] /\ IsInjective(w)
  BY <1>3, <1>4, <1>5
<1> HIDE DEF w
<1>7. w \in Seq(Utxo) /\ Len(w) = n
  BY <1>6
<1>8. Cardinality(Range(w)) = n
  <2>1. Len(Outputs(w)) = Cardinality(Range(w))
    BY <1>6, <1>7, CountsOfSet
  <2>2. Outputs(w) = [i \in 1..n |-> Info[w[i]]]
    BY <1>6 DEF Outputs
  <2>3. Len(Outputs(w)) = n
    BY <2>2
  <2> QED
    BY <2>1, <2>3
<1>9. Range(w) = Utxo
  BY <1>2, <1>6, <1>7, <1>8, PlacesCount, UtxoAssumption, FS_Subset
<1> QED
  BY <1>6, <1>7, <1>9 DEF w

-----------------------------------------------------------------------------
(***************************************************************************)
(* The scan, where no limit is set: every output of the wallet is selected, *)
(* on the rest of the page or unseen, and in one place only. A fee rate of  *)
(* zero would break this, since the rest of a page is then skipped.         *)
(***************************************************************************)
PositiveRates == \A r \in Request : r.feeRate > 0

Parted ==
    /\ IsInjective(selected) /\ IsInjective(page)
    /\ Range(selected) \cap Range(page) = {}
    /\ Range(selected) \cap unseen = {}
    /\ Range(page) \cap unseen = {}
    /\ Range(selected) \cup Range(page) \cup unseen = Utxo

\* The scan goes on until it has enough or has seen everything.
Progress ==
    /\ pc # "scan" => page = <<>>
    /\ pc # "idle" => req.amount > req.dust
    /\ (pc = "scan" /\ page = <<>>) => selected # <<>>
    /\ pc = "settle" => unseen = {} \/ (selected # <<>> /\ total >= sent)

Scan == (req.limit = NoLimit /\ pc # "done") => Parted /\ Progress

\* At a positive rate no transaction is free.
LEMMA FeePositive ==
    ASSUME PositiveRates, req \in Request, NEW s \in Seq(Utxo), IsInjective(s)
    PROVE  feeAmount(s) \in Nat \ {0}
<1>1. /\ req.feeRate \in Nat \ {0}
      /\ outputSize(req.receiveType) \in Nat
  BY RequestAssumption, OutputSizeType DEF PositiveRates
<1>2. transactionSize(Outputs(s), outputSize(req.receiveType)) \in Nat \ {0}
  BY <1>1, SizeGrows
<1>3. \A a, b \in Nat \ {0} : a * b \in Nat \ {0}
  <2> SUFFICES ASSUME NEW a \in Nat \ {0}, NEW b \in Nat \ {0} PROVE a * b \in Nat \ {0}
    OBVIOUS
  <2>1. 1 * b <= a * b /\ a * b \in Nat
    BY ProductGrows, ProductType
  <2> QED
    BY <2>1
<1> QED
  BY <1>1, <1>2, <1>3 DEF feeAmount

\* A fee above zero keeps what is sent above what arrives, so the scan never
\* ends early: it takes the next output of the page.
LEMMA ScanTakesNext ==
    ASSUME PositiveRates, TypeOK, Parted, req.limit = NoLimit, AddUnspentOutput
    PROVE  /\ selected' = Append(selected, Head(page)) /\ page' = Tail(page)
           /\ IsInjective(selected') /\ selected' # <<>>
           /\ UNCHANGED <<pc, req, unseen, outcome>>
<1> DEFINE added == Append(selected, Head(page))
           fee == feeAmount(added)
<1>1. page # <<>> /\ page \in Seq(Utxo) /\ selected \in Seq(Utxo)
  BY DEF AddUnspentOutput, TypeOK
<1>2. Head(page) \in Utxo /\ Head(page) \in Range(page)
  BY <1>1, TailParts DEF Parted
<1>3. added \in Seq(Utxo) /\ IsInjective(added) /\ added # <<>>
  BY <1>1, <1>2, AppendParts DEF Parted
<1>4. Kept(added) = added
  BY DEF Kept, Exceeds
<1>5. fee \in Nat \ {0}
  BY <1>3, FeePositive DEF TypeOK
<1>6. /\ selected' = added /\ recipient' = RecipientAmount(fee) /\ sent' = SentAmount(fee)
      /\ UNCHANGED <<req, unseen>>
  BY <1>4 DEF AddUnspentOutput
<1>7. ~(sent' <= recipient')
  <2>1. req.amount \in Int
    BY RequestAssumption DEF TypeOK
  <2> HIDE DEF fee
  <2> QED
    BY <1>5, <1>6, <2>1 DEF RecipientAmount, SentAmount
<1>8. page' = Tail(page) /\ UNCHANGED <<pc, outcome>>
  BY <1>7 DEF AddUnspentOutput
<1> QED
  BY <1>3, <1>6, <1>8

LEMMA ScanPage ==
    ASSUME TypeOK, Parted, Progress, nextUtxoList
    PROVE  Parted' /\ page' # <<>>
<1>1. PICK p \in Pages(unseen) : page' = p /\ unseen' = unseen \ {p[i] : i \in DOMAIN p}
  BY DEF nextUtxoList
<1>2. p \in Seq(Utxo)
  BY <1>1, PageType DEF TypeOK
<1>3. PICK n \in 1..Cardinality(unseen) : p \in [1..n -> unseen]
  BY <1>1 DEF Pages
<1>4. n \in Nat /\ n >= 1
  <2>1. Cardinality(unseen) \in Nat
    BY UtxoAssumption, FS_Subset, FS_CardinalityType DEF TypeOK
  <2> QED
    BY <1>3, <2>1
<1>5. p # <<>>
  BY <1>3, <1>4
<1>6. IsInjective(p)
  BY <1>1 DEF Pages, IsInjective
<1>7. Range(p) \subseteq unseen /\ unseen' = unseen \ Range(p)
  BY <1>1, <1>3 DEF Range
<1>8. page = <<>> /\ selected' = selected
  BY DEF nextUtxoList, Progress
<1>9. Range(page) = {}
  BY <1>8 DEF Range
<1> QED
  BY <1>1, <1>5, <1>6, <1>7, <1>8, <1>9 DEF Parted

LEMMA ScanInv == ASSUME PositiveRates PROVE Spec => []Scan
<1>1. Range(<<>>) = {} /\ IsInjective(<<>>)
  BY DEF Range, IsInjective
<1>2. Init => Scan
  BY <1>1 DEF Init, Scan, Parted, Progress
<1>3. TypeOK /\ TypeOK' /\ Scan /\ [Next]_vars => Scan'
  <2> SUFFICES ASSUME TypeOK, TypeOK', Scan, [Next]_vars, req.limit' = NoLimit, pc' # "done"
               PROVE  Parted' /\ Progress'
    BY DEF Scan
  <2>1. CASE SelectAgain
    BY <1>1, <2>1 DEF SelectAgain, Parted, Progress
  <2>2. CASE ~SelectAgain
    <3>1. /\ req' = req /\ pc # "done" /\ Parted /\ Progress
      BY <2>2 DEF Next, Step, SelectDust, Select, nextUtxoList, nextUtxoListEmpty,
                  AddUnspentOutput, EndOfPage, Settle, Finish, vars, Scan
    <3>2. CASE Select
      BY <3>1, <3>2 DEF Select, Parted, Progress
    <3>3. CASE nextUtxoList
      <4>1. Parted' /\ page' # <<>>
        BY <3>1, <3>3, ScanPage
      <4> QED
        BY <3>1, <3>3, <4>1 DEF nextUtxoList, Progress
    <3>4. CASE nextUtxoListEmpty
      BY <3>1, <3>4 DEF nextUtxoListEmpty, Parted, Progress
    <3>5. CASE AddUnspentOutput
      <4>1. /\ selected' = Append(selected, Head(page)) /\ page' = Tail(page)
            /\ IsInjective(selected') /\ selected' # <<>>
            /\ UNCHANGED <<pc, req, unseen>>
        BY <3>1, <3>5, ScanTakesNext
      <4>2. pc = "scan" /\ page # <<>> /\ page \in Seq(Utxo) /\ selected \in Seq(Utxo)
        BY <3>5 DEF AddUnspentOutput, TypeOK
      <4>3. /\ Head(page) \in Utxo
            /\ Range(page) = Range(Tail(page)) \cup {Head(page)}
            /\ Head(page) \notin Range(Tail(page)) /\ IsInjective(Tail(page))
        BY <3>1, <4>2, TailParts DEF Parted
      <4>4. Range(selected') = Range(selected) \cup {Head(page)}
        BY <4>1, <4>2, <4>3, AppendParts
      <4>5. Parted'
        BY <3>1, <4>1, <4>3, <4>4 DEF Parted
      <4> QED
        BY <3>1, <4>1, <4>2, <4>5 DEF Progress
    <3>6. CASE EndOfPage
      BY <3>1, <3>6 DEF EndOfPage, Parted, Progress
    <3>7. CASE UNCHANGED vars
      BY <3>1, <3>7 DEF vars, Parted, Progress
    <3> QED
      BY <2>2, <3>2, <3>3, <3>4, <3>5, <3>6, <3>7 DEF Next, Step, SelectDust, Settle, Finish
  <2> QED
    BY <2>1, <2>2
<1> QED
  BY <1>2, <1>3, TypeCorrect, PTL DEF Spec

-----------------------------------------------------------------------------
(***************************************************************************)
(* What CoinSelection promises of the next outcome, in the words of the    *)
(* selector.                                                               *)
(***************************************************************************)
PaidBy(o) ==
    /\ o.kind \in {"exact", "change"}
    /\ Len(o.outputs) > 0 /\ IsInjective(o.outputs)
    /\ LET fee == IF o.kind = "exact" THEN feeAmount(o.outputs)
                  ELSE changeOutputHavingTransactionFee(o.outputs)
       IN  /\ o.recipientValue = RecipientAmount(fee)
           /\ o.kind = "exact" => ValueOf(o.outputs) >= o.recipientValue + fee
           /\ o.kind = "change" => /\ ValueOf(o.outputs) = o.recipientValue + o.changeValue + fee
                                   /\ o.changeValue >= req.dust

RefusedBy(o) ==
    \/ o = Thrown("EmptyOutputs") /\ Utxo = {}
    \/ /\ o = Thrown("InsufficientUnspentOutputs")
       /\ ValueOf(Promise!Wallet) < SentAmount(feeAmount(Promise!Wallet))
    \/ /\ o = Thrown("Dust")
       /\ \/ req.amount <= req.dust
          \/ /\ ~req.senderPay
             /\ RecipientAmount(changeOutputHavingTransactionFee(Promise!Wallet)) <= req.dust

LEMMA PromiseInWords ==
    ASSUME UNCHANGED req, PaidBy(outcome') \/ RefusedBy(outcome'), req \in Request
    PROVE  (Promise!Paid \/ Promise!Refused)'
<1>1. \A f : Promise!IsInjective(f) <=> IsInjective(f)
  BY DEF Promise!IsInjective, IsInjective
<1>2. \A s : Promise!Value(s) = ValueOf(s)
  BY SameSum DEF Promise!Value, ValueOf
<1>3. /\ \A s : feeAmount(s) = SizeOf(s, req.receiveType) * req.feeRate
      /\ \A s : changeOutputHavingTransactionFee(s)
                  = SizeOfBoth(s, req.receiveType, req.changeType) * req.feeRate
  BY DEF feeAmount, changeOutputHavingTransactionFee, SizeOf, SizeOfBoth
<1>4. CASE PaidBy(outcome')
  <2>1. CASE outcome'.kind = "exact"
    BY <1>1, <1>2, <1>3, <1>4, <2>1, SameFee
       DEF PaidBy, RecipientAmount, Promise!Paid, Promise!Spendable, Promise!Fee
  <2>2. CASE outcome'.kind = "change"
    BY <1>1, <1>2, <1>3, <1>4, <2>2, SameFee
       DEF PaidBy, RecipientAmount, Promise!Paid, Promise!Spendable, Promise!Fee
  <2> QED
    BY <1>4, <2>1, <2>2 DEF PaidBy
<1>5. CASE outcome' = Thrown("EmptyOutputs") /\ Utxo = {}
  BY <1>5 DEF Thrown, Promise!Refused
<1>6. CASE /\ outcome' = Thrown("InsufficientUnspentOutputs")
           /\ ValueOf(Promise!Wallet) < SentAmount(feeAmount(Promise!Wallet))
  <2>1. req.amount \in Int
    BY RequestAssumption
  <2> QED
    BY <1>2, <1>3, <1>6, <2>1, SameFee DEF Thrown, SentAmount, Promise!Refused, Promise!Fee
<1>7. CASE /\ outcome' = Thrown("Dust")
           /\ \/ req.amount <= req.dust
              \/ /\ ~req.senderPay
                 /\ RecipientAmount(changeOutputHavingTransactionFee(Promise!Wallet)) <= req.dust
  BY <1>3, <1>7, SameFee DEF Thrown, RecipientAmount, Promise!Refused, Promise!Fee
<1> QED
  BY <1>4, <1>5, <1>6, <1>7 DEF RefusedBy

\* The fees of a part of the wallet are at most those of the whole.
LEMMA FeeGrows ==
    ASSUME req \in Request, NEW s \in Seq(Utxo), IsInjective(s),
           NEW t \in Seq(Utxo), IsInjective(t), Range(s) \subseteq Range(t)
    PROVE  /\ feeAmount(s) <= feeAmount(t)
           /\ changeOutputHavingTransactionFee(s) <= changeOutputHavingTransactionFee(t)
<1>1. /\ req.feeRate \in Nat
      /\ outputSize(req.receiveType) \in Nat
      /\ outputSize(req.receiveType) + outputSize(req.changeType) \in Nat
  BY RequestAssumption, OutputSizeType
<1>2. ASSUME NEW n \in Nat
      PROVE  /\ transactionSize(Outputs(s), n) \in Nat
             /\ transactionSize(Outputs(t), n) \in Nat
             /\ transactionSize(Outputs(s), n) <= transactionSize(Outputs(t), n)
  <2>1. Range(t) \subseteq Range(t) /\ n <= n
    OBVIOUS
  <2> QED
    BY <2>1, SizeGrows
<1>3. ASSUME NEW n \in Nat
      PROVE  transactionSize(Outputs(s), n) * req.feeRate
               <= transactionSize(Outputs(t), n) * req.feeRate
  BY <1>1, <1>2, ProductGrows
<1> QED
  BY <1>1, <1>3 DEF feeAmount, changeOutputHavingTransactionFee

LEMMA SettledKeepsPromise ==
    ASSUME TypeOK, AmountsCurrent, FundsMatch, Parted, Progress,
           req.limit = NoLimit, pc = "settle"
    PROVE  PaidBy(Settled) \/ RefusedBy(Settled)
<1> DEFINE fee == feeAmount(selected)
           feeC == changeOutputHavingTransactionFee(selected)
           W == Promise!Wallet
<1>1. /\ fee \in Nat /\ feeC \in Nat /\ selected \in Seq(Utxo) /\ IsInjective(selected)
      /\ total = ValueOf(selected) /\ total \in Int /\ page = <<>> /\ req \in Request
  BY FeeType DEF TypeOK, Parted, Progress, FundsMatch, NoneExcluded
<1>2. req.senderPay \in BOOLEAN /\ req.amount \in Int /\ req.dust \in Nat
  BY RequestAssumption DEF TypeOK
<1>3. Range(page) = {}
  BY <1>1 DEF Range
<1>4. W \in Seq(Utxo) /\ IsInjective(W) /\ Range(W) = Utxo
  BY WalletList
<1>5. Range(selected) \subseteq Utxo /\ (unseen = {} => Range(selected) = Utxo)
  BY <1>3 DEF Parted
<1>6. CASE selected = <<>>
  <2>1. unseen = {} /\ Range(selected) = {}
    BY <1>6 DEF Progress, Range
  <2> QED
    BY <1>5, <1>6, <2>1 DEF Settled, RefusedBy
<1>7. ASSUME selected # <<>> PROVE Len(selected) > 0 /\ recipient = RecipientAmount(fee) /\ sent = SentAmount(fee)
  BY <1>1, <1>7, EmptySeq DEF AmountsCurrent
<1>8. CASE selected # <<>> /\ total < sent
  <2>1. Range(selected) = Range(W)
    BY <1>4, <1>5, <1>7, <1>8 DEF Progress, TypeOK
  <2>2. ValueOf(W) = total
    BY <1>1, <1>4, <2>1, ValueOfSet
  <2>3. feeAmount(W) = fee
    <3>1. feeAmount(W) \in Nat
      BY <1>1, <1>4, FeeType
    <3>2. feeAmount(W) <= fee /\ fee <= feeAmount(W)
      BY <1>1, <1>4, <2>1, FeeGrows
    <3> HIDE DEF fee, W
    <3> QED
      BY <1>1, <3>1, <3>2
  <2>4. ValueOf(W) < SentAmount(feeAmount(W))
    BY <1>7, <1>8, <2>2, <2>3
  <2> QED
    BY <1>8, <2>4 DEF Settled, RefusedBy
<1>9. CASE selected # <<>> /\ ~(total < sent) /\ ~NeedsChange
  <2>1. Settled = Exact(selected, recipient)
    BY <1>9 DEF Settled
  <2>2. ValueOf(selected) >= RecipientAmount(fee) + fee
    <3>1. total >= SentAmount(fee)
      BY <1>1, <1>2, <1>7, <1>9, AmountsType DEF TypeOK
    <3> HIDE DEF fee
    <3> QED
      BY <1>1, <1>2, <3>1 DEF RecipientAmount, SentAmount
  <2> QED
    BY <1>1, <1>7, <1>9, <2>1, <2>2 DEF PaidBy, Exact
<1>10. CASE selected # <<>> /\ ~(total < sent) /\ NeedsChange
  <2>1. CASE RecipientAmount(feeC) <= req.dust
    <3>1. Settled = Thrown("Dust")
      BY <1>10, <2>1 DEF Settled
    <3>2. feeC <= changeOutputHavingTransactionFee(W) /\ changeOutputHavingTransactionFee(W) \in Nat
      BY <1>1, <1>4, <1>5, FeeGrows, FeeType
    <3>3. ~req.senderPay
      BY <1>2, <2>1 DEF RecipientAmount, Progress
    <3>4. RecipientAmount(changeOutputHavingTransactionFee(W)) <= req.dust
      <4> HIDE DEF feeC, W
      <4> QED
        BY <1>1, <1>2, <2>1, <3>2, <3>3 DEF RecipientAmount
    <3> QED
      BY <3>1, <3>3, <3>4 DEF RefusedBy
  <2>2. CASE ~(RecipientAmount(feeC) <= req.dust)
    <3>1. Settled = WithChange(selected, RecipientAmount(feeC), total - SentAmount(feeC))
      BY <1>10, <2>2 DEF Settled
    <3>2. /\ total = RecipientAmount(feeC) + (total - SentAmount(feeC)) + feeC
          /\ total - SentAmount(feeC) >= req.dust
      <4>1. total >= RecipientAmount(feeC) + feeC + req.dust
        BY <1>10 DEF NeedsChange
      <4> HIDE DEF feeC
      <4> QED
        BY <1>1, <1>2, <4>1 DEF RecipientAmount, SentAmount
    <3> QED
      BY <1>1, <1>7, <1>10, <3>1, <3>2 DEF PaidBy, WithChange
  <2> QED
    BY <2>1, <2>2
<1> QED
  BY <1>6, <1>8, <1>9, <1>10

\* One step of the selector is one of the promise or none, and the answer of
\* an unlimited selector is right for the whole wallet.
LEMMA StepKeepsPromise ==
    ASSUME PositiveRates, Inv, TypeOK', FundsMatch, Scan, [Next]_vars
    PROVE  [Promise!Next]_<<req, outcome>>
<1> USE DEF Inv
<1>1. ASSUME pc # "done", UNCHANGED req, outcome'.kind # "pending",
             req.limit = NoLimit => PaidBy(outcome') \/ RefusedBy(outcome')
      PROVE  Promise!Next
  <2>1. outcome.kind = "pending"
    BY <1>1 DEF OutcomeAtEnd, Pending
  <2>2. (req.limit = NoLimit => Promise!Paid \/ Promise!Refused)'
    BY <1>1, PromiseInWords DEF TypeOK
  <2> QED
    BY <1>1, <2>1, <2>2 DEF Promise!Next, Promise!Answer
<1>2. CASE SelectDust
  <2>1. outcome' = Thrown("Dust") /\ req.amount <= req.dust
    BY <1>2 DEF SelectDust, Finish
  <2> QED
    BY <1>1, <1>2, <2>1 DEF SelectDust, RefusedBy, Thrown
<1>3. CASE Settle
  <2>1. pc = "settle" /\ outcome' = Settled /\ UNCHANGED req
    BY <1>3 DEF Settle, Finish
  <2>2. req.limit = NoLimit => PaidBy(Settled) \/ RefusedBy(Settled)
    BY <2>1, SettledKeepsPromise DEF Scan
  <2>3. Settled.kind # "pending"
    BY DEF Settled, Thrown, Exact, WithChange
  <2> QED
    BY <1>1, <2>1, <2>2, <2>3
<1>4. CASE AddUnspentOutput
  <2>1. CASE req.limit = NoLimit
    <3>1. pc # "done"
      BY <1>4 DEF AddUnspentOutput
    <3>2. UNCHANGED <<req, outcome>>
      BY <1>4, <2>1, <3>1, ScanTakesNext DEF Scan
    <3> QED
      BY <3>2
  <2>2. CASE req.limit # NoLimit
    <3>1. pc # "done" /\ UNCHANGED req /\ (outcome' = outcome \/ outcome' = Thrown("Dust"))
      BY <1>4 DEF AddUnspentOutput, Finish
    <3> QED
      BY <1>1, <2>2, <3>1 DEF Thrown
  <2> QED
    BY <2>1, <2>2
<1>5. CASE SelectAgain
  <2>1. pc = "done" /\ outcome.kind # "pending"
    BY <1>5 DEF SelectAgain, OutcomeAtEnd
  <2>2. req' \in Request /\ outcome' = [kind |-> "pending"]
    BY <1>5 DEF SelectAgain, Pending
  <2> QED
    BY <2>1, <2>2 DEF Promise!Next, Promise!Ask
<1>6. CASE UNCHANGED <<req, outcome>>
  BY <1>6
<1> QED
  BY <1>2, <1>3, <1>4, <1>5, <1>6
     DEF Next, Step, Select, nextUtxoList, nextUtxoListEmpty, EndOfPage, vars

\* Where the fee rate is positive the selector does what its caller relies on:
\* seen from outside a call is one step, and what an unlimited selector answers
\* is right for the whole wallet, in whatever pages the provider hands it out.
THEOREM KeepsPromise == ASSUME PositiveRates PROVE Spec => PromiseSpec
<1>1. Init => Promise!Init
  BY DEF Init, Promise!Init, Pending
<1>2. Inv /\ TypeOK' /\ FundsMatch /\ Scan /\ [Next]_vars => [Promise!Next]_<<req, outcome>>
  BY StepKeepsPromise
<1> QED
  BY <1>1, <1>2, InitInv, StepInv, TypeCorrect, TotalIsSelected, ScanInv, PTL
     DEF Spec, PromiseSpec, Promise!Spec

-----------------------------------------------------------------------------
(***************************************************************************)
(* The same facts for a component that runs the selector itself, from a    *)
(* wallet of its own choice: an invariant of the steps of select, wherever *)
(* they start.                                                             *)
(***************************************************************************)
\* An amount that is dust gets no further than the first check, and what is
\* returned are the outputs selected, with the recipient's value for the fee.
Answered ==
    /\ pc \notin {"idle", "done"} => req.amount > req.dust
    /\ (pc = "done" /\ outcome.kind # "thrown") =>
        /\ req.amount > req.dust
        /\ outcome.kind \in {"exact", "change"}
        /\ outcome.outputs = selected
        /\ outcome.recipientValue =
               RecipientAmount(IF outcome.kind = "exact" THEN feeAmount(selected)
                               ELSE changeOutputHavingTransactionFee(selected))

Selection == Inv /\ Funds /\ Answered

\* Where select may start
Ready ==
    /\ pc = "idle" /\ req \in Request /\ unseen \subseteq Utxo
    /\ page = <<>> /\ selected = <<>> /\ total = 0 /\ recipient = 0 /\ sent = 0
    /\ outcome = Pending

LEMMA SelectionBegins == Ready => Selection
<1> SUFFICES ASSUME Ready PROVE Selection
  OBVIOUS
<1>1. TypeOK
  BY DEF Ready, TypeOK, Outcome, Pending
<1>2. AmountsCurrent /\ OutcomeAtEnd /\ PaidByTotal /\ Answered
  BY DEF Ready, AmountsCurrent, OutcomeAtEnd, PaidByTotal, Answered, Pending
<1>3. FundsMatch
  <2>1. req.limit \in Nat \cup {NoLimit} /\ selected = <<>> /\ total = 0 /\ Len(selected) = 0
    BY RequestAssumption DEF Ready
  <2> QED
    BY <2>1, ValueEmpty DEF FundsMatch
<1> QED
  BY <1>1, <1>2, <1>3 DEF Selection, Inv, Funds

LEMMA SelectionStep == Selection /\ [Step]_vars => Selection'
<1> SUFFICES ASSUME Selection, [Step]_vars PROVE Selection'
  OBVIOUS
<1>1. TypeOK' /\ Inv' /\ Funds'
  BY TypeStep, StepInv, FundsKept DEF Selection, Inv, Next
<1>2. Answered'
  <2>1. \A s : /\ feeAmount(s)' = IF req' = req THEN feeAmount(s) ELSE feeAmount(s)'
               /\ req' = req => changeOutputHavingTransactionFee(s)'
                                  = changeOutputHavingTransactionFee(s)
               /\ req' = req => \A f : RecipientAmount(f)' = RecipientAmount(f)
    BY DEF feeAmount, changeOutputHavingTransactionFee, RecipientAmount
  <2>2. CASE Settle
    <3>1. pc = "settle" /\ pc' = "done" /\ outcome' = Settled
          /\ UNCHANGED <<req, selected>>
      BY <2>2 DEF Settle, Finish
    <3>2. selected # <<>> => recipient = RecipientAmount(feeAmount(selected))
      BY <3>1 DEF Selection, Inv, AmountsCurrent
    <3> QED
      BY <2>1, <3>1, <3>2 DEF Answered, Selection, Settled, Thrown, Exact, WithChange
  <2>3. CASE AddUnspentOutput
    BY <2>3 DEF AddUnspentOutput, Finish, Thrown, Answered, Selection
  <2>4. CASE SelectDust \/ Select \/ nextUtxoList \/ nextUtxoListEmpty \/ EndOfPage
    BY <2>4 DEF SelectDust, Select, nextUtxoList, nextUtxoListEmpty, EndOfPage, Finish,
                Thrown, Answered, Selection
  <2>5. CASE UNCHANGED vars
    BY <2>1, <2>5 DEF vars, Answered, Selection
  <2> QED
    BY <2>2, <2>3, <2>4, <2>5 DEF Step
<1> QED
  BY <1>1, <1>2 DEF Selection

\* An output for the change makes the transaction no smaller.
LEMMA ChangeCostsMore ==
    ASSUME req \in Request, NEW s \in Seq(Utxo)
    PROVE  feeAmount(s) <= changeOutputHavingTransactionFee(s)
<1> DEFINE outs == Outputs(s)
           a == outputSize(req.receiveType)
           b == outputSize(req.receiveType) + outputSize(req.changeType)
           txWeight == IF Spending(outs, WitnessType) > 0 THEN witnessTx ELSE legacyTx
           inputWeight == 4 * InputBytes(outs) + (IF Spending(outs, WitnessType) > 0
                                                  THEN WitnessWeight(outs) ELSE 0)
<1>1. outs \in Seq(UnspentOutput) /\ InputBytes(outs) \in Nat /\ WitnessWeight(outs) \in Nat
  BY OutputsType, InputBytesType
<1>2. a \in Nat /\ b \in Nat /\ a <= b /\ req.feeRate \in Nat
  BY OutputSizeType, RequestAssumption
<1>3. txWeight \in Nat /\ inputWeight \in Nat
  BY <1>1 DEF witnessTx, legacyTx
<1> HIDE DEF a, b, outs
<1>4. /\ transactionSize(outs, a) = toBytes(txWeight + inputWeight + 4 * a)
      /\ transactionSize(outs, b) = toBytes(txWeight + inputWeight + 4 * b)
  BY DEF transactionSize
<1> HIDE DEF txWeight, inputWeight
<1>5. /\ txWeight + inputWeight + 4 * a \in Nat /\ txWeight + inputWeight + 4 * b \in Nat
      /\ txWeight + inputWeight + 4 * a <= txWeight + inputWeight + 4 * b
  BY <1>2, <1>3
<1>6. /\ transactionSize(outs, a) <= transactionSize(outs, b)
      /\ transactionSize(outs, a) \in Nat /\ transactionSize(outs, b) \in Nat
  BY <1>4, <1>5, ToBytesGrows, ToBytesType
<1>7. transactionSize(outs, a) * req.feeRate <= transactionSize(outs, b) * req.feeRate
  BY <1>2, <1>6, ProductGrows
<1> QED
  BY <1>7 DEF feeAmount, changeOutputHavingTransactionFee, a, b, outs

\* What an answer without a limit says of the value of its outputs
Balance ==
    LET s == outcome.outputs
        fee == feeAmount(s)
        feeWithChange == changeOutputHavingTransactionFee(s)
        r == outcome.recipientValue
    IN  /\ s \in Seq(Utxo) /\ r \in Int /\ fee \in Nat /\ feeWithChange \in Nat
        /\ fee <= feeWithChange /\ ValueOf(s) \in Int
        /\ outcome.kind \in {"exact", "change"}
        /\ outcome.kind = "exact" => /\ ValueOf(s) >= r + fee
                                     /\ r = RecipientAmount(fee)
        /\ outcome.kind = "change" => /\ outcome.changeValue \in Nat
                                      /\ ValueOf(s) = r + outcome.changeValue + feeWithChange
                                      /\ r = RecipientAmount(feeWithChange)

LEMMA AnswerBalances ==
    ASSUME Selection, pc = "done", outcome.kind # "thrown", req.limit = NoLimit
    PROVE  Balance
<1>1. /\ TypeOK /\ PaidByTotal /\ FundsMatch /\ outcome.kind \in {"exact", "change"}
      /\ outcome.outputs = selected /\ outcome \in Outcome /\ req \in Request
      /\ selected \in Seq(Utxo) /\ total \in Int
  BY DEF Selection, Inv, Funds, Answered, TypeOK
<1>2. PICK s \in Seq(Utxo) : s = outcome.outputs /\ s = selected
  BY <1>1
<1>3. PICK fee \in Nat : fee = feeAmount(s)
  BY <1>1, FeeType
<1>4. PICK feeC \in Nat : feeC = changeOutputHavingTransactionFee(s) /\ fee <= feeC
  BY <1>1, <1>3, FeeType, ChangeCostsMore
<1>5. ValueOf(s) = total
  BY <1>1, <1>2 DEF FundsMatch, NoneExcluded
<1>6. outcome.recipientValue \in Int /\ (outcome.kind = "change" => outcome.changeValue \in Int)
  BY <1>1 DEF Outcome, Pending
<1>7. outcome.recipientValue = RecipientAmount(IF outcome.kind = "exact" THEN fee ELSE feeC)
  BY <1>2, <1>3, <1>4 DEF Selection, Answered
<1>8. CASE outcome.kind = "exact"
  <2>1. total >= outcome.recipientValue + fee
    BY <1>1, <1>2, <1>3, <1>8 DEF PaidByTotal
  <2> QED
    BY <1>1, <1>2, <1>3, <1>4, <1>5, <1>6, <1>7, <1>8, <2>1 DEF Balance
<1>9. CASE outcome.kind = "change"
  <2>1. /\ total = outcome.recipientValue + outcome.changeValue + feeC
        /\ outcome.changeValue >= req.dust
    BY <1>1, <1>2, <1>4, <1>9 DEF PaidByTotal
  <2>2. req.dust \in Nat
    BY <1>1, RequestAssumption
  <2>3. outcome.changeValue \in Nat
    BY <1>6, <1>9, <2>1, <2>2
  <2> QED
    BY <1>1, <1>2, <1>3, <1>4, <1>5, <1>6, <1>7, <1>9, <2>1, <2>3 DEF Balance
<1> QED
  BY <1>1, <1>8, <1>9
=============================================================================
