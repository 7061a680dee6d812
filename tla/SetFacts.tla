------------------------------ MODULE SetFacts ------------------------------
(***************************************************************************)
(* Facts about finite sets of numbers, sets of finite sets and sums that   *)
(* the proofs of several modules share.  Where a proof needs an induction, *)
(* it is an argument by a least counterexample.                            *)
(***************************************************************************)
EXTENDS Integers, FiniteSets, FiniteSetsExt, FiniteSetTheorems, WellFoundedInduction, TLAPS

\* A set of numbers that is not empty has a least one.
LEMMA LeastNumber ==
    ASSUME NEW S, S \subseteq Nat, S # {}
    PROVE  \E x \in S : \A y \in S : x <= y
<1>1. PICK x \in S : \A y \in S : ~(<<y, x>> \in OpToRel(<, Nat))
  BY NatLessThanWellFounded, WFMin
<1>2. \A y \in S : y \in Nat /\ x \in Nat /\ ~(y < x)
  BY <1>1 DEF OpToRel
<1> QED
  BY <1>2

\* The highest of a finite set of numbers is one of them, and no other is above.
LEMMA HighestIsThere ==
    ASSUME NEW S, S \subseteq Nat, IsFiniteSet(S), S # {}
    PROVE  Max(S) \in S /\ \A y \in S : Max(S) >= y
<1> DEFINE Above(x) == {y \in S : y > x}
           Sizes == {Cardinality(Above(x)) : x \in S}
<1>1. \A x \in S : IsFiniteSet(Above(x)) /\ Cardinality(Above(x)) \in Nat
  BY FS_Subset, FS_CardinalityType
<1>2. Sizes \subseteq Nat /\ Sizes # {}
  BY <1>1
<1>3. PICK n \in Sizes : \A m \in Sizes : n <= m
  <2> HIDE DEF Sizes
  <2> QED
    BY <1>2, LeastNumber
<1>4. PICK x \in S : n = Cardinality(Above(x))
  OBVIOUS
<1>5. \A y \in S : x >= y
  <2> SUFFICES ASSUME NEW y \in S, ~(x >= y) PROVE FALSE
    OBVIOUS
  <2>1. x \in Nat /\ y \in Nat /\ y > x
    OBVIOUS
  <2>2. Above(y) \subseteq Above(x)
    <3>1. \A z \in S : z \in Nat
      OBVIOUS
    <3>2. \A z \in S : z > y => z > x
      BY <2>1, <3>1
    <3> QED
      BY <3>2
  <2>3. y \in Above(x) /\ y \notin Above(y)
    BY <2>1
  <2>4. Cardinality(Above(y)) <= Cardinality(Above(x)) /\ Cardinality(Above(y)) # Cardinality(Above(x))
    <3> HIDE DEF Above
    <3> QED
      BY <1>1, <2>2, <2>3, FS_Subset
  <2>5. Cardinality(Above(x)) <= Cardinality(Above(y))
    BY <1>3, <1>4
  <2>6. Cardinality(Above(x)) \in Nat /\ Cardinality(Above(y)) \in Nat
    BY <1>1
  <2> QED
    BY <2>4, <2>5, <2>6
<1> QED
  BY <1>5 DEF Max

\* Of two numbers, one is below the highest.
LEMMA SecondIsBelow ==
    ASSUME NEW S, S \subseteq Nat, IsFiniteSet(S), Cardinality(S) >= 2
    PROVE  Max(S) \in S /\ \E u \in S : u < Max(S)
<1>1. S # {}
  BY FS_EmptySet
<1>2. Max(S) \in S /\ \A y \in S : Max(S) >= y
  BY <1>1, HighestIsThere
<1>3. \E u \in S : u # Max(S)
  <2> SUFFICES ASSUME \A u \in S : u = Max(S) PROVE FALSE
    OBVIOUS
  <2>1. S = {Max(S)}
    BY <1>2
  <2>2. Cardinality(S) = 1
    BY <2>1, FS_Singleton
  <2> QED
    BY <2>2
<1>4. PICK u \in S : u # Max(S)
  BY <1>3
<1>5. Max(S) >= u /\ u \in Nat /\ Max(S) \in Nat
  BY <1>2, <1>4
<1>6. u < Max(S)
  BY <1>4, <1>5
<1> QED
  BY <1>2, <1>6

\* A set of finite sets that is not empty has a smallest one.
LEMMA SmallestSet ==
    ASSUME NEW S, IsFiniteSet(S), NEW B, B \subseteq SUBSET S, B # {}
    PROVE  \E s \in B : IsFiniteSet(s) /\ \A t \in SUBSET S : Cardinality(t) < Cardinality(s) => t \notin B
<1> DEFINE Sizes == {Cardinality(s) : s \in B}
<1>1. \A s \in SUBSET S : IsFiniteSet(s) /\ Cardinality(s) \in Nat
  BY FS_Subset, FS_CardinalityType
<1>2. Sizes \subseteq Nat /\ Sizes # {}
  BY <1>1
<1>3. PICK n \in Sizes : \A m \in Sizes : n <= m
  <2> HIDE DEF Sizes
  <2> QED
    BY <1>2, LeastNumber
<1>4. PICK s \in B : n = Cardinality(s)
  OBVIOUS
<1>5. ASSUME NEW t \in B, Cardinality(t) < Cardinality(s) PROVE FALSE
  <2>1. Cardinality(s) <= Cardinality(t)
    BY <1>3, <1>4
  <2>2. Cardinality(s) \in Nat /\ Cardinality(t) \in Nat
    BY <1>1
  <2> QED
    BY <1>5, <2>1, <2>2
<1> QED
  BY <1>1, <1>4, <1>5

-----------------------------------------------------------------------------
(* Sums of the field est.  The library's fold picks the elements of a set  *)
(* in some order; the sum does not depend on it.                           *)

Pick(s) == CHOOSE x \in s : TRUE

\* f is the fold on the sets in D: what it is for a set follows from what it is
\* for the set without the element picked.
Folds(f, D) == f = [s \in D |-> IF s = {} THEN 0 ELSE Pick(s).est + f[s \ {Pick(s)}]]

Sum(S) == MapThenSumSet(LAMBDA q : q.est, S)

\* The library's sum is such a fold.
LEMMA SumIs == ASSUME NEW S PROVE Sum(S) = (CHOOSE f : Folds(f, SUBSET S))[S]
  BY DEF Sum, Folds, Pick, MapThenSumSet, MapThenFoldSet

\* The element picked is one of the set, and the rest is smaller.
LEMMA PickIs ==
    ASSUME NEW s, IsFiniteSet(s), s # {}
    PROVE  /\ Pick(s) \in s
           /\ IsFiniteSet(s \ {Pick(s)})
           /\ Cardinality(s \ {Pick(s)}) = Cardinality(s) - 1
           /\ Cardinality(s) \in Nat \ {0}
<1>1. Pick(s) \in s
  BY DEF Pick
<1>2. Cardinality(s) \in Nat /\ Cardinality(s) # 0
  BY FS_CardinalityType, FS_EmptySet
<1> QED
  BY <1>1, <1>2, FS_RemoveElement

\* The fold exists on the subsets of a finite set: it is built up by their size.
LEMMA FoldExists ==
    ASSUME NEW S, IsFiniteSet(S)
    PROVE  \E f : Folds(f, SUBSET S)
<1> DEFINE Upto(n) == {s \in SUBSET S : Cardinality(s) <= n}
           Bad == {n \in Nat : ~\E f : Folds(f, Upto(n))}
<1>1. \A s \in SUBSET S : IsFiniteSet(s) /\ Cardinality(s) \in Nat /\ Cardinality(s) <= Cardinality(S)
  BY FS_Subset, FS_CardinalityType
<1>2. Cardinality(S) \in Nat
  BY FS_CardinalityType
<1>3. 0 \notin Bad
  <2>1. Upto(0) \subseteq {{}}
    BY <1>1, FS_EmptySet
  <2> DEFINE f == [s \in Upto(0) |-> 0]
  <2>2. \A s \in Upto(0) : s = {}
    BY <2>1
  <2>3. Folds(f, Upto(0))
    <3> HIDE DEF Upto
    <3> QED
      BY <2>2 DEF Folds
  <2> QED
    BY <2>3
<1>4. ASSUME NEW n \in Nat, n \notin Bad PROVE (n + 1) \notin Bad
  <2>1. PICK f : Folds(f, Upto(n))
    BY <1>4
  <2> DEFINE D == Upto(n + 1)
             g == [s \in D |-> IF s = {} THEN 0 ELSE Pick(s).est + f[s \ {Pick(s)}]]
  <2>2. \A s \in D : s # {} => s \ {Pick(s)} \in Upto(n) /\ s \ {Pick(s)} \in D
    <3> SUFFICES ASSUME NEW s \in D, s # {}
                 PROVE  s \ {Pick(s)} \in Upto(n) /\ s \ {Pick(s)} \in D
      OBVIOUS
    <3>1. IsFiniteSet(s) /\ Cardinality(s) \in Nat /\ Cardinality(s) <= n + 1 /\ s \in SUBSET S
      BY <1>1
    <3>2. Cardinality(s \ {Pick(s)}) = Cardinality(s) - 1
      BY <3>1, PickIs
    <3>3. s \ {Pick(s)} \in SUBSET S
      BY <3>1
    <3>4. Cardinality(s \ {Pick(s)}) <= n /\ Cardinality(s \ {Pick(s)}) <= n + 1
      BY <3>1, <3>2
    <3> QED
      BY <3>3, <3>4
  <2>3. \A s \in Upto(n) : s \in D
    <3> SUFFICES ASSUME NEW s \in Upto(n) PROVE s \in D
      OBVIOUS
    <3>1. s \in SUBSET S /\ Cardinality(s) \in Nat /\ Cardinality(s) <= n
      BY <1>1
    <3> QED
      BY <3>1
  <2> HIDE DEF D, Upto
  <2>4. \A s \in Upto(n) : g[s] = f[s]
    BY <2>1, <2>3 DEF Folds
  <2>5. Folds(g, D)
    <3>1. \A s \in D : (IF s = {} THEN 0 ELSE Pick(s).est + f[s \ {Pick(s)}])
                       = (IF s = {} THEN 0 ELSE Pick(s).est + g[s \ {Pick(s)}])
      <4> HIDE DEF g
      <4> QED
        BY <2>2, <2>4
    <3> QED
      BY <3>1 DEF Folds
  <2> QED
    BY <2>5 DEF D
<1>5. Bad = {}
  <2> SUFFICES ASSUME Bad # {} PROVE FALSE
    OBVIOUS
  <2>1. PICK n \in Bad : \A m \in Bad : n <= m
    <3> Bad \subseteq Nat
      OBVIOUS
    <3> HIDE DEF Bad
    <3> QED
      BY LeastNumber
  <2>2. n \in Nat /\ n # 0
    BY <1>3
  <2>3. (n - 1) \in Nat
    BY <2>2
  <2>4. (n - 1) \notin Bad
    <3> HIDE DEF Bad
    <3> QED
      BY <2>1, <2>2, <2>3
  <2>5. ((n - 1) + 1) \notin Bad
    <3> HIDE DEF Bad
    <3> QED
      BY <1>4, <2>3, <2>4
  <2>6. (n - 1) + 1 = n
    BY <2>2
  <2> QED
    BY <2>1, <2>5, <2>6
<1>6. Upto(Cardinality(S)) = SUBSET S
  BY <1>1
<1> QED
  BY <1>2, <1>5, <1>6

\* A fold is unwound one element at a time.
LEMMA FoldUnwinds ==
    ASSUME NEW S, IsFiniteSet(S), NEW f, Folds(f, SUBSET S), NEW s \in SUBSET S
    PROVE  /\ f[{}] = 0
           /\ s # {} => f[s] = Pick(s).est + f[s \ {Pick(s)}] /\ s \ {Pick(s)} \in SUBSET S
<1>1. \A t \in SUBSET S : f[t] = IF t = {} THEN 0 ELSE Pick(t).est + f[t \ {Pick(t)}]
  BY DEF Folds
<1> QED
  BY <1>1

\* Folds over two sets agree on their common subsets, and are numbers there.
LEMMA FoldsAgree ==
    ASSUME NEW S, NEW T, IsFiniteSet(T), S \subseteq T, \A q \in T : q.est \in Nat,
           NEW f, Folds(f, SUBSET S), NEW g, Folds(g, SUBSET T)
    PROVE  \A s \in SUBSET S : f[s] = g[s] /\ f[s] \in Nat
<1> DEFINE B == {s \in SUBSET S : ~(f[s] = g[s] /\ f[s] \in Nat)}
<1> SUFFICES ASSUME B # {} PROVE FALSE
  OBVIOUS
<1>1. IsFiniteSet(S)
  BY FS_Subset
<1>2. PICK s \in B : IsFiniteSet(s) /\ \A t \in SUBSET S : Cardinality(t) < Cardinality(s) => t \notin B
  <2>1. B \subseteq SUBSET S
    OBVIOUS
  <2> HIDE DEF B
  <2> QED
    BY <1>1, <2>1, SmallestSet
<1>3. s \in SUBSET S /\ s \in SUBSET T
  OBVIOUS
<1>4. CASE s = {}
  BY <1>1, <1>3, <1>4, FoldUnwinds
<1>5. CASE s # {}
  <2> DEFINE p == Pick(s)
             r == s \ {p}
  <2>1. p \in s /\ Cardinality(r) < Cardinality(s)
    <3>1. IsFiniteSet(s)
      BY <1>2
    <3>2. Pick(s) \in s /\ Cardinality(s \ {Pick(s)}) = Cardinality(s) - 1 /\ Cardinality(s) \in Nat
      <4> HIDE DEF B
      <4> QED
        BY <1>5, <3>1, PickIs
    <3> QED
      BY <3>2
  <2>2. r \in SUBSET S /\ f[s] = p.est + f[r] /\ g[s] = p.est + g[r]
    BY <1>1, <1>3, <1>5, FoldUnwinds
  <2>3. f[r] = g[r] /\ f[r] \in Nat
    BY <1>2, <2>1, <2>2
  <2>4. p.est \in Nat
    BY <1>3, <2>1
  <2>5. f[s] = g[s] /\ f[s] \in Nat
    BY <2>2, <2>3, <2>4
  <2> QED
    BY <2>5
<1> QED
  BY <1>4, <1>5

\* A fold adds the estimate of any element, whichever it picks first.
LEMMA FoldAdds ==
    ASSUME NEW S, IsFiniteSet(S), \A q \in S : q.est \in Nat, NEW f, Folds(f, SUBSET S)
    PROVE  \A s \in SUBSET S : \A x \in S : x \notin s => f[s \cup {x}] = x.est + f[s]
<1> DEFINE B == {s \in SUBSET S : ~\A x \in S : x \notin s => f[s \cup {x}] = x.est + f[s]}
<1> SUFFICES ASSUME B # {} PROVE FALSE
  OBVIOUS
<1>1. PICK s \in B : IsFiniteSet(s) /\ \A t \in SUBSET S : Cardinality(t) < Cardinality(s) => t \notin B
  <2>1. B \subseteq SUBSET S
    OBVIOUS
  <2> HIDE DEF B
  <2> QED
    BY <2>1, SmallestSet
<1>2. PICK x \in S : x \notin s /\ f[s \cup {x}] # x.est + f[s]
  OBVIOUS
<1>3. \A t \in SUBSET S : f[t] \in Nat
  BY FoldsAgree
<1> DEFINE u == s \cup {x}
           p == Pick(u)
<1>4. u \in SUBSET S /\ u # {} /\ p \in u
  BY DEF Pick
<1>5. f[u] = p.est + f[u \ {p}]
  <2> HIDE DEF u, B
  <2> QED
    BY <1>4, FoldUnwinds
<1>6. CASE p = x
  <2>1. u \ {p} = s
    BY <1>2, <1>6
  <2> QED
    BY <1>2, <1>5, <1>6, <2>1
<1>7. CASE p # x
  <2> DEFINE t == s \ {p}
  <2>1. p \in s /\ p \in S /\ p \notin t /\ x \notin t /\ t \in SUBSET S
    BY <1>2, <1>4, <1>7
  <2>2. Cardinality(t) = Cardinality(s) - 1 /\ Cardinality(s) \in Nat
    <3>1. IsFiniteSet(s) /\ p \in s
      BY <1>1, <2>1
    <3> HIDE DEF p, B
    <3> QED
      BY <3>1, FS_RemoveElement, FS_CardinalityType
  <2>3. t \notin B
    <3>1. Cardinality(t) < Cardinality(s)
      BY <2>2
    <3> HIDE DEF B, t
    <3> QED
      BY <1>1, <2>1, <3>1
  <2>4. \A y \in S : y \notin t => f[t \cup {y}] = y.est + f[t]
    BY <2>1, <2>3
  <2>5. f[t \cup {x}] = x.est + f[t] /\ f[t \cup {p}] = p.est + f[t]
    BY <2>1, <2>4
  <2>6. t \cup {x} = u \ {p} /\ t \cup {p} = s
    BY <1>7, <2>1
  <2>7. f[u] = p.est + (x.est + f[t]) /\ f[s] = p.est + f[t]
    BY <1>5, <2>5, <2>6
  <2>8. p.est \in Nat /\ x.est \in Nat /\ f[t] \in Nat
    BY <1>3, <2>1
  <2>9. f[u] = x.est + f[s]
    BY <2>7, <2>8
  <2> QED
    BY <1>2, <2>9
<1> QED
  BY <1>6, <1>7

\* The sum over no record is 0, a sum is a number, and another record adds its
\* own.
LEMMA SumAdds ==
    ASSUME NEW S, IsFiniteSet(S), \A q \in S : q.est \in Nat,
           NEW x, x \notin S, x.est \in Nat
    PROVE  Sum({}) = 0 /\ Sum(S) \in Nat /\ Sum(S \cup {x}) = Sum(S) + x.est
<1> DEFINE T == S \cup {x}
           f == CHOOSE h : Folds(h, SUBSET S)
           g == CHOOSE h : Folds(h, SUBSET T)
           e == CHOOSE h : Folds(h, SUBSET {})
<1>1. IsFiniteSet(T) /\ \A q \in T : q.est \in Nat
  BY FS_AddElement
<1>2. Folds(f, SUBSET S) /\ Folds(g, SUBSET T) /\ Folds(e, SUBSET {})
  BY <1>1, FoldExists, FS_EmptySet
<1>3. Sum(S) = f[S] /\ Sum(T) = g[T] /\ Sum({}) = e[{}]
  BY SumIs
<1> HIDE DEF f, g, e
<1>4. e[{}] = 0
  BY <1>2, FoldUnwinds, FS_EmptySet
<1>5. f[S] = g[S] /\ f[S] \in Nat
  <2>1. S \subseteq T /\ S \in SUBSET S
    OBVIOUS
  <2> HIDE DEF T
  <2>2. \A s \in SUBSET S : f[s] = g[s] /\ f[s] \in Nat
    BY <1>1, <1>2, <2>1, FoldsAgree
  <2> QED
    BY <2>1, <2>2
<1>6. g[T] = x.est + g[S]
  <2>1. S \in SUBSET T /\ x \in T /\ x \notin S /\ S \cup {x} = T
    OBVIOUS
  <2> HIDE DEF T
  <2>2. g[S \cup {x}] = x.est + g[S]
    BY <1>1, <1>2, <2>1, FoldAdds
  <2> QED
    BY <2>1, <2>2
<1> QED
  BY <1>3, <1>4, <1>5, <1>6

\* A sum is a number.
LEMMA SumIsNumber ==
    ASSUME NEW S, IsFiniteSet(S), \A q \in S : q.est \in Nat
    PROVE  Sum(S) \in Nat
<1> DEFINE f == CHOOSE h : Folds(h, SUBSET S)
<1>1. Folds(f, SUBSET S) /\ Sum(S) = f[S]
  BY FoldExists, SumIs
<1> HIDE DEF f
<1>2. \A s \in SUBSET S : f[s] = f[s] /\ f[s] \in Nat
  BY <1>1, FoldsAgree
<1> QED
  BY <1>1, <1>2

\* A record taken away takes its own with it.
LEMMA SumRemoves ==
    ASSUME NEW S, IsFiniteSet(S), \A q \in S : q.est \in Nat, NEW x \in S
    PROVE  IsFiniteSet(S \ {x}) /\ Sum(S \ {x}) \in Nat /\ Sum(S) = Sum(S \ {x}) + x.est
<1> DEFINE T == S \ {x}
<1>1. IsFiniteSet(T) /\ x \notin T /\ \A q \in T : q.est \in Nat
  BY FS_Subset
<1>2. T \cup {x} = S
  OBVIOUS
<1> HIDE DEF T
<1>3. Sum(T) \in Nat /\ Sum(T \cup {x}) = Sum(T) + x.est
  BY <1>1, SumAdds
<1> QED
  BY <1>1, <1>2, <1>3 DEF T

\* A record put in adds at most its own: it may be there already.
LEMMA SumAddsMost ==
    ASSUME NEW S, IsFiniteSet(S), \A q \in S : q.est \in Nat, NEW x, x.est \in Nat
    PROVE  /\ IsFiniteSet(S \cup {x}) /\ Sum(S) \in Nat /\ Sum(S \cup {x}) \in Nat
           /\ Sum(S \cup {x}) <= Sum(S) + x.est
<1>1. IsFiniteSet(S \cup {x}) /\ Sum(S) \in Nat
  BY FS_AddElement, SumIsNumber
<1>2. CASE x \in S
  <2>1. Sum(S \cup {x}) = Sum(S)
    <3>1. S \cup {x} = S
      BY <1>2
    <3> QED
      BY <3>1, Zenon
  <2>2. Sum(S) <= Sum(S) + x.est
    BY <1>1
  <2> QED
    BY <1>1, <2>1, <2>2
<1>3. CASE x \notin S
  <2>1. Sum(S \cup {x}) = Sum(S) + x.est
    BY <1>3, SumAdds
  <2> QED
    BY <1>1, <2>1
<1> QED
  BY <1>2, <1>3

-----------------------------------------------------------------------------
(* Sums of weights: the weights are a function, so that equal ones count. *)

Weighed(w, S) == {[of |-> x, est |-> w[x]] : x \in S}
Weight(w, S) == Sum(Weighed(w, S))

\* The records that are summed are as many as the elements, and numbers.
LEMMA WeighedIs ==
    ASSUME NEW D, NEW w \in [D -> Nat], NEW S, S \subseteq D, IsFiniteSet(S)
    PROVE  IsFiniteSet(Weighed(w, S)) /\ \A q \in Weighed(w, S) : q.est \in Nat
<1> DEFINE g == [x \in S |-> [of |-> x, est |-> w[x]]]
<1>1. g \in Surjection(S, Weighed(w, S))
  BY DEF Surjection, Weighed
<1>2. IsFiniteSet(Weighed(w, S))
  BY <1>1, FS_Surjection
<1>3. \A x \in S : w[x] \in Nat
  OBVIOUS
<1> QED
  BY <1>2, <1>3 DEF Weighed

\* An element put in adds at most its weight: it may be there already.
LEMMA WeightAdds ==
    ASSUME NEW D, NEW w \in [D -> Nat], NEW S, S \subseteq D, IsFiniteSet(S), NEW x \in D
    PROVE  /\ IsFiniteSet(S \cup {x}) /\ Weight(w, S) \in Nat /\ Weight(w, S \cup {x}) \in Nat
           /\ Weight(w, S \cup {x}) <= Weight(w, S) + w[x]
<1> DEFINE r == [of |-> x, est |-> w[x]]
<1>1. r.est = w[x] /\ w[x] \in Nat
  OBVIOUS
<1>2. Weighed(w, S \cup {x}) = Weighed(w, S) \cup {r}
  BY DEF Weighed
<1> HIDE DEF r
<1>3. IsFiniteSet(Weighed(w, S)) /\ \A q \in Weighed(w, S) : q.est \in Nat
  BY WeighedIs
<1>4. /\ Sum(Weighed(w, S)) \in Nat /\ Sum(Weighed(w, S) \cup {r}) \in Nat
      /\ Sum(Weighed(w, S) \cup {r}) <= Sum(Weighed(w, S)) + r.est
  BY <1>1, <1>3, SumAddsMost
<1>5. IsFiniteSet(S \cup {x})
  BY FS_AddElement
<1> QED
  BY <1>1, <1>2, <1>4, <1>5 DEF Weight

\* An element taken away takes its weight with it.
LEMMA WeightTakes ==
    ASSUME NEW D, NEW w \in [D -> Nat], NEW S, S \subseteq D, IsFiniteSet(S), NEW x \in S
    PROVE  /\ IsFiniteSet(S \ {x}) /\ Weight(w, S \ {x}) \in Nat /\ w[x] \in Nat
           /\ Weight(w, S) = Weight(w, S \ {x}) + w[x]
<1> DEFINE r == [of |-> x, est |-> w[x]]
<1>1. r.est = w[x] /\ w[x] \in Nat /\ r \in Weighed(w, S)
  BY DEF Weighed
<1>2. Weighed(w, S \ {x}) = Weighed(w, S) \ {r}
  <2>1. \A y \in S : y # x => [of |-> y, est |-> w[y]] # r
    <3> SUFFICES ASSUME NEW y \in S, y # x, [of |-> y, est |-> w[y]] = r PROVE FALSE
      OBVIOUS
    <3>1. [of |-> y, est |-> w[y]].of = r.of
      BY Zenon
    <3> QED
      BY <3>1
  <2> HIDE DEF r
  <2>2. \A y \in S : y = x => [of |-> y, est |-> w[y]] = r
    BY DEF r
  <2> QED
    BY <2>1, <2>2 DEF Weighed
<1> HIDE DEF r
<1>3. IsFiniteSet(Weighed(w, S)) /\ \A q \in Weighed(w, S) : q.est \in Nat
  BY WeighedIs
<1>4. /\ Sum(Weighed(w, S) \ {r}) \in Nat
      /\ Sum(Weighed(w, S)) = Sum(Weighed(w, S) \ {r}) + r.est
  BY <1>1, <1>3, SumRemoves
<1>5. IsFiniteSet(S \ {x})
  BY FS_Subset
<1> QED
  BY <1>1, <1>2, <1>4, <1>5 DEF Weight

\* Nothing weighs nothing.
LEMMA WeightOfNothing == ASSUME NEW w PROVE Weight(w, {}) = 0
<1> DEFINE e == CHOOSE h : Folds(h, SUBSET {})
<1>1. Weighed(w, {}) = {}
  BY DEF Weighed
<1>2. Folds(e, SUBSET {}) /\ Sum({}) = e[{}]
  BY FoldExists, SumIs, FS_EmptySet
<1> HIDE DEF e
<1>3. e[{}] = 0
  BY <1>2, FoldUnwinds, FS_EmptySet
<1> QED
  BY <1>1, <1>2, <1>3 DEF Weight
=============================================================================
