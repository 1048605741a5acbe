---------------------------- MODULE PoolsProofs ------------------------------
(***************************************************************************)
(* Proofs about the components of MCPools, for any number of threads and   *)
(* objects and any sizes.                                                  *)
(***************************************************************************)
EXTENDS MCPools, Integers, Sequences, FiniteSetTheorems, NaturalsInduction, TLAPS

-----------------------------------------------------------------------------
(* What the components take from the library.                              *)

\* The components count as this module does.
LEMMA SameCount ==
    ASSUME NEW X
    PROVE  /\ G!IsFiniteSet(X) <=> IsFiniteSet(X)
           /\ G!Cardinality(X) = Cardinality(X)
           /\ R!IsFiniteSet(X) <=> IsFiniteSet(X)
           /\ R!Cardinality(X) = Cardinality(X)
           /\ P!IsFiniteSet(X) <=> IsFiniteSet(X)
           /\ P!Cardinality(X) = Cardinality(X)
           /\ S!IsFiniteSet(X) <=> IsFiniteSet(X)
           /\ S!Cardinality(X) = Cardinality(X)
BY DEF G!IsFiniteSet, G!Cardinality, R!IsFiniteSet, R!Cardinality, P!IsFiniteSet, P!Cardinality,
       S!IsFiniteSet, S!Cardinality, IsFiniteSet, Cardinality

\* A set of natural numbers that is not empty has a least element.
LEMMA LeastOf ==
    ASSUME NEW N \in SUBSET Nat, N # {}
    PROVE  \E m \in N : \A n \in N : m <= n
<1> DEFINE Less == OpToRel(<, Nat)
<1>1. IsWellFoundedOn(Less, Nat)
  BY NatLessThanWellFounded
<1>2. Less = {ss \in Nat \X Nat : ss[1] < ss[2]}
  BY DEF OpToRel
<1> HIDE DEF Less
<1>3. PICK m \in N : \A n \in N : <<n, m>> \notin Less
  BY <1>1, WFMin
<1>4. \A n \in N : ~(n < m)
  BY <1>2, <1>3
<1>5. \A n \in N : m <= n
  BY <1>4
<1> QED BY <1>5

\* The sum of f over T as the library defines it: element by element, in the order of
\* some choice.
AnyOf(s) == CHOOSE x \in s : TRUE
SumBody(f, g, s) == IF s = {} THEN 0 ELSE f[AnyOf(s)] + g[s \ {AnyOf(s)}]
SumIter(f, T) == CHOOSE sum : sum = [s \in SUBSET T |-> SumBody(f, sum, s)]
Sum(f, T) == SumIter(f, T)[T]

\* The sums of Bucket and ConnPool.
LEMMA SameSum ==
    /\ \A T : B!MapThenSumSet(LAMBDA t : count[t], T) = Sum(count, T)
    /\ \A f : P!SumFunction(f) = Sum(f, DOMAIN f)
<1>1. ASSUME NEW T PROVE B!MapThenSumSet(LAMBDA t : count[t], T) = Sum(count, T)
  BY Zenon DEF B!MapThenSumSet, B!MapThenFoldSet, Sum, SumIter, SumBody, AnyOf
<1>2. ASSUME NEW f PROVE P!SumFunction(f) = Sum(f, DOMAIN f)
  BY Zenon DEF P!SumFunction, P!SumFunctionOnSet, P!FoldFunctionOnSet, P!MapThenFoldSet, Sum, SumIter,
               SumBody, AnyOf
<1> QED BY <1>1, <1>2

\* A subset of a finite set is smaller by the element that is taken out of it.
LEMMA SubsetFacts ==
    ASSUME NEW T, IsFiniteSet(T), NEW s \in SUBSET T
    PROVE  /\ IsFiniteSet(s) /\ Cardinality(s) \in Nat
           /\ Cardinality(s) = 0 <=> s = {}
           /\ \A x \in s : /\ s \ {x} \in SUBSET T
                           /\ Cardinality(s \ {x}) = Cardinality(s) - 1
           /\ s # {} => AnyOf(s) \in s
<1>1. IsFiniteSet(s) /\ Cardinality(s) \in Nat
  BY FS_Subset, FS_CardinalityType
<1>2. Cardinality(s) = 0 <=> s = {}
  BY <1>1, FS_EmptySet
<1>3. ASSUME NEW x \in s PROVE Cardinality(s \ {x}) = Cardinality(s) - 1
  BY <1>1, FS_RemoveElement
<1>4. s # {} => AnyOf(s) \in s
  BY DEF AnyOf
<1> QED BY <1>1, <1>2, <1>3, <1>4

\* The recursion has a solution on the subsets of a finite set.
LEMMA SumIterDefined ==
    ASSUME NEW f, NEW T, IsFiniteSet(T)
    PROVE  \A s \in SUBSET T : SumIter(f, T)[s] = SumBody(f, SumIter(f, T), s)
<1> DEFINE Good(n) == \E g : \A s \in SUBSET T : Cardinality(s) <= n => g[s] = SumBody(f, g, s)
           Bad == {n \in Nat : ~Good(n)}
<1>1. Bad = {}
  <2> SUFFICES ASSUME Bad # {} PROVE FALSE
    OBVIOUS
  <2>1. Bad \in SUBSET Nat
    OBVIOUS
  <2>2. PICK m \in Bad : \A n \in Bad : m <= n
    BY <2>1, LeastOf
  <2>3. CASE m = 0
    <3> DEFINE g == [s \in SUBSET T |-> 0]
    <3>1. ASSUME NEW s \in SUBSET T, Cardinality(s) <= 0 PROVE g[s] = SumBody(f, g, s)
      BY <3>1, SubsetFacts DEF SumBody
    <3> HIDE DEF g
    <3>2. Good(0)
      BY <3>1
    <3> QED BY <2>3, <3>2
  <2>4. CASE m # 0
    <3>1. m - 1 \in Nat /\ m - 1 \notin Bad /\ m \in Nat
      BY <2>1, <2>2, <2>4
    <3>2. Good(m - 1)
      BY <3>1
    <3>3. PICK g : \A s \in SUBSET T : Cardinality(s) <= m - 1 => g[s] = SumBody(f, g, s)
      BY <3>2
    <3> DEFINE h == [s \in SUBSET T |-> IF Cardinality(s) <= m - 1 THEN g[s] ELSE SumBody(f, g, s)]
    <3>4. ASSUME NEW s \in SUBSET T, Cardinality(s) <= m PROVE h[s] = SumBody(f, h, s)
      <4>1. h[s] = SumBody(f, g, s)
        BY <3>3
      <4>2. s # {} => h[s \ {AnyOf(s)}] = g[s \ {AnyOf(s)}]
        <5> SUFFICES ASSUME s # {} PROVE h[s \ {AnyOf(s)}] = g[s \ {AnyOf(s)}]
          OBVIOUS
        <5>1. s \ {AnyOf(s)} \in SUBSET T /\ Cardinality(s \ {AnyOf(s)}) <= m - 1
          BY <3>1, <3>4, SubsetFacts
        <5> QED BY <5>1
      <4> HIDE DEF h
      <4> QED BY <4>1, <4>2 DEF SumBody
    <3> HIDE DEF h
    <3>5. Good(m)
      BY <3>4
    <3> QED BY <3>5
  <2> QED BY <2>3, <2>4
<1>2. Cardinality(T) \in Nat
  BY FS_CardinalityType
<1>3. Good(Cardinality(T))
  BY <1>1, <1>2
<1>4. PICK g : \A s \in SUBSET T : Cardinality(s) <= Cardinality(T) => g[s] = SumBody(f, g, s)
  BY <1>3
<1>5. ASSUME NEW s \in SUBSET T PROVE g[s] = SumBody(f, g, s) /\ (s # {} => AnyOf(s) \in s)
  BY <1>4, FS_Subset, SubsetFacts
<1> DEFINE h == [s \in SUBSET T |-> g[s]]
           Fixed(k) == k = [s \in SUBSET T |-> SumBody(f, k, s)]
<1>6. ASSUME NEW s \in SUBSET T PROVE h[s] = SumBody(f, h, s)
  BY <1>5 DEF SumBody
<1>7. Fixed(h)
  <2>1. h = [s \in SUBSET T |-> h[s]]
    OBVIOUS
  <2> HIDE DEF h
  <2> QED BY <1>6, <2>1
<1>8. SumIter(f, T) = CHOOSE k : Fixed(k)
  BY DEF SumIter
<1> HIDE DEF Fixed, h
<1>9. Fixed(SumIter(f, T))
  BY <1>7, <1>8
<1> QED BY <1>9 DEF Fixed

\* The sum over a subset is the same wherever it is taken.
LEMMA SumIterSame ==
    ASSUME NEW f, NEW U, IsFiniteSet(U)
    PROVE  \A T \in SUBSET U : \A s \in SUBSET T : SumIter(f, T)[s] = Sum(f, s)
<1> DEFINE Differ(T, s) == SumIter(f, T)[s] # Sum(f, s)
           Bad == {n \in Nat : \E T \in SUBSET U : \E s \in SUBSET T : Cardinality(s) = n /\ Differ(T, s)}
<1>1. ASSUME NEW T \in SUBSET U, NEW s \in SUBSET T
      PROVE  SumIter(f, T)[s] = SumBody(f, SumIter(f, T), s)
  <2>1. IsFiniteSet(T)
    BY FS_Subset
  <2> QED BY <2>1, SumIterDefined
<1>2. Bad = {}
  <2> SUFFICES ASSUME Bad # {} PROVE FALSE
    OBVIOUS
  <2>1. Bad \in SUBSET Nat
    OBVIOUS
  <2>2. PICK m \in Bad : \A n \in Bad : m <= n
    BY <2>1, LeastOf
  <2>2a. PICK T \in SUBSET U : \E s \in SUBSET T : Cardinality(s) = m /\ Differ(T, s)
    BY <2>2
  <2>3. PICK s \in SUBSET T : Cardinality(s) = m /\ Differ(T, s)
    BY <2>2a
  <2>4. s \in SUBSET U /\ s \in SUBSET s
    OBVIOUS
  <2>5. SumIter(f, T)[s] = SumBody(f, SumIter(f, T), s) /\ SumIter(f, s)[s] = SumBody(f, SumIter(f, s), s)
    BY <1>1, <2>4
  <2>6. s # {}
    BY <2>3, <2>5 DEF SumBody, Sum
  <2> DEFINE r == s \ {AnyOf(s)}
  <2>7. /\ r \in SUBSET U /\ r \in SUBSET T /\ r \in SUBSET s
        /\ Cardinality(r) = m - 1 /\ m - 1 \in Nat
    BY <2>1, <2>2, <2>3, <2>4, <2>6, SubsetFacts
  <2> HIDE DEF r
  <2>8. m - 1 \notin Bad
    BY <2>1, <2>2, <2>7
  <2>9. ~Differ(T, r) /\ ~Differ(s, r)
    BY <2>4, <2>7, <2>8
  <2>10. SumIter(f, T)[r] = SumIter(f, s)[r]
    BY <2>9
  <2>11. SumIter(f, T)[s] = SumIter(f, s)[s]
    BY <2>5, <2>6, <2>10 DEF SumBody, r
  <2> QED BY <2>3, <2>11 DEF Sum
<1>3. ASSUME NEW T \in SUBSET U, NEW s \in SUBSET T PROVE ~Differ(T, s)
  <2>1. s \in SUBSET U
    OBVIOUS
  <2>2. Cardinality(s) \in Nat
    BY <2>1, SubsetFacts
  <2> QED BY <1>2, <2>2
<1> QED BY <1>3

\* The first step of the recursion.
LEMMA SumFirst ==
    ASSUME NEW f, NEW T, IsFiniteSet(T)
    PROVE  /\ T = {} => Sum(f, T) = 0
           /\ T # {} => Sum(f, T) = f[AnyOf(T)] + Sum(f, T \ {AnyOf(T)})
<1>1. \A s \in SUBSET T : SumIter(f, T)[s] = SumBody(f, SumIter(f, T), s)
  BY SumIterDefined
<1>2. T \in SUBSET T /\ T \ {AnyOf(T)} \in SUBSET T
  OBVIOUS
<1>3. Sum(f, T) = SumBody(f, SumIter(f, T), T)
  BY <1>1, <1>2 DEF Sum
<1>4. SumIter(f, T)[T \ {AnyOf(T)}] = Sum(f, T \ {AnyOf(T)})
  BY <1>2, SumIterSame
<1> QED BY <1>3, <1>4 DEF SumBody

\* A sum of natural numbers is one.
LEMMA SumNat ==
    ASSUME NEW f, NEW U, IsFiniteSet(U), \A x \in U : f[x] \in Nat
    PROVE  \A T \in SUBSET U : Sum(f, T) \in Nat
<1> DEFINE Bad == {n \in Nat : \E T \in SUBSET U : Cardinality(T) = n /\ Sum(f, T) \notin Nat}
<1>1. Bad = {}
  <2> SUFFICES ASSUME Bad # {} PROVE FALSE
    OBVIOUS
  <2>1. Bad \in SUBSET Nat
    OBVIOUS
  <2>2. PICK m \in Bad : \A n \in Bad : m <= n
    BY <2>1, LeastOf
  <2>3. PICK T \in SUBSET U : Cardinality(T) = m /\ Sum(f, T) \notin Nat
    BY <2>2
  <2>4. /\ T = {} => Sum(f, T) = 0
        /\ T # {} => Sum(f, T) = f[AnyOf(T)] + Sum(f, T \ {AnyOf(T)})
        /\ T # {} => AnyOf(T) \in T
    BY SumFirst, SubsetFacts
  <2>5. PICK a \in T : a = AnyOf(T)
    BY <2>3, <2>4
  <2>6. T \ {a} \in SUBSET U /\ Cardinality(T \ {a}) = m - 1 /\ m - 1 \in Nat
    BY <2>3, SubsetFacts
  <2>7. m - 1 \notin Bad
    BY <2>1, <2>2, <2>6
  <2>8. Sum(f, T \ {a}) \in Nat
    BY <2>6, <2>7
  <2> QED BY <2>3, <2>4, <2>5, <2>8
<1> QED BY <1>1, SubsetFacts

\* The order does not matter: any element can be taken out first.
LEMMA SumRemove ==
    ASSUME NEW f, NEW U, IsFiniteSet(U), \A x \in U : f[x] \in Nat
    PROVE  \A T \in SUBSET U : \A x \in T : Sum(f, T) = f[x] + Sum(f, T \ {x})
<1> DEFINE Right(T) == \A x \in T : Sum(f, T) = f[x] + Sum(f, T \ {x})
           Bad == {n \in Nat : \E T \in SUBSET U : Cardinality(T) = n /\ ~Right(T)}
<1>1. Bad = {}
  <2> SUFFICES ASSUME Bad # {} PROVE FALSE
    OBVIOUS
  <2>1. Bad \in SUBSET Nat
    OBVIOUS
  <2>2. PICK m \in Bad : \A n \in Bad : m <= n
    BY <2>1, LeastOf
  <2>3. PICK T \in SUBSET U : Cardinality(T) = m /\ ~Right(T)
    BY <2>2
  <2>4. T # {} => Sum(f, T) = f[AnyOf(T)] + Sum(f, T \ {AnyOf(T)}) /\ AnyOf(T) \in T
    BY SumFirst, SubsetFacts
  <2>5. PICK a \in T : Sum(f, T) = f[a] + Sum(f, T \ {a})
    BY <2>3, <2>4
  <2>6. ASSUME NEW x \in T PROVE Right(T \ {x})
    <3>1. T \ {x} \in SUBSET U /\ Cardinality(T \ {x}) = m - 1 /\ m - 1 \in Nat
      BY <2>3, SubsetFacts
    <3>2. m - 1 \notin Bad
      BY <2>1, <2>2, <3>1
    <3> QED BY <3>1, <3>2
  <2>7. ASSUME NEW x \in T, x # a PROVE Sum(f, T) = f[x] + Sum(f, T \ {x})
    <3>1. Sum(f, T \ {a}) = f[x] + Sum(f, (T \ {a}) \ {x})
      BY <2>6, <2>7
    <3>2. Sum(f, T \ {x}) = f[a] + Sum(f, (T \ {x}) \ {a})
      BY <2>6, <2>7
    <3>3. (T \ {a}) \ {x} = (T \ {x}) \ {a} /\ (T \ {x}) \ {a} \in SUBSET U
      OBVIOUS
    <3>4. Sum(f, (T \ {x}) \ {a}) \in Nat /\ f[x] \in Nat /\ f[a] \in Nat
      BY <3>3, SumNat
    <3>5. PICK k \in Nat, i \in Nat, j \in Nat : k = Sum(f, (T \ {x}) \ {a}) /\ i = f[x] /\ j = f[a]
      BY <3>4
    <3>6. Sum(f, T) = j + (i + k) /\ Sum(f, T \ {x}) = j + k
      BY <2>5, <3>1, <3>2, <3>3, <3>5
    <3>7. Sum(f, T) = i + (j + k)
      BY <3>6
    <3> QED BY <3>5, <3>6, <3>7
  <2> QED BY <2>3, <2>5, <2>7
<1>2. ASSUME NEW T \in SUBSET U PROVE Right(T)
  BY <1>1, SubsetFacts
<1> QED BY <1>2

\* A sum depends on the summands only.
LEMMA SumSame ==
    ASSUME NEW f, NEW g, NEW U, IsFiniteSet(U), \A x \in U : f[x] = g[x]
    PROVE  Sum(f, U) = Sum(g, U)
<1> DEFINE Bad == {n \in Nat : \E T \in SUBSET U : Cardinality(T) = n /\ Sum(f, T) # Sum(g, T)}
<1>1. Bad = {}
  <2> SUFFICES ASSUME Bad # {} PROVE FALSE
    OBVIOUS
  <2>1. Bad \in SUBSET Nat
    OBVIOUS
  <2>2. PICK m \in Bad : \A n \in Bad : m <= n
    BY <2>1, LeastOf
  <2>3. PICK T \in SUBSET U : Cardinality(T) = m /\ Sum(f, T) # Sum(g, T)
    BY <2>2
  <2>4. /\ T = {} => Sum(f, T) = 0 /\ Sum(g, T) = 0
        /\ T # {} => /\ Sum(f, T) = f[AnyOf(T)] + Sum(f, T \ {AnyOf(T)})
                     /\ Sum(g, T) = g[AnyOf(T)] + Sum(g, T \ {AnyOf(T)})
                     /\ AnyOf(T) \in T
    BY SumFirst, SubsetFacts
  <2>5. PICK a \in T : a = AnyOf(T)
    BY <2>3, <2>4
  <2>6. T \ {a} \in SUBSET U /\ Cardinality(T \ {a}) = m - 1 /\ m - 1 \in Nat
    BY <2>3, SubsetFacts
  <2>7. m - 1 \notin Bad
    BY <2>1, <2>2, <2>6
  <2>8. Sum(f, T \ {a}) = Sum(g, T \ {a})
    BY <2>6, <2>7
  <2> QED BY <2>3, <2>4, <2>5, <2>8
<1>2. U \in SUBSET U /\ Cardinality(U) \in Nat
  BY FS_CardinalityType
<1> QED BY <1>1, <1>2

\* What a change of one summand, and of whether it counts, does to a sum.
LEMMA SumChange ==
    ASSUME NEW f, NEW g, NEW U, IsFiniteSet(U), NEW t \in U,
           \A x \in U : f[x] \in Nat /\ g[x] \in Nat,
           \A x \in U \ {t} : f[x] = g[x],
           NEW Q \in SUBSET U, NEW T \in SUBSET U, Q \ {t} = T \ {t}
    PROVE  /\ Sum(f, Q) \in Nat /\ Sum(g, T) \in Nat
           /\ Sum(f, Q) - (IF t \in Q THEN f[t] ELSE 0) = Sum(g, T) - (IF t \in T THEN g[t] ELSE 0)
<1>1. /\ Sum(f, Q) \in Nat /\ Sum(g, T) \in Nat
      /\ Sum(f, Q \ {t}) \in Nat /\ Sum(g, T \ {t}) \in Nat
  BY SumNat
<1>2. /\ t \in Q => Sum(f, Q) = f[t] + Sum(f, Q \ {t})
      /\ t \in T => Sum(g, T) = g[t] + Sum(g, T \ {t})
  BY SumRemove
<1>3. IsFiniteSet(Q \ {t})
  BY FS_Subset
<1>4. \A x \in Q \ {t} : f[x] = g[x]
  OBVIOUS
<1>5. Sum(f, Q \ {t}) = Sum(g, Q \ {t})
  BY <1>3, <1>4, SumSame
<1>6. /\ t \notin Q => Q = Q \ {t}
      /\ t \notin T => T = T \ {t}
  OBVIOUS
<1>7. Sum(f, Q) - (IF t \in Q THEN f[t] ELSE 0) = Sum(f, Q \ {t})
  <2>1. CASE t \in Q
    <3>1. PICK i \in Nat, k \in Nat : i = f[t] /\ k = Sum(f, Q \ {t})
      BY <1>1
    <3>2. Sum(f, Q) = i + k
      BY <1>2, <2>1, <3>1
    <3>3. Sum(f, Q) - i = k
      BY <3>2
    <3> QED BY <2>1, <3>1, <3>3
  <2>2. CASE t \notin Q
    <3>1. Sum(f, Q) = Sum(f, Q \ {t})
      BY <1>6, <2>2
    <3>2. Sum(f, Q) - 0 = Sum(f, Q)
      BY <1>1
    <3> QED BY <2>2, <3>1, <3>2
  <2> QED BY <2>1, <2>2
<1>8. Sum(g, T) - (IF t \in T THEN g[t] ELSE 0) = Sum(g, T \ {t})
  <2>1. CASE t \in T
    <3>1. PICK i \in Nat, k \in Nat : i = g[t] /\ k = Sum(g, T \ {t})
      BY <1>1
    <3>2. Sum(g, T) = i + k
      BY <1>2, <2>1, <3>1
    <3>3. Sum(g, T) - i = k
      BY <3>2
    <3> QED BY <2>1, <3>1, <3>3
  <2>2. CASE t \notin T
    <3>1. Sum(g, T) = Sum(g, T \ {t})
      BY <1>6, <2>2
    <3>2. Sum(g, T) - 0 = Sum(g, T)
      BY <1>1
    <3> QED BY <2>2, <3>1, <3>2
  <2> QED BY <2>1, <2>2
<1> QED BY <1>1, <1>5, <1>7, <1>8


\* A part of a set has no more than the whole.
LEMMA SumSubset ==
    ASSUME NEW f, NEW U, IsFiniteSet(U), \A x \in U : f[x] \in Nat
    PROVE  \A T \in SUBSET U : \A Q \in SUBSET T : Sum(f, Q) <= Sum(f, T)
<1> DEFINE Less(T) == \A Q \in SUBSET T : Sum(f, Q) <= Sum(f, T)
           Bad == {n \in Nat : \E T \in SUBSET U : Cardinality(T) = n /\ ~Less(T)}
<1>1. Bad = {}
  <2> SUFFICES ASSUME Bad # {} PROVE FALSE
    OBVIOUS
  <2>1. Bad \in SUBSET Nat
    OBVIOUS
  <2>2. PICK m \in Bad : \A n \in Bad : m <= n
    BY <2>1, LeastOf
  <2>3. PICK T \in SUBSET U : Cardinality(T) = m /\ ~Less(T)
    BY <2>2
  <2>4. PICK Q \in SUBSET T : ~(Sum(f, Q) <= Sum(f, T))
    BY <2>3
  <2>5. Q \in SUBSET U /\ Sum(f, Q) \in Nat /\ Sum(f, T) \in Nat
    BY SumNat
  <2>6. Q # T
    BY <2>4, <2>5
  <2>7. PICK a \in T : a \notin Q
    BY <2>6
  <2>8. T \ {a} \in SUBSET U /\ Cardinality(T \ {a}) = m - 1 /\ m - 1 \in Nat
    BY <2>3, SubsetFacts
  <2>9. m - 1 \notin Bad
    BY <2>1, <2>2, <2>8
  <2>10. Less(T \ {a})
    BY <2>8, <2>9
  <2>11. Q \in SUBSET (T \ {a})
    BY <2>7
  <2>12. Sum(f, Q) <= Sum(f, T \ {a})
    BY <2>10, <2>11
  <2>13. Sum(f, T) = f[a] + Sum(f, T \ {a}) /\ f[a] \in Nat /\ Sum(f, T \ {a}) \in Nat
    BY <2>8, SumRemove, SumNat
  <2> HIDE DEF Bad
  <2> QED BY <2>4, <2>5, <2>12, <2>13
<1>2. ASSUME NEW T \in SUBSET U PROVE Less(T)
  BY <1>1, SubsetFacts
<1> QED BY <1>2

\* What a factor does to sums, differences and the order.
LEMMA Products ==
    ASSUME NEW q \in Nat
    PROVE  /\ \A a, b \in Int : (a + b) * q = a * q + b * q /\ (a - b) * q = a * q - b * q
           /\ \A a, b \in Int : a <= b => a * q <= b * q
           /\ \A a \in Nat : a * q \in Nat
           /\ \A a \in Int : a * q \in Int
<1>1. ASSUME NEW a \in Int, NEW b \in Int
      PROVE  (a + b) * q = a * q + b * q /\ (a - b) * q = a * q - b * q
  OBVIOUS
<1>2. ASSUME NEW a \in Int, NEW b \in Int, a <= b PROVE a * q <= b * q
  <2>1. PICK k \in Nat : b = a + k
    BY <1>2
  <2>2. k * q >= 0
    OBVIOUS
  <2>3. b * q = a * q + k * q
    BY <2>1
  <2>4. a * q \in Int /\ k * q \in Int
    OBVIOUS
  <2> QED BY <2>2, <2>3, <2>4
<1>3. ASSUME NEW a \in Nat PROVE a * q \in Nat
  OBVIOUS
<1>4. ASSUME NEW a \in Int PROVE a * q \in Int
  OBVIOUS
<1> QED BY <1>1, <1>2, <1>3, <1>4

\* The quotient of a division, rounded down.
LEMMA Quotient ==
    ASSUME NEW d \in Nat \ {0}, NEW a \in Nat
    PROVE  /\ a \div d \in Nat
           /\ (a \div d) * d <= a
           /\ a < (a \div d) * d + d
OBVIOUS

\* Any other number that fits is smaller.
LEMMA QuotientLeast ==
    ASSUME NEW d \in Nat \ {0}, NEW a \in Nat, NEW k \in Nat, k * d <= a
    PROVE  k <= a \div d
<1> DEFINE c == a \div d
<1>1. c \in Nat /\ a < c * d + d
  BY Quotient
<1> HIDE DEF c
<1> SUFFICES ASSUME ~(k <= c) PROVE FALSE
  BY DEF c
<1>2. (c + 1) * d <= k * d
  BY <1>1, Products
<1>3. (c + 1) * d = c * d + d
  BY <1>1
<1>4. c * d \in Nat /\ k * d \in Nat
  BY <1>1, Products
<1> QED BY <1>1, <1>2, <1>3, <1>4

\* What is missing is a number.
LEMMA Negated ==
    ASSUME NEW a \in Int, ~(a >= 0)
    PROVE  -a \in Nat
OBVIOUS

\* The library's least and greatest of two.
LEMMA MinMax ==
    ASSUME NEW a \in Int, NEW b \in Int
    PROVE  /\ B!Min({a, b}) = IF a <= b THEN a ELSE b
           /\ B!Max({a, b}) = IF a >= b THEN a ELSE b
BY DEF B!Min, B!Max

\* The sum of two sums.
LEMMA SumPlus ==
    ASSUME NEW f, NEW g, NEW h, NEW U, IsFiniteSet(U),
           \A x \in U : f[x] \in Nat /\ g[x] \in Nat /\ h[x] = f[x] + g[x]
    PROVE  Sum(h, U) = Sum(f, U) + Sum(g, U)
<1> DEFINE Bad == {n \in Nat : \E T \in SUBSET U : Cardinality(T) = n /\ Sum(h, T) # Sum(f, T) + Sum(g, T)}
<1>1. Bad = {}
  <2> SUFFICES ASSUME Bad # {} PROVE FALSE
    OBVIOUS
  <2>1. Bad \in SUBSET Nat
    OBVIOUS
  <2>2. PICK m \in Bad : \A n \in Bad : m <= n
    BY <2>1, LeastOf
  <2>3. PICK T \in SUBSET U : Cardinality(T) = m /\ Sum(h, T) # Sum(f, T) + Sum(g, T)
    BY <2>2
  <2>4. /\ T = {} => Sum(f, T) = 0 /\ Sum(g, T) = 0 /\ Sum(h, T) = 0
        /\ T # {} => AnyOf(T) \in T
    BY SumFirst, SubsetFacts
  <2>5. PICK a \in T : a = AnyOf(T)
    BY <2>3, <2>4
  <2>6. T \ {a} \in SUBSET U /\ Cardinality(T \ {a}) = m - 1 /\ m - 1 \in Nat
    BY <2>3, SubsetFacts
  <2>7. m - 1 \notin Bad
    BY <2>1, <2>2, <2>6
  <2>8. Sum(h, T \ {a}) = Sum(f, T \ {a}) + Sum(g, T \ {a})
    BY <2>6, <2>7
  <2>9. PICK i \in Nat, j \in Nat, k \in Nat, l \in Nat :
            i = f[a] /\ j = Sum(f, T \ {a}) /\ k = g[a] /\ l = Sum(g, T \ {a})
    BY <2>6, SumNat
  <2>10. Sum(f, T) = i + j /\ Sum(g, T) = k + l /\ Sum(h, T) = (i + k) + (j + l)
    <3>1. \A x \in U : h[x] \in Nat
      OBVIOUS
    <3> QED BY <2>8, <2>9, <3>1, SumRemove
  <2>11. Sum(h, T) = Sum(f, T) + Sum(g, T)
    BY <2>10
  <2> QED BY <2>3, <2>11
<1>2. U \in SUBSET U /\ Cardinality(U) \in Nat
  BY FS_CardinalityType
<1> QED BY <1>1, <1>2

\* The size of a union of finite sets that have nothing in common.
LEMMA UnionSum ==
    ASSUME NEW U, IsFiniteSet(U), NEW F,
           \A x \in U : IsFiniteSet(F[x]),
           \A x, y \in U : x # y => F[x] \cap F[y] = {}
    PROVE  /\ IsFiniteSet(UNION {F[x] : x \in U})
           /\ Cardinality(UNION {F[x] : x \in U}) = Sum([x \in U |-> Cardinality(F[x])], U)
<1> DEFINE f == [x \in U |-> Cardinality(F[x])]
           All(T) == UNION {F[x] : x \in T}
           Right(T) == IsFiniteSet(All(T)) /\ Cardinality(All(T)) = Sum(f, T)
           Bad == {n \in Nat : \E T \in SUBSET U : Cardinality(T) = n /\ ~Right(T)}
<1>1. \A x \in U : f[x] \in Nat /\ f[x] = Cardinality(F[x])
  BY FS_CardinalityType
<1> HIDE DEF f
<1>2. Bad = {}
  <2> SUFFICES ASSUME Bad # {} PROVE FALSE
    OBVIOUS
  <2>1. Bad \in SUBSET Nat
    OBVIOUS
  <2>2. PICK m \in Bad : \A n \in Bad : m <= n
    BY <2>1, LeastOf
  <2>3. PICK T \in SUBSET U : Cardinality(T) = m /\ ~Right(T)
    BY <2>2
  <2>4. T # {}
    <3> SUFFICES ASSUME T = {} PROVE Right(T)
      BY <2>3
    <3>1. All(T) = {}
      OBVIOUS
    <3>2. Sum(f, T) = 0
      BY SumFirst, SubsetFacts
    <3> QED BY <3>1, <3>2, FS_EmptySet
  <2>5. PICK a \in T : TRUE
    BY <2>4
  <2>6. T \ {a} \in SUBSET U /\ Cardinality(T \ {a}) = m - 1 /\ m - 1 \in Nat
    BY <2>3, SubsetFacts
  <2>7. m - 1 \notin Bad
    <3> HIDE DEF Bad
    <3> QED BY <2>1, <2>2, <2>6
  <2>8. Right(T \ {a})
    BY <2>6, <2>7
  <2>9. All(T) = All(T \ {a}) \cup F[a] /\ All(T \ {a}) \cap F[a] = {}
    OBVIOUS
  <2>10. Sum(f, T) = f[a] + Sum(f, T \ {a}) /\ f[a] = Cardinality(F[a]) /\ IsFiniteSet(F[a])
    BY <1>1, SumRemove
  <2>11. PICK P1, P2 : P1 = All(T \ {a}) /\ P2 = F[a]
    OBVIOUS
  <2>12. /\ IsFiniteSet(P1) /\ Cardinality(P1) = Sum(f, T \ {a}) /\ IsFiniteSet(P2)
         /\ All(T) = P1 \cup P2 /\ P1 \cap P2 = {}
         /\ Sum(f, T) = Cardinality(P2) + Cardinality(P1)
    BY <2>8, <2>9, <2>10, <2>11
  <2> HIDE DEF All
  <2>13. /\ IsFiniteSet(P1 \cup P2)
         /\ Cardinality(P1 \cup P2) = Cardinality(P1) + Cardinality(P2) - Cardinality({})
    BY <2>12, FS_Union
  <2>14. Cardinality(P1) \in Nat /\ Cardinality(P2) \in Nat /\ Cardinality({}) = 0
    BY <2>12, FS_CardinalityType, FS_EmptySet
  <2>15. Cardinality(P1 \cup P2) = Cardinality(P2) + Cardinality(P1)
    BY <2>13, <2>14
  <2> QED BY <2>3, <2>12, <2>13, <2>15
<1>3. U \in SUBSET U /\ Cardinality(U) \in Nat
  BY FS_CardinalityType
<1>4. Right(U)
  BY <1>2, <1>3
<1> QED BY <1>4 DEF f

\* A set of numbers from 1 on without a gap is told by its size.
LEMMA NoGap ==
    ASSUME NEW n \in Nat, NEW E \in SUBSET (1 .. n), \A i \in E : \A j \in 1 .. i : j \in E
    PROVE  Cardinality(E) \in 0 .. n /\ E = 1 .. Cardinality(E)
<1>1. CASE E = 1 .. n
  <2>1. Cardinality(1 .. n) = n
    BY FS_Interval
  <2> QED BY <1>1, <2>1
<1>2. CASE E # 1 .. n
  <2> DEFINE Out == {i \in 1 .. n : i \notin E}
  <2>1. Out \in SUBSET Nat /\ Out # {}
    <3>1. Out # {}
      BY <1>2
    <3> QED BY <3>1
  <2>2. PICK m \in Out : \A i \in Out : m <= i
    BY <2>1, LeastOf
  <2>3. ASSUME NEW i \in E PROVE i \in 1 .. m - 1
    BY <2>2
  <2>4. ASSUME NEW i \in 1 .. m - 1 PROVE i \in E
    BY <2>2
  <2>5. E \subseteq 1 .. m - 1 /\ 1 .. m - 1 \subseteq E
    BY <2>3, <2>4
  <2>5a. E = 1 .. m - 1
    BY <2>5, Zenon
  <2>5b. m - 1 \in 0 .. n /\ m - 1 \in Nat
    BY <2>2
  <2>6. Cardinality(1 .. m - 1) = m - 1
    BY <2>5b, FS_Interval
  <2> QED BY <2>5a, <2>5b, <2>6
<1> QED BY <1>1, <1>2

-----------------------------------------------------------------------------
(* SignalSlot.                                                             *)

\* The list of the signal has the slots that are connected, and that of an emission
\* what they were when it began.
SignalInv ==
    /\ slots_ \in G!Lists \cup {G!None}
    /\ slots \in [Emissions -> G!Lists \cup {G!None}]
    /\ list = [l \in G!Lists |-> list[l]]
    /\ snapshot = [e \in Emissions |-> snapshot[e]]
    /\ slots_ # G!None => list[slots_] = connected
    /\ G!EmitsSnapshot

\* There are enough lists: one that nobody holds is left for a copy, if the list of
\* the signal is held by an emission.
LEMMA FreeList ==
    ASSUME SignalInv, slots_ \in G!Range(slots)
    PROVE  \E l \in G!Lists : l \notin G!Referenced
<1> DEFINE n == Cardinality(Emissions)
           T == G!Range(slots)
<1>1. IsFiniteSet(Emissions) /\ n \in Nat
  BY PoolsAssumption, SameCount, FS_CardinalityType DEF G!SignalAssumption
<1>2. slots \in Surjection(Emissions, T)
  BY DEF SignalInv, G!Range, Surjection
<1>3. IsFiniteSet(T) /\ Cardinality(T) <= n /\ Cardinality(T) \in Nat
  BY <1>1, <1>2, FS_Surjection, FS_CardinalityType
<1>4. G!Lists = 1 .. n + 1
  BY SameCount DEF G!Lists
<1>5. Cardinality(G!Lists) = n + 1 /\ IsFiniteSet(G!Lists)
  BY <1>1, <1>4, FS_Interval
<1> HIDE DEF n, T
<1>6. ~(G!Lists \subseteq T)
  BY <1>1, <1>3, <1>5, FS_Subset
<1>7. G!Referenced \subseteq T
  BY DEF G!Referenced, T
<1> QED BY <1>6, <1>7

\* The list that a change goes to is held by no emission.
LEMMA CopyFacts ==
    ASSUME SignalInv, slots_ # G!None
    PROVE  /\ G!CopyIfNeeded \in G!Lists
           /\ \A e \in Emissions : slots[e] # G!CopyIfNeeded
<1>1. CASE slots_ \notin G!Range(slots)
  BY <1>1 DEF SignalInv, G!CopyIfNeeded, G!Range
<1>2. CASE slots_ \in G!Range(slots)
  <2> DEFINE Free(l) == l \notin G!Referenced
  <2>1. \E l \in G!Lists : Free(l)
    BY <1>2, FreeList
  <2>2. G!CopyIfNeeded = CHOOSE l \in G!Lists : Free(l)
    BY <1>2 DEF G!CopyIfNeeded
  <2> HIDE DEF Free
  <2>3. G!CopyIfNeeded \in G!Lists /\ Free(G!CopyIfNeeded)
    BY <2>1, <2>2
  <2>4. G!CopyIfNeeded # G!None
    BY <2>3 DEF G!Lists, G!None
  <2>5. ASSUME NEW e \in Emissions, slots[e] # G!None PROVE slots[e] \in G!Referenced
    BY <2>5 DEF SignalInv, G!Referenced, G!Range
  <2> QED BY <2>3, <2>4, <2>5 DEF Free
<1> QED BY <1>1, <1>2

\* A change leaves the lists of the emissions alone.
LEMMA ChangeStep ==
    ASSUME SignalInv, NEW changed, NEW told, G!Change(changed, told), changed = told
    PROVE  SignalInv'
<1> DEFINE l == G!CopyIfNeeded
<1>1. /\ slots_ # G!None /\ slots_' = l
      /\ list' = [list EXCEPT ![l] = changed]
      /\ connected' = told
      /\ UNCHANGED <<slots, iter, checked, snapshot>>
  BY DEF G!Change
<1>2. l \in G!Lists /\ \A e \in Emissions : slots[e] # l
  BY <1>1, CopyFacts
<1> HIDE DEF l
<1>3. list = [k \in G!Lists |-> list[k]] /\ slots \in [Emissions -> G!Lists \cup {G!None}]
  BY DEF SignalInv
<1>4. /\ list' = [k \in G!Lists |-> list'[k]] /\ list'[l] = changed
      /\ \A k \in G!Lists : k # l => list'[k] = list[k]
  BY <1>1, <1>2, <1>3
<1>5. \A e \in Emissions : slots[e] # G!None => list'[slots[e]] = list[slots[e]]
  BY <1>2, <1>3, <1>4
<1> QED BY <1>1, <1>2, <1>4, <1>5 DEF SignalInv, G!EmitsSnapshot

\* A list that is referenced is kept.
LEMMA ReleaseStep ==
    ASSUME SignalInv, list' = G!Release(list), slots_' \in G!Lists \cup {G!None},
           slots_' # G!None => UNCHANGED <<slots_, connected>>,
           slots' \in [Emissions -> G!Lists \cup {G!None}],
           snapshot' = [e \in Emissions |-> snapshot'[e]],
           \A e \in Emissions : slots'[e] # G!None => slots'[e] = slots[e] /\ snapshot'[e] = snapshot[e]
    PROVE  SignalInv'
<1>1. list' = [l \in G!Lists |-> IF l \in G!Referenced' THEN list[l] ELSE <<>>]
  BY DEF G!Release
<1>2. G!Referenced' = ({slots_'} \cup G!Range(slots')) \ {G!None}
  BY DEF G!Referenced, G!Range, G!None
<1> HIDE DEF G!Referenced
<1>3. ASSUME slots_' # G!None PROVE list'[slots_'] = connected'
  BY <1>1, <1>2, <1>3 DEF SignalInv
<1>4. ASSUME NEW e \in Emissions, slots'[e] # G!None PROVE list'[slots'[e]] = snapshot'[e]
  <2>1. slots'[e] \in G!Referenced' /\ slots'[e] \in G!Lists
    BY <1>2, <1>4 DEF G!Range
  <2> QED BY <1>1, <1>4, <2>1 DEF SignalInv, G!EmitsSnapshot
<1> QED BY <1>1, <1>3, <1>4 DEF SignalInv, G!EmitsSnapshot

\* Every step of the signal keeps the invariant.
LEMMA SignalStep ==
    ASSUME SignalInv, G!Next
    PROVE  SignalInv'
<1>1. ASSUME NEW s \in Threads, G!Connect(s) PROVE SignalInv'
  BY <1>1, ChangeStep DEF G!Connect, SignalInv, G!Change
<1>2. ASSUME NEW s \in Threads, G!Disconnect(s) PROVE SignalInv'
  BY <1>2, ChangeStep DEF G!Disconnect, SignalInv, G!Change
<1>3. ASSUME NEW s \in Threads, G!ObjectEnds(s) PROVE SignalInv'
  BY <1>3 DEF G!ObjectEnds, SignalInv, G!EmitsSnapshot
<1>4. CASE G!DisconnectAll
  BY <1>4, ChangeStep DEF G!DisconnectAll
<1>5. CASE G!DestroySignal
  <2>1. /\ list' = G!Release(list) /\ slots_' = G!None
        /\ UNCHANGED <<slots, snapshot>>
    BY <1>5 DEF G!DestroySignal
  <2> QED BY <2>1, ReleaseStep DEF SignalInv
<1>6. ASSUME NEW e \in Emissions, G!Emit(e) PROVE SignalInv'
  BY <1>6 DEF G!Emit, SignalInv, G!EmitsSnapshot
<1>7. ASSUME NEW e \in Emissions, G!Check(e) PROVE SignalInv'
  BY <1>7 DEF G!Check, SignalInv, G!EmitsSnapshot
<1>8. ASSUME NEW e \in Emissions, G!Call(e) PROVE SignalInv'
  BY <1>8 DEF G!Call, SignalInv, G!EmitsSnapshot
<1>9. ASSUME NEW e \in Emissions, G!Return(e) PROVE SignalInv'
  <2>1. /\ list' = G!Release(list)
        /\ slots' = [slots EXCEPT ![e] = G!None]
        /\ snapshot' = [snapshot EXCEPT ![e] = <<>>]
        /\ UNCHANGED <<slots_, connected>>
    BY <1>9 DEF G!Return
  <2> QED BY <2>1, ReleaseStep DEF SignalInv
<1> QED BY <1>1, <1>2, <1>3, <1>4, <1>5, <1>6, <1>7, <1>8, <1>9 DEF G!Next

\* An emission goes through the slots that were connected when it began, whatever is
\* connected, disconnected or destroyed during it.
THEOREM EmitsTheorem == Spec => []EmitsSnapshot
<1> DEFINE Inv == at = "signal" => SignalInv
<1>1. Init => Inv
  <2> SUFFICES ASSUME G!Init PROVE SignalInv
    BY DEF Init
  <2>1. 1 \in G!Lists
    BY PoolsAssumption, SameCount, FS_CardinalityType DEF G!SignalAssumption, G!Lists
  <2> QED BY <2>1 DEF G!Init, SignalInv, G!EmitsSnapshot, G!None
<1>2. Inv /\ [Next]_vars => Inv'
  <2> SUFFICES ASSUME SignalInv, [Next]_vars, at = "signal", at' = "signal" PROVE SignalInv'
    BY DEF Next, vars
  <2>1. CASE UNCHANGED vars
    BY <2>1 DEF vars, signalVars, SignalInv, G!EmitsSnapshot
  <2>2. CASE G!Next
    BY <2>2, SignalStep
  <2> QED BY <2>1, <2>2 DEF Next
<1>3. Inv => EmitsSnapshot
  BY DEF EmitsSnapshot, SignalInv
<1> QED BY <1>1, <1>2, <1>3, PTL DEF Spec

-----------------------------------------------------------------------------
(* RCString.                                                               *)

\* What kind of value each of the strings' variables has.
StringType ==
    /\ pc \in [Threads -> {"none", "idle", "copy", "addref", "clone", "release", "sub", "store"}]
    /\ job \in [Threads -> {"append", "index", "destroy", R!None}]
    /\ other \in [Threads -> Threads \cup {R!None}]
    /\ data_ \in [Threads -> Objects \cup {R!None}]
    /\ new_data \in [Threads -> Objects \cup {R!None}]
    /\ ref_count_ \in [Objects -> Nat]
    /\ content \in [Objects -> {0, 1}]
    /\ value \in [Threads -> {0, 1}]
    /\ allocated \subseteq Objects
    /\ reference \subseteq Threads

\* What string s has and does at each point of a call.
StringControl(s) ==
    /\ data_[s] = R!None <=> pc[s] \in {"none", "copy", "addref"}
    /\ other[s] = R!None <=> pc[s] \notin {"copy", "addref"}
    /\ other[s] # R!None => pc[other[s]] = "idle"
    /\ new_data[s] # R!None <=> pc[s] \in {"release", "sub"} /\ job[s] # "destroy"
    /\ pc[s] \in {"clone", "store"} => job[s] \in {"append", "index"}
    /\ pc[s] \in {"release", "sub"} => job[s] # R!None

\* What s has found out about its data is still so, and they have the right content.
StringData(s) ==
    /\ pc[s] = "store" => R!Unique(data_[s])
    /\ pc[s] = "sub" => ~R!Unsharedable(data_[s])
    /\ pc[s] = "addref" => ~R!Unsharedable(data_[other[s]])
    /\ s \in reference =>
          /\ pc[s] = "idle" \/ (pc[s] = "store" /\ job[s] = "index")
          /\ R!Unsharedable(data_[s])
    /\ data_[s] # R!None => content[data_[s]] = value[s]
    /\ new_data[s] # R!None =>
          /\ content[new_data[s]] = value[s] /\ ref_count_[new_data[s]] = 1
          /\ data_[s] # new_data[s]

\* The count of data d is that of its owners, or the mark.
Counted(d) ==
    /\ d \in allocated <=> R!Owners(d) # {}
    /\ d \in allocated =>
          \/ ref_count_[d] = Cardinality(R!Owners(d))
          \/ R!Unsharedable(d) /\ Cardinality(R!Owners(d)) = 1

\* The inductive invariant of the strings.
StringInv ==
    /\ StringType
    /\ \A s \in Threads : StringControl(s)
    /\ \A s \in Threads : StringData(s)
    /\ \A d \in Objects : Counted(d)

\* What StringAssumption says here.
LEMMA StringConstants ==
    /\ IsFiniteSet(Threads) /\ Cardinality(Threads) \in Nat
    /\ R!None \notin Threads /\ R!None \notin Objects
    /\ Wrap \in Nat /\ Wrap > Cardinality(Threads) + 1
BY PoolsAssumption, SameCount, FS_CardinalityType DEF R!StringAssumption

\* There are fewer owners than it takes to count up to the mark.
LEMMA OwnersFacts ==
    ASSUME NEW d
    PROVE  /\ IsFiniteSet(R!Owners(d)) /\ Cardinality(R!Owners(d)) \in Nat
           /\ Cardinality(R!Owners(d)) < Wrap - 1
           /\ Cardinality(R!Owners(d)) = 0 <=> R!Owners(d) = {}
<1>1. R!Owners(d) \in SUBSET Threads
  BY DEF R!Owners
<1>2. /\ IsFiniteSet(R!Owners(d)) /\ Cardinality(R!Owners(d)) \in Nat
      /\ Cardinality(R!Owners(d)) <= Cardinality(Threads)
  BY <1>1, StringConstants, FS_Subset, FS_CardinalityType
<1> QED BY <1>2, StringConstants, FS_EmptySet

\* Data that are found to be unique have one owner.
LEMMA UniqueOwner ==
    ASSUME StringInv, NEW d \in Objects, R!Unique(d), NEW s \in R!Owners(d), NEW u \in R!Owners(d)
    PROVE  u = s
<1>1. d \in allocated /\ Counted(d)
  BY DEF StringInv, Counted
<1>2. Cardinality(R!Owners(d)) = 1
  BY <1>1, OwnersFacts, StringConstants DEF Counted, R!Unique, R!Unsharedable, R!kUnsharedRefMark
<1>3. \E x : R!Owners(d) = {x}
  BY <1>2, OwnersFacts, FS_Singleton
<1> QED BY <1>3

\* A string that has data is one of their owners.
LEMMA OwnerFacts ==
    ASSUME StringInv, NEW s \in Threads
    PROVE  /\ data_[s] # R!None => data_[s] \in Objects /\ s \in R!Owners(data_[s])
           /\ new_data[s] # R!None => new_data[s] \in Objects /\ s \in R!Owners(new_data[s])
BY DEF StringInv, StringType, R!Owners

\* Nobody copies a string while it is called.
LEMMA NotCopied ==
    ASSUME StringInv, NEW s \in Threads, pc[s] # "idle"
    PROVE  \A u \in Threads : other[u] # s
BY StringConstants DEF StringInv, StringControl, StringType

\* How the owners change when a string gets other data.
LEMMA OwnersMove ==
    ASSUME StringType, NEW s \in Threads, NEW a, NEW b,
           data_' = [data_ EXCEPT ![s] = a], new_data' = [new_data EXCEPT ![s] = b],
           NEW d
    PROVE  R!Owners(d)' = IF a = d \/ b = d THEN R!Owners(d) \cup {s} ELSE R!Owners(d) \ {s}
<1>1. /\ data_'[s] = a /\ new_data'[s] = b
      /\ \A u \in Threads : u # s => data_'[u] = data_[u] /\ new_data'[u] = new_data[u]
  BY DEF StringType
<1> QED BY <1>1 DEF R!Owners

\* New data have their first owner.
LEMMA MadeStep ==
    ASSUME StringInv, NEW s \in Threads, NEW d \in Objects, NEW c \in {0, 1}, R!New(d, c),
           pc[s] \in {"none", "copy"},
           pc' = [pc EXCEPT ![s] = "idle"], other' = [other EXCEPT ![s] = R!None],
           data_' = [data_ EXCEPT ![s] = d], value' = [value EXCEPT ![s] = c],
           UNCHANGED <<job, new_data, reference>>
    PROVE  StringInv'
<1>1. /\ d \notin allocated
      /\ allocated' = allocated \cup {d}
      /\ ref_count_' = [ref_count_ EXCEPT ![d] = 1]
      /\ content' = [content EXCEPT ![d] = c]
  BY DEF R!New
<1>2. StringType'
  BY <1>1, StringConstants DEF StringInv, StringType
<1>3. /\ pc'[s] = "idle" /\ other'[s] = R!None /\ data_'[s] = d /\ value'[s] = c
      /\ \A u \in Threads : u # s =>
            pc'[u] = pc[u] /\ other'[u] = other[u] /\ data_'[u] = data_[u] /\ value'[u] = value[u]
  BY DEF StringInv, StringType
<1>4. /\ ref_count_'[d] = 1 /\ content'[d] = c
      /\ \A e \in Objects : e # d => ref_count_'[e] = ref_count_[e] /\ content'[e] = content[e]
  BY <1>1 DEF StringInv, StringType
<1>5. /\ data_[s] = R!None /\ new_data[s] = R!None /\ s \notin reference
      /\ \A u \in Threads : other[u] # s
  BY NotCopied DEF StringInv, StringControl, StringData
<1>6. R!Owners(d) = {}
  BY <1>1 DEF StringInv, Counted
<1>7. \A u \in Threads : data_[u] # d /\ new_data[u] # d
  BY <1>6 DEF R!Owners
<1>8. ASSUME NEW u \in Threads PROVE StringControl(u)'
  <2>1. CASE u = s
    BY <1>3, <1>5, <2>1, StringConstants DEF StringControl
  <2>2. CASE u # s
    BY <1>3, <1>5, <2>2 DEF StringInv, StringType, StringControl
  <2> QED BY <2>1, <2>2
<1>9. ASSUME NEW u \in Threads PROVE StringData(u)'
  <2>1. CASE u = s
    BY <1>3, <1>4, <1>5, <2>1 DEF StringData
  <2>2. CASE u # s
    <3>1. /\ data_[u] \in Objects \cup {R!None} /\ new_data[u] \in Objects \cup {R!None}
          /\ other[u] \in Threads \cup {R!None} /\ other[u] # s
          /\ other[u] # R!None => data_[other[u]] \in Objects \cup {R!None}
      BY <1>5 DEF StringInv, StringType
    <3>2. StringData(u) /\ StringControl(u) /\ (other[u] # R!None => StringControl(other[u]))
      BY <3>1 DEF StringInv
    <3> QED BY <1>3, <1>4, <1>7, <2>2, <3>1, <3>2
            DEF StringData, StringControl, R!Unique, R!Unsharedable, R!kUnsharedRefMark
  <2> QED BY <2>1, <2>2
<1>10. ASSUME NEW e \in Objects PROVE Counted(e)'
  <2>1. new_data' = [new_data EXCEPT ![s] = new_data[s]]
    BY DEF StringInv, StringType
  <2>2. R!Owners(e)' = IF e = d THEN {s} ELSE R!Owners(e)
    <3>1. R!Owners(e)' = IF d = e \/ new_data[s] = e THEN R!Owners(e) \cup {s} ELSE R!Owners(e) \ {s}
      BY <2>1, OwnersMove, ZenonT(30) DEF StringInv
    <3>2. s \notin R!Owners(e) /\ new_data[s] # e
      BY <1>5, StringConstants DEF R!Owners
    <3> QED BY <1>6, <3>1, <3>2
  <2>3. Counted(e) 
    BY DEF StringInv
  <2>4. CASE e = d
    BY <1>1, <1>4, <2>2, <2>4, FS_Singleton DEF Counted
  <2>5. CASE e # d
    BY <1>1, <1>4, <2>2, <2>3, <2>5 DEF Counted, R!Unsharedable, R!kUnsharedRefMark
  <2> QED BY <2>4, <2>5
<1> QED BY <1>2, <1>8, <1>9, <1>10 DEF StringInv

\* The steps that only look: the copy constructor asks whether data may be shared, and
\* a call whether they are unique or marked.
LEMMA LookStep ==
    ASSUME StringInv, NEW s \in Threads,
           pc' \in [Threads -> {"none", "idle", "copy", "addref", "clone", "release", "sub", "store"}],
           job' \in [Threads -> {"append", "index", "destroy", R!None}],
           other' \in [Threads -> Threads \cup {R!None}],
           reference' \subseteq reference,
           \A u \in Threads : u # s =>
              pc'[u] = pc[u] /\ job'[u] = job[u] /\ other'[u] = other[u] /\ other[u] # s,
           StringControl(s)', StringData(s)',
           UNCHANGED <<data_, new_data, ref_count_, content, allocated, value>>
    PROVE  StringInv'
<1>1. StringType'
  BY DEF StringInv, StringType
<1>2. ASSUME NEW u \in Threads, u # s PROVE StringControl(u)' /\ StringData(u)'
  <2>1. StringControl(u) /\ StringData(u) /\ other[u] \in Threads \cup {R!None}
    BY DEF StringInv, StringType
  <2>2. other[u] # R!None => pc'[other[u]] = pc[other[u]]
    BY <1>2, <2>1
  <2>3. StringControl(u)'
    BY <1>2, <2>1, <2>2 DEF StringControl
  <2>4. StringData(u)'
    BY <1>2, <2>1 DEF StringData, R!Unique, R!Unsharedable, R!kUnsharedRefMark
  <2> QED BY <2>3, <2>4
<1>3. ASSUME NEW d \in Objects PROVE Counted(d)'
  BY DEF StringInv, Counted, R!Owners, R!Unsharedable, R!kUnsharedRefMark
<1> QED BY <1>1, <1>2, <1>3 DEF StringInv

\* The copy constructor begins.
LEMMA CopyFromStep ==
    ASSUME StringInv, NEW s \in Threads, NEW o \in Threads, R!CopyFrom(s, o)
    PROVE  StringInv'
<1>1. /\ pc[s] = "none" /\ pc[o] = "idle" /\ s # o
      /\ other' = [other EXCEPT ![s] = o]
      /\ pc' = [pc EXCEPT ![s] = IF R!Unsharedable(data_[o]) THEN "copy" ELSE "addref"]
      /\ UNCHANGED <<job, data_, new_data, ref_count_, content, allocated, reference, value>>
  BY DEF R!CopyFrom
<1>2. /\ pc'[s] = (IF R!Unsharedable(data_[o]) THEN "copy" ELSE "addref") /\ other'[s] = o
      /\ pc'[o] = "idle"
      /\ pc' \in [Threads -> {"none", "idle", "copy", "addref", "clone", "release", "sub", "store"}]
      /\ other' \in [Threads -> Threads \cup {R!None}] /\ job' \in [Threads -> {"append", "index", "destroy", R!None}]
  BY <1>1 DEF StringInv, StringType
<1>3. \A u \in Threads : u # s =>
         pc'[u] = pc[u] /\ job'[u] = job[u] /\ other'[u] = other[u] /\ other[u] # s
  BY <1>1, NotCopied DEF StringInv, StringType
<1>4. StringControl(s) /\ StringData(s)
  BY DEF StringInv
<1>5. StringControl(s)'
  BY <1>1, <1>2, <1>4, StringConstants DEF StringControl
<1>6. StringData(s)'
  BY <1>1, <1>2, <1>4 DEF StringControl, StringData, R!Unsharedable, R!kUnsharedRefMark
<1> QED BY <1>1, <1>2, <1>3, <1>5, <1>6, LookStep

\* A call begins.
LEMMA CallStep ==
    ASSUME StringInv, NEW s \in Threads, NEW j \in {"append", "index", "destroy"}, R!Call(s, j)
    PROVE  StringInv'
<1> DEFINE p == IF j = "destroy" THEN "release"
                ELSE IF R!Unique(data_[s]) THEN "store" ELSE "clone"
<1>1. /\ pc[s] = "idle" /\ ~R!Copied(s)
      /\ job' = [job EXCEPT ![s] = j]
      /\ pc' = [pc EXCEPT ![s] = p]
      /\ reference' = IF j = "index" THEN reference ELSE reference \ {s}
      /\ UNCHANGED <<other, data_, new_data, ref_count_, content, allocated, value>>
  BY DEF R!Call
<1>2. /\ pc'[s] = p /\ job'[s] = j
      /\ pc' \in [Threads -> {"none", "idle", "copy", "addref", "clone", "release", "sub", "store"}]
      /\ job' \in [Threads -> {"append", "index", "destroy", R!None}]
      /\ other' \in [Threads -> Threads \cup {R!None}]
  BY <1>1 DEF StringInv, StringType
<1>3. \A u \in Threads : u # s =>
         pc'[u] = pc[u] /\ job'[u] = job[u] /\ other'[u] = other[u] /\ other[u] # s
  BY <1>1 DEF StringInv, StringType, R!Copied
<1>4. StringControl(s) /\ StringData(s)
  BY DEF StringInv
<1>5. StringControl(s)'
  BY <1>1, <1>2, <1>4, StringConstants DEF StringControl, R!None
<1>6. StringData(s)'
  BY <1>1, <1>2, <1>4 DEF StringControl, StringData, R!Unique, R!Unsharedable, R!kUnsharedRefMark
<1>7. reference' \subseteq reference
  BY <1>1
<1> QED BY <1>1, <1>2, <1>3, <1>5, <1>6, <1>7, LookStep

\* AddRef: the data of a string that is being copied are not unique for anybody else,
\* and its owner cannot have marked them since they were looked at.
LEMMA AddRefStep ==
    ASSUME StringInv, NEW s \in Threads, R!AddRef(s)
    PROVE  StringInv'
<1>1. /\ pc[s] = "addref" /\ other[s] \in Threads
      /\ data_[s] = R!None /\ new_data[s] = R!None /\ s \notin reference
  BY DEF R!AddRef, StringInv, StringType, StringControl, StringData
<1>2. PICK o \in Threads : /\ o = other[s] /\ pc[o] = "idle" /\ o # s
                          /\ ~R!Unsharedable(data_[o])
  BY <1>1 DEF StringInv, StringType, StringControl, StringData
<1>3. PICK d \in Objects : d = data_[o] /\ content[d] = value[o] /\ o \in R!Owners(d)
  BY <1>2 DEF StringInv, StringType, StringControl, StringData, R!Owners
<1>a. /\ ref_count_' = [ref_count_ EXCEPT ![d] = (ref_count_[d] + 1) % Wrap]
      /\ pc' = [pc EXCEPT ![s] = "idle"]
      /\ data_' = [data_ EXCEPT ![s] = d]
      /\ value' = [value EXCEPT ![s] = value[o]]
      /\ other' = [other EXCEPT ![s] = R!None]
      /\ UNCHANGED <<job, new_data, reference, content, allocated>>
  BY <1>2, <1>3 DEF R!AddRef, R!Constructed
<1>4. /\ d \in allocated /\ ref_count_[d] = Cardinality(R!Owners(d)) /\ Counted(d)
  BY <1>2, <1>3 DEF StringInv, Counted
<1>5. /\ ref_count_[d] \in Nat /\ ref_count_[d] >= 1 /\ ref_count_[d] + 1 < Wrap
      /\ (ref_count_[d] + 1) % Wrap = ref_count_[d] + 1
  BY <1>3, <1>4, OwnersFacts, StringConstants
<1>6. /\ pc'[s] = "idle" /\ other'[s] = R!None /\ data_'[s] = d /\ value'[s] = value[o]
      /\ \A u \in Threads : u # s =>
            pc'[u] = pc[u] /\ other'[u] = other[u] /\ data_'[u] = data_[u] /\ value'[u] = value[u]
  BY <1>1, <1>a DEF StringInv, StringType
<1>7. /\ ref_count_'[d] = ref_count_[d] + 1
      /\ \A e \in Objects : e # d => ref_count_'[e] = ref_count_[e]
  BY <1>1, <1>a, <1>3, <1>5 DEF StringInv, StringType
<1>8. StringType'
  BY <1>1, <1>a, <1>2, <1>3, <1>5 DEF StringInv, StringType
<1>9. ASSUME NEW e \in Objects
      PROVE  R!Owners(e)' = IF e = d THEN R!Owners(d) \cup {s} ELSE R!Owners(e)
  <2>1. new_data' = [new_data EXCEPT ![s] = new_data[s]]
    BY <1>1, <1>a DEF StringInv, StringType
  <2>2. R!Owners(e)' = IF d = e \/ new_data[s] = e THEN R!Owners(e) \cup {s} ELSE R!Owners(e) \ {s}
    BY <1>1, <1>a, <2>1, OwnersMove, ZenonT(30) DEF StringInv
  <2>3. s \notin R!Owners(e) /\ new_data[s] # e
    BY <1>1, StringConstants DEF R!Owners
  <2> QED BY <2>2, <2>3
<1>10. s \notin R!Owners(d)
  BY <1>1, <1>3, StringConstants DEF R!Owners
<1>11. Cardinality(R!Owners(d)') = ref_count_[d] + 1
  <2>1. R!Owners(d)' = R!Owners(d) \cup {s}
    BY <1>3, <1>9
  <2> QED BY <1>4, <1>10, <2>1, OwnersFacts, FS_AddElement
<1>12. ref_count_[d] + 1 < Wrap - 1
  <2>1. R!Owners(d)' \in SUBSET Threads
    BY DEF R!Owners
  <2>2. Cardinality(R!Owners(d)') <= Cardinality(Threads)
    BY <2>1, StringConstants, FS_Subset
  <2> QED BY <1>5, <1>11, <2>2, StringConstants
<1>13. ~R!Unsharedable(d)'
  BY <1>5, <1>7, <1>12, StringConstants DEF R!Unsharedable, R!kUnsharedRefMark
<1>14. ASSUME NEW u \in Threads PROVE StringControl(u)'
  <2>1. \A v \in Threads : other[v] # s
    BY <1>1, <1>a, NotCopied
  <2>2. CASE u = s
    BY <1>1, <1>a, <1>2, <1>3, <1>6, <2>2, StringConstants DEF StringControl
  <2>3. CASE u # s
    BY <1>1, <1>a, <1>6, <2>1, <2>3 DEF StringInv, StringType, StringControl
  <2> QED BY <2>2, <2>3
<1>15. ASSUME NEW u \in Threads PROVE StringData(u)'
  <2>1. CASE u = s
    BY <1>1, <1>a, <1>2, <1>3, <1>6, <2>1 DEF StringData
  <2>2. CASE u # s
    <3>1. /\ data_[u] \in Objects \cup {R!None} /\ new_data[u] \in Objects \cup {R!None}
          /\ other[u] \in Threads \cup {R!None} /\ other[u] # s
          /\ other[u] # R!None => data_[other[u]] \in Objects \cup {R!None}
      BY <1>1, <1>a, NotCopied DEF StringInv, StringType
    <3>2. StringData(u) /\ StringControl(u) /\ (other[u] # R!None => StringControl(other[u]))
      BY <3>1 DEF StringInv
    <3>3. data_[u] = d => pc[u] # "store"
      <4> SUFFICES ASSUME data_[u] = d, pc[u] = "store" PROVE FALSE
        OBVIOUS
      <4>1. R!Unique(d) /\ u \in R!Owners(d)
        BY <3>2 DEF StringData, R!Owners
      <4> QED BY <1>2, <1>3, <4>1, UniqueOwner
    <3>4. new_data[u] # d
      <4> SUFFICES ASSUME new_data[u] = d PROVE FALSE
        OBVIOUS
      <4>1. R!Unique(d) /\ u \in R!Owners(d) /\ pc[u] # "idle"
        BY <1>3, <3>2, StringConstants DEF StringData, StringControl, R!Owners, R!Unique
      <4> QED BY <1>2, <1>3, <4>1, UniqueOwner
    <3>5. data_[u] = d => u \notin reference
      BY <1>2, <1>3, <3>2 DEF StringData
    <3>6. CASE data_[u] = d \/ (other[u] # R!None /\ data_[other[u]] = d)
      BY <1>1, <1>a, <1>6, <1>7, <1>13, <2>2, <3>1, <3>2, <3>3, <3>4, <3>5, <3>6
         DEF StringData, StringControl, R!Unique, R!Unsharedable, R!kUnsharedRefMark
    <3>7. CASE ~(data_[u] = d \/ (other[u] # R!None /\ data_[other[u]] = d))
      BY <1>1, <1>a, <1>6, <1>7, <2>2, <3>1, <3>2, <3>4, <3>7
         DEF StringData, StringControl, R!Unique, R!Unsharedable, R!kUnsharedRefMark
    <3> QED BY <3>6, <3>7
  <2> QED BY <2>1, <2>2
<1>16. ASSUME NEW e \in Objects PROVE Counted(e)'
  <2>1. CASE e = d
    BY <1>1, <1>a, <1>4, <1>7, <1>9, <1>11, <2>1 DEF Counted
  <2>2. CASE e # d
    <3>1. Counted(e) /\ R!Owners(e)' = R!Owners(e) /\ ref_count_'[e] = ref_count_[e]
      BY <1>7, <1>9, <2>2 DEF StringInv
    <3> QED BY <1>1, <1>a, <3>1 DEF Counted, R!Unsharedable, R!kUnsharedRefMark
  <2> QED BY <2>1, <2>2
<1> QED BY <1>8, <1>14, <1>15, <1>16 DEF StringInv

\* PrepareToModify clones the data into new ones.
LEMMA CloneStep ==
    ASSUME StringInv, NEW s \in Threads, NEW d \in Objects, R!Clone(s, d)
    PROVE  StringInv'
<1>1. /\ pc[s] = "clone" /\ d \notin allocated
      /\ allocated' = allocated \cup {d}
      /\ ref_count_' = [ref_count_ EXCEPT ![d] = 1]
      /\ content' = [content EXCEPT ![d] = content[data_[s]]]
      /\ new_data' = [new_data EXCEPT ![s] = d]
      /\ pc' = [pc EXCEPT ![s] = "release"]
      /\ UNCHANGED <<job, other, data_, reference, value>>
  BY DEF R!Clone, R!New
<1>2. StringControl(s) /\ StringData(s) /\ data_[s] \in Objects \cup {R!None}
  BY DEF StringInv, StringType
<1>3. /\ data_[s] \in Objects /\ new_data[s] = R!None /\ s \notin reference
      /\ content[data_[s]] = value[s] /\ job[s] \in {"append", "index"}
      /\ other[s] = R!None
      /\ \A u \in Threads : other[u] # s
  BY <1>1, <1>2, NotCopied DEF StringControl, StringData
<1>4. StringType'
  BY <1>1, <1>3 DEF StringInv, StringType
<1>5. /\ pc'[s] = "release" /\ new_data'[s] = d
      /\ \A u \in Threads : u # s => pc'[u] = pc[u] /\ new_data'[u] = new_data[u]
  BY <1>1 DEF StringInv, StringType
<1>6. /\ ref_count_'[d] = 1 /\ content'[d] = value[s]
      /\ \A e \in Objects : e # d => ref_count_'[e] = ref_count_[e] /\ content'[e] = content[e]
  BY <1>1, <1>3 DEF StringInv, StringType
<1>7. R!Owners(d) = {}
  BY <1>1 DEF StringInv, Counted
<1>8. \A u \in Threads : data_[u] # d /\ new_data[u] # d
  BY <1>7 DEF R!Owners
<1>9. ASSUME NEW u \in Threads PROVE StringControl(u)'
  <2>1. CASE u = s
    BY <1>1, <1>2, <1>3, <1>5, <2>1, StringConstants DEF StringControl, R!None
  <2>2. CASE u # s
    BY <1>1, <1>3, <1>5, <2>2 DEF StringInv, StringType, StringControl
  <2> QED BY <2>1, <2>2
<1>10. ASSUME NEW u \in Threads PROVE StringData(u)'
  <2>1. CASE u = s
    BY <1>1, <1>2, <1>3, <1>5, <1>6, <1>8, <2>1 DEF StringData
  <2>2. CASE u # s
    <3>1. /\ data_[u] \in Objects \cup {R!None} /\ new_data[u] \in Objects \cup {R!None}
          /\ other[u] \in Threads \cup {R!None} /\ other[u] # s
          /\ other[u] # R!None => data_[other[u]] \in Objects \cup {R!None}
      BY <1>3 DEF StringInv, StringType
    <3>2. StringData(u) /\ StringControl(u) /\ (other[u] # R!None => StringControl(other[u]))
      BY <3>1 DEF StringInv
    <3> QED BY <1>1, <1>5, <1>6, <1>8, <2>2, <3>1, <3>2
            DEF StringData, StringControl, R!Unique, R!Unsharedable, R!kUnsharedRefMark
  <2> QED BY <2>1, <2>2
<1>11. ASSUME NEW e \in Objects PROVE Counted(e)'
  <2>1. data_' = [data_ EXCEPT ![s] = data_[s]]
    BY <1>1 DEF StringInv, StringType
  <2>2. R!Owners(e)' = IF data_[s] = e \/ d = e THEN R!Owners(e) \cup {s} ELSE R!Owners(e) \ {s}
    BY <1>1, <2>1, OwnersMove, ZenonT(30) DEF StringInv
  <2>3. s \in R!Owners(e) <=> data_[s] = e
    BY <1>3, StringConstants DEF R!Owners
  <2>4. CASE e = d
    <3>1. R!Owners(e)' = {s}
      BY <1>7, <2>2, <2>4
    <3>2. Cardinality({s}) = 1 /\ {s} # {}
      BY FS_Singleton
    <3>3. e \in allocated' /\ ref_count_'[e] = 1
      BY <1>1, <1>6, <2>4
    <3> QED BY <3>1, <3>2, <3>3, Zenon DEF Counted
  <2>5. CASE e # d
    <3>1. Counted(e) /\ R!Owners(e)' = R!Owners(e)
      BY <2>2, <2>3, <2>5 DEF StringInv
    <3> QED BY <1>1, <1>6, <2>5, <3>1 DEF Counted, R!Unsharedable, R!kUnsharedRefMark
  <2> QED BY <2>4, <2>5
<1> QED BY <1>4, <1>9, <1>10, <1>11 DEF StringInv

\* A string leaves data d behind, which go with their last owner or are counted down.
LEMMA ReleasedStep ==
    ASSUME StringInv, NEW s \in Threads, pc[s] \in {"release", "sub"}, NEW d \in Objects, d = data_[s],
           R!Released(s),
           \/ R!Delete(d) /\ R!Owners(d) = {s}
           \/ /\ ~R!Unsharedable(d) /\ R!Owners(d) # {s}
              /\ ref_count_' = [ref_count_ EXCEPT ![d] = ref_count_[d] - 1]
              /\ UNCHANGED <<content, allocated>>
    PROVE  StringInv'
<1>1. /\ pc' = [pc EXCEPT ![s] = IF job[s] = "destroy" THEN "none" ELSE "store"]
      /\ data_' = [data_ EXCEPT ![s] = new_data[s]]
      /\ new_data' = [new_data EXCEPT ![s] = R!None]
      /\ job' = [job EXCEPT ![s] = IF job[s] = "destroy" THEN R!None ELSE job[s]]
      /\ value' = [value EXCEPT ![s] = IF job[s] = "destroy" THEN 0 ELSE value[s]]
      /\ UNCHANGED <<other, reference>>
  BY DEF R!Released
<1>2. StringControl(s) /\ StringData(s) /\ job[s] \in {"append", "index", "destroy", R!None}
  BY DEF StringInv, StringType
<1>3. /\ s \notin reference /\ other[s] = R!None /\ \A u \in Threads : other[u] # s
      /\ new_data[s] = R!None <=> job[s] = "destroy"
      /\ new_data[s] # d
  BY <1>2, NotCopied, StringConstants DEF StringControl, StringData
<1>4. s \in R!Owners(d) /\ d \in allocated /\ Counted(d)
  BY DEF R!Owners, StringInv, Counted
<1>5. /\ pc'[s] = (IF job[s] = "destroy" THEN "none" ELSE "store")
      /\ data_'[s] = new_data[s] /\ new_data'[s] = R!None
      /\ job'[s] = (IF job[s] = "destroy" THEN R!None ELSE job[s])
      /\ value'[s] = (IF job[s] = "destroy" THEN 0 ELSE value[s])
      /\ \A u \in Threads : u # s =>
            /\ pc'[u] = pc[u] /\ data_'[u] = data_[u] /\ new_data'[u] = new_data[u]
            /\ job'[u] = job[u] /\ value'[u] = value[u]
  BY <1>1 DEF StringInv, StringType
<1>6. \A e \in Objects : e # d =>
         /\ ref_count_'[e] = ref_count_[e] /\ content'[e] = content[e]
         /\ e \in allocated' <=> e \in allocated
  BY DEF R!Delete, StringInv, StringType
<1>7. \/ R!Owners(d) = {s} /\ d \notin allocated'
      \/ /\ ref_count_[d] = Cardinality(R!Owners(d)) /\ R!Owners(d) # {s}
         /\ ref_count_'[d] = ref_count_[d] - 1
         /\ content' = content /\ allocated' = allocated
  BY <1>4 DEF R!Delete, StringInv, StringType, Counted
<1>8. ref_count_[d] = Cardinality(R!Owners(d)) /\ R!Owners(d) # {s} =>
         ref_count_[d] \in Nat /\ ref_count_[d] > 1
  <2>1. R!Owners(d) # {}
    BY <1>4
  <2>2. R!Owners(d) # {s} => Cardinality(R!Owners(d)) # 1
    BY <1>4, OwnersFacts, FS_Singleton
  <2> QED BY <2>1, <2>2, OwnersFacts
<1>9. StringType'
  <2>1. ref_count_' \in [Objects -> Nat] /\ content' \in [Objects -> {0, 1}] /\ allocated' \subseteq Objects
    <3>1. CASE R!Delete(d)
      BY <3>1 DEF R!Delete, StringInv, StringType
    <3>2. CASE /\ ~R!Unsharedable(d) /\ R!Owners(d) # {s}
               /\ ref_count_' = [ref_count_ EXCEPT ![d] = ref_count_[d] - 1]
               /\ UNCHANGED <<content, allocated>>
      <4>1. ref_count_[d] - 1 \in Nat
        BY <1>4, <1>8, <3>2 DEF Counted
      <4> QED BY <3>2, <4>1 DEF StringInv, StringType
    <3> QED BY <3>1, <3>2
  <2> QED BY <1>1, <1>2, <2>1 DEF StringInv, StringType
<1>10. ASSUME NEW u \in Threads PROVE StringControl(u)'
  <2>1. CASE u = s
    BY <1>1, <1>2, <1>3, <1>5, <2>1, StringConstants DEF StringControl
  <2>2. CASE u # s
    BY <1>1, <1>3, <1>5, <2>2 DEF StringInv, StringType, StringControl
  <2> QED BY <2>1, <2>2
<1>11. ASSUME NEW u \in Threads PROVE StringData(u)'
  <2>1. CASE u = s
    <3>1. new_data[s] \in Objects \cup {R!None}
      BY DEF StringInv, StringType
    <3> QED BY <1>1, <1>2, <1>3, <1>5, <1>6, <2>1, <3>1
            DEF StringData, R!Unique
  <2>2. CASE u # s
    <3>1. /\ data_[u] \in Objects \cup {R!None} /\ new_data[u] \in Objects \cup {R!None}
          /\ other[u] \in Threads \cup {R!None} /\ other[u] # s
          /\ other[u] # R!None => data_[other[u]] \in Objects \cup {R!None}
      BY <1>3 DEF StringInv, StringType
    <3>2. StringData(u) /\ StringControl(u) /\ (other[u] # R!None => StringControl(other[u]))
      BY <3>1 DEF StringInv
    <3>3. data_[u] = d \/ new_data[u] = d => u \in R!Owners(d) /\ R!Owners(d) # {s}
      BY <2>2 DEF R!Owners
    <3>4. new_data[u] # d
      <4> SUFFICES ASSUME new_data[u] = d PROVE FALSE
        OBVIOUS
      <4>1. R!Unique(d)
        BY <3>2, StringConstants DEF StringData, R!Unique
      <4> QED BY <1>4, <2>2, <3>3, <4>1, UniqueOwner
    <3>5. other[u] # R!None /\ data_[other[u]] = d => R!Owners(d) # {s}
      BY <3>1, <1>3 DEF R!Owners
    <3>6. CASE data_[u] = d \/ (other[u] # R!None /\ data_[other[u]] = d)
      <4>1. /\ ref_count_[d] = Cardinality(R!Owners(d)) /\ ref_count_'[d] = ref_count_[d] - 1
            /\ content' = content
        BY <1>7, <3>3, <3>5, <3>6
      <4>2. ~R!Unsharedable(d)'
        BY <1>8, <3>3, <3>5, <3>6, <4>1, OwnersFacts, StringConstants
           DEF R!Unsharedable, R!kUnsharedRefMark
      <4>3. data_[u] = d => pc[u] # "store" /\ u \notin reference
        <5> SUFFICES ASSUME data_[u] = d, pc[u] = "store" \/ u \in reference PROVE FALSE
          OBVIOUS
        <5>1. R!Unique(d) /\ u \in R!Owners(d)
          BY <3>2, <3>3 DEF StringData, R!Unique
        <5> QED BY <1>4, <2>2, <5>1, UniqueOwner
      <4> QED BY <1>1, <1>5, <1>6, <2>2, <3>1, <3>2, <3>4, <4>1, <4>2, <4>3
              DEF StringData, StringControl, R!Unique, R!Unsharedable, R!kUnsharedRefMark
    <3>7. CASE ~(data_[u] = d \/ (other[u] # R!None /\ data_[other[u]] = d))
      BY <1>1, <1>5, <1>6, <2>2, <3>1, <3>2, <3>4, <3>7
         DEF StringData, StringControl, R!Unique, R!Unsharedable, R!kUnsharedRefMark
    <3> QED BY <3>6, <3>7
  <2> QED BY <2>1, <2>2
<1>12. ASSUME NEW e \in Objects PROVE Counted(e)'
  <2>1. PICK n \in Objects \cup {R!None} : n = new_data[s]
    BY DEF StringInv, StringType
  <2>2. R!Owners(e)' = IF n = e \/ R!None = e THEN R!Owners(e) \cup {s} ELSE R!Owners(e) \ {s}
    BY <1>1, <2>1, OwnersMove, ZenonT(30) DEF StringInv
  <2>3. n = e => s \in R!Owners(e)
    BY <2>1 DEF R!Owners
  <2>4. CASE e = d
    <3>1. R!Owners(e)' = R!Owners(d) \ {s}
      BY <1>3, <2>1, <2>2, <2>4, StringConstants
    <3>2. Cardinality(R!Owners(e)') = Cardinality(R!Owners(d)) - 1
      BY <1>4, <3>1, OwnersFacts, FS_RemoveElement, ZenonT(30)
    <3>3. CASE R!Owners(d) = {s} /\ d \notin allocated'
      BY <2>4, <3>1, <3>3 DEF Counted
    <3>4. CASE /\ ref_count_[d] = Cardinality(R!Owners(d)) /\ R!Owners(d) # {s}
               /\ ref_count_'[d] = ref_count_[d] - 1 /\ allocated' = allocated
      <4>1. R!Owners(e)' # {}
        BY <1>4, <3>1, <3>4
      <4> QED BY <1>4, <2>4, <3>2, <3>4, <4>1 DEF Counted
    <3> QED BY <1>7, <3>3, <3>4
  <2>5. CASE e # d
    <3>1. s \in R!Owners(e) <=> n = e
      BY <2>1, <2>5 DEF R!Owners
    <3>2. Counted(e) /\ R!Owners(e)' = R!Owners(e)
      BY <2>2, <3>1, StringConstants DEF StringInv
    <3> QED BY <1>6, <2>5, <3>2 DEF Counted, R!Unsharedable, R!kUnsharedRefMark
  <2> QED BY <2>4, <2>5
<1> QED BY <1>9, <1>10, <1>11, <1>12 DEF StringInv

\* Release and FetchSub: data that are marked have one owner, and who counts to 0 was
\* the last.
LEMMA ReleaseOrSubStep ==
    ASSUME StringInv, NEW s \in Threads, R!Release(s) \/ R!FetchSub(s)
    PROVE  StringInv'
<1>1. pc[s] \in {"release", "sub"} /\ StringControl(s) /\ StringData(s)
  BY DEF R!Release, R!FetchSub, StringInv
<1>2. PICK d \in Objects : d = data_[s] /\ s \in R!Owners(d)
  BY <1>1, OwnerFacts DEF StringControl
<1>3. Counted(d) /\ d \in allocated /\ ref_count_[d] \in Nat
  BY <1>2 DEF StringInv, StringType, Counted
<1>4. CASE R!Unsharedable(d) /\ R!Delete(d) /\ R!Released(s)
  <2>1. R!Owners(d) = {s}
    BY <1>2, <1>4, UniqueOwner DEF R!Unique
  <2> QED BY <1>1, <1>2, <1>4, <2>1, ReleasedStep
<1>5. CASE /\ pc[s] = "release" /\ ~R!Unsharedable(d) /\ pc' = [pc EXCEPT ![s] = "sub"]
           /\ UNCHANGED <<job, other, data_, new_data, ref_count_, content, allocated, reference, value>>
  <2>1. /\ pc'[s] = "sub"
        /\ pc' \in [Threads -> {"none", "idle", "copy", "addref", "clone", "release", "sub", "store"}]
        /\ job' \in [Threads -> {"append", "index", "destroy", R!None}]
        /\ other' \in [Threads -> Threads \cup {R!None}]
    BY <1>5 DEF StringInv, StringType
  <2>2. \A u \in Threads : u # s =>
           pc'[u] = pc[u] /\ job'[u] = job[u] /\ other'[u] = other[u] /\ other[u] # s
    BY <1>5, NotCopied DEF StringInv, StringType
  <2>3. StringControl(s)'
    BY <1>1, <1>5, <2>1 DEF StringControl
  <2>4. StringData(s)'
    BY <1>1, <1>2, <1>5, <2>1 DEF StringData, R!Unsharedable, R!kUnsharedRefMark
  <2>5. reference' \subseteq reference
    BY <1>5
  <2> QED BY <1>5, <2>1, <2>2, <2>3, <2>4, <2>5, LookStep
<1>6. CASE R!FetchSub(s)
  <2> DEFINE c == (ref_count_[d] + Wrap - 1) % Wrap
  <2>1. /\ pc[s] = "sub" /\ R!Released(s)
        /\ IF c = 0 THEN R!Delete(d)
           ELSE /\ ref_count_' = [ref_count_ EXCEPT ![d] = c]
                /\ UNCHANGED <<content, allocated>>
    BY <1>2, <1>6 DEF R!FetchSub
  <2>2. ~R!Unsharedable(d) /\ ref_count_[d] = Cardinality(R!Owners(d)) /\ Cardinality(R!Owners(d)) # 0
    BY <1>1, <1>2, <1>3, <2>1, OwnersFacts DEF StringData, Counted
  <2>3. c = ref_count_[d] - 1
    BY <1>3, <2>2, OwnersFacts, StringConstants
  <2> HIDE DEF c
  <2>4. c = 0 <=> R!Owners(d) = {s}
    <3>1. c = 0 <=> Cardinality(R!Owners(d)) = 1
      BY <1>3, <2>2, <2>3
    <3>2. Cardinality(R!Owners(d)) = 1 <=> \E x : R!Owners(d) = {x}
      BY OwnersFacts, FS_Singleton
    <3> QED BY <1>2, <3>1, <3>2
  <2>5. CASE c = 0
    BY <1>1, <1>2, <2>1, <2>4, <2>5, ReleasedStep
  <2>6. CASE c # 0
    BY <1>1, <1>2, <2>1, <2>2, <2>3, <2>4, <2>6, ReleasedStep
  <2> QED BY <2>5, <2>6
<1> QED BY <1>2, <1>4, <1>5, <1>6 DEF R!Release

\* A write to data that have one owner, with a new count.
LEMMA WriteStep ==
    ASSUME StringInv, NEW s \in Threads, NEW d \in Objects, d = data_[s], R!Unique(d),
           \A u \in Threads : other[u] # s,
           pc[s] \in {"idle", "store"}, pc' = [pc EXCEPT ![s] = "idle"],
           job' \in [Threads -> {"append", "index", "destroy", R!None}],
           \A u \in Threads : u # s => job'[u] = job[u],
           NEW r \in {1, R!kUnsharedRefMark}, ref_count_' = [ref_count_ EXCEPT ![d] = r],
           NEW c \in {0, 1}, content' = [content EXCEPT ![d] = c], value' = [value EXCEPT ![s] = c],
           reference' \subseteq reference \cup {s}, s \in reference' => r = R!kUnsharedRefMark,
           UNCHANGED <<other, data_, new_data, allocated>>
    PROVE  StringInv'
<1>1. s \in R!Owners(d) /\ \A u \in Threads : u # s => u \notin R!Owners(d)
  BY UniqueOwner DEF R!Owners
<1>2. /\ pc'[s] = "idle" /\ value'[s] = c
      /\ \A u \in Threads : u # s => pc'[u] = pc[u] /\ value'[u] = value[u]
  BY DEF StringInv, StringType
<1>3. /\ ref_count_'[d] = r /\ content'[d] = c
      /\ \A e \in Objects : e # d => ref_count_'[e] = ref_count_[e] /\ content'[e] = content[e]
  BY DEF StringInv, StringType
<1>4. r \in Nat
  BY StringConstants DEF R!kUnsharedRefMark
<1>5. StringType'
  BY <1>4 DEF StringInv, StringType
<1>6. StringControl(s) /\ StringData(s)
  BY DEF StringInv
<1>7. ASSUME NEW u \in Threads PROVE StringControl(u)'
  <2>1. CASE u = s
    BY <1>2, <1>6, <2>1, StringConstants DEF StringControl
  <2>2. CASE u # s
    BY <1>2, <2>2 DEF StringInv, StringType, StringControl
  <2> QED BY <2>1, <2>2
<1>8. ASSUME NEW u \in Threads PROVE StringData(u)'
  <2>1. CASE u = s
    <3>1. new_data[s] = R!None
      BY <1>6 DEF StringControl
    <3> QED BY <1>2, <1>3, <2>1, <3>1 DEF StringData, R!Unsharedable
  <2>2. CASE u # s
    <3>1. /\ data_[u] \in Objects \cup {R!None} /\ new_data[u] \in Objects \cup {R!None}
          /\ other[u] \in Threads \cup {R!None} /\ other[u] # s
          /\ other[u] # R!None => data_[other[u]] \in Objects \cup {R!None}
      BY DEF StringInv, StringType
    <3>2. StringData(u) /\ StringControl(u) /\ (other[u] # R!None => StringControl(other[u]))
      BY <3>1 DEF StringInv
    <3>3. data_[u] # d /\ new_data[u] # d /\ (other[u] # R!None => data_[other[u]] # d)
      BY <1>1, <2>2, <3>1 DEF R!Owners
    <3> QED BY <1>2, <1>3, <2>2, <3>1, <3>2, <3>3
            DEF StringData, StringControl, R!Unique, R!Unsharedable, R!kUnsharedRefMark
  <2> QED BY <2>1, <2>2
<1>9. ASSUME NEW e \in Objects PROVE Counted(e)'
  <2>1. Counted(e) /\ R!Owners(e)' = R!Owners(e)
    BY DEF StringInv, R!Owners
  <2>2. CASE e = d
    <3>1. R!Owners(d) = {s}
      BY <1>1 DEF R!Owners
    <3>2. Cardinality(R!Owners(d)) = 1
      BY <3>1, FS_Singleton
    <3> QED BY <1>3, <2>1, <2>2, <3>2 DEF Counted, R!Unsharedable
  <2>3. CASE e # d
    BY <1>3, <2>1, <2>3 DEF Counted, R!Unsharedable, R!kUnsharedRefMark
  <2> QED BY <2>2, <2>3
<1> QED BY <1>5, <1>7, <1>8, <1>9 DEF StringInv

\* Store and WriteReference: the data are the string's own.
LEMMA OwnWriteStep ==
    ASSUME StringInv, NEW s \in Threads, R!Store(s) \/ R!WriteReference(s)
    PROVE  StringInv'
<1>1. pc[s] \in {"idle", "store"} /\ StringControl(s) /\ StringData(s)
  BY DEF R!Store, R!WriteReference, StringInv
<1>2. PICK d \in Objects : d = data_[s]
  BY <1>1, OwnerFacts DEF StringControl
<1>3. content[d] \in {0, 1} /\ content[d] = value[s] /\ R!None # d
  BY <1>1, <1>2, StringConstants DEF StringInv, StringType, StringData
<1>4. PICK b \in {0, 1} : b = content[d]
  BY <1>3
<1>5. 1 - b \in {0, 1}
  OBVIOUS
<1>6. CASE R!Store(s)
  <2>1. PICK j : j = job[s]
    OBVIOUS
  <2> DEFINE r == IF j = "index" THEN R!kUnsharedRefMark ELSE 1
  <2>2. /\ pc[s] = "store"
        /\ pc' = [pc EXCEPT ![s] = "idle"]
        /\ job' = [job EXCEPT ![s] = R!None]
        /\ ref_count_' = [ref_count_ EXCEPT ![d] = r]
        /\ IF j = "append" THEN R!Toggled(s) /\ UNCHANGED reference
           ELSE reference' = reference \cup {s} /\ UNCHANGED <<content, value>>
        /\ UNCHANGED <<other, data_, new_data, allocated>>
    BY <1>2, <1>6, <2>1 DEF R!Store
  <2>3. /\ j \in {"append", "index"} /\ R!Unique(d)
        /\ s \in reference => j = "index"
        /\ \A u \in Threads : other[u] # s
    BY <1>1, <1>2, <2>1, <2>2, NotCopied DEF StringControl, StringData
  <2>4. /\ job' \in [Threads -> {"append", "index", "destroy", R!None}]
        /\ \A u \in Threads : u # s => job'[u] = job[u]
    BY <2>2 DEF StringInv, StringType
  <2>5. r \in {1, R!kUnsharedRefMark} /\ (r = R!kUnsharedRefMark \/ j = "append")
    BY <2>3
  <2> HIDE DEF r
  <2>6. CASE j = "append"
    <3>1. content' = [content EXCEPT ![d] = 1 - b] /\ value' = [value EXCEPT ![s] = 1 - b]
      BY <1>2, <1>3, <1>4, <2>2, <2>6 DEF R!Toggled
    <3>2. reference' \subseteq reference \cup {s} /\ (s \in reference' => r = R!kUnsharedRefMark)
      BY <2>2, <2>3, <2>6
    <3> QED BY <1>1, <1>2, <1>5, <2>2, <2>3, <2>4, <2>5, <3>1, <3>2, WriteStep
  <2>7. CASE j = "index"
    <3>1. content' = [content EXCEPT ![d] = b] /\ value' = [value EXCEPT ![s] = b]
      BY <1>2, <1>3, <1>4, <2>2, <2>7 DEF StringInv, StringType
    <3>2. reference' \subseteq reference \cup {s} /\ (s \in reference' => r = R!kUnsharedRefMark)
      BY <2>2, <2>5, <2>7
    <3> QED BY <1>1, <1>2, <2>2, <2>3, <2>4, <2>5, <3>1, <3>2, WriteStep
  <2> QED BY <2>3, <2>6, <2>7
<1>7. CASE R!WriteReference(s)
  <2>1. /\ pc[s] = "idle" /\ s \in reference /\ ~R!Copied(s) /\ R!Toggled(s)
        /\ UNCHANGED <<pc, job, other, data_, new_data, ref_count_, allocated, reference>>
    BY <1>7 DEF R!WriteReference
  <2>2. /\ R!Unsharedable(d) /\ R!Unique(d) /\ \A u \in Threads : other[u] # s
    BY <1>1, <1>2, <2>1 DEF StringData, R!Unique, R!Copied
  <2>3. /\ content' = [content EXCEPT ![d] = 1 - b] /\ value' = [value EXCEPT ![s] = 1 - b]
    BY <1>2, <1>3, <1>4, <2>1 DEF R!Toggled
  <2>4. /\ pc' = [pc EXCEPT ![s] = "idle"]
        /\ ref_count_' = [ref_count_ EXCEPT ![d] = R!kUnsharedRefMark]
    BY <2>1, <2>2 DEF StringInv, StringType, R!Unsharedable
  <2>5. /\ job' \in [Threads -> {"append", "index", "destroy", R!None}]
        /\ \A u \in Threads : u # s => job'[u] = job[u]
    BY <2>1 DEF StringInv, StringType
  <2>6. reference' \subseteq reference \cup {s}
    BY <2>1
  <2> QED BY <1>1, <1>2, <1>5, <2>1, <2>2, <2>3, <2>4, <2>5, <2>6, WriteStep
<1> QED BY <1>6, <1>7

\* Every step of the strings keeps the invariant.
LEMMA StringStep ==
    ASSUME StringInv, R!Next
    PROVE  StringInv'
<1>1. ASSUME NEW s \in Threads, NEW d \in Objects, R!Construct(s, d) PROVE StringInv'
  <2>1. other[s] = R!None /\ other' = [other EXCEPT ![s] = R!None]
    BY <1>1 DEF R!Construct, StringInv, StringControl, StringType
  <2> QED BY <1>1, <2>1, MadeStep DEF R!Construct
<1>2. ASSUME NEW s \in Threads, NEW d \in Objects, R!Copy(s, d) PROVE StringInv'
  <2>1. /\ pc[s] = "copy" /\ other[s] \in Threads /\ pc[other[s]] = "idle"
    BY <1>2 DEF R!Copy, StringInv, StringControl, StringType
  <2>2. PICK c \in {0, 1} : c = value[other[s]] /\ c = content[data_[other[s]]]
    BY <2>1 DEF StringInv, StringControl, StringData, StringType
  <2>3. /\ R!New(d, c)
        /\ pc' = [pc EXCEPT ![s] = "idle"] /\ other' = [other EXCEPT ![s] = R!None]
        /\ data_' = [data_ EXCEPT ![s] = d] /\ value' = [value EXCEPT ![s] = c]
        /\ UNCHANGED <<job, new_data, reference>>
    BY <1>2, <2>2 DEF R!Copy, R!Constructed
  <2> QED BY <2>1, <2>3, MadeStep
<1> QED BY <1>1, <1>2, CloneStep, CopyFromStep, AddRefStep, ReleaseOrSubStep, OwnWriteStep, CallStep
        DEF R!Next

\* A string changes by its own calls only, whoever shares its data, the asserts find the
\* data unique, the counts are right, and data end with their last string.
THEOREM CopyTheorem == Spec => []CopyOnWrite
<1> DEFINE Inv == at = "string" => StringInv
<1>1. Init => Inv
  <2> SUFFICES ASSUME R!Init PROVE StringInv
    BY DEF Init
  <2>1. StringType
    BY DEF R!Init, StringType
  <2>2. \A s \in Threads : StringControl(s) /\ StringData(s)
    BY DEF R!Init, StringControl, StringData, R!None
  <2>3. ASSUME NEW d \in Objects PROVE Counted(d)
    BY StringConstants DEF R!Init, Counted, R!Owners
  <2> QED BY <2>1, <2>2, <2>3 DEF StringInv
<1>2. Inv /\ [Next]_vars => Inv'
  <2> SUFFICES ASSUME StringInv, [Next]_vars, at = "string", at' = "string" PROVE StringInv'
    BY DEF Next, vars
  <2>1. CASE UNCHANGED vars
    <3>1. UNCHANGED <<pc, job, other, data_, new_data, ref_count_, content, allocated, reference, value>>
      BY <2>1 DEF vars, stringVars
    <3>2. StringType'
      BY <3>1 DEF StringInv, StringType
    <3>3. ASSUME NEW s \in Threads PROVE StringControl(s)' /\ StringData(s)'
      <4>1. StringControl(s) /\ StringData(s)
        BY DEF StringInv
      <4> QED BY <3>1, <4>1
              DEF StringControl, StringData, R!Unique, R!Unsharedable, R!kUnsharedRefMark
    <3>4. ASSUME NEW d \in Objects PROVE Counted(d)'
      BY <3>1 DEF StringInv, Counted, R!Owners, R!Unsharedable, R!kUnsharedRefMark
    <3> QED BY <3>2, <3>3, <3>4 DEF StringInv
  <2>2. CASE R!Next
    BY <2>2, StringStep
  <2> QED BY <2>1, <2>2 DEF Next
<1>3. Inv => CopyOnWrite
  <2> SUFFICES ASSUME StringInv PROVE R!CopyOnWrite /\ R!OwnersCounted
    BY DEF CopyOnWrite
  <2>1. R!CopyOnWrite
    BY DEF StringInv, StringData, R!CopyOnWrite
  <2>2. R!OwnersCounted
    BY SameCount DEF StringInv, StringType, Counted, R!OwnersCounted
  <2> QED BY <2>1, <2>2
<1> QED BY <1>1, <1>2, <1>3, PTL DEF Spec

-----------------------------------------------------------------------------
(* Bucket.                                                                 *)

\* What is known of the sizes of the bucket.
LEMMA BucketSizes ==
    /\ IsFiniteSet(Threads)
    /\ capacity_ \in Nat \ {0} /\ quantum_ \in Nat \ {0} /\ quantum_ \in Nat
    /\ fill_tick_ \in Nat \ {0} /\ fill_tick_ \in Nat
    /\ \A n \in Counts : n \in Nat \ {0}
<1>1. IsFiniteSet(Threads)
  BY PoolsAssumption, SameCount DEF P!PoolAssumption
<1> QED BY <1>1, PoolsAssumption DEF B!BucketAssumption

\* The threads whose sleep is over at n.
Due(n) == {t \in Threads : pc[t] = "sleep" /\ until[t] <= n}

\* The tokens up to latest_tick_ are in the bucket, handed out or lent.
Lent ==
    /\ available_ <= capacity_
    /\ granted + available_ + Sum(count, B!Sleeping) <= capacity_ + latest_tick_ * quantum_

\* No thread has a tick that is to come, each asks for something, and a bucket that
\* is full was never asked.
Ticked ==
    /\ latest_tick_ <= now \div fill_tick_
    /\ available_ >= capacity_ => latest_tick_ = 0
    /\ \A t \in Threads : tick[t] <= now \div fill_tick_
    /\ \A t \in Threads : pc[t] # "idle" => count[t] \in Counts

\* At any time to come, what was handed out and what will have been by then is no more
\* than what will have been filled.
Filled ==
    \A n \in Nat : n >= now =>
        granted + Sum(count, Due(n)) <= capacity_ + (n \div fill_tick_) * quantum_

\* The inductive invariant of the bucket.
RateInv == B!TypeOK /\ Lent /\ Ticked /\ Filled

\* AdjustAvailableTokens fills what the time from latest_tick_ on has brought, or
\* takes away what the time back to the thread's tick had.
LEMMA AdjustedFacts ==
    ASSUME RateInv, NEW t \in Threads
    PROVE  /\ B!Adjusted(tick[t]) \in Int
           /\ B!Adjusted(tick[t]) <= capacity_
           /\ granted + B!Adjusted(tick[t]) + Sum(count, B!Sleeping) <= capacity_ + tick[t] * quantum_
<1> DEFINE s == Sum(count, B!Sleeping)
<1>1. /\ available_ \in Int /\ latest_tick_ \in Nat /\ tick[t] \in Nat /\ granted \in Nat
      /\ \A x \in Threads : count[x] \in Nat
  BY BucketSizes DEF RateInv, B!TypeOK
<1>2. s \in Nat
  BY <1>1, BucketSizes, SumNat DEF B!Sleeping
<1>3. granted + available_ + s <= capacity_ + latest_tick_ * quantum_ /\ available_ <= capacity_
  BY DEF RateInv, Lent
<1> HIDE DEF s
<1>4. PICK l \in Int, k \in Int : l = latest_tick_ * quantum_ /\ k = tick[t] * quantum_
  BY <1>1, BucketSizes
<1>5. CASE available_ >= capacity_
  <2>1. B!Adjusted(tick[t]) = available_ /\ latest_tick_ = 0
    BY <1>5 DEF B!Adjusted, RateInv, Ticked
  <2>2. l = 0 /\ k >= 0
    BY <1>1, <1>4, <2>1, BucketSizes
  <2> QED BY <1>1, <1>2, <1>3, <1>4, <2>1, <2>2, BucketSizes DEF s
<1>6. CASE ~(available_ >= capacity_)
  <2>1. (tick[t] - latest_tick_) * quantum_ = k - l
    BY <1>1, <1>4, BucketSizes
  <2>2. available_ + (k - l) \in Int
    BY <1>1
  <2>3. B!Adjusted(tick[t]) = B!Min({available_ + (k - l), capacity_})
    BY <1>6, <2>1 DEF B!Adjusted
  <2>4. B!Adjusted(tick[t]) = IF available_ + (k - l) <= capacity_ THEN available_ + (k - l) ELSE capacity_
    BY <2>2, <2>3, MinMax, BucketSizes
  <2> QED BY <1>1, <1>2, <1>3, <1>4, <2>4, BucketSizes DEF s
<1> QED BY <1>5, <1>6

\* The clock has gone on by the ticks that Wait sleeps for when the tokens lent have
\* been filled.
LEMMA WaitFacts ==
    ASSUME NEW m \in Nat, NEW n \in Nat, NEW k \in Nat, now \in Nat, k <= now \div fill_tick_
    PROVE  /\ B!WaitTicks(m) \in Nat
           /\ B!WaitTicks(m) * fill_tick_ \in Nat
           /\ n >= now + B!WaitTicks(m) * fill_tick_ => m + k * quantum_ <= (n \div fill_tick_) * quantum_
           /\ n >= now => k * quantum_ <= (n \div fill_tick_) * quantum_
<1> DEFINE w == B!WaitTicks(m)
           c == now \div fill_tick_
           e == n \div fill_tick_
<1>1. m + quantum_ - 1 \in Nat /\ w = (m + quantum_ - 1) \div quantum_
  BY BucketSizes DEF B!WaitTicks
<1>2. w \in Nat /\ m + quantum_ - 1 < w * quantum_ + quantum_
  BY <1>1, BucketSizes, Quotient
<1>3. c \in Nat /\ c * fill_tick_ <= now /\ e \in Nat
  BY BucketSizes, Quotient
<1>4. k <= c
  OBVIOUS
<1>5. n >= now => c <= e
  <2>1. n >= now => c * fill_tick_ <= n
    BY <1>3, BucketSizes
  <2> HIDE DEF c
  <2> QED BY <1>3, <2>1, BucketSizes, QuotientLeast
<1> HIDE DEF w, c
<1>6. w * fill_tick_ \in Nat /\ c * fill_tick_ \in Nat /\ (c + w) * fill_tick_ = c * fill_tick_ + w * fill_tick_
  BY <1>2, <1>3, BucketSizes, Products
<1>7. n >= now + w * fill_tick_ => c + w <= e
  <2>1. n >= now + w * fill_tick_ => (c + w) * fill_tick_ <= n
    BY <1>3, <1>6
  <2> QED BY <1>2, <1>3, <2>1, BucketSizes, QuotientLeast
<1> HIDE DEF e
<1>8. /\ k * quantum_ \in Nat /\ w * quantum_ \in Nat /\ e * quantum_ \in Nat
      /\ (k + w) * quantum_ = k * quantum_ + w * quantum_
  BY <1>2, <1>3, BucketSizes, Products
<1>9. k <= e => k * quantum_ <= e * quantum_
  BY <1>3, BucketSizes, Products
<1>10. k + w <= e => (k + w) * quantum_ <= e * quantum_
  BY <1>2, <1>3, BucketSizes, Products
<1>11. m <= w * quantum_
  BY <1>2, <1>8, BucketSizes
<1>12. n >= now => k * quantum_ <= e * quantum_
  BY <1>3, <1>4, <1>5, <1>9
<1>13. n >= now + w * fill_tick_ => m + k * quantum_ <= e * quantum_
  BY <1>2, <1>3, <1>4, <1>7, <1>8, <1>10, <1>11
<1> QED BY <1>2, <1>6, <1>12, <1>13 DEF w, e

\* What the sums gain and lose when one thread goes on.
LEMMA DueChange ==
    ASSUME B!TypeOK, B!TypeOK', NEW t \in Threads,
           \A x \in Threads \ {t} : pc'[x] = pc[x] /\ count'[x] = count[x] /\ until'[x] = until[x]
    PROVE  /\ Sum(count, B!Sleeping) \in Nat
           /\ Sum(count', B!Sleeping') \in Nat
           /\ Sum(count', B!Sleeping') - (IF pc'[t] = "sleep" THEN count'[t] ELSE 0)
                 = Sum(count, B!Sleeping) - (IF pc[t] = "sleep" THEN count[t] ELSE 0)
           /\ \A n \in Nat :
                 /\ Sum(count, Due(n)) \in Nat
                 /\ Sum(count', Due(n)') \in Nat
                 /\ Sum(count', Due(n)') <= Sum(count', B!Sleeping')
                 /\ Sum(count', Due(n)') - (IF pc'[t] = "sleep" /\ until'[t] <= n THEN count'[t] ELSE 0)
                       = Sum(count, Due(n)) - (IF pc[t] = "sleep" /\ until[t] <= n THEN count[t] ELSE 0)
<1>1. \A x \in Threads : count[x] \in Nat /\ count'[x] \in Nat
  BY BucketSizes DEF B!TypeOK
<1>2. /\ B!Sleeping \in SUBSET Threads /\ B!Sleeping' \in SUBSET Threads
      /\ B!Sleeping \ {t} = B!Sleeping' \ {t}
      /\ t \in B!Sleeping <=> pc[t] = "sleep"
      /\ t \in B!Sleeping' <=> pc'[t] = "sleep"
  BY DEF B!Sleeping
<1>3. \A x \in Threads \ {t} : count'[x] = count[x]
  OBVIOUS
<1>4. /\ Sum(count, B!Sleeping) \in Nat
      /\ Sum(count', B!Sleeping') \in Nat
      /\ Sum(count', B!Sleeping') - (IF t \in B!Sleeping' THEN count'[t] ELSE 0)
            = Sum(count, B!Sleeping) - (IF t \in B!Sleeping THEN count[t] ELSE 0)
  BY <1>1, <1>2, <1>3, BucketSizes, SumChange
<1>5. ASSUME NEW n \in Nat
      PROVE  /\ Sum(count, Due(n)) \in Nat
             /\ Sum(count', Due(n)') \in Nat
             /\ Sum(count', Due(n)') <= Sum(count', B!Sleeping')
             /\ Sum(count', Due(n)') - (IF pc'[t] = "sleep" /\ until'[t] <= n THEN count'[t] ELSE 0)
                   = Sum(count, Due(n)) - (IF pc[t] = "sleep" /\ until[t] <= n THEN count[t] ELSE 0)
  <2>1. /\ Due(n) \in SUBSET Threads /\ Due(n)' \in SUBSET Threads
        /\ Due(n) \ {t} = Due(n)' \ {t}
        /\ t \in Due(n) <=> pc[t] = "sleep" /\ until[t] <= n
        /\ t \in Due(n)' <=> pc'[t] = "sleep" /\ until'[t] <= n
        /\ Due(n)' \in SUBSET B!Sleeping'
    BY DEF Due, B!Sleeping
  <2>2. /\ Sum(count, Due(n)) \in Nat
        /\ Sum(count', Due(n)') \in Nat
        /\ Sum(count', Due(n)') - (IF t \in Due(n)' THEN count'[t] ELSE 0)
              = Sum(count, Due(n)) - (IF t \in Due(n) THEN count[t] ELSE 0)
    BY <1>1, <1>3, <2>1, BucketSizes, SumChange
  <2>3. Sum(count', Due(n)') <= Sum(count', B!Sleeping')
    BY <1>1, <1>2, <2>1, BucketSizes, SumSubset
  <2> QED BY <2>1, <2>2, <2>3
<1> QED BY <1>2, <1>4, <1>5


\* Call: what is asked for does not count before DoTake.
LEMMA BucketCallStep ==
    ASSUME RateInv, NEW t \in Threads, NEW op \in {"Wait", "TakeAvailable"}, NEW n \in Counts,
           B!Call(t, op, n)
    PROVE  RateInv'
<1>1. /\ available_' = available_ /\ latest_tick_' = latest_tick_ /\ until' = until
      /\ now' = now /\ granted' = granted /\ asserted' = asserted
  BY DEF B!Call
<1>2. now \in Nat /\ now \div fill_tick_ \in Nat
  BY BucketSizes, Quotient DEF RateInv, B!TypeOK
<1>3. B!TypeOK'
  BY <1>1, <1>2 DEF RateInv, B!TypeOK, B!Call
<1>4. /\ pc[t] = "idle" /\ pc'[t] # "sleep" /\ count'[t] = n /\ tick'[t] = now \div fill_tick_
      /\ \A x \in Threads \ {t} : pc'[x] = pc[x] /\ count'[x] = count[x] /\ tick'[x] = tick[x]
  BY DEF RateInv, B!TypeOK, B!Call
<1>5. /\ Sum(count, B!Sleeping) \in Nat
      /\ Sum(count', B!Sleeping') \in Nat
      /\ Sum(count', B!Sleeping') - 0 = Sum(count, B!Sleeping) - 0
      /\ \A m \in Nat : /\ Sum(count, Due(m)) \in Nat
                        /\ Sum(count', Due(m)') \in Nat
                        /\ Sum(count', Due(m)') - 0 = Sum(count, Due(m)) - 0
  BY <1>1, <1>3, <1>4, DueChange DEF RateInv
<1>6. Sum(count', B!Sleeping') = Sum(count, B!Sleeping)
  BY <1>5
<1>7. ASSUME NEW m \in Nat PROVE Sum(count', Due(m)') = Sum(count, Due(m))
  BY <1>5
<1>8. Lent'
  BY <1>1, <1>6 DEF RateInv, Lent
<1>9. Ticked'
  <2>1. now \div fill_tick_ <= now \div fill_tick_
    BY <1>2
  <2> QED BY <1>1, <1>4, <2>1 DEF RateInv, Ticked
<1>10. Filled'
  BY <1>1, <1>7 DEF RateInv, Filled
<1> QED BY <1>3, <1>8, <1>9, <1>10 DEF RateInv

\* DoTake: what is lent in advance is due only when it has been filled.
LEMMA DoTakeStep ==
    ASSUME RateInv, NEW t \in Threads, B!DoTake(t)
    PROVE  RateInv'
<1> DEFINE adj == B!Adjusted(tick[t])
           s == Sum(count, B!Sleeping)
<1>1. /\ latest_tick_' = tick[t] /\ available_' = adj - count[t]
      /\ now' = now /\ granted' = granted /\ count' = count
      /\ asserted' = (asserted /\ tick[t] >= latest_tick_)
  BY DEF B!DoTake, B!AdjustAvailableTokens
<1>2. /\ now \in Nat /\ now \div fill_tick_ \in Nat /\ tick[t] \in Nat /\ granted \in Nat
      /\ count[t] \in Nat \ {0} /\ until[t] \in Nat /\ tick[t] <= now \div fill_tick_
  BY BucketSizes, Quotient DEF RateInv, B!TypeOK, Ticked, B!DoTake
<1>3. adj \in Int /\ adj <= capacity_ /\ granted + adj + s <= capacity_ + tick[t] * quantum_
  BY AdjustedFacts
<1> HIDE DEF adj
<1>4. available_' \in Int /\ available_' < capacity_
  BY <1>1, <1>2, <1>3, BucketSizes
<1>5. /\ until'[t] \in Nat /\ until'[t] >= now
      /\ until'[t] = IF available_' >= 0 THEN now ELSE now + B!WaitTicks(-available_') * fill_tick_
  <2>1. until'[t] = IF available_' >= 0 THEN now ELSE now + B!WaitTicks(-available_') * fill_tick_
    BY DEF RateInv, B!TypeOK, B!DoTake
  <2>2. CASE available_' >= 0
    BY <1>2, <2>1, <2>2
  <2>3. CASE ~(available_' >= 0)
    <3>1. PICK a \in Int : a = available_' /\ ~(a >= 0)
      BY <1>4, <2>3
    <3>1a. -a \in Nat
      BY <3>1, Negated
    <3>2. B!WaitTicks(-a) * fill_tick_ \in Nat
      BY <1>2, <3>1a, WaitFacts
    <3> QED BY <1>2, <2>1, <2>3, <3>1, <3>2
  <2> QED BY <2>2, <2>3
<1>6. /\ pc[t] = "Wait" /\ pc'[t] = "sleep" /\ tick'[t] = 0
      /\ \A x \in Threads \ {t} : pc'[x] = pc[x] /\ tick'[x] = tick[x] /\ until'[x] = until[x]
      /\ pc' \in [Threads -> {"idle", "Wait", "TakeAvailable", "sleep"}]
      /\ tick' \in [Threads -> Nat]
      /\ until' = [until EXCEPT ![t] = until'[t]]
  BY DEF RateInv, B!TypeOK, B!DoTake
<1>7. until' \in [Threads -> Nat]
  BY <1>5, <1>6 DEF RateInv, B!TypeOK
<1>8. asserted' \in BOOLEAN
  BY <1>1
<1>9. B!TypeOK'
  BY <1>1, <1>2, <1>4, <1>6, <1>7, <1>8 DEF RateInv, B!TypeOK
<1>10. \A x \in Threads \ {t} : pc'[x] = pc[x] /\ count'[x] = count[x] /\ until'[x] = until[x]
  BY <1>1, <1>6
<1>11. /\ s \in Nat
       /\ Sum(count', B!Sleeping') \in Nat
       /\ Sum(count', B!Sleeping') - count[t] = s - 0
       /\ \A n \in Nat :
             /\ Sum(count, Due(n)) \in Nat
             /\ Sum(count', Due(n)') \in Nat
             /\ Sum(count', Due(n)') <= Sum(count', B!Sleeping')
             /\ Sum(count', Due(n)') - (IF until'[t] <= n THEN count[t] ELSE 0) = Sum(count, Due(n)) - 0
  BY <1>1, <1>6, <1>9, <1>10, DueChange DEF RateInv
<1> HIDE DEF s
<1>12. PICK s2 \in Nat : s2 = Sum(count', B!Sleeping') /\ s2 = s + count[t]
  BY <1>2, <1>11
<1>13. PICK k \in Nat : k = tick[t] * quantum_
  BY <1>2, BucketSizes, Products
<1>14. granted + available_' + s2 <= capacity_ + k
  BY <1>1, <1>2, <1>3, <1>11, <1>12, <1>13, BucketSizes
<1>15. Lent'
  BY <1>1, <1>4, <1>12, <1>13, <1>14, BucketSizes DEF Lent
<1>16. Ticked'
  <2>1. 0 <= now \div fill_tick_
    BY <1>2
  <2>2. ~(available_' >= capacity_)
    BY <1>4, BucketSizes
  <2>3. count[t] \in Counts
    BY <1>6 DEF RateInv, Ticked
  <2> QED BY <1>1, <1>2, <1>6, <2>1, <2>2, <2>3 DEF RateInv, Ticked
<1>17. ASSUME NEW n \in Nat, n >= now
       PROVE  granted + Sum(count', Due(n)') <= capacity_ + (n \div fill_tick_) * quantum_
  <2> DEFINE e == (n \div fill_tick_) * quantum_
  <2>1. e \in Nat
    BY BucketSizes, Quotient, Products
  <2>2. k <= e
    BY <1>2, <1>13, <1>17, WaitFacts
  <2>3. granted + Sum(count, Due(n)) <= capacity_ + e
    BY <1>17 DEF RateInv, Filled
  <2>4. CASE ~(until'[t] <= n)
    <3>1. Sum(count', Due(n)') = Sum(count, Due(n))
      BY <1>11, <2>4
    <3> QED BY <2>3, <3>1
  <2>5. CASE until'[t] <= n /\ available_' >= 0
    <3> HIDE DEF e
    <3> QED BY <1>2, <1>4, <1>11, <1>12, <1>14, <2>1, <2>2, <2>5, BucketSizes DEF e
  <2>6. CASE until'[t] <= n /\ ~(available_' >= 0)
    <3>a. PICK a \in Int : a = available_' /\ ~(a >= 0)
      BY <1>4, <2>6
    <3>b. -a \in Nat
      BY <3>a, Negated
    <3>1. n >= now + B!WaitTicks(-a) * fill_tick_
      BY <1>5, <2>6, <3>a
    <3>2. -a + k <= e
      BY <1>2, <1>13, <3>1, <3>b, WaitFacts
    <3> HIDE DEF e
    <3> QED BY <1>2, <1>11, <1>12, <1>14, <2>1, <3>2, <3>a, BucketSizes DEF e
  <2> QED BY <2>4, <2>5, <2>6
<1>18. Filled'
  BY <1>1, <1>17 DEF Filled
<1> QED BY <1>9, <1>15, <1>16, <1>18 DEF RateInv

\* DoTakeAvailable: what is taken was in the bucket.
LEMMA DoTakeAvailableStep ==
    ASSUME RateInv, NEW t \in Threads, B!DoTakeAvailable(t)
    PROVE  RateInv'
<1> DEFINE adj == B!Adjusted(tick[t])
           s == Sum(count, B!Sleeping)
           took == B!Max({B!Min({count[t], adj}), 0})
<1>1. /\ latest_tick_' = tick[t] /\ available_' = adj - took
      /\ now' = now /\ granted' = granted + took /\ until' = until
      /\ asserted' = (asserted /\ tick[t] >= latest_tick_)
  BY DEF B!DoTakeAvailable, B!AdjustAvailableTokens
<1>2. /\ now \in Nat /\ now \div fill_tick_ \in Nat /\ tick[t] \in Nat /\ granted \in Nat
      /\ count[t] \in Nat \ {0} /\ tick[t] <= now \div fill_tick_
  BY BucketSizes, Quotient DEF RateInv, B!TypeOK, Ticked, B!DoTakeAvailable
<1>3. adj \in Int /\ adj <= capacity_ /\ granted + adj + s <= capacity_ + tick[t] * quantum_
  BY AdjustedFacts
<1> HIDE DEF adj
<1>4. took = IF adj <= 0 THEN 0 ELSE IF count[t] <= adj THEN count[t] ELSE adj
  <2>1. B!Min({count[t], adj}) = IF count[t] <= adj THEN count[t] ELSE adj
    BY <1>2, <1>3, MinMax
  <2>2. PICK i \in Int : i = B!Min({count[t], adj}) /\ i = IF count[t] <= adj THEN count[t] ELSE adj
    BY <1>2, <1>3, <2>1
  <2>3. took = B!Max({i, 0})
    BY <2>2
  <2> HIDE DEF took
  <2>4. took = IF i >= 0 THEN i ELSE 0
    BY <2>3, MinMax, SMTT(20)
  <2> QED BY <1>2, <1>3, <2>2, <2>4
<1> HIDE DEF took
<1>5. /\ took \in Nat /\ available_' \in Int /\ available_' < capacity_ /\ granted' \in Nat
      /\ took = 0 \/ available_' >= 0
  BY <1>1, <1>2, <1>3, <1>4, BucketSizes
<1>6. /\ pc[t] = "TakeAvailable" /\ pc'[t] = "idle" /\ tick'[t] = 0
      /\ \A x \in Threads \ {t} : pc'[x] = pc[x] /\ tick'[x] = tick[x] /\ count'[x] = count[x]
      /\ pc' \in [Threads -> {"idle", "Wait", "TakeAvailable", "sleep"}]
      /\ tick' \in [Threads -> Nat]
      /\ count' \in [Threads -> Counts \cup {0}]
  BY DEF RateInv, B!TypeOK, B!DoTakeAvailable
<1>7. asserted' \in BOOLEAN
  BY <1>1
<1>8. B!TypeOK'
  BY <1>1, <1>2, <1>5, <1>6, <1>7 DEF RateInv, B!TypeOK
<1>9. \A x \in Threads \ {t} : pc'[x] = pc[x] /\ count'[x] = count[x] /\ until'[x] = until[x]
  BY <1>1, <1>6
<1>10. /\ s \in Nat
       /\ Sum(count', B!Sleeping') \in Nat
       /\ Sum(count', B!Sleeping') - 0 = s - 0
       /\ \A n \in Nat :
             /\ Sum(count, Due(n)) \in Nat
             /\ Sum(count', Due(n)') \in Nat
             /\ Sum(count', Due(n)') <= Sum(count', B!Sleeping')
             /\ Sum(count', Due(n)') - 0 = Sum(count, Due(n)) - 0
  BY <1>1, <1>6, <1>8, <1>9, DueChange DEF RateInv
<1> HIDE DEF s
<1>11. Sum(count', B!Sleeping') = s
  BY <1>10
<1>12. PICK k \in Nat : k = tick[t] * quantum_
  BY <1>2, BucketSizes, Products
<1>13. granted' + available_' + s <= capacity_ + k
  BY <1>1, <1>2, <1>3, <1>5, <1>10, <1>12, BucketSizes
<1>14. Lent'
  BY <1>1, <1>5, <1>11, <1>12, <1>13, BucketSizes DEF Lent
<1>15. Ticked'
  <2>1. 0 <= now \div fill_tick_
    BY <1>2
  <2>2. ~(available_' >= capacity_)
    BY <1>5, BucketSizes
  <2> QED BY <1>1, <1>2, <1>6, <2>1, <2>2 DEF RateInv, Ticked
<1>16. ASSUME NEW n \in Nat, n >= now
       PROVE  granted' + Sum(count', Due(n)') <= capacity_ + (n \div fill_tick_) * quantum_
  <2> DEFINE e == (n \div fill_tick_) * quantum_
  <2>1. e \in Nat
    BY BucketSizes, Quotient, Products
  <2>2. k <= e
    BY <1>2, <1>12, <1>16, WaitFacts
  <2>3. granted + Sum(count, Due(n)) <= capacity_ + e
    BY <1>16 DEF RateInv, Filled
  <2> HIDE DEF e
  <2>4. CASE took = 0
    BY <1>1, <1>2, <1>10, <2>3, <2>4 DEF e
  <2>5. CASE available_' >= 0
    <3>1. PICK u \in Nat : u = Sum(count', Due(n)')
      BY <1>10
    <3>2. u <= s
      BY <1>10, <1>11, <3>1
    <3>3. PICK a \in Nat, g \in Nat, i \in Nat : a = available_' /\ g = granted' /\ i = s
      BY <1>5, <1>10, <2>5
    <3>4. g + a + i <= capacity_ + k /\ u <= i
      BY <1>13, <3>2, <3>3
    <3>5. g + u <= capacity_ + e
      BY <2>1, <2>2, <3>4, BucketSizes
    <3> QED BY <3>1, <3>3, <3>5 DEF e
  <2> QED BY <1>5, <2>4, <2>5
<1>17. Filled'
  BY <1>1, <1>16 DEF Filled
<1> QED BY <1>8, <1>14, <1>15, <1>17 DEF RateInv

\* Wake: what was due is handed out.
LEMMA BucketWakeStep ==
    ASSUME RateInv, NEW t \in Threads, B!Wake(t)
    PROVE  RateInv'
<1>1. /\ available_' = available_ /\ latest_tick_' = latest_tick_ /\ tick' = tick
      /\ now' = now /\ granted' = granted + count[t] /\ asserted' = asserted
  BY DEF B!Wake
<1>2. /\ now \in Nat /\ granted \in Nat /\ count[t] \in Nat /\ until[t] \in Nat
      /\ available_ \in Int /\ latest_tick_ * quantum_ \in Nat
  BY BucketSizes, Products DEF RateInv, B!TypeOK
<1>3. B!TypeOK'
  BY <1>1, <1>2 DEF RateInv, B!TypeOK, B!Wake
<1>4. /\ pc[t] = "sleep" /\ pc'[t] = "idle" /\ until[t] <= now
      /\ \A x \in Threads \ {t} : pc'[x] = pc[x] /\ count'[x] = count[x] /\ until'[x] = until[x]
  BY <1>2 DEF RateInv, B!TypeOK, B!Wake
<1>5. /\ Sum(count, B!Sleeping) \in Nat
      /\ Sum(count', B!Sleeping') \in Nat
      /\ Sum(count', B!Sleeping') - 0 = Sum(count, B!Sleeping) - count[t]
      /\ \A n \in Nat :
            /\ Sum(count, Due(n)) \in Nat
            /\ Sum(count', Due(n)') \in Nat
            /\ Sum(count', Due(n)') - 0 = Sum(count, Due(n)) - (IF until[t] <= n THEN count[t] ELSE 0)
  BY <1>3, <1>4, DueChange DEF RateInv
<1>6. granted' + available_' + Sum(count', B!Sleeping') = granted + available_ + Sum(count, B!Sleeping)
  BY <1>1, <1>2, <1>5
<1>7. Lent'
  BY <1>1, <1>6 DEF RateInv, Lent
<1>8. Ticked'
  BY <1>1, <1>4 DEF RateInv, Ticked
<1>9. ASSUME NEW n \in Nat, n >= now
      PROVE  granted' + Sum(count', Due(n)') = granted + Sum(count, Due(n))
  <2>1. until[t] <= n
    BY <1>2, <1>4, <1>9
  <2> QED BY <1>1, <1>2, <1>5, <2>1
<1>10. Filled'
  BY <1>1, <1>9 DEF RateInv, Filled
<1> QED BY <1>3, <1>7, <1>8, <1>10 DEF RateInv

\* Tick: the clock goes on.
LEMMA BucketTickStep ==
    ASSUME RateInv, B!Tick
    PROVE  RateInv'
<1>1. /\ available_' = available_ /\ latest_tick_' = latest_tick_ /\ pc' = pc /\ count' = count
      /\ tick' = tick /\ until' = until /\ granted' = granted /\ asserted' = asserted
      /\ now' = now + 1
  BY DEF B!Tick
<1>2. now \in Nat /\ now' \in Nat /\ latest_tick_ \in Nat /\ \A t \in Threads : tick[t] \in Nat
  BY <1>1 DEF RateInv, B!TypeOK
<1>3. B!TypeOK'
  BY <1>1, <1>2 DEF RateInv, B!TypeOK
<1>4. B!Sleeping' = B!Sleeping /\ \A n : Due(n)' = Due(n)
  BY <1>1 DEF B!Sleeping, Due
<1>5. Lent'
  BY <1>1, <1>4 DEF RateInv, Lent
<1>6. PICK c \in Nat, d \in Nat : c = now \div fill_tick_ /\ d = now' \div fill_tick_
  BY <1>2, BucketSizes, Quotient
<1>7. c <= d
  <2>1. c * fill_tick_ <= now
    BY <1>2, <1>6, BucketSizes, Quotient
  <2>2. c * fill_tick_ <= now'
    BY <1>1, <1>2, <2>1, BucketSizes
  <2> QED BY <1>2, <1>6, <2>2, BucketSizes, QuotientLeast
<1>8. /\ latest_tick_ <= d
      /\ \A t \in Threads : tick[t] <= d
  BY <1>2, <1>6, <1>7 DEF RateInv, Ticked
<1>9. Ticked'
  BY <1>1, <1>6, <1>8 DEF RateInv, Ticked
<1>10. \A n \in Nat : n >= now' => n >= now
  BY <1>1, <1>2
<1>11. Filled'
  BY <1>1, <1>4, <1>10 DEF RateInv, Filled
<1> QED BY <1>3, <1>5, <1>9, <1>11 DEF RateInv

\* The rate of the bucket is kept, in every order in which threads come in with the
\* ticks they have read.
THEOREM RateTheorem == Spec => []RateKept
<1> DEFINE Inv == at = "bucket" => RateInv
<1>1. Init => Inv
  <2> SUFFICES ASSUME Init, at = "bucket" PROVE RateInv
    OBVIOUS
  <2>1. B!Init
    BY DEF Init
  <2>2. B!TypeOK
    BY <2>1, BucketSizes DEF B!Init, B!TypeOK
  <2>3. B!Sleeping = {} /\ \A n \in Nat : Due(n) = {}
    BY <2>1 DEF B!Init, B!Sleeping, Due
  <2>4. Sum(count, {}) = 0
    BY FS_EmptySet, SumFirst
  <2>5. Lent
    BY <2>1, <2>3, <2>4, BucketSizes DEF B!Init, Lent
  <2>6. 0 \div fill_tick_ \in Nat
    BY BucketSizes, Quotient
  <2>7. Ticked
    BY <2>1, <2>6 DEF B!Init, Ticked
  <2>8. ASSUME NEW n \in Nat PROVE (n \div fill_tick_) * quantum_ \in Nat
    BY BucketSizes, Quotient, Products
  <2>9. Filled
    <3>1. granted = 0
      BY <2>1 DEF B!Init
    <3>2. ASSUME NEW n \in Nat
          PROVE  granted + Sum(count, Due(n)) <= capacity_ + (n \div fill_tick_) * quantum_
      <4>1. Sum(count, Due(n)) = 0
        BY <2>3, <2>4
      <4> QED BY <2>8, <3>1, <4>1, BucketSizes
    <3> QED BY <3>2 DEF Filled
  <2> QED BY <2>2, <2>5, <2>7, <2>9 DEF RateInv
<1>2. Inv /\ [Next]_vars => Inv'
  <2> SUFFICES ASSUME Inv, [Next]_vars, at' = "bucket" PROVE RateInv'
    OBVIOUS
  <2>1. CASE UNCHANGED vars
    BY <2>1 DEF vars, bucketVars, RateInv, B!TypeOK, Lent, Ticked, Filled, B!Sleeping, Due
  <2>2. CASE Next
    <3>1. at = "bucket" /\ B!Next
      BY <2>2 DEF Next
    <3>2. RateInv
      BY <3>1
    <3> QED BY <3>1, <3>2, BucketCallStep, DoTakeStep, DoTakeAvailableStep, BucketWakeStep,
               BucketTickStep DEF B!Next
  <2> QED BY <2>1, <2>2
<1>3. Inv => RateKept
  <2> SUFFICES ASSUME RateInv PROVE B!TokensConserved /\ B!RateKept
    BY DEF RateKept
  <2>1. B!TokensConserved
    BY SameSum DEF RateInv, Lent, B!TokensConserved
  <2>2. now \in Nat /\ now >= now /\ granted \in Nat /\ (now \div fill_tick_) * quantum_ \in Nat
    BY BucketSizes, Quotient, Products DEF RateInv, B!TypeOK
  <2>3. Due(now) \in SUBSET Threads /\ \A x \in Threads : count[x] \in Nat
    BY BucketSizes DEF Due, RateInv, B!TypeOK
  <2>4. Sum(count, Due(now)) \in Nat
    BY <2>3, BucketSizes, SumNat
  <2>5. granted + Sum(count, Due(now)) <= capacity_ + (now \div fill_tick_) * quantum_
    BY <2>2 DEF RateInv, Filled
  <2> QED BY <2>1, <2>2, <2>4, <2>5, BucketSizes DEF B!RateKept
<1> QED BY <1>1, <1>2, <1>3, PTL DEF Spec

-----------------------------------------------------------------------------
(* ConnPool.                                                               *)

\* What is known of the sizes of the pool.
LEMMA PoolSizes ==
    /\ IsFiniteSet(Threads)
    /\ capacity_ \in Nat /\ max_idle_ \in Nat \ {0} /\ idle_timeout_ \in Nat
BY PoolsAssumption, SameCount DEF P!PoolAssumption

\* What the entries of the idle list are.
Entries == [conn : Objects, last_active : Nat]

\* The connections of the entries of s.
ConnsOf(s) == {s[i].conn : i \in DOMAIN s}

\* No connection is twice in s.
Once(s) == \A i, j \in DOMAIN s : s[i] = s[j] => i = j
OnceIdle(s) == \A i, j \in DOMAIN s : s[i].conn = s[j].conn => i = j

\* The connections that thread t holds.
HeldBy(t) == P!Range(held[t])

\* No connection is in two places: idle, held by a thread or retired by one.
Apart ==
    /\ OnceIdle(idle_list_)
    /\ \A t \in Threads : Once(held[t])
    /\ \A t \in Threads : HeldBy(t) \cap P!Idle = {} /\ retired[t] \cap P!Idle = {}
    /\ \A t, u \in Threads : HeldBy(t) \cap retired[u] = {}
    /\ \A t, u \in Threads : t # u => HeldBy(t) \cap HeldBy(u) = {} /\ retired[t] \cap retired[u] = {}
    /\ open = P!Idle \cup P!Held \cup P!Retired

\* What a thread does at each point of a call, and that the calls are over when
\* the pool is destroyed.
PoolControl ==
    /\ alive \in BOOLEAN /\ now \in Nat
    /\ \A t \in Threads : ~alive => pc[t] = "user"
    /\ \A t \in Threads : pc[t] \notin {"close", "close_then_get"} => retired[t] = {}
    /\ \A t \in Threads : IsFiniteSet(retired[t])

\* The numbers of connections that threads hold.
HeldLens == [t \in Threads |-> Len(held[t])]

\* The places in use.
Places == Len(idle_list_) + Sum(HeldLens, Threads) + Cardinality(P!Connecting)

\* size_ is right, and within the capacity.
SizeInv ==
    /\ alive => size_ = Places + dropped /\ size_ <= capacity_
    /\ Places <= capacity_

\* The inductive invariant of the pool.
ConnInv == P!TypeOK /\ Apart /\ PoolControl /\ SizeInv

\* Connections go from place to place at one thread, and only new ones appear.
LEMMA ApartMove ==
    ASSUME Apart, NEW t \in Threads, OnceIdle(idle_list_)', Once(held'[t]),
           \A x \in Threads \ {t} : held'[x] = held[x] /\ retired'[x] = retired[x],
           HeldBy(t)' \cap P!Idle' = {}, retired'[t] \cap P!Idle' = {}, HeldBy(t)' \cap retired'[t] = {},
           \A c \in P!Idle' \cup HeldBy(t)' \cup retired'[t] :
               c \in P!Idle \cup HeldBy(t) \cup retired[t] \/ c \notin open,
           open' = (open \ (P!Idle \cup HeldBy(t) \cup retired[t]))
                      \cup (P!Idle' \cup HeldBy(t)' \cup retired'[t])
    PROVE  Apart'
<1> DEFINE I == P!Idle
           J == P!Idle'
<1>1. \A x \in Threads \ {t} : HeldBy(x)' = HeldBy(x)
  BY DEF HeldBy
<1>2. /\ \A x \in Threads : HeldBy(x) \subseteq open /\ retired[x] \subseteq open
      /\ P!Held = UNION {HeldBy(x) : x \in Threads} /\ P!Held' = UNION {HeldBy(x)' : x \in Threads}
      /\ P!Retired = UNION {retired[x] : x \in Threads} /\ P!Retired' = UNION {retired'[x] : x \in Threads}
  BY DEF Apart, P!Held, P!Retired, HeldBy
<1>3. ASSUME NEW x \in Threads \ {t}
      PROVE  /\ HeldBy(x) \cap (P!Idle' \cup HeldBy(t)' \cup retired'[t]) = {}
             /\ retired[x] \cap (P!Idle' \cup HeldBy(t)' \cup retired'[t]) = {}
  <2>1. /\ HeldBy(x) \cap (P!Idle \cup HeldBy(t) \cup retired[t]) = {}
        /\ retired[x] \cap (P!Idle \cup HeldBy(t) \cup retired[t]) = {}
    BY DEF Apart
  <2> QED BY <1>2, <2>1
<1>4. \A x \in Threads : Once(held[x])'
  BY DEF Apart, Once
<1>5. \A x \in Threads : HeldBy(x)' \cap P!Idle' = {} /\ retired'[x] \cap P!Idle' = {}
  BY <1>1, <1>3
<1>6. ASSUME NEW x \in Threads, NEW y \in Threads PROVE HeldBy(x)' \cap retired'[y] = {}
  <2>1. CASE x = t /\ y = t
    BY <2>1
  <2>2. CASE x # t /\ y = t
    BY <1>1, <1>3, <2>2
  <2>3. CASE x = t /\ y # t
    BY <1>1, <1>3, <2>3
  <2>4. CASE x # t /\ y # t
    BY <1>1, <2>4 DEF Apart
  <2> QED BY <2>1, <2>2, <2>3, <2>4
<1>7. ASSUME NEW x \in Threads, NEW y \in Threads, x # y
      PROVE  HeldBy(x)' \cap HeldBy(y)' = {} /\ retired'[x] \cap retired'[y] = {}
  <2>2. CASE x # t /\ y = t
    BY <1>1, <1>3, <2>2
  <2>3. CASE x = t /\ y # t
    BY <1>1, <1>3, <2>3
  <2>4. CASE x # t /\ y # t
    BY <1>1, <1>7, <2>4 DEF Apart
  <2> QED BY <1>7, <2>2, <2>3, <2>4
<1>8. open' = P!Idle' \cup P!Held' \cup P!Retired'
  <2>1. ASSUME NEW c \in open' PROVE c \in P!Idle' \cup P!Held' \cup P!Retired'
    <3>1. CASE c \in P!Idle' \cup HeldBy(t)' \cup retired'[t]
      BY <1>2, <3>1
    <3>2. CASE c \in open /\ c \notin P!Idle \cup HeldBy(t) \cup retired[t]
      <4>1. PICK x \in Threads : c \in HeldBy(x) \/ c \in retired[x]
        BY <1>2, <3>2 DEF Apart
      <4>2. x # t
        BY <3>2, <4>1
      <4> QED BY <1>1, <1>2, <4>1, <4>2
    <3> QED BY <2>1, <3>1, <3>2
  <2>2. ASSUME NEW c \in P!Idle' \cup P!Held' \cup P!Retired' PROVE c \in open'
    <3>1. CASE c \in P!Idle' \cup HeldBy(t)' \cup retired'[t]
      BY <3>1
    <3>2. CASE c \notin P!Idle' \cup HeldBy(t)' \cup retired'[t]
      <4>1. PICK x \in Threads : c \in HeldBy(x)' \/ c \in retired'[x]
        BY <1>2, <2>2, <3>2
      <4>2. x # t
        BY <3>2, <4>1
      <4>3. c \in open /\ (c \in HeldBy(x) \/ c \in retired[x])
        BY <1>1, <1>2, <4>1, <4>2
      <4>4. c \notin P!Idle \cup HeldBy(t) \cup retired[t]
        BY <4>2, <4>3 DEF Apart
      <4> QED BY <4>3, <4>4
    <3> QED BY <3>1, <3>2
  <2> QED BY <2>1, <2>2
<1> QED BY <1>4, <1>5, <1>6, <1>7, <1>8 DEF Apart

\* A connection is held in addition ...
LEMMA AppendHeld ==
    ASSUME NEW X, NEW s \in Seq(X), Once(s), NEW e \in X, e \notin P!Range(s)
    PROVE  /\ Append(s, e) \in Seq(X) /\ Once(Append(s, e)) /\ Len(Append(s, e)) = Len(s) + 1
           /\ P!Range(Append(s, e)) = P!Range(s) \cup {e}
<1> DEFINE r == Append(s, e)
<1>1. /\ r \in Seq(X) /\ Len(r) = Len(s) + 1 /\ Len(s) \in Nat
      /\ \A i \in 1 .. Len(s) : r[i] = s[i]
      /\ r[Len(s) + 1] = e
      /\ DOMAIN r = 1 .. Len(s) + 1 /\ DOMAIN s = 1 .. Len(s)
  OBVIOUS
<1> HIDE DEF r
<1>2. \A i \in DOMAIN r : i = Len(s) + 1 \/ i \in DOMAIN s
  BY <1>1
<1>3. \A i \in DOMAIN s : s[i] # e
  BY DEF P!Range
<1>4. Once(r)
  BY <1>1, <1>2, <1>3 DEF Once
<1>5. ASSUME NEW x PROVE x \in P!Range(r) <=> x \in P!Range(s) \/ x = e
  <2>1. \A i \in DOMAIN s : i \in DOMAIN r
    BY <1>1
  <2>2. Len(s) + 1 \in DOMAIN r
    BY <1>1
  <2> QED BY <1>1, <1>2, <2>1, <2>2 DEF P!Range
<1>6. P!Range(r) = P!Range(s) \cup {e}
  BY <1>5
<1> QED BY <1>1, <1>4, <1>6 DEF r

\* ... and the first is let go.
LEMMA TailHeld ==
    ASSUME NEW X, NEW s \in Seq(X), Once(s), s # <<>>
    PROVE  /\ Tail(s) \in Seq(X) /\ Once(Tail(s)) /\ Len(Tail(s)) = Len(s) - 1 /\ Len(s) \in Nat \ {0}
           /\ Head(s) \in X /\ Head(s) \in P!Range(s)
           /\ P!Range(Tail(s)) = P!Range(s) \ {Head(s)}
<1> DEFINE r == Tail(s)
<1>1. /\ r \in Seq(X) /\ Len(r) = Len(s) - 1 /\ Len(s) \in Nat \ {0}
      /\ \A i \in 1 .. Len(s) - 1 : r[i] = s[i + 1]
      /\ Head(s) = s[1]
      /\ DOMAIN r = 1 .. Len(s) - 1 /\ DOMAIN s = 1 .. Len(s)
  OBVIOUS
<1> HIDE DEF r
<1>2. 1 \in DOMAIN s /\ \A i \in DOMAIN r : i + 1 \in DOMAIN s /\ i + 1 # 1 /\ r[i] = s[i + 1] /\ i \in Nat
  BY <1>1
<1>3. \A i \in DOMAIN s : i = 1 \/ (i - 1 \in DOMAIN r /\ r[i - 1] = s[i])
  BY <1>1
<1>4. Once(r)
  <2> SUFFICES ASSUME NEW i \in DOMAIN r, NEW j \in DOMAIN r, r[i] = r[j] PROVE i = j
    BY DEF Once
  <2>1. i + 1 = j + 1
    BY <1>2 DEF Once
  <2> QED BY <1>2, <2>1
<1>5. ASSUME NEW x PROVE x \in P!Range(r) <=> x \in P!Range(s) /\ x # s[1]
  <2>1. ASSUME x \in P!Range(r) PROVE x \in P!Range(s) /\ x # s[1]
    <3>1. PICK i \in DOMAIN r : x = r[i]
      BY <2>1 DEF P!Range
    <3> QED BY <1>2, <3>1 DEF P!Range, Once
  <2>2. ASSUME x \in P!Range(s), x # s[1] PROVE x \in P!Range(r)
    <3>1. PICK i \in DOMAIN s : x = s[i]
      BY <2>2 DEF P!Range
    <3> QED BY <1>3, <2>2, <3>1 DEF P!Range
  <2> QED BY <2>1, <2>2
<1>6. P!Range(r) = P!Range(s) \ {s[1]}
  BY <1>5
<1>7. s[1] \in P!Range(s) /\ s[1] \in X
  BY <1>1, <1>2 DEF P!Range
<1> QED BY <1>1, <1>4, <1>6, <1>7 DEF r

\* A part of the idle list.
LEMMA CutIdle ==
    ASSUME NEW X, NEW s \in Seq(X), OnceIdle(s), NEW a \in Nat \ {0}, NEW b \in 0 .. Len(s), a <= b + 1
    PROVE  /\ SubSeq(s, a, b) \in Seq(X) /\ OnceIdle(SubSeq(s, a, b))
           /\ Len(SubSeq(s, a, b)) = b - a + 1
           /\ \A i \in DOMAIN SubSeq(s, a, b) : /\ a + i - 1 \in DOMAIN s /\ a + i - 1 \in a .. b
                                                /\ SubSeq(s, a, b)[i] = s[a + i - 1]
           /\ ConnsOf(SubSeq(s, a, b)) = {s[i].conn : i \in a .. b}
<1> DEFINE r == SubSeq(s, a, b)
<1>1. Len(s) \in Nat /\ DOMAIN s = 1 .. Len(s) /\ a .. b \subseteq 1 .. Len(s)
  OBVIOUS
<1>2. /\ r \in Seq(X) /\ Len(r) = b - a + 1
      /\ DOMAIN r = 1 .. b - a + 1
      /\ \A i \in 1 .. b - a + 1 : r[i] = s[a + i - 1]
  <2>1. r = [i \in 1 .. b - a + 1 |-> s[a + i - 1]]
    OBVIOUS
  <2>2. \A i \in 1 .. b - a + 1 : a + i - 1 \in 1 .. Len(s)
    BY <1>1
  <2>3. \A i \in 1 .. b - a + 1 : s[a + i - 1] \in X
    BY <2>2
  <2>4. b - a + 1 \in Nat
    OBVIOUS
  <2> HIDE DEF r
  <2>5. r \in [1 .. b - a + 1 -> X]
    BY <2>1, <2>3
  <2> QED BY <2>1, <2>4, <2>5
<1> HIDE DEF r
<1>3. \A i \in DOMAIN r : a + i - 1 \in DOMAIN s /\ a + i - 1 \in a .. b /\ r[i] = s[a + i - 1] /\ i \in Nat
  BY <1>1, <1>2
<1>4. OnceIdle(r)
  <2> SUFFICES ASSUME NEW i \in DOMAIN r, NEW j \in DOMAIN r, r[i].conn = r[j].conn PROVE i = j
    BY DEF OnceIdle
  <2>1. a + i - 1 = a + j - 1
    BY <1>3 DEF OnceIdle
  <2> QED BY <1>3, <2>1
<1>5. \A i \in a .. b : i - a + 1 \in DOMAIN r /\ a + (i - a + 1) - 1 = i
  BY <1>2
<1>6. \A i \in a .. b : i - a + 1 \in DOMAIN r /\ r[i - a + 1] = s[i]
  BY <1>3, <1>5
<1>7. ConnsOf(r) = {s[i].conn : i \in a .. b}
  <2>1. ASSUME NEW i \in DOMAIN r PROVE r[i].conn \in {s[j].conn : j \in a .. b}
    BY <1>3
  <2>2. ASSUME NEW i \in a .. b PROVE s[i].conn \in ConnsOf(r)
    BY <1>6 DEF ConnsOf
  <2> QED BY <2>1, <2>2 DEF ConnsOf
<1> QED BY <1>2, <1>3, <1>4, <1>7 DEF r

\* Some of the connections of the list are not with the others.
LEMMA SplitIdle ==
    ASSUME NEW X, NEW s \in Seq(X), OnceIdle(s), NEW k \in 0 .. Len(s)
    PROVE  /\ {s[i].conn : i \in k + 1 .. Len(s)} = ConnsOf(s) \ {s[i].conn : i \in 1 .. k}
           /\ {s[i].conn : i \in 1 .. k} \subseteq ConnsOf(s)
           /\ {s[i].conn : i \in 1 .. k} = ConnsOf(s) \ {s[i].conn : i \in k + 1 .. Len(s)}
<1>1. Len(s) \in Nat /\ DOMAIN s = 1 .. Len(s)
  OBVIOUS
<1>2. \A i \in DOMAIN s : i \in 1 .. k \/ i \in k + 1 .. Len(s)
  BY <1>1
<1>3. \A i \in 1 .. k : i \in DOMAIN s /\ i \notin k + 1 .. Len(s)
  BY <1>1
<1>4. \A i \in k + 1 .. Len(s) : i \in DOMAIN s /\ i \notin 1 .. k
  BY <1>1
<1>5. \A i, j \in DOMAIN s : s[i].conn = s[j].conn => i = j
  BY DEF OnceIdle
<1> DEFINE lo == 1 .. k
           hi == k + 1 .. Len(s)
<1> HIDE DEF lo, hi
<1>6. /\ {s[i].conn : i \in hi} = ConnsOf(s) \ {s[i].conn : i \in lo}
      /\ {s[i].conn : i \in lo} = ConnsOf(s) \ {s[i].conn : i \in hi}
      /\ {s[i].conn : i \in lo} \subseteq ConnsOf(s)
  <2>1. /\ \A i \in DOMAIN s : i \in lo \/ i \in hi
        /\ \A i \in lo : i \in DOMAIN s /\ i \notin hi
        /\ \A i \in hi : i \in DOMAIN s /\ i \notin lo
    BY <1>2, <1>3, <1>4 DEF lo, hi
  <2>2. \A i \in lo : \A j \in hi : s[i].conn # s[j].conn
    BY <1>5, <2>1
  <2>3. \A c : c \in ConnsOf(s) <=> c \in {s[i].conn : i \in lo} \/ c \in {s[i].conn : i \in hi}
    BY <2>1 DEF ConnsOf
  <2>4. \A c : ~(c \in {s[i].conn : i \in lo} /\ c \in {s[i].conn : i \in hi})
    BY <2>2
  <2> QED BY <2>3, <2>4
<1> QED BY <1>6 DEF lo, hi

\* A connection goes to the end of the idle list.
LEMMA AppendIdle ==
    ASSUME NEW X, NEW s \in Seq(X), OnceIdle(s), NEW e \in X, e.conn \notin ConnsOf(s)
    PROVE  /\ Append(s, e) \in Seq(X) /\ OnceIdle(Append(s, e)) /\ Len(Append(s, e)) = Len(s) + 1
           /\ ConnsOf(Append(s, e)) = ConnsOf(s) \cup {e.conn}
           /\ \A i \in DOMAIN Append(s, e) :
                 \/ i = Len(s) + 1 /\ Append(s, e)[i] = e
                 \/ i \in DOMAIN s /\ Append(s, e)[i] = s[i]
<1> DEFINE r == Append(s, e)
<1>1. /\ r \in Seq(X) /\ Len(r) = Len(s) + 1 /\ Len(s) \in Nat
      /\ \A i \in 1 .. Len(s) : r[i] = s[i]
      /\ r[Len(s) + 1] = e
      /\ DOMAIN r = 1 .. Len(s) + 1 /\ DOMAIN s = 1 .. Len(s)
  OBVIOUS
<1> HIDE DEF r
<1>2. \A i \in DOMAIN r : (i = Len(s) + 1 /\ r[i] = e) \/ (i \in DOMAIN s /\ r[i] = s[i])
  BY <1>1
<1>3. \A i \in DOMAIN s : s[i].conn # e.conn /\ i \in DOMAIN r /\ r[i] = s[i]
  BY <1>1 DEF ConnsOf
<1>4. Len(s) + 1 \in DOMAIN r /\ r[Len(s) + 1] = e
  BY <1>1
<1>5. OnceIdle(r)
  BY <1>2, <1>3 DEF OnceIdle
<1>6. ConnsOf(r) = ConnsOf(s) \cup {e.conn}
  <2>1. ASSUME NEW i \in DOMAIN r PROVE r[i].conn \in ConnsOf(s) \cup {e.conn}
    BY <1>2 DEF ConnsOf
  <2>2. ASSUME NEW i \in DOMAIN s PROVE s[i].conn \in ConnsOf(r)
    BY <1>3 DEF ConnsOf
  <2>3. e.conn \in ConnsOf(r)
    BY <1>4 DEF ConnsOf
  <2> QED BY <2>1, <2>2, <2>3 DEF ConnsOf
<1> QED BY <1>1, <1>2, <1>5, <1>6 DEF r

\* What kind of values a thread meets.
LEMMA PoolFacts ==
    ASSUME ConnInv, NEW t \in Threads
    PROVE  /\ size_ \in Nat /\ dropped \in Nat /\ now \in Nat
           /\ idle_list_ \in Seq(Entries) /\ Len(idle_list_) \in Nat /\ Len(idle_list_) <= max_idle_
           /\ DOMAIN idle_list_ = 1 .. Len(idle_list_)
           /\ held[t] \in Seq(Objects) /\ Len(held[t]) \in Nat
           /\ retired[t] \subseteq Objects
           /\ OnceIdle(idle_list_) /\ Once(held[t])
           /\ P!Idle = ConnsOf(idle_list_) /\ HeldBy(t) = P!Range(held[t])
           /\ HeldBy(t) \subseteq open /\ P!Idle \subseteq open /\ retired[t] \subseteq open
           /\ HeldBy(t) \cap P!Idle = {} /\ retired[t] \cap P!Idle = {} /\ HeldBy(t) \cap retired[t] = {}
<1>1. /\ size_ \in Nat /\ dropped \in Nat /\ now \in Nat
      /\ idle_list_ \in Seq(Entries) /\ Len(idle_list_) <= max_idle_
      /\ held[t] \in Seq(Objects) /\ retired[t] \subseteq Objects
  BY DEF ConnInv, P!TypeOK, Entries, PoolControl
<1>2. Len(idle_list_) \in Nat /\ DOMAIN idle_list_ = 1 .. Len(idle_list_) /\ Len(held[t]) \in Nat
  BY <1>1
<1>3. OnceIdle(idle_list_) /\ Once(held[t])
  BY DEF ConnInv, Apart
<1>4. P!Idle = ConnsOf(idle_list_) /\ HeldBy(t) = P!Range(held[t])
  BY DEF P!Idle, ConnsOf, HeldBy
<1>5. HeldBy(t) \subseteq P!Held /\ retired[t] \subseteq P!Retired
  BY DEF HeldBy, P!Held, P!Retired
<1>6. HeldBy(t) \subseteq open /\ P!Idle \subseteq open /\ retired[t] \subseteq open
  BY <1>5 DEF ConnInv, Apart
<1>7. HeldBy(t) \cap P!Idle = {} /\ retired[t] \cap P!Idle = {} /\ HeldBy(t) \cap retired[t] = {}
  BY DEF ConnInv, Apart
<1> QED BY <1>1, <1>2, <1>3, <1>4, <1>6, <1>7

\* The places that a step of one thread takes and frees.
LEMMA PlacesMove ==
    ASSUME ConnInv, P!TypeOK', NEW t \in Threads,
           \A x \in Threads \ {t} : held'[x] = held[x] /\ pc'[x] = pc[x]
    PROVE  \E h \in Int, c \in Int :
              /\ h + Len(held[t]) \in Nat /\ h + Len(held'[t]) \in Nat /\ h \in Nat
              /\ c \in Nat
              /\ Places = Len(idle_list_) + (h + Len(held[t])) + (c + IF pc[t] = "connect" THEN 1 ELSE 0)
              /\ Places' = Len(idle_list_') + (h + Len(held'[t])) + (c + IF pc'[t] = "connect" THEN 1 ELSE 0)
<1>1. \A x \in Threads : Len(held[x]) \in Nat /\ Len(held'[x]) \in Nat
  <2>1. \A x \in Threads : held[x] \in Seq(Objects) /\ held'[x] \in Seq(Objects)
    BY DEF ConnInv, P!TypeOK
  <2> QED BY <2>1
<1>2. \A x \in Threads : /\ HeldLens[x] \in Nat /\ HeldLens'[x] \in Nat
                         /\ HeldLens[x] = Len(held[x]) /\ HeldLens'[x] = Len(held'[x])
  BY <1>1 DEF HeldLens
<1>3. \A x \in Threads \ {t} : HeldLens'[x] = HeldLens[x]
  BY <1>2
<1>4. Threads \in SUBSET Threads /\ Threads \ {t} \in SUBSET Threads
  OBVIOUS
<1>5. /\ Sum(HeldLens, Threads) = HeldLens[t] + Sum(HeldLens, Threads \ {t})
      /\ Sum(HeldLens', Threads) = HeldLens'[t] + Sum(HeldLens', Threads \ {t})
      /\ Sum(HeldLens, Threads \ {t}) \in Nat
  <2>1. PICK f, g : f = HeldLens /\ g = HeldLens'
    OBVIOUS
  <2>2. IsFiniteSet(Threads) /\ \A x \in Threads : f[x] \in Nat /\ g[x] \in Nat
    BY <1>2, <2>1, PoolSizes
  <2>3. Sum(f, Threads) = f[t] + Sum(f, Threads \ {t})
    BY <1>4, <2>2, SumRemove
  <2>4. Sum(g, Threads) = g[t] + Sum(g, Threads \ {t})
    BY <1>4, <2>2, SumRemove
  <2>5. Sum(f, Threads \ {t}) \in Nat
    BY <1>4, <2>2, SumNat
  <2> QED BY <2>1, <2>3, <2>4, <2>5
<1>6. Sum(HeldLens', Threads \ {t}) = Sum(HeldLens, Threads \ {t})
  <2>1. IsFiniteSet(Threads \ {t})
    BY PoolSizes, FS_Subset
  <2> QED BY <1>3, <2>1, SumSame
<1>7. PICK h \in Nat : h = Sum(HeldLens, Threads \ {t})
  BY <1>5
<1>8. Sum(HeldLens, Threads) = h + Len(held[t]) /\ Sum(HeldLens', Threads) = h + Len(held'[t])
  BY <1>1, <1>2, <1>5, <1>6, <1>7
<1> DEFINE C == P!Connecting \ {t}
<1>9. /\ IsFiniteSet(C) /\ t \notin C
      /\ P!Connecting = IF pc[t] = "connect" THEN C \cup {t} ELSE C
      /\ P!Connecting' = IF pc'[t] = "connect" THEN C \cup {t} ELSE C
  <2>1. IsFiniteSet(C)
    BY PoolSizes, FS_Subset DEF P!Connecting
  <2> QED BY <2>1 DEF P!Connecting
<1> HIDE DEF C
<1>10. Cardinality(C) \in Nat /\ Cardinality(C \cup {t}) = Cardinality(C) + 1
  BY <1>9, FS_CardinalityType, FS_AddElement
<1>11. PICK c \in Nat : c = Cardinality(C)
  BY <1>10
<1>12. /\ Cardinality(P!Connecting) = c + IF pc[t] = "connect" THEN 1 ELSE 0
       /\ Cardinality(P!Connecting') = c + IF pc'[t] = "connect" THEN 1 ELSE 0
  <2>1. Cardinality(C) = c + 0 /\ Cardinality(C \cup {t}) = c + 1
    BY <1>10, <1>11
  <2> QED BY <1>9, <2>1
<1>13. /\ h \in Int /\ c \in Int
       /\ h + Len(held[t]) \in Nat /\ h + Len(held'[t]) \in Nat
       /\ Places = Len(idle_list_) + (h + Len(held[t])) + (c + IF pc[t] = "connect" THEN 1 ELSE 0)
       /\ Places' = Len(idle_list_') + (h + Len(held'[t])) + (c + IF pc'[t] = "connect" THEN 1 ELSE 0)
  BY <1>1, <1>8, <1>12 DEF Places
<1> QED BY <1>13

\* A step of thread t that leaves idle_list_, held, retired and open alone.
LEMMA SameConns ==
    ASSUME Apart, UNCHANGED <<idle_list_, held, retired, open>>
    PROVE  Apart'
<1>1. P!Idle' = P!Idle /\ P!Held' = P!Held /\ P!Retired' = P!Retired /\ \A t \in Threads : HeldBy(t)' = HeldBy(t)
  BY DEF P!Idle, P!Held, P!Retired, HeldBy
<1>2. OnceIdle(idle_list_)' /\ \A t \in Threads : Once(held[t])'
  BY DEF Apart, OnceIdle, Once
<1> QED BY <1>1, <1>2 DEF Apart

\* Get and Exhausted.
LEMMA PoolCallStep ==
    ASSUME ConnInv, NEW t \in Threads, P!Get(t) \/ P!Exhausted(t)
    PROVE  ConnInv'
<1>1. /\ size_' = size_ /\ idle_list_' = idle_list_ /\ held' = held /\ retired' = retired
      /\ open' = open /\ dropped' = dropped /\ alive' = alive /\ now' = now /\ set_back' = set_back
      /\ pc[t] # "connect" /\ pc'[t] # "connect"
      /\ pc[t] \notin {"close", "close_then_get"}
      /\ \A x \in Threads \ {t} : pc'[x] = pc[x]
      /\ alive /\ now \in Nat
  BY DEF P!Get, P!Exhausted, P!Goto, ConnInv, PoolControl, P!TypeOK
<1>a. clock' \in [Threads -> Nat]
  <2>1. clock' = [clock EXCEPT ![t] = now] \/ clock' = [clock EXCEPT ![t] = 0]
    BY DEF P!Get, P!Exhausted
  <2>2. clock \in [Threads -> Nat]
    BY DEF ConnInv, P!TypeOK
  <2> QED BY <1>1, <2>1, <2>2
<1>b. pc' \in [Threads -> {"user", "retire", "close_then_get", "get", "connect", "close"}]
  BY DEF ConnInv, P!TypeOK, P!Get, P!Exhausted, P!Goto
<1>2. P!TypeOK'
  BY <1>1, <1>a, <1>b DEF ConnInv, P!TypeOK
<1>3. Apart'
  BY <1>1, SameConns DEF ConnInv
<1>4. PoolControl'
  BY <1>1 DEF ConnInv, PoolControl
<1>5. Places' = Places
  <2>1. P!Connecting' = P!Connecting
    BY <1>1 DEF P!Connecting
  <2> QED BY <1>1, <2>1 DEF Places, HeldLens
<1>6. SizeInv'
  BY <1>1, <1>5 DEF ConnInv, SizeInv
<1> QED BY <1>2, <1>3, <1>4, <1>6 DEF ConnInv

\* Reserve, NewConnThrows and NewConnThrowsOther.
LEMMA PlaceStep ==
    ASSUME ConnInv, NEW t \in Threads, P!Reserve(t) \/ P!NewConnThrows(t) \/ P!NewConnThrowsOther(t)
    PROVE  ConnInv'
<1>a. clock' \in [Threads -> Nat]
  <2>1. clock' = clock \/ clock' = [clock EXCEPT ![t] = 0]
    BY DEF P!Reserve, P!NewConnThrows, P!NewConnThrowsOther
  <2>2. clock \in [Threads -> Nat]
    BY DEF ConnInv, P!TypeOK
  <2> QED BY <2>1, <2>2
<1>1. /\ idle_list_' = idle_list_ /\ held' = held /\ retired' = retired
      /\ open' = open /\ alive' = alive /\ now' = now /\ set_back' = set_back
      /\ \A x \in Threads \ {t} : pc'[x] = pc[x] /\ held'[x] = held[x]
      /\ pc[t] \notin {"close", "close_then_get"}
      /\ alive
      /\ pc' \in [Threads -> {"user", "retire", "close_then_get", "get", "connect", "close"}]
  BY DEF P!Reserve, P!NewConnThrows, P!NewConnThrowsOther, P!Goto, ConnInv, PoolControl, P!TypeOK
<1>2. \/ pc[t] = "get" /\ pc'[t] = "connect" /\ size_' = size_ + 1 /\ size_ < capacity_ /\ dropped' = dropped
      \/ pc[t] = "connect" /\ pc'[t] = "user" /\ size_' = size_ - 1 /\ dropped' = dropped
      \/ pc[t] = "connect" /\ pc'[t] = "user" /\ size_' = size_ /\ dropped' = dropped + 1
  BY DEF P!Reserve, P!NewConnThrows, P!NewConnThrowsOther, P!Goto, ConnInv, P!TypeOK
<1>3. size_ \in Nat /\ dropped \in Nat /\ Len(idle_list_) \in Nat /\ Len(held[t]) \in Nat
  BY PoolFacts
<1>4. size_ = Places + dropped /\ size_ <= capacity_
  BY <1>1 DEF ConnInv, SizeInv
<1>5. PICK n \in Nat : /\ Places = n + IF pc[t] = "connect" THEN 1 ELSE 0
                       /\ Places' = n + IF pc'[t] = "connect" THEN 1 ELSE 0
  <2> DEFINE C == P!Connecting \ {t}
  <2>1. /\ IsFiniteSet(C) /\ t \notin C
        /\ P!Connecting = IF pc[t] = "connect" THEN C \cup {t} ELSE C
        /\ P!Connecting' = IF pc'[t] = "connect" THEN C \cup {t} ELSE C
    <3>1. IsFiniteSet(C)
      BY PoolSizes, FS_Subset DEF P!Connecting
    <3> QED BY <1>1, <3>1 DEF P!Connecting
  <2> HIDE DEF C
  <2>a. Cardinality(C) \in Nat /\ Cardinality(C \cup {t}) = Cardinality(C) + 1
    BY <2>1, FS_CardinalityType, FS_AddElement
  <2>2. PICK c \in Nat : Cardinality(C) = c + 0 /\ Cardinality(C \cup {t}) = c + 1
    BY <2>a
  <2>3. Sum(HeldLens, Threads) \in Nat /\ HeldLens' = HeldLens
    <3>1. \A x \in Threads : HeldLens[x] \in Nat
      BY PoolFacts DEF HeldLens
    <3> QED BY <1>1, <3>1, PoolSizes, SumNat DEF HeldLens
  <2>4. /\ Places = (Len(idle_list_) + Sum(HeldLens, Threads) + c) + IF pc[t] = "connect" THEN 1 ELSE 0
        /\ Places' = (Len(idle_list_) + Sum(HeldLens, Threads) + c) + IF pc'[t] = "connect" THEN 1 ELSE 0
    BY <1>1, <1>3, <2>1, <2>2, <2>3 DEF Places
  <2> QED BY <1>3, <2>2, <2>3, <2>4
<1>6. size_' \in Nat /\ dropped' \in Nat /\ size_' = Places' + dropped' /\ size_' <= capacity_ /\ Places' <= capacity_
  <2>1. PICK d \in Nat : d = dropped
    BY <1>3
  <2>2. CASE pc[t] = "get" /\ pc'[t] = "connect" /\ size_' = size_ + 1 /\ size_ < capacity_ /\ dropped' = dropped
    <3>1. Places = n /\ Places' = n + 1
      BY <1>5, <2>2
    <3> QED BY <1>3, <1>4, <2>1, <2>2, <3>1, PoolSizes
  <2>3. CASE pc[t] = "connect" /\ pc'[t] = "user" /\ size_' = size_ - 1 /\ dropped' = dropped
    <3>1. Places = n + 1 /\ Places' = n
      BY <1>5, <2>3
    <3> QED BY <1>3, <1>4, <2>1, <2>3, <3>1, PoolSizes
  <2>4. CASE pc[t] = "connect" /\ pc'[t] = "user" /\ size_' = size_ /\ dropped' = dropped + 1
    <3>1. Places = n + 1 /\ Places' = n
      BY <1>5, <2>4
    <3> QED BY <1>3, <1>4, <2>1, <2>4, <3>1, PoolSizes
  <2> QED BY <1>2, <2>2, <2>3, <2>4
<1>7. P!TypeOK'
  BY <1>1, <1>6, <1>a DEF ConnInv, P!TypeOK
<1>8. Apart'
  BY <1>1, SameConns DEF ConnInv
<1>9. PoolControl'
  BY <1>1 DEF ConnInv, PoolControl
<1>10. SizeInv'
  BY <1>1, <1>6 DEF SizeInv
<1> QED BY <1>7, <1>8, <1>9, <1>10 DEF ConnInv

\* Close: what is retired is closed.
LEMMA CloseStep ==
    ASSUME ConnInv, NEW t \in Threads, P!Close(t)
    PROVE  ConnInv'
<1>1. /\ size_' = size_ /\ idle_list_' = idle_list_ /\ clock' = clock /\ held' = held
      /\ dropped' = dropped /\ alive' = alive /\ now' = now /\ set_back' = set_back
      /\ open' = open \ retired[t]
      /\ pc[t] \in {"close_then_get", "close"} /\ pc'[t] \in {"get", "user"}
      /\ \A x \in Threads \ {t} : pc'[x] = pc[x] /\ retired'[x] = retired[x]
      /\ retired'[t] = {} /\ alive
      /\ pc' \in [Threads -> {"user", "retire", "close_then_get", "get", "connect", "close"}]
      /\ retired' \in [Threads -> SUBSET Objects]
  BY DEF P!Close, P!Goto, ConnInv, PoolControl, P!TypeOK
<1>2. P!TypeOK'
  BY <1>1 DEF ConnInv, P!TypeOK
<1>3. Apart'
  <2>1. P!Idle' = P!Idle /\ HeldBy(t)' = HeldBy(t)
    BY <1>1 DEF P!Idle, HeldBy
  <2>2. OnceIdle(idle_list_)' /\ Once(held'[t])
    BY <1>1, PoolFacts DEF OnceIdle
  <2>3. open' = (open \ (P!Idle \cup HeldBy(t) \cup retired[t])) \cup (P!Idle' \cup HeldBy(t)' \cup retired'[t])
    BY <1>1, <2>1, PoolFacts
  <2>4. /\ HeldBy(t)' \cap P!Idle' = {} /\ retired'[t] \cap P!Idle' = {} /\ HeldBy(t)' \cap retired'[t] = {}
        /\ \A c \in P!Idle' \cup HeldBy(t)' \cup retired'[t] : c \in P!Idle \cup HeldBy(t) \cup retired[t]
    BY <1>1, <2>1, PoolFacts
  <2>5. \A x \in Threads \ {t} : held'[x] = held[x] /\ retired'[x] = retired[x]
    BY <1>1
  <2> QED BY <2>2, <2>3, <2>4, <2>5, ApartMove DEF ConnInv
<1>4. PoolControl'
  <2>1. \A x \in Threads : IsFiniteSet(retired'[x])
    BY <1>1, FS_EmptySet DEF ConnInv, PoolControl
  <2> QED BY <1>1, <2>1 DEF ConnInv, PoolControl
<1>5. Places' = Places
  <2>1. P!Connecting' = P!Connecting
    BY <1>1 DEF P!Connecting
  <2> QED BY <1>1, <2>1 DEF Places, HeldLens
<1>6. SizeInv'
  BY <1>1, <1>5 DEF ConnInv, SizeInv
<1> QED BY <1>2, <1>3, <1>4, <1>6 DEF ConnInv

\* Reuse: the last idle connection is held.
LEMMA ReuseStep ==
    ASSUME ConnInv, NEW t \in Threads, P!Reuse(t)
    PROVE  ConnInv'
<1> DEFINE s == idle_list_
           n == Len(idle_list_)
           c == idle_list_[n].conn
<1>1. /\ size_' = size_ /\ clock' \in [Threads -> Nat] /\ retired' = retired /\ open' = open
      /\ dropped' = dropped /\ alive' = alive /\ now' = now /\ set_back' = set_back
      /\ idle_list_' = SubSeq(s, 1, n - 1) /\ s # <<>>
      /\ held' = [held EXCEPT ![t] = Append(@, c)]
      /\ pc[t] = "get" /\ pc'[t] = "user" /\ alive
      /\ \A x \in Threads \ {t} : pc'[x] = pc[x]
      /\ pc' \in [Threads -> {"user", "retire", "close_then_get", "get", "connect", "close"}]
  BY DEF P!Reuse, P!Goto, ConnInv, PoolControl, P!TypeOK
<1>2. held'[t] = Append(held[t], c) /\ \A x \in Threads \ {t} : held'[x] = held[x]
  BY <1>1 DEF ConnInv, P!TypeOK
<1>3. /\ s \in Seq(Entries) /\ n \in Nat \ {0} /\ n - 1 \in 0 .. Len(s) /\ n \in DOMAIN s /\ n <= max_idle_
      /\ c \in Objects /\ Len(s) = n
  <2>1. s \in Seq(Entries) /\ n \in Nat /\ n <= max_idle_ /\ DOMAIN s = 1 .. n
    BY PoolFacts
  <2>2. n # 0
    BY <1>1, <2>1
  <2>3. n \in Nat \ {0} /\ n - 1 \in 0 .. Len(s) /\ n \in DOMAIN s
    BY <2>1, <2>2
  <2>4. s[n] \in Entries
    BY <2>1, <2>3
  <2> QED BY <2>1, <2>3, <2>4 DEF Entries
<1>4. OnceIdle(s) /\ Once(held[t]) /\ held[t] \in Seq(Objects) /\ P!Idle = ConnsOf(s)
  BY PoolFacts
<1>5. c \in P!Idle /\ c \notin HeldBy(t) /\ c \notin retired[t]
  BY <1>3, <1>4, PoolFacts DEF ConnsOf
<1>c. c = s[n].conn
  OBVIOUS
<1> HIDE DEF c, n, s
<1>6. /\ held'[t] \in Seq(Objects) /\ Once(held'[t]) /\ Len(held'[t]) = Len(held[t]) + 1
      /\ HeldBy(t)' = HeldBy(t) \cup {c}
  BY <1>2, <1>3, <1>4, <1>5, AppendHeld DEF HeldBy
<1>7. 1 <= (n - 1) + 1 /\ 1 \in Nat \ {0} /\ (n - 1) - 1 + 1 = n - 1 /\ (n - 1) + 1 = n
  BY <1>3
<1>8. /\ idle_list_' \in Seq(Entries) /\ OnceIdle(idle_list_') /\ Len(idle_list_') = n - 1
      /\ ConnsOf(idle_list_') = {s[i].conn : i \in 1 .. n - 1}
  BY <1>1, <1>3, <1>4, <1>7, CutIdle
<1>9. P!Idle' = P!Idle \ {c}
  <2>a. PICK k \in 0 .. Len(s) : k = n - 1
    BY <1>3
  <2>b. {s[i].conn : i \in 1 .. k} = ConnsOf(s) \ {s[i].conn : i \in k + 1 .. Len(s)}
    <3>1. PICK q, X : q = s /\ X = Entries
      OBVIOUS
    <3>2. q \in Seq(X) /\ OnceIdle(q) /\ k \in 0 .. Len(q)
      BY <1>3, <1>4, <3>1
    <3>3. {q[i].conn : i \in 1 .. k} = ConnsOf(q) \ {q[i].conn : i \in k + 1 .. Len(q)}
      BY <3>2, SplitIdle, ZenonT(20)
    <3> QED BY <3>1, <3>3
  <2>1. {s[i].conn : i \in 1 .. n - 1} = ConnsOf(s) \ {s[i].conn : i \in (n - 1) + 1 .. n}
    BY <1>3, <2>a, <2>b
  <2>2. (n - 1) + 1 .. n = {n}
    BY <1>3
  <2>3. {s[i].conn : i \in (n - 1) + 1 .. n} = {c}
    BY <1>c, <2>2
  <2>4. P!Idle' = ConnsOf(idle_list_')
    BY DEF P!Idle, ConnsOf
  <2> QED BY <1>4, <1>8, <2>1, <2>3, <2>4
<1>10. P!TypeOK'
  <2>1. held' \in [Threads -> Seq(Objects)]
    BY <1>1, <1>2, <1>6 DEF ConnInv, P!TypeOK
  <2>2. Len(idle_list_') <= max_idle_
    BY <1>3, <1>8, PoolSizes
  <2> QED BY <1>1, <1>8, <2>1, <2>2 DEF ConnInv, P!TypeOK, Entries
<1>11. Apart'
  <2>1. OnceIdle(idle_list_)'
    BY <1>8 DEF OnceIdle
  <2>2. /\ HeldBy(t)' \cap P!Idle' = {} /\ retired'[t] \cap P!Idle' = {} /\ HeldBy(t)' \cap retired'[t] = {}
        /\ \A d \in P!Idle' \cup HeldBy(t)' \cup retired'[t] : d \in P!Idle \cup HeldBy(t) \cup retired[t]
    BY <1>1, <1>5, <1>6, <1>9, PoolFacts
  <2>3. open' = (open \ (P!Idle \cup HeldBy(t) \cup retired[t])) \cup (P!Idle' \cup HeldBy(t)' \cup retired'[t])
    BY <1>1, <1>5, <1>6, <1>9, PoolFacts
  <2>4. \A x \in Threads \ {t} : held'[x] = held[x] /\ retired'[x] = retired[x]
    BY <1>1, <1>2
  <2> QED BY <1>6, <2>1, <2>2, <2>3, <2>4, ApartMove DEF ConnInv
<1>12. PoolControl'
  BY <1>1 DEF ConnInv, PoolControl
<1>13. Places' = Places
  <2>1. \A x \in Threads \ {t} : held'[x] = held[x] /\ pc'[x] = pc[x]
    BY <1>1, <1>2
  <2>2. PICK h \in Int, k \in Int :
           /\ h \in Nat /\ k \in Nat
           /\ Places = n + (h + Len(held[t])) + (k + IF pc[t] = "connect" THEN 1 ELSE 0)
           /\ Places' = Len(idle_list_') + (h + Len(held'[t])) + (k + IF pc'[t] = "connect" THEN 1 ELSE 0)
    BY <1>10, <2>1, PlacesMove DEF n
  <2>3. Places = n + (h + Len(held[t])) + (k + 0) /\ Places' = (n - 1) + (h + (Len(held[t]) + 1)) + (k + 0)
    BY <1>1, <1>6, <1>8, <2>2
  <2>4. Len(held[t]) \in Nat
    BY PoolFacts
  <2> QED BY <1>3, <2>3, <2>4
<1>14. SizeInv'
  BY <1>1, <1>13 DEF ConnInv, SizeInv
<1> QED BY <1>10, <1>11, <1>12, <1>14 DEF ConnInv

\* NewConn: a connection that was not open is held, in the place reserved for it.
LEMMA NewConnStep ==
    ASSUME ConnInv, NEW t \in Threads, NEW c \in Objects, P!NewConn(t, c)
    PROVE  ConnInv'
<1>1. /\ size_' = size_ /\ clock' = clock /\ retired' = retired /\ open' = open \cup {c}
      /\ dropped' = dropped /\ alive' = alive /\ now' = now /\ set_back' = set_back /\ idle_list_' = idle_list_
      /\ c \notin open
      /\ held' = [held EXCEPT ![t] = Append(@, c)]
      /\ pc[t] = "connect" /\ pc'[t] = "user" /\ alive
      /\ \A x \in Threads \ {t} : pc'[x] = pc[x]
      /\ pc' \in [Threads -> {"user", "retire", "close_then_get", "get", "connect", "close"}]
  BY DEF P!NewConn, P!Goto, ConnInv, PoolControl, P!TypeOK
<1>2. held'[t] = Append(held[t], c) /\ \A x \in Threads \ {t} : held'[x] = held[x]
  BY <1>1 DEF ConnInv, P!TypeOK
<1>3. Once(held[t]) /\ held[t] \in Seq(Objects) /\ c \notin P!Idle /\ c \notin HeldBy(t) /\ c \notin retired[t]
  BY <1>1, PoolFacts
<1>4. /\ held'[t] \in Seq(Objects) /\ Once(held'[t]) /\ Len(held'[t]) = Len(held[t]) + 1
      /\ HeldBy(t)' = HeldBy(t) \cup {c}
  BY <1>2, <1>3, AppendHeld DEF HeldBy
<1>5. P!TypeOK'
  <2>1. held' \in [Threads -> Seq(Objects)]
    BY <1>1, <1>2, <1>4 DEF ConnInv, P!TypeOK
  <2> QED BY <1>1, <2>1 DEF ConnInv, P!TypeOK
<1>6. Apart'
  <2>1. P!Idle' = P!Idle /\ OnceIdle(idle_list_)'
    BY <1>1, PoolFacts DEF P!Idle, OnceIdle
  <2>2. /\ HeldBy(t)' \cap P!Idle' = {} /\ retired'[t] \cap P!Idle' = {} /\ HeldBy(t)' \cap retired'[t] = {}
        /\ \A d \in P!Idle' \cup HeldBy(t)' \cup retired'[t] :
              d \in P!Idle \cup HeldBy(t) \cup retired[t] \/ d \notin open
    BY <1>1, <1>3, <1>4, <2>1, PoolFacts
  <2>3. open' = (open \ (P!Idle \cup HeldBy(t) \cup retired[t])) \cup (P!Idle' \cup HeldBy(t)' \cup retired'[t])
    BY <1>1, <1>4, <2>1, PoolFacts
  <2>4. \A x \in Threads \ {t} : held'[x] = held[x] /\ retired'[x] = retired[x]
    BY <1>1, <1>2
  <2> QED BY <1>4, <2>1, <2>2, <2>3, <2>4, ApartMove DEF ConnInv
<1>7. PoolControl'
  BY <1>1 DEF ConnInv, PoolControl
<1>8. Places' = Places
  <2>1. \A x \in Threads \ {t} : held'[x] = held[x] /\ pc'[x] = pc[x]
    BY <1>1, <1>2
  <2>2. PICK h \in Int, k \in Int :
           /\ h \in Nat /\ k \in Nat
           /\ Places = Len(idle_list_) + (h + Len(held[t])) + (k + IF pc[t] = "connect" THEN 1 ELSE 0)
           /\ Places' = Len(idle_list_') + (h + Len(held'[t])) + (k + IF pc'[t] = "connect" THEN 1 ELSE 0)
    BY <1>5, <2>1, PlacesMove
  <2>3. /\ Places = Len(idle_list_) + (h + Len(held[t])) + (k + 1)
        /\ Places' = Len(idle_list_) + (h + (Len(held[t]) + 1)) + (k + 0)
    BY <1>1, <1>4, <2>2
  <2>4. Len(held[t]) \in Nat /\ Len(idle_list_) \in Nat
    BY PoolFacts
  <2>5. PICK i \in Nat, j \in Nat : i = Len(idle_list_) /\ j = Len(held[t])
    BY <2>4
  <2>6. Places = i + (h + j) + (k + 1) /\ Places' = i + (h + (j + 1)) + (k + 0)
    BY <2>3, <2>5
  <2> QED BY <2>6
<1>9. SizeInv'
  BY <1>1, <1>8 DEF ConnInv, SizeInv
<1> QED BY <1>5, <1>6, <1>7, <1>9 DEF ConnInv

\* CloseConn and MoveAssign: the first connection that is held is closed.
LEMMA DropStep ==
    ASSUME ConnInv, NEW t \in Threads, P!CloseConn(t) \/ P!MoveAssign(t)
    PROVE  ConnInv'
<1> DEFINE c == Head(held[t])
<1>1. /\ size_' = size_ /\ clock' = clock /\ retired' = retired /\ open' = open \ {c} /\ pc' = pc
      /\ alive' = alive /\ now' = now /\ set_back' = set_back /\ idle_list_' = idle_list_
      /\ held' = [held EXCEPT ![t] = Tail(@)]
      /\ dropped' = (IF alive THEN dropped + 1 ELSE dropped)
  BY DEF P!CloseConn, P!MoveAssign
<1>2. held[t] \in Seq(Objects) /\ Once(held[t]) /\ held[t] # <<>>
  <2>1. held[t] \in Seq(Objects) /\ Once(held[t])
    BY PoolFacts
  <2>2. Len(held[t]) = 2 => held[t] # <<>>
    BY <2>1
  <2> QED BY <2>1, <2>2 DEF P!CloseConn, P!MoveAssign
<1>3. held'[t] = Tail(held[t]) /\ \A x \in Threads \ {t} : held'[x] = held[x]
  BY <1>1 DEF ConnInv, P!TypeOK
<1>4. /\ held'[t] \in Seq(Objects) /\ Once(held'[t]) /\ Len(held'[t]) = Len(held[t]) - 1
      /\ Len(held[t]) \in Nat \ {0} /\ c \in HeldBy(t)
      /\ HeldBy(t)' = HeldBy(t) \ {c}
  BY <1>2, <1>3, TailHeld DEF HeldBy
<1> HIDE DEF c
<1>5. dropped \in Nat /\ dropped' \in Nat
  BY <1>1, PoolFacts
<1>6. P!TypeOK'
  <2>1. held' \in [Threads -> Seq(Objects)]
    BY <1>1, <1>3, <1>4 DEF ConnInv, P!TypeOK
  <2> QED BY <1>1, <1>5, <2>1 DEF ConnInv, P!TypeOK
<1>7. Apart'
  <2>1. P!Idle' = P!Idle /\ OnceIdle(idle_list_)'
    BY <1>1, PoolFacts DEF P!Idle, OnceIdle
  <2>2. /\ HeldBy(t)' \cap P!Idle' = {} /\ retired'[t] \cap P!Idle' = {} /\ HeldBy(t)' \cap retired'[t] = {}
        /\ \A d \in P!Idle' \cup HeldBy(t)' \cup retired'[t] : d \in P!Idle \cup HeldBy(t) \cup retired[t]
    BY <1>1, <1>4, <2>1, PoolFacts
  <2>3. open' = (open \ (P!Idle \cup HeldBy(t) \cup retired[t])) \cup (P!Idle' \cup HeldBy(t)' \cup retired'[t])
    BY <1>1, <1>4, <2>1, PoolFacts
  <2>4. \A x \in Threads \ {t} : held'[x] = held[x] /\ retired'[x] = retired[x]
    BY <1>1, <1>3
  <2> QED BY <1>4, <2>1, <2>2, <2>3, <2>4, ApartMove DEF ConnInv
<1>8. PoolControl'
  BY <1>1 DEF ConnInv, PoolControl
<1>9. Places' = Places - 1 /\ Places \in Int
  <2>1. \A x \in Threads \ {t} : held'[x] = held[x] /\ pc'[x] = pc[x]
    BY <1>1, <1>3
  <2>2. PICK h \in Int, k \in Int :
           /\ h \in Nat /\ k \in Nat
           /\ Places = Len(idle_list_) + (h + Len(held[t])) + (k + IF pc[t] = "connect" THEN 1 ELSE 0)
           /\ Places' = Len(idle_list_') + (h + Len(held'[t])) + (k + IF pc'[t] = "connect" THEN 1 ELSE 0)
    BY <1>6, <2>1, PlacesMove
  <2>3. PICK j \in Nat : j = k + IF pc[t] = "connect" THEN 1 ELSE 0
    BY <2>2
  <2>4. Places = Len(idle_list_) + (h + Len(held[t])) + j /\ Places' = Len(idle_list_) + (h + (Len(held[t]) - 1)) + j
    BY <1>1, <1>4, <2>2, <2>3
  <2>5. Len(idle_list_) \in Nat
    BY PoolFacts
  <2> QED BY <1>4, <2>4, <2>5
<1>10. SizeInv'
  <2>1. size_ \in Nat
    BY PoolFacts
  <2>2. /\ alive => size_ = Places + dropped /\ size_ <= capacity_
        /\ Places <= capacity_
    BY DEF ConnInv, SizeInv
  <2>3. Places' <= capacity_
    BY <1>9, <2>2, PoolSizes
  <2>4. ASSUME alive PROVE size_' = Places' + dropped' /\ size_' <= capacity_
    <3>1. dropped' = dropped + 1 /\ size_' = size_ /\ Places' = Places - 1
      BY <1>1, <1>9, <2>4
    <3> QED BY <1>5, <1>9, <2>1, <2>2, <2>4, <3>1
  <2> QED BY <1>1, <2>3, <2>4 DEF SizeInv
<1> QED BY <1>6, <1>7, <1>8, <1>10 DEF ConnInv

\* The expired connections are the first ones of the list.
LEMMA ExpiredFacts ==
    ASSUME ConnInv, NEW t \in Threads
    PROVE  /\ Cardinality(P!Expired(t)) \in 0 .. Len(idle_list_)
           /\ P!Expired(t) = 1 .. Cardinality(P!Expired(t))
<1> DEFINE E == P!Expired(t)
           n == Len(idle_list_)
<1>1. n \in Nat /\ DOMAIN idle_list_ = 1 .. n
  BY PoolFacts
<1>2. E \in SUBSET (1 .. n)
  BY <1>1 DEF P!Expired
<1>3. ASSUME NEW i \in E, NEW j \in 1 .. i PROVE j \in E
  <2>1. i \in 1 .. n /\ j \in 1 .. n /\ \A m \in 1 .. j : m \in 1 .. i
    BY <1>1, <1>2
  <2> QED BY <1>1, <1>3, <2>1 DEF P!Expired
<1> HIDE DEF E, n
<1>4. Cardinality(E) \in 0 .. n /\ E = 1 .. Cardinality(E)
  BY <1>1, <1>2, <1>3, NoGap
<1> QED BY <1>4 DEF E, n

\* The first k connections of the list are taken off it.
LEMMA FirstOff ==
    ASSUME ConnInv, NEW t \in Threads, NEW k \in 0 .. Len(idle_list_), NEW rest, NEW off,
           rest = SubSeq(idle_list_, k + 1, Len(idle_list_)),
           off = {idle_list_[i].conn : i \in 1 .. k}
    PROVE  /\ rest \in Seq(Entries) /\ OnceIdle(rest)
           /\ Len(rest) \in Nat /\ Len(rest) = Len(idle_list_) - k
           /\ ConnsOf(rest) = P!Idle \ off
           /\ off \subseteq P!Idle /\ off \subseteq Objects /\ IsFiniteSet(off)
           /\ \A i \in DOMAIN rest : k + i \in DOMAIN idle_list_ /\ rest[i] = idle_list_[k + i]
<1> DEFINE s == idle_list_
           n == Len(idle_list_)
<1>1. /\ s \in Seq(Entries) /\ OnceIdle(s) /\ n \in Nat /\ DOMAIN s = 1 .. n /\ P!Idle = ConnsOf(s)
      /\ Len(s) = n
  BY PoolFacts
<1> HIDE DEF s, n
<1>2. k \in Nat /\ k + 1 \in Nat \ {0} /\ n \in 0 .. Len(s) /\ k + 1 <= n + 1 /\ k \in 0 .. Len(s)
  BY <1>1 DEF n
<1>3. rest = SubSeq(s, k + 1, n) /\ off = {s[i].conn : i \in 1 .. k}
  BY DEF s, n
<1>4. /\ rest \in Seq(Entries) /\ OnceIdle(rest) /\ Len(rest) = n - (k + 1) + 1
      /\ \A i \in DOMAIN rest : (k + 1) + i - 1 \in DOMAIN s /\ rest[i] = s[(k + 1) + i - 1]
      /\ ConnsOf(rest) = {s[i].conn : i \in k + 1 .. n}
  <2>1. PICK a \in Nat \ {0} : a = k + 1
    BY <1>2
  <2>2. /\ SubSeq(s, a, n) \in Seq(Entries) /\ OnceIdle(SubSeq(s, a, n)) /\ Len(SubSeq(s, a, n)) = n - a + 1
        /\ \A i \in DOMAIN SubSeq(s, a, n) : a + i - 1 \in DOMAIN s /\ SubSeq(s, a, n)[i] = s[a + i - 1]
        /\ ConnsOf(SubSeq(s, a, n)) = {s[i].conn : i \in a .. n}
    BY <1>1, <1>2, <2>1, CutIdle
  <2>3. rest = SubSeq(s, a, n)
    BY <1>3, <2>1
  <2>4. /\ rest \in Seq(Entries) /\ OnceIdle(rest) /\ Len(rest) = n - a + 1
        /\ \A i \in DOMAIN rest : a + i - 1 \in DOMAIN s /\ rest[i] = s[a + i - 1]
        /\ ConnsOf(rest) = {s[i].conn : i \in a .. n}
    BY <2>2, <2>3
  <2> QED BY <2>1, <2>4
<1>5. Len(rest) = n - k /\ Len(rest) \in Nat /\ DOMAIN rest = 1 .. Len(rest)
  BY <1>1, <1>2, <1>4
<1>6. /\ {s[i].conn : i \in k + 1 .. n} = ConnsOf(s) \ {s[i].conn : i \in 1 .. k}
      /\ {s[i].conn : i \in 1 .. k} \subseteq ConnsOf(s)
  BY <1>1, <1>2, SplitIdle
<1>7. ConnsOf(rest) = P!Idle \ off /\ off \subseteq P!Idle
  BY <1>1, <1>3, <1>4, <1>6
<1>8. \A i \in DOMAIN rest : k + i \in DOMAIN s /\ rest[i] = s[k + i]
  <2>1. \A i \in DOMAIN rest : (k + 1) + i - 1 = k + i
    BY <1>2, <1>5
  <2> QED BY <1>4, <2>1
<1>9. P!Idle \subseteq Objects
  <2>1. \A i \in DOMAIN s : s[i] \in Entries
    BY <1>1
  <2>2. \A i \in DOMAIN s : s[i].conn \in Objects
    BY <2>1 DEF Entries
  <2> QED BY <1>1, <2>2 DEF ConnsOf
<1>10. IsFiniteSet(off)
  <2>1. IsFiniteSet(1 .. k)
    <3>1. 1 \in Int /\ k \in Int
      BY <1>2
    <3> QED BY <3>1, FS_Interval
  <2>2. [i \in 1 .. k |-> s[i].conn] \in Surjection(1 .. k, off)
    BY <1>3 DEF Surjection
  <2> QED BY <2>1, <2>2, FS_Surjection
<1> QED BY <1>4, <1>5, <1>7, <1>8, <1>9, <1>10 DEF s, n

\* RetireTimeoutIdleConnections: the expired connections are retired and counted off.
LEMMA RetireStep ==
    ASSUME ConnInv, NEW t \in Threads, P!RetireTimeoutIdleConnections(t)
    PROVE  ConnInv'
<1>a. PICK k \in 0 .. Len(idle_list_) : k = Cardinality(P!Expired(t))
  BY ExpiredFacts
<1>1. /\ size_' = size_ - k /\ clock' = clock /\ held' = held /\ open' = open
      /\ dropped' = dropped /\ alive' = alive /\ now' = now /\ set_back' = set_back
      /\ idle_list_' = SubSeq(idle_list_, k + 1, Len(idle_list_))
      /\ retired' = [retired EXCEPT ![t] = {idle_list_[i].conn : i \in 1 .. k}]
      /\ pc[t] = "retire" /\ pc'[t] = "close_then_get" /\ alive
      /\ \A x \in Threads \ {t} : pc'[x] = pc[x]
      /\ pc' \in [Threads -> {"user", "retire", "close_then_get", "get", "connect", "close"}]
  BY <1>a, SameCount DEF P!RetireTimeoutIdleConnections, P!Goto, ConnInv, PoolControl, P!TypeOK
<1>2. /\ retired'[t] = {idle_list_[i].conn : i \in 1 .. k} /\ retired[t] = {}
      /\ \A x \in Threads \ {t} : retired'[x] = retired[x] /\ held'[x] = held[x]
  BY <1>1 DEF ConnInv, P!TypeOK, PoolControl
<1>3. /\ idle_list_' \in Seq(Entries) /\ OnceIdle(idle_list_')
      /\ Len(idle_list_') \in Nat /\ Len(idle_list_') = Len(idle_list_) - k
      /\ ConnsOf(idle_list_') = P!Idle \ retired'[t]
      /\ retired'[t] \subseteq P!Idle /\ retired'[t] \subseteq Objects /\ IsFiniteSet(retired'[t])
  <2>1. PICK rest, off : rest = idle_list_' /\ off = retired'[t]
    OBVIOUS
  <2>2. rest = SubSeq(idle_list_, k + 1, Len(idle_list_)) /\ off = {idle_list_[i].conn : i \in 1 .. k}
    BY <1>1, <1>2, <2>1
  <2>3. /\ rest \in Seq(Entries) /\ OnceIdle(rest)
        /\ Len(rest) \in Nat /\ Len(rest) = Len(idle_list_) - k
        /\ ConnsOf(rest) = P!Idle \ off
    BY <2>2, FirstOff, ZenonT(30)
  <2>4. off \subseteq P!Idle /\ off \subseteq Objects /\ IsFiniteSet(off)
    BY <2>2, FirstOff, ZenonT(30)
  <2> QED BY <2>1, <2>3, <2>4
<1>4. /\ k \in Nat /\ Len(idle_list_) \in Nat /\ Len(held[t]) \in Nat /\ size_ \in Nat /\ dropped \in Nat
      /\ k <= Len(idle_list_) /\ Len(idle_list_) <= max_idle_
  BY PoolFacts
<1>5. P!Idle' = P!Idle \ retired'[t] /\ HeldBy(t)' = HeldBy(t)
  BY <1>1, <1>3 DEF P!Idle, ConnsOf, HeldBy
<1>6. \A x \in Threads \ {t} : held'[x] = held[x] /\ pc'[x] = pc[x]
  BY <1>1, <1>2
<1>7. size_ - k \in Nat
  <2>1. size_ = Places + dropped
    BY <1>1 DEF ConnInv, SizeInv
  <2>2. Sum(HeldLens, Threads) \in Nat
    <3>1. \A x \in Threads : HeldLens[x] \in Nat
      BY PoolFacts DEF HeldLens
    <3> QED BY <3>1, PoolSizes, SumNat
  <2>3. Cardinality(P!Connecting) \in Nat
    BY PoolSizes, FS_Subset, FS_CardinalityType DEF P!Connecting
  <2> QED BY <1>4, <2>1, <2>2, <2>3 DEF Places
<1>8. P!TypeOK'
  <2>1. retired' \in [Threads -> SUBSET Objects]
    BY <1>1, <1>2, <1>3 DEF ConnInv, P!TypeOK
  <2>2. Len(idle_list_') <= max_idle_
    BY <1>3, <1>4, PoolSizes
  <2> QED BY <1>1, <1>3, <1>7, <2>1, <2>2 DEF ConnInv, P!TypeOK, Entries
<1>9. Apart'
  <2>1. OnceIdle(idle_list_)' /\ Once(held'[t])
    BY <1>1, <1>3, PoolFacts DEF OnceIdle
  <2>2. /\ HeldBy(t)' \cap P!Idle' = {} /\ retired'[t] \cap P!Idle' = {} /\ HeldBy(t)' \cap retired'[t] = {}
        /\ \A d \in P!Idle' \cup HeldBy(t)' \cup retired'[t] : d \in P!Idle \cup HeldBy(t) \cup retired[t]
    BY <1>3, <1>5, PoolFacts
  <2>3. open' = (open \ (P!Idle \cup HeldBy(t) \cup retired[t])) \cup (P!Idle' \cup HeldBy(t)' \cup retired'[t])
    BY <1>1, <1>2, <1>3, <1>5, PoolFacts
  <2> QED BY <1>2, <2>1, <2>2, <2>3, ApartMove DEF ConnInv
<1>10. PoolControl'
  BY <1>1, <1>2, <1>3 DEF ConnInv, PoolControl
<1>11. Places' = Places - k /\ Places \in Int
  <2>1. PICK h \in Int, c \in Int :
           /\ h \in Nat /\ c \in Nat
           /\ Places = Len(idle_list_) + (h + Len(held[t])) + (c + IF pc[t] = "connect" THEN 1 ELSE 0)
           /\ Places' = Len(idle_list_') + (h + Len(held'[t])) + (c + IF pc'[t] = "connect" THEN 1 ELSE 0)
    BY <1>6, <1>8, PlacesMove
  <2>2. Places = Len(idle_list_) + (h + Len(held[t])) + (c + 0)
        /\ Places' = (Len(idle_list_) - k) + (h + Len(held[t])) + (c + 0)
    BY <1>1, <1>3, <2>1
  <2>3. PICK i \in Nat, j \in Nat : i = Len(idle_list_) /\ j = Len(held[t])
    BY <1>4
  <2>4. Places = i + (h + j) + (c + 0) /\ Places' = (i - k) + (h + j) + (c + 0)
    BY <2>2, <2>3
  <2> QED BY <1>4, <2>4
<1>12. SizeInv'
  <2>1. size_ = Places + dropped /\ size_ <= capacity_ /\ Places <= capacity_
    BY <1>1 DEF ConnInv, SizeInv
  <2>2. size_' = Places' + dropped /\ size_' <= capacity_ /\ Places' <= capacity_
    BY <1>1, <1>4, <1>11, <2>1, PoolSizes
  <2> QED BY <1>1, <2>2 DEF SizeInv
<1> QED BY <1>8, <1>9, <1>10, <1>12 DEF ConnInv

\* Put: a connection that was held is idle, and the first idle one is retired if they
\* are too many.
LEMMA PutStep ==
    ASSUME ConnInv, NEW t \in Threads, P!Put(t)
    PROVE  ConnInv'
<1>a. PICK c : c = Head(held[t])
  OBVIOUS
<1>b. PICK k \in Nat : k = IF Len(idle_list_) = max_idle_ THEN 1 ELSE 0
  OBVIOUS
<1>c. PICK rest : rest = IF Len(idle_list_) = max_idle_ THEN Tail(idle_list_) ELSE idle_list_
  OBVIOUS
<1>d. PICK e : e = [conn |-> c, last_active |-> now]
  OBVIOUS
<1>1. /\ clock' = clock /\ open' = open /\ dropped' = dropped /\ alive' = alive /\ now' = now /\ set_back' = set_back
      /\ held[t] # <<>> /\ alive
      /\ idle_list_' = Append(rest, e)
      /\ retired' = [retired EXCEPT ![t] = IF Len(idle_list_) = max_idle_ THEN {Head(idle_list_).conn} ELSE {}]
      /\ held' = [held EXCEPT ![t] = Tail(@)]
      /\ size_' = IF Len(idle_list_) = max_idle_ THEN size_ - 1 ELSE size_
  BY <1>a, <1>c, <1>d DEF P!Put
<1>2. /\ pc[t] = "user" /\ pc'[t] = "close"
      /\ \A x \in Threads \ {t} : pc'[x] = pc[x]
      /\ pc' \in [Threads -> {"user", "retire", "close_then_get", "get", "connect", "close"}]
  BY DEF P!Put, P!Goto, ConnInv, P!TypeOK
<1>3. /\ retired'[t] = (IF Len(idle_list_) = max_idle_ THEN {Head(idle_list_).conn} ELSE {}) /\ retired[t] = {}
      /\ held'[t] = Tail(held[t])
      /\ \A x \in Threads \ {t} : retired'[x] = retired[x] /\ held'[x] = held[x]
  BY <1>1, <1>2 DEF ConnInv, P!TypeOK, PoolControl
<1>4. /\ Len(idle_list_) \in Nat /\ size_ \in Nat /\ dropped \in Nat /\ now \in Nat
      /\ Len(idle_list_) <= max_idle_ /\ idle_list_ \in Seq(Entries)
      /\ held[t] \in Seq(Objects) /\ Once(held[t])
  BY PoolFacts
<1>5. size_' = size_ - k /\ k \in 0 .. Len(idle_list_) /\ Len(idle_list_) - k < max_idle_
  <2>1. CASE Len(idle_list_) = max_idle_
    BY <1>1, <1>4, <1>b, <2>1, PoolSizes
  <2>2. CASE Len(idle_list_) # max_idle_
    BY <1>1, <1>4, <1>b, <2>2, PoolSizes
  <2> QED BY <2>1, <2>2
<1>6. /\ rest = SubSeq(idle_list_, k + 1, Len(idle_list_))
      /\ retired'[t] = {idle_list_[i].conn : i \in 1 .. k}
  <2>1. CASE Len(idle_list_) = max_idle_
    <3>1. k = 1 /\ idle_list_ # <<>> /\ 1 .. k = {1}
      BY <1>4, <1>b, <2>1, PoolSizes
    <3>2. Tail(idle_list_) = SubSeq(idle_list_, 2, Len(idle_list_)) /\ Head(idle_list_) = idle_list_[1]
      BY <1>4, <3>1
    <3> QED BY <1>3, <1>c, <2>1, <3>1, <3>2
  <2>2. CASE Len(idle_list_) # max_idle_
    <3>1. k = 0 /\ 1 .. k = {}
      BY <1>b, <2>2
    <3>2. SubSeq(idle_list_, 1, Len(idle_list_)) = idle_list_
      BY <1>4
    <3> QED BY <1>3, <1>c, <2>2, <3>1, <3>2
  <2> QED BY <2>1, <2>2
<1>7. /\ rest \in Seq(Entries) /\ OnceIdle(rest)
      /\ Len(rest) \in Nat /\ Len(rest) = Len(idle_list_) - k
      /\ ConnsOf(rest) = P!Idle \ retired'[t]
      /\ retired'[t] \subseteq P!Idle /\ retired'[t] \subseteq Objects /\ IsFiniteSet(retired'[t])
  BY <1>5, <1>6, FirstOff
<1>8. /\ held'[t] \in Seq(Objects) /\ Once(held'[t]) /\ Len(held'[t]) = Len(held[t]) - 1
      /\ Len(held[t]) \in Nat \ {0} /\ c \in HeldBy(t) /\ c \in Objects
      /\ HeldBy(t)' = HeldBy(t) \ {c}
  BY <1>1, <1>3, <1>4, <1>a, TailHeld DEF HeldBy
<1>9. e \in Entries /\ e.conn = c /\ c \notin P!Idle
  <2>1. c \notin P!Idle
    BY <1>8, PoolFacts
  <2> QED BY <1>4, <1>8, <1>d, <2>1 DEF Entries
<1>10. /\ idle_list_' \in Seq(Entries) /\ OnceIdle(idle_list_') /\ Len(idle_list_') = Len(rest) + 1
       /\ ConnsOf(idle_list_') = ConnsOf(rest) \cup {c}
  <2>1. e.conn \notin ConnsOf(rest)
    BY <1>7, <1>9
  <2>2. /\ Append(rest, e) \in Seq(Entries) /\ OnceIdle(Append(rest, e)) /\ Len(Append(rest, e)) = Len(rest) + 1
        /\ ConnsOf(Append(rest, e)) = ConnsOf(rest) \cup {e.conn}
    BY <1>7, <1>9, <2>1, AppendIdle
  <2> QED BY <1>1, <1>9, <2>2
<1>11. P!Idle' = (P!Idle \ retired'[t]) \cup {c}
  <2>1. P!Idle' = ConnsOf(idle_list_')
    BY DEF P!Idle, ConnsOf
  <2> QED BY <1>7, <1>10, <2>1
<1>12. size_ - k \in Nat
  <2>1. size_ = Places + dropped
    BY <1>1 DEF ConnInv, SizeInv
  <2>2. Sum(HeldLens, Threads) \in Nat
    <3>1. \A x \in Threads : HeldLens[x] \in Nat
      BY PoolFacts DEF HeldLens
    <3> QED BY <3>1, PoolSizes, SumNat
  <2>3. Cardinality(P!Connecting) \in Nat
    BY PoolSizes, FS_Subset, FS_CardinalityType DEF P!Connecting
  <2> QED BY <1>4, <1>5, <2>1, <2>2, <2>3 DEF Places
<1>13. P!TypeOK'
  <2>1. retired' \in [Threads -> SUBSET Objects] /\ held' \in [Threads -> Seq(Objects)]
    BY <1>1, <1>3, <1>7, <1>8 DEF ConnInv, P!TypeOK
  <2>2. Len(idle_list_') <= max_idle_
    BY <1>4, <1>5, <1>7, <1>10, PoolSizes
  <2>3. size_' \in Nat
    BY <1>5, <1>12
  <2> QED BY <1>1, <1>2, <1>10, <2>1, <2>2, <2>3 DEF ConnInv, P!TypeOK, Entries
<1>14. Apart'
  <2>1. OnceIdle(idle_list_)'
    BY <1>10 DEF OnceIdle
  <2>2. /\ HeldBy(t)' \cap P!Idle' = {} /\ retired'[t] \cap P!Idle' = {} /\ HeldBy(t)' \cap retired'[t] = {}
        /\ \A d \in P!Idle' \cup HeldBy(t)' \cup retired'[t] : d \in P!Idle \cup HeldBy(t) \cup retired[t]
    BY <1>7, <1>8, <1>9, <1>11, PoolFacts
  <2>3. open' = (open \ (P!Idle \cup HeldBy(t) \cup retired[t])) \cup (P!Idle' \cup HeldBy(t)' \cup retired'[t])
    BY <1>1, <1>3, <1>7, <1>8, <1>11, PoolFacts
  <2> QED BY <1>3, <1>8, <2>1, <2>2, <2>3, ApartMove DEF ConnInv
<1>15. PoolControl'
  BY <1>1, <1>2, <1>3, <1>7 DEF ConnInv, PoolControl
<1>16. Places' = Places - k /\ Places \in Int
  <2>1. \A x \in Threads \ {t} : held'[x] = held[x] /\ pc'[x] = pc[x]
    BY <1>2, <1>3
  <2>2. PICK h \in Int, m \in Int :
           /\ h \in Nat /\ m \in Nat
           /\ Places = Len(idle_list_) + (h + Len(held[t])) + (m + IF pc[t] = "connect" THEN 1 ELSE 0)
           /\ Places' = Len(idle_list_') + (h + Len(held'[t])) + (m + IF pc'[t] = "connect" THEN 1 ELSE 0)
    BY <1>13, <2>1, PlacesMove
  <2>3. PICK i \in Nat, j \in Nat \ {0} : i = Len(idle_list_) /\ j = Len(held[t])
    BY <1>4, <1>8
  <2>4. Places = i + (h + j) + (m + 0) /\ Places' = ((i - k) + 1) + (h + (j - 1)) + (m + 0)
    BY <1>2, <1>7, <1>8, <1>10, <2>2, <2>3
  <2> QED BY <2>4
<1>17. SizeInv'
  <2>1. size_ = Places + dropped /\ size_ <= capacity_ /\ Places <= capacity_
    BY <1>1 DEF ConnInv, SizeInv
  <2>2. size_' = Places' + dropped /\ size_' <= capacity_ /\ Places' <= capacity_
    BY <1>4, <1>5, <1>16, <2>1, PoolSizes
  <2> QED BY <1>1, <2>2 DEF SizeInv
<1> QED BY <1>13, <1>14, <1>15, <1>17 DEF ConnInv

\* DestroyPool: the idle connections are closed, and threads keep theirs.
LEMMA DestroyStep ==
    ASSUME ConnInv, P!DestroyPool
    PROVE  ConnInv'
<1>1. /\ size_' = size_ /\ pc' = pc /\ clock' = clock /\ held' = held /\ retired' = retired
      /\ dropped' = dropped /\ now' = now /\ set_back' = set_back /\ alive' = FALSE /\ idle_list_' = <<>>
      /\ open' = open \ P!Idle /\ \A t \in Threads : pc[t] = "user"
  BY DEF P!DestroyPool, P!Idle
<1>2. P!TypeOK'
  <2>1. <<>> \in Seq(Entries) /\ Len(<<>>) <= max_idle_
    BY PoolSizes
  <2> QED BY <1>1, <2>1 DEF ConnInv, P!TypeOK, Entries
<1>3. /\ P!Idle' = {} /\ P!Held' = P!Held /\ P!Retired' = P!Retired
      /\ \A t \in Threads : HeldBy(t)' = HeldBy(t)
  BY <1>1 DEF P!Idle, P!Held, P!Retired, HeldBy
<1>4. P!Held \cap P!Idle = {} /\ P!Retired \cap P!Idle = {}
  BY DEF ConnInv, Apart, P!Held, P!Retired, HeldBy
<1>5. OnceIdle(idle_list_)' /\ \A t \in Threads : Once(held[t])'
  BY <1>1 DEF ConnInv, Apart, OnceIdle, Once
<1>6. Apart'
  BY <1>1, <1>3, <1>4, <1>5 DEF ConnInv, Apart
<1>7. PoolControl'
  BY <1>1 DEF ConnInv, PoolControl
<1>8. SizeInv'
  <2>1. idle_list_ \in Seq(Entries) /\ \A x \in Threads : held[x] \in Seq(Objects)
    BY DEF ConnInv, P!TypeOK, Entries
  <2>2. Len(idle_list_) \in Nat /\ \A x \in Threads : HeldLens[x] \in Nat
    BY <2>1 DEF HeldLens
  <2>3. Sum(HeldLens, Threads) \in Nat /\ Cardinality(P!Connecting) \in Nat
    BY <2>2, PoolSizes, SumNat, FS_Subset, FS_CardinalityType DEF P!Connecting
  <2>4. HeldLens' = HeldLens /\ P!Connecting' = P!Connecting /\ Len(idle_list_') = 0
    BY <1>1 DEF HeldLens, P!Connecting
  <2>5. Places <= capacity_
    BY DEF ConnInv, SizeInv
  <2>6. Places' <= capacity_
    BY <2>2, <2>3, <2>4, <2>5, PoolSizes DEF Places
  <2> QED BY <1>1, <2>6 DEF SizeInv
<1> QED BY <1>2, <1>6, <1>7, <1>8 DEF ConnInv

\* Tick and SetBack: the clock changes.
LEMMA PoolTickStep ==
    ASSUME ConnInv, P!Tick \/ P!SetBack
    PROVE  ConnInv'
<1>1. /\ size_' = size_ /\ idle_list_' = idle_list_ /\ pc' = pc /\ clock' = clock
      /\ held' = held /\ retired' = retired /\ open' = open /\ dropped' = dropped /\ alive' = alive
      /\ set_back' \in BOOLEAN
  BY DEF P!Tick, P!SetBack, ConnInv, P!TypeOK
<1>2. now' \in Nat
  BY DEF ConnInv, PoolControl, P!Tick, P!SetBack
<1>3. P!TypeOK'
  BY <1>1 DEF ConnInv, P!TypeOK
<1>4. Apart'
  BY <1>1, SameConns DEF ConnInv
<1>5. PoolControl'
  BY <1>1, <1>2 DEF ConnInv, PoolControl
<1>6. SizeInv'
  <2>1. Places' = Places
    BY <1>1 DEF Places, HeldLens, P!Connecting
  <2> QED BY <1>1, <2>1 DEF ConnInv, SizeInv
<1> QED BY <1>3, <1>4, <1>5, <1>6 DEF ConnInv

\* All steps of the pool.
LEMMA ConnStep ==
    ASSUME ConnInv, P!Next
    PROVE  ConnInv'
BY PoolCallStep, PlaceStep, CloseStep, ReuseStep, NewConnStep, DropStep, RetireStep, PutStep,
   DestroyStep, PoolTickStep DEF P!Next

\* The pool starts with no connection.
LEMMA ConnStart ==
    ASSUME P!Init
    PROVE  ConnInv
<1>1. /\ size_ = 0 /\ idle_list_ = <<>> /\ open = {} /\ dropped = 0 /\ alive = TRUE /\ now = 0
      /\ \A t \in Threads : pc[t] = "user" /\ held[t] = <<>> /\ retired[t] = {}
  BY DEF P!Init
<1>2. P!TypeOK
  <2>1. <<>> \in Seq([conn : Objects, last_active : Nat]) /\ Len(<<>>) <= max_idle_
    BY PoolSizes
  <2>2. set_back \in BOOLEAN
    BY DEF P!Init
  <2> QED BY <2>1, <2>2 DEF P!Init, P!TypeOK
<1>3. P!Idle = {} /\ P!Held = {} /\ P!Retired = {} /\ \A t \in Threads : HeldBy(t) = {}
  BY <1>1 DEF P!Idle, P!Held, P!Retired, HeldBy, P!Range
<1>4. Apart
  BY <1>1, <1>3 DEF Apart, OnceIdle, Once
<1>5. PoolControl
  BY <1>1, FS_EmptySet DEF PoolControl
<1>6. Places = 0
  <2>1. P!Connecting = {} /\ Cardinality({}) = 0 /\ Len(idle_list_) = 0
    BY <1>1, FS_EmptySet DEF P!Connecting
  <2>2. Sum(HeldLens, Threads) = 0
    <3> DEFINE z == [t \in Threads |-> 0]
    <3>1. HeldLens = z
      BY <1>1 DEF HeldLens
    <3>2. \A x \in Threads : z[x] \in Nat /\ z[x] = z[x] + z[x]
      OBVIOUS
    <3> HIDE DEF z
    <3>3. Sum(z, Threads) = Sum(z, Threads) + Sum(z, Threads)
      BY <3>2, PoolSizes, SumPlus
    <3>4. Sum(z, Threads) \in Nat
      <4>1. Threads \in SUBSET Threads
        OBVIOUS
      <4>2. \A x \in Threads : z[x] \in Nat
        BY <3>2
      <4>3. \A T \in SUBSET Threads : Sum(z, T) \in Nat
        BY <4>2, PoolSizes, SumNat
      <4> QED BY <4>1, <4>3
    <3>5. PICK n \in Nat : n = Sum(z, Threads)
      BY <3>4
    <3>a. n + n <= n
      BY <3>3, <3>5
    <3>6. n = 0
      BY <3>a
    <3> QED BY <3>1, <3>5, <3>6
  <2> QED BY <2>1, <2>2 DEF Places
<1>7. SizeInv
  BY <1>1, <1>6, PoolSizes DEF SizeInv
<1> QED BY <1>2, <1>4, <1>5, <1>7 DEF ConnInv

\* A list without repetition has as many elements as it is long.
LEMMA ListSize ==
    ASSUME NEW n \in Nat, NEW f, \A i, j \in 1 .. n : f[i] = f[j] => i = j
    PROVE  /\ IsFiniteSet({f[i] : i \in 1 .. n})
           /\ Cardinality({f[i] : i \in 1 .. n}) = n
<1> DEFINE S1 == {f[i] : i \in 1 .. n}
           g == [i \in 1 .. n |-> f[i]]
<1>1. g \in Bijection(1 .. n, S1)
  <2>1. g \in [1 .. n -> S1]
    OBVIOUS
  <2>2. \A i, j \in 1 .. n : g[i] = g[j] => i = j
    OBVIOUS
  <2>3. \A x \in S1 : \E i \in 1 .. n : g[i] = x
    OBVIOUS
  <2> HIDE DEF S1, g
  <2> QED BY <2>1, <2>2, <2>3 DEF Bijection, Injection, Surjection, IsInjective
<1>2. IsFiniteSet(1 .. n) /\ Cardinality(1 .. n) = n
  <2>1. 1 \in Int /\ n \in Int
    OBVIOUS
  <2> QED BY <2>1, FS_Interval
<1> HIDE DEF S1, g
<1>3. ExistsBijection(1 .. n, S1)
  BY <1>1 DEF ExistsBijection
<1>4. IsFiniteSet(S1) /\ Cardinality(S1) = n
  BY <1>2, <1>3, FS_Bijection
<1> QED BY <1>4 DEF S1

\* The sizes of the places that connections are in.
LEMMA PlaceSizes ==
    ASSUME ConnInv
    PROVE  /\ IsFiniteSet(P!Idle) /\ Cardinality(P!Idle) = Len(idle_list_)
           /\ IsFiniteSet(P!Held) /\ Cardinality(P!Held) = Sum(HeldLens, Threads)
           /\ IsFiniteSet(P!Retired)
           /\ Cardinality(P!Retired) = Sum([t \in Threads |-> Cardinality(retired[t])], Threads)
<1>1. IsFiniteSet(P!Idle) /\ Cardinality(P!Idle) = Len(idle_list_)
  <2>1. PICK n \in Nat : n = Len(idle_list_) /\ DOMAIN idle_list_ = 1 .. n
    <3>1. idle_list_ \in Seq(Entries)
      BY DEF ConnInv, P!TypeOK, Entries
    <3> QED BY <3>1
  <2>2. PICK f : f = [i \in 1 .. n |-> idle_list_[i].conn]
    OBVIOUS
  <2>3. \A i \in 1 .. n : f[i] = idle_list_[i].conn
    BY <2>2
  <2>4. \A i, j \in 1 .. n : f[i] = f[j] => i = j
    BY <2>1, <2>3 DEF ConnInv, Apart, OnceIdle
  <2>5. P!Idle = {f[i] : i \in 1 .. n}
    BY <2>1, <2>3 DEF P!Idle
  <2>6. IsFiniteSet({f[i] : i \in 1 .. n}) /\ Cardinality({f[i] : i \in 1 .. n}) = n
    BY <2>4, ListSize
  <2> QED BY <2>1, <2>5, <2>6
<1>2. ASSUME NEW t \in Threads PROVE IsFiniteSet(HeldBy(t)) /\ Cardinality(HeldBy(t)) = Len(held[t])
  <2>1. PICK n \in Nat : n = Len(held[t]) /\ DOMAIN held[t] = 1 .. n
    <3>1. held[t] \in Seq(Objects)
      BY DEF ConnInv, P!TypeOK
    <3> QED BY <3>1
  <2>2. PICK f : f = held[t]
    OBVIOUS
  <2>3. \A i, j \in 1 .. n : f[i] = f[j] => i = j
    BY <2>1, <2>2 DEF ConnInv, Apart, Once
  <2>4. HeldBy(t) = {f[i] : i \in 1 .. n}
    BY <2>1, <2>2 DEF HeldBy, P!Range
  <2>5. IsFiniteSet({f[i] : i \in 1 .. n}) /\ Cardinality({f[i] : i \in 1 .. n}) = n
    BY <2>3, ListSize
  <2> QED BY <2>1, <2>4, <2>5
<1>3. IsFiniteSet(P!Held) /\ Cardinality(P!Held) = Sum(HeldLens, Threads)
  <2>1. PICK F : F = [t \in Threads |-> HeldBy(t)]
    OBVIOUS
  <2>2. \A x \in Threads : F[x] = HeldBy(x)
    BY <2>1
  <2>3. \A x \in Threads : IsFiniteSet(F[x])
    BY <1>2, <2>2
  <2>4. \A x, y \in Threads : x # y => F[x] \cap F[y] = {}
    BY <2>2 DEF ConnInv, Apart
  <2>5. /\ IsFiniteSet(UNION {F[x] : x \in Threads})
        /\ Cardinality(UNION {F[x] : x \in Threads}) = Sum([x \in Threads |-> Cardinality(F[x])], Threads)
    BY <2>3, <2>4, PoolSizes, UnionSum
  <2>6. UNION {F[x] : x \in Threads} = P!Held
    BY <2>2 DEF P!Held, HeldBy
  <2>7. [x \in Threads |-> Cardinality(F[x])] = HeldLens
    BY <1>2, <2>2 DEF HeldLens
  <2> QED BY <2>5, <2>6, <2>7
<1>4. /\ IsFiniteSet(P!Retired)
      /\ Cardinality(P!Retired) = Sum([t \in Threads |-> Cardinality(retired[t])], Threads)
  <2>1. PICK F : F = retired
    OBVIOUS
  <2>2. \A x \in Threads : IsFiniteSet(F[x])
    BY <2>1 DEF ConnInv, PoolControl
  <2>3. \A x, y \in Threads : x # y => F[x] \cap F[y] = {}
    BY <2>1 DEF ConnInv, Apart
  <2>4. /\ IsFiniteSet(UNION {F[x] : x \in Threads})
        /\ Cardinality(UNION {F[x] : x \in Threads}) = Sum([x \in Threads |-> Cardinality(F[x])], Threads)
    BY <2>2, <2>3, PoolSizes, UnionSum
  <2>5. UNION {F[x] : x \in Threads} = P!Retired
    BY <2>1 DEF P!Retired
  <2>6. [x \in Threads |-> Cardinality(F[x])] = [t \in Threads |-> Cardinality(retired[t])]
    BY <2>1
  <2> QED BY <2>4, <2>5, <2>6
<1> QED BY <1>1, <1>3, <1>4

\* The size of a union of two finite sets that have nothing in common.
LEMMA UnionSize ==
    ASSUME NEW X, NEW Y, IsFiniteSet(X), IsFiniteSet(Y), X \cap Y = {}
    PROVE  /\ IsFiniteSet(X \cup Y)
           /\ Cardinality(X \cup Y) = Cardinality(X) + Cardinality(Y)
           /\ Cardinality(X) \in Nat /\ Cardinality(Y) \in Nat
<1>1. IsFiniteSet(X \cup Y) /\ Cardinality(X \cup Y) = Cardinality(X) + Cardinality(Y) - Cardinality({})
  BY FS_Union
<1>2. Cardinality(X) \in Nat /\ Cardinality(Y) \in Nat /\ Cardinality({}) = 0
  BY FS_CardinalityType, FS_EmptySet
<1> QED BY <1>1, <1>2

\* What the invariant says of the connections.
LEMMA ConnsFollow ==
    ASSUME ConnInv
    PROVE  P!OnePlace /\ P!SizeCounts /\ P!WithinCapacity
<1>1. P!Held \cap P!Idle = {} /\ P!Retired \cap P!Idle = {} /\ P!Held \cap P!Retired = {}
  BY DEF ConnInv, Apart, P!Held, P!Retired, HeldBy
<1>2. PICK I, H, Z : I = P!Idle /\ H = P!Held /\ Z = P!Retired
  OBVIOUS
<1>3. /\ IsFiniteSet(I) /\ IsFiniteSet(H) /\ IsFiniteSet(Z)
      /\ I \cap H = {} /\ (I \cup H) \cap Z = {}
  BY <1>1, <1>2, PlaceSizes
<1>4. IsFiniteSet(I \cup H) /\ Cardinality(I \cup H) = Cardinality(I) + Cardinality(H)
  BY <1>3, UnionSize
<1>5. Cardinality((I \cup H) \cup Z) = Cardinality(I \cup H) + Cardinality(Z)
  BY <1>3, <1>4, UnionSize
<1>6. Cardinality(I) \in Nat /\ Cardinality(H) \in Nat /\ Cardinality(Z) \in Nat
  BY <1>3, FS_CardinalityType
<1>7. open = (I \cup H) \cup Z /\ open \ P!Retired = I \cup H
  BY <1>2, <1>3 DEF ConnInv, Apart
<1>8. /\ Cardinality(I) = Len(idle_list_) /\ Cardinality(H) = Sum(HeldLens, Threads)
      /\ Cardinality(Z) = Sum([t \in Threads |-> Cardinality(retired[t])], Threads)
  BY <1>2, PlaceSizes
<1>9. P!SumFunction([t \in Threads |-> Len(held[t])]) = Sum(HeldLens, Threads)
  <2>1. PICK f : f = HeldLens
    OBVIOUS
  <2>2. P!SumFunction(f) = Sum(f, DOMAIN f) /\ DOMAIN f = Threads
    BY <2>1, SameSum DEF HeldLens
  <2> QED BY <2>1, <2>2 DEF HeldLens
<1>10. P!SumFunction([t \in Threads |-> Len(held[t]) + P!Cardinality(retired[t])])
          = Sum(HeldLens, Threads) + Sum([t \in Threads |-> Cardinality(retired[t])], Threads)
  <2>1. PICK f, g, h : /\ f = HeldLens /\ g = [t \in Threads |-> Cardinality(retired[t])]
                       /\ h = [t \in Threads |-> Len(held[t]) + P!Cardinality(retired[t])]
    OBVIOUS
  <2>2. P!SumFunction(h) = Sum(h, DOMAIN h) /\ DOMAIN h = Threads
    BY <2>1, SameSum
  <2>3. ASSUME NEW x \in Threads PROVE f[x] \in Nat /\ g[x] \in Nat /\ h[x] = f[x] + g[x]
    <3>1. Len(held[x]) \in Nat /\ IsFiniteSet(retired[x])
      BY PoolFacts DEF ConnInv, PoolControl
    <3>2. Cardinality(retired[x]) \in Nat /\ P!Cardinality(retired[x]) = Cardinality(retired[x])
      BY <3>1, FS_CardinalityType, SameCount
    <3> QED BY <2>1, <3>1, <3>2 DEF HeldLens
  <2>4. Sum(h, Threads) = Sum(f, Threads) + Sum(g, Threads)
    BY <2>3, PoolSizes, SumPlus
  <2> QED BY <2>1, <2>2, <2>4
<1>11. P!OnePlace
  <2>1. P!TypeOK /\ open = P!Idle \cup P!Held \cup P!Retired
    BY DEF ConnInv, Apart
  <2>2. P!Cardinality(open) = Cardinality((I \cup H) \cup Z)
    BY <1>7, SameCount
  <2>3. PICK i \in Nat, j \in Nat, k \in Nat : i = Cardinality(I) /\ j = Cardinality(H) /\ k = Cardinality(Z)
    BY <1>6
  <2>4. P!Cardinality(open) = (i + j) + k
    BY <1>4, <1>5, <2>2, <2>3
  <2>5. (i + j) + k = i + (j + k)
    OBVIOUS
  <2> QED BY <1>8, <1>10, <2>1, <2>3, <2>4, <2>5 DEF P!OnePlace
<1>12. P!Cardinality(P!Connecting) = Cardinality(P!Connecting)
  BY SameCount
<1>13. P!SizeCounts
  BY <1>9, <1>12 DEF ConnInv, SizeInv, Places, P!SizeCounts
<1>14. P!WithinCapacity
  <2>1. P!Cardinality(open \ P!Retired) = Cardinality(I) + Cardinality(H)
    BY <1>4, <1>7, SameCount
  <2> QED BY <1>8, <1>12, <2>1 DEF ConnInv, SizeInv, Places, P!WithinCapacity
<1> QED BY <1>11, <1>13, <1>14

\* The connections of the pool are accounted for, whatever threads do at once.
THEOREM ConnsTheorem == Spec => []ConnsAccounted
<1> DEFINE Inv == at = "pool" => ConnInv
<1>1. Init => Inv
  BY ConnStart DEF Init
<1>2. Inv /\ [Next]_vars => Inv'
  <2> SUFFICES ASSUME Inv, [Next]_vars, at' = "pool" PROVE ConnInv'
    OBVIOUS
  <2>1. CASE UNCHANGED vars
    <3>1. /\ at = "pool" /\ size_' = size_ /\ idle_list_' = idle_list_ /\ pc' = pc /\ clock' = clock
          /\ held' = held /\ retired' = retired /\ open' = open /\ dropped' = dropped
          /\ alive' = alive /\ now' = now /\ set_back' = set_back
      BY <2>1 DEF vars, poolVars
    <3>2. Apart'
      BY <3>1, SameConns DEF ConnInv
    <3>3. P!TypeOK' /\ PoolControl'
      BY <3>1 DEF ConnInv, P!TypeOK, PoolControl
    <3>4. Places' = Places
      BY <3>1 DEF Places, HeldLens, P!Connecting
    <3>5. SizeInv'
      BY <3>1, <3>4 DEF ConnInv, SizeInv
    <3> QED BY <3>2, <3>3, <3>5 DEF ConnInv
  <2>2. CASE Next
    <3>1. at = "pool" /\ P!Next
      BY <2>2 DEF Next
    <3> QED BY <3>1, ConnStep
  <2> QED BY <2>1, <2>2
<1>3. Inv => ConnsAccounted
  BY ConnsFollow DEF ConnsAccounted
<1> QED BY <1>1, <1>2, <1>3, PTL DEF Spec

\* The idle list is in order.
InOrder(s) == \A i, j \in DOMAIN s : i < j => s[i].last_active <= s[j].last_active

\* Thread t may reuse any connection of s.
Fresh(t, s) ==
    pc[t] \in {"close_then_get", "get"} =>
        \A i \in DOMAIN s : clock[t] < s[i].last_active + idle_timeout_

\* What NoneExpired says of the pool as long as the clock has not been set back.
Sorted ==
    /\ InOrder(idle_list_)
    /\ idle_timeout_ > 0 => \A t \in Threads : Fresh(t, idle_list_)

\* No reading of the clock is ahead of it.
NotAhead ==
    /\ \A i \in DOMAIN idle_list_ : idle_list_[i].last_active <= now
    /\ \A t \in Threads : clock[t] <= now

\* NoneExpired, in these terms.
LEMMA SortedFacts == P!NoneExpired <=> (~set_back => Sorted)
BY DEF P!NoneExpired, Sorted, InOrder, Fresh

\* What the entries of the list have.
LEMMA EntryFacts ==
    ASSUME ConnInv
    PROVE  /\ DOMAIN idle_list_ = 1 .. Len(idle_list_) /\ Len(idle_list_) \in Nat /\ now \in Nat
           /\ \A i \in DOMAIN idle_list_ : idle_list_[i].last_active \in Nat
           /\ \A t \in Threads : clock[t] \in Nat
<1>1. idle_list_ \in Seq(Entries) /\ now \in Nat /\ \A t \in Threads : clock[t] \in Nat
  BY DEF ConnInv, P!TypeOK, PoolControl, Entries
<1>2. DOMAIN idle_list_ = 1 .. Len(idle_list_) /\ Len(idle_list_) \in Nat
  BY <1>1
<1>3. \A i \in DOMAIN idle_list_ : idle_list_[i] \in Entries
  BY <1>1, <1>2
<1>4. \A i \in DOMAIN idle_list_ : idle_list_[i].last_active \in Nat
  BY <1>3 DEF Entries
<1> QED BY <1>1, <1>2, <1>4

\* A step that leaves the list alone, and puts no thread past the retiring of expired
\* connections.
LEMMA FreshSame ==
    ASSUME Sorted, idle_list_' = idle_list_,
           idle_timeout_ > 0 => \A t \in Threads :
               pc'[t] \in {"close_then_get", "get"} =>
                   clock'[t] = clock[t] /\ pc[t] \in {"close_then_get", "get"}
    PROVE  Sorted'
BY DEF Sorted, InOrder, Fresh

\* A step that reads the clock, keeps a reading, or forgets one.
LEMMA ReadingStep ==
    ASSUME ConnInv, NotAhead, now' = now \/ now' = now + 1,
           \A i \in DOMAIN idle_list_' :
               \/ idle_list_'[i].last_active = now
               \/ \E j \in DOMAIN idle_list_ : idle_list_'[i] = idle_list_[j],
           \A t \in Threads : clock'[t] \in {clock[t], now, 0}
    PROVE  NotAhead'
<1>1. now \in Nat /\ now <= now'
  BY EntryFacts
<1>2. ASSUME NEW i \in DOMAIN idle_list_' PROVE idle_list_'[i].last_active <= now'
  <2>1. CASE idle_list_'[i].last_active = now
    BY <1>1, <2>1
  <2>2. ASSUME NEW j \in DOMAIN idle_list_, idle_list_'[i] = idle_list_[j]
        PROVE  idle_list_'[i].last_active <= now'
    <3>1. idle_list_[j].last_active \in Nat /\ idle_list_[j].last_active <= now
      BY EntryFacts DEF NotAhead
    <3>2. PICK m \in Nat : m = idle_list_[j].last_active
      BY <3>1
    <3> QED BY <1>1, <2>2, <3>1, <3>2
  <2> QED BY <1>2, <2>1, <2>2
<1>3. ASSUME NEW t \in Threads PROVE clock'[t] <= now'
  <2>1. clock[t] \in Nat /\ clock[t] <= now
    BY EntryFacts DEF NotAhead
  <2>2. clock'[t] = clock[t] \/ clock'[t] = now \/ clock'[t] = 0
    OBVIOUS
  <2> QED BY <1>1, <2>1, <2>2
<1> QED BY <1>2, <1>3 DEF NotAhead

\* RetireTimeoutIdleConnections: what is left has not expired, as the list is in order.
LEMMA RetireFresh ==
    ASSUME ConnInv, Sorted, NotAhead, NEW t \in Threads, P!RetireTimeoutIdleConnections(t)
    PROVE  Sorted' /\ NotAhead'
<1>a. PICK k \in 0 .. Len(idle_list_) : k = Cardinality(P!Expired(t))
  BY ExpiredFacts
<1>b. P!Expired(t) = 1 .. k
  BY <1>a, ExpiredFacts
<1>1. /\ clock' = clock /\ idle_list_' = SubSeq(idle_list_, k + 1, Len(idle_list_))
      /\ \A x \in Threads \ {t} : pc'[x] = pc[x]
  BY <1>a, SameCount DEF P!RetireTimeoutIdleConnections, P!Goto, ConnInv, P!TypeOK
<1>2. PICK rest, off : rest = idle_list_' /\ off = {idle_list_[i].conn : i \in 1 .. k}
  OBVIOUS
<1>3. /\ rest \in Seq(Entries) /\ Len(rest) \in Nat
      /\ \A i \in DOMAIN rest : k + i \in DOMAIN idle_list_ /\ rest[i] = idle_list_[k + i]
  <2>1. rest = SubSeq(idle_list_, k + 1, Len(idle_list_)) /\ off = {idle_list_[i].conn : i \in 1 .. k}
    BY <1>1, <1>2
  <2>2. rest \in Seq(Entries) /\ Len(rest) \in Nat
    BY <2>1, FirstOff
  <2>3. \A i \in DOMAIN rest : k + i \in DOMAIN idle_list_ /\ rest[i] = idle_list_[k + i]
    BY <2>1, FirstOff
  <2> QED BY <2>2, <2>3
<1>4. DOMAIN rest = 1 .. Len(rest) /\ k \in Nat
  BY <1>3
<1>5. InOrder(rest)
  <2> SUFFICES ASSUME NEW i \in DOMAIN rest, NEW j \in DOMAIN rest, i < j
               PROVE  rest[i].last_active <= rest[j].last_active
    BY DEF InOrder
  <2>1. k + i < k + j
    BY <1>4
  <2> QED BY <1>3, <2>1 DEF Sorted, InOrder
<1>6. ASSUME idle_timeout_ > 0, NEW x \in Threads, NEW i \in DOMAIN rest, pc'[x] \in {"close_then_get", "get"}
      PROVE  clock[x] < rest[i].last_active + idle_timeout_
  <2>1. CASE x # t
    <3>1. Fresh(x, idle_list_) /\ pc[x] \in {"close_then_get", "get"}
      BY <1>1, <1>6, <2>1 DEF Sorted, Fresh
    <3> QED BY <1>3, <3>1 DEF Fresh
  <2>2. CASE x = t
    <3> DEFINE last(m) == idle_list_[m].last_active
    <3>1. k + i \in DOMAIN idle_list_ /\ k + 1 \in DOMAIN idle_list_ /\ k + 1 <= k + i
      BY <1>3, <1>4, EntryFacts
    <3>2. last(k + 1) \in Nat /\ last(k + i) \in Nat /\ clock[t] \in Nat
      BY <3>1, EntryFacts
    <3>3. k + 1 \notin P!Expired(t)
      BY <1>4, <1>b
    <3>4. PICK j \in 1 .. k + 1 : ~(clock[t] >= last(j) + idle_timeout_)
      BY <3>1, <3>3 DEF P!Expired
    <3>5. j = k + 1
      <4> SUFFICES ASSUME j # k + 1 PROVE FALSE
        OBVIOUS
      <4>1. j \in 1 .. k /\ j \in 1 .. j
        BY <1>4
      <4>2. j \in P!Expired(t)
        BY <1>b, <4>1
      <4> QED BY <3>4, <4>1, <4>2 DEF P!Expired
    <3>6. last(k + 1) <= last(k + i)
      <4>1. CASE i = 1
        BY <3>2, <4>1
      <4>2. CASE i # 1
        <5>1. k + 1 < k + i
          BY <1>4, <4>2
        <5> QED BY <3>1, <5>1 DEF Sorted, InOrder
      <4> QED BY <4>1, <4>2
    <3>7. rest[i].last_active = last(k + i)
      BY <1>3
    <3>8. ~(clock[t] >= last(k + 1) + idle_timeout_)
      BY <3>4, <3>5
    <3> HIDE DEF last
    <3> QED BY <2>2, <3>2, <3>6, <3>7, <3>8, PoolSizes
  <2> QED BY <2>1, <2>2
<1>7. idle_timeout_ > 0 => \A x \in Threads : pc'[x] \in {"close_then_get", "get"} =>
         \A i \in DOMAIN rest : clock'[x] < rest[i].last_active + idle_timeout_
  BY <1>1, <1>6
<1>8. NotAhead'
  <2>1. now' = now
    BY DEF P!RetireTimeoutIdleConnections
  <2> QED BY <1>1, <1>2, <1>3, <2>1, ReadingStep
<1>9. Sorted'
  BY <1>2, <1>5, <1>7 DEF Sorted, InOrder, Fresh
<1> QED BY <1>8, <1>9

\* Reuse: the list loses its end.
LEMMA ReuseFresh ==
    ASSUME ConnInv, Sorted, NotAhead, NEW t \in Threads, P!Reuse(t)
    PROVE  Sorted' /\ NotAhead'
<1>1. /\ idle_list_' = SubSeq(idle_list_, 1, Len(idle_list_) - 1)
      /\ \A x \in Threads : pc'[x] \in {"close_then_get", "get"} =>
            clock'[x] = clock[x] /\ pc[x] \in {"close_then_get", "get"}
      /\ idle_list_ # <<>>
  BY DEF P!Reuse, P!Goto, ConnInv, P!TypeOK
<1>2. PICK rest, n : rest = idle_list_' /\ n = Len(idle_list_)
  OBVIOUS
<1>3. idle_list_ \in Seq(Entries) /\ OnceIdle(idle_list_) /\ n \in Nat /\ n # 0
  <2>1. idle_list_ \in Seq(Entries) /\ OnceIdle(idle_list_)
    BY DEF ConnInv, P!TypeOK, Entries, Apart
  <2> QED BY <1>1, <1>2, <2>1
<1>4. 1 \in Nat \ {0} /\ n - 1 \in 0 .. Len(idle_list_) /\ 1 <= (n - 1) + 1
  BY <1>2, <1>3
<1>5. /\ rest \in Seq(Entries)
      /\ \A i \in DOMAIN rest : 1 + i - 1 \in DOMAIN idle_list_ /\ rest[i] = idle_list_[1 + i - 1]
  BY <1>1, <1>2, <1>3, <1>4, CutIdle
<1>6. \A i \in DOMAIN rest : i \in DOMAIN idle_list_ /\ rest[i] = idle_list_[i]
  <2>1. \A i \in DOMAIN rest : 1 + i - 1 = i
    BY <1>5
  <2> QED BY <1>5, <2>1
<1>7. /\ \A i, j \in DOMAIN rest : i < j => rest[i].last_active <= rest[j].last_active
      /\ idle_timeout_ > 0 => \A x \in Threads : pc'[x] \in {"close_then_get", "get"} =>
            \A i \in DOMAIN rest : clock[x] < rest[i].last_active + idle_timeout_
  BY <1>1, <1>6 DEF Sorted, InOrder, Fresh
<1>8. NotAhead'
  <2>1. now' = now /\ \A x \in Threads : clock'[x] \in {clock[x], now, 0}
    BY DEF P!Reuse, ConnInv, P!TypeOK
  <2> QED BY <1>2, <1>6, <2>1, ReadingStep
<1>9. Sorted'
  BY <1>1, <1>2, <1>7 DEF Sorted, InOrder, Fresh
<1> QED BY <1>8, <1>9

\* Put: the list loses its first entry, if it is full, and gets one of now.
LEMMA PutFresh ==
    ASSUME ConnInv, Sorted, NotAhead, NEW t \in Threads, P!Put(t)
    PROVE  Sorted' /\ NotAhead'
<1>1. PICK rest, e, k : /\ idle_list_' = Append(rest, e) /\ e = [conn |-> Head(held[t]), last_active |-> now]
                        /\ rest = SubSeq(idle_list_, k + 1, Len(idle_list_)) /\ k \in 0 .. Len(idle_list_)
  <2>1. idle_list_ \in Seq(Entries) /\ Len(idle_list_) \in Nat
    <3>1. idle_list_ \in Seq(Entries)
      BY DEF ConnInv, P!TypeOK, Entries
    <3> QED BY <3>1
  <2>2. CASE Len(idle_list_) = max_idle_
    <3>1. idle_list_ # <<>> /\ 1 \in 0 .. Len(idle_list_) /\ 1 + 1 = 2
      BY <2>1, <2>2, PoolSizes
    <3>2. Tail(idle_list_) = SubSeq(idle_list_, 1 + 1, Len(idle_list_))
      BY <2>1, <3>1
    <3>3. idle_list_' = Append(Tail(idle_list_), [conn |-> Head(held[t]), last_active |-> now])
      BY <2>2 DEF P!Put
    <3> QED BY <3>1, <3>2, <3>3
  <2>3. CASE Len(idle_list_) # max_idle_
    <3>1. 0 \in 0 .. Len(idle_list_) /\ 0 + 1 = 1
      BY <2>1
    <3>2. idle_list_ = SubSeq(idle_list_, 0 + 1, Len(idle_list_))
      BY <2>1, <3>1
    <3>3. idle_list_' = Append(idle_list_, [conn |-> Head(held[t]), last_active |-> now])
      BY <2>3 DEF P!Put
    <3> QED BY <3>1, <3>2, <3>3
  <2> QED BY <2>2, <2>3
<1>2. /\ clock' = clock
      /\ \A x \in Threads : pc'[x] \in {"close_then_get", "get"} => pc[x] \in {"close_then_get", "get"}
  BY DEF P!Put, P!Goto, ConnInv, P!TypeOK
<1>3. PICK off : off = {idle_list_[i].conn : i \in 1 .. k}
  OBVIOUS
<1>4. /\ rest \in Seq(Entries) /\ Len(rest) \in Nat
      /\ \A i \in DOMAIN rest : k + i \in DOMAIN idle_list_ /\ rest[i] = idle_list_[k + i]
  <2>1. rest = SubSeq(idle_list_, k + 1, Len(idle_list_)) /\ k \in 0 .. Len(idle_list_)
    BY <1>1
  <2>2. rest \in Seq(Entries) /\ Len(rest) \in Nat
    BY <1>3, <2>1, FirstOff
  <2>3. \A i \in DOMAIN rest : k + i \in DOMAIN idle_list_ /\ rest[i] = idle_list_[k + i]
    BY <1>3, <2>1, FirstOff
  <2> QED BY <2>2, <2>3
<1>5. DOMAIN rest = 1 .. Len(rest) /\ k \in Nat
  BY <1>1, <1>4
<1>6. \A i \in DOMAIN rest : rest[i].last_active \in Nat /\ rest[i].last_active <= now
  BY <1>4, EntryFacts DEF NotAhead
<1>7. e.last_active = now /\ now \in Nat
  BY <1>1, EntryFacts
<1>8. PICK s : s = Append(rest, e)
  OBVIOUS
<1>9. /\ DOMAIN s = 1 .. Len(rest) + 1
      /\ \A i \in DOMAIN s : (i = Len(rest) + 1 /\ s[i] = e) \/ (i \in DOMAIN rest /\ s[i] = rest[i])
  BY <1>4, <1>5, <1>8
<1>10. \A i, j \in DOMAIN s : i < j => s[i].last_active <= s[j].last_active
  <2> SUFFICES ASSUME NEW i \in DOMAIN s, NEW j \in DOMAIN s, i < j
               PROVE  s[i].last_active <= s[j].last_active
    OBVIOUS
  <2>1. i \in DOMAIN rest /\ s[i] = rest[i]
    BY <1>5, <1>9
  <2>2. CASE j = Len(rest) + 1 /\ s[j] = e
    BY <1>6, <1>7, <2>1, <2>2
  <2>3. CASE j \in DOMAIN rest /\ s[j] = rest[j]
    <3>1. k + i < k + j
      BY <1>5, <2>1, <2>3
    <3> QED BY <1>4, <2>1, <2>3, <3>1 DEF Sorted, InOrder, Fresh
  <2> QED BY <1>9, <2>2, <2>3
<1>11. ASSUME idle_timeout_ > 0, NEW x \in Threads, pc'[x] \in {"close_then_get", "get"}, NEW i \in DOMAIN s
       PROVE  clock[x] < s[i].last_active + idle_timeout_
  <2>1. CASE i = Len(rest) + 1 /\ s[i] = e
    <3>1. clock[x] \in Nat /\ clock[x] <= now /\ s[i].last_active = now
      BY <1>7, <2>1, EntryFacts DEF NotAhead
    <3> QED BY <1>7, <1>11, <3>1, PoolSizes
  <2>2. CASE i \in DOMAIN rest /\ s[i] = rest[i]
    <3>1. k + i \in DOMAIN idle_list_ /\ s[i] = idle_list_[k + i]
      BY <1>4, <2>2
    <3> QED BY <1>2, <1>11, <3>1 DEF Sorted, InOrder, Fresh
  <2> QED BY <1>9, <2>1, <2>2
<1>12. idle_list_' = s
  BY <1>1, <1>8
<1>13. NotAhead'
  <2>1. now' = now
    BY DEF P!Put
  <2>2. \A i \in DOMAIN s : s[i].last_active = now \/ \E j \in DOMAIN idle_list_ : s[i] = idle_list_[j]
    BY <1>4, <1>7, <1>9
  <2> QED BY <1>2, <1>12, <2>1, <2>2, ReadingStep
<1>14. Sorted'
  BY <1>2, <1>10, <1>11, <1>12 DEF Sorted, InOrder, Fresh
<1> QED BY <1>13, <1>14

\* The steps of threads that leave the list alone.
LEMMA ListSame ==
    ASSUME ConnInv, Sorted, NotAhead, NEW t \in Threads,
           \/ P!Get(t) \/ P!Close(t) \/ P!Exhausted(t) \/ P!Reserve(t)
           \/ P!NewConnThrows(t) \/ P!NewConnThrowsOther(t)
           \/ \E c \in Objects : P!NewConn(t, c)
           \/ P!CloseConn(t) \/ P!MoveAssign(t)
    PROVE  Sorted' /\ NotAhead'
<1>1. /\ idle_list_' = idle_list_ /\ now' = now
      /\ \A x \in Threads : clock'[x] \in {clock[x], now, 0}
      /\ idle_timeout_ > 0 => \A x \in Threads :
            pc'[x] \in {"close_then_get", "get"} =>
                clock'[x] = clock[x] /\ pc[x] \in {"close_then_get", "get"}
  BY DEF P!Get, P!Close, P!Exhausted, P!Reserve, P!NewConnThrows, P!NewConnThrowsOther, P!NewConn,
         P!CloseConn, P!MoveAssign, P!Goto, ConnInv, P!TypeOK
<1>2. Sorted'
  BY <1>1, FreshSame
<1>3. NotAhead'
  BY <1>1, ReadingStep
<1> QED BY <1>2, <1>3

\* DestroyPool and Tick.
LEMMA ListGone ==
    ASSUME ConnInv, Sorted, NotAhead, P!DestroyPool \/ P!Tick
    PROVE  Sorted' /\ NotAhead'
<1>1. CASE P!Tick
  <2>1. idle_list_' = idle_list_ /\ now' = now + 1 /\ clock' = clock /\ pc' = pc
    BY <1>1 DEF P!Tick
  <2>2. Sorted'
    BY <2>1, FreshSame
  <2>3. NotAhead'
    BY <2>1, ReadingStep
  <2> QED BY <2>2, <2>3
<1>2. CASE P!DestroyPool
  <2>1. idle_list_' = <<>> /\ now' = now /\ clock' = clock /\ pc' = pc
    BY <1>2 DEF P!DestroyPool
  <2> QED BY <2>1 DEF Sorted, InOrder, Fresh, NotAhead
<1> QED BY <1>1, <1>2

\* As long as the clock has not been set back, Get reuses no connection that had
\* expired when it was called.
THEOREM ExpiredTheorem == Spec => []NoneExpired
<1> DEFINE Inv == at = "pool" => ConnInv /\ (~set_back => Sorted /\ NotAhead)
<1>1. Init => Inv
  <2> SUFFICES ASSUME P!Init PROVE ConnInv /\ Sorted /\ NotAhead
    BY DEF Init
  <2>1. idle_list_ = <<>> /\ now = 0 /\ \A t \in Threads : clock[t] = 0 /\ pc[t] = "user"
    BY DEF P!Init
  <2> QED BY <2>1, ConnStart DEF Sorted, InOrder, Fresh, NotAhead
<1>2. Inv /\ [Next]_vars => Inv'
  <2> SUFFICES ASSUME Inv, [Next]_vars, at' = "pool" PROVE ConnInv' /\ (~set_back' => Sorted' /\ NotAhead')
    OBVIOUS
  <2>1. CASE UNCHANGED vars
    <3>1. /\ at = "pool" /\ size_' = size_ /\ idle_list_' = idle_list_ /\ pc' = pc /\ clock' = clock
          /\ held' = held /\ retired' = retired /\ open' = open /\ dropped' = dropped
          /\ alive' = alive /\ now' = now /\ set_back' = set_back
      BY <2>1 DEF vars, poolVars
    <3>2. Apart'
      BY <3>1, SameConns DEF ConnInv
    <3>3. P!TypeOK' /\ PoolControl'
      BY <3>1 DEF ConnInv, P!TypeOK, PoolControl
    <3>4. Places' = Places
      BY <3>1 DEF Places, HeldLens, P!Connecting
    <3>5. SizeInv'
      BY <3>1, <3>4 DEF ConnInv, SizeInv
    <3>6. ~set_back' => Sorted' /\ NotAhead'
      BY <3>1 DEF Sorted, InOrder, Fresh, NotAhead
    <3> QED BY <3>2, <3>3, <3>5, <3>6 DEF ConnInv
  <2>2. CASE Next
    <3>1. P!Next /\ ConnInv /\ (~set_back => Sorted /\ NotAhead)
      BY <2>2 DEF Next
    <3>2. ConnInv'
      BY <3>1, ConnStep
    <3>3. ASSUME ~set_back' PROVE Sorted' /\ NotAhead'
      <4>1. ~P!SetBack
        BY <3>3 DEF P!SetBack
      <4>2. set_back' = set_back
        BY <3>1, <4>1 DEF P!Next, P!Get, P!RetireTimeoutIdleConnections, P!Close, P!Reuse, P!Exhausted,
              P!Reserve, P!NewConn, P!NewConnThrows, P!NewConnThrowsOther, P!Put, P!CloseConn,
              P!MoveAssign, P!DestroyPool, P!Tick
      <4>3. Sorted /\ NotAhead
        BY <3>1, <3>3, <4>2
      <4> QED BY <3>1, <4>1, <4>3, ListSame, ListGone, RetireFresh, ReuseFresh, PutFresh DEF P!Next
    <3> QED BY <3>2, <3>3
  <2> QED BY <2>1, <2>2
<1>3. Inv => NoneExpired
  BY SortedFacts DEF NoneExpired
<1> QED BY <1>1, <1>2, <1>3, PTL DEF Spec

-----------------------------------------------------------------------------
(* LStack.  A walk along the nexts is a recursive function, and what it    *)
(* finds is known once there is a line that it can find: the invariant is  *)
(* that there are two, and every step says which lines are the next.       *)

\* The k-th node of a sequence of nodes, and nullptr after the last.
Nth(c, null, k) == IF k \in 1 .. Len(c) THEN c[k] ELSE null

\* Following nx from h gives the nodes of c, in order and each once, and then ends.
Line(c, X, null, h, nx) ==
    /\ c \in Seq(X)
    /\ \A i, j \in 1 .. Len(c) : c[i] = c[j] => i = j
    /\ h = Nth(c, null, 1)
    /\ \A k \in 1 .. Len(c) : nx[c[k]] = Nth(c, null, k + 1)

\* A line has no more nodes than there are.
LEMMA LineLength ==
    ASSUME NEW X, IsFiniteSet(X), NEW c \in Seq(X), \A i, j \in 1 .. Len(c) : c[i] = c[j] => i = j
    PROVE  Len(c) <= Cardinality(X) /\ Len(c) \in Nat /\ Cardinality(X) \in Nat
<1> DEFINE I == 1 .. Len(c)
           V == {c[i] : i \in I}
<1>1. Len(c) \in Nat /\ \A i \in I : c[i] \in X
  OBVIOUS
<1>2. IsFiniteSet(I) /\ Cardinality(I) = Len(c)
  <2>1. \A m \in Nat : IsFiniteSet(1 .. m) /\ Cardinality(1 .. m) = m
    BY FS_Interval
  <2> QED BY <1>1, <2>1
<1>3. c \in Bijection(I, V)
  <2>1. c \in [I -> V]
    BY <1>1
  <2>2. \A i, j \in I : c[i] = c[j] => i = j
    OBVIOUS
  <2>3. \A x \in V : \E i \in I : c[i] = x
    OBVIOUS
  <2> QED BY <2>1, <2>2, <2>3 DEF Bijection, Injection, Surjection, IsInjective
<1>4. Cardinality(V) = Len(c)
  <2>1. ExistsBijection(I, V)
    BY <1>3 DEF ExistsBijection
  <2> QED BY <1>2, <2>1, FS_Bijection
<1>5. V \subseteq X
  BY <1>1
<1> HIDE DEF I, V
<1>6. Cardinality(V) <= Cardinality(X)
  BY <1>5, FS_Subset
<1> QED BY <1>1, <1>4, <1>6, FS_CardinalityType

\* One round of the walk along nx, from the nodes that f has for the round before.
Round(n, null, h, nx, f) ==
    [k \in 1 .. n |-> IF k = 1 THEN h
                      ELSE IF f[k - 1] = null THEN null ELSE nx[f[k - 1]]]

\* The walk along a line is that line, with nullptr as often as nodes are missing.
LEMMA LineIsRound ==
    ASSUME NEW X, NEW null, null \notin X, NEW h, NEW nx, NEW c, Line(c, X, null, h, nx), NEW n \in Nat
    PROVE  LET w == [k \in 1 .. n |-> Nth(c, null, k)] IN w = Round(n, null, h, nx, w)
<1> DEFINE w == [k \in 1 .. n |-> Nth(c, null, k)]
           body(k) == IF k = 1 THEN h ELSE IF w[k - 1] = null THEN null ELSE nx[w[k - 1]]
<1>1. Len(c) \in Nat /\ \A k \in 1 .. Len(c) : c[k] \in X /\ c[k] # null
  BY DEF Line
<1>2. ASSUME NEW k \in 1 .. n PROVE w[k] = body(k)
  <2>1. CASE k = 1
    BY <2>1 DEF Line
  <2>2. CASE k # 1
    <3>1. PICK j \in 1 .. n : k = j + 1
      <4>1. k - 1 \in 1 .. n /\ k = (k - 1) + 1
        BY <2>2
      <4> QED BY <4>1
    <3>2. w[j] = Nth(c, null, j) /\ k - 1 = j
      BY <3>1
    <3>3. CASE j \in 1 .. Len(c)
      <4>1. w[j] = c[j] /\ w[j] # null
        BY <1>1, <3>2, <3>3 DEF Nth
      <4>2. nx[c[j]] = Nth(c, null, k)
        BY <3>1, <3>3 DEF Line
      <4>3. body(k) = nx[c[j]]
        BY <2>2, <3>2, <4>1
      <4> QED BY <4>2, <4>3
    <3>4. CASE j \notin 1 .. Len(c)
      <4>1. w[j] = null
        BY <3>2, <3>4 DEF Nth
      <4>2. k \notin 1 .. Len(c)
        BY <1>1, <3>1, <3>4
      <4>3. Nth(c, null, k) = null
        BY <4>2 DEF Nth
      <4>4. body(k) = null
        BY <2>2, <3>2, <4>1
      <4> QED BY <4>3, <4>4
    <3> QED BY <3>3, <3>4
  <2> QED BY <2>1, <2>2
<1>3. w = [k \in 1 .. n |-> body(k)]
  BY <1>2, Zenon
<1> QED BY <1>3, Zenon DEF Round

\* There is one such walk.
LEMMA RoundUnique ==
    ASSUME NEW n \in Nat, NEW null, NEW h, NEW nx, NEW f, NEW w,
           f = Round(n, null, h, nx, f), w = Round(n, null, h, nx, w)
    PROVE  f = w
<1> DEFINE Bad == {k \in 1 .. n : f[k] # w[k]}
<1>1. ASSUME NEW k \in 1 .. n
      PROVE /\ f[k] = IF k = 1 THEN h ELSE IF f[k - 1] = null THEN null ELSE nx[f[k - 1]]
            /\ w[k] = IF k = 1 THEN h ELSE IF w[k - 1] = null THEN null ELSE nx[w[k - 1]]
  <2>1. Round(n, null, h, nx, f)[k] = IF k = 1 THEN h ELSE IF f[k - 1] = null THEN null ELSE nx[f[k - 1]]
    BY DEF Round
  <2>2. Round(n, null, h, nx, w)[k] = IF k = 1 THEN h ELSE IF w[k - 1] = null THEN null ELSE nx[w[k - 1]]
    BY DEF Round
  <2> QED BY <2>1, <2>2, Zenon
<1>2. SUFFICES ASSUME Bad # {} PROVE FALSE
  <2>1. \A k \in 1 .. n : f[k] = w[k]
    BY <1>2
  <2>2. DOMAIN f = 1 .. n /\ DOMAIN w = 1 .. n
    <3>1. DOMAIN Round(n, null, h, nx, f) = 1 .. n /\ DOMAIN Round(n, null, h, nx, w) = 1 .. n
      BY DEF Round
    <3> QED BY <3>1, Zenon
  <2>3. f = [k \in 1 .. n |-> f[k]] /\ w = [k \in 1 .. n |-> w[k]]
    <3>1. Round(n, null, h, nx, f) = [k \in 1 .. n |-> Round(n, null, h, nx, f)[k]]
      BY Zenon DEF Round
    <3>2. Round(n, null, h, nx, w) = [k \in 1 .. n |-> Round(n, null, h, nx, w)[k]]
      BY Zenon DEF Round
    <3> QED BY <3>1, <3>2, Zenon
  <2> QED BY <2>1, <2>3, Zenon
<1>3. Bad \in SUBSET Nat
  OBVIOUS
<1>4. PICK k \in Bad : \A j \in Bad : k <= j
  BY <1>2, <1>3, LeastOf
<1>5. CASE k = 1
  BY <1>1, <1>4, <1>5
<1>6. CASE k # 1
  <2>1. PICK j \in 1 .. n : j = k - 1
    BY <1>4, <1>6
  <2>2. f[j] = w[j]
    BY <1>4, <2>1
  <2>3. f[k] = w[k]
    BY <1>1, <1>4, <1>6, <2>1, <2>2
  <2> QED BY <1>4, <2>3
<1> QED BY <1>5, <1>6

\* A line stays one if no next of its nodes is written.
LEMMA LineKept ==
    ASSUME NEW X, NEW null, NEW h, NEW nx, NEW ny, NEW c, Line(c, X, null, h, nx),
           \A k \in 1 .. Len(c) : ny[c[k]] = nx[c[k]]
    PROVE  Line(c, X, null, h, ny)
BY DEF Line

\* The rest of a line is one, from what follows its first node, which it has not.
LEMMA LineTail ==
    ASSUME NEW X, NEW null, NEW h, NEW nx, NEW c, Line(c, X, null, h, nx), Len(c) > 0
    PROVE  /\ Line(Tail(c), X, null, nx[h], nx)
           /\ \A k \in 1 .. Len(Tail(c)) : Tail(c)[k] # h
           /\ h = c[1] /\ Len(Tail(c)) = Len(c) - 1
<1>1. PICK d, m : d = Tail(c) /\ m = Len(c)
  OBVIOUS
<1>2. c \in Seq(X) /\ c # <<>> /\ m \in Nat /\ m > 0
  BY <1>1 DEF Line
<1>3. d \in Seq(X) /\ Len(d) = m - 1 /\ \A k \in 1 .. Len(d) : d[k] = c[k + 1]
  BY <1>1, <1>2
<1>4. \A i, j \in 1 .. m : c[i] = c[j] => i = j
  BY <1>1 DEF Line
<1>5. h = c[1]
  BY <1>1, <1>2 DEF Line, Nth
<1>6. ASSUME NEW k \in 1 .. Len(d)
      PROVE \E j \in 1 .. m : j = k + 1 /\ d[k] = c[j] /\ j # 1
  <2>1. k + 1 \in 1 .. m /\ k + 1 # 1
    BY <1>2, <1>3
  <2> QED BY <1>3, <2>1
<1>7. \A k \in 1 .. Len(d) : d[k] # h
  <2> SUFFICES ASSUME NEW k \in 1 .. Len(d) PROVE d[k] # h
    OBVIOUS
  <2>1. PICK j \in 1 .. m : j = k + 1 /\ d[k] = c[j] /\ j # 1
    BY <1>6
  <2>2. 1 \in 1 .. m
    BY <1>2
  <2> QED BY <1>4, <1>5, <2>1, <2>2
<1>8. \A i, j \in 1 .. Len(d) : d[i] = d[j] => i = j
  <2> SUFFICES ASSUME NEW i \in 1 .. Len(d), NEW j \in 1 .. Len(d), d[i] = d[j] PROVE i = j
    OBVIOUS
  <2>1. PICK a \in 1 .. m : a = i + 1 /\ d[i] = c[a]
    BY <1>6
  <2>2. PICK b \in 1 .. m : b = j + 1 /\ d[j] = c[b]
    BY <1>6
  <2>3. a = b
    BY <1>4, <2>1, <2>2
  <2> QED BY <1>2, <1>3, <2>1, <2>2, <2>3
<1>9. \A k \in 1 .. m : Nth(c, null, k + 1) = Nth(d, null, k)
  <2> SUFFICES ASSUME NEW k \in 1 .. m PROVE Nth(c, null, k + 1) = Nth(d, null, k)
    OBVIOUS
  <2>1. CASE k \in 1 .. Len(d)
    <3>1. k + 1 \in 1 .. m
      BY <1>2, <1>3, <2>1
    <3> QED BY <1>1, <1>3, <2>1, <3>1 DEF Nth
  <2>2. CASE k \notin 1 .. Len(d)
    <3>1. k + 1 \notin 1 .. m
      BY <1>2, <1>3, <2>2
    <3> QED BY <1>1, <2>2, <3>1 DEF Nth
  <2> QED BY <2>1, <2>2
<1>10. nx[h] = Nth(d, null, 1)
  <2>1. nx[c[1]] = Nth(c, null, 1 + 1) /\ 1 \in 1 .. m
    BY <1>1, <1>2 DEF Line
  <2>2. Nth(c, null, 1 + 1) = Nth(d, null, 1)
    BY <1>9, <2>1
  <2> QED BY <1>5, <2>1, <2>2
<1>11. ASSUME NEW k \in 1 .. Len(d) PROVE nx[d[k]] = Nth(d, null, k + 1)
  <2>1. PICK j \in 1 .. m : j = k + 1 /\ d[k] = c[j]
    BY <1>6
  <2>2. nx[c[j]] = Nth(c, null, j + 1)
    BY <1>1, <2>1 DEF Line
  <2>3. Nth(c, null, j + 1) = Nth(d, null, j)
    BY <1>9, <2>1
  <2> QED BY <2>1, <2>2, <2>3
<1>12. Line(d, X, null, nx[h], nx)
  BY <1>3, <1>8, <1>10, <1>11 DEF Line
<1> QED BY <1>1, <1>3, <1>5, <1>7, <1>12

\* A node that is linked to the first of a line is its new head.
LEMMA LineCons ==
    ASSUME NEW X, NEW null, NEW h, NEW nx, NEW c, Line(c, X, null, h, nx),
           NEW x \in X, \A k \in 1 .. Len(c) : c[k] # x, nx[x] = h
    PROVE  /\ Line(<<x>> \o c, X, null, x, nx)
           /\ Len(<<x>> \o c) = Len(c) + 1 /\ Len(c) \in Nat
           /\ (<<x>> \o c)[1] = x
           /\ \A k \in 1 .. Len(c) : (<<x>> \o c)[k + 1] = c[k]
<1>1. PICK d, m : d = <<x>> \o c /\ m = Len(c)
  OBVIOUS
<1>2. c \in Seq(X) /\ m \in Nat /\ d \in Seq(X) /\ Len(d) = m + 1 /\ d[1] = x
  BY <1>1 DEF Line
<1>3. \A k \in 1 .. m : d[k + 1] = c[k]
  BY <1>1, <1>2
<1>4. ASSUME NEW k \in 1 .. Len(d), k # 1 PROVE \E j \in 1 .. m : k = j + 1 /\ d[k] = c[j]
  <2>1. k - 1 \in 1 .. m /\ k = (k - 1) + 1
    BY <1>2, <1>4
  <2>2. PICK j \in 1 .. m : k = j + 1
    BY <2>1
  <2> QED BY <1>3, <2>2
<1>5. \A k \in 1 .. Len(d) : Nth(d, null, k + 1) = Nth(c, null, k)
  <2> SUFFICES ASSUME NEW k \in 1 .. Len(d) PROVE Nth(d, null, k + 1) = Nth(c, null, k)
    OBVIOUS
  <2>1. k \in 1 .. m <=> k + 1 \in 1 .. Len(d)
    BY <1>2
  <2>2. k \in 1 .. m => d[k + 1] = c[k]
    BY <1>3
  <2> QED BY <1>1, <2>1, <2>2 DEF Nth
<1>6. \A i, j \in 1 .. Len(d) : d[i] = d[j] => i = j
  <2>1. \A i, j \in 1 .. m : c[i] = c[j] => i = j
    BY <1>1 DEF Line
  <2>2. \A k \in 1 .. m : c[k] # x
    BY <1>1
  <2> SUFFICES ASSUME NEW i \in 1 .. Len(d), NEW j \in 1 .. Len(d), d[i] = d[j] PROVE i = j
    OBVIOUS
  <2>3. CASE i # 1 /\ j # 1
    BY <1>4, <2>1, <2>3
  <2>4. CASE i = 1 /\ j # 1
    BY <1>2, <1>4, <2>2, <2>4
  <2>5. CASE i # 1 /\ j = 1
    BY <1>2, <1>4, <2>2, <2>5
  <2> QED BY <2>3, <2>4, <2>5
<1>7. x = Nth(d, null, 1)
  BY <1>2 DEF Nth
<1>8. ASSUME NEW k \in 1 .. Len(d) PROVE nx[d[k]] = Nth(d, null, k + 1)
  <2>1. CASE k = 1
    <3>1. h = Nth(c, null, 1) /\ nx[d[k]] = h
      BY <1>2, <2>1 DEF Line
    <3> QED BY <1>5, <2>1, <3>1
  <2>2. CASE k # 1
    <3>1. PICK j \in 1 .. m : k = j + 1 /\ d[k] = c[j]
      BY <1>4, <2>2
    <3>2. nx[c[j]] = Nth(c, null, k)
      BY <1>1, <3>1 DEF Line
    <3> QED BY <1>5, <3>1, <3>2
  <2> QED BY <2>1, <2>2
<1>9. Line(d, X, null, x, nx)
  BY <1>2, <1>6, <1>7, <1>8 DEF Line
<1> QED BY <1>1, <1>2, <1>3, <1>9

\* What a walk along nx finds is the line.
LEMMA WalkIsLine ==
    ASSUME S!StackAssumption, NEW h, NEW nx, NEW c, Line(c, S!Nodes, S!nullptr, h, nx)
    PROVE  S!Walk(h, nx) = c /\ Len(c) <= maxsize
<1> DEFINE n == maxsize + 1
           f == CHOOSE f : f = Round(n, S!nullptr, h, nx, f)
           w == [k \in 1 .. n |-> Nth(c, S!nullptr, k)]
<1>1. n \in Nat /\ Len(c) \in Nat /\ Len(c) <= maxsize /\ Len(c) <= n
  <2>1. \A m \in Nat : IsFiniteSet(1 .. m) /\ Cardinality(1 .. m) = m
    BY FS_Interval
  <2>2. maxsize \in Nat /\ IsFiniteSet(S!Nodes) /\ Cardinality(S!Nodes) = maxsize
    BY <2>1 DEF S!StackAssumption, S!Nodes
  <2>3. Len(c) \in Nat /\ Len(c) <= maxsize
    BY <2>2, LineLength DEF Line
  <2> QED BY <2>2, <2>3
<1>2. S!Walk(h, nx) = S!Restrict(f, {k \in DOMAIN f : f[k] # S!nullptr})
  BY DEF S!Walk, Round
<1> HIDE DEF n
<1>3. w = Round(n, S!nullptr, h, nx, w)
  <2>1. S!nullptr \notin S!Nodes
    BY DEF S!nullptr, S!Nodes
  <2> QED BY <1>1, <2>1, LineIsRound
<1>4. f = Round(n, S!nullptr, h, nx, f)
  BY <1>3, Zenon
<1> HIDE DEF f
<1>5. f = w
  BY <1>1, <1>3, <1>4, RoundUnique
<1>6. {k \in DOMAIN f : f[k] # S!nullptr} = 1 .. Len(c)
  <2>1. \A k \in 1 .. Len(c) : c[k] # S!nullptr
    <3>1. \A k \in 1 .. Len(c) : c[k] \in S!Nodes
      BY DEF Line
    <3> QED BY <3>1 DEF S!nullptr, S!Nodes
  <2>2. DOMAIN f = 1 .. n /\ \A k \in 1 .. n : f[k] = Nth(c, S!nullptr, k)
    BY <1>5
  <2>3. ASSUME NEW k \in 1 .. n PROVE f[k] # S!nullptr <=> k \in 1 .. Len(c)
    BY <2>1, <2>2 DEF Nth
  <2> QED BY <1>1, <2>2, <2>3
<1>7. S!Restrict(f, 1 .. Len(c)) = [k \in 1 .. Len(c) |-> f[k]]
  BY DEF S!Restrict
<1>8. \A k \in 1 .. Len(c) : f[k] = c[k]
  BY <1>1, <1>5 DEF Nth
<1>9. [k \in 1 .. Len(c) |-> f[k]] = [k \in 1 .. Len(c) |-> c[k]]
  BY <1>8, Zenon
<1>10. [k \in 1 .. Len(c) |-> c[k]] = c
  BY DEF Line
<1> QED BY <1>1, <1>2, <1>6, <1>7, <1>9, <1>10
-----------------------------------------------------------------------------

\* The nodes of a line.
SetOf(c) == {c[k] : k \in 1 .. Len(c)}

\* Every node is in one of two sets or with one of the threads in H.
InOnePlace(X, Y, H, nn) ==
    /\ X \cap Y = {}
    /\ \A t \in H : nn[t] \in S!Nodes /\ nn[t] \notin X /\ nn[t] \notin Y
    /\ \A t, u \in H : nn[t] = nn[u] => t = u
    /\ \A n \in S!Nodes : n \in X \/ n \in Y \/ \E t \in H : nn[t] = n

\* A head has not changed since it was loaded if its tag has not.
Seen(t, l) ==
    /\ old_head[t].aba_tag <= top[l].aba_tag
    /\ old_head[t].aba_tag = top[l].aba_tag => old_head[t] = top[l]

\* What a thread knows of the heads it has loaded: if the exchange is going to
\* succeed, what it read of the next of a node that others may have had since is
\* still so.
Knows(t) ==
    /\ pc[t] \in {"next", "take"} => Seen(t, S!Source(t))
    /\ pc[t] = "take" =>
          /\ old_head[t].node # S!nullptr
          /\ old_head[t] = top[S!Source(t)] => new_node[t] = next[old_head[t].node]
    /\ pc[t] \in {"link", "put"} => Seen(t, S!Target(t))
    /\ pc[t] = "put" => next[new_node[t]] = old_head[t].node

\* Threads that have changed the stack and not yet size_.
ToCount(j) == {t \in Threads : pc[t] = "count" /\ job[t] = j}

\* The stack is the line a and the free list the line b.
StackAt(a, b) ==
    /\ Line(a, S!Nodes, S!nullptr, top["head_"].node, next)
    /\ Line(b, S!Nodes, S!nullptr, top["free_"].node, next)
    /\ InOnePlace(SetOf(a), SetOf(b), S!Holding, new_node)
    /\ size_ = (Len(a) - Cardinality(ToCount("Push")) + Cardinality(ToCount("Pop"))) % MaxSize

\* There are two lines that are the lists.
StackInv ==
    /\ S!TypeOK
    /\ \A t \in Threads : Knows(t)
    /\ \E a, b \in Seq(S!Nodes) : StackAt(a, b)

\* The two lists are what is found from their heads.
LEMMA StackChains ==
    ASSUME S!StackAssumption, NEW a \in Seq(S!Nodes), NEW b \in Seq(S!Nodes), StackAt(a, b)
    PROVE  S!Chain("head_") = a /\ S!Chain("free_") = b /\ Len(a) <= maxsize /\ Len(b) <= maxsize
<1>1. Line(a, S!Nodes, S!nullptr, top["head_"].node, next) /\ Line(b, S!Nodes, S!nullptr, top["free_"].node, next)
  BY DEF StackAt
<1> QED BY <1>1, WalkIsLine DEF S!Chain

\* A node of a line is at one place of it, and any other at none.
LEMMA LineTimes ==
    ASSUME NEW X, NEW null, NEW h, NEW nx, NEW c, Line(c, X, null, h, nx), NEW n
    PROVE  Cardinality({k \in 1 .. Len(c) : c[k] = n}) = IF n \in SetOf(c) THEN 1 ELSE 0
<1> DEFINE At == {k \in 1 .. Len(c) : c[k] = n}
<1>1. CASE n \in SetOf(c)
  <2>1. PICK k \in 1 .. Len(c) : c[k] = n
    BY <1>1 DEF SetOf
  <2>2. At = {k}
    BY <2>1 DEF Line
  <2> QED BY <1>1, <2>2, FS_Singleton
<1>2. CASE n \notin SetOf(c)
  <2>1. At = {}
    BY <1>2 DEF SetOf
  <2> QED BY <1>2, <2>1, FS_EmptySet
<1> QED BY <1>1, <1>2

\* What the invariant says of the lists and of the count.
LEMMA StackHolds ==
    ASSUME S!StackAssumption, StackInv
    PROVE  S!NodesAccounted /\ S!SizeSettles
<1>1. PICK a, b \in Seq(S!Nodes) : StackAt(a, b)
  BY DEF StackInv
<1>2. S!Chain("head_") = a /\ S!Chain("free_") = b /\ Len(a) <= maxsize /\ Len(b) <= maxsize
  BY <1>1, StackChains
<1>3. S!SizeSettles
  <2>1. /\ S!Cardinality(ToCount("Push")) = Cardinality(ToCount("Push"))
        /\ S!Cardinality(ToCount("Pop")) = Cardinality(ToCount("Pop"))
    BY SameCount
  <2>2. size_ = (Len(a) - S!Cardinality(ToCount("Push")) + S!Cardinality(ToCount("Pop"))) % MaxSize
    BY <1>1, <2>1 DEF StackAt
  <2> QED BY <1>2, <2>2 DEF S!SizeSettles, ToCount
<1>4. ASSUME NEW n \in S!Nodes
      PROVE Cardinality({k \in 1 .. Len(a) : a[k] = n}) + Cardinality({k \in 1 .. Len(b) : b[k] = n})
            + Cardinality({t \in S!Holding : new_node[t] = n}) = 1
  <2>1. InOnePlace(SetOf(a), SetOf(b), S!Holding, new_node)
    BY <1>1 DEF StackAt
  <2>2. Cardinality({k \in 1 .. Len(a) : a[k] = n}) = IF n \in SetOf(a) THEN 1 ELSE 0
    BY <1>1, LineTimes DEF StackAt
  <2>3. Cardinality({k \in 1 .. Len(b) : b[k] = n}) = IF n \in SetOf(b) THEN 1 ELSE 0
    BY <1>1, LineTimes DEF StackAt
  <2>4. n \in SetOf(a) \/ n \in SetOf(b) => {t \in S!Holding : new_node[t] = n} = {}
    BY <2>1 DEF InOnePlace
  <2>5. ASSUME n \notin SetOf(a), n \notin SetOf(b)
        PROVE  \E t : {u \in S!Holding : new_node[u] = n} = {t}
    <3>1. PICK t \in S!Holding : new_node[t] = n
      BY <2>1, <2>5 DEF InOnePlace
    <3>2. \A u \in S!Holding : new_node[u] = n => u = t
      BY <2>1, <3>1 DEF InOnePlace
    <3>3. {u \in S!Holding : new_node[u] = n} = {t}
      BY <3>1, <3>2
    <3> QED BY <3>3
  <2>6. n \in SetOf(a) \/ n \in SetOf(b) => Cardinality({t \in S!Holding : new_node[t] = n}) = 0
    BY <2>4, FS_EmptySet
  <2>7. n \notin SetOf(a) /\ n \notin SetOf(b) => Cardinality({t \in S!Holding : new_node[t] = n}) = 1
    BY <2>5, FS_Singleton
  <2>8. ~(n \in SetOf(a) /\ n \in SetOf(b))
    BY <2>1 DEF InOnePlace
  <2> QED BY <2>2, <2>3, <2>6, <2>7, <2>8
<1>5. ASSUME NEW n \in S!Nodes
      PROVE S!Cardinality({k \in 1 .. Len(a) : a[k] = n}) + S!Cardinality({k \in 1 .. Len(b) : b[k] = n})
            + S!Cardinality({t \in S!Holding : new_node[t] = n}) = 1
  <2>1. /\ S!Cardinality({k \in 1 .. Len(a) : a[k] = n}) = Cardinality({k \in 1 .. Len(a) : a[k] = n})
        /\ S!Cardinality({k \in 1 .. Len(b) : b[k] = n}) = Cardinality({k \in 1 .. Len(b) : b[k] = n})
        /\ S!Cardinality({t \in S!Holding : new_node[t] = n}) = Cardinality({t \in S!Holding : new_node[t] = n})
    BY SameCount
  <2> QED BY <1>4, <2>1
<1>6. S!NodesAccounted
  BY <1>2, <1>5 DEF S!NodesAccounted, StackInv
<1> QED BY <1>3, <1>6

\* The remainder of a division is what is left below the divisor.
LEMMA Remainder ==
    ASSUME NEW m \in Nat \ {0}, NEW q \in Int, NEW r \in 0 .. m - 1, NEW y \in Int, y = q * m + r
    PROVE  y % m = r
<1> DEFINE p == y \div m
           z == y % m
<1>1. p \in Int /\ z \in 0 .. m - 1 /\ y = p * m + z
  OBVIOUS
<1> HIDE DEF p, z
<1>2. p * m \in Int /\ q * m \in Int /\ \A i, j \in Int : i <= j => i * m <= j * m
  BY <1>1, Products
<1>3. CASE p < q
  <2>1. (p + 1) * m <= q * m
    BY <1>1, <1>2, <1>3
  <2>2. (p + 1) * m = p * m + m
    BY <1>1
  <2> QED BY <1>1, <1>2, <2>1, <2>2
<1>4. CASE q < p
  <2>1. (q + 1) * m <= p * m
    BY <1>1, <1>2, <1>4
  <2>2. (q + 1) * m = q * m + m
    OBVIOUS
  <2> QED BY <1>1, <1>2, <2>1, <2>2
<1>5. CASE p = q
  BY <1>1, <1>2, <1>5 DEF z
<1> QED BY <1>1, <1>3, <1>4, <1>5

\* Counting on from a remainder.
LEMMA CountOn ==
    ASSUME NEW x \in Int, NEW m \in Nat \ {0}
    PROVE  /\ ((x % m) + 1) % m = (x + 1) % m
           /\ ((x % m) - 1) % m = (x - 1) % m
           /\ x % m \in 0 .. m - 1
<1> DEFINE q == x \div m
           r == x % m
<1>1. q \in Int /\ r \in 0 .. m - 1 /\ x = q * m + r
  OBVIOUS
<1> HIDE DEF q, r
<1>2. (q + 1) * m = q * m + m /\ (q - 1) * m = q * m - m /\ q * m \in Int
  BY <1>1, Products
<1>3. 1 * m = m /\ (-1) * m = -m /\ 0 * m = 0
  OBVIOUS
<1>4. (r + 1) % m = (x + 1) % m
  <2>1. CASE r + 1 < m
    <3>1. (r + 1) % m = r + 1
      BY <1>1, <1>3, <2>1, Remainder
    <3>2. (x + 1) % m = r + 1
      BY <1>1, <1>2, <2>1, Remainder
    <3> QED BY <3>1, <3>2
  <2>2. CASE r + 1 = m
    <3>1. (r + 1) % m = 0
      BY <1>1, <1>3, <2>2, Remainder
    <3>2. x + 1 = (q + 1) * m + 0 /\ q + 1 \in Int /\ x + 1 \in Int /\ 0 \in 0 .. m - 1
      BY <1>1, <1>2, <2>2
    <3>3. (x + 1) % m = 0
      BY <3>2, Remainder
    <3> QED BY <3>1, <3>3
  <2> QED BY <1>1, <2>1, <2>2
<1>5. (r - 1) % m = (x - 1) % m
  <2>1. CASE r > 0
    <3>1. (r - 1) % m = r - 1
      BY <1>1, <1>3, <2>1, Remainder
    <3>2. (x - 1) % m = r - 1
      BY <1>1, <1>2, <2>1, Remainder
    <3> QED BY <3>1, <3>2
  <2>2. CASE r = 0
    <3>1. r - 1 = (-1) * m + (m - 1) /\ m - 1 \in 0 .. m - 1 /\ r - 1 \in Int /\ -1 \in Int
      BY <1>3, <2>2
    <3>2. (r - 1) % m = m - 1
      BY <3>1, Remainder
    <3>3. PICK p \in Int, z \in 0 .. m - 1, y \in Int : p = q - 1 /\ z = m - 1 /\ y = x - 1
      BY <1>1
    <3>4. y = p * m + z
      BY <1>1, <1>2, <2>2, <3>3
    <3>5. y % m = z
      BY <3>4, Remainder
    <3>6. (x - 1) % m = m - 1
      BY <3>3, <3>5
    <3> QED BY <3>2, <3>6
  <2> QED BY <1>1, <2>1, <2>2
<1> QED BY <1>1, <1>4, <1>5 DEF r

-----------------------------------------------------------------------------

\* The stack and the free list.
Lists == {"head_", "free_"}

\* The stack begins empty, and all nodes are free.
LEMMA StackInit ==
    ASSUME S!StackAssumption, S!Init
    PROVE  StackInv
<1>1. maxsize \in Nat /\ maxsize > 0 /\ MaxSize \in Nat /\ MaxSize > 0
  BY DEF S!StackAssumption
<1>2. /\ top["head_"] = [aba_tag |-> 0, node |-> S!nullptr]
      /\ top["free_"] = [aba_tag |-> 0, node |-> 1]
      /\ top = [l \in Lists |-> [aba_tag |-> 0, node |-> IF l = "free_" THEN 1 ELSE S!nullptr]]
  BY DEF S!Init, Lists
<1>3. 1 \in S!Nodes
  BY <1>1 DEF S!Nodes
<1>4. top \in [Lists -> S!Heads]
  BY <1>2, <1>3 DEF S!Heads
<1>5. next \in [S!Nodes -> S!Nodes \cup {S!nullptr}]
  BY <1>1 DEF S!Init, S!Nodes, S!nullptr
<1>6. S!TypeOK
  <2>1. top["head_"] \in S!Heads
    BY <1>4 DEF Lists
  <2> QED BY <1>1, <1>4, <1>5, <2>1 DEF S!Init, S!TypeOK, Lists
<1>7. \A t \in Threads : pc[t] = "idle" /\ old_head[t] = top["head_"]
  BY DEF S!Init
<1>8. \A t \in Threads : Knows(t)
  BY <1>4, <1>7 DEF Knows, Lists, S!Heads
<1>9. PICK a, b : a = <<>> /\ b = [k \in S!Nodes |-> k]
  OBVIOUS
<1>10. a \in Seq(S!Nodes) /\ Len(a) = 0
  BY <1>9
<1>11. b \in Seq(S!Nodes) /\ Len(b) = maxsize /\ \A k \in 1 .. maxsize : b[k] = k
  BY <1>1, <1>9 DEF S!Nodes
<1>12. Line(a, S!Nodes, S!nullptr, top["head_"].node, next)
  BY <1>2, <1>10 DEF Line, Nth
<1>13. Line(b, S!Nodes, S!nullptr, top["free_"].node, next)
  <2>1. top["free_"].node = Nth(b, S!nullptr, 1)
    BY <1>1, <1>2, <1>11 DEF Nth
  <2>2. ASSUME NEW k \in 1 .. Len(b) PROVE next[b[k]] = Nth(b, S!nullptr, k + 1)
    <3>1. next[k] = IF k = maxsize THEN S!nullptr ELSE k + 1
      BY <1>11 DEF S!Init, S!Nodes
    <3>2. k + 1 \in 1 .. Len(b) <=> k # maxsize
      BY <1>1, <1>11
    <3> QED BY <1>11, <3>1, <3>2 DEF Nth
  <2> QED BY <1>11, <2>1, <2>2 DEF Line
<1>14. S!Holding = {} /\ ToCount("Push") = {} /\ ToCount("Pop") = {}
  BY <1>7 DEF S!Holding, ToCount
<1>15. SetOf(a) = {} /\ SetOf(b) = S!Nodes
  BY <1>10, <1>11 DEF SetOf, S!Nodes
<1>16. InOnePlace(SetOf(a), SetOf(b), S!Holding, new_node)
  BY <1>14, <1>15 DEF InOnePlace
<1>17. size_ = (Len(a) - Cardinality(ToCount("Push")) + Cardinality(ToCount("Pop"))) % MaxSize
  <2>1. Cardinality(ToCount("Push")) = 0 /\ Cardinality(ToCount("Pop")) = 0
    BY <1>14, FS_EmptySet
  <2>2. 0 % MaxSize = 0
    BY <1>1
  <2> QED BY <1>10, <2>1, <2>2 DEF S!Init
<1>18. StackAt(a, b)
  BY <1>12, <1>13, <1>16, <1>17 DEF StackAt
<1> QED BY <1>6, <1>8, <1>10, <1>11, <1>18 DEF StackInv

\* The lists see nothing of a step that leaves their nodes with those that have them.
LEMMA StackQuiet ==
    ASSUME NEW a \in Seq(S!Nodes), NEW b \in Seq(S!Nodes), StackAt(a, b),
           top' = top, size_' = size_, S!Holding' = S!Holding,
           \A n \in SetOf(a) \cup SetOf(b) : next'[n] = next[n],
           \A u \in S!Holding : new_node'[u] = new_node[u],
           ToCount("Push")' = ToCount("Push"), ToCount("Pop")' = ToCount("Pop")
    PROVE  StackAt(a, b)'
<1>1. Line(a, S!Nodes, S!nullptr, top["head_"].node, next')
  <2>1. \A k \in 1 .. Len(a) : next'[a[k]] = next[a[k]]
    BY DEF SetOf
  <2> QED BY <2>1, LineKept DEF StackAt
<1>2. Line(b, S!Nodes, S!nullptr, top["free_"].node, next')
  <2>1. \A k \in 1 .. Len(b) : next'[b[k]] = next[b[k]]
    BY DEF SetOf
  <2> QED BY <2>1, LineKept DEF StackAt
<1>3. InOnePlace(SetOf(a), SetOf(b), S!Holding', new_node')
  BY DEF StackAt, InOnePlace
<1> QED BY <1>1, <1>2, <1>3 DEF StackAt

\* What a thread knows stays true if only others move: whoever changes a head changes its
\* tag, and whoever links a node has it.
LEMMA KnowsOn ==
    ASSUME S!TypeOK, NEW u \in Threads, Knows(u),
           pc'[u] = pc[u], job'[u] = job[u], old_head'[u] = old_head[u],
           new_node'[u] = new_node[u],
           top' \in [Lists -> S!Heads],
           \A l \in Lists : top'[l] = top[l] \/ top'[l].aba_tag > top[l].aba_tag,
           \A l \in Lists : top[l].node # S!nullptr => next'[top[l].node] = next[top[l].node],
           pc[u] = "put" => next'[new_node[u]] = next[new_node[u]]
    PROVE  Knows(u)'
<1>1. S!Source(u) \in Lists /\ S!Target(u) \in Lists /\ S!Source(u)' = S!Source(u) /\ S!Target(u)' = S!Target(u)
  BY DEF S!Source, S!Target, Lists
<1>2. old_head[u].aba_tag \in Nat /\ \A l \in Lists : top[l].aba_tag \in Nat /\ top'[l].aba_tag \in Nat
  BY DEF S!TypeOK, Knows, Lists, S!Heads
<1>3. ASSUME NEW l \in Lists, Seen(u, l)
      PROVE Seen(u, l)' /\ (old_head[u] = top'[l] => old_head[u] = top[l])
  <2>1. CASE top'[l] = top[l]
    BY <1>3, <2>1 DEF Seen
  <2>2. CASE top'[l].aba_tag > top[l].aba_tag
    <3>1. old_head[u].aba_tag < top'[l].aba_tag
      BY <1>2, <1>3, <2>2 DEF Seen
    <3>2. old_head[u].aba_tag # top'[l].aba_tag /\ old_head[u].aba_tag <= top'[l].aba_tag
      BY <1>2, <3>1
    <3>3. old_head[u] # top'[l]
      BY <3>2
    <3> QED BY <3>2, <3>3 DEF Seen
  <2> QED BY <1>3, <2>1, <2>2
<1>5. pc[u] \in {"next", "take"} => Seen(u, S!Source(u))'
  BY <1>1, <1>3 DEF Knows
<1>6. pc[u] \in {"link", "put"} => Seen(u, S!Target(u))'
  BY <1>1, <1>3 DEF Knows
<1>7. ASSUME pc[u] = "take", old_head[u] = top'[S!Source(u)]
      PROVE new_node[u] = next'[old_head[u].node]
  <2>1. old_head[u] = top[S!Source(u)]
    BY <1>1, <1>3, <1>7 DEF Knows
  <2>2. old_head[u].node # S!nullptr /\ new_node[u] = next[old_head[u].node]
    BY <1>7, <2>1 DEF Knows
  <2> QED BY <1>1, <2>1, <2>2
<1>8. pc[u] = "take" => old_head[u].node # S!nullptr
  BY DEF Knows
<1>9. pc[u] = "put" => next'[new_node[u]] = old_head[u].node
  BY DEF Knows
<1> QED BY <1>1, <1>5, <1>6, <1>7, <1>8, <1>9 DEF Knows

\* What a step of thread t leaves alone, and what it is in.
LEMMA StackOthers ==
    ASSUME S!TypeOK, NEW t \in Threads, NEW from, NEW to, S!Goto(t, from, to)
    PROVE  /\ pc[t] = from /\ pc'[t] = to
           /\ \A u \in Threads : u # t => pc'[u] = pc[u]
           /\ to \in {"idle", "next", "take", "load", "link", "put", "count"} =>
                 pc' \in [Threads -> {"idle", "next", "take", "load", "link", "put", "count"}]
BY DEF S!TypeOK, S!Goto

\* The node of a head is one of its list.
LEMMA TopIn ==
    ASSUME NEW X, NEW null, NEW h, NEW nx, NEW c, Line(c, X, null, h, nx), h # null
    PROVE  Len(c) \in Nat /\ Len(c) > 0 /\ h = c[1] /\ h \in SetOf(c)
<1>1. Len(c) \in Nat
  BY DEF Line
<1>2. 1 \in 1 .. Len(c) /\ h = c[1]
  BY DEF Line, Nth
<1> QED BY <1>1, <1>2 DEF SetOf

\* Push and Pop begin: the lists see nothing of it.
LEMMA StackCall ==
    ASSUME S!StackAssumption, StackInv, NEW a \in Seq(S!Nodes), NEW b \in Seq(S!Nodes), StackAt(a, b),
           NEW t \in Threads, NEW j \in {"Push", "Pop"}, S!Call(t, j)
    PROVE  S!TypeOK' /\ (\A u \in Threads : Knows(u)') /\ StackAt(a, b)'
<1>1. S!TypeOK /\ \A u \in Threads : Knows(u)
  BY DEF StackInv
<1>2. /\ pc[t] = "idle" /\ pc'[t] = "next" /\ \A u \in Threads : u # t => pc'[u] = pc[u]
      /\ pc' \in [Threads -> {"idle", "next", "take", "load", "link", "put", "count"}]
  BY <1>1, StackOthers DEF S!Call
<1>3. /\ UNCHANGED <<top, next, size_, new_node>>
      /\ job' \in [Threads -> {"Push", "Pop"}]
      /\ job'[t] = j /\ \A u \in Threads : u # t => job'[u] = job[u]
  BY <1>1 DEF S!Call, S!TypeOK
<1>4. PICK s \in Lists : s = S!Source(t)'
  BY DEF S!Source, Lists
<1>5. top \in [Lists -> S!Heads] /\ old_head \in [Threads -> S!Heads]
  BY <1>1 DEF S!TypeOK, Lists
<1>6. /\ old_head' \in [Threads -> S!Heads]
      /\ old_head'[t] = top[s] /\ \A u \in Threads : u # t => old_head'[u] = old_head[u]
  <2>1. s = (IF j = "Push" THEN "free_" ELSE "head_")
    BY <1>3, <1>4 DEF S!Source
  <2> QED BY <1>5, <1>4, <2>1 DEF S!Call
<1>7. S!TypeOK'
  BY <1>1, <1>2, <1>3, <1>6 DEF S!TypeOK
<1>8. S!Holding' = S!Holding
  BY <1>2, <1>3 DEF S!Holding
<1>9. ToCount("Push")' = ToCount("Push") /\ ToCount("Pop")' = ToCount("Pop")
  BY <1>2, <1>3 DEF ToCount
<1>10. StackAt(a, b)'
  BY <1>3, <1>8, <1>9, StackQuiet
<1>11. Knows(t)'
  <2>1. top[s].aba_tag \in Nat
    BY <1>5 DEF S!Heads
  <2>2. Seen(t, s)'
    BY <1>3, <1>6, <2>1 DEF Seen
  <2> QED BY <1>2, <1>4, <2>2 DEF Knows
<1>12. ASSUME NEW u \in Threads, u # t PROVE Knows(u)'
  BY <1>1, <1>2, <1>3, <1>5, <1>6, <1>12, KnowsOn
<1> QED BY <1>7, <1>10, <1>11, <1>12

\* A thread that loads a head, for the first time or as its exchange failed.
LEMMA StackReload ==
    ASSUME S!StackAssumption, StackInv, NEW a \in Seq(S!Nodes), NEW b \in Seq(S!Nodes), StackAt(a, b),
           NEW t \in Threads, NEW from, NEW to, NEW l, S!Goto(t, from, to),
           old_head' = [old_head EXCEPT ![t] = top[l]],
           UNCHANGED <<top, next, size_, job, new_node>>,
           \/ from = "take" /\ to = "next" /\ l = S!Source(t)
           \/ from \in {"load", "put"} /\ to = "link" /\ l = S!Target(t)
    PROVE  S!TypeOK' /\ (\A u \in Threads : Knows(u)') /\ StackAt(a, b)'
<1>1. S!TypeOK /\ \A u \in Threads : Knows(u)
  BY DEF StackInv
<1>2. /\ pc[t] = from /\ pc'[t] = to /\ \A u \in Threads : u # t => pc'[u] = pc[u]
      /\ pc' \in [Threads -> {"idle", "next", "take", "load", "link", "put", "count"}]
  BY <1>1, StackOthers
<1>3. l \in Lists
  BY DEF S!Source, S!Target, Lists
<1>4. top \in [Lists -> S!Heads] /\ old_head \in [Threads -> S!Heads]
  BY <1>1 DEF S!TypeOK, Lists
<1>5. /\ old_head' \in [Threads -> S!Heads]
      /\ old_head'[t] = top[l] /\ \A u \in Threads : u # t => old_head'[u] = old_head[u]
  BY <1>3, <1>4
<1>6. S!TypeOK'
  BY <1>1, <1>2, <1>5 DEF S!TypeOK
<1>7. S!Holding' = S!Holding
  BY <1>2 DEF S!Holding
<1>8. ToCount("Push")' = ToCount("Push") /\ ToCount("Pop")' = ToCount("Pop")
  BY <1>2 DEF ToCount
<1>9. StackAt(a, b)'
  BY <1>7, <1>8, StackQuiet
<1>10. Knows(t)'
  <2>1. top[l].aba_tag \in Nat
    BY <1>3, <1>4 DEF S!Heads
  <2>2. Seen(t, l)'
    BY <1>5, <2>1 DEF Seen
  <2>3. S!Source(t)' = S!Source(t) /\ S!Target(t)' = S!Target(t)
    BY DEF S!Source, S!Target
  <2> QED BY <1>2, <2>2, <2>3 DEF Knows
<1>11. ASSUME NEW u \in Threads, u # t PROVE Knows(u)'
  BY <1>1, <1>2, <1>4, <1>5, <1>11, KnowsOn
<1> QED BY <1>6, <1>9, <1>10, <1>11

\* PopHead reads the next of a node that it may have no right to.
LEMMA StackReadNext ==
    ASSUME S!StackAssumption, StackInv, NEW a \in Seq(S!Nodes), NEW b \in Seq(S!Nodes), StackAt(a, b),
           NEW t \in Threads, S!ReadNext(t)
    PROVE  S!TypeOK' /\ (\A u \in Threads : Knows(u)') /\ StackAt(a, b)'
<1>1. S!TypeOK /\ \A u \in Threads : Knows(u)
  BY DEF StackInv
<1>2. PICK to \in {"idle", "take"} :
         /\ S!Goto(t, "next", to)
         /\ to = "take" => /\ old_head[t].node # S!nullptr
                           /\ new_node' = [new_node EXCEPT ![t] = next[old_head[t].node]]
         /\ to = "idle" => new_node' = new_node
  BY DEF S!ReadNext
<1>3. /\ pc[t] = "next" /\ pc'[t] = to /\ \A u \in Threads : u # t => pc'[u] = pc[u]
      /\ pc' \in [Threads -> {"idle", "next", "take", "load", "link", "put", "count"}]
  BY <1>1, <1>2, StackOthers
<1>4. UNCHANGED <<top, next, size_, job, old_head>>
  BY DEF S!ReadNext
<1>5. top \in [Lists -> S!Heads] /\ old_head[t] \in S!Heads
  BY <1>1 DEF S!TypeOK, Lists
<1>6. /\ new_node' \in [Threads -> S!Nodes \cup {S!nullptr}]
      /\ \A u \in Threads : u # t => new_node'[u] = new_node[u]
      /\ to = "take" => new_node'[t] = next[old_head[t].node]
  <2>1. new_node \in [Threads -> S!Nodes \cup {S!nullptr}] /\ next \in [S!Nodes -> S!Nodes \cup {S!nullptr}]
    BY <1>1 DEF S!TypeOK
  <2>2. CASE to = "take"
    <3>1. old_head[t].node \in S!Nodes
      BY <1>2, <1>5, <2>2 DEF S!Heads
    <3>2. next[old_head[t].node] \in S!Nodes \cup {S!nullptr}
      BY <2>1, <3>1
    <3> QED BY <1>2, <2>1, <2>2, <3>2
  <2>3. CASE to = "idle"
    BY <1>2, <2>1, <2>3
  <2> QED BY <2>2, <2>3
<1>7. S!TypeOK'
  BY <1>1, <1>3, <1>4, <1>6 DEF S!TypeOK
<1>8. S!Holding' = S!Holding /\ t \notin S!Holding
  BY <1>3, <1>4 DEF S!Holding
<1>9. ToCount("Push")' = ToCount("Push") /\ ToCount("Pop")' = ToCount("Pop")
  BY <1>3, <1>4 DEF ToCount
<1>10. \A u \in S!Holding : new_node'[u] = new_node[u]
  BY <1>6, <1>8 DEF S!Holding
<1>11. StackAt(a, b)'
  BY <1>4, <1>8, <1>9, <1>10, StackQuiet
<1>12. Knows(t)'
  <2>1. S!Source(t)' = S!Source(t) /\ Seen(t, S!Source(t))
    BY <1>1, <1>3, <1>4 DEF S!Source, Knows
  <2>2. Seen(t, S!Source(t))'
    BY <1>4, <2>1 DEF Seen
  <2> QED BY <1>2, <1>3, <1>4, <1>6, <2>1, <2>2 DEF Knows
<1>13. ASSUME NEW u \in Threads, u # t PROVE Knows(u)'
  BY <1>1, <1>3, <1>4, <1>5, <1>6, <1>13, KnowsOn
<1> QED BY <1>7, <1>11, <1>12, <1>13

\* PushHead writes the next of its own node, which is in no list.
LEMMA StackLink ==
    ASSUME S!StackAssumption, StackInv, NEW a \in Seq(S!Nodes), NEW b \in Seq(S!Nodes), StackAt(a, b),
           NEW t \in Threads, S!Link(t)
    PROVE  S!TypeOK' /\ (\A u \in Threads : Knows(u)') /\ StackAt(a, b)'
<1>1. S!TypeOK /\ \A u \in Threads : Knows(u)
  BY DEF StackInv
<1>2. /\ pc[t] = "link" /\ pc'[t] = "put" /\ \A u \in Threads : u # t => pc'[u] = pc[u]
      /\ pc' \in [Threads -> {"idle", "next", "take", "load", "link", "put", "count"}]
  BY <1>1, StackOthers DEF S!Link
<1>3. UNCHANGED <<top, size_, job, old_head, new_node>>
  BY DEF S!Link
<1>4. InOnePlace(SetOf(a), SetOf(b), S!Holding, new_node) /\ t \in S!Holding
  BY <1>2 DEF StackAt, S!Holding
<1>5. PICK n \in S!Nodes : n = new_node[t] /\ n \notin SetOf(a) /\ n \notin SetOf(b)
  BY <1>4 DEF InOnePlace
<1>6. top \in [Lists -> S!Heads] /\ old_head[t] \in S!Heads /\ next \in [S!Nodes -> S!Nodes \cup {S!nullptr}]
  BY <1>1 DEF S!TypeOK, Lists
<1>7. /\ next' \in [S!Nodes -> S!Nodes \cup {S!nullptr}]
      /\ next'[n] = old_head[t].node /\ \A x \in S!Nodes : x # n => next'[x] = next[x]
  BY <1>5, <1>6 DEF S!Link, S!Heads
<1>8. S!TypeOK'
  BY <1>1, <1>2, <1>3, <1>7 DEF S!TypeOK
<1>9. S!Holding' = S!Holding
  BY <1>2, <1>3 DEF S!Holding
<1>10. ToCount("Push")' = ToCount("Push") /\ ToCount("Pop")' = ToCount("Pop")
  BY <1>2, <1>3 DEF ToCount
<1>11. SetOf(a) \subseteq S!Nodes /\ SetOf(b) \subseteq S!Nodes
  BY DEF SetOf
<1>12. StackAt(a, b)'
  <2>1. \A x \in SetOf(a) \cup SetOf(b) : next'[x] = next[x]
    BY <1>5, <1>7, <1>11
  <2> QED BY <1>3, <1>9, <1>10, <2>1, StackQuiet
<1>13. Knows(t)'
  <2>1. S!Target(t)' = S!Target(t) /\ Seen(t, S!Target(t))
    BY <1>1, <1>2, <1>3 DEF S!Target, Knows
  <2>2. Seen(t, S!Target(t))'
    BY <1>3, <2>1 DEF Seen
  <2> QED BY <1>2, <1>3, <1>5, <1>7, <2>1, <2>2 DEF Knows
<1>14. ASSUME NEW u \in Threads, u # t PROVE Knows(u)'
  <2>1. \A l \in Lists : top[l].node # S!nullptr => next'[top[l].node] = next[top[l].node]
    <3> SUFFICES ASSUME NEW l \in Lists, top[l].node # S!nullptr
                 PROVE  next'[top[l].node] = next[top[l].node]
      OBVIOUS
    <3>1. top[l].node \in SetOf(a) \cup SetOf(b)
      BY TopIn DEF StackAt, Lists
    <3> QED BY <1>5, <1>7, <1>11, <3>1
  <2>2. pc[u] = "put" => next'[new_node[u]] = next[new_node[u]]
    <3> SUFFICES ASSUME pc[u] = "put" PROVE next'[new_node[u]] = next[new_node[u]]
      OBVIOUS
    <3>1. u \in S!Holding
      BY DEF S!Holding
    <3>2. new_node[u] \in S!Nodes /\ new_node[u] # n
      BY <1>4, <1>5, <1>14, <3>1 DEF InOnePlace
    <3> QED BY <1>7, <3>2
  <2> QED BY <1>1, <1>2, <1>3, <1>6, <1>14, <2>1, <2>2, KnowsOn
<1> QED BY <1>8, <1>12, <1>13, <1>14

\* How the counted threads change when t goes.
LEMMA ToCountMove ==
    ASSUME S!StackAssumption, NEW t \in Threads, NEW j,
           \A u \in Threads : u # t => pc'[u] = pc[u] /\ job'[u] = job[u]
    PROVE  /\ Cardinality(ToCount(j)) \in Nat /\ Cardinality(ToCount(j)') \in Nat
           /\ t \in ToCount(j) /\ t \notin ToCount(j)' =>
                 Cardinality(ToCount(j)') = Cardinality(ToCount(j)) - 1
           /\ t \notin ToCount(j) /\ t \in ToCount(j)' =>
                 Cardinality(ToCount(j)') = Cardinality(ToCount(j)) + 1
           /\ (t \in ToCount(j) <=> t \in ToCount(j)') =>
                 Cardinality(ToCount(j)') = Cardinality(ToCount(j))
<1>1. PICK C, D : C = ToCount(j) /\ D = ToCount(j)'
  OBVIOUS
<1>2. C \in SUBSET Threads /\ D \in SUBSET Threads /\ IsFiniteSet(Threads)
  BY <1>1, SameCount DEF ToCount, S!StackAssumption
<1>3. IsFiniteSet(C) /\ IsFiniteSet(D)
  BY <1>2, FS_Subset
<1>4. \A u \in Threads : u # t => (u \in C <=> u \in D)
  BY <1>1 DEF ToCount
<1>5. Cardinality(C) \in Nat /\ Cardinality(D) \in Nat
  BY <1>3, FS_CardinalityType
<1>6. t \in C /\ t \notin D => D = C \ {t}
  BY <1>2, <1>4
<1>7. t \notin C /\ t \in D => D = C \cup {t}
  BY <1>2, <1>4
<1>8. (t \in C <=> t \in D) => D = C
  BY <1>2, <1>4
<1>9. t \in C /\ t \notin D => Cardinality(D) = Cardinality(C) - 1
  BY <1>3, <1>6, FS_RemoveElement
<1>10. t \notin C /\ t \in D => Cardinality(D) = Cardinality(C) + 1
  BY <1>3, <1>7, FS_AddElement
<1> QED BY <1>1, <1>5, <1>8, <1>9, <1>10

\* size_ follows the stack.
LEMMA StackCount ==
    ASSUME S!StackAssumption, StackInv, NEW a \in Seq(S!Nodes), NEW b \in Seq(S!Nodes), StackAt(a, b),
           NEW t \in Threads, S!Count(t)
    PROVE  S!TypeOK' /\ (\A u \in Threads : Knows(u)') /\ StackAt(a, b)'
<1>1. S!TypeOK /\ \A u \in Threads : Knows(u)
  BY DEF StackInv
<1>2. PICK to \in {"idle", "load"} : S!Goto(t, "count", to) /\ (to = "idle" <=> job[t] = "Push")
  BY DEF S!Count
<1>3. /\ pc[t] = "count" /\ pc'[t] = to /\ \A u \in Threads : u # t => pc'[u] = pc[u]
      /\ pc' \in [Threads -> {"idle", "next", "take", "load", "link", "put", "count"}]
  BY <1>1, <1>2, StackOthers
<1>4. UNCHANGED <<top, next, job, old_head, new_node>> /\ job[t] \in {"Push", "Pop"}
  BY <1>1 DEF S!Count, S!TypeOK
<1>5. MaxSize \in Nat \ {0} /\ Len(a) \in Nat
  BY DEF S!StackAssumption
<1>6. PICK p, q, x : /\ p = Cardinality(ToCount("Push")) /\ q = Cardinality(ToCount("Pop"))
                     /\ x = Len(a) - p + q
  OBVIOUS
<1>7. p \in Nat /\ q \in Nat /\ x \in Int /\ size_ = x % MaxSize
  <2>1. p \in Nat /\ q \in Nat
    BY <1>3, <1>4, <1>6, ToCountMove
  <2>2. size_ = (Len(a) - p + q) % MaxSize
    BY <1>6 DEF StackAt
  <2> QED BY <1>5, <1>6, <2>1, <2>2
<1>8. /\ t \notin ToCount("Push")' /\ t \notin ToCount("Pop")'
      /\ t \in ToCount("Push") <=> job[t] = "Push"
      /\ t \in ToCount("Pop") <=> job[t] = "Pop"
  BY <1>2, <1>3, <1>4 DEF ToCount
<1>9. size_' = (Len(a) - Cardinality(ToCount("Push")') + Cardinality(ToCount("Pop")')) % MaxSize
  <2>1. CASE job[t] = "Push"
    <3>1. Cardinality(ToCount("Push")') = p - 1 /\ Cardinality(ToCount("Pop")') = q
      BY <1>3, <1>4, <1>6, <1>8, <2>1, ToCountMove
    <3>2. size_' = (size_ + 1) % MaxSize
      BY <2>1 DEF S!Count
    <3>3. size_' = (x + 1) % MaxSize
      BY <1>5, <1>7, <3>2, CountOn
    <3>4. x + 1 = Len(a) - (p - 1) + q
      BY <1>5, <1>6, <1>7
    <3> QED BY <3>1, <3>3, <3>4
  <2>2. CASE job[t] = "Pop"
    <3>1. Cardinality(ToCount("Push")') = p /\ Cardinality(ToCount("Pop")') = q - 1
      BY <1>3, <1>4, <1>6, <1>8, <2>2, ToCountMove
    <3>2. size_' = (size_ - 1) % MaxSize
      BY <2>2 DEF S!Count
    <3>3. size_' = (x - 1) % MaxSize
      BY <1>5, <1>7, <3>2, CountOn
    <3>4. x - 1 = Len(a) - p + (q - 1)
      BY <1>5, <1>6, <1>7
    <3> QED BY <3>1, <3>3, <3>4
  <2> QED BY <1>4, <2>1, <2>2
<1>10. size_' \in 0 .. MaxSize - 1
  <2>1. PICK y \in Int : size_' = y % MaxSize
    <3>1. size_ \in Int
      BY <1>1 DEF S!TypeOK
    <3> QED BY <3>1 DEF S!Count
  <2> QED BY <1>5, <2>1, CountOn
<1>11. S!TypeOK'
  BY <1>1, <1>3, <1>4, <1>10 DEF S!TypeOK
<1>12. S!Holding' = S!Holding
  BY <1>2, <1>3, <1>4 DEF S!Holding
<1>13. StackAt(a, b)'
  BY <1>4, <1>9, <1>12 DEF StackAt
<1>14. top \in [Lists -> S!Heads]
  BY <1>1 DEF S!TypeOK, Lists
<1>15. Knows(t)'
  BY <1>2, <1>3 DEF Knows
<1>16. ASSUME NEW u \in Threads, u # t PROVE Knows(u)'
  BY <1>1, <1>3, <1>4, <1>14, <1>16, KnowsOn
<1> QED BY <1>11, <1>13, <1>15, <1>16

\* The nodes of what is left of a line.
LEMMA SetOfTail ==
    ASSUME NEW X, NEW null, NEW h, NEW nx, NEW c, Line(c, X, null, h, nx), h # null
    PROVE  /\ Tail(c) \in Seq(X) /\ Len(c) \in Nat /\ Len(c) > 0 /\ Len(Tail(c)) = Len(c) - 1
           /\ Line(Tail(c), X, null, nx[h], nx)
           /\ SetOf(Tail(c)) = SetOf(c) \ {h} /\ h \in SetOf(c)
<1>1. Len(c) \in Nat /\ Len(c) > 0 /\ h = c[1] /\ h \in SetOf(c)
  BY TopIn
<1>2. PICK d : d = Tail(c)
  OBVIOUS
<1>3. /\ Line(d, X, null, nx[h], nx)
      /\ \A k \in 1 .. Len(d) : d[k] # h
      /\ Len(d) = Len(c) - 1
  BY <1>1, <1>2, LineTail
<1>4. d \in Seq(X)
  BY <1>3 DEF Line
<1>5. \A k \in 1 .. Len(d) : d[k] = c[k + 1] /\ k + 1 \in 1 .. Len(c)
  <2>1. c \in Seq(X) /\ c # <<>>
    BY <1>1 DEF Line
  <2> QED BY <1>1, <1>2, <1>3, <2>1
<1>6. SetOf(d) \subseteq SetOf(c) \ {h}
  <2> SUFFICES ASSUME NEW k \in 1 .. Len(d) PROVE d[k] \in SetOf(c) \ {h}
    BY DEF SetOf
  <2>1. PICK i \in 1 .. Len(c) : d[k] = c[i]
    BY <1>5
  <2> QED BY <1>3, <2>1 DEF SetOf
<1>7. SetOf(c) \ {h} \subseteq SetOf(d)
  <2> SUFFICES ASSUME NEW k \in 1 .. Len(c), c[k] # h PROVE c[k] \in SetOf(d)
    BY DEF SetOf
  <2>1. PICK i \in 1 .. Len(d) : k = i + 1
    <3>1. k # 1
      BY <1>1
    <3>2. k - 1 \in 1 .. Len(d) /\ k = (k - 1) + 1
      BY <1>1, <1>3, <3>1
    <3> QED BY <3>2
  <2> QED BY <1>5, <2>1 DEF SetOf
<1> QED BY <1>1, <1>2, <1>3, <1>4, <1>6, <1>7

\* The nodes of a line with one more in front.
LEMMA SetOfCons ==
    ASSUME NEW X, NEW null, NEW h, NEW nx, NEW c, Line(c, X, null, h, nx),
           NEW x \in X, x \notin SetOf(c), nx[x] = h
    PROVE  /\ <<x>> \o c \in Seq(X) /\ Len(c) \in Nat /\ Len(<<x>> \o c) = Len(c) + 1
           /\ Line(<<x>> \o c, X, null, x, nx)
           /\ SetOf(<<x>> \o c) = {x} \cup SetOf(c)
<1>1. PICK d : d = <<x>> \o c
  OBVIOUS
<1>2. \A k \in 1 .. Len(c) : c[k] # x
  BY DEF SetOf
<1>3. /\ Line(d, X, null, x, nx) /\ Len(d) = Len(c) + 1 /\ Len(c) \in Nat
      /\ d[1] = x /\ \A k \in 1 .. Len(c) : d[k + 1] = c[k]
  BY <1>1, <1>2, LineCons
<1>4. d \in Seq(X)
  BY <1>3 DEF Line
<1>5. SetOf(d) \subseteq {x} \cup SetOf(c)
  <2> SUFFICES ASSUME NEW k \in 1 .. Len(d), d[k] # x PROVE d[k] \in SetOf(c)
    BY DEF SetOf
  <2>1. PICK i \in 1 .. Len(c) : k = i + 1
    <3>1. k # 1
      BY <1>3
    <3>2. k - 1 \in 1 .. Len(c) /\ k = (k - 1) + 1
      BY <1>3, <3>1
    <3> QED BY <3>2
  <2> QED BY <1>3, <2>1 DEF SetOf
<1>6. \A k \in 1 .. Len(c) : c[k] \in SetOf(d)
  <2> SUFFICES ASSUME NEW k \in 1 .. Len(c) PROVE c[k] \in SetOf(d)
    OBVIOUS
  <2>1. PICK i \in 1 .. Len(d) : i = k + 1
    BY <1>3
  <2> QED BY <1>3, <2>1 DEF SetOf
<1>7. x \in SetOf(d)
  <2>1. 1 \in 1 .. Len(d)
    BY <1>3
  <2> QED BY <1>3, <2>1 DEF SetOf
<1>8. SetOf(c) \subseteq SetOf(d)
  BY <1>6 DEF SetOf
<1> QED BY <1>1, <1>3, <1>4, <1>5, <1>7, <1>8

\* A node that is taken goes to the thread that takes it.
LEMMA PlaceTaken ==
    ASSUME NEW X, NEW Y, NEW H, NEW nn, NEW ny, InOnePlace(X, Y, H, nn),
           NEW t, t \notin H, NEW x \in S!Nodes, x \in X, ny[t] = x, \A u \in H : ny[u] = nn[u]
    PROVE  InOnePlace(X \ {x}, Y, H \cup {t}, ny)
<1>1. x \notin Y /\ \A u \in H : nn[u] # x
  BY DEF InOnePlace
<1>2. \A u \in H \cup {t} : ny[u] \in S!Nodes /\ ny[u] \notin X \ {x} /\ ny[u] \notin Y
  BY <1>1 DEF InOnePlace
<1>3. \A u, v \in H \cup {t} : ny[u] = ny[v] => u = v
  BY <1>1 DEF InOnePlace
<1>4. \A n \in S!Nodes : n \in X \ {x} \/ n \in Y \/ \E u \in H \cup {t} : ny[u] = n
  BY DEF InOnePlace
<1> QED BY <1>2, <1>3, <1>4 DEF InOnePlace

\* A node that is put leaves the thread that had it.
LEMMA PlacePut ==
    ASSUME NEW X, NEW Y, NEW H, NEW nn, NEW ny, InOnePlace(X, Y, H, nn),
           NEW t \in H, \A u \in H : u # t => ny[u] = nn[u]
    PROVE  InOnePlace({nn[t]} \cup X, Y, H \ {t}, ny)
BY DEF InOnePlace

\* It does not matter which of the lists is which.
LEMMA PlaceSwap ==
    ASSUME NEW X, NEW Y, NEW H, NEW nn, InOnePlace(X, Y, H, nn)
    PROVE  InOnePlace(Y, X, H, nn)
BY DEF InOnePlace

\* An exchange that succeeds: the head was the one loaded, and gets another tag.
LEMMA Exchanged ==
    ASSUME S!TypeOK, NEW t \in Threads, NEW l \in Lists, NEW n \in S!Nodes \cup {S!nullptr}, S!Exchange(t, l, n)
    PROVE  /\ top[l] = old_head[t] /\ top' \in [Lists -> S!Heads] /\ top'[l].node = n
           /\ \A x \in Lists : top'[x] = top[x] \/ top'[x].aba_tag > top[x].aba_tag
           /\ \A x \in Lists : x # l => top'[x] = top[x]
<1>1. top \in [Lists -> S!Heads] /\ old_head[t] \in S!Heads /\ top[l] = old_head[t]
  BY DEF S!TypeOK, Lists, S!Exchange
<1>2. PICK h : h = [aba_tag |-> old_head[t].aba_tag + 1, node |-> n]
  OBVIOUS
<1>3. h \in S!Heads /\ h.node = n /\ h.aba_tag > old_head[t].aba_tag
  BY <1>1, <1>2 DEF S!Heads
<1>4. top' = [top EXCEPT ![l] = h]
  BY <1>2 DEF S!Exchange
<1>5. top'[l] = h /\ \A x \in Lists : x # l => top'[x] = top[x]
  BY <1>1, <1>4
<1>6. top' \in [Lists -> S!Heads]
  BY <1>1, <1>3, <1>4
<1> QED BY <1>1, <1>3, <1>5, <1>6

\* What the exchange of a PopHead does to its list.
LEMMA TakeFacts ==
    ASSUME S!TypeOK, NEW t \in Threads, Knows(t), pc[t] = "take", S!Exchange(t, S!Source(t), new_node[t]),
           NEW l, l = S!Source(t), NEW c, Line(c, S!Nodes, S!nullptr, top[l].node, next)
    PROVE  /\ top' \in [Lists -> S!Heads]
           /\ \A x \in Lists : top'[x] = top[x] \/ top'[x].aba_tag > top[x].aba_tag
           /\ \A x \in Lists : x # l => top'[x] = top[x]
           /\ Tail(c) \in Seq(S!Nodes) /\ Len(c) \in Nat /\ Len(c) > 0 /\ Len(Tail(c)) = Len(c) - 1
           /\ Line(Tail(c), S!Nodes, S!nullptr, top'[l].node, next)
           /\ SetOf(Tail(c)) = SetOf(c) \ {old_head[t].node}
           /\ old_head[t].node \in SetOf(c) /\ old_head[t].node \in S!Nodes
<1>1. l \in Lists /\ new_node[t] \in S!Nodes \cup {S!nullptr}
  BY DEF S!Source, Lists, S!TypeOK
<1>2. /\ top[l] = old_head[t] /\ top' \in [Lists -> S!Heads] /\ top'[l].node = new_node[t]
      /\ \A x \in Lists : top'[x] = top[x] \/ top'[x].aba_tag > top[x].aba_tag
      /\ \A x \in Lists : x # l => top'[x] = top[x]
  BY <1>1, Exchanged
<1>3. old_head[t].node # S!nullptr /\ new_node[t] = next[old_head[t].node]
  BY <1>2 DEF Knows
<1>4. PICK h : h = old_head[t].node
  OBVIOUS
<1>5. h = top[l].node /\ h # S!nullptr /\ new_node[t] = next[h]
  BY <1>2, <1>3, <1>4
<1>6. old_head[t] \in S!Heads
  BY DEF S!TypeOK
<1>7. h \in S!Nodes
  BY <1>4, <1>5, <1>6 DEF S!Heads
<1>8. /\ Tail(c) \in Seq(S!Nodes) /\ Len(c) \in Nat /\ Len(c) > 0 /\ Len(Tail(c)) = Len(c) - 1
      /\ Line(Tail(c), S!Nodes, S!nullptr, next[h], next)
      /\ SetOf(Tail(c)) = SetOf(c) \ {h} /\ h \in SetOf(c)
  <2>1. Line(c, S!Nodes, S!nullptr, h, next)
    BY <1>5
  <2> QED BY <1>5, <2>1, SetOfTail
<1>9. Line(Tail(c), S!Nodes, S!nullptr, top'[l].node, next)
  BY <1>2, <1>5, <1>8
<1> QED BY <1>2, <1>4, <1>7, <1>8, <1>9

\* A node in front of a list.
Before(x, c) == <<x>> \o c

\* What the exchange of a PushHead does to its list.
LEMMA PutFacts ==
    ASSUME S!TypeOK, NEW t \in Threads, Knows(t), pc[t] = "put", S!Exchange(t, S!Target(t), new_node[t]),
           NEW l, l = S!Target(t), NEW c, Line(c, S!Nodes, S!nullptr, top[l].node, next),
           new_node[t] \in S!Nodes, new_node[t] \notin SetOf(c), NEW d, d = Before(new_node[t], c)
    PROVE  /\ top' \in [Lists -> S!Heads]
           /\ \A x \in Lists : top'[x] = top[x] \/ top'[x].aba_tag > top[x].aba_tag
           /\ \A x \in Lists : x # l => top'[x] = top[x]
           /\ d \in Seq(S!Nodes) /\ Len(c) \in Nat /\ Len(d) = Len(c) + 1
           /\ Line(d, S!Nodes, S!nullptr, top'[l].node, next)
           /\ SetOf(d) = {new_node[t]} \cup SetOf(c)
<1>1. l \in Lists
  BY DEF S!Target, Lists
<1>2. PICK n \in S!Nodes : n = new_node[t]
  OBVIOUS
<1>3. /\ top[l] = old_head[t] /\ top' \in [Lists -> S!Heads] /\ top'[l].node = n
      /\ \A x \in Lists : top'[x] = top[x] \/ top'[x].aba_tag > top[x].aba_tag
      /\ \A x \in Lists : x # l => top'[x] = top[x]
  BY <1>1, <1>2, Exchanged
<1>4. next[n] = top[l].node
  BY <1>2, <1>3 DEF Knows
<1>5. /\ <<n>> \o c \in Seq(S!Nodes) /\ Len(c) \in Nat /\ Len(<<n>> \o c) = Len(c) + 1
      /\ Line(<<n>> \o c, S!Nodes, S!nullptr, n, next)
      /\ SetOf(<<n>> \o c) = {n} \cup SetOf(c)
  BY <1>2, <1>4, SetOfCons
<1> QED BY <1>2, <1>3, <1>5 DEF Before

\* PopHead gets the first node of its list, and the list goes on with the next.
LEMMA StackTaken ==
    ASSUME S!StackAssumption, StackInv, NEW a \in Seq(S!Nodes), NEW b \in Seq(S!Nodes), StackAt(a, b),
           NEW t \in Threads,
           S!Goto(t, "take", IF job[t] = "Push" THEN "load" ELSE "count"),
           S!Exchange(t, S!Source(t), new_node[t]),
           new_node' = [new_node EXCEPT ![t] = old_head[t].node],
           UNCHANGED <<next, size_, job, old_head>>
    PROVE  /\ S!TypeOK' /\ \A u \in Threads : Knows(u)'
           /\ job[t] = "Push" => Tail(b) \in Seq(S!Nodes) /\ StackAt(a, Tail(b))'
           /\ job[t] = "Pop" => Tail(a) \in Seq(S!Nodes) /\ Len(a) > 0 /\ StackAt(Tail(a), b)'
<1>1. S!TypeOK /\ \A u \in Threads : Knows(u)
  BY DEF StackInv
<1>2. PICK to \in {"load", "count"} : S!Goto(t, "take", to) /\ (to = "load" <=> job[t] = "Push")
  BY Zenon
<1>3. /\ pc[t] = "take" /\ pc'[t] = to /\ \A u \in Threads : u # t => pc'[u] = pc[u]
      /\ pc' \in [Threads -> {"idle", "next", "take", "load", "link", "put", "count"}]
  BY <1>1, <1>2, StackOthers
<1>4. job[t] \in {"Push", "Pop"}
  BY <1>1 DEF S!TypeOK
<1>5. PICK l, c : /\ l = S!Source(t) /\ (c = a \/ c = b)
                  /\ job[t] = "Push" => l = "free_" /\ c = b
                  /\ job[t] = "Pop" => l = "head_" /\ c = a
  BY <1>4 DEF S!Source
<1>6. Line(c, S!Nodes, S!nullptr, top[l].node, next)
  BY <1>4, <1>5 DEF StackAt
<1>7. /\ top' \in [Lists -> S!Heads]
      /\ \A x \in Lists : top'[x] = top[x] \/ top'[x].aba_tag > top[x].aba_tag
      /\ \A x \in Lists : x # l => top'[x] = top[x]
      /\ Tail(c) \in Seq(S!Nodes) /\ Len(c) \in Nat /\ Len(c) > 0 /\ Len(Tail(c)) = Len(c) - 1
      /\ Line(Tail(c), S!Nodes, S!nullptr, top'[l].node, next)
      /\ SetOf(Tail(c)) = SetOf(c) \ {old_head[t].node}
      /\ old_head[t].node \in SetOf(c) /\ old_head[t].node \in S!Nodes
  BY <1>1, <1>3, <1>5, <1>6, TakeFacts
<1>8. /\ new_node' \in [Threads -> S!Nodes \cup {S!nullptr}]
      /\ new_node'[t] = old_head[t].node /\ \A u \in Threads : u # t => new_node'[u] = new_node[u]
  BY <1>1, <1>7 DEF S!TypeOK
<1>9. S!TypeOK'
  BY <1>1, <1>3, <1>7, <1>8 DEF S!TypeOK, Lists
<1>10. Knows(t)'
  BY <1>2, <1>3 DEF Knows
<1>11. ASSUME NEW u \in Threads, u # t PROVE Knows(u)'
  BY <1>1, <1>3, <1>7, <1>8, <1>11, KnowsOn
<1>12. S!Holding' = S!Holding \cup {t} /\ t \notin S!Holding /\ S!Holding \subseteq Threads
  BY <1>2, <1>3, <1>4 DEF S!Holding
<1>13. \A u \in S!Holding : new_node'[u] = new_node[u]
  BY <1>8, <1>12
<1>14. ASSUME NEW Y, InOnePlace(SetOf(c), Y, S!Holding, new_node)
       PROVE  InOnePlace(SetOf(Tail(c)), Y, S!Holding', new_node')
  <2>1. PICK x, H, nn, ny : x = old_head[t].node /\ H = S!Holding /\ nn = new_node /\ ny = new_node'
    OBVIOUS
  <2>2. x \in S!Nodes /\ x \in SetOf(c) /\ ny[t] = x /\ t \notin H /\ \A u \in H : ny[u] = nn[u]
    BY <1>7, <1>8, <1>12, <1>13, <2>1
  <2>3. InOnePlace(SetOf(c), Y, H, nn)
    BY <1>14, <2>1
  <2>4. InOnePlace(SetOf(c) \ {x}, Y, H \cup {t}, ny)
    BY <2>2, <2>3, PlaceTaken
  <2>5. SetOf(Tail(c)) = SetOf(c) \ {x} /\ S!Holding' = H \cup {t}
    BY <1>7, <1>12, <2>1
  <2> QED BY <2>1, <2>4, <2>5, Zenon
<1>15. InOnePlace(SetOf(a), SetOf(b), S!Holding, new_node)
  BY DEF StackAt
<1>16. PICK p, q : /\ p = Cardinality(ToCount("Push")) /\ q = Cardinality(ToCount("Pop"))
                   /\ p \in Nat /\ q \in Nat
  BY <1>3, ToCountMove
<1>17. size_ = (Len(a) - p + q) % MaxSize /\ Len(a) \in Nat
  BY <1>16 DEF StackAt
<1>18. /\ t \notin ToCount("Push") /\ t \notin ToCount("Pop") /\ t \notin ToCount("Push")'
       /\ t \in ToCount("Pop")' <=> job[t] = "Pop"
  BY <1>2, <1>3, <1>4 DEF ToCount
<1>19. /\ Cardinality(ToCount("Push")') = p
       /\ job[t] = "Push" => Cardinality(ToCount("Pop")') = q
       /\ job[t] = "Pop" => Cardinality(ToCount("Pop")') = q + 1
  <2>1. Cardinality(ToCount("Push")') = p
    BY <1>3, <1>16, <1>18, ToCountMove
  <2>2. job[t] = "Push" => Cardinality(ToCount("Pop")') = q
    BY <1>3, <1>16, <1>18, ToCountMove
  <2>3. job[t] = "Pop" => Cardinality(ToCount("Pop")') = q + 1
    BY <1>3, <1>16, <1>18, ToCountMove
  <2> QED BY <2>1, <2>2, <2>3
<1>20. PICK d \in Seq(S!Nodes) : d = Tail(c)
  BY <1>7
<1>21. CASE job[t] = "Push"
  <2>1. Line(a, S!Nodes, S!nullptr, top'["head_"].node, next')
    BY <1>5, <1>7, <1>21 DEF StackAt, Lists
  <2>2. Line(d, S!Nodes, S!nullptr, top'["free_"].node, next')
    BY <1>5, <1>7, <1>20, <1>21
  <2>3. InOnePlace(SetOf(a), SetOf(d), S!Holding', new_node')
    <3>1. InOnePlace(SetOf(c), SetOf(a), S!Holding, new_node)
      BY <1>5, <1>15, <1>21, PlaceSwap
    <3>2. InOnePlace(SetOf(d), SetOf(a), S!Holding', new_node')
      BY <1>14, <1>20, <3>1
    <3> QED BY <3>2, PlaceSwap
  <2>4. size_' = (Len(a) - Cardinality(ToCount("Push")') + Cardinality(ToCount("Pop")')) % MaxSize
    BY <1>17, <1>19, <1>21
  <2>5. StackAt(a, d)'
    BY <2>1, <2>2, <2>3, <2>4 DEF StackAt
  <2> QED BY <1>5, <1>9, <1>10, <1>11, <1>20, <1>21, <2>5
<1>22. CASE job[t] = "Pop"
  <2>1. Line(d, S!Nodes, S!nullptr, top'["head_"].node, next')
    BY <1>5, <1>7, <1>20, <1>22
  <2>2. Line(b, S!Nodes, S!nullptr, top'["free_"].node, next')
    BY <1>5, <1>7, <1>22 DEF StackAt, Lists
  <2>3. InOnePlace(SetOf(d), SetOf(b), S!Holding', new_node')
    BY <1>5, <1>14, <1>15, <1>20, <1>22
  <2>4. size_' = (Len(d) - Cardinality(ToCount("Push")') + Cardinality(ToCount("Pop")')) % MaxSize
    <3>1. Len(d) = Len(a) - 1
      BY <1>5, <1>7, <1>20, <1>22
    <3>2. \A i, j, k \in Int : (i - 1) - j + (k + 1) = i - j + k
      OBVIOUS
    <3>3. p \in Int /\ q \in Int /\ Len(a) \in Int
      BY <1>16, <1>17
    <3>4. Len(d) - p + (q + 1) = Len(a) - p + q
      BY <3>1, <3>2, <3>3
    <3> QED BY <1>17, <1>19, <1>22, <3>4
  <2>5. StackAt(d, b)'
    BY <2>1, <2>2, <2>3, <2>4 DEF StackAt
  <2> QED BY <1>5, <1>7, <1>9, <1>10, <1>11, <1>20, <1>22, <2>5
<1> QED BY <1>4, <1>21, <1>22

\* PushHead puts its node in front of its list.
LEMMA StackPutOn ==
    ASSUME S!StackAssumption, StackInv, NEW a \in Seq(S!Nodes), NEW b \in Seq(S!Nodes), StackAt(a, b),
           NEW t \in Threads,
           S!Goto(t, "put", IF job[t] = "Push" THEN "count" ELSE "idle"),
           S!Exchange(t, S!Target(t), new_node[t]),
           new_node' = [new_node EXCEPT ![t] = S!nullptr],
           UNCHANGED <<next, size_, job, old_head>>,
           NEW d, d = Before(new_node[t], IF job[t] = "Push" THEN a ELSE b)
    PROVE  /\ S!TypeOK' /\ \A u \in Threads : Knows(u)'
           /\ d \in Seq(S!Nodes) /\ t \in S!Holding
           /\ job[t] = "Push" => StackAt(d, b)'
           /\ job[t] = "Pop" => StackAt(a, d)'
<1>1. S!TypeOK /\ \A u \in Threads : Knows(u)
  BY DEF StackInv
<1>2. PICK to \in {"idle", "count"} : S!Goto(t, "put", to) /\ (to = "count" <=> job[t] = "Push")
  BY Zenon
<1>3. /\ pc[t] = "put" /\ pc'[t] = to /\ \A u \in Threads : u # t => pc'[u] = pc[u]
      /\ pc' \in [Threads -> {"idle", "next", "take", "load", "link", "put", "count"}]
  BY <1>1, <1>2, StackOthers
<1>4. job[t] \in {"Push", "Pop"}
  BY <1>1 DEF S!TypeOK
<1>5. PICK l, c : /\ l = S!Target(t) /\ (c = a \/ c = b)
                  /\ job[t] = "Push" => l = "head_" /\ c = a
                  /\ job[t] = "Pop" => l = "free_" /\ c = b
  BY <1>4 DEF S!Target
<1>6. Line(c, S!Nodes, S!nullptr, top[l].node, next) /\ d = Before(new_node[t], c)
  <2>1. c = IF job[t] = "Push" THEN a ELSE b
    BY <1>4, <1>5
  <2> QED BY <1>4, <1>5, <2>1 DEF StackAt
<1>7. InOnePlace(SetOf(a), SetOf(b), S!Holding, new_node) /\ t \in S!Holding
  BY <1>3 DEF StackAt, S!Holding
<1>8. new_node[t] \in S!Nodes /\ new_node[t] \notin SetOf(c)
  BY <1>5, <1>7 DEF InOnePlace
<1>9. /\ top' \in [Lists -> S!Heads]
      /\ \A x \in Lists : top'[x] = top[x] \/ top'[x].aba_tag > top[x].aba_tag
      /\ \A x \in Lists : x # l => top'[x] = top[x]
      /\ d \in Seq(S!Nodes) /\ Len(c) \in Nat /\ Len(d) = Len(c) + 1
      /\ Line(d, S!Nodes, S!nullptr, top'[l].node, next)
      /\ SetOf(d) = {new_node[t]} \cup SetOf(c)
  <2>1. S!TypeOK /\ Knows(t) /\ pc[t] = "put" /\ l = S!Target(t)
    BY <1>1, <1>3, <1>5
  <2>2. S!Exchange(t, S!Target(t), new_node[t])
    OBVIOUS
  <2>3. new_node[t] \in S!Nodes /\ new_node[t] \notin SetOf(c)
    BY <1>8
  <2> QED BY <1>6, <2>1, <2>2, <2>3, PutFacts
<1>10. /\ new_node' \in [Threads -> S!Nodes \cup {S!nullptr}]
       /\ \A u \in Threads : u # t => new_node'[u] = new_node[u]
  BY <1>1 DEF S!TypeOK
<1>11. S!TypeOK'
  BY <1>1, <1>3, <1>9, <1>10 DEF S!TypeOK, Lists
<1>12. Knows(t)'
  BY <1>2, <1>3 DEF Knows
<1>13. ASSUME NEW u \in Threads, u # t PROVE Knows(u)'
  BY <1>1, <1>3, <1>9, <1>10, <1>13, KnowsOn
<1>14. S!Holding' = S!Holding \ {t} /\ S!Holding \subseteq Threads
  BY <1>2, <1>3, <1>4 DEF S!Holding
<1>15. ASSUME NEW Y, InOnePlace(SetOf(c), Y, S!Holding, new_node)
       PROVE  InOnePlace(SetOf(d), Y, S!Holding', new_node')
  <2>1. \A u \in S!Holding : u # t => new_node'[u] = new_node[u]
    BY <1>10, <1>14
  <2>2. InOnePlace({new_node[t]} \cup SetOf(c), Y, S!Holding \ {t}, new_node')
    BY <1>7, <1>15, <2>1, PlacePut
  <2> QED BY <1>9, <1>14, <2>2
<1>16. PICK p, q : /\ p = Cardinality(ToCount("Push")) /\ q = Cardinality(ToCount("Pop"))
                   /\ p \in Nat /\ q \in Nat
  BY <1>3, ToCountMove
<1>17. size_ = (Len(a) - p + q) % MaxSize /\ Len(a) \in Nat
  BY <1>16 DEF StackAt
<1>18. /\ t \notin ToCount("Push") /\ t \notin ToCount("Pop") /\ t \notin ToCount("Pop")'
       /\ t \in ToCount("Push")' <=> job[t] = "Push"
  BY <1>2, <1>3, <1>4 DEF ToCount
<1>19. /\ Cardinality(ToCount("Pop")') = q
       /\ job[t] = "Push" => Cardinality(ToCount("Push")') = p + 1
       /\ job[t] = "Pop" => Cardinality(ToCount("Push")') = p
  <2>1. Cardinality(ToCount("Pop")') = q
    BY <1>3, <1>16, <1>18, ToCountMove
  <2>2. job[t] = "Push" => Cardinality(ToCount("Push")') = p + 1
    BY <1>3, <1>16, <1>18, ToCountMove
  <2>3. job[t] = "Pop" => Cardinality(ToCount("Push")') = p
    BY <1>3, <1>16, <1>18, ToCountMove
  <2> QED BY <2>1, <2>2, <2>3
<1>20. CASE job[t] = "Push"
  <2>1. Line(d, S!Nodes, S!nullptr, top'["head_"].node, next')
    BY <1>5, <1>9, <1>20
  <2>2. Line(b, S!Nodes, S!nullptr, top'["free_"].node, next')
    BY <1>5, <1>9, <1>20 DEF StackAt, Lists
  <2>3. InOnePlace(SetOf(d), SetOf(b), S!Holding', new_node')
    BY <1>5, <1>7, <1>15, <1>20
  <2>4. size_' = (Len(d) - Cardinality(ToCount("Push")') + Cardinality(ToCount("Pop")')) % MaxSize
    <3>1. Len(d) = Len(a) + 1
      BY <1>5, <1>9, <1>20
    <3>2. \A i, j, k \in Int : (i + 1) - (j + 1) + k = i - j + k
      OBVIOUS
    <3>3. p \in Int /\ q \in Int /\ Len(a) \in Int
      BY <1>16, <1>17
    <3>4. Len(d) - (p + 1) + q = Len(a) - p + q
      BY <3>1, <3>2, <3>3
    <3> QED BY <1>17, <1>19, <1>20, <3>4
  <2>5. StackAt(d, b)'
    BY <2>1, <2>2, <2>3, <2>4 DEF StackAt
  <2> QED BY <1>7, <1>9, <1>11, <1>12, <1>13, <1>20, <2>5
<1>21. CASE job[t] = "Pop"
  <2>1. Line(a, S!Nodes, S!nullptr, top'["head_"].node, next')
    BY <1>5, <1>9, <1>21 DEF StackAt, Lists
  <2>2. Line(d, S!Nodes, S!nullptr, top'["free_"].node, next')
    BY <1>5, <1>9, <1>21
  <2>3. InOnePlace(SetOf(a), SetOf(d), S!Holding', new_node')
    <3>1. InOnePlace(SetOf(c), SetOf(a), S!Holding, new_node)
      BY <1>5, <1>7, <1>21, PlaceSwap
    <3>2. InOnePlace(SetOf(d), SetOf(a), S!Holding', new_node')
      BY <1>15, <3>1
    <3> QED BY <3>2, PlaceSwap
  <2>4. size_' = (Len(a) - Cardinality(ToCount("Push")') + Cardinality(ToCount("Pop")')) % MaxSize
    BY <1>17, <1>19, <1>21
  <2>5. StackAt(a, d)'
    BY <2>1, <2>2, <2>3, <2>4 DEF StackAt
  <2> QED BY <1>7, <1>9, <1>11, <1>12, <1>13, <1>21, <2>5
<1> QED BY <1>4, <1>20, <1>21

\* Every step keeps the invariant and changes the stack at its top only.
LEMMA StackStep ==
    ASSUME S!StackAssumption, StackInv, S!Next
    PROVE  StackInv' /\ S!TopOnly
<1>1. PICK a, b \in Seq(S!Nodes) : StackAt(a, b)
  BY DEF StackInv
<1>2. S!Chain("head_") = a
  BY <1>1, StackChains
<1>3. ASSUME NEW d \in Seq(S!Nodes), NEW e \in Seq(S!Nodes),
             S!TypeOK', \A u \in Threads : Knows(u)', StackAt(d, e)'
      PROVE  StackInv' /\ S!Chain("head_")' = d
  <2>1. Line(d, S!Nodes, S!nullptr, top'["head_"].node, next')
    BY <1>3 DEF StackAt
  <2>2. S!Chain("head_")' = d
    BY <2>1, WalkIsLine DEF S!Chain
  <2>3. StackInv'
    BY <1>3 DEF StackInv
  <2> QED BY <2>2, <2>3
<1>4. ASSUME S!TypeOK', \A u \in Threads : Knows(u)', StackAt(a, b)' PROVE StackInv' /\ S!TopOnly
  BY <1>2, <1>3, <1>4 DEF S!TopOnly
<1>5. PICK t \in Threads :
        \/ \E j \in {"Push", "Pop"} : S!Call(t, j)
        \/ S!ReadNext(t) \/ S!Take(t) \/ S!Load(t) \/ S!Link(t) \/ S!Put(t) \/ S!Count(t)
  BY DEF S!Next
<1>6. ASSUME NEW j \in {"Push", "Pop"}, S!Call(t, j) PROVE StackInv' /\ S!TopOnly
  BY <1>1, <1>4, <1>6, StackCall
<1>7. CASE S!ReadNext(t) \/ S!Link(t) \/ S!Count(t)
  BY <1>1, <1>4, <1>7, StackReadNext, StackLink, StackCount
<1>8. CASE S!Load(t)
  <2>1. /\ S!Goto(t, "load", "link") /\ old_head' = [old_head EXCEPT ![t] = top[S!Target(t)]]
        /\ UNCHANGED <<top, next, size_, job, new_node>>
    BY <1>8 DEF S!Load
  <2>2. S!TypeOK' /\ (\A u \in Threads : Knows(u)') /\ StackAt(a, b)'
    BY <1>1, <2>1, StackReload
  <2> QED BY <1>4, <2>2
<1>9. ASSUME S!Take(t) PROVE StackInv' /\ S!TopOnly
  <2>1. job[t] \in {"Push", "Pop"}
    BY DEF StackInv, S!TypeOK
  <2>2. CASE S!Fails(t, S!Source(t), "take", "next")
    <3>1. /\ S!Goto(t, "take", "next") /\ old_head' = [old_head EXCEPT ![t] = top[S!Source(t)]]
          /\ UNCHANGED <<top, next, size_, job, new_node>>
      BY <1>9, <2>2 DEF S!Take, S!Fails
    <3>2. S!TypeOK' /\ (\A u \in Threads : Knows(u)') /\ StackAt(a, b)'
      BY <1>1, <3>1, StackReload
    <3> QED BY <1>4, <3>2
  <2>3. CASE /\ S!Goto(t, "take", IF job[t] = "Push" THEN "load" ELSE "count")
             /\ S!Exchange(t, S!Source(t), new_node[t])
             /\ new_node' = [new_node EXCEPT ![t] = old_head[t].node]
             /\ UNCHANGED old_head
    <3>1. UNCHANGED <<next, size_, job, old_head>>
      BY <1>9, <2>3 DEF S!Take
    <3>2. /\ S!TypeOK' /\ \A u \in Threads : Knows(u)'
          /\ job[t] = "Push" => Tail(b) \in Seq(S!Nodes) /\ StackAt(a, Tail(b))'
          /\ job[t] = "Pop" => Tail(a) \in Seq(S!Nodes) /\ Len(a) > 0 /\ StackAt(Tail(a), b)'
      BY <1>1, <2>3, <3>1, StackTaken
    <3>3. CASE job[t] = "Push"
      <4>1. StackInv' /\ S!Chain("head_")' = a
        BY <1>3, <3>2, <3>3
      <4> QED BY <1>2, <4>1 DEF S!TopOnly
    <3>4. CASE job[t] = "Pop"
      <4>1. PICK e \in Seq(S!Nodes) : e = Tail(a)
        BY <3>2, <3>4
      <4>2. StackAt(e, b)' /\ a # <<>>
        BY <3>2, <3>4, <4>1
      <4>3. StackInv' /\ S!Chain("head_")' = e
        BY <1>3, <3>2, <4>2
      <4> QED BY <1>2, <4>1, <4>2, <4>3 DEF S!TopOnly
    <3> QED BY <2>1, <3>3, <3>4
  <2> QED BY <1>9, <2>2, <2>3 DEF S!Take
<1>10. ASSUME S!Put(t) PROVE StackInv' /\ S!TopOnly
  <2>1. job[t] \in {"Push", "Pop"}
    BY DEF StackInv, S!TypeOK
  <2>2. CASE S!Fails(t, S!Target(t), "put", "link")
    <3>1. /\ S!Goto(t, "put", "link") /\ old_head' = [old_head EXCEPT ![t] = top[S!Target(t)]]
          /\ UNCHANGED <<top, next, size_, job, new_node>>
      BY <1>10, <2>2 DEF S!Put, S!Fails
    <3>2. S!TypeOK' /\ (\A u \in Threads : Knows(u)') /\ StackAt(a, b)'
      BY <1>1, <3>1, StackReload
    <3> QED BY <1>4, <3>2
  <2>3. CASE /\ S!Goto(t, "put", IF job[t] = "Push" THEN "count" ELSE "idle")
             /\ S!Exchange(t, S!Target(t), new_node[t])
             /\ new_node' = [new_node EXCEPT ![t] = S!nullptr]
             /\ UNCHANGED old_head
    <3>1. UNCHANGED <<next, size_, job, old_head>>
      BY <1>10, <2>3 DEF S!Put
    <3>2. PICK d : d = Before(new_node[t], IF job[t] = "Push" THEN a ELSE b)
      OBVIOUS
    <3>3. /\ S!TypeOK' /\ \A u \in Threads : Knows(u)'
          /\ d \in Seq(S!Nodes) /\ t \in S!Holding
          /\ job[t] = "Push" => StackAt(d, b)'
          /\ job[t] = "Pop" => StackAt(a, d)'
      BY <1>1, <2>3, <3>1, <3>2, StackPutOn
    <3>4. CASE job[t] = "Push"
      <4>1. StackInv' /\ S!Chain("head_")' = d
        BY <1>3, <3>3, <3>4
      <4>2. d = <<new_node[t]>> \o a
        BY <3>2, <3>4 DEF Before
      <4> QED BY <1>2, <3>3, <4>1, <4>2 DEF S!TopOnly
    <3>5. CASE job[t] = "Pop"
      <4>1. StackInv' /\ S!Chain("head_")' = a
        BY <1>3, <3>3, <3>5
      <4> QED BY <1>2, <4>1 DEF S!TopOnly
    <3> QED BY <2>1, <3>4, <3>5
  <2> QED BY <1>10, <2>2, <2>3 DEF S!Put
<1> QED BY <1>5, <1>6, <1>7, <1>8, <1>9, <1>10

\* Nothing here depends on the variables of the other components.
LEMMA StackStutters ==
    ASSUME StackInv, UNCHANGED vars
    PROVE  StackInv' /\ S!TopOnly
<1>1. UNCHANGED <<top, next, size_, pc, job, old_head, new_node>>
  BY DEF vars, stackVars
<1>2. S!TypeOK'
  BY <1>1 DEF StackInv, S!TypeOK
<1>3. ASSUME NEW t \in Threads PROVE Knows(t)'
  <2>1. Knows(t)
    BY DEF StackInv
  <2>2. S!Source(t)' = S!Source(t) /\ S!Target(t)' = S!Target(t)
    BY <1>1 DEF S!Source, S!Target
  <2> QED BY <1>1, <2>1, <2>2 DEF Knows, Seen
<1>4. PICK a, b \in Seq(S!Nodes) : StackAt(a, b)
  BY DEF StackInv
<1>5. S!Holding' = S!Holding /\ ToCount("Push")' = ToCount("Push") /\ ToCount("Pop")' = ToCount("Pop")
  BY <1>1 DEF S!Holding, ToCount
<1>6. StackAt(a, b)'
  BY <1>1, <1>4, <1>5, StackQuiet
<1>7. S!Chain("head_")' = S!Chain("head_")
  BY <1>1 DEF S!Chain
<1> QED BY <1>2, <1>3, <1>6, <1>7 DEF StackInv, S!TopOnly

\* Every node of LStack is in the stack, in the free list or with one thread, once, and
\* size() is off by the calls under way only, for any number of threads and of nodes,
\* although PopHead reads the next of a node that others may have taken and given back.
THEOREM NodesTheorem == Spec => []NodesAccounted
<1> DEFINE Inv == at = "stack" => StackInv
<1>1. Init => Inv
  BY PoolsAssumption, StackInit DEF Init
<1>2. Inv /\ [Next]_vars => Inv'
  <2> SUFFICES ASSUME Inv, [Next]_vars, at' = "stack" PROVE StackInv'
    OBVIOUS
  <2>1. CASE UNCHANGED vars
    <3>1. at = "stack"
      BY <2>1 DEF vars
    <3> QED BY <2>1, <3>1, StackStutters
  <2>2. CASE Next
    <3>1. at = "stack" /\ S!Next
      BY <2>2 DEF Next
    <3> QED BY <3>1, PoolsAssumption, StackStep
  <2> QED BY <2>1, <2>2
<1>3. Inv => NodesAccounted
  BY PoolsAssumption, StackHolds DEF NodesAccounted
<1> QED BY <1>1, <1>2, <1>3, PTL DEF Spec

\* A thread puts its node on top of the stack or takes the top, and nothing below is
\* touched, for any number of threads and of nodes, although an exchange may succeed
\* long after the head was loaded: the tag tells that it has not changed.
THEOREM StackOrderTheorem == Spec => LastInFirstOut
<1> DEFINE Inv == at = "stack" => StackInv
<1>1. Init => Inv
  BY PoolsAssumption, StackInit DEF Init
<1>2. Inv /\ [Next]_vars => Inv' /\ [at = "stack" => S!TopOnly]_vars
  <2> SUFFICES ASSUME Inv, [Next]_vars PROVE Inv' /\ [at = "stack" => S!TopOnly]_vars
    OBVIOUS
  <2>1. CASE UNCHANGED vars
    <3>1. at' = at
      BY <2>1 DEF vars
    <3> QED BY <2>1, <3>1, StackStutters
  <2>2. CASE Next /\ at = "stack"
    <3>1. S!Next
      BY <2>2 DEF Next
    <3> QED BY <2>2, <3>1, PoolsAssumption, StackStep
  <2>3. CASE Next /\ at # "stack"
    BY <2>3 DEF Next
  <2> QED BY <2>1, <2>2, <2>3
<1> QED BY <1>1, <1>2, PTL DEF Spec, LastInFirstOut

-----------------------------------------------------------------------------
(* BuddyAllocator.  Powers of 2 first: the library says what they are only *)
(* by the number of subsets of a set.                                      *)

\* A set with one more element has twice as many subsets.
LEMMA PowerDoubles ==
    ASSUME NEW n \in Nat
    PROVE  2 ^ n \in Nat \ {0} /\ 2 ^ (n + 1) = 2 * 2 ^ n
<1> DEFINE X == 1 .. n
           Y == 1 .. n + 1
           Z == {s \cup {n + 1} : s \in SUBSET X}
           f == [s \in SUBSET X |-> s \cup {n + 1}]
<1>1. IsFiniteSet(X) /\ Cardinality(X) = n /\ IsFiniteSet(Y) /\ Cardinality(Y) = n + 1
  BY FS_Interval
<1>2. IsFiniteSet(SUBSET X) /\ Cardinality(SUBSET X) = 2 ^ n
  BY <1>1, FS_SUBSET, Zenon
<1>3. IsFiniteSet(SUBSET Y) /\ Cardinality(SUBSET Y) = 2 ^ (n + 1)
  BY <1>1, FS_SUBSET, Zenon
<1>4. n + 1 \notin X /\ Y = X \cup {n + 1}
  OBVIOUS
<1>5. Cardinality(SUBSET X) \in Nat /\ Cardinality(SUBSET X) # 0
  <2>1. SUBSET X # {}
    OBVIOUS
  <2> QED BY <1>2, <2>1, FS_EmptySet, FS_CardinalityType
<1>6. IsFiniteSet(Z) /\ Cardinality(Z) = Cardinality(SUBSET X)
  <2>1. f \in [SUBSET X -> Z]
    OBVIOUS
  <2>2. \A s, t \in SUBSET X : f[s] = f[t] => s = t
    <3> SUFFICES ASSUME NEW s \in SUBSET X, NEW t \in SUBSET X, s \cup {n + 1} = t \cup {n + 1} PROVE s = t
      OBVIOUS
    <3>1. s = (s \cup {n + 1}) \ {n + 1} /\ t = (t \cup {n + 1}) \ {n + 1}
      BY <1>4
    <3> QED BY <3>1
  <2>3. \A z \in Z : \E s \in SUBSET X : f[s] = z
    OBVIOUS
  <2> HIDE DEF f, Z
  <2>4. f \in Bijection(SUBSET X, Z)
    <3>1. f \in Injection(SUBSET X, Z)
      BY <2>1, <2>2, Zenon DEF Injection, IsInjective
    <3>2. f \in Surjection(SUBSET X, Z)
      BY <2>1, <2>3, Zenon DEF Surjection
    <3> QED BY <3>1, <3>2, Zenon DEF Bijection
  <2> QED BY <1>2, <2>4, FS_Bijection DEF ExistsBijection
<1>7. SUBSET Y = (SUBSET X) \cup Z
  <2>1. ASSUME NEW t \in SUBSET Y PROVE t \in (SUBSET X) \cup Z
    <3>1. CASE n + 1 \in t
      <4>1. t \ {n + 1} \in SUBSET X /\ t = (t \ {n + 1}) \cup {n + 1}
        BY <1>4, <3>1
      <4> QED BY <4>1
    <3>2. CASE n + 1 \notin t
      BY <1>4, <3>2
    <3> QED BY <3>1, <3>2
  <2>2. SUBSET X \subseteq SUBSET Y /\ Z \subseteq SUBSET Y
    BY <1>4
  <2> QED BY <2>1, <2>2
<1>8. (SUBSET X) \cap Z = {}
  BY <1>4
<1>9. Cardinality(SUBSET Y) = Cardinality(SUBSET X) + Cardinality(Z) - Cardinality((SUBSET X) \cap Z)
  <2> HIDE DEF Z, X, Y
  <2> QED BY <1>2, <1>6, <1>7, FS_Union
<1>10. Cardinality((SUBSET X) \cap Z) = 0
  BY <1>8, FS_EmptySet
<1> HIDE DEF X, Y, Z, f
<1> QED BY <1>2, <1>3, <1>5, <1>6, <1>9, <1>10

\* A power of 2 is larger than its exponent.
LEMMA PowerLarge ==
    ASSUME NEW n \in Nat
    PROVE  n < 2 ^ n
<1> DEFINE Bad == {k \in Nat : ~(k < 2 ^ k)}
<1>1. SUFFICES ASSUME Bad # {} PROVE FALSE
  OBVIOUS
<1>2. PICK k \in Bad : \A j \in Bad : k <= j
  BY <1>1, LeastOf
<1>3. 2 ^ 0 = 1
  OBVIOUS
<1>4. k # 0
  <2>1. ~(k < 2 ^ k)
    BY <1>2
  <2>2. 0 < 1
    OBVIOUS
  <2> QED BY <1>3, <2>1, <2>2, Zenon
<1>5. PICK j \in Nat : k = j + 1
  BY <1>2, <1>4
<1>6. j < 2 ^ j
  BY <1>2, <1>5
<1>7. 2 ^ j \in Nat /\ 2 ^ k = 2 * 2 ^ j
  BY <1>5, PowerDoubles
<1> DEFINE x == 2 ^ j
           y == 2 ^ k
<1>8. ~(k < y)
  BY <1>2
<1> HIDE DEF x, y
<1> QED BY <1>5, <1>6, <1>7, <1>8 DEF x, y

Powers == A!PowersOf2

\* Powers are made from 1 by doubling, those up to the number of slots at least.
LEMMA PowerFacts ==
    ASSUME A!BuddyAssumption
    PROVE  /\ total_slot_count_ \in Powers
           /\ 1 \in Powers
           /\ \A p \in Powers : p \in Nat /\ p > 0
           /\ \A p \in Powers : p # 1 => \E q \in Powers : p = 2 * q
           /\ \A p \in Powers : p < total_slot_count_ => 2 * p \in Powers
<1> DEFINE m == total_slot_count_
<1>1. m \in Nat /\ m \in Powers
  BY DEF A!BuddyAssumption, Powers
<1>2. Powers = {2 ^ k : k \in 0 .. m}
  BY DEF Powers, A!PowersOf2
<1> HIDE DEF m
<1>3. 1 \in Powers
  <2>1. 1 = 2 ^ 0 /\ 0 \in 0 .. m
    BY <1>1
  <2> QED BY <1>2, <2>1
<1>4. ASSUME NEW p \in Powers PROVE \E k \in 0 .. m : p = 2 ^ k /\ p \in Nat /\ p > 0
  <2>1. PICK k \in 0 .. m : p = 2 ^ k
    BY <1>2
  <2>2. k \in Nat
    BY <1>1
  <2>3. 2 ^ k \in Nat \ {0}
    BY <2>2, PowerDoubles
  <2> QED BY <2>1, <2>3
<1>5. ASSUME NEW p \in Powers, p # 1 PROVE \E q \in Powers : p = 2 * q
  <2>1. PICK k \in 0 .. m : p = 2 ^ k
    BY <1>4
  <2>2. k # 0
    <3>1. 2 ^ 0 = 1
      OBVIOUS
    <3> QED BY <1>5, <2>1, <3>1
  <2>3. PICK j \in 0 .. m : k = j + 1
    <3>1. k - 1 \in 0 .. m /\ k = (k - 1) + 1
      BY <1>1, <2>2
    <3> QED BY <3>1
  <2>4. 2 ^ (j + 1) = 2 * 2 ^ j
    <3>1. j \in Nat
      BY <1>1
    <3> QED BY <3>1, PowerDoubles
  <2>5. 2 ^ j \in Powers
    BY <1>2
  <2> QED BY <2>1, <2>3, <2>4, <2>5
<1>6. ASSUME NEW p \in Powers, p < m PROVE 2 * p \in Powers
  <2>1. PICK k \in 0 .. m : p = 2 ^ k
    BY <1>4
  <2>2. k \in Nat
    BY <1>1
  <2>3. k < p /\ p \in Nat
    BY <1>4, <2>1, <2>2, PowerLarge
  <2>4. k + 1 \in 0 .. m
    BY <1>1, <1>6, <2>2, <2>3
  <2>5. 2 ^ (k + 1) = 2 * 2 ^ k
    BY <2>2, PowerDoubles
  <2>6. 2 ^ (k + 1) \in Powers
    BY <1>2, <2>4
  <2> QED BY <2>1, <2>5, <2>6
<1>7. \A p \in Powers : p \in Nat /\ p > 0
  BY <1>4
<1> QED BY <1>1, <1>3, <1>5, <1>6, <1>7 DEF m

\* A power divides every larger one, and the quotient is a power.
LEMMA PowerDivides ==
    ASSUME A!BuddyAssumption, NEW p \in Powers, NEW q \in Powers, p <= q
    PROVE  \E d \in Powers : q = p * d
<1> DEFINE Fails(x, y) == x <= y /\ \A d \in Powers : y # x * d
           Bad == {y \in Powers : \E x \in Powers : Fails(x, y)}
<1>1. /\ 1 \in Powers
      /\ \A x \in Powers : x \in Nat /\ x > 0
      /\ \A x \in Powers : x # 1 => \E y \in Powers : x = 2 * y
  BY PowerFacts
<1>2. SUFFICES ASSUME Bad # {} PROVE FALSE
  OBVIOUS
<1>3. Bad \in SUBSET Nat
  BY <1>1
<1>4. PICK y \in Bad : \A z \in Bad : y <= z
  BY <1>2, <1>3, LeastOf
<1>5. PICK x \in Powers : Fails(x, y)
  BY <1>4
<1>6. x # 1
  <2>1. y = 1 * y
    BY <1>1, <1>4
  <2> QED BY <1>4, <1>5, <2>1
<1>7. y # 1
  BY <1>1, <1>4, <1>5, <1>6
<1>8. PICK u \in Powers : x = 2 * u
  BY <1>1, <1>6
<1>9. PICK v \in Powers : y = 2 * v
  BY <1>1, <1>4, <1>7
<1>10. u <= v /\ ~(y <= v) /\ u \in Nat /\ v \in Nat
  BY <1>1, <1>5, <1>8, <1>9
<1>11. v \notin Bad
  BY <1>4, <1>10
<1>12. PICK d \in Powers : v = u * d
  BY <1>10, <1>11
<1>13. d \in Nat
  BY <1>1
<1>14. 2 * (u * d) = (2 * u) * d
  BY <1>10, <1>13
<1>15. y = x * d
  BY <1>8, <1>9, <1>12, <1>14
<1> QED BY <1>5, <1>15

\* So between two powers there is a factor of 2 at least.
LEMMA PowerGap ==
    ASSUME A!BuddyAssumption, NEW p \in Powers, NEW q \in Powers, p < q
    PROVE  2 * p <= q
<1>1. p \in Nat /\ q \in Nat /\ p > 0
  BY PowerFacts
<1>2. PICK d \in Powers : q = p * d
  BY <1>1, PowerDivides
<1>3. d \in Nat /\ d > 0
  BY PowerFacts
<1>4. d # 1
  BY <1>1, <1>2
<1>5. 2 * p <= d * p
  BY <1>1, <1>3, <1>4, Products
<1>6. p * d = d * p
  BY <1>1, <1>3
<1> QED BY <1>2, <1>5, <1>6

-----------------------------------------------------------------------------
(* The tree: a node of a level with p nodes is the r-th of them, counted   *)
(* from 0, and has s slots.                                                *)

\* Node i is at place r of the level that has p nodes.
NodeAt(i, p, r, s) ==
    /\ p \in Powers /\ s \in Powers /\ r \in Nat /\ r < p
    /\ i = p + r - 1
    /\ total_slot_count_ = p * s
    /\ i \in A!Nodes
    /\ A!SlotsOf(i) = s
    /\ A!OffsetOf(i) = r * s

\* The greatest of a set of numbers is the one that is not less than any.
LEMMA MaxIs ==
    ASSUME NEW X \in SUBSET Int, NEW x \in X, \A y \in X : y <= x
    PROVE  A!Max(X) = x
<1>1. x \in X /\ \A y \in X : x >= y
  OBVIOUS
<1> DEFINE m == A!Max(X)
<1>2. m \in X /\ \A y \in X : m >= y
  BY <1>1, Zenon DEF A!Max
<1> HIDE DEF m
<1>3. m \in Int /\ x \in Int /\ m >= x /\ x >= m
  BY <1>1, <1>2
<1>4. m = x
  BY <1>3
<1> QED BY <1>4 DEF m

\* A product divided by a factor.
LEMMA Divided ==
    ASSUME NEW p \in Nat, p > 0, NEW s \in Nat
    PROVE  (p * s) \div p = s
<1> DEFINE c == (p * s) \div p
<1>1. p * s \in Nat /\ p * s = s * p
  OBVIOUS
<1>2. c \in Nat /\ c * p <= s * p /\ s * p < c * p + p
  <2>1. /\ (p * s) \div p \in Nat
        /\ ((p * s) \div p) * p <= p * s
        /\ p * s < ((p * s) \div p) * p + p
    BY <1>1, Quotient
  <2> QED BY <1>1, <2>1
<1> HIDE DEF c
<1>3. \A i, j \in Int : i <= j => i * p <= j * p
  BY Products
<1>4. c * p \in Nat /\ s * p \in Nat
  BY <1>2, Products
<1>5. CASE c < s
  <2>1. (c + 1) * p <= s * p
    BY <1>2, <1>3, <1>5
  <2>2. (c + 1) * p = c * p + p
    BY <1>2
  <2> QED BY <1>2, <1>4, <2>1, <2>2
<1>6. CASE c > s
  <2>1. (s + 1) * p <= c * p
    BY <1>2, <1>3, <1>6
  <2>2. (s + 1) * p = s * p + p
    OBVIOUS
  <2> QED BY <1>2, <1>4, <2>1, <2>2
<1>7. c = s
  BY <1>2, <1>5, <1>6
<1> QED BY <1>7 DEF c

\* There is a node at every place of every level ...
LEMMA NodeThere ==
    ASSUME A!BuddyAssumption, NEW p \in Powers, NEW s \in Powers, NEW r \in Nat, r < p,
           total_slot_count_ = p * s
    PROVE  NodeAt(p + r - 1, p, r, s)
<1> DEFINE i == p + r - 1
           X == {q \in Powers : q <= i + 1}
<1>1. p \in Nat /\ p > 0 /\ s \in Nat /\ s > 0 /\ \A q \in Powers : q \in Nat
  BY PowerFacts
<1>2. p <= p * s
  <2>1. 1 * p <= s * p
    BY <1>1, Products
  <2>2. s * p = p * s
    BY <1>1
  <2> QED BY <1>1, <2>1, <2>2
<1>3. i \in A!Nodes
  BY <1>1, <1>2 DEF A!Nodes
<1>4. i + 1 = p + r /\ i \in Nat
  BY <1>1
<1> HIDE DEF i
<1>5. p \in X /\ X \in SUBSET Int
  <2>1. p <= i + 1
    BY <1>1, <1>4
  <2>2. \A q \in Powers : q \in Int
    BY <1>1
  <2> QED BY <2>1, <2>2
<1>6. ASSUME NEW q \in X PROVE q <= p
  <2>1. q \in Nat /\ q <= p + r
    BY <1>1, <1>4
  <2>2. p < q => 2 * p <= q
    BY PowerGap
  <2> QED BY <1>1, <2>1, <2>2
<1>7. A!Max(X) = p
  BY <1>5, <1>6, MaxIs
<1>8. A!SlotsOf(i) = (p * s) \div p
  BY <1>7 DEF A!SlotsOf, Powers
<1>9. A!SlotsOf(i) = s
  BY <1>1, <1>8, Divided
<1>10. A!OffsetOf(i) = r * s
  <2>1. A!OffsetOf(i) = (p + r) * s - p * s
    BY <1>4, <1>9 DEF A!OffsetOf
  <2>2. (p + r) * s = p * s + r * s /\ p * s \in Int /\ r * s \in Int
    BY <1>1, Products
  <2> QED BY <2>1, <2>2
<1> QED BY <1>3, <1>9, <1>10 DEF NodeAt, i

\* ... and every node is at one.
LEMMA NodePlace ==
    ASSUME A!BuddyAssumption, NEW i \in A!Nodes
    PROVE  \E p, s \in Powers : \E r \in Nat : NodeAt(i, p, r, s)
<1> DEFINE m == total_slot_count_
           Above == {k \in Nat : \A q \in Powers : q <= i + 1 => q <= k}
<1>1. /\ m \in Powers /\ 1 \in Powers
      /\ \A q \in Powers : q \in Nat /\ q > 0
      /\ \A q \in Powers : q < m => 2 * q \in Powers
  BY PowerFacts
<1>2. i \in Nat /\ i + 1 < 2 * m /\ m \in Nat
  BY <1>1 DEF A!Nodes
<1> HIDE DEF m
<1>3. PICK p \in Above : \A k \in Above : p <= k
  <2>1. i + 1 \in Above
    BY <1>2
  <2>2. Above \in SUBSET Nat
    OBVIOUS
  <2> QED BY <2>1, <2>2, LeastOf
<1>4. p \in Powers /\ p <= i + 1
  <2> SUFFICES ASSUME \A q \in Powers : q <= i + 1 => q # p PROVE FALSE
    OBVIOUS
  <2>1. 1 <= p
    BY <1>1, <1>2, <1>3
  <2>2. p - 1 \in Above
    BY <1>1, <1>3, <2>1
  <2> QED BY <1>3, <2>2
<1>5. i + 1 < 2 * p
  <2>1. CASE p < m
    BY <1>1, <1>2, <1>3, <1>4, <2>1
  <2>2. CASE p >= m
    BY <1>1, <1>2, <1>4, <2>2
  <2> QED BY <1>1, <1>2, <1>4, <2>1, <2>2
<1>6. p <= m
  <2>1. m < p => 2 * m <= p
    BY <1>1, <1>4, PowerGap
  <2> QED BY <1>1, <1>2, <1>4, <2>1
<1>7. PICK s \in Powers : m = p * s
  BY <1>1, <1>4, <1>6, PowerDivides
<1>8. PICK r \in Nat : i = p + r - 1 /\ r < p
  <2>1. i + 1 - p \in Nat /\ i = p + (i + 1 - p) - 1 /\ i + 1 - p < p
    BY <1>1, <1>2, <1>4, <1>5
  <2> QED BY <2>1
<1>9. NodeAt(i, p, r, s)
  <2>1. total_slot_count_ = p * s
    BY <1>7 DEF m
  <2>2. NodeAt(p + r - 1, p, r, s)
    BY <1>4, <1>8, <2>1, NodeThere
  <2> QED BY <1>8, <2>2
<1> QED BY <1>4, <1>9

\* A node has at least one slot, and its slots are slots of the memory.
LEMMA NodeSizes ==
    ASSUME A!BuddyAssumption, NEW i \in A!Nodes
    PROVE  /\ A!SlotsOf(i) \in Powers /\ A!SlotsOf(i) \in Nat /\ A!SlotsOf(i) > 0
           /\ A!OffsetOf(i) \in Nat
           /\ A!OffsetOf(i) + A!SlotsOf(i) <= total_slot_count_
           /\ i \in Nat
<1>1. PICK p \in Powers, s \in Powers, r \in Nat : NodeAt(i, p, r, s)
  BY NodePlace
<1>2. p \in Nat /\ s \in Nat /\ s > 0 /\ p > 0
  BY PowerFacts
<1>3. (r + 1) * s <= p * s
  BY <1>1, <1>2, Products DEF NodeAt
<1>4. (r + 1) * s = r * s + s /\ r * s \in Nat
  BY <1>2, Products
<1> QED BY <1>1, <1>2, <1>3, <1>4 DEF NodeAt

\* The root has all slots.
LEMMA RootNode ==
    ASSUME A!BuddyAssumption
    PROVE  0 \in A!Nodes /\ A!SlotsOf(0) = total_slot_count_ /\ A!OffsetOf(0) = 0
<1>1. total_slot_count_ \in Powers /\ total_slot_count_ \in Nat /\ 1 \in Powers
  BY PowerFacts
<1>2. total_slot_count_ = 1 * total_slot_count_ /\ 0 * total_slot_count_ = 0
  BY <1>1
<1>3. NodeAt(1 + 0 - 1, 1, 0, total_slot_count_)
  BY <1>1, <1>2, NodeThere
<1>4. 1 + 0 - 1 = 0
  OBVIOUS
<1> QED BY <1>2, <1>3, <1>4 DEF NodeAt

\* The last level has a node for every slot.
LEMMA LeafNode ==
    ASSUME A!BuddyAssumption, NEW x \in 0 .. total_slot_count_ - 1
    PROVE  LET i == x + total_slot_count_ - 1 IN
           i \in A!Nodes /\ A!SlotsOf(i) = 1 /\ A!OffsetOf(i) = x
<1>1. total_slot_count_ \in Powers /\ total_slot_count_ \in Nat /\ 1 \in Powers
  BY PowerFacts
<1>2. total_slot_count_ = total_slot_count_ * 1 /\ x * 1 = x /\ x \in Nat /\ x < total_slot_count_
  BY <1>1
<1>3. NodeAt(total_slot_count_ + x - 1, total_slot_count_, x, 1)
  BY <1>1, <1>2, NodeThere
<1>4. total_slot_count_ + x - 1 = x + total_slot_count_ - 1
  BY <1>1, <1>2
<1> QED BY <1>2, <1>3, <1>4 DEF NodeAt

\* The children of a node have half of its slots each, the left one the first.
LEMMA ChildNodes ==
    ASSUME A!BuddyAssumption, NEW i \in A!Nodes, A!SlotsOf(i) # 1
    PROVE  LET l == A!LeftChild(i)
               r == A!RightChild(i)
           IN  /\ l \in A!Nodes /\ r \in A!Nodes /\ i < l /\ i < r
               /\ A!SlotsOf(r) = A!SlotsOf(l) /\ A!SlotsOf(i) = 2 * A!SlotsOf(l)
               /\ A!OffsetOf(l) = A!OffsetOf(i)
               /\ A!OffsetOf(r) = A!OffsetOf(i) + A!SlotsOf(l)
<1>1. PICK p \in Powers, s \in Powers, k \in Nat : NodeAt(i, p, k, s)
  BY NodePlace
<1>2. i \in Nat /\ p \in Nat /\ s \in Nat /\ p > 0 /\ s # 1 /\ k < p /\ i = p + k - 1
  BY <1>1, NodeSizes, PowerFacts DEF NodeAt
<1>3. PICK h \in Powers : s = 2 * h
  BY <1>2, PowerFacts
<1>4. h \in Nat /\ h > 0
  BY PowerFacts
<1>5. p * (2 * h) = (2 * p) * h /\ (2 * k) * h = k * (2 * h) /\ (2 * k + 1) * h = k * (2 * h) + h
  BY <1>2, <1>4
<1>6. total_slot_count_ = (2 * p) * h
  BY <1>1, <1>3, <1>5 DEF NodeAt
<1>7. 2 * p \in Powers
  <2>1. 1 * (2 * p) <= h * (2 * p)
    BY <1>2, <1>4, Products
  <2>2. h * (2 * p) = (2 * p) * h
    BY <1>2, <1>4
  <2>3. p < total_slot_count_
    BY <1>2, <1>4, <1>6, <2>1, <2>2
  <2> QED BY <2>3, PowerFacts
<1>8. NodeAt(2 * p + 2 * k - 1, 2 * p, 2 * k, h)
  BY <1>2, <1>6, <1>7, NodeThere
<1>9. NodeAt(2 * p + (2 * k + 1) - 1, 2 * p, 2 * k + 1, h)
  BY <1>2, <1>6, <1>7, NodeThere
<1>10. A!LeftChild(i) = 2 * p + 2 * k - 1 /\ A!RightChild(i) = 2 * p + (2 * k + 1) - 1
  BY <1>2 DEF A!LeftChild, A!RightChild
<1>11. A!SlotsOf(i) = 2 * h /\ A!OffsetOf(i) = k * (2 * h)
  BY <1>1, <1>3 DEF NodeAt
<1>12. i < A!LeftChild(i) /\ i < A!RightChild(i)
  BY <1>2, <1>10
<1> DEFINE l == A!LeftChild(i)
           r == A!RightChild(i)
<1>13. l \in A!Nodes /\ A!SlotsOf(l) = h /\ A!OffsetOf(l) = (2 * k) * h
  BY <1>8, <1>10 DEF NodeAt
<1>14. r \in A!Nodes /\ A!SlotsOf(r) = h /\ A!OffsetOf(r) = (2 * k + 1) * h
  BY <1>9, <1>10 DEF NodeAt
<1> HIDE DEF l, r
<1>15. /\ l \in A!Nodes /\ r \in A!Nodes
       /\ A!SlotsOf(r) = A!SlotsOf(l) /\ A!SlotsOf(i) = 2 * A!SlotsOf(l)
       /\ A!OffsetOf(l) = A!OffsetOf(i)
       /\ A!OffsetOf(r) = A!OffsetOf(i) + A!SlotsOf(l)
  BY <1>5, <1>11, <1>13, <1>14, Zenon
<1> QED BY <1>12, <1>15 DEF l, r

\* Node i lies in node j, or they have no slot in common.
In(i, j) ==
    A!OffsetOf(j) <= A!OffsetOf(i) /\ A!OffsetOf(i) + A!SlotsOf(i) <= A!OffsetOf(j) + A!SlotsOf(j)
Off(i, j) ==
    A!OffsetOf(i) + A!SlotsOf(i) <= A!OffsetOf(j) \/ A!OffsetOf(j) + A!SlotsOf(j) <= A!OffsetOf(i)

\* Of two nodes the smaller one lies in the other or off it.
LEMMA NodesNest ==
    ASSUME A!BuddyAssumption, NEW i \in A!Nodes, NEW j \in A!Nodes, A!SlotsOf(i) <= A!SlotsOf(j)
    PROVE  In(i, j) \/ Off(i, j)
<1>1. PICK p \in Powers, s \in Powers, k \in Nat : NodeAt(i, p, k, s)
  BY NodePlace
<1>2. PICK q \in Powers, t \in Powers, m \in Nat : NodeAt(j, q, m, t)
  BY NodePlace
<1>3. s \in Nat /\ t \in Nat /\ s <= t
  BY <1>1, <1>2, PowerFacts DEF NodeAt
<1>4. PICK d \in Powers : t = s * d
  BY <1>3, PowerDivides
<1>5. d \in Nat
  BY PowerFacts
<1> DEFINE a == m * d
           b == m * d + d
<1>6. a \in Nat /\ b \in Nat
  BY <1>5, Products
<1>7. m * t = a * s /\ m * t + t = b * s
  <2>1. m * (s * d) = (m * d) * s /\ m * (s * d) + s * d = (m * d + d) * s
    BY <1>3, <1>5
  <2> QED BY <1>4, <2>1
<1>8. /\ A!OffsetOf(i) = k * s /\ A!SlotsOf(i) = s
      /\ A!OffsetOf(j) = a * s /\ A!OffsetOf(j) + A!SlotsOf(j) = b * s
  BY <1>1, <1>2, <1>7 DEF NodeAt
<1> HIDE DEF a, b
<1>9. k * s + s = (k + 1) * s
  BY <1>3
<1>10. \A x, y \in Int : x <= y => x * s <= y * s
  BY <1>3, Products
<1>11. CASE k < a
  <2>1. (k + 1) * s <= a * s
    BY <1>6, <1>10, <1>11
  <2> QED BY <1>8, <1>9, <2>1 DEF Off
<1>12. CASE a <= k /\ k < b
  <2>1. (k + 1) * s <= b * s /\ a * s <= k * s
    BY <1>6, <1>10, <1>12
  <2> QED BY <1>8, <1>9, <2>1 DEF In
<1>13. CASE b <= k
  <2>1. b * s <= k * s
    BY <1>6, <1>10, <1>13
  <2> QED BY <1>8, <2>1 DEF Off
<1> QED BY <1>6, <1>11, <1>12, <1>13

\* Larger nodes come first, and there is one of a size at a place.
LEMMA NodeOrder ==
    ASSUME A!BuddyAssumption, NEW i \in A!Nodes, NEW j \in A!Nodes
    PROVE  /\ A!SlotsOf(i) < A!SlotsOf(j) => j < i /\ 2 * A!SlotsOf(i) <= A!SlotsOf(j)
           /\ A!SlotsOf(i) = A!SlotsOf(j) /\ A!OffsetOf(i) = A!OffsetOf(j) => i = j
<1>1. PICK p \in Powers, s \in Powers, k \in Nat : NodeAt(i, p, k, s)
  BY NodePlace
<1>2. PICK q \in Powers, t \in Powers, m \in Nat : NodeAt(j, q, m, t)
  BY NodePlace
<1>3. /\ s \in Nat /\ t \in Nat /\ s > 0 /\ t > 0 /\ p \in Nat /\ q \in Nat /\ p > 0 /\ q > 0
  BY PowerFacts
<1>4. p * s = q * t /\ i = p + k - 1 /\ j = q + m - 1 /\ k < p /\ m < q
  BY <1>1, <1>2 DEF NodeAt
<1>5. A!SlotsOf(i) = s /\ A!SlotsOf(j) = t /\ A!OffsetOf(i) = k * s /\ A!OffsetOf(j) = m * t
  BY <1>1, <1>2 DEF NodeAt
<1>6. ASSUME NEW x \in Nat, NEW y \in Nat, x < y PROVE x * s < y * s
  <2>1. (x + 1) * s <= y * s
    BY <1>3, <1>6, Products
  <2>2. (x + 1) * s = x * s + s /\ x * s \in Nat /\ y * s \in Nat
    BY <1>3, Products
  <2> QED BY <1>3, <2>1, <2>2
<1>7. ASSUME s < t PROVE j < i /\ 2 * s <= t
  <2>1. 2 * s <= t
    BY <1>7, PowerGap
  <2>2. q < p
    <3> SUFFICES ASSUME p <= q PROVE FALSE
      BY <1>3
    <3>1. s * p < t * p
      <4>1. (s + 1) * p <= t * p
        BY <1>3, <1>7, Products
      <4>2. (s + 1) * p = s * p + p /\ s * p \in Nat /\ t * p \in Nat
        BY <1>3, Products
      <4> QED BY <1>3, <4>1, <4>2
    <3>2. p * t <= q * t
      BY <1>3, Products
    <3>3. p * s = s * p /\ p * t = t * p /\ p * t \in Nat /\ q * t \in Nat
      BY <1>3, Products
    <3> QED BY <1>4, <3>1, <3>2, <3>3
  <2>3. 2 * q <= p
    BY <2>2, PowerGap
  <2> QED BY <1>3, <1>4, <2>1, <2>3
<1>8. ASSUME s = t, k * s = m * t PROVE i = j
  <2>1. k = m
    <3>1. k * s = m * s
      BY <1>8
    <3>2. k * s \in Nat /\ m * s \in Nat
      BY <1>3, Products
    <3>3. ~(k < m) /\ ~(m < k)
      BY <1>6, <3>1, <3>2
    <3> QED BY <3>3
  <2>2. p = q
    <3>1. p * s = q * s
      BY <1>4, <1>8
    <3>2. ~(p < q) /\ ~(q < p)
      BY <1>3, <1>6, <3>1
    <3> QED BY <1>3, <3>2
  <2> QED BY <1>4, <2>1, <2>2
<1> QED BY <1>5, <1>7, <1>8

\* The nodes of a tree: what lies in a node properly lies in a child of it.
LEMMA TreeFacts ==
    ASSUME A!BuddyAssumption
    PROVE  /\ \A i \in A!Nodes : In(i, i) /\ In(i, 0)
           /\ \A i, j, k \in A!Nodes : In(i, j) /\ In(j, k) => In(i, k)
           /\ \A i, j \in A!Nodes : In(i, j) /\ In(j, i) => i = j
           /\ \A i, j \in A!Nodes : In(i, j) \/ In(j, i) \/ Off(i, j)
           /\ \A i, j \in A!Nodes : Off(i, j) => Off(j, i) /\ ~In(i, j)
           /\ \A i, j, k \in A!Nodes : In(i, j) /\ Off(j, k) => Off(i, k)
           /\ \A i, j \in A!Nodes : In(i, j) /\ i # j => A!SlotsOf(i) < A!SlotsOf(j) /\ j < i
<1>1. \A i \in A!Nodes : /\ A!SlotsOf(i) \in Nat /\ A!SlotsOf(i) > 0 /\ A!OffsetOf(i) \in Nat
                         /\ A!OffsetOf(i) + A!SlotsOf(i) <= total_slot_count_
  BY NodeSizes
<1>2. 0 \in A!Nodes /\ A!SlotsOf(0) = total_slot_count_ /\ A!OffsetOf(0) = 0
  BY RootNode
<1>3. \A i \in A!Nodes : In(i, i) /\ In(i, 0)
  BY <1>1, <1>2 DEF In
<1>4. \A i, j, k \in A!Nodes : In(i, j) /\ In(j, k) => In(i, k)
  BY <1>1 DEF In
<1>5. ASSUME NEW i \in A!Nodes, NEW j \in A!Nodes, In(i, j), In(j, i) PROVE i = j
  <2>1. A!SlotsOf(i) = A!SlotsOf(j) /\ A!OffsetOf(i) = A!OffsetOf(j)
    BY <1>1, <1>5 DEF In
  <2> QED BY <2>1, NodeOrder
<1>6. ASSUME NEW i \in A!Nodes, NEW j \in A!Nodes PROVE Off(i, j) => Off(j, i) /\ ~In(i, j)
  BY <1>1 DEF In, Off
<1>7. ASSUME NEW i \in A!Nodes, NEW j \in A!Nodes PROVE In(i, j) \/ In(j, i) \/ Off(i, j)
  <2>1. CASE A!SlotsOf(i) <= A!SlotsOf(j)
    BY <2>1, NodesNest
  <2>2. CASE A!SlotsOf(j) <= A!SlotsOf(i)
    <3>1. In(j, i) \/ Off(j, i)
      BY <2>2, NodesNest
    <3> QED BY <3>1, <1>6
  <2> QED BY <1>1, <2>1, <2>2
<1>8. \A i, j, k \in A!Nodes : In(i, j) /\ Off(j, k) => Off(i, k)
  BY <1>1 DEF In, Off
<1>9. ASSUME NEW i \in A!Nodes, NEW j \in A!Nodes, In(i, j), i # j PROVE A!SlotsOf(i) < A!SlotsOf(j) /\ j < i
  <2>1. A!SlotsOf(i) < A!SlotsOf(j)
    <3> SUFFICES ASSUME ~(A!SlotsOf(i) < A!SlotsOf(j)) PROVE FALSE
      OBVIOUS
    <3>1. In(j, i)
      BY <1>1, <1>9 DEF In
    <3> QED BY <1>5, <1>9, <3>1
  <2> QED BY <2>1, NodeOrder
<1> QED BY <1>3, <1>4, <1>5, <1>6, <1>7, <1>8, <1>9

\* A node of more than one slot has two children, apart, and everything else that
\* lies in it lies in one of them.
LEMMA ChildFacts ==
    ASSUME A!BuddyAssumption, NEW i \in A!Nodes, A!SlotsOf(i) # 1
    PROVE  LET l == A!LeftChild(i)
               r == A!RightChild(i)
           IN  /\ l \in A!Nodes /\ r \in A!Nodes /\ i < l /\ i < r
               /\ In(l, i) /\ In(r, i)
               /\ A!SlotsOf(r) = A!SlotsOf(l) /\ A!SlotsOf(i) = 2 * A!SlotsOf(l)
               /\ \A j \in A!Nodes : In(j, i) /\ j # i => In(j, l) \/ In(j, r)
<1> DEFINE l == A!LeftChild(i)
           r == A!RightChild(i)
<1>1. /\ l \in A!Nodes /\ r \in A!Nodes /\ i < l /\ i < r
      /\ A!SlotsOf(r) = A!SlotsOf(l) /\ A!SlotsOf(i) = 2 * A!SlotsOf(l)
      /\ A!OffsetOf(l) = A!OffsetOf(i)
      /\ A!OffsetOf(r) = A!OffsetOf(i) + A!SlotsOf(l)
  BY ChildNodes
<1> HIDE DEF l, r
<1>2. \A j \in A!Nodes : A!SlotsOf(j) \in Nat /\ A!SlotsOf(j) > 0 /\ A!OffsetOf(j) \in Nat
  BY NodeSizes
<1>3. In(l, i) /\ In(r, i)
  BY <1>1, <1>2 DEF In
<1>4. ASSUME NEW j \in A!Nodes, In(j, i), j # i PROVE In(j, l) \/ In(j, r)
  <2>1. A!SlotsOf(j) < A!SlotsOf(i)
    BY <1>4, TreeFacts
  <2>2. 2 * A!SlotsOf(j) <= A!SlotsOf(i)
    BY <2>1, NodeOrder
  <2>3. A!SlotsOf(j) <= A!SlotsOf(l)
    BY <1>1, <1>2, <2>2
  <2>4. In(j, l) \/ Off(j, l)
    BY <1>1, <2>3, NodesNest
  <2>5. In(j, r) \/ Off(j, r)
    BY <1>1, <2>3, NodesNest
  <2> QED BY <1>1, <1>2, <1>4, <2>4, <2>5 DEF In, Off
<1> QED BY <1>1, <1>3, <1>4 DEF l, r

\* The spans of the model.
LEMMA SpanFacts ==
    ASSUME A!BuddyAssumption, NEW i \in A!Nodes, NEW j \in A!Nodes
    PROVE  /\ A!Span(i) \subseteq A!Span(j) <=> In(i, j)
           /\ A!Span(i) \cap A!Span(j) = {} <=> Off(i, j)
           /\ A!Span(i) = A!Span(j) <=> i = j
<1> DEFINE a == A!OffsetOf(i)
           s == A!SlotsOf(i)
           b == A!OffsetOf(j)
           t == A!SlotsOf(j)
<1>1. a \in Nat /\ s \in Nat /\ s > 0 /\ b \in Nat /\ t \in Nat /\ t > 0
  BY NodeSizes
<1>2. A!Span(i) = a .. a + s - 1 /\ A!Span(j) = b .. b + t - 1
  BY DEF A!Span
<1>3. (In(i, j) <=> b <= a /\ a + s <= b + t) /\ (Off(i, j) <=> a + s <= b \/ b + t <= a)
  BY DEF In, Off
<1>4. In(i, j) /\ In(j, i) => i = j
  BY TreeFacts
<1>5. In(j, i) <=> a <= b /\ b + t <= a + s
  BY DEF In
<1> HIDE DEF a, s, b, t
<1>6. A!Span(i) \subseteq A!Span(j) <=> In(i, j)
  <2>1. In(i, j) => A!Span(i) \subseteq A!Span(j)
    BY <1>1, <1>2, <1>3
  <2>2. ASSUME A!Span(i) \subseteq A!Span(j) PROVE In(i, j)
    <3>1. a \in A!Span(i) /\ a + s - 1 \in A!Span(i)
      BY <1>1, <1>2
    <3>2. a \in b .. b + t - 1 /\ a + s - 1 \in b .. b + t - 1
      BY <1>2, <2>2, <3>1
    <3> QED BY <1>1, <1>3, <3>2
  <2> QED BY <2>1, <2>2
<1>7. A!Span(i) \cap A!Span(j) = {} <=> Off(i, j)
  <2>1. Off(i, j) => A!Span(i) \cap A!Span(j) = {}
    BY <1>1, <1>2, <1>3
  <2>2. ASSUME ~Off(i, j) PROVE \E x \in A!Span(i) : x \in A!Span(j)
    <3>1. CASE a <= b
      <4>1. b \in a .. a + s - 1 /\ b \in b .. b + t - 1
        BY <1>1, <1>3, <2>2, <3>1
      <4> QED BY <1>2, <4>1
    <3>2. CASE b <= a
      <4>1. a \in a .. a + s - 1 /\ a \in b .. b + t - 1
        BY <1>1, <1>3, <2>2, <3>2
      <4> QED BY <1>2, <4>1
    <3> QED BY <1>1, <3>1, <3>2
  <2> QED BY <2>1, <2>2
<1>8. A!Span(i) = A!Span(j) => i = j
  <2> SUFFICES ASSUME A!Span(i) = A!Span(j) PROVE i = j
    OBVIOUS
  <2>1. a \in A!Span(j) /\ a + s - 1 \in A!Span(j) /\ b \in A!Span(i) /\ b + t - 1 \in A!Span(i)
    <3>1. a \in a .. a + s - 1 /\ a + s - 1 \in a .. a + s - 1
      BY <1>1
    <3>2. b \in b .. b + t - 1 /\ b + t - 1 \in b .. b + t - 1
      BY <1>1
    <3> QED BY <1>2, <3>1, <3>2, Zenon
  <2>2. a \in b .. b + t - 1 /\ a + s - 1 \in b .. b + t - 1 /\ b \in a .. a + s - 1 /\ b + t - 1 \in a .. a + s - 1
    BY <1>2, <2>1
  <2>3. In(i, j) /\ In(j, i)
    BY <1>1, <1>3, <1>5, <2>2
  <2> QED BY <1>4, <2>3
<1> QED BY <1>6, <1>7, <1>8

-----------------------------------------------------------------------------
(* What the tree should say, for a set bs of allocated nodes.              *)

\* The blocks are nodes, and apart.
BlockSet(bs) == bs \subseteq A!Nodes /\ \A b, c \in bs : b # c => Off(b, c)

\* Node i is a proper part of a block; no block has a slot of it.
Inner(bs, i) == \E b \in bs : In(i, b) /\ i # b
Spare(bs, i) == \A b \in bs : Off(i, b)

\* The largest spare node that lies in node i has v slots.
Best(bs, i, v) ==
    /\ v \in Nat
    /\ \A n \in A!Nodes : In(n, i) /\ Spare(bs, n) => A!SlotsOf(n) <= v
    /\ v = 0 \/ \E n \in A!Nodes : In(n, i) /\ Spare(bs, n) /\ A!SlotsOf(n) = v

\* The value of node i.
Says(bs, i, v) == IF Inner(bs, i) THEN v = A!SlotsOf(i) ELSE Best(bs, i, v)
Exact(bs, f) == f \in [A!Nodes -> Nat] /\ \A i \in A!Nodes : Says(bs, i, f[i])

\* There is one such value ...
LEMMA SaysUnique ==
    ASSUME NEW bs, NEW i, NEW v, NEW w, Says(bs, i, v), Says(bs, i, w)
    PROVE  v = w
<1>1. CASE Inner(bs, i)
  BY <1>1 DEF Says
<1>2. CASE ~Inner(bs, i)
  <2>1. Best(bs, i, v) /\ Best(bs, i, w)
    BY <1>2 DEF Says
  <2>2. v \in Nat /\ w \in Nat
    BY <2>1 DEF Best
  <2>3. v <= w
    <3>1. CASE v = 0
      BY <2>2, <3>1
    <3>2. CASE v # 0
      <4>1. PICK n \in A!Nodes : In(n, i) /\ Spare(bs, n) /\ A!SlotsOf(n) = v
        BY <2>1, <3>2 DEF Best
      <4> QED BY <2>1, <4>1 DEF Best
    <3> QED BY <3>1, <3>2
  <2>4. w <= v
    <3>1. CASE w = 0
      BY <2>2, <3>1
    <3>2. CASE w # 0
      <4>1. PICK n \in A!Nodes : In(n, i) /\ Spare(bs, n) /\ A!SlotsOf(n) = w
        BY <2>1, <3>2 DEF Best
      <4> QED BY <2>1, <4>1 DEF Best
    <3> QED BY <3>1, <3>2
  <2> QED BY <2>2, <2>3, <2>4
<1> QED BY <1>1, <1>2

\* ... and there is one.
LEMMA SaysThere ==
    ASSUME A!BuddyAssumption, NEW bs, NEW i \in A!Nodes
    PROVE  \E v \in Nat : Says(bs, i, v)
<1> DEFINE Above == {k \in Nat : \A n \in A!Nodes : In(n, i) /\ Spare(bs, n) => A!SlotsOf(n) <= k}
<1>1. \A n \in A!Nodes : A!SlotsOf(n) \in Nat /\ A!SlotsOf(n) <= total_slot_count_
  <2> SUFFICES ASSUME NEW n \in A!Nodes PROVE A!SlotsOf(n) \in Nat /\ A!SlotsOf(n) <= total_slot_count_
    OBVIOUS
  <2>1. total_slot_count_ \in Nat
    BY DEF A!BuddyAssumption
  <2> QED BY <2>1, NodeSizes
<1>2. total_slot_count_ \in Above
  BY <1>1 DEF A!BuddyAssumption
<1>3. PICK v \in Above : \A k \in Above : v <= k
  <2>1. Above \in SUBSET Nat
    OBVIOUS
  <2> QED BY <1>2, <2>1, LeastOf
<1>4. v = 0 \/ \E n \in A!Nodes : In(n, i) /\ Spare(bs, n) /\ A!SlotsOf(n) = v
  <2> SUFFICES ASSUME v # 0, \A n \in A!Nodes : In(n, i) /\ Spare(bs, n) => A!SlotsOf(n) # v PROVE FALSE
    OBVIOUS
  <2>1. v - 1 \in Nat
    BY <1>3
  <2>2. ASSUME NEW n \in A!Nodes, In(n, i), Spare(bs, n) PROVE A!SlotsOf(n) <= v - 1
    <3>1. A!SlotsOf(n) <= v /\ A!SlotsOf(n) # v /\ A!SlotsOf(n) \in Nat
      BY <1>1, <1>3, <2>2
    <3> QED BY <1>3, <3>1
  <2>3. v - 1 \in Above
    BY <2>1, <2>2
  <2>4. v <= v - 1
    BY <1>3, <2>3
  <2> QED BY <1>3, <2>4
<1>5. Best(bs, i, v)
  BY <1>3, <1>4 DEF Best
<1> QED BY <1>1, <1>5 DEF Says

\* So there is one exact tree.
LEMMA ExactThere ==
    ASSUME A!BuddyAssumption, NEW bs
    PROVE  \E f : Exact(bs, f)
<1> DEFINE f == [i \in A!Nodes |-> CHOOSE v \in Nat : Says(bs, i, v)]
<1>1. ASSUME NEW i \in A!Nodes PROVE f[i] \in Nat /\ Says(bs, i, f[i])
  <2>1. \E v \in Nat : Says(bs, i, v)
    BY SaysThere
  <2>2. f[i] = CHOOSE v \in Nat : Says(bs, i, v)
    OBVIOUS
  <2> QED BY <2>1, <2>2, Zenon
<1>2. f \in [A!Nodes -> Nat]
  BY <1>1
<1> HIDE DEF f
<1> QED BY <1>1, <1>2 DEF Exact

\* A block is marked as full, and is a part of no other.
LEMMA BlockSays ==
    ASSUME A!BuddyAssumption, NEW bs, BlockSet(bs), NEW f, Exact(bs, f), NEW b \in bs
    PROVE  ~Inner(bs, b) /\ f[b] = 0
<1>1. b \in A!Nodes /\ bs \subseteq A!Nodes
  BY DEF BlockSet
<1>2. ~Inner(bs, b)
  BY <1>1, TreeFacts DEF Inner, BlockSet
<1>3. Best(bs, b, f[b])
  BY <1>1, <1>2 DEF Exact, Says
<1>4. ASSUME NEW n \in A!Nodes, In(n, b), Spare(bs, n) PROVE FALSE
  <2>1. Off(n, b)
    BY <1>4 DEF Spare
  <2> QED BY <1>1, <1>4, <2>1, TreeFacts
<1> QED BY <1>2, <1>3, <1>4 DEF Best

\* A spare node is all free.
LEMMA SpareSays ==
    ASSUME A!BuddyAssumption, NEW bs, BlockSet(bs), NEW f, Exact(bs, f), NEW i \in A!Nodes, Spare(bs, i)
    PROVE  ~Inner(bs, i) /\ f[i] = A!SlotsOf(i)
<1>1. bs \subseteq A!Nodes
  BY DEF BlockSet
<1>2. ~Inner(bs, i)
  BY <1>1, TreeFacts DEF Inner, Spare
<1>3. Best(bs, i, f[i])
  BY <1>2 DEF Exact, Says
<1>4. In(i, i) /\ \A n \in A!Nodes : In(n, i) => n = i \/ A!SlotsOf(n) < A!SlotsOf(i)
  BY TreeFacts
<1>5. \A n \in A!Nodes : A!SlotsOf(n) \in Nat /\ A!SlotsOf(n) > 0
  BY NodeSizes
<1>6. A!SlotsOf(i) <= f[i] /\ f[i] \in Nat
  BY <1>3, <1>4 DEF Best
<1>7. f[i] <= A!SlotsOf(i)
  BY <1>3, <1>4, <1>5, <1>6 DEF Best
<1> QED BY <1>2, <1>5, <1>6, <1>7

\* A node with as much to give as it has slots is spare.
LEMMA FullSays ==
    ASSUME A!BuddyAssumption, NEW bs, NEW f, Exact(bs, f), NEW i \in A!Nodes, ~Inner(bs, i)
    PROVE  f[i] \in Nat /\ f[i] <= A!SlotsOf(i) /\ (f[i] = A!SlotsOf(i) => Spare(bs, i))
<1>1. Best(bs, i, f[i])
  BY DEF Exact, Says
<1>2. \A n \in A!Nodes : In(n, i) => n = i \/ A!SlotsOf(n) < A!SlotsOf(i)
  BY TreeFacts
<1>3. \A n \in A!Nodes : A!SlotsOf(n) \in Nat /\ A!SlotsOf(n) > 0
  BY NodeSizes
<1>4. CASE f[i] = 0
  BY <1>3, <1>4
<1>5. CASE f[i] # 0
  <2>1. PICK n \in A!Nodes : In(n, i) /\ Spare(bs, n) /\ A!SlotsOf(n) = f[i]
    BY <1>1, <1>5 DEF Best
  <2>2. CASE n = i
    BY <1>3, <2>1, <2>2
  <2>3. CASE n # i
    BY <1>2, <1>3, <2>1, <2>3
  <2> QED BY <2>2, <2>3
<1> QED BY <1>4, <1>5

\* The values of a node that is neither a block nor in one come from its children.
LEMMA ChildrenSay ==
    ASSUME A!BuddyAssumption, NEW bs, BlockSet(bs), NEW f, Exact(bs, f), NEW i \in A!Nodes,
           A!SlotsOf(i) # 1, ~Inner(bs, i), i \notin bs
    PROVE  LET l == A!LeftChild(i)
               r == A!RightChild(i)
           IN  /\ ~Inner(bs, l) /\ ~Inner(bs, r)
               /\ f[i] = A!Merged(i, f[l], f[r])
               /\ ~Spare(bs, i) => f[i] = A!Larger(i, f[l], f[r])
<1> DEFINE l == A!LeftChild(i)
           r == A!RightChild(i)
           larger == IF f[l] <= f[r] THEN f[r] ELSE f[l]
<1>1. /\ l \in A!Nodes /\ r \in A!Nodes /\ In(l, i) /\ In(r, i)
      /\ A!SlotsOf(r) = A!SlotsOf(l) /\ A!SlotsOf(i) = 2 * A!SlotsOf(l)
      /\ \A j \in A!Nodes : In(j, i) /\ j # i => In(j, l) \/ In(j, r)
      /\ i # l /\ i # r
  <2>1. i \in Nat
    BY NodeSizes
  <2> QED BY <2>1, ChildFacts
<1> HIDE DEF l, r
<1>2. bs \subseteq A!Nodes
  BY DEF BlockSet
<1>3. ASSUME NEW c \in {l, r}, Inner(bs, c) PROVE FALSE
  <2>1. PICK b \in bs : In(c, b) /\ c # b
    BY <1>3 DEF Inner
  <2>2. b \in A!Nodes /\ c \in A!Nodes /\ In(c, i)
    BY <1>1, <1>2
  <2>3. ~Off(b, i)
    BY <2>1, <2>2, TreeFacts
  <2>4. b # i /\ ~In(i, b)
    BY DEF Inner
  <2>5. In(b, i)
    BY <2>2, <2>3, <2>4, TreeFacts
  <2>6. In(b, l) \/ In(b, r)
    BY <1>1, <2>2, <2>4, <2>5
  <2>7. A!SlotsOf(c) < A!SlotsOf(b)
    BY <2>1, <2>2, TreeFacts
  <2>8. \A n \in {l, r} : In(b, n) => A!SlotsOf(b) <= A!SlotsOf(n)
    BY <1>1, <2>2, TreeFacts, NodeSizes
  <2>9. A!SlotsOf(c) = A!SlotsOf(l) /\ A!SlotsOf(b) \in Nat /\ A!SlotsOf(l) \in Nat
    BY <1>1, <2>2, NodeSizes
  <2> QED BY <1>1, <2>6, <2>7, <2>8, <2>9
<1>4. ~Inner(bs, l) /\ ~Inner(bs, r)
  BY <1>3
<1>5. Best(bs, l, f[l]) /\ Best(bs, r, f[r]) /\ Best(bs, i, f[i])
  BY <1>1, <1>4 DEF Exact, Says
<1>6. f[l] \in Nat /\ f[r] \in Nat /\ f[i] \in Nat /\ A!SlotsOf(l) \in Nat /\ A!SlotsOf(l) > 0
  BY <1>1, <1>5, NodeSizes DEF Best
<1>7. A!Max({f[l], f[r]}) = larger
  <2>1. larger \in {f[l], f[r]} /\ {f[l], f[r]} \in SUBSET Int /\ \A y \in {f[l], f[r]} : y <= larger
    BY <1>6
  <2> HIDE DEF larger
  <2> QED BY <2>1, MaxIs
<1>8. larger \in Nat /\ f[l] <= larger /\ f[r] <= larger /\ (larger = f[l] \/ larger = f[r])
  BY <1>6
<1> HIDE DEF larger
<1>9. CASE Spare(bs, i)
  <2>1. Spare(bs, l) /\ Spare(bs, r)
    BY <1>1, <1>2, <1>9, TreeFacts DEF Spare
  <2>2. f[l] = A!SlotsOf(l) /\ f[r] = A!SlotsOf(r) /\ f[i] = A!SlotsOf(i)
    BY <1>1, <1>9, <2>1, SpareSays
  <2>3. f[l] + f[r] = A!SlotsOf(i)
    BY <1>1, <1>6, <2>2
  <2>4. f[i] = A!Merged(i, f[l], f[r])
    BY <2>2, <2>3 DEF A!Merged
  <2> QED BY <1>4, <1>9, <2>4 DEF l, r
<1>10. CASE ~Spare(bs, i)
  <2>1. \A n \in A!Nodes : In(n, i) /\ Spare(bs, n) => In(n, l) \/ In(n, r)
    BY <1>1, <1>10
  <2>2. Best(bs, i, larger)
    <3>1. ASSUME NEW n \in A!Nodes, In(n, i), Spare(bs, n) PROVE A!SlotsOf(n) <= larger
      <4>1. A!SlotsOf(n) \in Nat
        BY NodeSizes
      <4>2. A!SlotsOf(n) <= f[l] \/ A!SlotsOf(n) <= f[r]
        BY <1>5, <2>1, <3>1 DEF Best
      <4> QED BY <1>6, <1>8, <4>1, <4>2
    <3>2. larger = 0 \/ \E n \in A!Nodes : In(n, i) /\ Spare(bs, n) /\ A!SlotsOf(n) = larger
      <4> SUFFICES ASSUME larger # 0 PROVE \E n \in A!Nodes : In(n, i) /\ Spare(bs, n) /\ A!SlotsOf(n) = larger
        OBVIOUS
      <4>1. PICK c \in {l, r} : larger = f[c]
        BY <1>8
      <4>2. PICK n \in A!Nodes : In(n, c) /\ Spare(bs, n) /\ A!SlotsOf(n) = larger
        BY <1>5, <4>1 DEF Best
      <4>3. In(n, i)
        BY <1>1, <4>1, <4>2, TreeFacts
      <4> QED BY <4>2, <4>3
    <3> QED BY <1>8, <3>1, <3>2 DEF Best
  <2>3. f[i] = larger
    <3>1. Says(bs, i, larger) /\ Says(bs, i, f[i])
      BY <1>5, <2>2 DEF Says
    <3> QED BY <3>1, SaysUnique
  <2>4. f[l] + f[r] # A!SlotsOf(i)
    <3> SUFFICES ASSUME f[l] + f[r] = A!SlotsOf(i) PROVE FALSE
      OBVIOUS
    <3>1. f[l] <= A!SlotsOf(l) /\ f[r] <= A!SlotsOf(r)
      BY <1>1, <1>4, FullSays
    <3>2. f[l] = A!SlotsOf(l) /\ f[r] = A!SlotsOf(r)
      BY <1>1, <1>6, <3>1
    <3>3. Spare(bs, l) /\ Spare(bs, r)
      BY <1>1, <1>4, <3>2, FullSays
    <3>4. ASSUME NEW b \in bs PROVE Off(i, b)
      <4>1. b \in A!Nodes /\ b # i
        BY <1>2
      <4>2. Off(l, b) /\ Off(r, b)
        BY <3>3 DEF Spare
      <4>3. ~In(b, l) /\ ~In(b, r)
        BY <1>1, <4>1, <4>2, TreeFacts
      <4>4. ~In(b, i)
        BY <1>1, <4>1, <4>3
      <4>5. ~In(i, b)
        BY <4>1 DEF Inner
      <4> QED BY <4>1, <4>4, <4>5, TreeFacts
    <3> QED BY <1>10, <3>4 DEF Spare
  <2>5. f[i] = A!Merged(i, f[l], f[r]) /\ f[i] = A!Larger(i, f[l], f[r])
    BY <1>7, <2>3, <2>4 DEF A!Merged, A!Larger
  <2> QED BY <1>4, <2>5 DEF l, r
<1> QED BY <1>9, <1>10

-----------------------------------------------------------------------------
(* The recursive functions of the model: what satisfies their definition   *)
(* is what they are, since a node comes before its children.               *)

\* A set of nodes has a last one.
LEMMA LastNode ==
    ASSUME A!BuddyAssumption, NEW X \in SUBSET A!Nodes, X # {}
    PROVE  \E i \in X : \A j \in X : j <= i
<1> DEFINE m == 2 * total_slot_count_ - 2
           N == {n \in Nat : m - n \in X}
<1>1. m \in Int /\ X \subseteq 0 .. m
  BY DEF A!Nodes, A!BuddyAssumption
<1> HIDE DEF m
<1>2. \A i \in X : i \in Int /\ m - i \in Nat /\ m - (m - i) = i
  BY <1>1
<1>3. \A i \in X : m - i \in N
  BY <1>2
<1>4. N # {} /\ N \in SUBSET Nat
  BY <1>3
<1>5. PICK n \in N : \A k \in N : n <= k
  BY <1>4, LeastOf
<1>6. m - n \in X /\ n \in Nat
  BY <1>5
<1>7. ASSUME NEW j \in X PROVE j <= m - n
  <2>1. n <= m - j
    BY <1>3, <1>5
  <2> QED BY <1>1, <1>2, <1>6, <2>1
<1> QED BY <1>6, <1>7

\* The tree f made from tree, with v at node i, on the way up as the operation does it.
Rebuilt(op, i, v, tree, f) ==
    [j \in A!Nodes |->
        IF j = i THEN v
        ELSE IF j \in A!Path(i)
        THEN IF op = "Free" THEN A!Merged(j, f[A!LeftChild(j)], f[A!RightChild(j)])
             ELSE A!Larger(j, f[A!LeftChild(j)], f[A!RightChild(j)])
        ELSE tree[j]]

\* The way up from a node are the nodes that it lies in.
LEMMA PathFacts ==
    ASSUME A!BuddyAssumption, NEW i \in A!Nodes
    PROVE  /\ \A j \in A!Nodes : j \in A!Path(i) <=> In(i, j)
           /\ \A j \in A!Nodes : In(i, j) /\ j # i =>
                 /\ A!SlotsOf(j) # 1
                 /\ A!LeftChild(j) \in A!Nodes /\ A!RightChild(j) \in A!Nodes
                 /\ j < A!LeftChild(j) /\ j < A!RightChild(j)
<1>1. ASSUME NEW j \in A!Nodes PROVE j \in A!Path(i) <=> In(i, j)
  BY SpanFacts DEF A!Path
<1>2. ASSUME NEW j \in A!Nodes, In(i, j), j # i PROVE A!SlotsOf(j) # 1
  <2>1. A!SlotsOf(i) < A!SlotsOf(j)
    BY <1>2, TreeFacts
  <2> QED BY <2>1, NodeSizes
<1>3. ASSUME NEW j \in A!Nodes, In(i, j), j # i
      PROVE  /\ A!LeftChild(j) \in A!Nodes /\ A!RightChild(j) \in A!Nodes
             /\ j < A!LeftChild(j) /\ j < A!RightChild(j)
  BY <1>2, <1>3, ChildFacts
<1> QED BY <1>1, <1>2, <1>3

\* There is one such tree.
LEMMA RebuiltUnique ==
    ASSUME A!BuddyAssumption, NEW i \in A!Nodes, NEW v, NEW tree, NEW op, NEW f, NEW w,
           f = Rebuilt(op, i, v, tree, f), w = Rebuilt(op, i, v, tree, w)
    PROVE  f = w
<1> DEFINE Val(g, j) ==
               IF j = i THEN v
               ELSE IF j \in A!Path(i)
               THEN IF op = "Free" THEN A!Merged(j, g[A!LeftChild(j)], g[A!RightChild(j)])
                    ELSE A!Larger(j, g[A!LeftChild(j)], g[A!RightChild(j)])
               ELSE tree[j]
           Bad == {j \in A!Nodes : f[j] # w[j]}
<1>1. ASSUME NEW j \in A!Nodes PROVE f[j] = Val(f, j) /\ w[j] = Val(w, j)
  <2>1. Rebuilt(op, i, v, tree, f)[j] = Val(f, j) /\ Rebuilt(op, i, v, tree, w)[j] = Val(w, j)
    BY DEF Rebuilt
  <2> QED BY <2>1, Zenon
<1>2. f = [j \in A!Nodes |-> f[j]] /\ w = [j \in A!Nodes |-> w[j]]
  <2>1. /\ Rebuilt(op, i, v, tree, f) = [j \in A!Nodes |-> Rebuilt(op, i, v, tree, f)[j]]
        /\ Rebuilt(op, i, v, tree, w) = [j \in A!Nodes |-> Rebuilt(op, i, v, tree, w)[j]]
    BY Zenon DEF Rebuilt
  <2> QED BY <2>1, Zenon
<1>3. SUFFICES ASSUME Bad # {} PROVE FALSE
  <2>1. \A j \in A!Nodes : f[j] = w[j]
    BY <1>3
  <2> QED BY <1>2, <2>1, Zenon
<1>4. PICK j \in Bad : \A k \in Bad : k <= j
  <2>1. Bad \in SUBSET A!Nodes
    OBVIOUS
  <2> QED BY <1>3, <2>1, LastNode
<1>5. j \in A!Nodes /\ f[j] # w[j] /\ j \in Nat /\ A!Nodes \subseteq Int
  BY <1>4, NodeSizes DEF A!Nodes
<1>6. j \in A!Path(i) /\ j # i
  BY <1>1, <1>5
<1> DEFINE l == A!LeftChild(j)
           r == A!RightChild(j)
<1>7. l \in A!Nodes /\ r \in A!Nodes /\ j < l /\ j < r
  BY <1>5, <1>6, PathFacts
<1>8. f[l] = w[l] /\ f[r] = w[r]
  <2> HIDE DEF l, r
  <2> QED BY <1>4, <1>5, <1>7
<1>9. Val(f, j) = Val(w, j)
  BY <1>8
<1> QED BY <1>1, <1>5, <1>9

\* What the model's tree is after Free ...
LEMMA MergedTree ==
    ASSUME A!BuddyAssumption, NEW i \in A!Nodes, NEW v, NEW w,
           w = Rebuilt("Free", i, v, max_consecutive_slot_, w)
    PROVE  A!Refreshed(i, v, A!Merged) = w
<1> DEFINE f == CHOOSE f : f = Rebuilt("Free", i, v, max_consecutive_slot_, f)
<1>1. A!Refreshed(i, v, A!Merged) = f
  BY DEF A!Refreshed, Rebuilt
<1>2. f = Rebuilt("Free", i, v, max_consecutive_slot_, f)
  BY Zenon
<1> HIDE DEF f
<1>3. f = w
  <2>1. PICK tree, g : tree = max_consecutive_slot_ /\ g = f
    OBVIOUS
  <2>2. w = Rebuilt("Free", i, v, tree, w) /\ g = Rebuilt("Free", i, v, tree, g)
    BY <1>2, <2>1, Zenon
  <2>3. g = w
    BY <2>2, RebuiltUnique
  <2> QED BY <2>1, <2>3, Zenon
<1> QED BY <1>1, <1>3

\* ... and after Allocate.
LEMMA LargerTree ==
    ASSUME A!BuddyAssumption, NEW i \in A!Nodes, NEW v, NEW w,
           w = Rebuilt("Allocate", i, v, max_consecutive_slot_, w)
    PROVE  A!Refreshed(i, v, A!Larger) = w
<1> DEFINE f == CHOOSE f : f = Rebuilt("Allocate", i, v, max_consecutive_slot_, f)
<1>1. A!Refreshed(i, v, A!Larger) = f
  BY DEF A!Refreshed, Rebuilt
<1>2. f = Rebuilt("Allocate", i, v, max_consecutive_slot_, f)
  BY Zenon
<1> HIDE DEF f
<1>3. f = w
  <2>1. PICK tree, g : tree = max_consecutive_slot_ /\ g = f
    OBVIOUS
  <2>2. w = Rebuilt("Allocate", i, v, tree, w) /\ g = Rebuilt("Allocate", i, v, tree, g)
    BY <1>2, <2>1, Zenon
  <2>3. g = w
    BY <2>2, RebuiltUnique
  <2> QED BY <2>1, <2>3, Zenon
<1> QED BY <1>1, <1>3

-----------------------------------------------------------------------------
(* What the operations do to a tree that is exact.                         *)

\* Free and SlotCountFor find the block that begins at an offset: the nodes below
\* it on the way up are parts of it, and have a value.
LEMMA BlockFound ==
    ASSUME A!BuddyAssumption, NEW bs, BlockSet(bs), NEW f, Exact(bs, f), NEW b \in bs
    PROVE  A!BlockAt(f, A!OffsetOf(b)) = b
<1> DEFINE x == A!OffsetOf(b)
           leaf == x + total_slot_count_ - 1
           X == {i \in A!Path(leaf) : f[i] = 0}
<1>1. b \in A!Nodes
  BY DEF BlockSet
<1>2. /\ A!SlotsOf(b) \in Nat /\ A!SlotsOf(b) > 0 /\ x \in Nat /\ b \in Nat
      /\ x + A!SlotsOf(b) <= total_slot_count_
  BY <1>1, NodeSizes
<1>3. x \in 0 .. total_slot_count_ - 1
  BY <1>2 DEF A!BuddyAssumption
<1>4. leaf \in A!Nodes /\ A!SlotsOf(leaf) = 1 /\ A!OffsetOf(leaf) = x
  BY <1>3, LeafNode
<1> HIDE DEF leaf
<1>5. In(leaf, b)
  BY <1>2, <1>4 DEF In
<1>6. b \in X
  BY <1>1, <1>4, <1>5, BlockSays, PathFacts
<1>7. ASSUME NEW i \in X PROVE i <= b
  <2>1. i \in A!Nodes /\ f[i] = 0
    BY DEF A!Path
  <2>2. In(leaf, i) /\ i \in Nat
    BY <1>4, <2>1, PathFacts, NodeSizes
  <2>3. ~Off(i, b)
    BY <1>1, <1>4, <1>5, <2>1, <2>2, TreeFacts
  <2>4. CASE In(i, b) /\ i # b
    <3>1. Inner(bs, i)
      BY <2>4 DEF Inner
    <3>2. f[i] = A!SlotsOf(i)
      BY <2>1, <3>1 DEF Exact, Says
    <3>3. A!SlotsOf(i) > 0 /\ A!SlotsOf(i) \in Nat
      BY <2>1, NodeSizes
    <3> QED BY <2>1, <3>2, <3>3
  <2>5. CASE i = b
    BY <1>2, <2>5
  <2>6. CASE In(b, i) /\ i # b
    <3>1. i < b
      BY <1>1, <2>1, <2>6, TreeFacts
    <3> QED BY <1>2, <2>2, <3>1
  <2> QED BY <1>1, <2>1, <2>3, <2>4, <2>5, <2>6, TreeFacts
<1>8. X \in SUBSET Int
  BY DEF A!Path, A!Nodes
<1>9. A!Max(X) = b
  BY <1>6, <1>7, <1>8, MaxIs
<1> QED BY <1>9 DEF A!BlockAt, leaf

\* Off the node that comes or goes nothing changes.
LEMMA OffSame ==
    ASSUME A!BuddyAssumption, NEW bs, NEW a \in A!Nodes, bs \subseteq A!Nodes, NEW i \in A!Nodes, Off(i, a), NEW v
    PROVE  Says(bs \cup {a}, i, v) <=> Says(bs \ {a}, i, v)
<1>1. ~In(i, a)
  BY TreeFacts
<1>2. Inner(bs \cup {a}, i) <=> Inner(bs \ {a}, i)
  BY <1>1 DEF Inner
<1>3. ASSUME NEW n \in A!Nodes, In(n, i) PROVE Spare(bs \cup {a}, n) <=> Spare(bs \ {a}, n)
  <2>1. Off(n, a)
    BY <1>3, TreeFacts
  <2> QED BY <2>1 DEF Spare
<1>4. Best(bs \cup {a}, i, v) <=> Best(bs \ {a}, i, v)
  BY <1>3 DEF Best
<1> QED BY <1>2, <1>4 DEF Says

\* Free: the tree without a block is the one made from the block upwards.
LEMMA FreedTree ==
    ASSUME A!BuddyAssumption, NEW bs, BlockSet(bs), NEW tree, Exact(bs, tree), NEW b \in bs,
           NEW w, Exact(bs \ {b}, w)
    PROVE  BlockSet(bs \ {b}) /\ w = Rebuilt("Free", b, A!SlotsOf(b), tree, w)
<1> DEFINE cs == bs \ {b}
<1>1. bs \subseteq A!Nodes /\ b \in A!Nodes /\ cs \subseteq A!Nodes /\ bs \cup {b} = bs
  BY DEF BlockSet
<1>2. BlockSet(cs) /\ Spare(cs, b)
  BY DEF BlockSet, Spare
<1>3. \A c \in cs : c \in bs /\ c # b
  OBVIOUS
<1>4. Exact(cs, w)
  OBVIOUS
<1> HIDE DEF cs
<1> DEFINE Val(j) ==
               IF j = b THEN A!SlotsOf(b)
               ELSE IF j \in A!Path(b)
               THEN IF "Free" = "Free" THEN A!Merged(j, w[A!LeftChild(j)], w[A!RightChild(j)])
                    ELSE A!Larger(j, w[A!LeftChild(j)], w[A!RightChild(j)])
               ELSE tree[j]
<1>5. ASSUME NEW j \in A!Nodes PROVE w[j] = Val(j)
  <2>1. CASE j = b
    BY <1>2, <1>4, <2>1, SpareSays
  <2>2. CASE j # b /\ In(b, j)
    <3>1. j \in A!Path(b) /\ A!SlotsOf(j) # 1
      BY <1>1, <2>2, PathFacts
    <3>2. ASSUME NEW c \in cs PROVE ~In(j, c)
      <4>1. c \in A!Nodes /\ Off(b, c)
        BY <1>1, <1>2 DEF Spare
      <4> QED BY <1>1, <2>2, <4>1, TreeFacts
    <3>3. ~Inner(cs, j)
      BY <3>2 DEF Inner
    <3>4. j \notin cs
      BY <3>2, TreeFacts
    <3>5. w[j] = A!Merged(j, w[A!LeftChild(j)], w[A!RightChild(j)])
      BY <1>2, <1>4, <3>1, <3>3, <3>4, ChildrenSay
    <3> QED BY <2>2, <3>1, <3>5
  <2>3. CASE j # b /\ In(j, b)
    <3>1. j \notin A!Path(b)
      BY <1>1, <2>3, PathFacts, TreeFacts
    <3>2. Inner(bs, j)
      BY <2>3 DEF Inner
    <3>3. tree[j] = A!SlotsOf(j)
      BY <3>2 DEF Exact, Says
    <3>4. Spare(cs, j)
      BY <1>1, <1>2, <2>3, TreeFacts DEF Spare
    <3>5. w[j] = A!SlotsOf(j)
      BY <1>2, <1>4, <3>4, SpareSays
    <3> QED BY <2>3, <3>1, <3>3, <3>5
  <2>4. CASE Off(j, b)
    <3>1. j \notin A!Path(b) /\ j # b
      BY <1>1, <2>4, PathFacts, TreeFacts
    <3>2. Says(bs, j, tree[j]) /\ Says(cs, j, w[j])
      BY <1>4 DEF Exact
    <3>3. Says(bs \cup {b}, j, tree[j]) <=> Says(bs \ {b}, j, tree[j])
      BY <1>1, <2>4, OffSame
    <3>4. Says(cs, j, tree[j])
      BY <1>1, <3>2, <3>3 DEF cs
    <3>5. w[j] = tree[j]
      BY <3>2, <3>4, SaysUnique
    <3> QED BY <3>1, <3>5
  <2> QED BY <1>1, <2>1, <2>2, <2>3, <2>4, TreeFacts
<1>6. w = [j \in A!Nodes |-> w[j]]
  BY <1>4 DEF Exact
<1>7. Rebuilt("Free", b, A!SlotsOf(b), tree, w) = [j \in A!Nodes |-> Val(j)]
  BY Zenon DEF Rebuilt
<1>8. [j \in A!Nodes |-> w[j]] = [j \in A!Nodes |-> Val(j)]
  BY <1>5, Zenon
<1> HIDE DEF Val
<1>9. w = Rebuilt("Free", b, A!SlotsOf(b), tree, w)
  BY <1>6, <1>7, <1>8, Zenon
<1> QED BY <1>2, <1>9 DEF cs

\* Allocate: the tree with a block more is the one made from it upwards.
LEMMA AllocatedTree ==
    ASSUME A!BuddyAssumption, NEW bs, BlockSet(bs), NEW tree, Exact(bs, tree),
           NEW a \in A!Nodes, Spare(bs, a), NEW w, Exact(bs \cup {a}, w)
    PROVE  BlockSet(bs \cup {a}) /\ a \notin bs /\ w = Rebuilt("Allocate", a, 0, tree, w)
<1> DEFINE cs == bs \cup {a}
<1>1. bs \subseteq A!Nodes /\ a \notin bs /\ \A c \in bs : Off(a, c) /\ Off(c, a)
  BY TreeFacts DEF BlockSet, Spare
<1>2. BlockSet(cs)
  BY <1>1 DEF BlockSet
<1>3. a \in cs /\ cs \subseteq A!Nodes /\ bs \ {a} = bs /\ \A c \in cs : c = a \/ c \in bs
  BY <1>1
<1>4. Exact(cs, w)
  OBVIOUS
<1> HIDE DEF cs
<1> DEFINE Val(j) ==
               IF j = a THEN 0
               ELSE IF j \in A!Path(a)
               THEN IF "Allocate" = "Free" THEN A!Merged(j, w[A!LeftChild(j)], w[A!RightChild(j)])
                    ELSE A!Larger(j, w[A!LeftChild(j)], w[A!RightChild(j)])
               ELSE tree[j]
<1>5. ASSUME NEW j \in A!Nodes PROVE w[j] = Val(j)
  <2>1. CASE j = a
    BY <1>2, <1>3, <1>4, <2>1, BlockSays
  <2>2. CASE j # a /\ In(a, j)
    <3>1. j \in A!Path(a) /\ A!SlotsOf(j) # 1
      BY <2>2, PathFacts
    <3>2. ASSUME NEW c \in cs PROVE ~In(j, c)
      <4>1. c \in A!Nodes
        BY <1>3
      <4>2. CASE c = a
        BY <2>2, <4>2, TreeFacts
      <4>3. CASE c # a
        BY <1>1, <1>3, <2>2, <4>1, <4>3, TreeFacts
      <4> QED BY <4>2, <4>3
    <3>3. ~Inner(cs, j)
      BY <3>2 DEF Inner
    <3>4. j \notin cs
      BY <3>2, TreeFacts
    <3>5. ~Spare(cs, j)
      <4>1. ~Off(j, a)
        BY <2>2, TreeFacts
      <4> QED BY <1>3, <4>1 DEF Spare
    <3>6. w[j] = A!Larger(j, w[A!LeftChild(j)], w[A!RightChild(j)])
      BY <1>2, <1>4, <3>1, <3>3, <3>4, <3>5, ChildrenSay
    <3> QED BY <2>2, <3>1, <3>6
  <2>3. CASE j # a /\ In(j, a)
    <3>1. j \notin A!Path(a)
      BY <2>3, PathFacts, TreeFacts
    <3>2. Inner(cs, j)
      BY <1>3, <2>3 DEF Inner
    <3>3. w[j] = A!SlotsOf(j)
      BY <1>4, <3>2 DEF Exact, Says
    <3>4. Spare(bs, j)
      BY <1>1, <2>3, TreeFacts DEF Spare
    <3>5. tree[j] = A!SlotsOf(j)
      BY <3>4, SpareSays
    <3> QED BY <2>3, <3>1, <3>3, <3>5
  <2>4. CASE Off(j, a)
    <3>1. j \notin A!Path(a) /\ j # a
      BY <2>4, PathFacts, TreeFacts
    <3>2. Says(bs, j, tree[j]) /\ Says(cs, j, w[j])
      BY <1>4 DEF Exact
    <3>3. Says(bs \cup {a}, j, tree[j]) <=> Says(bs \ {a}, j, tree[j])
      BY <1>1, <2>4, OffSame
    <3>4. Says(cs, j, tree[j])
      BY <1>3, <3>2, <3>3 DEF cs
    <3>5. w[j] = tree[j]
      BY <3>2, <3>4, SaysUnique
    <3> QED BY <3>1, <3>5
  <2> QED BY <2>1, <2>2, <2>3, <2>4, TreeFacts
<1>6. w = [j \in A!Nodes |-> w[j]]
  BY <1>4 DEF Exact
<1>7. Rebuilt("Allocate", a, 0, tree, w) = [j \in A!Nodes |-> Val(j)]
  BY Zenon DEF Rebuilt
<1>8. [j \in A!Nodes |-> w[j]] = [j \in A!Nodes |-> Val(j)]
  BY <1>5, Zenon
<1> HIDE DEF Val
<1>9. w = Rebuilt("Allocate", a, 0, tree, w)
  BY <1>6, <1>7, <1>8, Zenon
<1> QED BY <1>1, <1>2, <1>9 DEF cs

\* The way down to a node of so many slots.
Large(needed) == {i \in A!Nodes : A!SlotsOf(i) >= needed}
Descent(tree, needed, f) ==
    [i \in Large(needed) |->
        IF A!SlotsOf(i) = needed THEN i
        ELSE IF tree[A!LeftChild(i)] >= needed
        THEN f[A!LeftChild(i)] ELSE f[A!RightChild(i)]]

\* The children of a node that is larger than needed are large enough.
LEMMA LargeChildren ==
    ASSUME A!BuddyAssumption, NEW needed \in Powers, NEW i \in Large(needed), A!SlotsOf(i) # needed
    PROVE  /\ A!SlotsOf(i) # 1
           /\ A!LeftChild(i) \in Large(needed) /\ A!RightChild(i) \in Large(needed)
           /\ i < A!LeftChild(i) /\ i < A!RightChild(i)
<1> DEFINE l == A!LeftChild(i)
           r == A!RightChild(i)
<1>1. i \in A!Nodes /\ A!SlotsOf(i) \in Nat /\ A!SlotsOf(i) \in Powers /\ A!SlotsOf(i) >= needed
  BY NodeSizes DEF Large
<1>2. needed \in Nat /\ needed > 0
  BY PowerFacts
<1>3. 2 * needed <= A!SlotsOf(i) /\ A!SlotsOf(i) # 1
  BY <1>1, <1>2, PowerGap
<1>4. /\ l \in A!Nodes /\ r \in A!Nodes /\ i < l /\ i < r
      /\ A!SlotsOf(r) = A!SlotsOf(l) /\ A!SlotsOf(i) = 2 * A!SlotsOf(l)
  BY <1>1, <1>3, ChildFacts
<1> HIDE DEF l, r
<1>5. A!SlotsOf(l) \in Nat
  BY <1>4, NodeSizes
<1>6. A!SlotsOf(l) >= needed /\ A!SlotsOf(r) >= needed
  BY <1>1, <1>2, <1>3, <1>4, <1>5
<1> QED BY <1>3, <1>4, <1>6 DEF Large, l, r

\* There is such a way, made from the last node to the first.
LEMMA DescentThere ==
    ASSUME A!BuddyAssumption, NEW tree, NEW needed \in Powers
    PROVE  \E f : f = Descent(tree, needed, f)
<1> DEFINE D == Large(needed)
           Val(f, i) == IF A!SlotsOf(i) = needed THEN i
                        ELSE IF tree[A!LeftChild(i)] >= needed
                        THEN f[A!LeftChild(i)] ELSE f[A!RightChild(i)]
           From(m, f) == \A i \in D : m <= i => f[i] = Val(f, i)
           M == {m \in Nat : \E f \in [D -> A!Nodes] : From(m, f)}
<1>1. D \subseteq A!Nodes /\ A!Nodes \subseteq Nat /\ \A i \in A!Nodes : ~(2 * total_slot_count_ <= i)
  BY DEF Large, A!Nodes, A!BuddyAssumption
<1>a. \A i \in D : i \in Nat
  BY <1>1
<1>2. \A i \in D : A!SlotsOf(i) # needed =>
         A!LeftChild(i) \in D /\ A!RightChild(i) \in D /\ i < A!LeftChild(i) /\ i < A!RightChild(i)
  BY LargeChildren
<1>3. 2 * total_slot_count_ \in M
  <2>1. [i \in D |-> 0] \in [D -> A!Nodes]
    BY RootNode
  <2>2. \A f : From(2 * total_slot_count_, f)
    BY <1>1
  <2>3. 2 * total_slot_count_ \in Nat
    BY DEF A!BuddyAssumption
  <2> HIDE DEF From
  <2> QED BY <2>1, <2>2, <2>3
<1>4. PICK m \in M : \A k \in M : m <= k
  <2>1. M \in SUBSET Nat
    OBVIOUS
  <2> QED BY <1>3, <2>1, LeastOf
<1>5. PICK f \in [D -> A!Nodes] : From(m, f)
  BY <1>4
<1>6. m \in Nat
  BY <1>4
<1>7. m = 0
  <2> SUFFICES ASSUME m # 0 PROVE FALSE
    OBVIOUS
  <2>1. PICK k \in Nat : m = k + 1
    <3>1. m - 1 \in Nat /\ m = (m - 1) + 1
      BY <1>6
    <3> QED BY <3>1
  <2> DEFINE g == [i \in D |-> IF i = k THEN Val(f, k) ELSE f[i]]
  <2>2. k \in D => Val(f, k) \in A!Nodes
    BY <1>1, <1>2
  <2>3. g \in [D -> A!Nodes]
    BY <2>2
  <2>4. ASSUME NEW i \in D, k <= i PROVE g[i] = Val(g, i)
    <3>1. \A c \in D : i < c => g[c] = f[c]
      <4> SUFFICES ASSUME NEW c \in D, i < c PROVE g[c] = f[c]
        OBVIOUS
      <4>1. i \in Nat /\ c \in Nat
        BY <1>a
      <4>2. c # k
        BY <2>4, <4>1
      <4> QED BY <4>2
    <3>2. g[i] = Val(f, i)
      <4>1. CASE i = k
        BY <4>1
      <4>2. CASE i # k
        <5>1. m <= i
          <6>1. i \in Nat
            BY <1>a
          <6> QED BY <2>1, <2>4, <4>2, <6>1
        <5> QED BY <1>5, <4>2, <5>1
      <4> QED BY <4>1, <4>2
    <3>3. Val(f, i) = Val(g, i)
      <4> HIDE DEF g
      <4>1. CASE A!SlotsOf(i) = needed
        BY <4>1
      <4>2. CASE A!SlotsOf(i) # needed
        <5>1. g[A!LeftChild(i)] = f[A!LeftChild(i)] /\ g[A!RightChild(i)] = f[A!RightChild(i)]
          BY <1>2, <3>1, <4>2
        <5> QED BY <5>1
      <4> QED BY <4>1, <4>2
    <3> QED BY <3>2, <3>3
  <2>5. From(k, g)
    BY <2>4
  <2>6. k \in M
    <3> HIDE DEF From, g
    <3> QED BY <2>3, <2>5
  <2>7. m <= k
    <3> HIDE DEF M
    <3> QED BY <1>4, <2>6
  <2> QED BY <2>1, <2>7
<1>8. ASSUME NEW i \in D PROVE f[i] = Val(f, i)
  <2>1. 0 <= i
    BY <1>a
  <2> QED BY <1>5, <1>7, <2>1
<1>9. f = [i \in D |-> f[i]]
  BY <1>5
<1>10. [i \in D |-> f[i]] = [i \in D |-> Val(f, i)]
  BY <1>8, Zenon
<1>11. Descent(tree, needed, f) = [i \in D |-> Val(f, i)]
  BY Zenon DEF Descent
<1> HIDE DEF Val, D
<1> QED BY <1>9, <1>10, <1>11, Zenon

\* It leads to a spare node: where there is one of the size in a node, there is
\* one in the child that is taken.
LEMMA DescentFinds ==
    ASSUME A!BuddyAssumption, NEW bs, BlockSet(bs), NEW tree, Exact(bs, tree), NEW needed \in Powers,
           NEW f, f = Descent(tree, needed, f), NEW i \in Large(needed), ~Inner(bs, i), tree[i] >= needed
    PROVE  f[i] \in A!Nodes /\ A!SlotsOf(f[i]) = needed /\ Spare(bs, f[i])
<1> DEFINE D == Large(needed)
           Leads(j) == ~Inner(bs, j) /\ tree[j] >= needed =>
                          f[j] \in A!Nodes /\ A!SlotsOf(f[j]) = needed /\ Spare(bs, f[j])
           Bad == {j \in D : ~Leads(j)}
<1>1. SUFFICES ASSUME Bad # {} PROVE FALSE
  OBVIOUS
<1>2. D \subseteq A!Nodes
  BY DEF Large
<1>3. PICK j \in Bad : \A k \in Bad : k <= j
  <2>1. Bad \in SUBSET A!Nodes
    BY <1>2
  <2> HIDE DEF Bad
  <2> QED BY <1>1, <2>1, LastNode
<1>4. j \in D /\ j \in A!Nodes /\ ~Inner(bs, j) /\ tree[j] >= needed
  BY <1>2, <1>3
<1>5. f[j] = IF A!SlotsOf(j) = needed THEN j
             ELSE IF tree[A!LeftChild(j)] >= needed
             THEN f[A!LeftChild(j)] ELSE f[A!RightChild(j)]
  <2>1. Descent(tree, needed, f)[j] =
            IF A!SlotsOf(j) = needed THEN j
            ELSE IF tree[A!LeftChild(j)] >= needed
            THEN f[A!LeftChild(j)] ELSE f[A!RightChild(j)]
    BY <1>4 DEF Descent
  <2> QED BY <2>1, Zenon
<1>6. tree[j] \in Nat /\ tree[j] <= A!SlotsOf(j) /\ (tree[j] = A!SlotsOf(j) => Spare(bs, j))
  BY <1>4, FullSays
<1>7. needed \in Nat /\ needed > 0 /\ A!SlotsOf(j) \in Nat /\ j \in Nat
  BY <1>4, PowerFacts, NodeSizes
<1>8. CASE A!SlotsOf(j) = needed
  <2>1. Spare(bs, j) /\ f[j] = j
    BY <1>4, <1>5, <1>6, <1>7, <1>8
  <2> QED BY <1>3, <1>4, <1>8, <2>1
<1>9. CASE A!SlotsOf(j) # needed
  <2> DEFINE l == A!LeftChild(j)
             r == A!RightChild(j)
  <2>1. A!SlotsOf(j) # 1 /\ l \in D /\ r \in D /\ j < l /\ j < r
    BY <1>4, <1>9, LargeChildren
  <2>2. j \notin bs
    <3>1. j \in bs => tree[j] = 0
      BY BlockSays
    <3> QED BY <1>4, <1>7, <3>1
  <2>3. ~Inner(bs, l) /\ ~Inner(bs, r) /\ tree[j] = A!Merged(j, tree[l], tree[r])
    BY <1>4, <2>1, <2>2, ChildrenSay
  <2>4. A!SlotsOf(r) = A!SlotsOf(l) /\ A!SlotsOf(j) = 2 * A!SlotsOf(l)
    BY <1>4, <2>1, ChildFacts
  <2>5. f[j] = IF tree[l] >= needed THEN f[l] ELSE f[r]
    BY <1>5, <1>9
  <2> HIDE DEF l, r
  <2>6. /\ tree[l] \in Nat /\ tree[l] <= A!SlotsOf(l)
        /\ tree[r] \in Nat /\ tree[r] <= A!SlotsOf(r)
    BY <1>2, <2>1, <2>3, FullSays
  <2>7. A!SlotsOf(l) \in Nat /\ A!SlotsOf(l) >= needed
    BY <1>2, <2>1, NodeSizes DEF Large
  <2>8. tree[l] >= needed \/ tree[r] >= needed
    <3>1. CASE tree[l] + tree[r] = A!SlotsOf(j)
      BY <2>4, <2>6, <2>7, <3>1
    <3>2. CASE tree[l] + tree[r] # A!SlotsOf(j)
      <4>1. tree[j] = A!Max({tree[l], tree[r]})
        BY <2>3, <3>2 DEF A!Merged
      <4>2. CASE tree[l] <= tree[r]
        <5>1. A!Max({tree[l], tree[r]}) = tree[r]
          <6>1. {tree[l], tree[r]} \in SUBSET Int /\ tree[r] \in {tree[l], tree[r]} /\ \A y \in {tree[l], tree[r]} : y <= tree[r]
            BY <2>6, <4>2
          <6> QED BY <6>1, MaxIs
        <5> QED BY <1>4, <4>1, <5>1
      <4>3. CASE tree[r] <= tree[l]
        <5>1. A!Max({tree[l], tree[r]}) = tree[l]
          <6>1. {tree[l], tree[r]} \in SUBSET Int /\ tree[l] \in {tree[l], tree[r]} /\ \A y \in {tree[l], tree[r]} : y <= tree[l]
            BY <2>6, <4>3
          <6> QED BY <6>1, MaxIs
        <5> QED BY <1>4, <4>1, <5>1
      <4> QED BY <2>6, <4>2, <4>3
    <3> QED BY <3>1, <3>2
  <2>9. PICK c \in {l, r} : f[j] = f[c] /\ tree[c] >= needed
    BY <2>5, <2>8
  <2>10. c \in D /\ ~(c <= j) /\ ~Inner(bs, c)
    <3>1. l \in Nat /\ r \in Nat
      BY <1>2, <2>1, NodeSizes
    <3> QED BY <1>7, <2>1, <2>3, <3>1
  <2>11. Leads(c)
    BY <1>3, <2>10
  <2>12. Leads(j)
    BY <2>9, <2>10, <2>11
  <2> QED BY <1>3, <2>12
<1> QED BY <1>8, <1>9

\* So does the model's.
LEMMA DescendFinds ==
    ASSUME A!BuddyAssumption, NEW bs, BlockSet(bs), Exact(bs, max_consecutive_slot_), NEW needed \in Powers,
           max_consecutive_slot_[0] >= needed
    PROVE  \E a \in A!Nodes : A!Descend(needed) = a /\ A!SlotsOf(a) = needed /\ Spare(bs, a)
<1>1. PICK tree : tree = max_consecutive_slot_
  OBVIOUS
<1> DEFINE f == CHOOSE f : f = Descent(tree, needed, f)
<1>2. A!Descend(needed) = f[0]
  BY <1>1 DEF A!Descend, Descent, Large
<1>3. f = Descent(tree, needed, f)
  <2>1. \E g : g = Descent(tree, needed, g)
    BY DescentThere
  <2> QED BY <2>1, Zenon
<1> HIDE DEF f
<1>4. PICK g : g = f
  OBVIOUS
<1>5. g = Descent(tree, needed, g) /\ Exact(bs, tree) /\ tree[0] >= needed
  BY <1>1, <1>3, <1>4
<1>6. 0 \in A!Nodes /\ \A b \in A!Nodes : In(b, 0)
  BY RootNode, TreeFacts
<1>7. ~Inner(bs, 0)
  <2>1. bs \subseteq A!Nodes
    BY DEF BlockSet
  <2> QED BY <1>6, <2>1, TreeFacts DEF Inner
<1>8. 0 \in Large(needed)
  <2>1. tree[0] \in Nat /\ tree[0] <= A!SlotsOf(0) /\ A!SlotsOf(0) \in Nat /\ needed \in Nat
    BY <1>5, <1>6, <1>7, FullSays, NodeSizes, PowerFacts
  <2> QED BY <1>5, <1>6, <2>1 DEF Large
<1>9. g[0] \in A!Nodes /\ A!SlotsOf(g[0]) = needed /\ Spare(bs, g[0])
  BY <1>5, <1>7, <1>8, DescentFinds
<1> QED BY <1>2, <1>4, <1>9

-----------------------------------------------------------------------------
(* The states.                                                             *)

\* The blocks are those of the table, and the tree is exact for them.
BuddyAt(bs) ==
    /\ BlockSet(bs)
    /\ Exact(bs, max_consecutive_slot_)
    /\ DOMAIN allocation_table_ = {A!OffsetOf(b) : b \in bs}
    /\ \A b \in bs : allocation_table_[A!OffsetOf(b)] = A!SlotsOf(b)

BuddyInv == \E bs \in SUBSET A!Nodes : BuddyAt(bs)

\* At first there is no block.
LEMMA BuddyInit ==
    ASSUME A!BuddyAssumption, A!Init
    PROVE  BuddyInv
<1> DEFINE bs == {}
<1>1. BlockSet(bs) /\ \A i \in A!Nodes : Spare(bs, i)
  BY DEF BlockSet, Spare
<1>2. PICK w : Exact(bs, w)
  BY ExactThere
<1>3. \A i \in A!Nodes : w[i] = A!SlotsOf(i)
  BY <1>1, <1>2, SpareSays
<1>4. w = [i \in A!Nodes |-> w[i]]
  BY <1>2 DEF Exact
<1>5. [i \in A!Nodes |-> w[i]] = [i \in A!Nodes |-> A!SlotsOf(i)]
  BY <1>3, Zenon
<1>6. max_consecutive_slot_ = w
  <2>1. max_consecutive_slot_ = [i \in A!Nodes |-> A!SlotsOf(i)]
    BY DEF A!Init
  <2> QED BY <1>4, <1>5, <2>1, Zenon
<1>7. DOMAIN allocation_table_ = {}
  BY DEF A!Init
<1>8. BuddyAt(bs)
  BY <1>1, <1>2, <1>6, <1>7 DEF BuddyAt
<1> QED BY <1>8 DEF BuddyInv

\* Two blocks do not begin at the same slot.
LEMMA BlockOffsets ==
    ASSUME A!BuddyAssumption, NEW bs, BlockSet(bs), NEW b \in bs, NEW c \in bs, A!OffsetOf(b) = A!OffsetOf(c)
    PROVE  b = c
<1>1. b \in A!Nodes /\ c \in A!Nodes /\ (b # c => Off(b, c))
  BY DEF BlockSet
<1>2. \A i \in A!Nodes : A!SlotsOf(i) \in Nat /\ A!SlotsOf(i) > 0 /\ A!OffsetOf(i) \in Nat
  BY NodeSizes
<1> QED BY <1>1, <1>2 DEF Off

\* Allocate looks for a power of 2, unless for more slots than there are.
LEMMA NearestFacts ==
    ASSUME A!BuddyAssumption, NEW n \in 1 .. total_slot_count_
    PROVE  /\ A!NearestUpperPowerOf2(n) \in Nat
           /\ A!NearestUpperPowerOf2(n) <= total_slot_count_ => A!NearestUpperPowerOf2(n) \in Powers
<1> DEFINE X == {p \in A!PowersOf2 \cup {2 * total_slot_count_} : p >= n}
<1>1. /\ total_slot_count_ \in Nat /\ total_slot_count_ > 0 /\ total_slot_count_ \in A!PowersOf2
      /\ \A p \in A!PowersOf2 : p \in Nat
  BY PowerFacts DEF Powers
<1>2. X \in SUBSET Nat
  <2>1. 2 * total_slot_count_ \in Nat
    BY <1>1
  <2> QED BY <1>1, <2>1
<1>3. total_slot_count_ \in X
  <2>1. total_slot_count_ >= n
    BY <1>1
  <2> QED BY <1>1, <2>1
<1> HIDE DEF X
<1>4. PICK m \in X : \A k \in X : m <= k
  BY <1>2, <1>3, LeastOf
<1>5. A!Min(X) \in X
  BY <1>4, Zenon DEF A!Min
<1>6. A!NearestUpperPowerOf2(n) = A!Min(X)
  BY DEF A!NearestUpperPowerOf2, X
<1>7. PICK y \in X : A!NearestUpperPowerOf2(n) = y
  BY <1>5, <1>6
<1>8. y \in Nat /\ (y \in A!PowersOf2 \/ y = 2 * total_slot_count_)
  BY <1>2, <1>7 DEF X
<1>9. y <= total_slot_count_ => y # 2 * total_slot_count_
  BY <1>1
<1> QED BY <1>7, <1>8, <1>9 DEF Powers

\* Allocate adds a block.
LEMMA BuddyAllocates ==
    ASSUME A!BuddyAssumption, BuddyInv, NEW n \in 1 .. total_slot_count_, A!Allocate(n)
    PROVE  BuddyInv'
<1>1. PICK bs \in SUBSET A!Nodes : BuddyAt(bs)
  BY DEF BuddyInv
<1>2. BlockSet(bs) /\ Exact(bs, max_consecutive_slot_)
  BY <1>1 DEF BuddyAt
<1>3. PICK needed : needed = A!NearestUpperPowerOf2(n)
  OBVIOUS
<1>4. max_consecutive_slot_[0] >= needed
  BY <1>3 DEF A!Allocate
<1>5. PICK tree : tree = max_consecutive_slot_
  OBVIOUS
<1>6. needed \in Powers
  <2>1. 0 \in A!Nodes /\ A!SlotsOf(0) = total_slot_count_
    BY RootNode
  <2>2. bs \subseteq A!Nodes /\ ~Inner(bs, 0)
    BY <1>2, <2>1, TreeFacts DEF Inner, BlockSet
  <2>3. Exact(bs, tree) /\ tree[0] >= needed
    BY <1>2, <1>4, <1>5
  <2>4. tree[0] \in Nat /\ tree[0] <= total_slot_count_
    BY <2>1, <2>2, <2>3, FullSays
  <2>5. needed \in Nat
    BY <1>3, NearestFacts
  <2>6. needed <= total_slot_count_
    BY <2>3, <2>4, <2>5 DEF A!BuddyAssumption
  <2> QED BY <1>3, <2>6, NearestFacts
<1>7. PICK a \in A!Nodes : A!Descend(needed) = a /\ A!SlotsOf(a) = needed /\ Spare(bs, a)
  BY <1>2, <1>4, <1>6, DescendFinds
<1>8. /\ max_consecutive_slot_' = A!Refreshed(a, 0, A!Larger)
      /\ allocation_table_' =
            [x \in DOMAIN allocation_table_ \cup {A!OffsetOf(a)} |->
                IF x = A!OffsetOf(a) THEN A!SlotCountFor(max_consecutive_slot_', A!OffsetOf(a))
                ELSE allocation_table_[x]]
  BY <1>3, <1>7 DEF A!Allocate
<1>9. PICK w : Exact(bs \cup {a}, w)
  BY ExactThere
<1>10. BlockSet(bs \cup {a}) /\ a \notin bs /\ w = Rebuilt("Allocate", a, 0, tree, w)
  BY <1>2, <1>5, <1>7, <1>9, AllocatedTree
<1>11. max_consecutive_slot_' = w
  BY <1>5, <1>8, <1>10, LargerTree
<1>12. A!SlotCountFor(w, A!OffsetOf(a)) = A!SlotsOf(a)
  BY <1>9, <1>10, BlockFound DEF A!SlotCountFor
<1> DEFINE cs == bs \cup {a}
<1>13. allocation_table_' =
            [x \in DOMAIN allocation_table_ \cup {A!OffsetOf(a)} |->
                IF x = A!OffsetOf(a) THEN A!SlotsOf(a) ELSE allocation_table_[x]]
  BY <1>8, <1>11, <1>12, Zenon
<1>14. DOMAIN allocation_table_' = {A!OffsetOf(b) : b \in cs}
  <2>1. DOMAIN allocation_table_ = {A!OffsetOf(b) : b \in bs}
    BY <1>1 DEF BuddyAt
  <2>2. DOMAIN allocation_table_' = DOMAIN allocation_table_ \cup {A!OffsetOf(a)}
    BY <1>13
  <2> QED BY <2>1, <2>2
<1>15. ASSUME NEW b \in cs PROVE allocation_table_'[A!OffsetOf(b)] = A!SlotsOf(b)
  <2>1. CASE b = a
    BY <1>13, <2>1
  <2>2. CASE b # a
    <3>1. A!OffsetOf(b) # A!OffsetOf(a)
      BY <1>10, <2>2, BlockOffsets
    <3>2. A!OffsetOf(b) \in DOMAIN allocation_table_ /\ allocation_table_[A!OffsetOf(b)] = A!SlotsOf(b)
      BY <1>1, <2>2 DEF BuddyAt
    <3> QED BY <1>13, <3>1, <3>2
  <2> QED BY <2>1, <2>2
<1>16. BuddyAt(cs)'
  BY <1>9, <1>10, <1>11, <1>14, <1>15 DEF BuddyAt
<1>17. cs \in SUBSET A!Nodes
  OBVIOUS
<1> QED BY <1>16, <1>17 DEF BuddyInv

\* Deallocate takes one away.
LEMMA BuddyFrees ==
    ASSUME A!BuddyAssumption, BuddyInv, NEW offset \in DOMAIN allocation_table_, A!Deallocate(offset)
    PROVE  BuddyInv'
<1>1. PICK bs \in SUBSET A!Nodes : BuddyAt(bs)
  BY DEF BuddyInv
<1>2. BlockSet(bs) /\ Exact(bs, max_consecutive_slot_)
  BY <1>1 DEF BuddyAt
<1>3. PICK b \in bs : offset = A!OffsetOf(b)
  BY <1>1 DEF BuddyAt
<1>4. PICK tree : tree = max_consecutive_slot_
  OBVIOUS
<1>5. A!BlockAt(tree, A!OffsetOf(b)) = b
  BY <1>2, <1>4, BlockFound
<1>6. /\ max_consecutive_slot_' = A!Refreshed(b, A!SlotsOf(b), A!Merged)
      /\ allocation_table_' = [x \in DOMAIN allocation_table_ \ {offset} |-> allocation_table_[x]]
  BY <1>3, <1>4, <1>5 DEF A!Deallocate
<1>7. PICK w : Exact(bs \ {b}, w)
  BY ExactThere
<1>8. BlockSet(bs \ {b}) /\ w = Rebuilt("Free", b, A!SlotsOf(b), tree, w)
  BY <1>2, <1>4, <1>7, FreedTree
<1>9. max_consecutive_slot_' = w
  BY <1>4, <1>6, <1>8, MergedTree
<1> DEFINE cs == bs \ {b}
<1>10. DOMAIN allocation_table_ = {A!OffsetOf(c) : c \in bs} /\ \A c \in bs : allocation_table_[A!OffsetOf(c)] = A!SlotsOf(c)
  BY <1>1 DEF BuddyAt
<1>11. \A c \in cs : A!OffsetOf(c) # offset
  BY <1>2, <1>3, BlockOffsets
<1>12. DOMAIN allocation_table_' = {A!OffsetOf(c) : c \in cs}
  <2>1. DOMAIN allocation_table_' = DOMAIN allocation_table_ \ {offset}
    BY <1>6
  <2> QED BY <1>3, <1>10, <1>11, <2>1
<1>13. \A c \in cs : allocation_table_'[A!OffsetOf(c)] = A!SlotsOf(c)
  BY <1>6, <1>10, <1>11
<1>14. BuddyAt(cs)'
  BY <1>7, <1>8, <1>9, <1>12, <1>13 DEF BuddyAt
<1>15. cs \in SUBSET A!Nodes
  OBVIOUS
<1> QED BY <1>14, <1>15 DEF BuddyInv

\* The invariant says what it should.
LEMMA BuddyHolds ==
    ASSUME A!BuddyAssumption, BuddyInv
    PROVE  A!BlocksApart /\ A!TreeExact
<1>1. PICK bs \in SUBSET A!Nodes : BuddyAt(bs)
  BY DEF BuddyInv
<1>2. PICK tree, table : tree = max_consecutive_slot_ /\ table = allocation_table_
  OBVIOUS
<1>3. /\ BlockSet(bs) /\ Exact(bs, tree) /\ bs \subseteq A!Nodes
      /\ DOMAIN table = {A!OffsetOf(b) : b \in bs}
      /\ \A b \in bs : table[A!OffsetOf(b)] = A!SlotsOf(b)
  BY <1>1, <1>2 DEF BuddyAt
<1>4. \A i \in A!Nodes : /\ A!SlotsOf(i) \in Nat /\ A!SlotsOf(i) \in A!PowersOf2 /\ A!SlotsOf(i) > 0
                         /\ A!OffsetOf(i) \in Nat /\ A!OffsetOf(i) + A!SlotsOf(i) <= total_slot_count_
  BY NodeSizes DEF Powers
<1>5. \A b \in bs : A!Block(A!OffsetOf(b)) = A!Span(b)
  BY <1>2, <1>3 DEF A!Block, A!Span
<1>6. total_slot_count_ \in Nat
  BY DEF A!BuddyAssumption
<1>7. ASSUME NEW i \in A!Nodes PROVE tree[i] \in 0 .. total_slot_count_
  <2>1. tree[i] \in Nat /\ tree[i] <= A!SlotsOf(i)
    <3>1. CASE Inner(bs, i)
      BY <1>3, <1>4, <3>1 DEF Exact, Says
    <3>2. CASE ~Inner(bs, i)
      BY <1>3, <3>2, FullSays
    <3> QED BY <3>1, <3>2
  <2> QED BY <1>4, <1>6, <2>1
<1>8. A!TypeOK
  <2>1. tree \in [A!Nodes -> 0 .. total_slot_count_]
    BY <1>3, <1>7 DEF Exact
  <2>2. ASSUME NEW x \in DOMAIN table PROVE x \in 0 .. total_slot_count_ - 1 /\ table[x] \in A!PowersOf2
    <3>1. PICK b \in bs : x = A!OffsetOf(b)
      BY <1>3
    <3>2. b \in A!Nodes
      BY <1>3
    <3> QED BY <1>3, <1>4, <1>6, <3>1, <3>2
  <2> QED BY <1>2, <2>1, <2>2 DEF A!TypeOK
<1>9. A!BlocksApart
  <2>1. ASSUME NEW b \in bs PROVE A!Span(b) \subseteq 0 .. total_slot_count_ - 1
    <3>1. b \in A!Nodes
      BY <1>3
    <3> QED BY <1>4, <1>6, <3>1 DEF A!Span
  <2>2. A!Allocated \subseteq 0 .. total_slot_count_ - 1
    <3>1. ASSUME NEW x \in DOMAIN table PROVE A!Block(x) \subseteq 0 .. total_slot_count_ - 1
      <4>1. PICK b \in bs : x = A!OffsetOf(b)
        BY <1>3
      <4> QED BY <1>5, <2>1, <4>1
    <3> QED BY <1>2, <3>1 DEF A!Allocated
  <2>3. ASSUME NEW x \in DOMAIN table, NEW y \in DOMAIN table, x # y PROVE A!Block(x) \cap A!Block(y) = {}
    <3>1. PICK b \in bs : x = A!OffsetOf(b)
      BY <1>3
    <3>2. PICK c \in bs : y = A!OffsetOf(c)
      BY <1>3
    <3>3. b \in A!Nodes /\ c \in A!Nodes /\ Off(b, c)
      BY <1>3, <2>3, <3>1, <3>2 DEF BlockSet
    <3>4. A!Span(b) \cap A!Span(c) = {}
      BY <3>3, SpanFacts
    <3> QED BY <1>5, <3>1, <3>2, <3>4
  <2> QED BY <1>2, <1>8, <2>2, <2>3 DEF A!BlocksApart
<1>10. ASSUME NEW i \in A!Nodes
       PROVE  (\E x \in DOMAIN table : A!Span(i) \subseteq A!Block(x) /\ A!Span(i) # A!Block(x)) <=> Inner(bs, i)
  <2>1. \A b \in bs : A!Span(i) \subseteq A!Span(b) /\ A!Span(i) # A!Span(b) <=> In(i, b) /\ i # b
    BY <1>3, SpanFacts
  <2>2. (\E x \in DOMAIN table : A!Span(i) \subseteq A!Block(x) /\ A!Span(i) # A!Block(x))
           <=> \E b \in bs : A!Span(i) \subseteq A!Span(b) /\ A!Span(i) # A!Span(b)
    <3>1. ASSUME NEW x \in DOMAIN table, A!Span(i) \subseteq A!Block(x), A!Span(i) # A!Block(x)
          PROVE  \E b \in bs : A!Span(i) \subseteq A!Span(b) /\ A!Span(i) # A!Span(b)
      <4>1. PICK b \in bs : x = A!OffsetOf(b)
        BY <1>3
      <4>2. A!Block(x) = A!Span(b)
        BY <1>5, <4>1
      <4> QED BY <3>1, <4>2
    <3>2. ASSUME NEW b \in bs, A!Span(i) \subseteq A!Span(b), A!Span(i) # A!Span(b)
          PROVE  \E x \in DOMAIN table : A!Span(i) \subseteq A!Block(x) /\ A!Span(i) # A!Block(x)
      <4>1. A!OffsetOf(b) \in DOMAIN table /\ A!Block(A!OffsetOf(b)) = A!Span(b)
        BY <1>3, <1>5
      <4> QED BY <3>2, <4>1
    <3> QED BY <3>1, <3>2
  <2> QED BY <2>1, <2>2 DEF Inner
<1>11. ASSUME NEW n \in A!Nodes PROVE A!Span(n) \cap A!Allocated = {} <=> Spare(bs, n)
  <2>1. \A b \in bs : A!Span(n) \cap A!Span(b) = {} <=> Off(n, b)
    BY <1>3, SpanFacts
  <2>2. A!Allocated = UNION {A!Span(b) : b \in bs}
    <3>1. {A!Block(x) : x \in DOMAIN table} = {A!Span(b) : b \in bs}
      BY <1>3, <1>5
    <3> QED BY <1>2, <3>1 DEF A!Allocated
  <2>3. A!Span(n) \cap A!Allocated = {} <=> \A b \in bs : A!Span(n) \cap A!Span(b) = {}
    BY <2>2
  <2> QED BY <2>1, <2>3 DEF Spare
<1>12. ASSUME NEW i \in A!Nodes, ~Inner(bs, i)
       PROVE  tree[i] = A!Max({A!SlotsOf(j) : j \in {n \in A!Nodes :
                            A!Span(n) \subseteq A!Span(i) /\ A!Span(n) \cap A!Allocated = {}}} \cup {0})
  <2> DEFINE X == {A!SlotsOf(j) : j \in {n \in A!Nodes :
                            A!Span(n) \subseteq A!Span(i) /\ A!Span(n) \cap A!Allocated = {}}} \cup {0}
  <2>1. Best(bs, i, tree[i])
    BY <1>3, <1>12 DEF Exact, Says
  <2>2. \A n \in A!Nodes : A!Span(n) \subseteq A!Span(i) <=> In(n, i)
    BY SpanFacts
  <2>3. X = {A!SlotsOf(j) : j \in {n \in A!Nodes : In(n, i) /\ Spare(bs, n)}} \cup {0}
    BY <1>11, <2>2
  <2> HIDE DEF X
  <2>4. X \in SUBSET Int
    BY <1>4, <2>3
  <2>5. tree[i] \in X
    BY <2>1, <2>3 DEF Best
  <2>6. \A y \in X : y <= tree[i]
    BY <2>1, <2>3 DEF Best
  <2>7. A!Max(X) = tree[i]
    BY <2>4, <2>5, <2>6, MaxIs
  <2> QED BY <2>7 DEF X
<1>13. ASSUME NEW i \in A!Nodes, Inner(bs, i) PROVE tree[i] = A!SlotsOf(i)
  BY <1>3, <1>13 DEF Exact, Says
<1>14. A!TreeExact
  BY <1>2, <1>10, <1>12, <1>13 DEF A!TreeExact
<1> QED BY <1>9, <1>14

\* For every number of slots that is a power of 2 and any sequence of calls, no slot is
\* in two blocks, and the tree tells exactly what is free: BinManager::Allocate takes
\* the way down to a free block whenever there is one, and Free merges all it can.
THEOREM TreeTheorem == Spec => []TreeExact
<1> DEFINE Inv == at = "buddy" => BuddyInv
<1>1. Init => Inv
  BY PoolsAssumption, BuddyInit DEF Init
<1>2. Inv /\ [Next]_vars => Inv'
  <2> SUFFICES ASSUME Inv, [Next]_vars, at' = "buddy" PROVE BuddyInv'
    OBVIOUS
  <2>1. CASE UNCHANGED vars
    <3>1. at = "buddy" /\ max_consecutive_slot_' = max_consecutive_slot_ /\ allocation_table_' = allocation_table_
      BY <2>1 DEF vars, buddyVars
    <3> QED BY <3>1 DEF BuddyInv, BuddyAt
  <2>2. CASE Next
    <3>1. at = "buddy" /\ A!Next
      BY <2>2 DEF Next
    <3> QED BY <3>1, PoolsAssumption, BuddyAllocates, BuddyFrees DEF A!Next
  <2> QED BY <2>1, <2>2
<1>3. Inv => TreeExact
  BY PoolsAssumption, BuddyHolds DEF TreeExact
<1> QED BY <1>1, <1>2, <1>3, PTL DEF Spec

=============================================================================
