-------------------------- MODULE MessageLoopProofs --------------------------
(***************************************************************************)
(* Proofs about MessageLoop, for any number of threads and tasks and any   *)
(* due times: no task and no wakeup is lost between the threads that post  *)
(* and the owner, and tasks begin in the order that TaskOrder promises.    *)
(***************************************************************************)
EXTENDS MessageLoop, FiniteSetTheorems, SequenceTheorems, WellFoundedInduction, TLAPS

-----------------------------------------------------------------------------
(* The inductive invariant.                                                *)

\* No task is twice in s.
Once(s) == \A i, j \in DOMAIN s : s[i] = s[j] => i = j

\* The tasks p are those of the queue q, in its order, and the tasks D, taken from the
\* queue before: none of D is behind one that is still in the queue.
Sorted(p, q, D) ==
    /\ Once(p) /\ Once(q)
    /\ Range(p) = Range(q) \cup D
    /\ Range(q) \cap D = {}
    /\ \A i, j \in DOMAIN p : p[i] \in Range(q) /\ p[j] \in D => j < i
    /\ \A i, j \in DOMAIN p, k, l \in DOMAIN q : p[i] = q[k] /\ p[j] = q[l] /\ k < l => i < j

\* Both parts of the queue between those who post and the owner.
Queue == _outgoingTasks \o _incomingTasks

Everyone == Threads \cup {Owner}

\* Tasks differ in their numbers, those about to be added too.
Numbered ==
    /\ \A x \in Range(pending) : x.seq < seqNum
    /\ \A x, y \in Range(pending) : x.seq = y.seq => x = y
    /\ \A t \in Everyone : tpc[t] = "made" =>
          /\ made[t] \in Tasks /\ made[t].seq < seqNum
          /\ \A x \in Range(pending) : x.seq # made[t].seq
    /\ \A t, u \in Everyone :
          tpc[t] = "made" /\ tpc[u] = "made" /\ made[t].seq = made[u].seq => t = u

\* The owner has its loop, and posts in its tasks only.
OwnerPosts ==
    /\ tpc[Owner] \in {"ready", "made"}
    /\ tpc[Owner] = "made" => InUserCode

\* The threads that have added a task and not yet signaled.
Adding == {t \in Threads : tpc[t] = "added"}

\* From the look that found both queues empty to the end of the wait, whatever was
\* added since has been signaled or is about to be.
Awake ==
    pc \in {"wait", "waiting", "spinning"} \/ (pc = "delayed" /\ ~doneWork) =>
        /\ _outgoingTasks = <<>>
        /\ _signaled \/ Len(_incomingTasks) <= Cardinality(Adding)

\* doWork has something to tell run as soon as a task has begun.
Worked == pc = "in_work" => doneWork

LoopInv ==
    /\ TypeOK
    /\ Sorted(pending, Queue, _delayedTasks)
    /\ \A x \in _delayedTasks : x.at # 0
    /\ Numbered /\ OwnerPosts /\ Awake /\ Worked

-----------------------------------------------------------------------------
(* Sequences without doubles.                                              *)

\* A sequence without doubles is as long as the set of its elements is large.
LEMMA OnceSize ==
    ASSUME NEW S, NEW s \in Seq(S), Once(s)
    PROVE  IsFiniteSet(Range(s)) /\ Cardinality(Range(s)) = Len(s)
<1>1. Len(s) \in Nat /\ DOMAIN s = 1 .. Len(s)
  OBVIOUS
<1>2. IsFiniteSet(1 .. Len(s)) /\ Cardinality(1 .. Len(s)) = Len(s)
  BY <1>1, FS_Interval
<1>3. s \in Bijection(1 .. Len(s), Range(s))
  <2>1. s \in [1 .. Len(s) -> Range(s)]
    BY <1>1 DEF Range
  <2>2. \A i, j \in 1 .. Len(s) : s[i] = s[j] => i = j
    BY <1>1 DEF Once
  <2>3. \A x \in Range(s) : \E i \in 1 .. Len(s) : s[i] = x
    BY <1>1 DEF Range
  <2> QED BY <2>1, <2>2, <2>3 DEF Bijection, Injection, Surjection, IsInjective
<1>4. ExistsBijection(1 .. Len(s), Range(s))
  BY <1>3 DEF ExistsBijection
<1> QED BY <1>2, <1>4, FS_Bijection

\* The elements of a sequence and one more.
LEMMA AppendRange ==
    ASSUME NEW S, NEW s \in Seq(S), NEW x \in S
    PROVE  Append(s, x) \in Seq(S) /\ Range(Append(s, x)) = Range(s) \cup {x}
<1> DEFINE n == Len(s)
           r == Append(s, x)
<1>1. /\ r \in Seq(S) /\ n \in Nat /\ DOMAIN s = 1 .. n /\ DOMAIN r = 1 .. n + 1
      /\ r[n + 1] = x /\ \A i \in 1 .. n : r[i] = s[i]
  OBVIOUS
<1> HIDE DEF n, r
<1>2. Range(r) = Range(s) \cup {x}
  BY <1>1 DEF Range
<1> QED BY <1>1, <1>2 DEF r

\* What is added goes to the end of both.
LEMMA SortedAppend ==
    ASSUME NEW S, NEW p \in Seq(S), NEW q \in Seq(S), NEW D, Sorted(p, q, D),
           NEW x \in S, x \notin Range(p)
    PROVE  Sorted(Append(p, x), Append(q, x), D)
<1> DEFINE pp == Append(p, x)
           qq == Append(q, x)
           n == Len(p)
           m == Len(q)
<1>1. /\ n \in Nat /\ DOMAIN p = 1 .. n /\ DOMAIN pp = 1 .. n + 1
      /\ pp[n + 1] = x /\ \A i \in 1 .. n : pp[i] = p[i]
  OBVIOUS
<1>2. /\ m \in Nat /\ DOMAIN q = 1 .. m /\ DOMAIN qq = 1 .. m + 1
      /\ qq[m + 1] = x /\ \A i \in 1 .. m : qq[i] = q[i]
  OBVIOUS
<1> HIDE DEF pp, qq, n, m
<1>3. Range(pp) = Range(p) \cup {x} /\ Range(qq) = Range(q) \cup {x}
  <2>1. Range(pp) = Range(p) \cup {x}
    BY <1>1 DEF Range
  <2>2. Range(qq) = Range(q) \cup {x}
    BY <1>2 DEF Range
  <2> QED BY <2>1, <2>2
<1>4. x \notin Range(q) /\ x \notin D
  BY DEF Sorted
<1>5. \A i \in 1 .. n : p[i] \in Range(p) /\ p[i] # x
  BY <1>1 DEF Range
<1>6. \A i \in 1 .. m : q[i] \in Range(q) /\ q[i] # x
  BY <1>2, <1>4 DEF Range
<1>7. Once(pp)
  BY <1>1, <1>5 DEF Once, Sorted
<1>8. Once(qq)
  BY <1>2, <1>6 DEF Once, Sorted
<1>9. ASSUME NEW i \in DOMAIN pp, NEW j \in DOMAIN pp, pp[i] \in Range(qq), pp[j] \in D
      PROVE  j < i
  <2>1. j \in 1 .. n /\ pp[j] = p[j]
    BY <1>1, <1>4, <1>9
  <2>2. CASE i = n + 1
    BY <1>1, <2>1, <2>2
  <2>3. CASE i \in 1 .. n
    <3>1. p[i] \in Range(q)
      BY <1>1, <1>3, <1>5, <1>9, <2>3
    <3> QED BY <1>1, <1>9, <2>1, <2>3, <3>1 DEF Sorted
  <2> QED BY <1>1, <2>2, <2>3
<1>10. ASSUME NEW i \in DOMAIN pp, NEW j \in DOMAIN pp, NEW k \in DOMAIN qq, NEW l \in DOMAIN qq,
              pp[i] = qq[k], pp[j] = qq[l], k < l
       PROVE  i < j
  <2>1. k \in 1 .. m
    BY <1>2, <1>10
  <2>2. i \in 1 .. n
    BY <1>1, <1>2, <1>6, <1>10, <2>1
  <2>3. CASE j = n + 1
    BY <1>1, <2>2, <2>3
  <2>4. CASE j \in 1 .. n
    <3>1. l \in 1 .. m
      BY <1>1, <1>2, <1>5, <1>10, <2>4
    <3>2. p[i] = q[k] /\ p[j] = q[l]
      BY <1>1, <1>2, <1>10, <2>1, <2>2, <2>4, <3>1
    <3> QED BY <1>1, <1>2, <1>10, <2>1, <2>2, <2>4, <3>1, <3>2 DEF Sorted
  <2> QED BY <1>1, <2>3, <2>4
<1>11. Range(pp) = Range(qq) \cup D /\ Range(qq) \cap D = {}
  BY <1>3, <1>4 DEF Sorted
<1>12. Sorted(pp, qq, D)
  BY <1>7, <1>8, <1>9, <1>10, <1>11 DEF Sorted
<1> QED BY <1>12 DEF pp, qq

\* The tail of the queue, by its places.
LEMMA TailFacts ==
    ASSUME NEW S, NEW q \in Seq(S), q # <<>>, Once(q)
    PROVE  /\ Tail(q) \in Seq(S) /\ Once(Tail(q))
           /\ Head(q) \in S /\ 1 \in DOMAIN q /\ Head(q) = q[1]
           /\ \A k \in DOMAIN Tail(q) :
                 k \in Nat /\ k + 1 \in DOMAIN q /\ k + 1 > 1 /\ Tail(q)[k] = q[k + 1]
           /\ Range(q) = Range(Tail(q)) \cup {Head(q)}
           /\ Head(q) \notin Range(Tail(q))
<1> DEFINE m == Len(q)
           r == Tail(q)
<1>1. m \in Nat /\ m > 0 /\ DOMAIN q = 1 .. m /\ Head(q) = q[1] /\ Head(q) \in S
  OBVIOUS
<1>2. r \in Seq(S) /\ DOMAIN r = 1 .. m - 1 /\ \A k \in 1 .. m - 1 : r[k] = q[k + 1]
  OBVIOUS
<1> HIDE DEF m, r
<1>3. \A k \in DOMAIN r : k \in Nat /\ k + 1 \in DOMAIN q /\ k + 1 > 1 /\ r[k] = q[k + 1]
  BY <1>1, <1>2
<1>4. Once(r)
  BY <1>1, <1>3 DEF Once
<1>5. \A k \in 1 .. m : k = 1 \/ (k - 1 \in 1 .. m - 1 /\ q[k] = r[k - 1])
  BY <1>1, <1>2
<1>6. Range(q) = Range(r) \cup {q[1]}
  <2>1. ASSUME NEW x \in Range(q) PROVE x \in Range(r) \cup {q[1]}
    <3>1. PICK k \in 1 .. m : x = q[k]
      BY <1>1 DEF Range
    <3>2. k # 1 => k - 1 \in DOMAIN r /\ x = r[k - 1]
      BY <1>2, <1>5, <3>1
    <3> QED BY <3>1, <3>2 DEF Range
  <2>2. ASSUME NEW x \in Range(r) PROVE x \in Range(q)
    BY <1>3 DEF Range
  <2>3. q[1] \in Range(q)
    BY <1>1 DEF Range
  <2> QED BY <2>1, <2>2, <2>3
<1>7. q[1] \notin Range(r)
  BY <1>1, <1>3 DEF Once, Range
<1> QED BY <1>1, <1>2, <1>3, <1>4, <1>6, <1>7 DEF m, r

\* The first task of the queue goes to the delayed ones.
LEMMA SortedDelay ==
    ASSUME NEW S, NEW p \in Seq(S), NEW q \in Seq(S), NEW D, Sorted(p, q, D), q # <<>>
    PROVE  Sorted(p, Tail(q), D \cup {Head(q)})
<1> DEFINE r == Tail(q)
           h == Head(q)
<1>1. /\ Once(r) /\ 1 \in DOMAIN q /\ h = q[1]
      /\ Range(q) = Range(r) \cup {h} /\ h \notin Range(r)
  BY TailFacts DEF Sorted
<1>2. \A k \in DOMAIN r : k \in Nat /\ k + 1 \in DOMAIN q /\ k + 1 > 1 /\ r[k] = q[k + 1]
  BY TailFacts DEF Sorted
<1> HIDE DEF r, h
<1>3. ASSUME NEW i \in DOMAIN p, NEW j \in DOMAIN p, p[i] \in Range(r), p[j] \in D \cup {h}
      PROVE  j < i
  <2>1. CASE p[j] \in D
    BY <1>1, <1>3, <2>1 DEF Sorted
  <2>2. CASE p[j] = h
    <3>1. PICK k \in DOMAIN r : p[i] = r[k]
      BY <1>3 DEF Range
    <3>2. k + 1 \in DOMAIN q /\ 1 < k + 1 /\ p[i] = q[k + 1]
      BY <1>2, <3>1
    <3> QED BY <1>1, <2>2, <3>2 DEF Sorted
  <2> QED BY <1>3, <2>1, <2>2
<1>4. ASSUME NEW i \in DOMAIN p, NEW j \in DOMAIN p, NEW k \in DOMAIN r, NEW l \in DOMAIN r,
             p[i] = r[k], p[j] = r[l], k < l
      PROVE  i < j
  <2>1. /\ k + 1 \in DOMAIN q /\ l + 1 \in DOMAIN q /\ k + 1 < l + 1
        /\ p[i] = q[k + 1] /\ p[j] = q[l + 1]
    BY <1>2, <1>4
  <2> QED BY <2>1 DEF Sorted
<1>5. Range(p) = Range(r) \cup (D \cup {h}) /\ Range(r) \cap (D \cup {h}) = {}
  BY <1>1 DEF Sorted
<1>6. Sorted(p, r, D \cup {h})
  BY <1>1, <1>3, <1>4, <1>5 DEF Sorted
<1> QED BY <1>6 DEF r, h

\* The elements of u are elements of p, in the same order.
Within(u, p) ==
    \E f \in [DOMAIN u -> DOMAIN p] :
        /\ \A j \in DOMAIN u : u[j] = p[f[j]]
        /\ \A j, k \in DOMAIN u : (j < k <=> f[j] < f[k]) /\ (f[j] = f[k] => j = k)

\* What RemoveFirst leaves of a sequence without doubles, and in which order.
LEMMA RemoveFacts ==
    ASSUME NEW S, NEW p \in Seq(S), Once(p), NEW i \in DOMAIN p
    PROVE  /\ RemoveFirst(p, p[i]) = RemoveAt(p, i)
           /\ RemoveAt(p, i) \in Seq(S)
           /\ Range(RemoveAt(p, i)) = Range(p) \ {p[i]}
           /\ Within(RemoveAt(p, i), p)
<1> DEFINE n == Len(p)
           r == RemoveAt(p, i)
           f == [j \in 1 .. n - 1 |-> IF j < i THEN j ELSE j + 1]
<1>1. n \in Nat /\ n > 0 /\ DOMAIN p = 1 .. n /\ i \in 1 .. n
  OBVIOUS
<1>2. RemoveFirst(p, p[i]) = r
  <2> DEFINE I == {k \in 1 .. Len(p) : p[k] = p[i]}
  <2>1. I = {i}
    BY <1>1 DEF Once
  <2>2. \E k \in 1 .. Len(p) : p[k] = p[i]
    BY <1>1
  <2>3. Min({i}) = i
    BY <1>1 DEF Min
  <2>4. I # {} /\ Min(I) = i
    BY <2>1, <2>3
  <2> HIDE DEF I, n
  <2>5. RemoveFirst(p, p[i]) = RemoveAt(p, IF I # {} THEN Min(I) ELSE 0)
    BY <2>2 DEF RemoveFirst, SelectInSeq, I
  <2> QED BY <2>4, <2>5
<1>3. /\ r \in Seq(S) /\ Len(r) = n - 1
      /\ \A j \in 1 .. n - 1 : r[j] = IF j < i THEN p[j] ELSE p[j + 1]
  <2> DEFINE u == SubSeq(p, 1, i - 1)
             v == SubSeq(p, i + 1, n)
  <2>1. u \in Seq(S) /\ Len(u) = i - 1 /\ \A j \in 1 .. i - 1 : u[j] = p[j]
    BY <1>1
  <2>2. v \in Seq(S) /\ Len(v) = n - i /\ \A j \in 1 .. n - i : v[j] = p[i + j]
    BY <1>1
  <2>3. r = u \o v
    BY DEF RemoveAt
  <2> HIDE DEF u, v, r, n
  <2>4. u \o v \in Seq(S) /\ Len(u \o v) = n - 1
    <3>1. u \o v \in Seq(S) /\ Len(u \o v) = Len(u) + Len(v)
      BY <2>1, <2>2, ConcatProperties
    <3> QED BY <1>1, <2>1, <2>2, <3>1
  <2>5. \A j \in 1 .. n - 1 : (u \o v)[j] = IF j < i THEN u[j] ELSE v[j - (i - 1)]
    BY <1>1, <2>1, <2>2
  <2>6. \A j \in 1 .. n - 1 : j < i => j \in 1 .. i - 1
    BY <1>1
  <2>7. \A j \in 1 .. n - 1 : ~(j < i) => j - (i - 1) \in 1 .. n - i /\ i + (j - (i - 1)) = j + 1
    BY <1>1
  <2> QED BY <2>1, <2>2, <2>3, <2>4, <2>5, <2>6, <2>7
<1> HIDE DEF r, n
<1>4. DOMAIN r = 1 .. n - 1
  BY <1>3
<1>5. f \in [DOMAIN r -> DOMAIN p] /\ \A j \in DOMAIN r : r[j] = p[f[j]]
  BY <1>1, <1>3, <1>4
<1>6. \A j, k \in DOMAIN r : (j < k <=> f[j] < f[k]) /\ (f[j] = f[k] => j = k)
  BY <1>1, <1>4
<1>7. \A j \in DOMAIN r : f[j] # i
  BY <1>1, <1>4
<1>8. \A k \in DOMAIN p : k # i => \E j \in DOMAIN r : f[j] = k
  <2> SUFFICES ASSUME NEW k \in DOMAIN p, k # i PROVE \E j \in DOMAIN r : f[j] = k
    OBVIOUS
  <2>1. CASE k < i
    <3>1. k \in DOMAIN r /\ f[k] = k
      BY <1>1, <1>4, <2>1
    <3> QED BY <3>1
  <2>2. CASE k > i
    <3>1. k - 1 \in DOMAIN r /\ f[k - 1] = k
      BY <1>1, <1>4, <2>2
    <3> QED BY <3>1
  <2> QED BY <1>1, <2>1, <2>2
<1> HIDE DEF f
<1>9. Range(r) = Range(p) \ {p[i]}
  <2>1. ASSUME NEW x \in Range(r) PROVE x \in Range(p) \ {p[i]}
    <3>1. PICK j \in DOMAIN r : x = r[j]
      BY DEF Range
    <3>2. f[j] \in DOMAIN p /\ f[j] # i /\ x = p[f[j]]
      BY <1>5, <1>7, <3>1
    <3> QED BY <3>2 DEF Range, Once
  <2>2. ASSUME NEW x \in Range(p), x # p[i] PROVE x \in Range(r)
    <3>1. PICK k \in DOMAIN p : x = p[k]
      BY DEF Range
    <3>2. PICK j \in DOMAIN r : f[j] = k
      BY <1>8, <2>2, <3>1
    <3> QED BY <1>5, <3>1, <3>2 DEF Range
  <2> QED BY <2>1, <2>2
<1>10. Within(r, p)
  BY <1>5, <1>6 DEF Within
<1> QED BY <1>2, <1>3, <1>9, <1>10 DEF r

\* The first task of the queue begins: what was added before it is delayed.
LEMMA SortedTake ==
    ASSUME NEW S, NEW p \in Seq(S), NEW q \in Seq(S), NEW D, Sorted(p, q, D), q # <<>>
    PROVE  \E i \in DOMAIN p :
              /\ p[i] = Head(q)
              /\ RemoveFirst(p, Head(q)) = RemoveAt(p, i)
              /\ RemoveAt(p, i) \in Seq(S)
              /\ Range(RemoveAt(p, i)) \subseteq Range(p)
              /\ \A j \in DOMAIN p : j < i => p[j] \in D
              /\ Sorted(RemoveAt(p, i), Tail(q), D)
<1> DEFINE r == Tail(q)
           h == Head(q)
<1>1. /\ Once(r) /\ 1 \in DOMAIN q /\ h = q[1]
      /\ Range(q) = Range(r) \cup {h} /\ h \notin Range(r)
  BY TailFacts DEF Sorted
<1>2. \A k \in DOMAIN r : k \in Nat /\ k + 1 \in DOMAIN q /\ k + 1 > 1 /\ r[k] = q[k + 1]
  BY TailFacts DEF Sorted
<1> HIDE DEF r, h
<1>3. PICK i \in DOMAIN p : p[i] = h
  BY <1>1 DEF Sorted, Range
<1> DEFINE u == RemoveAt(p, i)
<1>4. RemoveFirst(p, h) = u /\ u \in Seq(S) /\ Range(u) = Range(p) \ {h} /\ Within(u, p)
  <2>1. Once(p)
    BY DEF Sorted
  <2> QED BY <1>3, <2>1, RemoveFacts
<1> HIDE DEF u
<1>5. PICK f \in [DOMAIN u -> DOMAIN p] :
            /\ \A j \in DOMAIN u : u[j] = p[f[j]]
            /\ \A j, k \in DOMAIN u : (j < k <=> f[j] < f[k]) /\ (f[j] = f[k] => j = k)
  BY <1>4 DEF Within
<1>6. \A j \in DOMAIN u : f[j] \in DOMAIN p
  BY <1>5
<1>7. Once(u)
  BY <1>5, <1>6 DEF Once, Sorted
<1>8. ASSUME NEW j \in DOMAIN u, NEW k \in DOMAIN u, u[j] \in Range(r), u[k] \in D
      PROVE  k < j
  <2>1. p[f[j]] \in Range(q) /\ p[f[k]] \in D
    BY <1>1, <1>5, <1>8
  <2>2. f[k] < f[j]
    BY <1>6, <2>1 DEF Sorted
  <2> QED BY <1>5, <2>2
<1>9. ASSUME NEW j \in DOMAIN u, NEW k \in DOMAIN u, NEW a \in DOMAIN r, NEW b \in DOMAIN r,
             u[j] = r[a], u[k] = r[b], a < b
      PROVE  j < k
  <2>1. /\ a + 1 \in DOMAIN q /\ b + 1 \in DOMAIN q /\ a + 1 < b + 1
        /\ p[f[j]] = q[a + 1] /\ p[f[k]] = q[b + 1]
    BY <1>2, <1>5, <1>9
  <2>2. f[j] < f[k]
    BY <1>6, <2>1 DEF Sorted
  <2> QED BY <1>5, <2>2
<1>10. Range(u) = Range(r) \cup D /\ Range(r) \cap D = {}
  BY <1>1, <1>4 DEF Sorted
<1>11. Sorted(u, r, D)
  BY <1>1, <1>7, <1>8, <1>9, <1>10 DEF Sorted
<1>12. ASSUME NEW j \in DOMAIN p, j < i PROVE p[j] \in D
  <2>1. p[j] \in Range(p) /\ p[j] # h
    <3>1. DOMAIN p \subseteq Nat
      OBVIOUS
    <3> QED BY <1>3, <1>12, <3>1 DEF Range, Sorted, Once
  <2>2. CASE p[j] \in Range(r)
    <3>1. PICK k \in DOMAIN r : p[j] = r[k]
      BY <2>2 DEF Range
    <3>2. k + 1 \in DOMAIN q /\ 1 < k + 1 /\ p[j] = q[k + 1]
      BY <1>2, <3>1
    <3>3. i < j
      BY <1>1, <1>3, <3>2 DEF Sorted
    <3>4. DOMAIN p \subseteq Nat
      OBVIOUS
    <3> QED BY <1>12, <3>3, <3>4
  <2> QED BY <1>1, <2>1, <2>2 DEF Sorted
<1> QED BY <1>3, <1>4, <1>11, <1>12 DEF u, r, h

\* A delayed task begins: what was added before it and is not delayed is gone.
LEMMA SortedDelayed ==
    ASSUME NEW S, NEW p \in Seq(S), NEW q \in Seq(S), NEW D, Sorted(p, q, D), NEW x \in D
    PROVE  \E i \in DOMAIN p :
              /\ p[i] = x
              /\ RemoveFirst(p, x) = RemoveAt(p, i)
              /\ RemoveAt(p, i) \in Seq(S)
              /\ Range(RemoveAt(p, i)) \subseteq Range(p)
              /\ \A j \in DOMAIN p : j < i => p[j] \in D \ {x}
              /\ Sorted(RemoveAt(p, i), q, D \ {x})
<1>3. PICK i \in DOMAIN p : p[i] = x
  BY DEF Sorted, Range
<1> DEFINE u == RemoveAt(p, i)
<1>4. RemoveFirst(p, x) = u /\ u \in Seq(S) /\ Range(u) = Range(p) \ {x} /\ Within(u, p)
  <2>1. Once(p)
    BY DEF Sorted
  <2> QED BY <1>3, <2>1, RemoveFacts
<1> HIDE DEF u
<1>5. PICK f \in [DOMAIN u -> DOMAIN p] :
            /\ \A j \in DOMAIN u : u[j] = p[f[j]]
            /\ \A j, k \in DOMAIN u : (j < k <=> f[j] < f[k]) /\ (f[j] = f[k] => j = k)
  BY <1>4 DEF Within
<1>6. \A j \in DOMAIN u : f[j] \in DOMAIN p
  BY <1>5
<1>7. Once(u)
  BY <1>5, <1>6 DEF Once, Sorted
<1>8. ASSUME NEW j \in DOMAIN u, NEW k \in DOMAIN u, u[j] \in Range(q), u[k] \in D \ {x}
      PROVE  k < j
  <2>1. p[f[j]] \in Range(q) /\ p[f[k]] \in D
    BY <1>5, <1>8
  <2>2. f[k] < f[j]
    BY <1>6, <2>1 DEF Sorted
  <2> QED BY <1>5, <2>2
<1>9. ASSUME NEW j \in DOMAIN u, NEW k \in DOMAIN u, NEW a \in DOMAIN q, NEW b \in DOMAIN q,
             u[j] = q[a], u[k] = q[b], a < b
      PROVE  j < k
  <2>1. p[f[j]] = q[a] /\ p[f[k]] = q[b]
    BY <1>5, <1>9
  <2>2. f[j] < f[k]
    BY <1>6, <1>9, <2>1 DEF Sorted
  <2> QED BY <1>5, <2>2
<1>10. Range(u) = Range(q) \cup (D \ {x}) /\ Range(q) \cap (D \ {x}) = {}
  BY <1>4 DEF Sorted
<1>11. Sorted(u, q, D \ {x})
  BY <1>7, <1>8, <1>9, <1>10 DEF Sorted
<1>12. ASSUME NEW j \in DOMAIN p, j < i PROVE p[j] \in D \ {x}
  <2>1. DOMAIN p \subseteq Nat
    OBVIOUS
  <2>2. p[j] \in Range(p) /\ p[j] # x
    BY <1>3, <1>12, <2>1 DEF Range, Sorted, Once
  <2>3. p[j] \in Range(q) => i < j
    BY <1>3 DEF Sorted
  <2> QED BY <1>12, <2>1, <2>2, <2>3 DEF Sorted
<1> QED BY <1>3, <1>4, <1>11, <1>12 DEF u

\* All that is pending is in one of the places.
LEMMA SortedSize ==
    ASSUME NEW S, NEW p \in Seq(S), NEW q \in Seq(S), NEW D, Sorted(p, q, D)
    PROVE  IsFiniteSet(D) /\ Len(p) = Len(q) + Cardinality(D)
<1>1. IsFiniteSet(Range(p)) /\ Cardinality(Range(p)) = Len(p)
  BY OnceSize DEF Sorted
<1>2. IsFiniteSet(Range(q)) /\ Cardinality(Range(q)) = Len(q)
  BY OnceSize DEF Sorted
<1>3. D \subseteq Range(p) /\ Range(q) \cap D = {} /\ Range(p) = Range(q) \cup D
  BY DEF Sorted
<1>4. IsFiniteSet(D)
  BY <1>1, <1>3, FS_Subset
<1>5. Cardinality(Range(q) \cup D) = Cardinality(Range(q)) + Cardinality(D)
  <2>1. Cardinality(Range(q) \cup D) = Cardinality(Range(q)) + Cardinality(D) - Cardinality(Range(q) \cap D)
    BY <1>2, <1>4, FS_Union
  <2>2. Cardinality(Range(q) \cap D) = 0
    BY <1>3, FS_EmptySet
  <2>3. Cardinality(D) \in Nat /\ Len(q) \in Nat
    BY <1>4, FS_CardinalityType
  <2> QED BY <1>2, <2>1, <2>2, <2>3
<1>6. Cardinality(Range(p)) = Cardinality(Range(q)) + Cardinality(D)
  BY <1>3, <1>5
<1> QED BY <1>1, <1>2, <1>4, <1>6

-----------------------------------------------------------------------------
(* The queue in its two parts.                                             *)

\* Taking from the first part of a queue takes from the queue.
LEMMA TailConcat ==
    ASSUME NEW S, NEW a \in Seq(S), NEW b \in Seq(S), a # <<>>
    PROVE  a \o b # <<>> /\ Head(a \o b) = Head(a) /\ Tail(a \o b) = Tail(a) \o b
<1> DEFINE c == a \o b
           n == Len(a)
           m == Len(b)
           d == Tail(a) \o b
           e == Tail(c)
           g == Tail(a)
<1>1. n \in Nat /\ m \in Nat /\ n > 0 /\ Head(a) = a[1]
  OBVIOUS
<1>2. /\ c \in Seq(S) /\ Len(c) = n + m
      /\ \A i \in 1 .. n + m : c[i] = IF i <= n THEN a[i] ELSE b[i - n]
  BY ConcatProperties
<1>3. g \in Seq(S) /\ Len(g) = n - 1 /\ \A i \in 1 .. n - 1 : g[i] = a[i + 1]
  OBVIOUS
<1>4. /\ d \in Seq(S) /\ Len(d) = n - 1 + m
      /\ \A i \in 1 .. n - 1 + m : d[i] = IF i <= n - 1 THEN g[i] ELSE b[i - (n - 1)]
  BY <1>3, ConcatProperties
<1> HIDE DEF c, d, n, m, g, e
<1>5. c # <<>> /\ Head(c) = c[1] /\ c[1] = a[1]
  BY <1>1, <1>2
<1>6. e \in Seq(S) /\ Len(e) = n + m - 1 /\ \A i \in 1 .. n + m - 1 : e[i] = c[i + 1]
  BY <1>1, <1>2, <1>5 DEF e
<1>7. \A i \in 1 .. n + m - 1 : e[i] = d[i]
  <2> SUFFICES ASSUME NEW i \in 1 .. n + m - 1 PROVE e[i] = d[i]
    OBVIOUS
  <2>1. PICK k \in 1 .. n + m : k = i + 1
    BY <1>1
  <2>2. e[i] = c[k]
    BY <1>6, <2>1
  <2>3. i \in 1 .. n - 1 + m
    BY <1>1
  <2>4. CASE i <= n - 1
    <3>1. k <= n /\ i \in 1 .. n - 1
      BY <1>1, <2>1, <2>4
    <3>2. c[k] = a[k]
      BY <1>2, <3>1
    <3>3. d[i] = g[i]
      BY <1>4, <2>3, <2>4
    <3>4. g[i] = a[k]
      BY <1>3, <2>1, <3>1
    <3> QED BY <2>2, <3>2, <3>3, <3>4
  <2>5. CASE ~(i <= n - 1)
    <3>1. ~(k <= n) /\ k - n = i - (n - 1)
      BY <1>1, <2>1, <2>5
    <3>2. PICK j : j = k - n /\ j = i - (n - 1)
      BY <3>1
    <3>3. c[k] = b[j]
      BY <1>2, <3>1, <3>2
    <3>4. d[i] = b[j]
      BY <1>4, <2>3, <2>5, <3>2
    <3> QED BY <2>2, <3>3, <3>4
  <2> QED BY <2>4, <2>5
<1>8. e = d
  <2>1. Len(e) = Len(d)
    BY <1>1, <1>4, <1>6
  <2> QED BY <1>4, <1>6, <1>7, <2>1, SeqEqual
<1> QED BY <1>1, <1>5, <1>8 DEF c, d, e, g

\* Adding to the second part of a queue adds to the queue.
LEMMA AppendConcat ==
    ASSUME NEW S, NEW a \in Seq(S), NEW b \in Seq(S), NEW x \in S
    PROVE  a \o Append(b, x) = Append(a \o b, x)
<1> DEFINE c == a \o Append(b, x)
           d == Append(a \o b, x)
           n == Len(a)
           m == Len(b)
           g == Append(b, x)
           e == a \o b
<1>1. n \in Nat /\ m \in Nat
  OBVIOUS
<1>2. /\ g \in Seq(S) /\ Len(g) = m + 1
      /\ \A i \in 1 .. m : g[i] = b[i]
      /\ g[m + 1] = x
  OBVIOUS
<1>3. /\ c \in Seq(S) /\ Len(c) = n + (m + 1)
      /\ \A i \in 1 .. n + (m + 1) : c[i] = IF i <= n THEN a[i] ELSE g[i - n]
  BY <1>2, ConcatProperties
<1>4. /\ e \in Seq(S) /\ Len(e) = n + m
      /\ \A i \in 1 .. n + m : e[i] = IF i <= n THEN a[i] ELSE b[i - n]
  BY ConcatProperties
<1>5. /\ d \in Seq(S) /\ Len(d) = n + m + 1
      /\ \A i \in 1 .. n + m : d[i] = e[i]
      /\ d[n + m + 1] = x
  BY <1>4
<1> HIDE DEF c, d, n, m, g, e
<1>6. \A i \in 1 .. n + m + 1 : c[i] = d[i]
  <2> SUFFICES ASSUME NEW i \in 1 .. n + m + 1 PROVE c[i] = d[i]
    OBVIOUS
  <2>1. CASE i <= n
    BY <1>1, <1>3, <1>4, <1>5, <2>1
  <2>2. CASE i > n /\ i <= n + m
    <3>1. i - n \in 1 .. m /\ ~(i <= n) /\ i \in 1 .. n + m /\ i \in 1 .. n + (m + 1)
      BY <1>1, <2>2
    <3> QED BY <1>2, <1>3, <1>4, <1>5, <3>1
  <2>3. CASE i = n + m + 1
    <3>1. i - n = m + 1 /\ ~(i <= n) /\ i \in 1 .. n + (m + 1)
      BY <1>1, <2>3
    <3> QED BY <1>2, <1>3, <1>5, <2>3, <3>1
  <2> QED BY <1>1, <2>1, <2>2, <2>3
<1>7. c = d
  <2>1. Len(c) = Len(d) /\ Len(c) = n + m + 1
    BY <1>1, <1>3, <1>5
  <2> QED BY <1>3, <1>5, <1>6, <2>1, SeqEqual
<1> QED BY <1>7 DEF c, d, g, e

-----------------------------------------------------------------------------
(* What the steps do to the tasks.                                         *)

\* The queues are sequences of tasks.
LEMMA QueueType ==
    ASSUME TypeOK
    PROVE  /\ _outgoingTasks \in Seq(Tasks) /\ _incomingTasks \in Seq(Tasks)
           /\ Queue \in Seq(Tasks) /\ pending \in Seq(Tasks)
           /\ Len(Queue) = Len(_outgoingTasks) + Len(_incomingTasks)
           /\ Range(Queue) = Range(_outgoingTasks) \cup Range(_incomingTasks)
<1>1. _outgoingTasks \in Seq(Tasks) /\ _incomingTasks \in Seq(Tasks) /\ pending \in Seq(Tasks)
  BY DEF TypeOK
<1>2. Queue \in Seq(Tasks) /\ Len(Queue) = Len(_outgoingTasks) + Len(_incomingTasks)
  BY <1>1, ConcatProperties DEF Queue
<1>3. Range(Queue) = Range(_outgoingTasks) \cup Range(_incomingTasks)
  BY <1>1, RangeConcatenation DEF Queue
<1> QED BY <1>1, <1>2, <1>3

\* A step leaves the tasks where they are, ...
Stays == pending' = pending /\ Queue' = Queue /\ _delayedTasks' = _delayedTasks

\* ... or adds the task of t, ...
Adds(t) ==
    /\ tpc[t] = "made"
    /\ pending' = Append(pending, made[t])
    /\ Queue' = Append(Queue, made[t])
    /\ _delayedTasks' = _delayedTasks

\* ... or takes the first one of the queue and keeps it for its time, ...
Delays ==
    /\ Queue # <<>> /\ Head(Queue).at # 0
    /\ pending' = pending
    /\ Queue' = Tail(Queue)
    /\ _delayedTasks' = _delayedTasks \cup {Head(Queue)}

\* ... or begins it, ...
BeginsFirst ==
    /\ Queue # <<>> /\ Head(Queue).at = 0
    /\ pending' = RemoveFirst(pending, Head(Queue))
    /\ Queue' = Tail(Queue)
    /\ _delayedTasks' = _delayedTasks

\* ... or begins the first one of the delayed tasks.
BeginsDelayed ==
    /\ _delayedTasks # {} /\ Top.at <= latest
    /\ pending' = RemoveFirst(pending, Top)
    /\ Queue' = Queue
    /\ _delayedTasks' = _delayedTasks \ {Top}

\* A set of natural numbers that is not empty has a least element.
LEMMA LeastNumber ==
    ASSUME NEW S \in SUBSET Nat, S # {}
    PROVE  \E m \in S : \A n \in S : m <= n
<1> DEFINE R == OpToRel(<, Nat)
<1>1. IsWellFoundedOn(R, Nat)
  BY NatLessThanWellFounded
<1>2. R = {ss \in Nat \X Nat : ss[1] < ss[2]}
  BY DEF OpToRel
<1> HIDE DEF R
<1>3. PICK m \in S : \A n \in S : ~(<<n, m>> \in R)
  BY <1>1, WFMin
<1>4. \A n \in S : ~(n < m)
  BY <1>2, <1>3
<1>5. \A n \in S : m <= n
  BY <1>4
<1> QED BY <1>5

\* What a task has.
LEMMA TaskFacts ==
    \A x \in Tasks : x.seq \in Nat /\ x.seq < MaxTasks /\ x.at \in Nat
<1> SUFFICES ASSUME NEW x \in Tasks
             PROVE  x.seq \in Nat /\ x.seq < MaxTasks /\ x.at \in Nat
  OBVIOUS
<1>1. x.seq \in 0 .. MaxTasks - 1 /\ x.at \in Dues
  BY Zenon DEF Tasks
<1>2. \A n \in 0 .. MaxTasks - 1 : n \in Nat /\ n < MaxTasks
  BY ConstantsAssumption
<1>3. \A n \in Dues : n \in Nat
  BY ConstantsAssumption
<1> QED BY <1>1, <1>2, <1>3, Zenon

\* Tasks with different numbers have a first one in the order of the comparator.
LEMMA FirstTask ==
    ASSUME NEW D \in SUBSET Tasks, D # {}, \A x, y \in D : x.seq = y.seq => x = y
    PROVE  \E x \in D : \A y \in D \ {x} : TO!Before(x, y)
<1> DEFINE A == {x.at : x \in D}
<1>1. A \in SUBSET Nat /\ A # {}
  BY TaskFacts
<1>2. PICK a \in A : \A n \in A : a <= n
  <2> HIDE DEF A
  <2> QED BY <1>1, LeastNumber
<1> DEFINE B == {x \in D : x.at = a}
           C == {x.seq : x \in B}
<1>3. C \in SUBSET Nat /\ C # {}
  BY TaskFacts
<1>4. PICK c \in C : \A n \in C : c <= n
  <2> HIDE DEF C
  <2> QED BY <1>3, LeastNumber
<1>5. PICK x \in B : x.seq = c
  OBVIOUS
<1>6. ASSUME NEW y \in D \ {x} PROVE TO!Before(x, y)
  <2>1. x.seq \in Nat /\ y.seq \in Nat /\ x.at \in Nat /\ y.at \in Nat /\ x.at = a /\ x.seq # y.seq
    BY <1>5, TaskFacts
  <2>2. a <= y.at
    BY <1>2
  <2>3. y.at = a => x.seq <= y.seq
    BY <1>4, <1>5
  <2> HIDE DEF A, B, C
  <2> QED BY <2>1, <2>2, <2>3 DEF TO!Before
<1> QED BY <1>5, <1>6

\* The priority queue gives one of the delayed tasks, and no other comes before it.
LEMMA TopFacts ==
    ASSUME LoopInv, _delayedTasks # {}
    PROVE  Top \in _delayedTasks /\ \A y \in _delayedTasks \ {Top} : TO!Before(Top, y)
<1> DEFINE First(x) == \A y \in _delayedTasks \ {x} : TO!Before(x, y)
<1>1. \A x, y \in _delayedTasks : x.seq = y.seq => x = y
  BY DEF LoopInv, Numbered, Sorted
<1>2. _delayedTasks \in SUBSET Tasks
  BY DEF LoopInv, TypeOK
<1>3. \E x \in _delayedTasks : First(x)
  BY <1>1, <1>2, FirstTask
<1>4. Top = CHOOSE x \in _delayedTasks : First(x)
  BY DEF Top
<1>5. Top \in _delayedTasks /\ First(Top)
  <2> HIDE DEF First
  <2> QED BY <1>3, <1>4
<1> QED BY <1>5

\* A task that is added goes to the end of the queue.
LEMMA EnqueueAdds ==
    ASSUME LoopInv, NEW t \in Everyone, Enqueue(t)
    PROVE  Adds(t)
<1>1. tpc[t] = "made" /\ made[t] \in Tasks
  BY DEF Enqueue, LoopInv, Numbered
<1>2. Queue' = _outgoingTasks \o Append(_incomingTasks, made[t])
  BY DEF Enqueue, Queue, loopVars
<1>3. _outgoingTasks \o Append(_incomingTasks, made[t]) = Append(Queue, made[t])
  BY <1>1, QueueType, AppendConcat DEF Queue, LoopInv
<1> QED BY <1>1, <1>2, <1>3 DEF Enqueue, Adds, loopVars

\* takeTask takes the first task of the queue, whichever part it is in.
LEMMA DoWorkFacts ==
    ASSUME LoopInv, DoWork
    PROVE  \/ Stays /\ pc' = "delayed" /\ Queue = <<>> /\ _outgoingTasks' = <<>>
                    /\ _incomingTasks' = <<>> /\ doneWork' = FALSE /\ _running' = _running
           \/ Delays /\ pc' = pc /\ _running' = _running /\ doneWork' = doneWork
           \/ BeginsFirst /\ pc' = "in_work" /\ doneWork' = TRUE
                    /\ _running' = (_running /\ ~Head(Queue).quits)
<1>1. _outgoingTasks \in Seq(Tasks) /\ _incomingTasks \in Seq(Tasks)
  BY QueueType DEF LoopInv
<1>2. Fetched \in Seq(Tasks) /\ _incomingTasks' \in Seq(Tasks) /\ Fetched \o _incomingTasks' = Queue
  <2>1. CASE _outgoingTasks = <<>>
    <3>1. Fetched = _incomingTasks /\ _incomingTasks' = <<>>
      BY <2>1 DEF Fetched, Fetch, DoWork
    <3>2. _incomingTasks \o <<>> = _incomingTasks /\ <<>> \o _incomingTasks = _incomingTasks
      BY <1>1, ConcatEmptySeq
    <3> QED BY <1>1, <2>1, <3>1, <3>2 DEF Queue
  <2>2. CASE _outgoingTasks # <<>>
    BY <1>1, <2>2 DEF Fetched, Fetch, DoWork, Queue
  <2> QED BY <2>1, <2>2
<1>3. CASE Fetched = <<>>
  <2>1. _outgoingTasks = <<>> /\ _incomingTasks = <<>> /\ _incomingTasks' = <<>>
    BY <1>3 DEF Fetched, Fetch, DoWork
  <2>2. /\ pc' = "delayed" /\ doneWork' = FALSE /\ pending' = pending /\ _running' = _running
        /\ _outgoingTasks' = _outgoingTasks /\ _delayedTasks' = _delayedTasks
    BY <1>3 DEF DoWork
  <2>3. Queue = <<>> \o <<>> /\ Queue' = <<>> \o <<>>
    BY <2>1, <2>2 DEF Queue
  <2>4. Queue = <<>> /\ Queue' = Queue
    BY <2>3
  <2> QED BY <2>1, <2>2, <2>4 DEF Stays
<1>4. CASE Fetched # <<>>
  <2>1. /\ Fetched \o _incomingTasks' # <<>> /\ Head(Fetched \o _incomingTasks') = Head(Fetched)
        /\ Tail(Fetched \o _incomingTasks') = Tail(Fetched) \o _incomingTasks'
    BY <1>2, <1>4, TailConcat
  <2>2. Queue # <<>> /\ Head(Queue) = Head(Fetched) /\ Tail(Queue) = Tail(Fetched) \o _incomingTasks'
    BY <1>2, <2>1
  <2>3. _outgoingTasks' = Tail(Fetched)
    BY <1>4 DEF DoWork
  <2>4. Queue' = Tail(Queue)
    BY <2>2, <2>3 DEF Queue
  <2>5. CASE Head(Fetched).at = 0
    <3>1. Begin(Head(Fetched), "in_work") /\ _delayedTasks' = _delayedTasks
      BY <1>4, <2>5 DEF DoWork
    <3> QED BY <2>2, <2>4, <2>5, <3>1 DEF Begin, BeginsFirst
  <2>6. CASE Head(Fetched).at # 0
    <3>1. /\ _delayedTasks' = _delayedTasks \cup {Head(Fetched)}
          /\ pc' = pc /\ pending' = pending /\ _running' = _running /\ doneWork' = doneWork
      BY <1>4, <2>6 DEF DoWork
    <3> QED BY <2>2, <2>4, <2>6, <3>1 DEF Delays
  <2> QED BY <2>5, <2>6
<1> QED BY <1>3, <1>4

\* doDelayedWork begins the first of the delayed tasks, if it is due.
LEMMA DoDelayedFacts ==
    ASSUME LoopInv, DoDelayedWork
    PROVE  /\ _recentTime' \in 0 .. latest /\ UNCHANGED envVars
           /\ _incomingTasks' = _incomingTasks /\ _outgoingTasks' = _outgoingTasks
           /\ \/ Stays /\ pc' = (IF doneWork THEN "work" ELSE "wait")
                       /\ _running' = _running /\ doneWork' = doneWork
              \/ BeginsDelayed /\ pc' = "in_delayed" /\ doneWork' = TRUE
                       /\ _running' = (_running /\ ~Top.quits)
<1>1. _recentTime \in 0 .. latest /\ now \in 0 .. latest /\ latest \in Nat
  BY ConstantsAssumption DEF LoopInv, TypeOK
<1>2. _recentTime' \in 0 .. latest
  <2>1. _recentTime' = now \/ _recentTime' = _recentTime
    BY DEF DoDelayedWork
  <2> QED BY <1>1, <2>1
<1>3. _incomingTasks' = _incomingTasks /\ _outgoingTasks' = _outgoingTasks /\ UNCHANGED envVars
  BY DEF DoDelayedWork
<1>4. Queue' = Queue
  BY <1>3 DEF Queue
<1>5. CASE _delayedTasks # {} /\ Top.at <= _recentTime'
  <2>1. Begin(Top, "in_delayed") /\ _delayedTasks' = _delayedTasks \ {Top}
    BY <1>5 DEF DoDelayedWork
  <2>2. BeginsDelayed
    <3>1. Top.at <= latest
      <4>1. Top.at \in Nat
        BY <1>5, TopFacts, TaskFacts DEF LoopInv, TypeOK
      <4> QED BY <1>1, <1>2, <1>5, <4>1
    <3> QED BY <1>4, <1>5, <2>1, <3>1 DEF Begin, BeginsDelayed
  <2> QED BY <1>2, <1>3, <2>1, <2>2 DEF Begin
<1>6. CASE ~(_delayedTasks # {} /\ Top.at <= _recentTime')
  <2>1. /\ pc' = (IF doneWork THEN "work" ELSE "wait")
        /\ pending' = pending /\ _running' = _running /\ doneWork' = doneWork
        /\ _delayedTasks' = _delayedTasks
    BY <1>6 DEF DoDelayedWork
  <2> QED BY <1>2, <1>3, <1>4, <2>1 DEF Stays
<1> QED BY <1>5, <1>6

\* The Boolean variables.
Flags == {_loop, _running, _signaled, doneWork, interrupted} \subseteq BOOLEAN

\* Where the owner and the threads can be, and what they have in hand.
Control ==
    /\ pc \in {"new", "starting", "run", "work", "in_work", "delayed", "in_delayed",
               "wait", "waiting", "spinning", "dead"}
    /\ tpc \in [Everyone -> {"no_loop", "asking", "blocked", "ready", "made", "added"}]
    /\ made \in [Everyone -> Tasks \cup {NoTask}]

\* The queues and the numbers.
Data ==
    /\ _incomingTasks \in Seq(Tasks) /\ _outgoingTasks \in Seq(Tasks)
    /\ _delayedTasks \subseteq Tasks
    /\ _recentTime \in 0 .. latest /\ now \in 1 .. latest /\ latest \in 1 .. MaxTime
    /\ backs \in 0 .. MaxBacks /\ (backs = 0 => now = latest)
    /\ seqNum \in 0 .. MaxTasks
    /\ pending \in Seq(Tasks)

\* These are all.
LEMMA TypeParts == TypeOK <=> Flags /\ Control /\ Data
BY Zenon DEF TypeOK, Flags, Control, Data, Everyone

\* No step makes anything else of them ...
LEMMA FlagsStep ==
    ASSUME LoopInv, [Next]_vars
    PROVE  Flags'
<1>1. Flags
  BY TypeParts DEF LoopInv
<1>2. /\ _loop \in BOOLEAN /\ _running \in BOOLEAN /\ _signaled \in BOOLEAN /\ doneWork \in BOOLEAN
      /\ interrupted \in BOOLEAN
  BY <1>1, Zenon DEF Flags
<1>3. _loop' \in BOOLEAN
  BY <1>2 DEF Next, OwnerStep, ThreadStep, Start, Publish, Run, DoWork, DoDelayedWork, Return,
     Await, TimedOut, QuitInTask, SpuriousWakeup, Interrupt, Tick, SetBack, AskLoop, GetLoop, Create, Enqueue, Wakeup, vars
<1>4. _signaled' \in BOOLEAN
  BY <1>2 DEF Next, OwnerStep, ThreadStep, Start, Publish, Run, DoWork, DoDelayedWork, Return,
     Await, TimedOut, QuitInTask, SpuriousWakeup, Interrupt, Tick, SetBack, AskLoop, GetLoop, Create, Enqueue, Wakeup, vars
<1>5. _running' \in BOOLEAN /\ doneWork' \in BOOLEAN
  <2>1. CASE DoWork
    BY <1>2, <2>1, DoWorkFacts
  <2>2. CASE DoDelayedWork
    BY <1>2, <2>2, DoDelayedFacts
  <2>3. CASE Run \/ QuitInTask
    BY <1>2, <2>3 DEF Run, QuitInTask
  <2>4. CASE _running' = _running /\ doneWork' = doneWork
    BY <1>2, <2>4
  <2> QED BY <2>1, <2>2, <2>3, <2>4 DEF Next, OwnerStep, ThreadStep, Start, Publish, Return,
     Await, TimedOut, SpuriousWakeup, Interrupt, Tick, SetBack, AskLoop, GetLoop, Create, Enqueue, Wakeup, vars, loopVars
<1>6. interrupted' \in BOOLEAN
  BY <1>2 DEF Next, OwnerStep, ThreadStep, Start, Publish, Run, DoWork, DoDelayedWork, Return,
     Await, TimedOut, QuitInTask, SpuriousWakeup, Interrupt, Tick, SetBack, AskLoop, GetLoop, Create,
     Enqueue, Wakeup, vars, envVars
<1> QED BY <1>3, <1>4, <1>5, <1>6, Zenon DEF Flags

\* ... nor leads anywhere else ...
LEMMA ControlStep ==
    ASSUME LoopInv, [Next]_vars
    PROVE  Control'
<1>1. Control
  BY TypeParts DEF LoopInv
<1>2. CASE DoWork
  BY <1>1, <1>2, DoWorkFacts DEF DoWork, Control
<1>3. CASE DoDelayedWork
  <2>1. pc' \in {"work", "wait", "in_delayed"} /\ tpc' = tpc /\ made' = made
    BY <1>3, DoDelayedFacts DEF DoDelayedWork
  <2> QED BY <1>1, <2>1 DEF Control
<1>4. CASE Publish
  BY <1>1, <1>4 DEF Publish, Control
<1>5. CASE \/ Start \/ Run \/ Return \/ Await \/ TimedOut \/ QuitInTask \/ SpuriousWakeup
           \/ Interrupt \/ Tick \/ SetBack \/ UNCHANGED vars
  <2>1. /\ tpc' = tpc /\ made' = made
        /\ pc' \in {pc, "starting", "work", "dead", "delayed", "wait", "waiting", "spinning"}
    BY <1>5 DEF Start, Run, Return, Await, TimedOut, QuitInTask, SpuriousWakeup, Interrupt, Tick, SetBack, vars
  <2> QED BY <1>1, <2>1 DEF Control
<1>6. ASSUME NEW t \in Everyone, AskLoop(t) \/ GetLoop(t) \/ Wakeup(t)
      PROVE  Control'
  <2>1. made' = made /\ pc' \in {pc, "wait"}
    BY <1>6 DEF AskLoop, GetLoop, Wakeup
  <2>2. \E v \in {"no_loop", "asking", "blocked", "ready"} : tpc' = [tpc EXCEPT ![t] = v]
    BY <1>6 DEF AskLoop, GetLoop, Wakeup
  <2> QED BY <1>1, <2>1, <2>2 DEF Control
<1>7. ASSUME NEW t \in Everyone, Enqueue(t)
      PROVE  Control'
  BY <1>1, <1>7 DEF Enqueue, Control
<1>8. ASSUME NEW t \in Everyone, NEW at \in Dues, NEW quits \in BOOLEAN, Create(t, at, quits)
      PROVE  Control'
  <2>1. [seq |-> seqNum, at |-> at, quits |-> quits] \in Tasks
    <3>1. seqNum \in 0 .. MaxTasks - 1
      BY <1>8, ConstantsAssumption DEF Create, LoopInv, TypeOK
    <3> QED BY <3>1, Zenon DEF Tasks
  <2>2. PICK task \in Tasks : task = [seq |-> seqNum, at |-> at, quits |-> quits]
    BY <2>1
  <2>3. /\ made' = [made EXCEPT ![t] = task]
        /\ tpc' = [tpc EXCEPT ![t] = "made"] /\ pc' = pc
    BY <1>8, <2>2, Zenon DEF Create
  <2> QED BY <1>1, <2>3 DEF Control
<1> QED BY <1>2, <1>3, <1>4, <1>5, <1>6, <1>7, <1>8 DEF Next, OwnerStep, ThreadStep, Everyone

\* A step does one of five things to the tasks.
LEMMA StepKinds ==
    ASSUME LoopInv, [Next]_vars
    PROVE  Stays \/ (\E t \in Everyone : Adds(t)) \/ Delays \/ BeginsFirst \/ BeginsDelayed
<1>1. CASE DoWork
  BY <1>1, DoWorkFacts
<1>2. CASE DoDelayedWork
  BY <1>2, DoDelayedFacts
<1>3. ASSUME NEW t \in Everyone, Enqueue(t) PROVE \E u \in Everyone : Adds(u)
  BY <1>3, EnqueueAdds
<1>4. CASE /\ pending' = pending /\ _incomingTasks' = _incomingTasks
           /\ _outgoingTasks' = _outgoingTasks /\ _delayedTasks' = _delayedTasks
  BY <1>4 DEF Stays, Queue
<1> QED BY <1>1, <1>2, <1>3, <1>4 DEF Next, OwnerStep, ThreadStep, Start, Publish, Run, Return,
     Await, TimedOut, QuitInTask, SpuriousWakeup, Interrupt, Tick, SetBack, AskLoop, GetLoop, Create, Wakeup, vars,
     loopVars, Everyone

\* The first task of the queue begins; what was added before is delayed.
LEMMA FirstBegins ==
    ASSUME LoopInv, BeginsFirst
    PROVE  \E i \in DOMAIN pending :
              /\ pending[i] = Head(Queue)
              /\ pending' = RemoveAt(pending, i)
              /\ pending' \in Seq(Tasks)
              /\ Range(pending') \subseteq Range(pending)
              /\ \A j \in DOMAIN pending : j < i => pending[j] \in _delayedTasks
              /\ Sorted(pending', Queue', _delayedTasks')
<1>1. Sorted(pending, Queue, _delayedTasks) /\ pending \in Seq(Tasks) /\ Queue \in Seq(Tasks)
  BY QueueType DEF LoopInv
<1>2. /\ Queue # <<>> /\ pending' = RemoveFirst(pending, Head(Queue))
      /\ Queue' = Tail(Queue) /\ _delayedTasks' = _delayedTasks
  BY DEF BeginsFirst
<1>3. PICK i \in DOMAIN pending :
              /\ pending[i] = Head(Queue)
              /\ RemoveFirst(pending, Head(Queue)) = RemoveAt(pending, i)
              /\ RemoveAt(pending, i) \in Seq(Tasks)
              /\ Range(RemoveAt(pending, i)) \subseteq Range(pending)
              /\ \A j \in DOMAIN pending : j < i => pending[j] \in _delayedTasks
              /\ Sorted(RemoveAt(pending, i), Tail(Queue), _delayedTasks)
  BY <1>1, <1>2, SortedTake
<1> QED BY <1>2, <1>3

\* The first of the delayed tasks begins; what was added before is delayed too.
LEMMA TopBegins ==
    ASSUME LoopInv, BeginsDelayed
    PROVE  /\ Top \in _delayedTasks
           /\ \E i \in DOMAIN pending :
                 /\ pending[i] = Top
                 /\ pending' = RemoveAt(pending, i)
                 /\ pending' \in Seq(Tasks)
                 /\ Range(pending') \subseteq Range(pending)
                 /\ \A j \in DOMAIN pending : j < i => pending[j] \in _delayedTasks \ {Top}
                 /\ Sorted(pending', Queue', _delayedTasks')
<1>1. Sorted(pending, Queue, _delayedTasks) /\ pending \in Seq(Tasks) /\ Queue \in Seq(Tasks)
  BY QueueType DEF LoopInv
<1>2. /\ pending' = RemoveFirst(pending, Top)
      /\ Queue' = Queue /\ _delayedTasks' = _delayedTasks \ {Top}
  BY DEF BeginsDelayed
<1>3. Top \in _delayedTasks
  BY TopFacts DEF BeginsDelayed
<1>4. PICK i \in DOMAIN pending :
              /\ pending[i] = Top
              /\ RemoveFirst(pending, Top) = RemoveAt(pending, i)
              /\ RemoveAt(pending, i) \in Seq(Tasks)
              /\ Range(RemoveAt(pending, i)) \subseteq Range(pending)
              /\ \A j \in DOMAIN pending : j < i => pending[j] \in _delayedTasks \ {Top}
              /\ Sorted(RemoveAt(pending, i), Queue, _delayedTasks \ {Top})
  BY <1>1, <1>3, SortedDelayed
<1> QED BY <1>2, <1>3, <1>4

\* The tasks stay sorted, whatever a step does to them.
LEMMA SortedStep ==
    ASSUME LoopInv, [Next]_vars
    PROVE  /\ Sorted(pending', Queue', _delayedTasks')
           /\ pending' \in Seq(Tasks)
           /\ _delayedTasks' \subseteq Tasks
           /\ \A x \in _delayedTasks' : x.at # 0
           /\ \/ Range(pending') \subseteq Range(pending)
              \/ \E t \in Everyone : tpc[t] = "made" /\ Range(pending') = Range(pending) \cup {made[t]}
<1>1. Sorted(pending, Queue, _delayedTasks) /\ pending \in Seq(Tasks) /\ Queue \in Seq(Tasks)
  BY QueueType DEF LoopInv
<1>2. _delayedTasks \subseteq Tasks /\ \A x \in _delayedTasks : x.at # 0
  BY DEF LoopInv, TypeOK
<1>3. CASE Stays
  BY <1>1, <1>2, <1>3 DEF Stays
<1>4. ASSUME NEW t \in Everyone, Adds(t)
      PROVE  /\ Sorted(pending', Queue', _delayedTasks')
             /\ pending' \in Seq(Tasks)
             /\ _delayedTasks' = _delayedTasks
             /\ Range(pending') = Range(pending) \cup {made[t]}
  <2>1. made[t] \in Tasks /\ made[t] \notin Range(pending) /\ tpc[t] = "made"
    BY <1>4 DEF Adds, LoopInv, Numbered
  <2>2. Sorted(Append(pending, made[t]), Append(Queue, made[t]), _delayedTasks)
    BY <1>1, <2>1, SortedAppend
  <2>3. pending' = Append(pending, made[t]) /\ Queue' = Append(Queue, made[t])
    BY <1>4 DEF Adds
  <2>4. pending' \in Seq(Tasks) /\ Range(pending') = Range(pending) \cup {made[t]}
    BY <1>1, <2>1, <2>3, AppendRange
  <2> QED BY <1>4, <2>2, <2>3, <2>4 DEF Adds
<1>5. CASE Delays
  <2>1. Sorted(pending, Tail(Queue), _delayedTasks \cup {Head(Queue)})
    BY <1>1, <1>5, SortedDelay DEF Delays
  <2>2. Head(Queue) \in Tasks
    BY <1>1, <1>5 DEF Delays
  <2> QED BY <1>1, <1>2, <1>5, <2>1, <2>2 DEF Delays
<1>6. CASE BeginsFirst
  BY <1>2, <1>6, FirstBegins DEF BeginsFirst
<1>7. CASE BeginsDelayed
  BY <1>2, <1>7, TopBegins DEF BeginsDelayed
<1>8. ASSUME NEW t \in Everyone, Adds(t)
      PROVE  /\ Sorted(pending', Queue', _delayedTasks')
             /\ pending' \in Seq(Tasks)
             /\ _delayedTasks' \subseteq Tasks
             /\ \A x \in _delayedTasks' : x.at # 0
             /\ \E u \in Everyone : tpc[u] = "made" /\ Range(pending') = Range(pending) \cup {made[u]}
  BY <1>2, <1>4, <1>8 DEF Adds
<1> QED BY <1>3, <1>5, <1>6, <1>7, <1>8, StepKinds

\* ... nor brings anything but tasks into the queues.
LEMMA DataStep ==
    ASSUME LoopInv, [Next]_vars
    PROVE  Data'
<1>1. Data
  BY TypeParts DEF LoopInv
<1>2. pending' \in Seq(Tasks) /\ _delayedTasks' \subseteq Tasks
  BY SortedStep
<1>3. /\ _recentTime' \in 0 .. latest' /\ now' \in 1 .. latest' /\ latest' \in 1 .. MaxTime
      /\ backs' \in 0 .. MaxBacks /\ (backs' = 0 => now' = latest')
  <2>1. CASE DoDelayedWork
    BY <1>1, <2>1, DoDelayedFacts DEF Data, envVars
  <2>2. CASE Tick
    BY <1>1, <2>2, ConstantsAssumption DEF Tick, Data, loopVars
  <2>3. CASE SetBack
    BY <1>1, <2>3, ConstantsAssumption DEF SetBack, Data, loopVars
  <2>4. CASE _recentTime' = _recentTime /\ now' = now /\ latest' = latest /\ backs' = backs
    BY <1>1, <2>4 DEF Data
  <2> QED BY <2>1, <2>2, <2>3, <2>4 DEF Next, OwnerStep, ThreadStep, Start, Publish, Run, DoWork, Return,
     Await, TimedOut, QuitInTask, SpuriousWakeup, Interrupt, AskLoop, GetLoop, Create, Enqueue, Wakeup,
     vars, loopVars, envVars
<1>4. seqNum' \in 0 .. MaxTasks
  <2>1. seqNum' = seqNum \/ (seqNum < MaxTasks /\ seqNum' = seqNum + 1)
    BY DEF Next, OwnerStep, ThreadStep, Start, Publish, Run, DoWork, DoDelayedWork, Return,
     Await, TimedOut, QuitInTask, SpuriousWakeup, Interrupt, Tick, SetBack, AskLoop, GetLoop, Create, Enqueue, Wakeup, vars
  <2> QED BY <1>1, <2>1, ConstantsAssumption DEF Data
<1>5. _incomingTasks' \in Seq(Tasks) /\ _outgoingTasks' \in Seq(Tasks)
  <2>1. CASE DoWork
    <3>1. _incomingTasks' \in {_incomingTasks, <<>>} /\ Fetched \in {_incomingTasks, _outgoingTasks}
      BY <2>1 DEF DoWork, Fetch, Fetched
    <3>2. _outgoingTasks' = _outgoingTasks \/ (Fetched # <<>> /\ _outgoingTasks' = Tail(Fetched))
      BY <2>1 DEF DoWork
    <3>3. _incomingTasks' \in Seq(Tasks) /\ Fetched \in Seq(Tasks)
      <4>1. <<>> \in Seq(Tasks)
        OBVIOUS
      <4> QED BY <1>1, <3>1, <4>1, Zenon DEF Data
    <3>4. Fetched # <<>> => Tail(Fetched) \in Seq(Tasks)
      BY <3>3
    <3> QED BY <1>1, <3>2, <3>3, <3>4 DEF Data
  <2>2. ASSUME NEW t \in Everyone, Enqueue(t)
        PROVE  _incomingTasks' \in Seq(Tasks) /\ _outgoingTasks' \in Seq(Tasks)
    <3>1. made[t] \in Tasks
      BY <2>2 DEF Enqueue, LoopInv, Numbered
    <3> QED BY <1>1, <2>2, <3>1 DEF Enqueue, Data, loopVars
  <2>3. CASE _incomingTasks' = _incomingTasks /\ _outgoingTasks' = _outgoingTasks
    BY <1>1, <2>3 DEF Data
  <2> QED BY <2>1, <2>2, <2>3 DEF Next, OwnerStep, ThreadStep, Start, Publish, Run, DoDelayedWork, Return,
     Await, TimedOut, QuitInTask, SpuriousWakeup, Interrupt, Tick, SetBack, AskLoop, GetLoop, Create, Wakeup, vars, loopVars, Everyone
<1> QED BY <1>2, <1>3, <1>4, <1>5 DEF Data

-----------------------------------------------------------------------------
(* The steps keep the invariant.                                           *)

\* The threads that have made a task are changed by Create and Enqueue only.
LEMMA MadeSteps ==
    ASSUME LoopInv, [Next]_vars
    PROVE  \/ \E t \in Everyone, at \in Dues, quits \in BOOLEAN : Create(t, at, quits)
           \/ \E t \in Everyone : Enqueue(t)
           \/ /\ made' = made /\ seqNum' = seqNum /\ Range(pending') \subseteq Range(pending)
              /\ \A t \in Everyone : tpc'[t] = "made" <=> tpc[t] = "made"
              /\ tpc'[Owner] = tpc[Owner]
<1>1. Control
  BY TypeParts DEF LoopInv
<1>2. tpc[Owner] \in {"ready", "made"} /\ Owner \in Everyone
  BY DEF LoopInv, OwnerPosts, Everyone
<1>3. ASSUME tpc' = tpc, made' = made, seqNum' = seqNum, Range(pending') \subseteq Range(pending)
      PROVE  /\ made' = made /\ seqNum' = seqNum /\ Range(pending') \subseteq Range(pending)
             /\ \A t \in Everyone : tpc'[t] = "made" <=> tpc[t] = "made"
             /\ tpc'[Owner] = tpc[Owner]
  BY <1>3
<1>4. CASE DoWork
  <2>1. Range(pending') \subseteq Range(pending)
    <3>1. CASE BeginsFirst
      BY <3>1, FirstBegins
    <3>2. CASE pending' = pending
      BY <3>2
    <3> QED BY <1>4, <3>1, <3>2, DoWorkFacts DEF Stays, Delays
  <2> QED BY <1>3, <1>4, <2>1 DEF DoWork
<1>5. CASE DoDelayedWork
  <2>1. Range(pending') \subseteq Range(pending)
    <3>1. CASE BeginsDelayed
      BY <3>1, TopBegins
    <3>2. CASE pending' = pending
      BY <3>2
    <3> QED BY <1>5, <3>1, <3>2, DoDelayedFacts DEF Stays
  <2> QED BY <1>3, <1>5, <2>1 DEF DoDelayedWork
<1>6. CASE Publish
  BY <1>1, <1>2, <1>6 DEF Publish, Control
<1>7. CASE \/ Start \/ Run \/ Return \/ Await \/ TimedOut \/ QuitInTask \/ SpuriousWakeup
           \/ Interrupt \/ Tick \/ SetBack \/ UNCHANGED vars
  BY <1>3, <1>7 DEF Start, Run, Return, Await, TimedOut, QuitInTask, SpuriousWakeup, Interrupt, Tick, SetBack, vars
<1>8. ASSUME NEW t \in Everyone, AskLoop(t) \/ GetLoop(t) \/ Wakeup(t)
      PROVE  /\ made' = made /\ seqNum' = seqNum /\ Range(pending') \subseteq Range(pending)
             /\ \A u \in Everyone : tpc'[u] = "made" <=> tpc[u] = "made"
             /\ tpc'[Owner] = tpc[Owner]
  <2>1. PICK v \in {"no_loop", "asking", "blocked", "ready"} : tpc' = [tpc EXCEPT ![t] = v]
    BY <1>8 DEF AskLoop, GetLoop, Wakeup
  <2>2. made' = made /\ seqNum' = seqNum /\ pending' = pending /\ tpc[t] \notin {"made", "ready"}
    BY <1>8 DEF AskLoop, GetLoop, Wakeup
  <2>3. v # "made" /\ t # Owner
    BY <1>2, <2>1, <2>2
  <2>4. \A u \in Everyone : tpc'[u] = IF u = t THEN v ELSE tpc[u]
    BY <1>1, <2>1 DEF Control
  <2> QED BY <1>2, <2>2, <2>3, <2>4
<1> QED BY <1>4, <1>5, <1>6, <1>7, <1>8 DEF Next, OwnerStep, ThreadStep, Everyone

\* Every task has a number of its own.
LEMMA NumberedStep ==
    ASSUME LoopInv, [Next]_vars
    PROVE  Numbered'
<1>1. Control /\ Numbered /\ seqNum \in Nat
  BY TypeParts, ConstantsAssumption DEF LoopInv, Data
<1>2. \A x \in Range(pending) : x.seq \in Nat
  BY QueueType, RangeOfSeq, TaskFacts DEF LoopInv
<1>3. \A t \in Everyone : tpc[t] = "made" => made[t].seq \in Nat
  BY <1>1, TaskFacts DEF Numbered
<1>4. ASSUME NEW t \in Everyone, NEW at \in Dues, NEW quits \in BOOLEAN, Create(t, at, quits)
      PROVE  Numbered'
  <2>1. Control'
    BY ControlStep
  <2>2. PICK task : task = [seq |-> seqNum, at |-> at, quits |-> quits]
    OBVIOUS
  <2>3. task.seq = seqNum
    BY <2>2
  <2>4. /\ made' = [made EXCEPT ![t] = task] /\ tpc' = [tpc EXCEPT ![t] = "made"]
        /\ seqNum' = seqNum + 1 /\ pending' = pending /\ tpc[t] = "ready"
    BY <1>4, <2>2, Zenon DEF Create
  <2>5. task \in Tasks
    <3>1. seqNum \in 0 .. MaxTasks - 1
      BY <1>1, <1>4, ConstantsAssumption DEF Create
    <3> QED BY <2>2, <3>1, Zenon DEF Tasks
  <2>6. \A u \in Everyone : /\ tpc'[u] = IF u = t THEN "made" ELSE tpc[u]
                            /\ made'[u] = IF u = t THEN task ELSE made[u]
    BY <1>1, <2>4 DEF Control
  <2>7. \A x \in Range(pending) : x.seq < seqNum + 1 /\ x.seq # seqNum
    BY <1>1, <1>2 DEF Numbered
  <2>8. \A u \in Everyone : tpc[u] = "made" => made[u].seq < seqNum + 1 /\ made[u].seq # seqNum
    BY <1>1, <1>3 DEF Numbered
  <2>9. \A u \in Everyone : tpc'[u] = "made" =>
            /\ made'[u] \in Tasks /\ made'[u].seq < seqNum + 1
            /\ \A x \in Range(pending) : x.seq # made'[u].seq
    BY <1>1, <2>3, <2>5, <2>6, <2>7, <2>8 DEF Numbered
  <2>10. \A u, w \in Everyone :
            tpc'[u] = "made" /\ tpc'[w] = "made" /\ made'[u].seq = made'[w].seq => u = w
    BY <1>1, <2>3, <2>6, <2>8 DEF Numbered
  <2>11. \A x, y \in Range(pending) : x.seq = y.seq => x = y
    BY <1>1 DEF Numbered
  <2> QED BY <2>4, <2>7, <2>9, <2>10, <2>11 DEF Numbered
<1>5. ASSUME NEW t \in Everyone, Enqueue(t)
      PROVE  Numbered'
  <2>1. /\ tpc[t] = "made" /\ seqNum' = seqNum /\ pending' = Append(pending, made[t])
        /\ made' = [made EXCEPT ![t] = NoTask]
        /\ \E v \in {"ready", "added"} : tpc' = [tpc EXCEPT ![t] = v]
    BY <1>5 DEF Enqueue
  <2>2. made[t] \in Tasks /\ made[t].seq < seqNum /\ \A x \in Range(pending) : x.seq # made[t].seq
    BY <1>1, <2>1 DEF Numbered
  <2>3. Range(pending') = Range(pending) \cup {made[t]}
    BY <2>1, <2>2, AppendRange, QueueType DEF LoopInv
  <2>4. \A u \in Everyone : tpc'[u] = "made" => u # t /\ tpc[u] = "made" /\ made'[u] = made[u]
    BY <1>1, <2>1 DEF Control
  <2>5. \A x \in Range(pending') : x.seq < seqNum
    BY <1>1, <2>2, <2>3 DEF Numbered
  <2>6. \A x, y \in Range(pending') : x.seq = y.seq => x = y
    BY <1>1, <2>2, <2>3 DEF Numbered
  <2>7. \A u \in Everyone : tpc'[u] = "made" =>
            /\ made'[u] \in Tasks /\ made'[u].seq < seqNum
            /\ \A x \in Range(pending') : x.seq # made'[u].seq
    BY <1>1, <2>1, <2>3, <2>4 DEF Numbered
  <2>8. \A u, w \in Everyone :
            tpc'[u] = "made" /\ tpc'[w] = "made" /\ made'[u].seq = made'[w].seq => u = w
    BY <1>1, <2>4 DEF Numbered
  <2> QED BY <2>1, <2>5, <2>6, <2>7, <2>8 DEF Numbered
<1>6. CASE /\ made' = made /\ seqNum' = seqNum /\ Range(pending') \subseteq Range(pending)
           /\ \A t \in Everyone : tpc'[t] = "made" <=> tpc[t] = "made"
  BY <1>1, <1>6 DEF Numbered
<1> QED BY <1>4, <1>5, <1>6, MadeSteps

\* The owner posts in its tasks only: none returns before its posts are done.
LEMMA OwnerPostsStep ==
    ASSUME LoopInv, [Next]_vars
    PROVE  OwnerPosts'
<1>1. Control /\ OwnerPosts /\ Owner \in Everyone
  BY TypeParts DEF LoopInv, Everyone
<1>2. tpc'[Owner] \in {"ready", "made"}
  <2>1. ASSUME NEW t \in Everyone, NEW at \in Dues, NEW quits \in BOOLEAN, Create(t, at, quits)
        PROVE  tpc'[Owner] \in {"ready", "made"}
    BY <1>1, <2>1 DEF Create, Control, OwnerPosts
  <2>2. ASSUME NEW t \in Everyone, Enqueue(t)
        PROVE  tpc'[Owner] \in {"ready", "made"}
    BY <1>1, <2>2 DEF Enqueue, Control, OwnerPosts
  <2>3. CASE tpc'[Owner] = tpc[Owner]
    BY <1>1, <2>3 DEF OwnerPosts
  <2> QED BY <2>1, <2>2, <2>3, MadeSteps
<1>3. ASSUME tpc'[Owner] = "made" PROVE InUserCode'
  <2>1. ASSUME NEW t \in Everyone, NEW at \in Dues, NEW quits \in BOOLEAN, Create(t, at, quits)
        PROVE  InUserCode'
    BY <1>1, <1>3, <2>1 DEF Create, Control, OwnerPosts, InUserCode
  <2>2. ASSUME NEW t \in Everyone, Enqueue(t)
        PROVE  InUserCode'
    BY <1>1, <1>3, <2>2 DEF Enqueue, Control, OwnerPosts, InUserCode
  <2>3. CASE tpc'[Owner] = tpc[Owner]
    <3>1. tpc[Owner] = "made" /\ InUserCode
      BY <1>1, <1>3, <2>3 DEF OwnerPosts
    <3>2. pc' = pc
      BY <3>1 DEF InUserCode, Next, OwnerStep, ThreadStep, Start, Publish, Run, DoWork, DoDelayedWork,
         Return, Await, TimedOut, QuitInTask, SpuriousWakeup, Interrupt, Tick, SetBack, AskLoop, GetLoop, Create, Enqueue,
         Wakeup, vars
    <3> QED BY <3>1, <3>2 DEF InUserCode
  <2> QED BY <2>1, <2>2, <2>3, MadeSteps
<1> QED BY <1>2, <1>3 DEF OwnerPosts

\* A set with one more element.
LEMMA OneMore ==
    ASSUME NEW S, IsFiniteSet(S), NEW x, x \notin S
    PROVE  Cardinality(S \cup {x}) = Cardinality(S) + 1 /\ Cardinality(S) \in Nat
BY FS_AddElement, FS_CardinalityType

\* No wakeup is lost: who adds a task after the owner's look is still to signal, and
\* the owner resets the event only to look again.
LEMMA AwakeStep ==
    ASSUME LoopInv, [Next]_vars
    PROVE  Awake'
<1>1. Control /\ Awake /\ doneWork \in BOOLEAN
  BY TypeParts, Zenon DEF LoopInv, Flags
<1>2. Adding \subseteq Threads /\ IsFiniteSet(Adding)
  BY ConstantsAssumption, FS_Subset DEF Adding
<1>3. CASE DoWork
  <2>1. ASSUME Stays, pc' = "delayed", _outgoingTasks' = <<>>, _incomingTasks' = <<>>
        PROVE  Awake'
    <3>1. Adding' = Adding
      BY <1>3 DEF DoWork, Adding
    <3>2. Len(_incomingTasks') = 0 /\ Cardinality(Adding) \in Nat
      BY <1>2, <2>1, FS_CardinalityType
    <3>3. Len(_incomingTasks') <= Cardinality(Adding')
      BY <3>1, <3>2
    <3> QED BY <2>1, <3>3 DEF Awake
  <2>2. CASE pc' = pc \/ pc' = "in_work"
    BY <1>3, <2>2 DEF Awake, DoWork
  <2> QED BY <1>3, <2>1, <2>2, DoWorkFacts
<1>4. CASE DoDelayedWork
  <2>1. CASE pc' \in {"in_delayed", "work"}
    BY <2>1 DEF Awake
  <2>2. CASE pc' = "wait" /\ ~doneWork
    <3>1. pc = "delayed" /\ Adding' = Adding /\ _signaled' = _signaled
      BY <1>4 DEF DoDelayedWork, Adding
    <3>2. _incomingTasks' = _incomingTasks /\ _outgoingTasks' = _outgoingTasks
      BY <1>4, DoDelayedFacts
    <3> QED BY <1>1, <2>2, <3>1, <3>2 DEF Awake
  <2> QED BY <1>1, <1>4, <2>1, <2>2, DoDelayedFacts
<1>5. CASE Await \/ TimedOut \/ SpuriousWakeup
  <2>1. /\ Adding' = Adding /\ _incomingTasks' = _incomingTasks /\ _outgoingTasks' = _outgoingTasks
        /\ pc \in {"wait", "waiting", "spinning"}
        /\ pc' = "work" \/ (pc' \in {"wait", "waiting", "spinning"} /\ _signaled' = _signaled)
    BY <1>5 DEF Await, TimedOut, SpuriousWakeup, Adding, loopVars
  <2> QED BY <1>1, <2>1 DEF Awake
<1>6. CASE Start \/ Run \/ Publish
  BY <1>6 DEF Start, Run, Publish, Awake
<1>7. CASE Return
  <2>1. pc' \in {"dead", "delayed", "work"} /\ doneWork' = doneWork /\ (pc' = "delayed" => pc = "in_work")
    BY <1>7 DEF Return, loopVars
  <2>2. pc' = "delayed" => doneWork'
    BY <1>1, <2>1 DEF LoopInv, Worked
  <2> QED BY <2>1, <2>2 DEF Awake
<1>8. CASE QuitInTask \/ Interrupt \/ Tick \/ SetBack \/ UNCHANGED vars
  <2>1. /\ pc' = pc \/ (pc = "waiting" /\ pc' = "wait")
        /\ Adding' = Adding /\ _incomingTasks' = _incomingTasks
        /\ _outgoingTasks' = _outgoingTasks /\ _signaled' = _signaled /\ doneWork' = doneWork
    BY <1>8 DEF QuitInTask, Interrupt, Tick, SetBack, vars, loopVars, Adding
  <2> QED BY <1>1, <2>1 DEF Awake
<1>9. ASSUME NEW t \in Everyone,
             \/ AskLoop(t) \/ GetLoop(t)
             \/ \E at \in Dues, quits \in BOOLEAN : Create(t, at, quits)
      PROVE  Awake'
  <2>1. PICK v \in {"no_loop", "asking", "blocked", "ready", "made"} : tpc' = [tpc EXCEPT ![t] = v]
    BY <1>9 DEF AskLoop, GetLoop, Create
  <2>2. /\ pc' = pc /\ _incomingTasks' = _incomingTasks /\ tpc[t] # "added" /\ v # "added"
        /\ _outgoingTasks' = _outgoingTasks /\ _signaled' = _signaled /\ doneWork' = doneWork
    BY <1>9, <2>1 DEF AskLoop, GetLoop, Create, loopVars
  <2>3. \A u \in Threads : tpc'[u] = "added" <=> tpc[u] = "added"
    BY <1>1, <2>1, <2>2 DEF Control, Everyone
  <2>4. Adding' = Adding
    BY <2>3 DEF Adding
  <2> QED BY <1>1, <2>2, <2>4 DEF Awake
<1>10. ASSUME NEW t \in Everyone, Wakeup(t)
       PROVE  Awake'
  <2>1. /\ _signaled' = TRUE /\ _outgoingTasks' = _outgoingTasks /\ doneWork' = doneWork
        /\ pc' = pc \/ (pc = "waiting" /\ pc' = "wait")
    BY <1>10 DEF Wakeup, loopVars
  <2> QED BY <1>1, <2>1 DEF Awake
<1>11. ASSUME NEW t \in Everyone, Enqueue(t)
       PROVE  Awake'
  <2>1. CASE t = Owner
    <3>1. pc' = pc /\ pc \in {"in_work", "in_delayed"}
      BY <1>11, <2>1 DEF Enqueue, LoopInv, OwnerPosts, InUserCode
    <3> QED BY <3>1 DEF Awake
  <2>2. CASE t # Owner
    <3>1. /\ t \in Threads /\ tpc[t] = "made" /\ tpc' = [tpc EXCEPT ![t] = "added"]
          /\ pc' = pc /\ _outgoingTasks' = _outgoingTasks /\ _signaled' = _signaled /\ doneWork' = doneWork
          /\ _incomingTasks' = Append(_incomingTasks, made[t])
      BY <1>11, <2>2 DEF Enqueue, loopVars, Everyone
    <3>2. Adding' = Adding \cup {t} /\ t \notin Adding
      BY <1>1, <3>1 DEF Adding, Control, Everyone
    <3>3. Cardinality(Adding') = Cardinality(Adding) + 1 /\ Cardinality(Adding) \in Nat
      BY <1>2, <3>2, OneMore
    <3>4. Len(_incomingTasks') = Len(_incomingTasks) + 1 /\ Len(_incomingTasks) \in Nat
      BY <3>1, QueueType DEF LoopInv
    <3>5. Len(_incomingTasks) <= Cardinality(Adding) => Len(_incomingTasks') <= Cardinality(Adding')
      BY <3>3, <3>4
    <3> QED BY <1>1, <3>1, <3>5 DEF Awake
  <2> QED BY <2>1, <2>2
<1> QED BY <1>3, <1>4, <1>5, <1>6, <1>7, <1>8, <1>9, <1>10, <1>11
        DEF Next, OwnerStep, ThreadStep, Everyone

\* A task that begins is reported as work done.
LEMMA WorkedStep ==
    ASSUME LoopInv, [Next]_vars
    PROVE  Worked'
<1>1. Worked /\ doneWork \in BOOLEAN
  BY TypeParts, Zenon DEF LoopInv, Flags
<1>2. CASE DoWork
  BY <1>1, <1>2, DoWorkFacts DEF Worked, DoWork
<1>3. CASE DoDelayedWork
  BY <1>3, DoDelayedFacts DEF Worked
<1>4. CASE pc' = pc /\ doneWork' = doneWork
  BY <1>1, <1>4 DEF Worked
<1>5. CASE pc' # "in_work"
  BY <1>5 DEF Worked
<1> QED BY <1>2, <1>3, <1>4, <1>5 DEF Next, OwnerStep, ThreadStep, Start, Publish, Run, Return,
     Await, TimedOut, QuitInTask, SpuriousWakeup, Interrupt, Tick, SetBack, AskLoop, GetLoop, Create, Enqueue, Wakeup,
     vars, loopVars

\* The invariant at the start.
LEMMA LoopStart == Init => LoopInv
<1> SUFFICES ASSUME Init PROVE LoopInv
  OBVIOUS
<1>1. Flags
  BY Zenon DEF Init, Flags
<1>2. Control
  BY DEF Init, Control, Everyone
<1>3. Data
  BY ConstantsAssumption DEF Init, Data
<1>4. Queue = <<>>
  <2>1. Queue = <<>> \o <<>>
    BY DEF Init, Queue
  <2> QED BY <2>1
<1>5. Range(pending) = {} /\ Range(Queue) = {} /\ DOMAIN pending = {} /\ DOMAIN Queue = {}
  BY <1>4 DEF Init, Range
<1>6. Sorted(pending, Queue, _delayedTasks)
  BY <1>5 DEF Init, Sorted, Once
<1>7. Numbered
  BY <1>5 DEF Init, Numbered, Everyone
<1>8. OwnerPosts /\ Awake /\ Worked /\ \A x \in _delayedTasks : x.at # 0
  BY DEF Init, OwnerPosts, Awake, Worked
<1> QED BY <1>1, <1>2, <1>3, <1>6, <1>7, <1>8, TypeParts DEF LoopInv

\* The invariant in every step.
LEMMA LoopStep == LoopInv /\ [Next]_vars => LoopInv'
<1> SUFFICES ASSUME LoopInv, [Next]_vars PROVE LoopInv'
  OBVIOUS
<1>1. TypeOK'
  <2>1. Flags' /\ Control' /\ Data'
    BY FlagsStep, ControlStep, DataStep
  <2>2. TypeOK <=> Flags /\ Control /\ Data
    BY TypeParts
  <2> QED BY <2>1, Zenon DEF TypeOK, Flags, Control, Data, Everyone
<1>2. Sorted(pending', Queue', _delayedTasks') /\ \A x \in _delayedTasks' : x.at # 0
  BY SortedStep
<1> QED BY <1>1, <1>2, NumberedStep, OwnerPostsStep, AwakeStep, WorkedStep DEF LoopInv

-----------------------------------------------------------------------------
(* The theorems.                                                           *)

\* The invariant holds in every behaviour of the loop.
THEOREM LoopInvariant == Spec => []LoopInv
BY LoopStart, LoopStep, PTL DEF Spec

\* Tasks that were posted and have not begun are in exactly one of the three queues,
\* and the owner does not wait for a signal that nobody is going to give.
THEOREM NothingLostTheorem == Spec => []NothingLost
<1>1. LoopInv => NothingLost
  <2> SUFFICES ASSUME LoopInv PROVE NothingLost
    OBVIOUS
  <2>1. TypeOK /\ Sorted(pending, Queue, _delayedTasks)
    BY DEF LoopInv
  <2>2. /\ Queue \in Seq(Tasks) /\ pending \in Seq(Tasks)
        /\ Len(Queue) = Len(_outgoingTasks) + Len(_incomingTasks)
        /\ Range(Queue) = Range(_outgoingTasks) \cup Range(_incomingTasks)
    BY <2>1, QueueType
  <2>3. Len(pending) = Len(Queue) + Cardinality(_delayedTasks)
    BY <2>1, <2>2, SortedSize
  <2>4. Range(pending) = Range(Queue) \cup _delayedTasks
    BY <2>1 DEF Sorted
  <2>5. NoTaskLost
    BY <2>1, <2>2, <2>3, <2>4 DEF NoTaskLost
  <2>6. NoLostWakeup
    BY DEF LoopInv, Awake, NoLostWakeup, Adding
  <2> QED BY <2>5, <2>6 DEF NothingLost
<1> QED BY <1>1, LoopInvariant, PTL

\* What TaskOrder takes for quitting.
Quitting == pc = "dead" \/ (InUserCode /\ ~_running)

\* Only a task and quit tell the loop to quit, and it stays told.
LEMMA QuittingSteps ==
    ASSUME LoopInv, [Next]_vars
    PROVE  \/ Quitting' = Quitting
           \/ DoWork /\ ~Quitting /\ pc' = "in_work"
           \/ DoDelayedWork /\ ~Quitting /\ pc' = "in_delayed"
           \/ QuitInTask /\ Quitting' = TRUE
<1>1. CASE DoWork
  BY <1>1, DoWorkFacts DEF DoWork, Quitting, InUserCode
<1>2. CASE DoDelayedWork
  <2>1. pc = "delayed" /\ pc' \in {"work", "wait", "in_delayed"}
    BY <1>2, DoDelayedFacts DEF DoDelayedWork
  <2> QED BY <1>2, <2>1 DEF Quitting, InUserCode
<1>3. CASE QuitInTask
  BY <1>3 DEF QuitInTask, Quitting, InUserCode
<1>4. CASE Return
  BY <1>4 DEF Return, Quitting, InUserCode, loopVars
<1>5. CASE Start \/ Publish \/ Run \/ Await \/ TimedOut \/ SpuriousWakeup
  <2>1. /\ pc \in {"new", "starting", "run", "wait", "waiting", "spinning"}
        /\ pc' \in {"starting", "run", "work", "wait", "waiting", "spinning"}
    BY <1>5 DEF Start, Publish, Run, Await, TimedOut, SpuriousWakeup
  <2> QED BY <2>1 DEF Quitting, InUserCode
<1>6. CASE Interrupt \/ Tick \/ SetBack \/ UNCHANGED vars
  <2>1. _running' = _running /\ (pc' = pc \/ (pc = "waiting" /\ pc' = "wait"))
    BY <1>6 DEF Interrupt, Tick, SetBack, vars, loopVars
  <2> QED BY <2>1 DEF Quitting, InUserCode
<1>7. ASSUME NEW t \in Everyone,
             \/ AskLoop(t) \/ GetLoop(t) \/ Enqueue(t)
             \/ \E at \in Dues, quits \in BOOLEAN : Create(t, at, quits)
      PROVE  Quitting' = Quitting
  <2>1. pc' = pc /\ _running' = _running
    BY <1>7 DEF AskLoop, GetLoop, Enqueue, Create, loopVars
  <2> QED BY <2>1 DEF Quitting, InUserCode
<1>8. ASSUME NEW t \in Everyone, Wakeup(t)
      PROVE  Quitting' = Quitting
  <2>1. _running' = _running /\ (pc' = pc \/ (pc = "waiting" /\ pc' = "wait"))
    BY <1>8 DEF Wakeup, loopVars
  <2> QED BY <2>1 DEF Quitting, InUserCode
<1> QED BY <1>1, <1>2, <1>3, <1>4, <1>5, <1>6, <1>7, <1>8 DEF Next, OwnerStep, ThreadStep, Everyone

\* A step that begins a task begins the one TaskOrder says.
LEMMA BeginStep ==
    ASSUME LoopInv, BeginsFirst \/ BeginsDelayed, ~Quitting, latest' = latest
    PROVE  \E i \in DOMAIN pending : TO!Begin(i)
<1>1. pending \in Seq(Tasks) /\ Range(pending) \subseteq Tasks /\ latest \in Nat
  BY QueueType, RangeOfSeq, ConstantsAssumption DEF LoopInv, TypeOK
<1>2. \A j \in DOMAIN pending : pending[j] \in Tasks
  BY <1>1
<1>3. DOMAIN pending \subseteq Nat /\ \A i \in DOMAIN pending : \A j \in 1 .. i - 1 : j \in DOMAIN pending /\ j < i
  BY <1>1
<1>4. \A x \in _delayedTasks : x \in Tasks /\ x.at # 0
  BY DEF LoopInv, TypeOK
<1>5. Quitting' \in BOOLEAN
  BY Zenon DEF Quitting
<1>6. CASE BeginsFirst
  <2>1. PICK i \in DOMAIN pending :
            /\ pending[i] = Head(Queue)
            /\ pending' = RemoveAt(pending, i)
            /\ \A j \in DOMAIN pending : j < i => pending[j] \in _delayedTasks
    BY <1>6, FirstBegins
  <2>2. pending[i].at = 0
    BY <1>6, <2>1 DEF BeginsFirst
  <2>3. \A j \in 1 .. i - 1 : pending[j].at # 0
    BY <1>3, <1>4, <2>1
  <2>4. TO!BeginImmediate(i)
    BY <2>2, <2>3 DEF TO!BeginImmediate
  <2>6. TO!RemoveAt(pending, i) = RemoveAt(pending, i)
    BY DEF TO!RemoveAt, RemoveAt
  <2>7. TO!Begin(i)
    BY <2>1, <2>4, <2>6, <1>5 DEF TO!Begin, Quitting
  <2> QED BY <2>7
<1>7. CASE BeginsDelayed
  <2>1. Top \in _delayedTasks /\ Top.at <= latest
    BY <1>7, TopBegins DEF BeginsDelayed
  <2>2. PICK i \in DOMAIN pending :
            /\ pending[i] = Top
            /\ pending' = RemoveAt(pending, i)
            /\ \A j \in DOMAIN pending : j < i => pending[j] \in _delayedTasks \ {Top}
    BY <1>7, TopBegins
  <2>3. Top.at \in 1 .. latest
    <3>1. Top.at \in Nat /\ Top.at # 0
      BY <1>4, <2>1, TaskFacts
    <3> QED BY <1>1, <2>1, <3>1
  <2>4. \A j \in 1 .. i - 1 : ~TO!Before(pending[j], Top)
    <3> SUFFICES ASSUME NEW j \in 1 .. i - 1 PROVE ~TO!Before(pending[j], Top)
      OBVIOUS
    <3>1. pending[j] \in _delayedTasks \ {Top}
      BY <1>3, <2>2
    <3>2. TO!Before(Top, pending[j])
      BY <3>1, <2>1, TopFacts
    <3>3. /\ pending[j].at \in Nat /\ pending[j].seq \in Nat
          /\ Top.at \in Nat /\ Top.seq \in Nat
      BY <1>4, <2>1, <3>1, TaskFacts
    <3> QED BY <3>2, <3>3 DEF TO!Before
  <2>5. TO!BeginDelayed(i)
    BY <2>2, <2>3, <2>4 DEF TO!BeginDelayed
  <2>6. TO!RemoveAt(pending, i) = RemoveAt(pending, i)
    BY DEF TO!RemoveAt, RemoveAt
  <2>7. TO!Begin(i)
    BY <2>2, <2>5, <2>6, <1>5 DEF TO!Begin, Quitting
  <2> QED BY <2>7
<1> QED BY <1>6, <1>7

\* Every step of the loop is one of TaskOrder, or none of its business.
LEMMA OrderStep ==
    ASSUME LoopInv, [Next]_vars
    PROVE  [TO!Next]_(TO!vars)
<1>1. ASSUME pending' = pending, latest' = latest, Quitting' = Quitting
      PROVE  UNCHANGED TO!vars
  BY <1>1 DEF TO!vars, Quitting
<1>2. CASE DoWork
  <2>1. latest' = latest
    BY <1>2 DEF DoWork, envVars
  <2>2. CASE BeginsFirst
    <3>1. ~Quitting
      BY <1>2 DEF DoWork, Quitting, InUserCode
    <3> QED BY <2>1, <2>2, <3>1, BeginStep DEF TO!Next
  <2>3. CASE pending' = pending /\ pc' # "in_work"
    <3>1. Quitting' = Quitting
      BY <1>2, <2>3, QuittingSteps DEF DoWork, DoDelayedWork, QuitInTask, InUserCode
    <3> QED BY <1>1, <2>1, <2>3, <3>1
  <2>4. pc = "work"
    BY <1>2 DEF DoWork
  <2> QED BY <1>2, <2>2, <2>3, <2>4, DoWorkFacts DEF Stays, Delays
<1>3. CASE DoDelayedWork
  <2>1. latest' = latest
    BY <1>3 DEF DoDelayedWork, envVars
  <2>2. CASE BeginsDelayed
    <3>1. ~Quitting
      BY <1>3 DEF DoDelayedWork, Quitting, InUserCode
    <3> QED BY <2>1, <2>2, <3>1, BeginStep DEF TO!Next
  <2>3. CASE pending' = pending /\ pc' # "in_delayed"
    <3>1. Quitting' = Quitting
      BY <1>3, <2>3, QuittingSteps DEF DoWork, DoDelayedWork, QuitInTask, InUserCode
    <3> QED BY <1>1, <2>1, <2>3, <3>1
  <2> QED BY <1>3, <2>2, <2>3, DoDelayedFacts DEF Stays
<1>4. CASE QuitInTask
  <2>1. Quitting' = TRUE /\ pending' = pending /\ latest' = latest
    BY <1>4 DEF QuitInTask, Quitting, InUserCode, envVars
  <2>2. TO!Quit
    BY <2>1 DEF TO!Quit, Quitting
  <2> QED BY <2>2 DEF TO!Next
<1>5. CASE Tick
  <2>1. now \in Nat /\ latest \in Nat
    BY ConstantsAssumption DEF LoopInv, TypeOK
  <2>2. /\ latest' = (IF now' > latest THEN now' ELSE latest) /\ now' = now + 1
        /\ pending' = pending /\ pc' = pc /\ _running' = _running
    BY <1>5 DEF Tick, loopVars
  <2>3. (latest' > latest \/ latest' = latest) /\ Quitting' = Quitting
    BY <2>1, <2>2 DEF Quitting, InUserCode
  <2>4. CASE latest' > latest
    <3>1. TO!Tick
      BY <2>2, <2>3, <2>4 DEF TO!Tick, Quitting
    <3> QED BY <3>1 DEF TO!Next
  <2>5. CASE latest' = latest
    BY <1>1, <2>2, <2>3, <2>5
  <2> QED BY <2>3, <2>4, <2>5
<1>6. ASSUME NEW t \in Everyone, Enqueue(t)
      PROVE  TO!Next
  <2>1. made[t] \in Tasks
    BY <1>6 DEF Enqueue, LoopInv, Numbered
  <2>2. /\ pending' = Append(pending, made[t]) /\ latest' = latest
        /\ pc' = pc /\ _running' = _running
    BY <1>6 DEF Enqueue, loopVars, envVars
  <2>3. Quitting' = Quitting
    BY <2>2 DEF Quitting, InUserCode
  <2>4. TO!Add(made[t])
    BY <2>2, <2>3 DEF TO!Add, Quitting
  <2> QED BY <2>1, <2>4 DEF TO!Next
<1>7. CASE pending' = pending /\ latest' = latest /\ ~DoWork /\ ~DoDelayedWork /\ ~QuitInTask
  BY <1>1, <1>7, QuittingSteps
<1> QED BY <1>2, <1>3, <1>4, <1>5, <1>6, <1>7 DEF Next, OwnerStep, ThreadStep, Start, Publish, Run,
     Return, Await, TimedOut, SpuriousWakeup, Interrupt, SetBack, AskLoop, GetLoop, Create, Wakeup,
     vars, envVars, Everyone

\* The loop implements TaskOrder: tasks without a due time begin in the order of
\* posting, delayed ones by due time and not before the clock has shown it (which, if
\* the clock was never set back, is not before it), none twice, and none once the loop
\* was told to quit.
THEOREM OrderTheorem == Spec => KeepsOrder
<1>1. Init => TO!Init
  BY DEF Init, TO!Init, InUserCode
<1>2. LoopInv /\ [Next]_vars => [TO!Next]_(TO!vars)
  BY OrderStep
<1> QED BY <1>1, <1>2, LoopInvariant, PTL DEF Spec, KeepsOrder, TO!Spec

=============================================================================
