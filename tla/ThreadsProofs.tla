---------------------------- MODULE ThreadsProofs ----------------------------
(***************************************************************************)
(* Proofs about the components of MCThreads, for any number of threads.    *)
(***************************************************************************)
EXTENDS MCThreads, Integers, Sequences, FiniteSetTheorems, NaturalsInduction, TLAPS

-----------------------------------------------------------------------------
(* Threads that are counted by where they are.                             *)

\* The threads of T that f has in a place of V, and how many they are.
Among(f, T, V) == {u \in T : f[u] \in V}
Count(f, T, V) == Cardinality(Among(f, T, V))
One(p, V) == IF p \in V THEN 1 ELSE 0

\* Only thread t goes elsewhere.
Moves(f, g, t, T) == t \in T /\ \A u \in T : u # t => g[u] = f[u]

\* A count is a number, at least 1 if there is somebody to count, and 0 if not.
LEMMA CountFacts ==
    ASSUME NEW T, IsFiniteSet(T), NEW f, NEW V
    PROVE  /\ IsFiniteSet(Among(f, T, V))
           /\ Count(f, T, V) \in Nat
           /\ \A t \in T : f[t] \in V => Count(f, T, V) >= 1
           /\ (\A t \in T : f[t] \notin V) => Count(f, T, V) = 0
<1>1. Among(f, T, V) \in SUBSET T
  BY DEF Among
<1>2. IsFiniteSet(Among(f, T, V))
  BY <1>1, FS_Subset
<1>3. Count(f, T, V) \in Nat
  BY <1>2, FS_CardinalityType DEF Count
<1>4. Among(f, T, V) # {} => Count(f, T, V) # 0
  BY <1>2, FS_EmptySet DEF Count
<1>5. Among(f, T, V) = {} => Count(f, T, V) = 0
  BY FS_EmptySet DEF Count
<1> QED BY <1>2, <1>3, <1>4, <1>5 DEF Among

\* How the count changes when one thread goes from f[t] to g[t].
LEMMA MoveFacts ==
    ASSUME NEW T, IsFiniteSet(T), NEW f, NEW g, NEW t, NEW V, Moves(f, g, t, T)
    PROVE  Count(g, T, V) = Count(f, T, V) + One(g[t], V) - One(f[t], V)
<1> DEFINE A == Among(f, T, V)
           B == Among(g, T, V)
<1>1. IsFiniteSet(A) /\ IsFiniteSet(B) /\ Cardinality(A) \in Nat /\ Cardinality(B) \in Nat
  BY CountFacts DEF Count
<1>2. (f[t] \in V <=> g[t] \in V) => B = A
  BY DEF Among, Moves
<1>3. f[t] \notin V /\ g[t] \in V => B = A \cup {t} /\ t \notin A
  BY DEF Among, Moves
<1>4. f[t] \in V /\ g[t] \notin V => B = A \ {t} /\ t \in A
  BY DEF Among, Moves
<1> HIDE DEF A, B
<1>5. f[t] \notin V /\ g[t] \in V => Cardinality(B) = Cardinality(A) + 1
  BY <1>1, <1>3, FS_AddElement
<1>6. f[t] \in V /\ g[t] \notin V => Cardinality(B) = Cardinality(A) - 1
  BY <1>1, <1>4, FS_RemoveElement
<1>7. Cardinality(B) = Cardinality(A) + One(g[t], V) - One(f[t], V)
  BY <1>1, <1>2, <1>5, <1>6 DEF One
<1> QED BY <1>7 DEF A, B, Count

\* If at most one thread is counted, there is no other.
LEMMA OneOnly ==
    ASSUME NEW T, IsFiniteSet(T), NEW f, NEW V, Count(f, T, V) <= 1,
           NEW t \in T, NEW u \in T, f[t] \in V, f[u] \in V
    PROVE  t = u
<1> DEFINE A == Among(f, T, V)
<1>1. IsFiniteSet(A) /\ Cardinality(A) \in Nat /\ Cardinality(A) <= 1 /\ Cardinality(A) >= 1
  BY CountFacts DEF Count
<1>2. t \in A /\ u \in A
  BY DEF Among
<1> HIDE DEF A
<1>3. Cardinality(A) = 1
  BY <1>1
<1>4. \E x : A = {x}
  BY <1>1, <1>3, FS_Singleton
<1> QED BY <1>2, <1>4

\* The components count as this module does.
LEMMA SameCount ==
    ASSUME NEW S
    PROVE  /\ L!IsFiniteSet(S) <=> IsFiniteSet(S)
           /\ L!Cardinality(S) = Cardinality(S)
           /\ R!IsFiniteSet(S) <=> IsFiniteSet(S)
           /\ R!Cardinality(S) = Cardinality(S)
           /\ P!Cardinality(S) = Cardinality(S)
           /\ Q!IsFiniteSet(S) <=> IsFiniteSet(S)
           /\ Q!Cardinality(S) = Cardinality(S)
BY DEF L!IsFiniteSet, L!Cardinality, R!IsFiniteSet, R!Cardinality, P!Cardinality,
       Q!IsFiniteSet, Q!Cardinality, IsFiniteSet, Cardinality

-----------------------------------------------------------------------------
(* LightMutex.                                                             *)

\* The threads that LightMutex has.
LightThreads == Threads \cup More

\* The threads that have the mutex, that wait, and that are about to release.
Have == {"locked", "in", "tried", "leaving"}
LightOwning == Count(pc, LightThreads, Have)
LightWaiting == Count(pc, LightThreads, {"wait"})
LightReleasing == Count(pc, LightThreads, {"release"})

\* The counter and the semaphore know how many threads there are, and whoever is
\* recorded as owner has come by lock and not yet begun to unlock.
LightInv ==
    /\ L!TypeOK /\ ~dropped
    /\ use_count_ = LightOwning + LightWaiting
    /\ LightOwning + LightReleasing + sem_ = IF use_count_ > 0 THEN 1 ELSE 0
    /\ \A t \in LightThreads : pc[t] = "in" => owner_tid_ = t
    /\ owner_tid_ # NoThread => pc[owner_tid_] = "in"

\* The set of threads is finite, and NoThread is not one of them.
LEMMA LightThreadsFacts == IsFiniteSet(LightThreads) /\ NoThread \notin LightThreads
BY ThreadsAssumption, SameCount DEF L!ThreadsAssumption, LightThreads

\* The counts are numbers, and count a thread that is in its place.
LEMMA LightCounts ==
    /\ LightOwning \in Nat /\ LightWaiting \in Nat /\ LightReleasing \in Nat
    /\ \A t \in LightThreads :
          /\ pc[t] \in Have => LightOwning >= 1
          /\ pc[t] = "wait" => LightWaiting >= 1
          /\ pc[t] = "release" => LightReleasing >= 1
BY LightThreadsFacts, CountFacts DEF LightOwning, LightWaiting, LightReleasing

\* What a step of thread t does to the counts.
LEMMA LightMoves ==
    ASSUME NEW t \in LightThreads, Moves(pc, pc', t, LightThreads)
    PROVE  /\ LightOwning' = LightOwning + One(pc'[t], Have) - One(pc[t], Have)
           /\ LightWaiting' = LightWaiting + One(pc'[t], {"wait"}) - One(pc[t], {"wait"})
           /\ LightReleasing' = LightReleasing + One(pc'[t], {"release"}) - One(pc[t], {"release"})
<1> DEFINE q == pc'
<1>1. /\ LightOwning' = Count(q, LightThreads, Have)
      /\ LightWaiting' = Count(q, LightThreads, {"wait"})
      /\ LightReleasing' = Count(q, LightThreads, {"release"})
  BY DEF LightOwning, LightWaiting, LightReleasing, Count, Among
<1>2. Moves(pc, q, t, LightThreads) /\ IsFiniteSet(LightThreads)
  BY LightThreadsFacts
<1> HIDE DEF q
<1>3. ASSUME NEW V PROVE Count(q, LightThreads, V) = Count(pc, LightThreads, V) + One(q[t], V) - One(pc[t], V)
  BY <1>2, MoveFacts
<1> QED BY <1>1, <1>3 DEF LightOwning, LightWaiting, LightReleasing, q

\* Every step of a thread keeps the invariant.  A thread that is let in finds nobody
\* there, as the right to go on was in the counter or in the semaphore.
LEMMA LightStep ==
    ASSUME LightInv, NEW t \in LightThreads, L!Lock(t) \/ L!TryLock(t) \/ L!Wake(t) \/ L!Step(t)
    PROVE  LightInv'
<1> DEFINE Places == {"idle", "wait", "locked", "in", "tried", "leaving", "release"}
<1>1. /\ use_count_ \in Nat /\ owner_tid_ \in LightThreads \cup {NoThread} /\ sem_ \in {0, 1}
      /\ pc \in [LightThreads -> Places] /\ ~dropped /\ dropped = FALSE /\ L!TypeOK
      /\ NoThread \notin LightThreads
  BY LightThreadsFacts DEF LightInv, L!TypeOK, LightThreads
<1>2. \E p \in Places : pc' = [pc EXCEPT ![t] = p]
  BY <1>1 DEF L!Lock, L!TryLock, L!Wake, L!Step, L!SetOwner, L!Unlock, L!Leave, L!Release
<1>3. pc' \in [LightThreads -> Places] /\ \A u \in LightThreads : u # t => pc'[u] = pc[u]
  BY <1>1, <1>2
<1>4. ASSUME use_count_' \in Nat, owner_tid_' \in LightThreads \cup {NoThread}, sem_' \in {0, 1},
             dropped' = FALSE,
             use_count_' = LightOwning' + LightWaiting',
             LightOwning' + LightReleasing' + sem_' = IF use_count_' > 0 THEN 1 ELSE 0,
             \A u \in LightThreads : pc'[u] = "in" => owner_tid_' = u,
             owner_tid_' # NoThread => pc'[owner_tid_'] = "in"
      PROVE  LightInv'
  BY <1>1, <1>4, <1>3 DEF LightInv, L!TypeOK, LightThreads
<1> DEFINE c == LightOwning
           w == LightWaiting
           r == LightReleasing
<1>5. /\ c \in Nat /\ w \in Nat /\ r \in Nat /\ sem_ \in {0, 1} /\ use_count_ \in Nat
      /\ use_count_ = c + w
      /\ c + r + sem_ = IF use_count_ > 0 THEN 1 ELSE 0
      /\ pc[t] \in Have => c >= 1
      /\ pc[t] = "wait" => w >= 1
      /\ pc[t] = "release" => r >= 1
  BY <1>1, LightCounts DEF LightInv
<1>6. /\ \A u \in LightThreads : pc[u] = "in" => owner_tid_ = u
      /\ owner_tid_ # NoThread => pc[owner_tid_] = "in" /\ owner_tid_ \in LightThreads
  BY <1>1 DEF LightInv
<1>7. c <= 1 => \A u, v \in LightThreads : pc[u] \in Have /\ pc[v] \in Have => u = v
  BY LightThreadsFacts, OneOnly DEF LightOwning
<1>8. /\ LightOwning' = c + One(pc'[t], Have) - One(pc[t], Have)
      /\ LightWaiting' = w + One(pc'[t], {"wait"}) - One(pc[t], {"wait"})
      /\ LightReleasing' = r + One(pc'[t], {"release"}) - One(pc[t], {"release"})
  <2>1. Moves(pc, pc', t, LightThreads)
    BY <1>3 DEF Moves
  <2> QED BY <2>1, LightMoves
<1> HIDE DEF c, w, r, Places
<1>9. CASE L!Lock(t)
  <2>1. /\ pc[t] = "idle" /\ use_count_' = use_count_ + 1
        /\ pc'[t] = (IF use_count_ > 0 THEN "wait" ELSE "locked")
        /\ owner_tid_' = owner_tid_ /\ sem_' = sem_ /\ dropped' = FALSE
    BY <1>1, <1>9 DEF L!Lock
  <2>2. CASE use_count_ > 0
    <3>1. pc'[t] = "wait"
      BY <2>1, <2>2
    <3>2. LightOwning' = c /\ LightWaiting' = w + 1 /\ LightReleasing' = r
      <4>1. pc[t] = "idle"
        BY <2>1
      <4> QED BY <1>5, <1>8, <4>1, <3>1 DEF One, Have
    <3>3. /\ \A u \in LightThreads : pc'[u] = "in" => owner_tid_' = u
          /\ owner_tid_' # NoThread => pc'[owner_tid_'] = "in"
      BY <1>6, <1>3, <2>1, <3>1
    <3>4. /\ use_count_' \in Nat /\ sem_' \in {0, 1}
          /\ use_count_' = LightOwning' + LightWaiting'
          /\ LightOwning' + LightReleasing' + sem_' = IF use_count_' > 0 THEN 1 ELSE 0
      BY <1>5, <2>1, <2>2, <3>1, <3>2, <3>3 DEF Have
    <3> QED BY <1>1, <1>4, <2>1, <2>2, <3>1, <3>2, <3>3, <3>4
  <2>3. CASE use_count_ = 0
    <3>1. pc'[t] = "locked"
      BY <2>1, <2>3
    <3>2. LightOwning' = c + 1 /\ LightWaiting' = w /\ LightReleasing' = r
      <4>1. pc[t] = "idle"
        BY <2>1
      <4> QED BY <1>5, <1>8, <4>1, <3>1 DEF One, Have
    <3>3. /\ \A u \in LightThreads : pc'[u] = "in" => owner_tid_' = u
          /\ owner_tid_' # NoThread => pc'[owner_tid_'] = "in"
      BY <1>6, <1>3, <2>1, <3>1
    <3>4. /\ use_count_' \in Nat /\ sem_' \in {0, 1}
          /\ use_count_' = LightOwning' + LightWaiting'
          /\ LightOwning' + LightReleasing' + sem_' = IF use_count_' > 0 THEN 1 ELSE 0
      BY <1>5, <2>1, <2>3, <3>2
    <3> QED BY <1>1, <1>4, <2>1, <2>3, <3>1, <3>2, <3>3, <3>4
  <2> QED BY <1>1, <2>2, <2>3
<1>10. CASE L!TryLock(t)
  <2>1. /\ pc[t] = "idle" /\ use_count_ = 0 /\ use_count_' = 1
        /\ pc'[t] = "tried"
        /\ owner_tid_' = owner_tid_ /\ sem_' = sem_ /\ dropped' = FALSE
    BY <1>1, <1>10 DEF L!TryLock
  <2>2. LightOwning' = c + 1 /\ LightWaiting' = w /\ LightReleasing' = r
    BY <1>5, <1>8, <2>1 DEF One, Have
  <2>3. /\ \A u \in LightThreads : pc'[u] = "in" => owner_tid_' = u
        /\ owner_tid_' # NoThread => pc'[owner_tid_'] = "in"
    BY <1>6, <1>3, <2>1
  <2>4. /\ use_count_' \in Nat /\ sem_' \in {0, 1}
        /\ use_count_' = LightOwning' + LightWaiting'
        /\ LightOwning' + LightReleasing' + sem_' = IF use_count_' > 0 THEN 1 ELSE 0
    BY <1>5, <2>1, <2>2, <2>3 DEF Have
  <2> QED BY <1>1, <1>4, <2>1, <2>2, <2>3, <2>4
<1>11. CASE L!Wake(t)
  <2>1. /\ pc[t] = "wait" /\ sem_ > 0 /\ sem_' = sem_ - 1
        /\ pc'[t] = "locked"
        /\ owner_tid_' = owner_tid_ /\ use_count_' = use_count_ /\ dropped' = FALSE
    BY <1>1, <1>11 DEF L!Wake
  <2>2. LightOwning' = c + 1 /\ LightWaiting' = w - 1 /\ LightReleasing' = r
    BY <1>5, <1>8, <2>1 DEF One, Have
  <2>3. /\ \A u \in LightThreads : pc'[u] = "in" => owner_tid_' = u
        /\ owner_tid_' # NoThread => pc'[owner_tid_'] = "in"
    BY <1>6, <1>3, <2>1
  <2>4. sem_' \in {0, 1}
    BY <1>1, <2>1
  <2>5. /\ use_count_' \in Nat /\ sem_' \in {0, 1}
        /\ use_count_' = LightOwning' + LightWaiting'
        /\ LightOwning' + LightReleasing' + sem_' = IF use_count_' > 0 THEN 1 ELSE 0
    BY <1>5, <2>1, <2>2, <2>3, <2>4 DEF Have
  <2> QED BY <1>1, <1>4, <2>1, <2>2, <2>3, <2>4, <2>5
<1>12. CASE L!SetOwner(t)
  <2>1. /\ pc[t] = "locked" /\ owner_tid_' = t
        /\ pc'[t] = "in"
        /\ sem_' = sem_ /\ use_count_' = use_count_ /\ dropped' = FALSE
    BY <1>1, <1>12 DEF L!SetOwner
  <2>2. LightOwning' = c /\ LightWaiting' = w /\ LightReleasing' = r
    BY <1>5, <1>8, <2>1 DEF One, Have
  <2>3. c <= 1
    BY <1>1, <1>5
  <2>4. /\ \A u \in LightThreads : pc'[u] = "in" => owner_tid_' = u
        /\ owner_tid_' # NoThread => pc'[owner_tid_'] = "in"
    BY <1>7, <1>3, <2>1, <2>3 DEF Have
  <2>5. /\ use_count_' \in Nat /\ sem_' \in {0, 1}
        /\ use_count_' = LightOwning' + LightWaiting'
        /\ LightOwning' + LightReleasing' + sem_' = IF use_count_' > 0 THEN 1 ELSE 0
    BY <1>5, <2>1, <2>2, <2>4 DEF Have
  <2> QED BY <1>1, <1>4, <2>1, <2>2, <2>4, <2>5
<1>13. CASE L!Unlock(t)
  <2>1. /\ pc[t] \in {"in", "tried"} /\ owner_tid_' = NoThread
        /\ pc'[t] = "leaving"
        /\ sem_' = sem_ /\ use_count_' = use_count_ /\ dropped' = FALSE
    BY <1>1, <1>13 DEF L!Unlock
  <2>2. LightOwning' = c /\ LightWaiting' = w /\ LightReleasing' = r
    BY <1>5, <1>8, <2>1 DEF One, Have
  <2>3. c <= 1
    BY <1>1, <1>5
  <2>4. \A u \in LightThreads : pc'[u] = "in" => owner_tid_' = u
    BY <1>7, <1>3, <2>1, <2>3 DEF Have
  <2>5. /\ use_count_' \in Nat /\ sem_' \in {0, 1}
        /\ use_count_' = LightOwning' + LightWaiting'
        /\ LightOwning' + LightReleasing' + sem_' = IF use_count_' > 0 THEN 1 ELSE 0
    BY <1>5, <2>1, <2>2, <2>4 DEF Have
  <2> QED BY <1>1, <1>4, <2>1, <2>2, <2>4, <2>5
<1>14. CASE L!Leave(t)
  <2>1. /\ pc[t] = "leaving" /\ use_count_' = use_count_ - 1
        /\ pc'[t] = (IF use_count_ > 1 THEN "release" ELSE "idle")
        /\ owner_tid_' = owner_tid_ /\ sem_' = sem_ /\ dropped' = FALSE
    BY <1>1, <1>14 DEF L!Leave
  <2>2. use_count_' \in Nat
    BY <1>1, <1>5, <2>1 DEF Have
  <2>3. CASE use_count_ > 1
    <3>1. pc'[t] = "release"
      BY <2>1, <2>3
    <3>2. LightOwning' = c - 1 /\ LightWaiting' = w /\ LightReleasing' = r + 1
      BY <1>5, <1>8, <2>1, <3>1 DEF One, Have
    <3>3. /\ \A u \in LightThreads : pc'[u] = "in" => owner_tid_' = u
          /\ owner_tid_' # NoThread => pc'[owner_tid_'] = "in"
      BY <1>6, <1>3, <2>1, <3>1
    <3>4. /\ use_count_' \in Nat /\ sem_' \in {0, 1}
          /\ use_count_' = LightOwning' + LightWaiting'
          /\ LightOwning' + LightReleasing' + sem_' = IF use_count_' > 0 THEN 1 ELSE 0
      BY <1>5, <2>1, <2>2, <2>3, <3>1, <3>2, <3>3 DEF Have
    <3> QED BY <1>1, <1>4, <2>1, <2>2, <2>3, <3>1, <3>2, <3>3, <3>4
  <2>4. CASE ~(use_count_ > 1)
    <3>1. pc'[t] = "idle"
      BY <2>1, <2>4
    <3>2. LightOwning' = c - 1 /\ LightWaiting' = w /\ LightReleasing' = r
      BY <1>5, <1>8, <2>1, <3>1 DEF One, Have
    <3>3. /\ \A u \in LightThreads : pc'[u] = "in" => owner_tid_' = u
          /\ owner_tid_' # NoThread => pc'[owner_tid_'] = "in"
      BY <1>6, <1>3, <2>1, <3>1
    <3>4. c >= 1
      BY <1>5, <2>1 DEF Have
    <3>5. /\ use_count_' \in Nat /\ sem_' \in {0, 1}
          /\ use_count_' = LightOwning' + LightWaiting'
          /\ LightOwning' + LightReleasing' + sem_' = IF use_count_' > 0 THEN 1 ELSE 0
      BY <1>5, <2>1, <2>2, <2>4, <3>1, <3>2, <3>3, <3>4 DEF Have
    <3> QED BY <1>1, <1>4, <2>1, <2>2, <2>4, <3>1, <3>2, <3>3, <3>4, <3>5
  <2> QED BY <2>3, <2>4
<1>15. CASE L!Release(t)
  <2>1. /\ pc[t] = "release" /\ pc'[t] = "idle"
        /\ owner_tid_' = owner_tid_ /\ use_count_' = use_count_
        /\ sem_ = 0 => sem_' = 1 /\ dropped' = dropped
    BY <1>1, <1>15 DEF L!Release
  <2>2. sem_ = 0
    BY <1>1, <1>5, <2>1
  <2>3. dropped' = FALSE
    BY <1>1, <2>1, <2>2
  <2>4. LightOwning' = c /\ LightWaiting' = w /\ LightReleasing' = r - 1
    BY <1>5, <1>8, <2>1 DEF One, Have
  <2>5. /\ \A u \in LightThreads : pc'[u] = "in" => owner_tid_' = u
        /\ owner_tid_' # NoThread => pc'[owner_tid_'] = "in"
    BY <1>6, <1>3, <2>1
  <2>6. /\ use_count_' \in Nat /\ sem_' \in {0, 1}
        /\ use_count_' = LightOwning' + LightWaiting'
        /\ LightOwning' + LightReleasing' + sem_' = IF use_count_' > 0 THEN 1 ELSE 0
    BY <1>5, <2>1, <2>2, <2>3, <2>4, <2>5 DEF Have
  <2> QED BY <1>1, <1>4, <2>1, <2>2, <2>3, <2>4, <2>5, <2>6
<1> QED BY <1>9, <1>10, <1>11, <1>12, <1>13, <1>14, <1>15 DEF L!Step

\* Nobody uses the mutex at first.
LEMMA LightInit == L!Init => LightInv
<1> SUFFICES ASSUME L!Init PROVE LightInv
  OBVIOUS
<1>1. \A t \in LightThreads : pc[t] = "idle"
  BY DEF L!Init, LightThreads
<1>2. LightOwning = 0 /\ LightWaiting = 0 /\ LightReleasing = 0
  BY <1>1, LightThreadsFacts, CountFacts DEF LightOwning, LightWaiting, LightReleasing, Have
<1>3. dropped \in BOOLEAN /\ ~dropped
  BY Zenon DEF L!Init
<1>4. L!TypeOK
  BY <1>3 DEF L!Init, L!TypeOK
<1>5. use_count_ = 0 /\ sem_ = 0 /\ owner_tid_ = NoThread
  BY DEF L!Init
<1> QED BY <1>1, <1>2, <1>3, <1>4, <1>5 DEF LightInv

\* The invariant in the words of the component.
LEMMA LightInvFacts == LightInv => L!MutualExclusion /\ L!OneToken /\ L!OwnerKnown
<1> SUFFICES ASSUME LightInv PROVE L!MutualExclusion /\ L!OneToken /\ L!OwnerKnown
  OBVIOUS
<1>1. /\ Cardinality(L!Owning) = LightOwning
      /\ Cardinality(L!Waiting) = LightWaiting
      /\ Cardinality(L!Releasing) = LightReleasing
  <2>1. /\ L!Owning = Among(pc, LightThreads, Have)
        /\ L!Waiting = Among(pc, LightThreads, {"wait"})
        /\ L!Releasing = Among(pc, LightThreads, {"release"})
    BY DEF L!Owning, L!Waiting, L!Releasing, Among, LightThreads, Have
  <2> QED BY <2>1 DEF LightOwning, LightWaiting, LightReleasing, Count
<1>2. L!OneToken
  BY <1>1, SameCount DEF LightInv, L!OneToken
<1>3. LightOwning <= 1
  BY LightCounts DEF LightInv, L!TypeOK
<1>4. L!MutualExclusion
  BY <1>3, LightThreadsFacts, OneOnly DEF LightOwning, L!MutualExclusion, L!Owning, LightThreads, Have
<1>5. L!OwnerKnown
  BY DEF LightInv, L!OwnerKnown, LightThreads
<1> QED BY <1>2, <1>4, <1>5

\* One thread has a LightMutex, the semaphore is released once for every thread that
\* waits, and a thread that came by lock is the recorded owner.
THEOREM MutexTheorem == Spec => []MutualExclusion
<1> DEFINE Inv == at = "light" => LightInv
<1>1. Init => Inv
  BY LightInit DEF Init
<1>2. Inv /\ [Next]_vars => Inv'
  <2> SUFFICES ASSUME LightInv, [Next]_vars, at = "light", at' = "light" PROVE LightInv'
    BY DEF Next, Light, Recursive, Queue, Pool, Stopped, vars
  <2>1. CASE UNCHANGED vars
    <3>1. UNCHANGED <<pc, use_count_, owner_tid_, sem_, dropped>>
      BY <2>1 DEF vars, mutexVars
    <3>2. LightOwning' = LightOwning /\ LightWaiting' = LightWaiting /\ LightReleasing' = LightReleasing
      BY <3>1 DEF LightOwning, LightWaiting, LightReleasing, Count, Among
    <3> QED BY <3>1, <3>2 DEF LightInv, L!TypeOK
  <2>2. CASE L!Next
    BY <2>2, LightStep DEF L!Next, LightThreads
  <2> QED BY <2>1, <2>2 DEF Next, Light, Recursive, Queue, Pool, Stopped
<1>3. Inv => MutualExclusion
  BY LightInvFacts DEF MutualExclusion
<1> QED BY <1>1, <1>2, <1>3, PTL DEF Spec

-----------------------------------------------------------------------------
(* RecursiveLightMutex.                                                    *)

\* A thread that holds locks has the mutex wherever it is.
Place == [t \in Threads |-> IF depth[t] > 0 THEN "held" ELSE pc[t]]

\* The threads that have the mutex, those about to release, and those whose lock or
\* unlock use_count_ counts and recursion_count_ does not.
Has == {"held", "gained", "owner", "again", "clear", "leaving"}
Inside == {"compare", "wait", "gained", "owner", "clear", "leaving"}
Owners == Count(Place, Threads, Has)
Releasers == Count(pc, Threads, {"release"})
Insiders == Count(pc, Threads, Inside)

\* What thread t, the recorded owner and recursion_count_ know of each other.
ThreadInv(t) ==
    /\ depth[t] > 0 \/ pc[t] \in {"owner", "again", "clear"} => owner_tid_ = t
    /\ owner_tid_ = t => depth[t] > 0 \/ pc[t] \in {"owner", "clear"}
    /\ depth[t] > 0 \/ pc[t] \in Has => depth[t] = recursion_count_
    /\ pc[t] \in {"wait", "try", "clear", "release"} => depth[t] = 0
    /\ pc[t] = "again" => depth[t] > 0
    /\ pc[t] \in {"clear", "leaving"} => new_recur[t] = depth[t]
    /\ pc[t] \in {"compare", "wait", "gained", "owner", "again", "try"} => depth[t] < MaxDepth

RecursiveInv ==
    /\ R!TypeOK /\ asserted /\ ~dropped
    /\ \A t \in Threads : ThreadInv(t)
    /\ Owners = 0 => recursion_count_ = 0
    /\ use_count_ = recursion_count_ + Insiders
    /\ Owners + Releasers + sem_ = IF use_count_ > 0 THEN 1 ELSE 0

\* The constants are what a mutex needs.
LEMMA ThreadsFacts ==
    IsFiniteSet(Threads) /\ NoThread \notin Threads /\ MaxDepth \in Nat \ {0}
BY ThreadsAssumption, SameCount DEF R!ConstantsAssumption

\* The counts are numbers, and count a thread that is in its place.
LEMMA RecursiveCounts ==
    /\ Owners \in Nat /\ Releasers \in Nat /\ Insiders \in Nat
    /\ \A t \in Threads :
          /\ Place[t] \in Has => Owners >= 1
          /\ pc[t] = "release" => Releasers >= 1
          /\ pc[t] \in Inside => Insiders >= 1
BY ThreadsFacts, CountFacts DEF Owners, Releasers, Insiders

\* What a step of thread t does to the counts.
LEMMA RecursiveMoves ==
    ASSUME NEW t \in Threads, Moves(pc, pc', t, Threads), Moves(depth, depth', t, Threads)
    PROVE  /\ Owners' = Owners + One(Place'[t], Has) - One(Place[t], Has)
           /\ Releasers' = Releasers + One(pc'[t], {"release"}) - One(pc[t], {"release"})
           /\ Insiders' = Insiders + One(pc'[t], Inside) - One(pc[t], Inside)
<1> DEFINE q == pc'
           place == Place'
<1>1. /\ Owners' = Count(place, Threads, Has)
      /\ Releasers' = Count(q, Threads, {"release"})
      /\ Insiders' = Count(q, Threads, Inside)
  BY DEF Owners, Releasers, Insiders, Count, Among
<1>2. Moves(pc, q, t, Threads) /\ Moves(Place, place, t, Threads) /\ IsFiniteSet(Threads)
  BY ThreadsFacts DEF Place, Moves
<1> HIDE DEF q, place
<1>3. ASSUME NEW V PROVE Count(q, Threads, V) = Count(pc, Threads, V) + One(q[t], V) - One(pc[t], V)
  BY <1>2, MoveFacts
<1>4. Count(place, Threads, Has) = Count(Place, Threads, Has) + One(place[t], Has) - One(Place[t], Has)
  BY <1>2, MoveFacts
<1> QED BY <1>1, <1>3, <1>4 DEF Owners, Releasers, Insiders, q, place

\* Nobody but t has the mutex if t has it.
LEMMA OtherOwner ==
    ASSUME RecursiveInv, NEW t \in Threads, Place[t] \in Has, NEW u \in Threads, u # t
    PROVE  depth[u] = 0 /\ pc[u] \notin Has
<1>1. sem_ \in {0, 1} /\ depth \in [Threads -> 0 .. MaxDepth] /\ MaxDepth \in Nat
  BY ThreadsFacts DEF RecursiveInv, R!TypeOK
<1>2. Owners <= 1
  BY <1>1, RecursiveCounts DEF RecursiveInv
<1>3. Place[u] \notin Has
  BY <1>2, ThreadsFacts, OneOnly DEF Owners
<1> QED BY <1>1, <1>3 DEF Place, Has

\* Every step of a thread keeps the invariant: the owner passes lock and try_lock
\* because it is recorded, which nobody else is, and the others need the right to go on.
LEMMA RecursiveStep ==
    ASSUME RecursiveInv, NEW t \in Threads, R!Lock(t) \/ R!TryLock(t) \/ R!Wake(t) \/ R!Step(t)
    PROVE  RecursiveInv'
<1> DEFINE Places == {"user", "compare", "wait", "gained", "owner", "again", "try",
                      "clear", "leaving", "release"}
           has == depth[t] > 0 \/ pc[t] \in Has
           n == Owners
           r == Releasers
           k == Insiders
<1>1. /\ use_count_ \in Nat /\ owner_tid_ \in Threads \cup {NoThread} /\ sem_ \in {0, 1}
      /\ recursion_count_ \in 0 .. MaxDepth /\ MaxDepth \in Nat \ {0}
      /\ pc \in [Threads -> Places] /\ NoThread \notin Threads
      /\ depth \in [Threads -> 0 .. MaxDepth] /\ new_recur \in [Threads -> 0 .. MaxDepth]
  BY ThreadsFacts DEF RecursiveInv, R!TypeOK
<1>2. asserted = TRUE /\ dropped = FALSE
  BY DEF RecursiveInv, R!TypeOK
<1>3. /\ pc[t] \in Places /\ depth[t] \in 0 .. MaxDepth /\ new_recur[t] \in 0 .. MaxDepth
      /\ ThreadInv(t)
  BY <1>1 DEF RecursiveInv
<1>4. /\ \E p \in Places : pc' = [pc EXCEPT ![t] = p]
      /\ \E d : depth' = [depth EXCEPT ![t] = d]
      /\ \E d : new_recur' = [new_recur EXCEPT ![t] = d]
  <2>1. \E p \in Places : pc' = [pc EXCEPT ![t] = p]
    BY DEF R!Lock, R!TryLock, R!Wake, R!Step, R!CompareOwner, R!SetOwner, R!CountUp, R!TryAgain,
           R!TryExchange, R!Unlock, R!ClearOwner, R!Leave, R!Release, R!Goto
  <2>2. \E d : depth' = [depth EXCEPT ![t] = d]
    <3>1. depth' = depth => depth' = [depth EXCEPT ![t] = depth[t]]
      BY <1>1
    <3> QED BY <3>1 DEF R!Lock, R!TryLock, R!Wake, R!Step, R!CompareOwner, R!SetOwner, R!CountUp,
           R!TryAgain, R!TryExchange, R!Unlock, R!ClearOwner, R!Leave, R!Release
  <2>3. \E d : new_recur' = [new_recur EXCEPT ![t] = d]
    <3>1. new_recur' = new_recur => new_recur' = [new_recur EXCEPT ![t] = new_recur[t]]
      BY <1>1
    <3> QED BY <3>1 DEF R!Lock, R!TryLock, R!Wake, R!Step, R!CompareOwner, R!SetOwner, R!CountUp,
           R!TryAgain, R!TryExchange, R!Unlock, R!ClearOwner, R!Leave, R!Release
  <2> QED BY <2>1, <2>2, <2>3
<1>5. /\ pc' \in [Threads -> Places] /\ DOMAIN depth' = Threads /\ DOMAIN new_recur' = Threads
      /\ \A u \in Threads : u # t => pc'[u] = pc[u] /\ depth'[u] = depth[u] /\ new_recur'[u] = new_recur[u]
  BY <1>1, <1>4
<1>6. ASSUME depth'[t] \in 0 .. MaxDepth, new_recur'[t] \in 0 .. MaxDepth
      PROVE  depth' \in [Threads -> 0 .. MaxDepth] /\ new_recur' \in [Threads -> 0 .. MaxDepth]
  BY <1>1, <1>4, <1>6
<1>7. ASSUME use_count_' \in Nat, owner_tid_' \in Threads \cup {NoThread}, sem_' \in {0, 1},
             recursion_count_' \in 0 .. MaxDepth,
             depth'[t] \in 0 .. MaxDepth, new_recur'[t] \in 0 .. MaxDepth,
             asserted' = TRUE, dropped' = FALSE,
             ThreadInv(t)', \A u \in Threads : u # t => ThreadInv(u)',
             Owners' = 0 => recursion_count_' = 0,
             use_count_' = recursion_count_' + Insiders',
             Owners' + Releasers' + sem_' = IF use_count_' > 0 THEN 1 ELSE 0
      PROVE  RecursiveInv'
  <2>1. R!TypeOK'
    BY <1>5, <1>6, <1>7 DEF R!TypeOK
  <2>2. \A u \in Threads : ThreadInv(u)'
    BY <1>7
  <2> QED BY <1>7, <2>1, <2>2 DEF RecursiveInv
<1>8. /\ n \in Nat /\ r \in Nat /\ k \in Nat
      /\ has => n >= 1
      /\ pc[t] = "release" => r >= 1
      /\ pc[t] \in Inside => k >= 1
      /\ n = 0 => recursion_count_ = 0
      /\ use_count_ = recursion_count_ + k
      /\ n + r + sem_ = IF use_count_ > 0 THEN 1 ELSE 0
  BY RecursiveCounts DEF RecursiveInv, Place, Has
<1>9. /\ Owners' = n + (IF has' THEN 1 ELSE 0) - (IF has THEN 1 ELSE 0)
      /\ Releasers' = r + One(pc'[t], {"release"}) - One(pc[t], {"release"})
      /\ Insiders' = k + One(pc'[t], Inside) - One(pc[t], Inside)
  <2>1. Moves(pc, pc', t, Threads) /\ Moves(depth, depth', t, Threads)
    BY <1>5 DEF Moves
  <2>2. One(Place[t], Has) = (IF has THEN 1 ELSE 0) /\ One(Place'[t], Has) = IF has' THEN 1 ELSE 0
    BY DEF One, Place, Has
  <2> QED BY <2>1, <2>2, RecursiveMoves
<1>10. ASSUME owner_tid_' = owner_tid_, recursion_count_' = recursion_count_
       PROVE  \A u \in Threads : u # t => ThreadInv(u)'
  BY <1>5, <1>10 DEF RecursiveInv, ThreadInv
<1>11. ASSUME has, owner_tid_' \in {t, NoThread}
       PROVE  \A u \in Threads : u # t => ThreadInv(u)'
  <2> SUFFICES ASSUME NEW u \in Threads, u # t PROVE ThreadInv(u)'
    OBVIOUS
  <2>1. depth[u] = 0 /\ pc[u] \notin Has
    BY <1>11, OtherOwner DEF Place, Has
  <2>2. depth'[u] = 0 /\ pc'[u] \notin Has
    BY <1>5, <2>1
  <2>3. owner_tid_' # u
    BY <1>1, <1>11
  <2> QED BY <1>1, <2>2, <2>3 DEF ThreadInv, Has
<1> HIDE DEF n, r, k, Places
<1>12. CASE R!Lock(t)
  <2>1. /\ pc[t] = "user" /\ depth[t] < MaxDepth /\ use_count_' = use_count_ + 1
        /\ pc'[t] = IF use_count_ > 0 THEN "compare" ELSE "gained"
        /\ owner_tid_' = owner_tid_ /\ recursion_count_' = recursion_count_ /\ sem_' = sem_
        /\ depth'[t] = depth[t] /\ new_recur'[t] = new_recur[t] /\ asserted' = TRUE /\ dropped' = FALSE
    BY <1>1, <1>2, <1>5, <1>12 DEF R!Lock, R!Goto
  <2>2. CASE use_count_ > 0
    <3>1. Owners' = n /\ Releasers' = r /\ Insiders' = k + 1
      BY <1>3, <1>8, <1>9, <2>1, <2>2 DEF One, Has, Inside, ThreadInv
    <3>2. ThreadInv(t)'
      BY <1>1, <1>3, <1>8, <2>1, <2>2 DEF ThreadInv, Has
    <3>3. \A u \in Threads : u # t => ThreadInv(u)'
      BY <1>10, <2>1, <2>2 DEF Has
    <3>4. /\ use_count_' \in Nat /\ sem_' \in {0, 1} /\ recursion_count_' \in 0 .. MaxDepth
          /\ depth'[t] \in 0 .. MaxDepth /\ new_recur'[t] \in 0 .. MaxDepth
          /\ Owners' = 0 => recursion_count_' = 0
          /\ use_count_' = recursion_count_' + Insiders'
          /\ Owners' + Releasers' + sem_' = IF use_count_' > 0 THEN 1 ELSE 0
      BY <1>1, <1>3, <1>8, <2>1, <2>2, <3>1 DEF Has, Inside, ThreadInv
    <3> QED BY <1>1, <1>3, <1>7, <2>1, <2>2, <3>2, <3>3, <3>4
  <2>3. CASE use_count_ = 0
    <3>1. Owners' = n + 1 /\ Releasers' = r /\ Insiders' = k + 1
      BY <1>3, <1>8, <1>9, <2>1, <2>3 DEF One, Has, Inside, ThreadInv
    <3>2. ThreadInv(t)'
      BY <1>1, <1>3, <1>8, <2>1, <2>3 DEF ThreadInv, Has
    <3>3. \A u \in Threads : u # t => ThreadInv(u)'
      BY <1>10, <2>1, <2>3 DEF Has
    <3>4. /\ use_count_' \in Nat /\ sem_' \in {0, 1} /\ recursion_count_' \in 0 .. MaxDepth
          /\ depth'[t] \in 0 .. MaxDepth /\ new_recur'[t] \in 0 .. MaxDepth
          /\ Owners' = 0 => recursion_count_' = 0
          /\ use_count_' = recursion_count_' + Insiders'
          /\ Owners' + Releasers' + sem_' = IF use_count_' > 0 THEN 1 ELSE 0
      BY <1>1, <1>3, <1>8, <2>1, <2>3, <3>1 DEF Has, Inside, ThreadInv
    <3> QED BY <1>1, <1>3, <1>7, <2>1, <2>3, <3>2, <3>3, <3>4
  <2> QED BY <1>1, <2>2, <2>3
<1>13. CASE R!TryLock(t)
  <2>1. /\ pc[t] = "user" /\ depth[t] < MaxDepth /\ use_count_' = use_count_
        /\ pc'[t] = IF owner_tid_ = t THEN "again" ELSE "try"
        /\ owner_tid_' = owner_tid_ /\ recursion_count_' = recursion_count_ /\ sem_' = sem_
        /\ depth'[t] = depth[t] /\ new_recur'[t] = new_recur[t] /\ asserted' = TRUE /\ dropped' = FALSE
    BY <1>1, <1>2, <1>5, <1>13 DEF R!TryLock, R!Goto
  <2>2. CASE owner_tid_ = t
    <3>1. Owners' = n /\ Releasers' = r /\ Insiders' = k
      BY <1>3, <1>8, <1>9, <2>1, <2>2 DEF One, Has, Inside, ThreadInv
    <3>2. ThreadInv(t)'
      BY <1>1, <1>3, <1>8, <2>1, <2>2 DEF ThreadInv, Has
    <3>3. \A u \in Threads : u # t => ThreadInv(u)'
      BY <1>10, <2>1, <2>2 DEF Has
    <3>4. /\ use_count_' \in Nat /\ sem_' \in {0, 1} /\ recursion_count_' \in 0 .. MaxDepth
          /\ depth'[t] \in 0 .. MaxDepth /\ new_recur'[t] \in 0 .. MaxDepth
          /\ Owners' = 0 => recursion_count_' = 0
          /\ use_count_' = recursion_count_' + Insiders'
          /\ Owners' + Releasers' + sem_' = IF use_count_' > 0 THEN 1 ELSE 0
      BY <1>1, <1>3, <1>8, <2>1, <2>2, <3>1 DEF Has, Inside, ThreadInv
    <3> QED BY <1>1, <1>3, <1>7, <2>1, <2>2, <3>2, <3>3, <3>4
  <2>3. CASE owner_tid_ # t
    <3>1. Owners' = n /\ Releasers' = r /\ Insiders' = k
      BY <1>3, <1>8, <1>9, <2>1, <2>3 DEF One, Has, Inside, ThreadInv
    <3>2. ThreadInv(t)'
      BY <1>1, <1>3, <1>8, <2>1, <2>3 DEF ThreadInv, Has
    <3>3. \A u \in Threads : u # t => ThreadInv(u)'
      BY <1>10, <2>1, <2>3 DEF Has
    <3>4. /\ use_count_' \in Nat /\ sem_' \in {0, 1} /\ recursion_count_' \in 0 .. MaxDepth
          /\ depth'[t] \in 0 .. MaxDepth /\ new_recur'[t] \in 0 .. MaxDepth
          /\ Owners' = 0 => recursion_count_' = 0
          /\ use_count_' = recursion_count_' + Insiders'
          /\ Owners' + Releasers' + sem_' = IF use_count_' > 0 THEN 1 ELSE 0
      BY <1>1, <1>3, <1>8, <2>1, <2>3, <3>1 DEF Has, Inside, ThreadInv
    <3> QED BY <1>1, <1>3, <1>7, <2>1, <2>3, <3>2, <3>3, <3>4
  <2> QED BY <1>1, <2>2, <2>3
<1>14. CASE R!Wake(t)
  <2>1. /\ pc[t] = "wait" /\ pc'[t] = "gained" /\ sem_ > 0 /\ sem_' = sem_ - 1
        /\ use_count_' = use_count_
        /\ owner_tid_' = owner_tid_ /\ recursion_count_' = recursion_count_
        /\ depth'[t] = depth[t] /\ new_recur'[t] = new_recur[t] /\ asserted' = TRUE /\ dropped' = FALSE
    BY <1>1, <1>2, <1>5, <1>14 DEF R!Wake, R!Goto
  <2>2. Owners' = n + 1 /\ Releasers' = r /\ Insiders' = k
    BY <1>3, <1>8, <1>9, <2>1 DEF One, Has, Inside, ThreadInv
  <2>3. ThreadInv(t)'
    BY <1>1, <1>3, <1>8, <2>1 DEF ThreadInv, Has
  <2>4. \A u \in Threads : u # t => ThreadInv(u)'
    BY <1>10, <2>1 DEF Has
  <2>5. /\ use_count_' \in Nat /\ sem_' \in {0, 1} /\ recursion_count_' \in 0 .. MaxDepth
        /\ depth'[t] \in 0 .. MaxDepth /\ new_recur'[t] \in 0 .. MaxDepth
        /\ Owners' = 0 => recursion_count_' = 0
        /\ use_count_' = recursion_count_' + Insiders'
        /\ Owners' + Releasers' + sem_' = IF use_count_' > 0 THEN 1 ELSE 0
    BY <1>1, <1>3, <1>8, <2>1, <2>2 DEF Has, Inside, ThreadInv
  <2> QED BY <1>1, <1>3, <1>7, <2>1, <2>3, <2>4, <2>5
<1>15. CASE R!CompareOwner(t)
  <2>1. /\ pc[t] = "compare" /\ pc'[t] = IF owner_tid_ = t THEN "gained" ELSE "wait"
        /\ use_count_' = use_count_ /\ sem_' = sem_
        /\ owner_tid_' = owner_tid_ /\ recursion_count_' = recursion_count_
        /\ depth'[t] = depth[t] /\ new_recur'[t] = new_recur[t] /\ asserted' = TRUE /\ dropped' = FALSE
    BY <1>1, <1>2, <1>5, <1>15 DEF R!CompareOwner, R!Goto
  <2>2. CASE owner_tid_ = t
    <3>1. Owners' = n /\ Releasers' = r /\ Insiders' = k
      BY <1>3, <1>8, <1>9, <2>1, <2>2 DEF One, Has, Inside, ThreadInv
    <3>2. ThreadInv(t)'
      BY <1>1, <1>3, <1>8, <2>1, <2>2 DEF ThreadInv, Has
    <3>3. \A u \in Threads : u # t => ThreadInv(u)'
      BY <1>10, <2>1, <2>2 DEF Has
    <3>4. /\ use_count_' \in Nat /\ sem_' \in {0, 1} /\ recursion_count_' \in 0 .. MaxDepth
          /\ depth'[t] \in 0 .. MaxDepth /\ new_recur'[t] \in 0 .. MaxDepth
          /\ Owners' = 0 => recursion_count_' = 0
          /\ use_count_' = recursion_count_' + Insiders'
          /\ Owners' + Releasers' + sem_' = IF use_count_' > 0 THEN 1 ELSE 0
      BY <1>1, <1>3, <1>8, <2>1, <2>2, <3>1 DEF Has, Inside, ThreadInv
    <3> QED BY <1>1, <1>3, <1>7, <2>1, <2>2, <3>2, <3>3, <3>4
  <2>3. CASE owner_tid_ # t
    <3>1. Owners' = n /\ Releasers' = r /\ Insiders' = k
      BY <1>3, <1>8, <1>9, <2>1, <2>3 DEF One, Has, Inside, ThreadInv
    <3>2. ThreadInv(t)'
      BY <1>1, <1>3, <1>8, <2>1, <2>3 DEF ThreadInv, Has
    <3>3. \A u \in Threads : u # t => ThreadInv(u)'
      BY <1>10, <2>1, <2>3 DEF Has
    <3>4. /\ use_count_' \in Nat /\ sem_' \in {0, 1} /\ recursion_count_' \in 0 .. MaxDepth
          /\ depth'[t] \in 0 .. MaxDepth /\ new_recur'[t] \in 0 .. MaxDepth
          /\ Owners' = 0 => recursion_count_' = 0
          /\ use_count_' = recursion_count_' + Insiders'
          /\ Owners' + Releasers' + sem_' = IF use_count_' > 0 THEN 1 ELSE 0
      BY <1>1, <1>3, <1>8, <2>1, <2>3, <3>1 DEF Has, Inside, ThreadInv
    <3> QED BY <1>1, <1>3, <1>7, <2>1, <2>3, <3>2, <3>3, <3>4
  <2> QED BY <1>1, <2>2, <2>3
<1>16. CASE R!SetOwner(t)
  <2>1. /\ pc[t] = "gained" /\ pc'[t] = "owner" /\ owner_tid_' = t
        /\ use_count_' = use_count_ /\ sem_' = sem_ /\ recursion_count_' = recursion_count_
        /\ depth'[t] = depth[t] /\ new_recur'[t] = new_recur[t] /\ asserted' = TRUE /\ dropped' = FALSE
    BY <1>1, <1>2, <1>5, <1>16 DEF R!SetOwner, R!Goto
  <2>2. Owners' = n /\ Releasers' = r /\ Insiders' = k
    BY <1>3, <1>8, <1>9, <2>1 DEF One, Has, Inside, ThreadInv
  <2>3. ThreadInv(t)'
    BY <1>1, <1>3, <1>8, <2>1 DEF ThreadInv, Has
  <2>4. \A u \in Threads : u # t => ThreadInv(u)'
    BY <1>11, <2>1 DEF Has
  <2>5. /\ use_count_' \in Nat /\ sem_' \in {0, 1} /\ recursion_count_' \in 0 .. MaxDepth
        /\ depth'[t] \in 0 .. MaxDepth /\ new_recur'[t] \in 0 .. MaxDepth
        /\ Owners' = 0 => recursion_count_' = 0
        /\ use_count_' = recursion_count_' + Insiders'
        /\ Owners' + Releasers' + sem_' = IF use_count_' > 0 THEN 1 ELSE 0
    BY <1>1, <1>3, <1>8, <2>1, <2>2 DEF Has, Inside, ThreadInv
  <2> QED BY <1>1, <1>3, <1>7, <2>1, <2>3, <2>4, <2>5
<1>17. CASE R!CountUp(t)
  <2>1. /\ pc[t] = "owner" /\ pc'[t] = "user" /\ recursion_count_' = recursion_count_ + 1
        /\ depth'[t] = depth[t] + 1 /\ new_recur'[t] = new_recur[t] /\ owner_tid_' = owner_tid_
        /\ use_count_' = use_count_ /\ sem_' = sem_ /\ asserted' = TRUE /\ dropped' = FALSE
    BY <1>1, <1>2, <1>5, <1>17 DEF R!CountUp, R!Goto
  <2>2. owner_tid_ = t
    BY <1>3, <2>1 DEF ThreadInv
  <2>3. Owners' = n /\ Releasers' = r /\ Insiders' = k - 1
    BY <1>3, <1>8, <1>9, <2>1, <2>2 DEF One, Has, Inside, ThreadInv
  <2>4. ThreadInv(t)'
    BY <1>1, <1>3, <1>8, <2>1, <2>2 DEF ThreadInv, Has
  <2>5. \A u \in Threads : u # t => ThreadInv(u)'
    BY <1>3, <1>11, <2>1, <2>2 DEF Has
  <2>6. /\ use_count_' \in Nat /\ sem_' \in {0, 1} /\ recursion_count_' \in 0 .. MaxDepth
        /\ depth'[t] \in 0 .. MaxDepth /\ new_recur'[t] \in 0 .. MaxDepth
        /\ Owners' = 0 => recursion_count_' = 0
        /\ use_count_' = recursion_count_' + Insiders'
        /\ Owners' + Releasers' + sem_' = IF use_count_' > 0 THEN 1 ELSE 0
    BY <1>1, <1>3, <1>8, <2>1, <2>2, <2>3 DEF Has, Inside, ThreadInv
  <2> QED BY <1>1, <1>3, <1>7, <2>1, <2>2, <2>4, <2>5, <2>6
<1>18. CASE R!TryAgain(t)
  <2>1. /\ pc[t] = "again" /\ pc'[t] = "owner" /\ use_count_' = use_count_ + 1 /\ sem_' = sem_
        /\ owner_tid_' = owner_tid_ /\ recursion_count_' = recursion_count_
        /\ depth'[t] = depth[t] /\ new_recur'[t] = new_recur[t] /\ asserted' = TRUE /\ dropped' = FALSE
    BY <1>1, <1>2, <1>5, <1>18 DEF R!TryAgain, R!Goto
  <2>2. Owners' = n /\ Releasers' = r /\ Insiders' = k + 1
    BY <1>3, <1>8, <1>9, <2>1 DEF One, Has, Inside, ThreadInv
  <2>3. ThreadInv(t)'
    BY <1>1, <1>3, <1>8, <2>1 DEF ThreadInv, Has
  <2>4. \A u \in Threads : u # t => ThreadInv(u)'
    BY <1>10, <2>1 DEF Has
  <2>5. /\ use_count_' \in Nat /\ sem_' \in {0, 1} /\ recursion_count_' \in 0 .. MaxDepth
        /\ depth'[t] \in 0 .. MaxDepth /\ new_recur'[t] \in 0 .. MaxDepth
        /\ Owners' = 0 => recursion_count_' = 0
        /\ use_count_' = recursion_count_' + Insiders'
        /\ Owners' + Releasers' + sem_' = IF use_count_' > 0 THEN 1 ELSE 0
    BY <1>1, <1>3, <1>8, <2>1, <2>2 DEF Has, Inside, ThreadInv
  <2> QED BY <1>1, <1>3, <1>7, <2>1, <2>3, <2>4, <2>5
<1>19. CASE R!TryExchange(t)
  <2>1. /\ pc[t] = "try" /\ pc'[t] = IF use_count_ = 0 THEN "gained" ELSE "user"
        /\ use_count_' = (IF use_count_ = 0 THEN 1 ELSE use_count_) /\ sem_' = sem_
        /\ owner_tid_' = owner_tid_ /\ recursion_count_' = recursion_count_
        /\ depth'[t] = depth[t] /\ new_recur'[t] = new_recur[t] /\ asserted' = TRUE /\ dropped' = FALSE
    BY <1>1, <1>2, <1>5, <1>19 DEF R!TryExchange, R!Goto
  <2>2. CASE use_count_ = 0
    <3>1. Owners' = n + 1 /\ Releasers' = r /\ Insiders' = k + 1
      BY <1>3, <1>8, <1>9, <2>1, <2>2 DEF One, Has, Inside, ThreadInv
    <3>2. ThreadInv(t)'
      BY <1>1, <1>3, <1>8, <2>1, <2>2 DEF ThreadInv, Has
    <3>3. \A u \in Threads : u # t => ThreadInv(u)'
      BY <1>10, <2>1, <2>2 DEF Has
    <3>4. /\ use_count_' \in Nat /\ sem_' \in {0, 1} /\ recursion_count_' \in 0 .. MaxDepth
          /\ depth'[t] \in 0 .. MaxDepth /\ new_recur'[t] \in 0 .. MaxDepth
          /\ Owners' = 0 => recursion_count_' = 0
          /\ use_count_' = recursion_count_' + Insiders'
          /\ Owners' + Releasers' + sem_' = IF use_count_' > 0 THEN 1 ELSE 0
      BY <1>1, <1>3, <1>8, <2>1, <2>2, <3>1 DEF Has, Inside, ThreadInv
    <3> QED BY <1>1, <1>3, <1>7, <2>1, <2>2, <3>2, <3>3, <3>4
  <2>3. CASE use_count_ # 0
    <3>1. Owners' = n /\ Releasers' = r /\ Insiders' = k
      BY <1>3, <1>8, <1>9, <2>1, <2>3 DEF One, Has, Inside, ThreadInv
    <3>2. ThreadInv(t)'
      BY <1>1, <1>3, <1>8, <2>1, <2>3 DEF ThreadInv, Has
    <3>3. \A u \in Threads : u # t => ThreadInv(u)'
      BY <1>10, <2>1, <2>3 DEF Has
    <3>4. /\ use_count_' \in Nat /\ sem_' \in {0, 1} /\ recursion_count_' \in 0 .. MaxDepth
          /\ depth'[t] \in 0 .. MaxDepth /\ new_recur'[t] \in 0 .. MaxDepth
          /\ Owners' = 0 => recursion_count_' = 0
          /\ use_count_' = recursion_count_' + Insiders'
          /\ Owners' + Releasers' + sem_' = IF use_count_' > 0 THEN 1 ELSE 0
      BY <1>1, <1>3, <1>8, <2>1, <2>3, <3>1 DEF Has, Inside, ThreadInv
    <3> QED BY <1>1, <1>3, <1>7, <2>1, <2>3, <3>2, <3>3, <3>4
  <2> QED BY <1>1, <2>2, <2>3
<1>20. CASE R!Unlock(t)
  <2>1. /\ pc[t] = "user" /\ pc'[t] = (IF recursion_count_ = 1 THEN "clear" ELSE "leaving") /\ depth[t] > 0
        /\ recursion_count_' = recursion_count_ - 1 /\ depth'[t] = depth[t] - 1 /\ owner_tid_' = owner_tid_
        /\ new_recur'[t] = recursion_count_ - 1 /\ (owner_tid_ = t => asserted' = TRUE)
        /\ use_count_' = use_count_ /\ sem_' = sem_ /\ dropped' = FALSE
    BY <1>1, <1>2, <1>5, <1>20 DEF R!Unlock, R!Goto
  <2>2. owner_tid_ = t /\ asserted' = TRUE
    BY <1>3, <2>1 DEF ThreadInv
  <2>3. CASE recursion_count_ = 1
    <3>1. Owners' = n /\ Releasers' = r /\ Insiders' = k + 1
      BY <1>3, <1>8, <1>9, <2>1, <2>2, <2>3 DEF One, Has, Inside, ThreadInv
    <3>2. ThreadInv(t)'
      BY <1>1, <1>3, <1>8, <2>1, <2>2, <2>3 DEF ThreadInv, Has
    <3>3. \A u \in Threads : u # t => ThreadInv(u)'
      BY <1>3, <1>11, <2>1, <2>2, <2>3 DEF Has
    <3>4. /\ use_count_' \in Nat /\ sem_' \in {0, 1} /\ recursion_count_' \in 0 .. MaxDepth
          /\ depth'[t] \in 0 .. MaxDepth /\ new_recur'[t] \in 0 .. MaxDepth
          /\ Owners' = 0 => recursion_count_' = 0
          /\ use_count_' = recursion_count_' + Insiders'
          /\ Owners' + Releasers' + sem_' = IF use_count_' > 0 THEN 1 ELSE 0
      BY <1>1, <1>3, <1>8, <2>1, <2>2, <2>3, <3>1 DEF Has, Inside, ThreadInv
    <3> QED BY <1>1, <1>3, <1>7, <2>1, <2>2, <2>3, <3>2, <3>3, <3>4
  <2>4. CASE recursion_count_ # 1
    <3>1. Owners' = n /\ Releasers' = r /\ Insiders' = k + 1
      BY <1>3, <1>8, <1>9, <2>1, <2>2, <2>4 DEF One, Has, Inside, ThreadInv
    <3>2. ThreadInv(t)'
      BY <1>1, <1>3, <1>8, <2>1, <2>2, <2>4 DEF ThreadInv, Has
    <3>3. \A u \in Threads : u # t => ThreadInv(u)'
      BY <1>3, <1>11, <2>1, <2>2, <2>4 DEF Has
    <3>4. /\ use_count_' \in Nat /\ sem_' \in {0, 1} /\ recursion_count_' \in 0 .. MaxDepth
          /\ depth'[t] \in 0 .. MaxDepth /\ new_recur'[t] \in 0 .. MaxDepth
          /\ Owners' = 0 => recursion_count_' = 0
          /\ use_count_' = recursion_count_' + Insiders'
          /\ Owners' + Releasers' + sem_' = IF use_count_' > 0 THEN 1 ELSE 0
      BY <1>1, <1>3, <1>8, <2>1, <2>2, <2>4, <3>1 DEF Has, Inside, ThreadInv
    <3> QED BY <1>1, <1>3, <1>7, <2>1, <2>2, <2>4, <3>2, <3>3, <3>4
  <2> QED BY <1>1, <2>3, <2>4
<1>21. CASE R!ClearOwner(t)
  <2>1. /\ pc[t] = "clear" /\ pc'[t] = "leaving" /\ owner_tid_' = NoThread
        /\ use_count_' = use_count_ /\ sem_' = sem_ /\ recursion_count_' = recursion_count_
        /\ depth'[t] = depth[t] /\ new_recur'[t] = new_recur[t] /\ asserted' = TRUE /\ dropped' = FALSE
    BY <1>1, <1>2, <1>5, <1>21 DEF R!ClearOwner, R!Goto
  <2>2. Owners' = n /\ Releasers' = r /\ Insiders' = k
    BY <1>3, <1>8, <1>9, <2>1 DEF One, Has, Inside, ThreadInv
  <2>3. ThreadInv(t)'
    BY <1>1, <1>3, <1>8, <2>1 DEF ThreadInv, Has
  <2>4. \A u \in Threads : u # t => ThreadInv(u)'
    BY <1>11, <2>1 DEF Has
  <2>5. /\ use_count_' \in Nat /\ sem_' \in {0, 1} /\ recursion_count_' \in 0 .. MaxDepth
        /\ depth'[t] \in 0 .. MaxDepth /\ new_recur'[t] \in 0 .. MaxDepth
        /\ Owners' = 0 => recursion_count_' = 0
        /\ use_count_' = recursion_count_' + Insiders'
        /\ Owners' + Releasers' + sem_' = IF use_count_' > 0 THEN 1 ELSE 0
    BY <1>1, <1>3, <1>8, <2>1, <2>2 DEF Has, Inside, ThreadInv
  <2> QED BY <1>1, <1>3, <1>7, <2>1, <2>3, <2>4, <2>5
<1>22. CASE R!Leave(t)
  <2>1. /\ pc[t] = "leaving" /\ pc'[t] = IF use_count_ > 1 /\ new_recur[t] = 0 THEN "release" ELSE "user"
        /\ use_count_' = use_count_ - 1 /\ sem_' = sem_
        /\ owner_tid_' = owner_tid_ /\ recursion_count_' = recursion_count_
        /\ depth'[t] = depth[t] /\ new_recur'[t] = 0 /\ asserted' = TRUE /\ dropped' = FALSE
    BY <1>1, <1>2, <1>5, <1>22 DEF R!Leave, R!Goto
  <2>2. CASE use_count_ > 1 /\ new_recur[t] = 0
    <3>1. Owners' = n - 1 /\ Releasers' = r + 1 /\ Insiders' = k - 1
      BY <1>3, <1>8, <1>9, <2>1, <2>2 DEF One, Has, Inside, ThreadInv
    <3>2. ThreadInv(t)'
      BY <1>1, <1>3, <1>8, <2>1, <2>2 DEF ThreadInv, Has
    <3>3. \A u \in Threads : u # t => ThreadInv(u)'
      BY <1>10, <2>1, <2>2 DEF Has
    <3>4. /\ use_count_' \in Nat /\ sem_' \in {0, 1} /\ recursion_count_' \in 0 .. MaxDepth
          /\ depth'[t] \in 0 .. MaxDepth /\ new_recur'[t] \in 0 .. MaxDepth
          /\ Owners' = 0 => recursion_count_' = 0
          /\ use_count_' = recursion_count_' + Insiders'
          /\ Owners' + Releasers' + sem_' = IF use_count_' > 0 THEN 1 ELSE 0
      BY <1>1, <1>3, <1>8, <2>1, <2>2, <3>1 DEF Has, Inside, ThreadInv
    <3> QED BY <1>1, <1>3, <1>7, <2>1, <2>2, <3>2, <3>3, <3>4
  <2>3. CASE new_recur[t] # 0
    <3>1. Owners' = n /\ Releasers' = r /\ Insiders' = k - 1
      BY <1>3, <1>8, <1>9, <2>1, <2>3 DEF One, Has, Inside, ThreadInv
    <3>2. ThreadInv(t)'
      BY <1>1, <1>3, <1>8, <2>1, <2>3 DEF ThreadInv, Has
    <3>3. \A u \in Threads : u # t => ThreadInv(u)'
      BY <1>10, <2>1, <2>3 DEF Has
    <3>4. /\ use_count_' \in Nat /\ sem_' \in {0, 1} /\ recursion_count_' \in 0 .. MaxDepth
          /\ depth'[t] \in 0 .. MaxDepth /\ new_recur'[t] \in 0 .. MaxDepth
          /\ Owners' = 0 => recursion_count_' = 0
          /\ use_count_' = recursion_count_' + Insiders'
          /\ Owners' + Releasers' + sem_' = IF use_count_' > 0 THEN 1 ELSE 0
      BY <1>1, <1>3, <1>8, <2>1, <2>3, <3>1 DEF Has, Inside, ThreadInv
    <3> QED BY <1>1, <1>3, <1>7, <2>1, <2>3, <3>2, <3>3, <3>4
  <2>4. CASE new_recur[t] = 0 /\ ~(use_count_ > 1)
    <3>1. Owners' = n - 1 /\ Releasers' = r /\ Insiders' = k - 1
      BY <1>3, <1>8, <1>9, <2>1, <2>4 DEF One, Has, Inside, ThreadInv
    <3>2. ThreadInv(t)'
      BY <1>1, <1>3, <1>8, <2>1, <2>4 DEF ThreadInv, Has
    <3>3. \A u \in Threads : u # t => ThreadInv(u)'
      BY <1>10, <2>1, <2>4 DEF Has
    <3>4. /\ use_count_' \in Nat /\ sem_' \in {0, 1} /\ recursion_count_' \in 0 .. MaxDepth
          /\ depth'[t] \in 0 .. MaxDepth /\ new_recur'[t] \in 0 .. MaxDepth
          /\ Owners' = 0 => recursion_count_' = 0
          /\ use_count_' = recursion_count_' + Insiders'
          /\ Owners' + Releasers' + sem_' = IF use_count_' > 0 THEN 1 ELSE 0
      BY <1>1, <1>3, <1>8, <2>1, <2>4, <3>1 DEF Has, Inside, ThreadInv
    <3> QED BY <1>1, <1>3, <1>7, <2>1, <2>4, <3>2, <3>3, <3>4
  <2> QED BY <1>1, <2>2, <2>3, <2>4
<1>23. CASE R!Release(t)
  <2>1. /\ pc[t] = "release" /\ pc'[t] = "user" /\ (sem_ = 0 => sem_' = 1 /\ dropped' = FALSE)
        /\ use_count_' = use_count_
        /\ owner_tid_' = owner_tid_ /\ recursion_count_' = recursion_count_
        /\ depth'[t] = depth[t] /\ new_recur'[t] = new_recur[t] /\ asserted' = TRUE
    BY <1>1, <1>2, <1>5, <1>23 DEF R!Release, R!Goto
  <2>2. sem_ = 0 /\ dropped' = FALSE
    BY <1>1, <1>8, <2>1
  <2>3. Owners' = n /\ Releasers' = r - 1 /\ Insiders' = k
    BY <1>3, <1>8, <1>9, <2>1, <2>2 DEF One, Has, Inside, ThreadInv
  <2>4. ThreadInv(t)'
    BY <1>1, <1>3, <1>8, <2>1, <2>2 DEF ThreadInv, Has
  <2>5. \A u \in Threads : u # t => ThreadInv(u)'
    BY <1>10, <2>1, <2>2 DEF Has
  <2>6. /\ use_count_' \in Nat /\ sem_' \in {0, 1} /\ recursion_count_' \in 0 .. MaxDepth
        /\ depth'[t] \in 0 .. MaxDepth /\ new_recur'[t] \in 0 .. MaxDepth
        /\ Owners' = 0 => recursion_count_' = 0
        /\ use_count_' = recursion_count_' + Insiders'
        /\ Owners' + Releasers' + sem_' = IF use_count_' > 0 THEN 1 ELSE 0
    BY <1>1, <1>3, <1>8, <2>1, <2>2, <2>3 DEF Has, Inside, ThreadInv
  <2> QED BY <1>1, <1>3, <1>7, <2>1, <2>2, <2>4, <2>5, <2>6
<1> QED BY <1>12, <1>13, <1>14, <1>15, <1>16, <1>17, <1>18, <1>19, <1>20, <1>21, <1>22, <1>23 DEF R!Step

\* Nobody uses the mutex at first.
LEMMA RecursiveInit == R!Init => RecursiveInv
<1> SUFFICES ASSUME R!Init PROVE RecursiveInv
  OBVIOUS
<1>1. /\ use_count_ = 0 /\ sem_ = 0 /\ recursion_count_ = 0 /\ owner_tid_ = NoThread
      /\ \A t \in Threads : pc[t] = "user" /\ depth[t] = 0 /\ t # NoThread
  BY ThreadsFacts DEF R!Init
<1>2. asserted \in BOOLEAN /\ asserted /\ dropped \in BOOLEAN /\ ~dropped
  BY Zenon DEF R!Init
<1>3. R!TypeOK
  BY <1>2, ThreadsFacts DEF R!Init, R!TypeOK
<1>4. ASSUME NEW t \in Threads PROVE ThreadInv(t) /\ Place[t] \notin Has
  <2>1. pc[t] = "user" /\ owner_tid_ # t
    BY <1>1
  <2>2. depth[t] = 0 /\ ~(depth[t] > 0)
    BY <1>1
  <2>3. Place[t] = "user"
    BY <2>1, <2>2 DEF Place
  <2> QED BY <2>1, <2>2, <2>3 DEF ThreadInv, Has
<1>5. Owners = 0 /\ Releasers = 0 /\ Insiders = 0
  BY <1>1, <1>4, ThreadsFacts, CountFacts DEF Owners, Releasers, Insiders, Inside
<1> QED BY <1>1, <1>2, <1>3, <1>4, <1>5 DEF RecursiveInv

\* The invariant in the words of the component.
LEMMA RecursiveInvFacts == RecursiveInv => R!OneOwner /\ R!CountsAgree /\ R!OneToken
<1> SUFFICES ASSUME RecursiveInv PROVE R!OneOwner /\ R!CountsAgree /\ R!OneToken
  OBVIOUS
<1>1. /\ R!Owning = Among(Place, Threads, Has)
      /\ R!Releasing = Among(pc, Threads, {"release"})
      /\ {t \in Threads : pc[t] \in {"compare", "wait", "gained", "owner", "clear", "leaving"}}
            = Among(pc, Threads, Inside)
  <2>1. ASSUME NEW t \in Threads
        PROVE  Place[t] \in Has <=> depth[t] > 0 \/ pc[t] \in {"gained", "owner", "again", "clear",
                                                              "leaving"}
    <3>1. CASE depth[t] > 0
      <4>1. Place[t] = "held"
        BY <3>1 DEF Place
      <4> QED BY <3>1, <4>1 DEF Has
    <3>2. CASE ~(depth[t] > 0)
      <4>1. Place[t] = pc[t]
        BY <3>2 DEF Place
      <4>2. pc[t] # "held"
        BY DEF RecursiveInv, R!TypeOK
      <4> QED BY <3>2, <4>1, <4>2 DEF Has
    <3> QED BY <3>1, <3>2
  <2> QED BY <2>1 DEF R!Owning, R!Releasing, Among, Inside
<1>2. /\ Cardinality(R!Owning) = Owners /\ Cardinality(R!Releasing) = Releasers
      /\ Cardinality({t \in Threads : pc[t] \in {"compare", "wait", "gained", "owner", "clear",
                                                  "leaving"}}) = Insiders
  BY <1>1 DEF Owners, Releasers, Insiders, Count
<1>3. R!OneOwner
  <2>1. \A t, u \in R!Owning : t = u
    <3>1. ASSUME NEW t \in Threads, NEW u \in Threads, Place[t] \in Has, Place[u] \in Has PROVE t = u
      <4>1. Owners <= 1
        BY RecursiveCounts DEF RecursiveInv, R!TypeOK
      <4> QED BY <3>1, <4>1, ThreadsFacts, OneOnly DEF Owners
    <3> QED BY <1>1, <3>1 DEF Among
  <2> QED BY <2>1 DEF R!OneOwner, RecursiveInv
<1>4. R!OneToken
  BY <1>2, SameCount DEF RecursiveInv, R!OneToken
<1>5. R!CountsAgree
  <2>1. \A t \in R!Owning : depth[t] = recursion_count_
    BY DEF R!Owning, RecursiveInv, ThreadInv, Has
  <2>2. R!Owning = {} => recursion_count_ = 0
    BY <1>2, FS_EmptySet DEF RecursiveInv
  <2> QED BY <1>2, <2>1, <2>2, SameCount DEF RecursiveInv, R!CountsAgree
<1> QED BY <1>3, <1>4, <1>5

\* One thread has a RecursiveLightMutex and is its recorded owner, unlock's assert holds,
\* the two counters agree with the locks that are held, and only the outermost unlock lets
\* somebody in.
THEOREM RecursiveMutexTheorem == Spec => []OneOwner
<1> DEFINE Inv == at = "recursive" => RecursiveInv
<1>1. Init => Inv
  BY RecursiveInit DEF Init
<1>2. Inv /\ [Next]_vars => Inv'
  <2> SUFFICES ASSUME RecursiveInv, [Next]_vars, at = "recursive", at' = "recursive"
               PROVE  RecursiveInv'
    BY DEF Next, Light, Recursive, Queue, Pool, Stopped, vars
  <2>1. CASE UNCHANGED vars
    <3>1. UNCHANGED <<pc, use_count_, owner_tid_, sem_, dropped, recursion_count_, depth, new_recur,
                      asserted>>
      BY <2>1 DEF vars, mutexVars, recursiveVars
    <3>2. Owners' = Owners /\ Releasers' = Releasers /\ Insiders' = Insiders
      BY <3>1 DEF Owners, Releasers, Insiders, Count, Among, Place
    <3> QED BY <3>1, <3>2 DEF RecursiveInv, R!TypeOK, ThreadInv
  <2>2. CASE R!Next
    BY <2>2, RecursiveStep DEF R!Next
  <2> QED BY <2>1, <2>2 DEF Next, Light, Recursive, Queue, Pool, Stopped
<1>3. Inv => OneOwner
  BY RecursiveInvFacts DEF OneOwner
<1> QED BY <1>1, <1>2, <1>3, PTL DEF Spec

-----------------------------------------------------------------------------
(* TinyThreadPool.                                                         *)

\* A set of natural numbers that is not empty has a least element.
LEMMA LeastOf ==
    ASSUME NEW S \in SUBSET Nat, S # {}
    PROVE  \E m \in S : \A n \in S : m <= n
<1> DEFINE Less == OpToRel(<, Nat)
<1>1. IsWellFoundedOn(Less, Nat)
  BY NatLessThanWellFounded
<1>2. Less = {ss \in Nat \X Nat : ss[1] < ss[2]}
  BY DEF OpToRel
<1> HIDE DEF Less
<1>3. PICK m \in S : \A n \in S : <<n, m>> \notin Less
  BY <1>1, WFMin
<1>4. \A n \in S : ~(n < m)
  BY <1>2, <1>3
<1>5. \A n \in S : m <= n
  BY <1>4
<1> QED BY <1>5

\* A task that blocks the shutdown of the pool.
Blocks(task) == task.behavior = "BlockShutdown"

\* The tasks of a queue.
TasksOf(q) == {q[i] : i \in DOMAIN q}

\* What RetrieveTask skips does not block the shutdown, and it skips nothing while the
\* pool is running.
LEMMA KeptFacts ==
    ASSUME task_queue_ \in Seq(P!Task)
    PROVE  /\ P!Kept \in Seq(P!Task)
           /\ TasksOf(P!Kept) \subseteq TasksOf(task_queue_)
           /\ \A task \in TasksOf(task_queue_) : Blocks(task) => task \in TasksOf(P!Kept)
           /\ task_queue_ = <<>> => P!Kept = <<>>
           /\ running_ => P!Kept = task_queue_
<1> DEFINE q == task_queue_
           I == {i \in 1 .. Len(q) : q[i].behavior = "BlockShutdown"}
           first == IF I # {} THEN P!Min(I) ELSE 0
<1>1. P!Kept = IF running_ THEN q ELSE IF first = 0 THEN <<>> ELSE SubSeq(q, first, Len(q))
  BY DEF P!Kept, P!SelectInSeq
<1>2. I \in SUBSET Nat
  OBVIOUS
<1>3. I # {} => first \in I /\ \A i \in I : first <= i
  <2> SUFFICES ASSUME I # {} PROVE first \in I /\ \A i \in I : first <= i
    OBVIOUS
  <2> DEFINE Least(m) == \A i \in I : m <= i
  <2>1. \E m \in I : Least(m)
    BY <1>2, LeastOf
  <2>2. first = CHOOSE m \in I : Least(m)
    BY DEF P!Min
  <2> HIDE DEF I, Least, first
  <2>3. first \in I /\ Least(first)
    BY <2>1, <2>2
  <2> QED BY <2>3 DEF Least
<1>4. first # 0 => first \in 1 .. Len(q) /\ \A i \in 1 .. Len(q) : i < first => q[i].behavior # "BlockShutdown"
  <2> SUFFICES ASSUME first # 0
               PROVE  /\ first \in 1 .. Len(q)
                      /\ \A i \in 1 .. Len(q) : i < first => q[i].behavior # "BlockShutdown"
    OBVIOUS
  <2>1. I # {}
    OBVIOUS
  <2>2. first \in I /\ \A i \in I : first <= i
    BY <1>3, <2>1
  <2> HIDE DEF first
  <2>3. first \in 1 .. Len(q) /\ first \in Nat
    BY <2>2
  <2>4. ASSUME NEW i \in 1 .. Len(q), i < first PROVE q[i].behavior # "BlockShutdown"
    <3>1. i \notin I
      BY <2>2, <2>3, <2>4
    <3> QED BY <3>1
  <2> QED BY <2>3, <2>4
<1>5. first = 0 => \A i \in 1 .. Len(q) : q[i].behavior # "BlockShutdown"
  BY <1>3
<1> HIDE DEF first, I
<1>6. CASE running_
  BY <1>1, <1>6
<1>7. CASE ~running_ /\ first = 0
  <2>1. P!Kept = <<>>
    BY <1>1, <1>7
  <2> QED BY <1>5, <1>7, <2>1 DEF TasksOf, Blocks
<1>8. CASE ~running_ /\ first # 0
  <2> DEFINE s == SubSeq(q, first, Len(q))
  <2>1. P!Kept = s
    BY <1>1, <1>8
  <2>2. first \in 1 .. Len(q) /\ Len(q) \in Nat
    BY <1>4, <1>8
  <2>3. /\ s \in Seq(P!Task) /\ Len(s) = Len(q) - first + 1
        /\ \A i \in 1 .. Len(q) - first + 1 : s[i] = q[first + i - 1]
    BY <2>2
  <2>4. DOMAIN q = 1 .. Len(q) /\ DOMAIN s = 1 .. Len(q) - first + 1
    BY <2>3
  <2> HIDE DEF s
  <2>5. TasksOf(s) \subseteq TasksOf(q)
    <3>1. \A i \in DOMAIN s : first + i - 1 \in DOMAIN q /\ s[i] = q[first + i - 1]
      BY <2>2, <2>3, <2>4
    <3> QED BY <3>1 DEF TasksOf
  <2>6. ASSUME NEW i \in 1 .. Len(q), Blocks(q[i]) PROVE q[i] \in TasksOf(s)
    <3>1. i >= first
      BY <1>4, <1>8, <2>2, <2>6 DEF Blocks
    <3> DEFINE j == i - first + 1
    <3>2. j \in 1 .. Len(q) - first + 1 /\ first + j - 1 = i
      BY <2>2, <3>1
    <3> HIDE DEF j
    <3>3. j \in DOMAIN s /\ s[j] = q[first + j - 1]
      BY <2>3, <2>4, <3>2
    <3> QED BY <3>2, <3>3 DEF TasksOf
  <2>7. q # <<>>
    BY <2>2
  <2> QED BY <1>8, <2>1, <2>3, <2>4, <2>5, <2>6, <2>7 DEF TasksOf
<1> QED BY <1>6, <1>7, <1>8

\* Tasks are where the pool can account for them, a worker that is not running a task
\* has none, no worker ends while there are tasks or the pool is up, and nobody posts
\* to a pool that is going down.
PoolInv ==
    /\ P!TypeOK
    /\ IsFiniteSet(tasks) /\ \A task \in tasks : task.id # 0
    /\ TasksOf(task_queue_) \subseteq tasks
    /\ \A w \in Threads : IF pc[w] = "run" THEN doing[w] \in tasks ELSE doing[w] = P!NoTask
    /\ running_ => pool = "up"
    /\ \A task \in tasks : Blocks(task) =>
          task \in ended \/ (\E w \in Threads : doing[w] = task) \/ task \in TasksOf(task_queue_)
    /\ (\E w \in Threads : pc[w] = "ended") => task_queue_ = <<>> /\ ~running_
    /\ pool = "destroyed" => task_queue_ = <<>>

\* No task, to begin with.
LEMMA PoolInit == P!Init => PoolInv
<1> SUFFICES ASSUME P!Init PROVE PoolInv
  OBVIOUS
<1>1. P!NoTask \in P!Task
  BY ThreadsAssumption DEF P!PoolAssumption, P!NoTask, P!Task
<1>2. running_ = TRUE /\ running_ \in BOOLEAN
  BY Zenon DEF P!Init
<1>3. P!TypeOK
  BY <1>1, <1>2 DEF P!Init, P!TypeOK
<1>4. TasksOf(task_queue_) = {}
  BY DEF P!Init, TasksOf
<1> QED BY <1>2, <1>3, <1>4, FS_EmptySet DEF P!Init, PoolInv

\* A worker that is notified, or wakes up for no reason, has no task.
LEMMA PoolWakes ==
    ASSUME PoolInv, pc' \in [Threads -> {"retrieve", "waiting", "run", "ended"}],
           \A w \in Threads : pc'[w] = pc[w] \/ (pc[w] = "waiting" /\ pc'[w] = "retrieve"),
           notifying' \subseteq Threads \cup Clients,
           pool' = pool \/ (pool = "stopping" /\ pool' = "joining"),
           UNCHANGED <<running_, task_queue_, doing, tasks, ended>>
    PROVE  PoolInv'
<1>1. P!TypeOK'
  BY DEF PoolInv, P!TypeOK
<1>2. \A w \in Threads : IF pc'[w] = "run" THEN doing[w] \in tasks ELSE doing[w] = P!NoTask
  BY DEF PoolInv
<1>3. running_ => pool' = "up"
  BY DEF PoolInv, P!TypeOK
<1>4. \A w \in Threads : pc'[w] = "ended" => pc[w] = "ended"
  OBVIOUS
<1>5. pool' = "destroyed" => pool = "destroyed"
  OBVIOUS
<1> QED BY <1>1, <1>2, <1>3, <1>4, <1>5 DEF PoolInv

\* A posted task is queued, and nobody has ended.
LEMMA PostStep ==
    ASSUME PoolInv, NEW t \in Threads \cup Clients,
           NEW behavior \in {"BlockShutdown", "SkipOnShutdown"}, P!Post(t, behavior)
    PROVE  PoolInv'
<1> DEFINE task == [id |-> Cardinality(tasks) + 1, behavior |-> behavior]
<1>1. /\ running_ /\ Cardinality(tasks) < MaxTasks
      /\ task_queue_' = Append(task_queue_, task)
      /\ tasks' = tasks \cup {task}
      /\ notifying' = notifying \cup {t}
      /\ UNCHANGED <<doing, running_, pool, pc, ended>>
  BY SameCount DEF P!Post
<1>2. Cardinality(tasks) \in Nat /\ MaxTasks \in Nat
  BY FS_CardinalityType, ThreadsAssumption DEF PoolInv, P!PoolAssumption
<1>3. task \in P!Task /\ task.id # 0
  BY <1>1, <1>2 DEF P!Task
<1> HIDE DEF task
<1>4. /\ task_queue_ \in Seq(P!Task) /\ task_queue_' \in Seq(P!Task)
      /\ TasksOf(task_queue_') = TasksOf(task_queue_) \cup {task}
  BY <1>1, <1>3 DEF PoolInv, P!TypeOK, TasksOf
<1>5. P!TypeOK'
  BY <1>1, <1>3, <1>4 DEF PoolInv, P!TypeOK
<1>6. IsFiniteSet(tasks')
  BY <1>1, FS_AddElement DEF PoolInv
<1>7. ~(\E w \in Threads : pc[w] = "ended") /\ pool # "destroyed"
  BY <1>1 DEF PoolInv
<1> QED BY <1>1, <1>3, <1>4, <1>5, <1>6, <1>7 DEF PoolInv

\* RetrieveTask loses no task that blocks the shutdown, and a worker ends only when
\* there is none.
LEMMA RetrieveStep ==
    ASSUME PoolInv, NEW w \in Threads, P!Retrieve(w)
    PROVE  PoolInv'
<1>1. /\ pc[w] = "retrieve" /\ doing[w] = P!NoTask /\ task_queue_ \in Seq(P!Task)
      /\ UNCHANGED <<running_, pool, notifying, tasks, ended>>
  BY DEF P!Retrieve, PoolInv, P!TypeOK
<1>2. P!NoTask \notin tasks
  BY DEF PoolInv, P!NoTask
<1>3. CASE running_ /\ task_queue_ = <<>>
  <2>1. pc' = [pc EXCEPT ![w] = "waiting"] /\ UNCHANGED <<doing, task_queue_>>
    BY <1>3 DEF P!Retrieve
  <2>2. P!TypeOK'
    BY <1>1, <2>1 DEF PoolInv, P!TypeOK
  <2>3. \A v \in Threads : v # w => pc'[v] = pc[v]
    BY <2>1 DEF PoolInv, P!TypeOK
  <2>4. pc'[w] = "waiting"
    BY <2>1 DEF PoolInv, P!TypeOK
  <2> QED BY <1>1, <2>1, <2>2, <2>3, <2>4 DEF PoolInv
<1>4. CASE ~(running_ /\ task_queue_ = <<>>) /\ P!Kept = <<>>
  <2>1. pc' = [pc EXCEPT ![w] = "ended"] /\ task_queue_' = <<>> /\ UNCHANGED doing
    BY <1>4 DEF P!Retrieve
  <2>2. ~running_
    BY <1>1, <1>4, KeptFacts
  <2>3. TasksOf(task_queue_') = {} /\ TasksOf(P!Kept) = {}
    BY <1>4, <2>1 DEF TasksOf
  <2>4. \A task \in TasksOf(task_queue_) : ~Blocks(task)
    BY <1>1, <2>3, KeptFacts
  <2>5. P!TypeOK'
    BY <1>1, <2>1 DEF PoolInv, P!TypeOK
  <2>6. pc'[w] = "ended" /\ \A v \in Threads : v # w => pc'[v] = pc[v]
    BY <2>1 DEF PoolInv, P!TypeOK
  <2> QED BY <1>1, <2>1, <2>2, <2>3, <2>4, <2>5, <2>6 DEF PoolInv
<1>5. CASE ~(running_ /\ task_queue_ = <<>>) /\ P!Kept # <<>>
  <2> DEFINE kept == P!Kept
  <2>1. /\ pc' = [pc EXCEPT ![w] = "run"]
        /\ doing' = [doing EXCEPT ![w] = Head(kept)]
        /\ task_queue_' = Tail(kept)
    BY <1>5 DEF P!Retrieve
  <2>2. /\ kept \in Seq(P!Task) /\ kept # <<>> /\ task_queue_ # <<>>
        /\ TasksOf(kept) \subseteq TasksOf(task_queue_)
        /\ \A task \in TasksOf(task_queue_) : Blocks(task) => task \in TasksOf(kept)
    BY <1>1, <1>5, KeptFacts
  <2> HIDE DEF kept
  <2>3. /\ Head(kept) \in P!Task /\ Head(kept) \in TasksOf(kept)
        /\ Tail(kept) \in Seq(P!Task) /\ TasksOf(Tail(kept)) \subseteq TasksOf(kept)
    BY <2>2 DEF TasksOf
  <2>4. \A task \in TasksOf(kept) : task = Head(kept) \/ task \in TasksOf(Tail(kept))
    <3> SUFFICES ASSUME NEW i \in 1 .. Len(kept)
                 PROVE  kept[i] = Head(kept) \/ kept[i] \in TasksOf(Tail(kept))
      BY <2>2 DEF TasksOf
    <3>1. CASE i = 1
      BY <2>2, <3>1
    <3>2. CASE i # 1
      <4>1. i - 1 \in DOMAIN Tail(kept) /\ Tail(kept)[i - 1] = kept[i]
        BY <2>2, <3>2
      <4> QED BY <4>1 DEF TasksOf
    <3> QED BY <3>1, <3>2
  <2>5. /\ pc'[w] = "run" /\ doing'[w] = Head(kept)
        /\ \A v \in Threads : v # w => pc'[v] = pc[v] /\ doing'[v] = doing[v]
    BY <2>1 DEF PoolInv, P!TypeOK
  <2>6. P!TypeOK'
    BY <1>1, <2>1, <2>3 DEF PoolInv, P!TypeOK
  <2>7. ~(\E v \in Threads : pc[v] = "ended") /\ pool # "destroyed"
    BY <2>2 DEF PoolInv
  <2>8. ASSUME NEW task \in tasks, Blocks(task)
        PROVE  task \in ended \/ (\E v \in Threads : doing'[v] = task) \/ task \in TasksOf(Tail(kept))
    <3>1. CASE task \in TasksOf(task_queue_)
      BY <2>2, <2>4, <2>5, <2>8, <3>1
    <3>2. ASSUME NEW v \in Threads, doing[v] = task PROVE doing'[v] = task
      BY <1>1, <1>2, <2>5, <3>2
    <3> QED BY <2>8, <3>1, <3>2 DEF PoolInv
  <2>9. Head(kept) \in tasks /\ TasksOf(Tail(kept)) \subseteq tasks
    BY <2>2, <2>3 DEF PoolInv
  <2> QED BY <1>1, <2>1, <2>5, <2>6, <2>7, <2>8, <2>9 DEF PoolInv
<1> QED BY <1>3, <1>4, <1>5

\* A task that returns is done.
LEMMA FinishStep ==
    ASSUME PoolInv, NEW w \in Threads, P!Finish(w)
    PROVE  PoolInv'
<1>1. /\ pc[w] = "run"
      /\ ended' = ended \cup {doing[w]}
      /\ doing' = [doing EXCEPT ![w] = P!NoTask]
      /\ pc' = [pc EXCEPT ![w] = "retrieve"]
      /\ UNCHANGED <<running_, task_queue_, pool, notifying, tasks>>
  BY DEF P!Finish
<1>2. doing[w] \in tasks
  BY <1>1 DEF PoolInv
<1>3. P!NoTask \in P!Task
  BY ThreadsAssumption DEF P!PoolAssumption, P!NoTask, P!Task
<1>4. P!TypeOK'
  BY <1>1, <1>2, <1>3 DEF PoolInv, P!TypeOK
<1>5. /\ pc'[w] = "retrieve" /\ doing'[w] = P!NoTask
      /\ \A v \in Threads : v # w => pc'[v] = pc[v] /\ doing'[v] = doing[v]
  BY <1>1 DEF PoolInv, P!TypeOK
<1> QED BY <1>1, <1>2, <1>4, <1>5 DEF PoolInv

\* Every step of the pool keeps the invariant, if it has a worker to run the tasks:
\* the destructor joins workers that have ended, and they leave no task.
LEMMA PoolStep ==
    ASSUME PoolInv, P!Next, Threads # {}
    PROVE  PoolInv'
<1>1. ASSUME NEW t \in Threads \cup Clients, NEW behavior \in {"BlockShutdown", "SkipOnShutdown"},
             P!Post(t, behavior)
      PROVE  PoolInv'
  BY <1>1, PostStep
<1>2. pc \in [Threads -> {"retrieve", "waiting", "run", "ended"}] /\ notifying \subseteq Threads \cup Clients
  BY DEF PoolInv, P!TypeOK
<1>3. ASSUME NEW t \in Threads \cup Clients, P!NotifyOne(t) PROVE PoolInv'
  <2>1. /\ notifying' \subseteq Threads \cup Clients
        /\ UNCHANGED <<doing, running_, task_queue_, pool, tasks, ended>>
    BY <1>2, <1>3 DEF P!NotifyOne
  <2>2. CASE UNCHANGED pc
    <3>1. pc' \in [Threads -> {"retrieve", "waiting", "run", "ended"}] /\ \A w \in Threads : pc'[w] = pc[w]
      BY <1>2, <2>2
    <3> QED BY <2>1, <3>1, PoolWakes
  <2>3. ASSUME NEW v \in P!Waiting, pc' = [pc EXCEPT ![v] = "retrieve"] PROVE PoolInv'
    <3>1. v \in Threads /\ pc[v] = "waiting"
      BY <2>3 DEF P!Waiting
    <3>2. /\ pc' \in [Threads -> {"retrieve", "waiting", "run", "ended"}]
          /\ \A w \in Threads : pc'[w] = pc[w] \/ (pc[w] = "waiting" /\ pc'[w] = "retrieve")
      BY <1>2, <2>3, <3>1
    <3> QED BY <2>1, <3>2, PoolWakes
  <2> QED BY <1>3, <2>2, <2>3 DEF P!NotifyOne
<1>4. CASE P!Stop
  <2>1. pool' = "stopping" /\ UNCHANGED <<doing, task_queue_, pc, notifying, tasks, ended>>
    BY <1>4 DEF P!Stop
  <2>2. running_' = FALSE /\ ~running_'
    BY <1>4, Zenon DEF P!Stop
  <2>3. P!TypeOK'
    BY <2>1, <2>2 DEF PoolInv, P!TypeOK
  <2> QED BY <2>1, <2>2, <2>3 DEF PoolInv
<1>5. CASE P!NotifyAll
  <2>1. /\ pc' \in [Threads -> {"retrieve", "waiting", "run", "ended"}]
        /\ \A w \in Threads : pc'[w] = pc[w] \/ (pc[w] = "waiting" /\ pc'[w] = "retrieve")
    BY <1>2, <1>5 DEF P!NotifyAll
  <2>2. /\ pool = "stopping" /\ pool' = "joining" /\ notifying' \subseteq Threads \cup Clients
        /\ UNCHANGED <<doing, running_, task_queue_, tasks, ended>>
    BY <1>2, <1>5 DEF P!NotifyAll
  <2> QED BY <2>1, <2>2, PoolWakes
<1>6. CASE P!Join
  <2>1. /\ \A w \in Threads : pc[w] = "ended"
        /\ pool = "joining" /\ pool' = "destroyed"
        /\ UNCHANGED <<doing, running_, task_queue_, pc, notifying, tasks, ended>>
    BY <1>6 DEF P!Join
  <2>2. task_queue_ = <<>> /\ ~running_
    BY <2>1 DEF PoolInv
  <2>3. P!TypeOK'
    BY <2>1 DEF PoolInv, P!TypeOK
  <2> QED BY <2>1, <2>2, <2>3 DEF PoolInv
<1>7. ASSUME NEW v \in Threads, P!Spurious(v) PROVE PoolInv'
  <2>1. /\ pc' \in [Threads -> {"retrieve", "waiting", "run", "ended"}]
        /\ \A w \in Threads : pc'[w] = pc[w] \/ (pc[w] = "waiting" /\ pc'[w] = "retrieve")
    BY <1>2, <1>7 DEF P!Spurious
  <2>2. /\ notifying' \subseteq Threads \cup Clients
        /\ UNCHANGED <<doing, running_, task_queue_, pool, tasks, ended>>
    BY <1>2, <1>7 DEF P!Spurious
  <2> QED BY <2>1, <2>2, PoolWakes
<1> QED BY <1>1, <1>3, <1>4, <1>5, <1>6, <1>7, RetrieveStep, FinishStep DEF P!Next

\* A pool with a worker runs every task that blocks its shutdown before it is destroyed,
\* whichever workers find them behind skipped ones, and no worker ends before that.
\* Without workers (the constructor accepts num = 0) nobody runs them.
THEOREM PoolTheorem == Threads # {} => (Spec => []BlockingTasksRun)
<1> SUFFICES ASSUME Threads # {} PROVE Spec => []BlockingTasksRun
  OBVIOUS
<1> DEFINE Inv == at = "pool" => PoolInv
<1>1. Init => Inv
  BY PoolInit DEF Init
<1>2. Inv /\ [Next]_vars => Inv'
  <2> SUFFICES ASSUME PoolInv, [Next]_vars, at = "pool", at' = "pool"
               PROVE  PoolInv'
    BY DEF Next, Light, Recursive, Queue, Pool, Stopped, vars
  <2>1. CASE UNCHANGED vars
    <3>1. UNCHANGED <<pc, running_, task_queue_, pool, doing, notifying, tasks, ended>>
      BY <2>1 DEF vars, poolVars
    <3> QED BY <3>1 DEF PoolInv, P!TypeOK
  <2>2. CASE P!Next
    BY <2>2, PoolStep
  <2> QED BY <2>1, <2>2 DEF Next, Light, Recursive, Queue, Pool, Stopped
<1>3. Inv => BlockingTasksRun
  <2> SUFFICES ASSUME PoolInv PROVE P!BlockingTasksRun
    BY DEF BlockingTasksRun
  <2>1. P!ToSet(task_queue_) = TasksOf(task_queue_)
    BY DEF P!ToSet, TasksOf
  <2>2. ASSUME NEW task \in tasks, Blocks(task)
        PROVE  \/ task \in ended
               \/ \E w \in Threads : doing[w] = task
               \/ task \in P!ToSet(task_queue_) /\ pool # "destroyed"
    <3>1. pool = "destroyed" => TasksOf(task_queue_) = {}
      BY DEF PoolInv, TasksOf
    <3> QED BY <2>1, <2>2, <3>1 DEF PoolInv
  <2> QED BY <2>2 DEF PoolInv, P!BlockingTasksRun, Blocks
<1> QED BY <1>1, <1>2, <1>3, PTL DEF Spec

-----------------------------------------------------------------------------
(* TLQueue.  A walk along the nexts is a recursive function, and what it   *)
(* finds is known once there is a line that it can find: the invariant is  *)
(* that there is one, and every step says which line is the next.          *)

\* The k-th node of a sequence of nodes, and nullptr after the last.
Nth(c, null, k) == IF k \in 1 .. Len(c) THEN c[k] ELSE null

\* Following nx from h gives the nodes of c, in order and each once, and then ends.
Line(c, S, null, h, nx) ==
    /\ c \in Seq(S)
    /\ \A i, j \in 1 .. Len(c) : c[i] = c[j] => i = j
    /\ h = Nth(c, null, 1)
    /\ \A k \in 1 .. Len(c) : nx[c[k]] = Nth(c, null, k + 1)

\* A line has no more nodes than there are.
LEMMA LineLength ==
    ASSUME NEW S, IsFiniteSet(S), NEW c \in Seq(S), \A i, j \in 1 .. Len(c) : c[i] = c[j] => i = j
    PROVE  Len(c) <= Cardinality(S) /\ Len(c) \in Nat /\ Cardinality(S) \in Nat
<1> DEFINE I == 1 .. Len(c)
           V == {c[i] : i \in I}
<1>1. Len(c) \in Nat /\ \A i \in I : c[i] \in S
  OBVIOUS
<1>2. IsFiniteSet(I) /\ Cardinality(I) = Len(c)
  <2>1. \A m \in Nat : IsFiniteSet(1 .. m) /\ Cardinality(1 .. m) = m
    BY FS_Interval
  <2> QED BY <1>1, <2>1
<1>3. c \in Bijection(I, V)
  <2>1. c \in [I -> V]
    BY <1>1
  <2>2. \A i, j \in I : c[i] = c[j] => i = j
    OBVIOUS
  <2>3. \A x \in V : \E i \in I : c[i] = x
    OBVIOUS
  <2> QED BY <2>1, <2>2, <2>3 DEF Bijection, Injection, Surjection, IsInjective
<1>4. Cardinality(V) = Len(c)
  <2>1. ExistsBijection(I, V)
    BY <1>3 DEF ExistsBijection
  <2> QED BY <1>2, <2>1, FS_Bijection
<1>5. V \subseteq S
  BY <1>1
<1> HIDE DEF I, V
<1>6. Cardinality(V) <= Cardinality(S)
  BY <1>5, FS_Subset
<1> QED BY <1>1, <1>4, <1>6, FS_CardinalityType

\* One round of the walk along nx, from the nodes that f has for the round before.
Round(n, null, h, nx, f) ==
    [k \in 1 .. n |-> IF k = 1 THEN h
                      ELSE IF f[k - 1] = null THEN null ELSE nx[f[k - 1]]]

\* The walk along a line is that line, with nullptr as often as nodes are missing.
LEMMA LineIsRound ==
    ASSUME NEW S, NEW null, null \notin S, NEW h, NEW nx, NEW c, Line(c, S, null, h, nx), NEW n \in Nat
    PROVE  LET w == [k \in 1 .. n |-> Nth(c, null, k)] IN w = Round(n, null, h, nx, w)
<1> DEFINE w == [k \in 1 .. n |-> Nth(c, null, k)]
           body(k) == IF k = 1 THEN h ELSE IF w[k - 1] = null THEN null ELSE nx[w[k - 1]]
<1>1. Len(c) \in Nat /\ \A k \in 1 .. Len(c) : c[k] \in S /\ c[k] # null
  BY DEF Line
<1>2. ASSUME NEW k \in 1 .. n PROVE w[k] = body(k)
  <2>1. CASE k = 1
    BY <2>1 DEF Line
  <2>2. CASE k # 1
    <3>1. PICK j \in 1 .. n : k = j + 1
      <4>1. k - 1 \in 1 .. n /\ k = (k - 1) + 1
        BY <2>2
      <4> QED BY <4>1
    <3>2. w[j] = Nth(c, null, j) /\ k - 1 = j
      BY <3>1
    <3>3. CASE j \in 1 .. Len(c)
      <4>1. w[j] = c[j] /\ w[j] # null
        BY <1>1, <3>2, <3>3 DEF Nth
      <4>2. nx[c[j]] = Nth(c, null, k)
        BY <3>1, <3>3 DEF Line
      <4>3. body(k) = nx[c[j]]
        BY <2>2, <3>2, <4>1
      <4> QED BY <4>2, <4>3
    <3>4. CASE j \notin 1 .. Len(c)
      <4>1. w[j] = null
        BY <3>2, <3>4 DEF Nth
      <4>2. k \notin 1 .. Len(c)
        BY <1>1, <3>1, <3>4
      <4>3. Nth(c, null, k) = null
        BY <4>2 DEF Nth
      <4>4. body(k) = null
        BY <2>2, <3>2, <4>1
      <4> QED BY <4>3, <4>4
    <3> QED BY <3>3, <3>4
  <2> QED BY <2>1, <2>2
<1>3. w = [k \in 1 .. n |-> body(k)]
  BY <1>2, Zenon
<1> QED BY <1>3, Zenon DEF Round

\* There is one such walk.
LEMMA RoundUnique ==
    ASSUME NEW n \in Nat, NEW null, NEW h, NEW nx, NEW f, NEW w,
           f = Round(n, null, h, nx, f), w = Round(n, null, h, nx, w)
    PROVE  f = w
<1> DEFINE Bad == {k \in 1 .. n : f[k] # w[k]}
<1>1. ASSUME NEW k \in 1 .. n
      PROVE /\ f[k] = IF k = 1 THEN h ELSE IF f[k - 1] = null THEN null ELSE nx[f[k - 1]]
            /\ w[k] = IF k = 1 THEN h ELSE IF w[k - 1] = null THEN null ELSE nx[w[k - 1]]
  <2>1. Round(n, null, h, nx, f)[k] = IF k = 1 THEN h ELSE IF f[k - 1] = null THEN null ELSE nx[f[k - 1]]
    BY DEF Round
  <2>2. Round(n, null, h, nx, w)[k] = IF k = 1 THEN h ELSE IF w[k - 1] = null THEN null ELSE nx[w[k - 1]]
    BY DEF Round
  <2> QED BY <2>1, <2>2, Zenon
<1>2. SUFFICES ASSUME Bad # {} PROVE FALSE
  <2>1. \A k \in 1 .. n : f[k] = w[k]
    BY <1>2
  <2>2. DOMAIN f = 1 .. n /\ DOMAIN w = 1 .. n
    <3>1. DOMAIN Round(n, null, h, nx, f) = 1 .. n /\ DOMAIN Round(n, null, h, nx, w) = 1 .. n
      BY DEF Round
    <3> QED BY <3>1, Zenon
  <2>3. f = [k \in 1 .. n |-> f[k]] /\ w = [k \in 1 .. n |-> w[k]]
    <3>1. Round(n, null, h, nx, f) = [k \in 1 .. n |-> Round(n, null, h, nx, f)[k]]
      BY Zenon DEF Round
    <3>2. Round(n, null, h, nx, w) = [k \in 1 .. n |-> Round(n, null, h, nx, w)[k]]
      BY Zenon DEF Round
    <3> QED BY <3>1, <3>2, Zenon
  <2> QED BY <2>1, <2>3, Zenon
<1>3. Bad \in SUBSET Nat
  OBVIOUS
<1>4. PICK k \in Bad : \A j \in Bad : k <= j
  BY <1>2, <1>3, LeastOf
<1>5. CASE k = 1
  BY <1>1, <1>4, <1>5
<1>6. CASE k # 1
  <2>1. PICK j \in 1 .. n : j = k - 1
    BY <1>4, <1>6
  <2>2. f[j] = w[j]
    BY <1>4, <2>1
  <2>3. f[k] = w[k]
    BY <1>1, <1>4, <1>6, <2>1, <2>2
  <2> QED BY <1>4, <2>3
<1> QED BY <1>5, <1>6

\* What a walk along nx finds is the line.
LEMMA WalkIsLine ==
    ASSUME Q!QueueAssumption, NEW h, NEW nx, NEW c, Line(c, Nodes, nullptr, h, nx)
    PROVE  Q!Walk(h, nx) = c
<1> DEFINE n == Cardinality(Nodes)
           f == CHOOSE f : f = Round(n, nullptr, h, nx, f)
           w == [k \in 1 .. n |-> Nth(c, nullptr, k)]
<1>1. n \in Nat /\ Len(c) \in Nat /\ Len(c) <= n
  BY SameCount, LineLength DEF Line, Q!QueueAssumption
<1>2. Q!Walk(h, nx) = Q!Restrict(f, {k \in DOMAIN f : f[k] # nullptr})
  <2>1. n = Q!Cardinality(Nodes)
    BY SameCount
  <2> HIDE DEF n
  <2>2. f = CHOOSE g : g = Round(Q!Cardinality(Nodes), nullptr, h, nx, g)
    BY <2>1
  <2> HIDE DEF f
  <2> QED BY <2>2 DEF Q!Walk, Round
<1> HIDE DEF n
<1>3. w = Round(n, nullptr, h, nx, w)
  BY <1>1, LineIsRound DEF Q!QueueAssumption
<1>4. f = Round(n, nullptr, h, nx, f)
  BY <1>3, Zenon
<1> HIDE DEF f
<1>5. f = w
  BY <1>1, <1>3, <1>4, RoundUnique
<1>6. {k \in DOMAIN f : f[k] # nullptr} = 1 .. Len(c)
  <2>1. \A k \in 1 .. Len(c) : c[k] # nullptr
    BY DEF Line, Q!QueueAssumption
  <2>2. DOMAIN f = 1 .. n /\ \A k \in 1 .. n : f[k] = Nth(c, nullptr, k)
    BY <1>5
  <2>3. ASSUME NEW k \in 1 .. n PROVE f[k] # nullptr <=> k \in 1 .. Len(c)
    BY <2>1, <2>2 DEF Nth
  <2> QED BY <1>1, <2>2, <2>3
<1>7. Q!Restrict(f, 1 .. Len(c)) = [k \in 1 .. Len(c) |-> f[k]]
  BY DEF Q!Restrict
<1>8. \A k \in 1 .. Len(c) : f[k] = c[k]
  BY <1>1, <1>5 DEF Nth
<1>9. [k \in 1 .. Len(c) |-> f[k]] = [k \in 1 .. Len(c) |-> c[k]]
  BY <1>8, Zenon
<1>10. [k \in 1 .. Len(c) |-> c[k]] = c
  BY DEF Line
<1> QED BY <1>2, <1>6, <1>7, <1>9, <1>10
\* The chain is the line c of nodes, and every other node that is allocated is
\* with the thread that made it or is to delete it.
QueueLine(c) ==
    /\ Len(c) > 0
    /\ Line(c, Nodes, nullptr, head_, next)
    /\ \A k \in 1 .. Len(c) : c[k] \in live
    /\ ~Q!TailLocked => tail_ = c[Len(c)]
    /\ \A n \in live : (\E k \in 1 .. Len(c) : n = c[k]) \/ \E t \in Threads : mine[t] = n

\* Where the node of a thread is.
MineAt(c, t) ==
    /\ pc[t] = "idle" => mine[t] = nullptr
    /\ pc[t] \in {"new", "delete"} => mine[t] \in live /\ \A k \in 1 .. Len(c) : c[k] # mine[t]
    /\ pc[t] = "new" => next[mine[t]] = nullptr
    /\ pc[t] = "linked" => mine[t] = c[Len(c)]
    /\ pc[t] = "read" => Len(c) > 1 /\ mine[t] = c[2]

\* The locks, and that no two threads are at the same node outside of the chain.
Apart(t, u) ==
    /\ pc[t] = "linked" => pc[u] # "linked"
    /\ pc[t] = "read" => pc[u] # "read"
    /\ pc[t] \in {"new", "delete"} /\ pc[u] \in {"new", "delete"} => mine[t] # mine[u]

\* The invariant of a chain.
QueueAt(c) ==
    /\ QueueLine(c)
    /\ \A t \in Threads : MineAt(c, t)
    /\ \A t, u \in Threads : t # u => Apart(t, u)

\* The chain is a line that holds all of this.
QueueInv == Q!TypeOK /\ \E c \in Seq(Nodes) : QueueAt(c)

\* What the invariant says of the chain and of the threads' nodes.
LEMMA QueueHolds ==
    ASSUME Q!QueueAssumption, QueueInv
    PROVE  Q!NoUseAfterDelete
<1>1. PICK c \in Seq(Nodes) : QueueAt(c)
  BY DEF QueueInv
<1>2. Q!Chain = c
  <2>1. Line(c, Nodes, nullptr, head_, next)
    BY <1>1 DEF QueueAt, QueueLine
  <2> QED BY <2>1, WalkIsLine DEF Q!Chain
<1>3. Len(c) \in Nat /\ Len(c) > 0 /\ DOMAIN c = 1 .. Len(c) /\ \A k \in 1 .. Len(c) : c[k] \in live
  BY <1>1 DEF QueueAt, QueueLine
<1>4. Q!Range(c) \subseteq live
  BY <1>3 DEF Q!Range
<1>5. ASSUME NEW t \in Threads
      PROVE /\ mine[t] # nullptr => mine[t] \in live
            /\ pc[t] = "linked" => mine[t] = c[Len(c)]
  BY <1>1, <1>3 DEF QueueAt, MineAt, QueueInv, Q!TypeOK
<1>6. ~Q!TailLocked => tail_ = c[Len(c)]
  BY <1>1 DEF QueueAt, QueueLine
<1>7. live \subseteq Q!Range(c) \cup Q!Range(mine)
  <2>1. DOMAIN mine = Threads
    BY DEF QueueInv, Q!TypeOK
  <2>2. \A n \in live : (\E k \in 1 .. Len(c) : n = c[k]) \/ \E t \in Threads : mine[t] = n
    BY <1>1 DEF QueueAt, QueueLine
  <2> QED BY <1>3, <2>1, <2>2 DEF Q!Range
<1> QED BY <1>2, <1>4, <1>5, <1>6, <1>7 DEF Q!NoUseAfterDelete, QueueInv

-----------------------------------------------------------------------------

\* A line stays one if no next of its nodes is written.
LEMMA LineKept ==
    ASSUME NEW S, NEW null, NEW h, NEW nx, NEW ny, NEW c, Line(c, S, null, h, nx),
           \A k \in 1 .. Len(c) : ny[c[k]] = nx[c[k]]
    PROVE  Line(c, S, null, h, ny)
BY DEF Line

\* A node that is linked to the last of a line is its new end.
LEMMA LineAppend ==
    ASSUME NEW S, NEW null, NEW h, NEW nx, NEW ny, NEW c, Line(c, S, null, h, nx), Len(c) > 0,
           NEW x \in S, \A k \in 1 .. Len(c) : c[k] # x,
           \A k \in 1 .. Len(c) : k # Len(c) => ny[c[k]] = nx[c[k]],
           ny[c[Len(c)]] = x, ny[x] = null
    PROVE  Line(Append(c, x), S, null, h, ny)
<1>1. PICK d, m : d = Append(c, x) /\ m = Len(c)
  OBVIOUS
<1>2. c \in Seq(S) /\ m \in Nat /\ m > 0 /\ d \in Seq(S) /\ Len(d) = m + 1 /\ d[m + 1] = x
  BY <1>1 DEF Line
<1>3. \A k \in 1 .. m : d[k] = c[k]
  BY <1>1, <1>2
<1>4. \A i, j \in 1 .. Len(d) : d[i] = d[j] => i = j
  <2>1. \A i, j \in 1 .. m : c[i] = c[j] => i = j
    BY <1>1 DEF Line
  <2>2. \A k \in 1 .. m : c[k] # x
    BY <1>1
  <2>3. \A i \in 1 .. Len(d) : i \in 1 .. m \/ i = m + 1
    BY <1>2
  <2> QED BY <1>2, <1>3, <2>1, <2>2, <2>3
<1>5. h = Nth(d, null, 1)
  <2>1. h = Nth(c, null, 1) /\ 1 \in 1 .. m /\ 1 \in 1 .. Len(d)
    BY <1>1, <1>2 DEF Line
  <2> QED BY <1>1, <1>3, <2>1 DEF Nth
<1>6. ASSUME NEW k \in 1 .. Len(d) PROVE ny[d[k]] = Nth(d, null, k + 1)
  <2>1. CASE k = m + 1
    <3>1. k + 1 \notin 1 .. Len(d)
      BY <1>2, <2>1
    <3>2. ny[d[k]] = null
      BY <1>2, <2>1
    <3> QED BY <3>1, <3>2 DEF Nth
  <2>2. CASE k = m
    <3>1. k + 1 \in 1 .. Len(d) /\ k \in 1 .. m
      BY <1>2, <2>2
    <3>2. ny[d[k]] = x
      BY <1>1, <1>3, <2>2, <3>1
    <3> QED BY <1>2, <2>2, <3>1, <3>2 DEF Nth
  <2>3. CASE k # m /\ k # m + 1
    <3>1. PICK j \in 1 .. m : j = k + 1
      BY <1>2, <2>3
    <3>2. k \in 1 .. m /\ j \in 1 .. Len(d)
      BY <1>2, <2>3, <3>1
    <3>3. ny[c[k]] = nx[c[k]]
      BY <1>1, <2>3, <3>2
    <3>4. nx[c[k]] = c[j]
      <4>1. nx[c[k]] = Nth(c, null, k + 1)
        BY <1>1, <3>2 DEF Line
      <4> QED BY <1>1, <3>1, <4>1 DEF Nth
    <3>5. d[j] = c[j] /\ d[k] = c[k]
      BY <1>3, <3>1, <3>2
    <3> QED BY <3>1, <3>2, <3>3, <3>4, <3>5 DEF Nth
  <2> QED BY <2>1, <2>2, <2>3
<1>7. Line(d, S, null, h, ny)
  BY <1>2, <1>4, <1>5, <1>6 DEF Line
<1> QED BY <1>1, <1>7

\* The rest of a line is one, from what follows its first node, which it has not.
LEMMA LineTail ==
    ASSUME NEW S, NEW null, NEW h, NEW nx, NEW c, Line(c, S, null, h, nx), Len(c) > 0
    PROVE  /\ Line(Tail(c), S, null, nx[h], nx)
           /\ \A k \in 1 .. Len(Tail(c)) : Tail(c)[k] # h
           /\ h = c[1] /\ Len(Tail(c)) = Len(c) - 1
<1>1. PICK d, m : d = Tail(c) /\ m = Len(c)
  OBVIOUS
<1>2. c \in Seq(S) /\ c # <<>> /\ m \in Nat /\ m > 0
  BY <1>1 DEF Line
<1>3. d \in Seq(S) /\ Len(d) = m - 1 /\ \A k \in 1 .. Len(d) : d[k] = c[k + 1]
  BY <1>1, <1>2
<1>4. \A i, j \in 1 .. m : c[i] = c[j] => i = j
  BY <1>1 DEF Line
<1>5. h = c[1]
  BY <1>1, <1>2 DEF Line, Nth
<1>6. ASSUME NEW k \in 1 .. Len(d)
      PROVE \E j \in 1 .. m : j = k + 1 /\ d[k] = c[j] /\ j # 1
  <2>1. k + 1 \in 1 .. m /\ k + 1 # 1
    BY <1>2, <1>3
  <2> QED BY <1>3, <2>1
<1>7. \A k \in 1 .. Len(d) : d[k] # h
  <2> SUFFICES ASSUME NEW k \in 1 .. Len(d) PROVE d[k] # h
    OBVIOUS
  <2>1. PICK j \in 1 .. m : j = k + 1 /\ d[k] = c[j] /\ j # 1
    BY <1>6
  <2>2. 1 \in 1 .. m
    BY <1>2
  <2> QED BY <1>4, <1>5, <2>1, <2>2
<1>8. \A i, j \in 1 .. Len(d) : d[i] = d[j] => i = j
  <2> SUFFICES ASSUME NEW i \in 1 .. Len(d), NEW j \in 1 .. Len(d), d[i] = d[j] PROVE i = j
    OBVIOUS
  <2>1. PICK a \in 1 .. m : a = i + 1 /\ d[i] = c[a]
    BY <1>6
  <2>2. PICK b \in 1 .. m : b = j + 1 /\ d[j] = c[b]
    BY <1>6
  <2>3. a = b
    BY <1>4, <2>1, <2>2
  <2> QED BY <1>2, <1>3, <2>1, <2>2, <2>3
<1>9. \A k \in 1 .. m : Nth(c, null, k + 1) = Nth(d, null, k)
  <2> SUFFICES ASSUME NEW k \in 1 .. m PROVE Nth(c, null, k + 1) = Nth(d, null, k)
    OBVIOUS
  <2>1. CASE k \in 1 .. Len(d)
    <3>1. k + 1 \in 1 .. m
      BY <1>2, <1>3, <2>1
    <3> QED BY <1>1, <1>3, <2>1, <3>1 DEF Nth
  <2>2. CASE k \notin 1 .. Len(d)
    <3>1. k + 1 \notin 1 .. m
      BY <1>2, <1>3, <2>2
    <3> QED BY <1>1, <2>2, <3>1 DEF Nth
  <2> QED BY <2>1, <2>2
<1>10. nx[h] = Nth(d, null, 1)
  <2>1. nx[c[1]] = Nth(c, null, 1 + 1) /\ 1 \in 1 .. m
    BY <1>1, <1>2 DEF Line
  <2>2. Nth(c, null, 1 + 1) = Nth(d, null, 1)
    BY <1>9, <2>1
  <2> QED BY <1>5, <2>1, <2>2
<1>11. ASSUME NEW k \in 1 .. Len(d) PROVE nx[d[k]] = Nth(d, null, k + 1)
  <2>1. PICK j \in 1 .. m : j = k + 1 /\ d[k] = c[j]
    BY <1>6
  <2>2. nx[c[j]] = Nth(c, null, j + 1)
    BY <1>1, <2>1 DEF Line
  <2>3. Nth(c, null, j + 1) = Nth(d, null, j)
    BY <1>9, <2>1
  <2> QED BY <2>1, <2>2, <2>3
<1>12. Line(d, S, null, nx[h], nx)
  BY <1>3, <1>8, <1>10, <1>11 DEF Line
<1> QED BY <1>1, <1>3, <1>5, <1>7, <1>12

-----------------------------------------------------------------------------

\* TLQueue::TLQueue: the sentinel is the whole chain.
LEMMA QueueInit ==
    ASSUME Q!QueueAssumption, Q!Init
    PROVE  QueueInv
<1>1. PICK n \in Nodes : head_ = n /\ tail_ = n /\ live = {n}
  BY DEF Q!Init
<1>2. Q!TypeOK
  BY <1>1, Zenon DEF Q!Init, Q!TypeOK
<1>3. PICK c : c = <<n>>
  OBVIOUS
<1>4. c \in Seq(Nodes) /\ Len(c) = 1 /\ c[1] = n
  BY <1>3
<1>5. Line(c, Nodes, nullptr, head_, next)
  <2>1. \A k \in 1 .. Len(c) : k = 1 /\ k + 1 \notin 1 .. Len(c)
    BY <1>4
  <2>2. next[n] = nullptr /\ head_ = n
    BY <1>1 DEF Q!Init
  <2> QED BY <1>4, <2>1, <2>2 DEF Line, Nth
<1>6. QueueLine(c)
  BY <1>1, <1>4, <1>5 DEF QueueLine
<1>7. \A t \in Threads : pc[t] = "idle" /\ mine[t] = nullptr
  BY DEF Q!Init
<1>8. QueueAt(c)
  BY <1>6, <1>7 DEF QueueAt, MineAt, Apart
<1> QED BY <1>2, <1>4, <1>8 DEF QueueInv

\* What a step of thread t leaves alone.
LEMMA Others ==
    ASSUME Q!TypeOK, NEW t \in Threads, NEW from, NEW to, Q!Goto(t, from, to)
    PROVE  pc[t] = from /\ pc'[t] = to /\ \A u \in Threads : u # t => pc'[u] = pc[u]
BY DEF Q!TypeOK, Q!Goto

\* Every step keeps the types; a thread that is not idle has a node.
LEMMA QueueTypes ==
    ASSUME Q!QueueAssumption, QueueInv, Q!Next
    PROVE  Q!TypeOK'
<1>1. Q!TypeOK
  BY DEF QueueInv
<1>2. \A t \in Threads : pc[t] # "idle" => mine[t] \in Nodes
  <2> SUFFICES ASSUME NEW t \in Threads, pc[t] # "idle" PROVE mine[t] \in Nodes
    OBVIOUS
  <2>1. PICK c \in Seq(Nodes) : QueueAt(c)
    BY DEF QueueInv
  <2>2. Len(c) \in Nat /\ Len(c) > 0 /\ \A k \in 1 .. Len(c) : c[k] \in Nodes
    BY <2>1 DEF QueueAt, QueueLine
  <2>3. MineAt(c, t) /\ live \subseteq Nodes
    BY <1>1, <2>1 DEF QueueAt, Q!TypeOK
  <2>4. pc[t] \in {"new", "delete"} \/ pc[t] = "linked" \/ pc[t] = "read"
    BY <1>1 DEF Q!TypeOK
  <2> QED BY <2>2, <2>3, <2>4 DEF MineAt
<1>3. PICK t \in Threads :
        \/ \E n \in Nodes : Q!New(t, n)
        \/ Q!Link(t) \/ Q!SetTail(t) \/ Q!ReadHead(t) \/ Q!SetHead(t) \/ Q!Delete(t)
  BY DEF Q!Next
<1>4. ASSUME NEW n \in Nodes, Q!New(t, n) PROVE Q!TypeOK'
  BY <1>1, <1>4 DEF Q!New, Q!Goto, Q!TypeOK
<1>5. CASE Q!Link(t)
  BY <1>1, <1>2, <1>5 DEF Q!Link, Q!Goto, Q!TypeOK
<1>6. CASE Q!SetTail(t)
  BY <1>1, <1>2, <1>6 DEF Q!SetTail, Q!Goto, Q!TypeOK
<1>7. CASE Q!ReadHead(t)
  BY <1>1, <1>7 DEF Q!ReadHead, Q!Goto, Q!TypeOK
<1>8. CASE Q!SetHead(t)
  BY <1>1, <1>2, <1>8 DEF Q!SetHead, Q!Goto, Q!TypeOK
<1>9. CASE Q!Delete(t)
  BY <1>1, <1>9 DEF Q!Delete, Q!Goto, Q!TypeOK
<1> QED BY <1>3, <1>4, <1>5, <1>6, <1>7, <1>8, <1>9

\* The chain does not see a node that is made, although it may have been in it before.
LEMMA QueueNew ==
    ASSUME Q!QueueAssumption, Q!TypeOK, NEW c \in Seq(Nodes), QueueAt(c),
           NEW t \in Threads, NEW n \in Nodes, Q!New(t, n)
    PROVE  QueueAt(c)'
<1>1. pc[t] = "idle" /\ pc'[t] = "new" /\ \A u \in Threads : u # t => pc'[u] = pc[u]
  BY Others DEF Q!New
<1>2. /\ n \notin live /\ live' = live \cup {n} /\ head_' = head_ /\ tail_' = tail_
      /\ mine'[t] = n /\ \A u \in Threads : u # t => mine'[u] = mine[u]
      /\ next'[n] = nullptr /\ \A x \in Nodes : x # n => next'[x] = next[x]
  BY DEF Q!New, Q!TypeOK
<1>3. Len(c) \in Nat /\ \A k \in 1 .. Len(c) : c[k] \in live /\ c[k] \in Nodes
  BY DEF QueueAt, QueueLine
<1>4. Line(c, Nodes, nullptr, head_', next')
  <2>1. \A k \in 1 .. Len(c) : next'[c[k]] = next[c[k]]
    BY <1>2, <1>3
  <2>2. Line(c, Nodes, nullptr, head_, next')
    BY <2>1, LineKept DEF QueueAt, QueueLine
  <2> QED BY <1>2, <2>2
<1>5. QueueLine(c)'
  <2>1. ~Q!TailLocked' => tail_' = c[Len(c)]
    <3>1. Q!TailLocked => Q!TailLocked'
      BY <1>1 DEF Q!TailLocked
    <3>2. ~Q!TailLocked => tail_ = c[Len(c)]
      BY DEF QueueAt, QueueLine
    <3> QED BY <1>2, <3>1, <3>2
  <2>2. \A x \in live' : (\E k \in 1 .. Len(c) : x = c[k]) \/ \E u \in Threads : mine'[u] = x
    <3> SUFFICES ASSUME NEW x \in live', \A k \in 1 .. Len(c) : x # c[k]
                 PROVE \E u \in Threads : mine'[u] = x
      OBVIOUS
    <3>1. CASE x = n
      BY <1>2, <3>1
    <3>2. CASE x # n
      <4>1. x \in live
        BY <1>2, <3>2
      <4>2. PICK u \in Threads : mine[u] = x
        BY <4>1 DEF QueueAt, QueueLine
      <4>3. u # t
        BY <1>1, <4>1, <4>2 DEF QueueAt, MineAt, Q!TypeOK, Q!QueueAssumption
      <4> QED BY <1>2, <4>2, <4>3
    <3> QED BY <3>1, <3>2
  <2>3. Len(c) > 0
    BY DEF QueueAt, QueueLine
  <2> QED BY <1>2, <1>3, <1>4, <2>1, <2>2, <2>3 DEF QueueLine
<1>6. ASSUME NEW u \in Threads PROVE MineAt(c, u)'
  <2>1. CASE u = t
    BY <1>1, <1>2, <1>3, <2>1 DEF MineAt
  <2>2. CASE u # t
    <3>1. MineAt(c, u)
      BY DEF QueueAt
    <3>2. pc'[u] = pc[u] /\ mine'[u] = mine[u]
      BY <1>1, <1>2, <2>2
    <3>3. pc[u] = "new" => next'[mine[u]] = nullptr
      BY <1>2, <3>1 DEF MineAt, Q!TypeOK
    <3> QED BY <1>2, <3>1, <3>2, <3>3 DEF MineAt
  <2> QED BY <2>1, <2>2
<1>7. ASSUME NEW u \in Threads, NEW v \in Threads, u # v PROVE Apart(u, v)'
  <2>1. Apart(u, v) /\ MineAt(c, u) /\ MineAt(c, v)
    BY <1>7 DEF QueueAt
  <2>2. CASE u # t /\ v # t
    BY <1>1, <1>2, <2>1, <2>2 DEF Apart
  <2>3. CASE u = t
    BY <1>1, <1>2, <1>7, <2>1, <2>3 DEF Apart, MineAt
  <2>4. CASE v = t
    BY <1>1, <1>2, <1>7, <2>1, <2>4 DEF Apart, MineAt
  <2> QED BY <2>2, <2>3, <2>4
<1> QED BY <1>5, <1>6, <1>7 DEF QueueAt

\* A node is linked at the end of the chain, where tail_ is as nobody holds tail_mtx_.
LEMMA QueueLink ==
    ASSUME Q!QueueAssumption, Q!TypeOK, NEW c \in Seq(Nodes), QueueAt(c), NEW t \in Threads, Q!Link(t),
           NEW d, d = Append(c, mine[t])
    PROVE  d \in Seq(Nodes) /\ pc[t] = "new" /\ QueueAt(d)'
<1>1. pc[t] = "new" /\ pc'[t] = "linked" /\ \A u \in Threads : u # t => pc'[u] = pc[u]
  BY Others DEF Q!Link
<1>2. PICK x, m : x = mine[t] /\ m = Len(c) /\ d = Append(c, x)
  OBVIOUS
<1>3. m \in Nat /\ m > 0 /\ \A k \in 1 .. m : c[k] \in live /\ c[k] \in Nodes
  BY <1>2 DEF QueueAt, QueueLine
<1>4. x \in live /\ x \in Nodes /\ next[x] = nullptr /\ \A k \in 1 .. m : c[k] # x
  BY <1>1, <1>2 DEF QueueAt, MineAt, Q!TypeOK
<1>5. tail_ = c[m] /\ \A u \in Threads : pc[u] # "linked"
  BY <1>2 DEF Q!Link, QueueAt, QueueLine, Q!TailLocked
<1>6. /\ live' = live /\ head_' = head_ /\ tail_' = tail_ /\ mine' = mine
      /\ next'[c[m]] = x /\ \A y \in Nodes : y # c[m] => next'[y] = next[y]
  BY <1>2, <1>3, <1>5 DEF Q!Link, Q!TypeOK
<1>7. d \in Seq(Nodes) /\ Len(d) = m + 1 /\ d[m + 1] = x /\ \A k \in 1 .. m : d[k] = c[k]
  BY <1>2, <1>3, <1>4
<1>8. Line(d, Nodes, nullptr, head_', next')
  <2>1. Line(c, Nodes, nullptr, head_, next)
    BY DEF QueueAt, QueueLine
  <2>2. \A k \in 1 .. m : k # m => next'[c[k]] = next[c[k]]
    BY <1>2, <1>3, <1>6, <2>1 DEF Line
  <2>3. next'[x] = nullptr
    BY <1>3, <1>4, <1>6
  <2>4. /\ Len(c) > 0 /\ x \in Nodes /\ \A k \in 1 .. Len(c) : c[k] # x
        /\ \A k \in 1 .. Len(c) : k # Len(c) => next'[c[k]] = next[c[k]]
        /\ next'[c[Len(c)]] = x
    BY <1>2, <1>3, <1>4, <1>6, <2>2
  <2>5. Line(Append(c, x), Nodes, nullptr, head_, next')
    BY <2>1, <2>3, <2>4, LineAppend
  <2> QED BY <1>2, <1>6, <2>5
<1>9. QueueLine(d)'
  <2>1. Q!TailLocked'
    BY <1>1 DEF Q!TailLocked
  <2>2. \A k \in 1 .. Len(d) : d[k] \in live'
    <3>1. \A k \in 1 .. Len(d) : k \in 1 .. m \/ k = m + 1
      BY <1>3, <1>7
    <3> QED BY <1>3, <1>4, <1>6, <1>7, <3>1
  <2>3. \A y \in live' : (\E k \in 1 .. Len(d) : y = d[k]) \/ \E u \in Threads : mine'[u] = y
    <3> SUFFICES ASSUME NEW y \in live PROVE (\E k \in 1 .. Len(d) : y = d[k]) \/ \E u \in Threads : mine[u] = y
      BY <1>6
    <3>1. (\E k \in 1 .. m : y = c[k]) \/ \E u \in Threads : mine[u] = y
      BY <1>2 DEF QueueAt, QueueLine
    <3>2. \A k \in 1 .. m : k \in 1 .. Len(d)
      BY <1>3, <1>7
    <3> QED BY <1>7, <3>1, <3>2
  <2> QED BY <1>3, <1>7, <1>8, <2>1, <2>2, <2>3 DEF QueueLine
<1>10. ASSUME NEW u \in Threads PROVE MineAt(d, u)'
  <2>1. MineAt(c, u)
    BY DEF QueueAt
  <2>2. CASE u = t
    BY <1>1, <1>2, <1>6, <1>7, <2>2 DEF MineAt
  <2>3. CASE u # t
    <3>1. pc'[u] = pc[u] /\ mine'[u] = mine[u] /\ pc[u] # "linked"
      BY <1>1, <1>5, <1>6, <2>3
    <3>2. pc[u] \in {"new", "delete"} => \A k \in 1 .. Len(d) : d[k] # mine[u]
      <4> SUFFICES ASSUME pc[u] \in {"new", "delete"}, NEW k \in 1 .. Len(d) PROVE d[k] # mine[u]
        OBVIOUS
      <4>1. CASE k \in 1 .. m
        BY <1>2, <1>7, <2>1, <4>1 DEF MineAt
      <4>2. CASE k = m + 1
        <5>1. mine[u] # mine[t]
          BY <1>1, <2>3 DEF QueueAt, Apart
        <5> QED BY <1>2, <1>7, <4>2, <5>1
      <4> QED BY <1>3, <1>7, <4>1, <4>2
    <3>3. pc[u] = "new" => next'[mine[u]] = nullptr
      <4> SUFFICES ASSUME pc[u] = "new" PROVE next'[mine[u]] = nullptr
        OBVIOUS
      <4>1. mine[u] \in Nodes /\ \A k \in 1 .. m : c[k] # mine[u]
        BY <1>2, <2>1 DEF MineAt, Q!TypeOK
      <4>2. mine[u] # c[m]
        BY <1>3, <4>1
      <4> QED BY <1>6, <2>1, <4>1, <4>2 DEF MineAt
    <3>4. pc[u] = "read" => Len(d) > 1 /\ mine[u] = d[2]
      BY <1>2, <1>3, <1>7, <2>1 DEF MineAt
    <3> QED BY <1>6, <2>1, <3>1, <3>2, <3>3, <3>4 DEF MineAt
  <2> QED BY <2>2, <2>3
<1>11. ASSUME NEW u \in Threads, NEW v \in Threads, u # v PROVE Apart(u, v)'
  <2>1. Apart(u, v)
    BY <1>11 DEF QueueAt
  <2> QED BY <1>1, <1>5, <1>6, <1>11, <2>1 DEF Apart
<1>12. QueueAt(d)'
  BY <1>9, <1>10, <1>11 DEF QueueAt
<1> QED BY <1>1, <1>2, <1>7, <1>12

\* The chain does not see that tail_ reaches its end.
LEMMA QueueSetTail ==
    ASSUME Q!TypeOK, NEW c \in Seq(Nodes), QueueAt(c), NEW t \in Threads, Q!SetTail(t)
    PROVE  QueueAt(c)'
<1>1. pc[t] = "linked" /\ pc'[t] = "idle" /\ \A u \in Threads : u # t => pc'[u] = pc[u]
  BY Others DEF Q!SetTail
<1>2. /\ live' = live /\ head_' = head_ /\ next' = next /\ tail_' = mine[t]
      /\ mine'[t] = nullptr /\ \A u \in Threads : u # t => mine'[u] = mine[u]
  BY DEF Q!SetTail, Q!TypeOK
<1>3. mine[t] = c[Len(c)] /\ Len(c) \in Nat /\ Len(c) > 0
  BY <1>1 DEF QueueAt, MineAt, QueueLine
<1>4. QueueLine(c)'
  <2>1. Line(c, Nodes, nullptr, head_', next')
    BY <1>2 DEF QueueAt, QueueLine
  <2>2. \A y \in live : (\E k \in 1 .. Len(c) : y = c[k]) \/ \E u \in Threads : mine'[u] = y
    <3> SUFFICES ASSUME NEW y \in live, \A k \in 1 .. Len(c) : y # c[k] PROVE \E u \in Threads : mine'[u] = y
      OBVIOUS
    <3>1. PICK u \in Threads : mine[u] = y
      BY DEF QueueAt, QueueLine
    <3>2. u # t
      BY <1>3, <3>1
    <3> QED BY <1>2, <3>1, <3>2
  <2> QED BY <1>2, <1>3, <2>1, <2>2 DEF QueueAt, QueueLine
<1>5. ASSUME NEW u \in Threads PROVE MineAt(c, u)'
  BY <1>1, <1>2 DEF QueueAt, MineAt
<1>6. ASSUME NEW u \in Threads, NEW v \in Threads, u # v PROVE Apart(u, v)'
  <2>1. Apart(u, v)
    BY <1>6 DEF QueueAt
  <2> QED BY <1>1, <1>2, <2>1 DEF Apart
<1> QED BY <1>4, <1>5, <1>6 DEF QueueAt

\* The chain does not see who reads its second node.
LEMMA QueueReadHead ==
    ASSUME Q!QueueAssumption, Q!TypeOK, NEW c \in Seq(Nodes), QueueAt(c), NEW t \in Threads, Q!ReadHead(t)
    PROVE  QueueAt(c)'
<1>1. pc[t] = "idle" /\ pc'[t] = "read" /\ \A u \in Threads : u # t => pc'[u] = pc[u]
  BY Others DEF Q!ReadHead
<1>2. /\ live' = live /\ head_' = head_ /\ next' = next /\ tail_' = tail_
      /\ mine'[t] = next[head_] /\ \A u \in Threads : u # t => mine'[u] = mine[u]
      /\ next[head_] # nullptr /\ \A u \in Threads : pc[u] # "read"
  BY DEF Q!ReadHead, Q!TypeOK, Q!HeadLocked
<1>3. Len(c) > 1 /\ next[head_] = c[2]
  <2>1. Len(c) \in Nat /\ Len(c) > 0 /\ 1 \in 1 .. Len(c) /\ Line(c, Nodes, nullptr, head_, next)
    BY DEF QueueAt, QueueLine
  <2>2. head_ = c[1]
    BY <2>1 DEF Line, Nth
  <2>3. next[head_] = Nth(c, nullptr, 2)
    <3>1. next[c[1]] = Nth(c, nullptr, 1 + 1)
      BY <2>1 DEF Line
    <3> QED BY <2>2, <3>1
  <2>4. 2 \in 1 .. Len(c)
    BY <1>2, <2>3 DEF Nth
  <2> QED BY <2>1, <2>3, <2>4 DEF Nth
<1>4. QueueLine(c)'
  <2>1. Line(c, Nodes, nullptr, head_', next')
    BY <1>2 DEF QueueAt, QueueLine
  <2>2. \A y \in live : (\E k \in 1 .. Len(c) : y = c[k]) \/ \E u \in Threads : mine'[u] = y
    <3> SUFFICES ASSUME NEW y \in live, \A k \in 1 .. Len(c) : y # c[k] PROVE \E u \in Threads : mine'[u] = y
      OBVIOUS
    <3>1. PICK u \in Threads : mine[u] = y
      BY DEF QueueAt, QueueLine
    <3>2. u # t
      BY <1>1, <3>1 DEF QueueAt, MineAt, Q!TypeOK, Q!QueueAssumption
    <3> QED BY <1>2, <3>1, <3>2
  <2>3. ~Q!TailLocked' => tail_' = c[Len(c)]
    <3>1. Q!TailLocked => Q!TailLocked'
      BY <1>1 DEF Q!TailLocked
    <3>2. ~Q!TailLocked => tail_ = c[Len(c)]
      BY DEF QueueAt, QueueLine
    <3> QED BY <1>2, <3>1, <3>2
  <2> QED BY <1>2, <2>1, <2>2, <2>3 DEF QueueAt, QueueLine
<1>5. ASSUME NEW u \in Threads PROVE MineAt(c, u)'
  BY <1>1, <1>2, <1>3 DEF QueueAt, MineAt
<1>6. ASSUME NEW u \in Threads, NEW v \in Threads, u # v PROVE Apart(u, v)'
  <2>1. Apart(u, v)
    BY <1>6 DEF QueueAt
  <2> QED BY <1>1, <1>2, <1>6, <2>1 DEF Apart
<1> QED BY <1>4, <1>5, <1>6 DEF QueueAt

\* The first node leaves the chain, which goes on to its end.
LEMMA QueueSetHead ==
    ASSUME Q!QueueAssumption, Q!TypeOK, NEW c \in Seq(Nodes), QueueAt(c), NEW t \in Threads, Q!SetHead(t),
           NEW d, d = Tail(c)
    PROVE  d \in Seq(Nodes) /\ Len(c) > 1 /\ QueueAt(d)'
<1>1. pc[t] = "read" /\ pc'[t] = "delete" /\ \A u \in Threads : u # t => pc'[u] = pc[u]
  BY Others DEF Q!SetHead
<1>2. PICK m : m = Len(c)
  OBVIOUS
<1>3. /\ live' = live /\ head_' = mine[t] /\ next' = next /\ tail_' = tail_
      /\ mine'[t] = head_ /\ \A u \in Threads : u # t => mine'[u] = mine[u]
  BY DEF Q!SetHead, Q!TypeOK
<1>4. m \in Nat /\ m > 1 /\ mine[t] = c[2] /\ \A k \in 1 .. m : c[k] \in live
  BY <1>1, <1>2 DEF QueueAt, MineAt, QueueLine
<1>5. Line(c, Nodes, nullptr, head_, next)
  BY DEF QueueAt, QueueLine
<1>6. /\ Line(d, Nodes, nullptr, next[head_], next)
      /\ \A k \in 1 .. Len(d) : d[k] # head_
      /\ head_ = c[1] /\ Len(d) = m - 1
  BY <1>2, <1>4, <1>5, LineTail
<1>7. d \in Seq(Nodes) /\ \A k \in 1 .. Len(d) : d[k] = c[k + 1] /\ k + 1 \in 1 .. m
  <2>1. c # <<>> /\ c \in Seq(Nodes)
    BY <1>2, <1>4
  <2> QED BY <1>2, <1>4, <1>6, <2>1
<1>8. next[head_] = c[2]
  <2>1. next[c[1]] = Nth(c, nullptr, 1 + 1) /\ 1 + 1 \in 1 .. Len(c)
    BY <1>2, <1>4, <1>5 DEF Line
  <2> QED BY <1>6, <2>1 DEF Nth
<1>9. d[Len(d)] = c[m]
  <2>1. Len(d) \in 1 .. Len(d) /\ Len(d) + 1 = m
    BY <1>4, <1>6
  <2> QED BY <1>7, <2>1
<1>10. QueueLine(d)'
  <2>1. Line(d, Nodes, nullptr, head_', next')
    BY <1>3, <1>4, <1>6, <1>8
  <2>2. \A k \in 1 .. Len(d) : d[k] \in live
    BY <1>4, <1>7
  <2>3. \A y \in live : (\E k \in 1 .. Len(d) : y = d[k]) \/ \E u \in Threads : mine'[u] = y
    <3> SUFFICES ASSUME NEW y \in live, y # head_, \A u \in Threads : mine'[u] # y
                 PROVE \E k \in 1 .. Len(d) : y = d[k]
      BY <1>3
    <3>1. (\E k \in 1 .. m : y = c[k]) \/ \E u \in Threads : mine[u] = y
      BY <1>2 DEF QueueAt, QueueLine
    <3>2. \E k \in 1 .. m : y = c[k]
      <4>1. 2 \in 1 .. m
        BY <1>4
      <4>2. ASSUME NEW u \in Threads, mine[u] = y PROVE u = t
        BY <1>3, <4>2
      <4> QED BY <1>4, <3>1, <4>1, <4>2
    <3>3. PICK k \in 1 .. m : y = c[k]
      BY <3>2
    <3>4. PICK j \in 1 .. Len(d) : k = j + 1
      <4>1. k # 1
        BY <1>6, <3>3
      <4>2. k - 1 \in 1 .. Len(d) /\ k = (k - 1) + 1
        BY <1>4, <1>6, <4>1
      <4> QED BY <4>2
    <3> QED BY <1>7, <3>3, <3>4
  <2>4. ~Q!TailLocked' => tail_' = d[Len(d)]
    <3>1. Q!TailLocked => Q!TailLocked'
      BY <1>1 DEF Q!TailLocked
    <3>2. ~Q!TailLocked => tail_ = c[m]
      BY <1>2 DEF QueueAt, QueueLine
    <3> QED BY <1>3, <1>9, <3>1, <3>2
  <2>5. Len(d) > 0
    BY <1>4, <1>6
  <2> QED BY <1>3, <2>1, <2>2, <2>3, <2>4, <2>5 DEF QueueLine
<1>11. \A u \in Threads : u # t => pc[u] # "read"
  BY <1>1 DEF QueueAt, Apart
<1>12. ASSUME NEW u \in Threads PROVE MineAt(d, u)'
  <2>1. MineAt(c, u)
    BY DEF QueueAt
  <2>2. CASE u = t
    <3>1. head_ \in live
      <4>1. 1 \in 1 .. m
        BY <1>4
      <4> QED BY <1>4, <1>6, <4>1
    <3> QED BY <1>1, <1>3, <1>6, <2>2, <3>1 DEF MineAt
  <2>3. CASE u # t
    <3>1. pc'[u] = pc[u] /\ mine'[u] = mine[u] /\ pc[u] # "read"
      BY <1>1, <1>3, <1>11, <2>3
    <3>2. pc[u] \in {"new", "delete"} => \A k \in 1 .. Len(d) : d[k] # mine[u]
      <4> SUFFICES ASSUME pc[u] \in {"new", "delete"}, NEW k \in 1 .. Len(d) PROVE d[k] # mine[u]
        OBVIOUS
      <4>1. PICK j \in 1 .. m : d[k] = c[j]
        BY <1>7
      <4> QED BY <1>2, <2>1, <4>1 DEF MineAt
    <3> QED BY <1>2, <1>3, <1>9, <2>1, <3>1, <3>2 DEF MineAt
  <2> QED BY <2>2, <2>3
<1>13. ASSUME NEW u \in Threads, NEW v \in Threads, u # v PROVE Apart(u, v)'
  <2>1. Apart(u, v) /\ MineAt(c, u) /\ MineAt(c, v)
    BY <1>13 DEF QueueAt
  <2>2. \A w \in Threads : pc[w] \in {"new", "delete"} => mine[w] # head_
    <3> SUFFICES ASSUME NEW w \in Threads, pc[w] \in {"new", "delete"} PROVE mine[w] # head_
      OBVIOUS
    <3>1. \A k \in 1 .. m : c[k] # mine[w]
      BY <1>2 DEF QueueAt, MineAt
    <3>2. 1 \in 1 .. m
      BY <1>4
    <3> QED BY <1>6, <3>1, <3>2
  <2>3. CASE u # t /\ v # t
    BY <1>1, <1>3, <2>1, <2>3 DEF Apart
  <2>4. CASE u = t
    BY <1>1, <1>3, <1>13, <2>2, <2>4 DEF Apart
  <2>5. CASE v = t
    BY <1>1, <1>3, <1>13, <2>2, <2>5 DEF Apart
  <2> QED BY <2>3, <2>4, <2>5
<1>14. QueueAt(d)'
  BY <1>10, <1>12, <1>13 DEF QueueAt
<1> QED BY <1>2, <1>4, <1>7, <1>14

\* The chain does not see that a node which left it is deleted.
LEMMA QueueDelete ==
    ASSUME Q!TypeOK, NEW c \in Seq(Nodes), QueueAt(c), NEW t \in Threads, Q!Delete(t)
    PROVE  QueueAt(c)'
<1>1. pc[t] = "delete" /\ pc'[t] = "idle" /\ \A u \in Threads : u # t => pc'[u] = pc[u]
  BY Others DEF Q!Delete
<1>2. /\ live' = live \ {mine[t]} /\ head_' = head_ /\ next' = next /\ tail_' = tail_
      /\ mine'[t] = nullptr /\ \A u \in Threads : u # t => mine'[u] = mine[u]
  BY DEF Q!Delete, Q!TypeOK
<1>3. \A k \in 1 .. Len(c) : c[k] \in live /\ c[k] # mine[t]
  BY <1>1 DEF QueueAt, QueueLine, MineAt
<1>4. QueueLine(c)'
  <2>1. Line(c, Nodes, nullptr, head_', next') /\ Len(c) > 0
    BY <1>2 DEF QueueAt, QueueLine
  <2>2. \A y \in live' : (\E k \in 1 .. Len(c) : y = c[k]) \/ \E u \in Threads : mine'[u] = y
    <3> SUFFICES ASSUME NEW y \in live', \A k \in 1 .. Len(c) : y # c[k] PROVE \E u \in Threads : mine'[u] = y
      OBVIOUS
    <3>1. y \in live /\ y # mine[t]
      BY <1>2
    <3>2. PICK u \in Threads : mine[u] = y
      BY <3>1 DEF QueueAt, QueueLine
    <3> QED BY <1>2, <3>1, <3>2
  <2>3. ~Q!TailLocked' => tail_' = c[Len(c)]
    <3>1. Q!TailLocked => Q!TailLocked'
      BY <1>1 DEF Q!TailLocked
    <3>2. ~Q!TailLocked => tail_ = c[Len(c)]
      BY DEF QueueAt, QueueLine
    <3> QED BY <1>2, <3>1, <3>2
  <2> QED BY <1>2, <1>3, <2>1, <2>2, <2>3 DEF QueueLine
<1>5. ASSUME NEW u \in Threads PROVE MineAt(c, u)'
  <2>1. MineAt(c, u)
    BY DEF QueueAt
  <2>2. CASE u = t
    BY <1>1, <1>2, <2>2 DEF MineAt
  <2>3. CASE u # t
    <3>1. pc[u] \in {"new", "delete"} => mine[u] # mine[t]
      BY <1>1, <2>3 DEF QueueAt, Apart
    <3> QED BY <1>1, <1>2, <2>1, <2>3, <3>1 DEF MineAt
  <2> QED BY <2>2, <2>3
<1>6. ASSUME NEW u \in Threads, NEW v \in Threads, u # v PROVE Apart(u, v)'
  <2>1. Apart(u, v)
    BY <1>6 DEF QueueAt
  <2> QED BY <1>1, <1>2, <2>1 DEF Apart
<1> QED BY <1>4, <1>5, <1>6 DEF QueueAt

\* Every step keeps the invariant and changes the chain at its ends only.
LEMMA QueueStep ==
    ASSUME Q!QueueAssumption, QueueInv, Q!Next
    PROVE  QueueInv' /\ Q!EndsOnly
<1>1. Q!TypeOK /\ Q!TypeOK'
  BY QueueTypes DEF QueueInv
<1>2. PICK c \in Seq(Nodes) : QueueAt(c)
  BY DEF QueueInv
<1>3. Q!Chain = c
  <2>1. Line(c, Nodes, nullptr, head_, next)
    BY <1>2 DEF QueueAt, QueueLine
  <2> QED BY <2>1, WalkIsLine DEF Q!Chain
<1>4. ASSUME NEW d \in Seq(Nodes), QueueAt(d)' PROVE Q!Chain' = d /\ QueueInv'
  <2>1. Line(d, Nodes, nullptr, head_', next')
    BY <1>4 DEF QueueAt, QueueLine
  <2>2. Q!Chain' = d
    BY <2>1, WalkIsLine DEF Q!Chain
  <2>3. QueueInv'
    BY <1>1, <1>4 DEF QueueInv
  <2> QED BY <2>2, <2>3
<1>5. PICK t \in Threads :
        \/ \E n \in Nodes : Q!New(t, n)
        \/ Q!Link(t) \/ Q!SetTail(t) \/ Q!ReadHead(t) \/ Q!SetHead(t) \/ Q!Delete(t)
  BY DEF Q!Next
<1>6. (\E n \in Nodes : Q!New(t, n)) => QueueAt(c)'
  BY <1>1, <1>2, QueueNew
<1>7. Q!SetTail(t) \/ Q!ReadHead(t) \/ Q!Delete(t) => QueueAt(c)'
  BY <1>1, <1>2, QueueSetTail, QueueReadHead, QueueDelete
<1>8. QueueAt(c)' => QueueInv' /\ Q!EndsOnly
  BY <1>3, <1>4 DEF Q!EndsOnly
<1>9. ASSUME Q!Link(t) PROVE QueueInv' /\ Q!EndsOnly
  <2>1. PICK d : d = Append(c, mine[t])
    OBVIOUS
  <2>2. d \in Seq(Nodes) /\ pc[t] = "new" /\ QueueAt(d)'
    BY <1>1, <1>2, <1>9, <2>1, QueueLink
  <2>3. Q!Chain' = d /\ QueueInv'
    BY <1>4, <2>2
  <2> QED BY <1>3, <2>1, <2>2, <2>3 DEF Q!EndsOnly
<1>10. ASSUME Q!SetHead(t) PROVE QueueInv' /\ Q!EndsOnly
  <2>1. PICK d : d = Tail(c)
    OBVIOUS
  <2>2. d \in Seq(Nodes) /\ Len(c) > 1 /\ QueueAt(d)'
    BY <1>1, <1>2, <1>10, <2>1, QueueSetHead
  <2>3. Q!Chain' = d /\ QueueInv'
    BY <1>4, <2>2
  <2> QED BY <1>3, <2>1, <2>2, <2>3 DEF Q!EndsOnly
<1> QED BY <1>5, <1>6, <1>7, <1>8, <1>9, <1>10

\* Nothing here depends on the variables of the other components.
LEMMA QueueStutters ==
    ASSUME QueueInv, UNCHANGED vars
    PROVE  QueueInv'
<1>1. UNCHANGED <<head_, tail_, next, live, pc, mine>>
  BY DEF vars, queueVars
<1>2. Q!TypeOK'
  BY <1>1 DEF QueueInv, Q!TypeOK
<1>3. PICK c \in Seq(Nodes) : QueueAt(c)
  BY DEF QueueInv
<1>4. QueueLine(c)'
  BY <1>1, <1>3 DEF QueueAt, QueueLine, Q!TailLocked
<1>5. \A t \in Threads : MineAt(c, t)'
  BY <1>1, <1>3 DEF QueueAt, MineAt
<1>6. \A t, u \in Threads : t # u => Apart(t, u)'
  BY <1>1, <1>3 DEF QueueAt, Apart
<1>7. QueueAt(c)'
  BY <1>4, <1>5, <1>6 DEF QueueAt
<1> QED BY <1>2, <1>7 DEF QueueInv

\* No node of TLQueue is used after it was deleted, and none is leaked, for any number
\* of threads and of nodes, although a node is deleted outside both locks and may be
\* given out again while the Enqueue that linked it has not yet set tail_.
THEOREM QueueTheorem == Spec => []NoUseAfterDelete
<1> DEFINE Inv == at = "queue" => QueueInv
<1>1. Init => Inv
  BY ThreadsAssumption, QueueInit DEF Init
<1>2. Inv /\ [Next]_vars => Inv'
  <2> SUFFICES ASSUME QueueInv, [Next]_vars, at = "queue", at' = "queue"
               PROVE  QueueInv'
    BY DEF Next, Light, Recursive, Queue, Pool, Stopped, vars
  <2>1. CASE UNCHANGED vars
    BY <2>1, QueueStutters
  <2>2. CASE Q!Next
    BY <2>2, ThreadsAssumption, QueueStep
  <2> QED BY <2>1, <2>2 DEF Next, Light, Recursive, Queue, Pool, Stopped
<1>3. Inv => NoUseAfterDelete
  BY ThreadsAssumption, QueueHolds DEF NoUseAfterDelete
<1> QED BY <1>1, <1>2, <1>3, PTL DEF Spec

\* Enqueue appends its node to the chain and Dequeue removes the first: nothing is
\* lost, overtakes or is dequeued twice, for any number of threads and of nodes,
\* although the two hold different locks and meet in the sentinel's next.
THEOREM QueueOrderTheorem == Spec => FirstInFirstOut
<1> DEFINE Inv == at = "queue" => QueueInv
<1>1. Init => Inv
  BY ThreadsAssumption, QueueInit DEF Init
<1>2. Inv /\ [Next]_vars => Inv' /\ [at = "queue" => Q!EndsOnly]_vars
  <2> SUFFICES ASSUME Inv, [Next]_vars PROVE Inv' /\ [at = "queue" => Q!EndsOnly]_vars
    OBVIOUS
  <2>1. CASE UNCHANGED vars
    BY <2>1, QueueStutters DEF vars
  <2>2. CASE at = "queue" /\ Q!Next
    BY <2>2, ThreadsAssumption, QueueStep
  <2>3. CASE at # "queue"
    BY <2>3 DEF Next, Light, Recursive, Queue, Pool, Stopped, vars
  <2> QED BY <2>1, <2>2, <2>3 DEF Next, Light, Recursive, Queue, Pool, Stopped
<1> QED BY <1>1, <1>2, PTL DEF Spec, FirstInFirstOut

=============================================================================
