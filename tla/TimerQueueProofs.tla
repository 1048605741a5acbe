-------------------------- MODULE TimerQueueProofs ---------------------------
(***************************************************************************)
(* Proofs about TimerQueue, for any clock, unit and kMinDuration and any   *)
(* number of timers: a queue with timers in it is watched by the timerfd,  *)
(* the timerfd does not sleep past the earliest of them, and no timer is   *)
(* lost or ticks twice.                                                    *)
(***************************************************************************)
EXTENDS TimerQueue, WellFoundedInduction, TLAPS

-----------------------------------------------------------------------------
(* The first timer of the multimap, and the duration given to the timerfd. *)

\* A set of natural numbers that is not empty has a least element.
LEMMA LeastNatural ==
    ASSUME NEW S \in SUBSET Nat, S # {}
    PROVE  \E m \in S : \A n \in S : m <= n
<1> DEFINE R == OpToRel(<, Nat)
<1>1. IsWellFoundedOn(R, Nat)
  BY NatLessThanWellFounded
<1>2. R = {ss \in Nat \X Nat : ss[1] < ss[2]}
  BY DEF OpToRel
<1> HIDE DEF R
<1>3. PICK m \in S : \A n \in S : ~(<<n, m>> \in R)
  BY <1>1, WFMin
<1>4. \A n \in S : ~(n < m)
  BY <1>2, <1>3
<1>5. \A n \in S : m <= n
  BY <1>4
<1> QED BY <1>5

\* timers_.begin() is a timer of the queue, and no other is due before it.
LEMMA EarliestFacts ==
    ASSUME NEW ts \in SUBSET Timers, ts # {}
    PROVE  /\ Earliest(ts) \in Nat
           /\ \E t \in ts : t.when = Earliest(ts)
           /\ \A t \in ts : Earliest(ts) <= t.when
<1> DEFINE S == {t.when : t \in ts}
           Q(w) == \A t \in ts : w <= t.when
<1>1. S \in SUBSET Nat /\ S # {}
  BY DEF Timers
<1>2. \E w \in S : \A n \in S : w <= n
  BY <1>1, LeastNatural
<1>3. \E w \in S : Q(w)
  BY <1>2
<1>4. Earliest(ts) = CHOOSE w \in S : Q(w)
  BY DEF Earliest
<1>5. Earliest(ts) \in S /\ Q(Earliest(ts))
  <2> HIDE DEF S, Q
  <2> QED BY <1>3, <1>4
<1> QED BY <1>1, <1>5

\* A timer that is not due after the others is the one the queue begins with.
LEMMA EarliestIs ==
    ASSUME NEW ts \in SUBSET Timers, NEW t \in ts, \A u \in ts : t.when <= u.when
    PROVE  Earliest(ts) = t.when
<1>1. ts # {} /\ t.when \in Nat
  BY DEF Timers
<1>2. Earliest(ts) <= t.when /\ Earliest(ts) \in Nat
  BY <1>1, EarliestFacts
<1>3. t.when <= Earliest(ts)
  BY <1>1, EarliestFacts
<1> QED BY <1>1, <1>2, <1>3

\* Cutting a time to whole microseconds makes it no longer.
LEMMA CutFacts ==
    ASSUME NEW n \in Nat
    PROVE  (n \div Micro) * Micro \in 0 .. n
BY UnitsAssumption, Z3T(30)

\* ResetTimerFD leaves the timerfd running, with kMinDuration or with a time that
\* is not past the expiration.
LEMMA ResetFacts ==
    ASSUME now \in Nat, NEW e \in Nat, ResetTimerFD(e)
    PROVE  /\ left' \in Nat \ {0}
           /\ readable' = FALSE
           /\ left' <= MinDuration \/ left' <= e - now
<1> DEFINE down == ((now - e) \div Micro) * Micro
           up == ((e - now) \div Micro) * Micro
           d == IF e < now THEN -down ELSE up
<1>1. e < now => d \in Int /\ d <= 0
  <2> HAVE e < now
  <2>1. now - e \in Nat
    OBVIOUS
  <2>2. down \in 0 .. now - e
    BY <2>1, CutFacts
  <2> QED BY <2>2
<1>2. e >= now => d \in Int /\ d <= e - now
  <2> HAVE e >= now
  <2>1. e - now \in Nat
    OBVIOUS
  <2>2. up \in 0 .. e - now
    BY <2>1, CutFacts
  <2> QED BY <2>2
<1>3. /\ left' = (IF ConvertDurationToTimespec(d) = 0 THEN Off ELSE ConvertDurationToTimespec(d))
      /\ readable' = FALSE
  BY DEF ResetTimerFD
<1> HIDE DEF d
<1>4. ConvertDurationToTimespec(d) \in Nat \ {0}
  BY <1>1, <1>2, UnitsAssumption DEF ConvertDurationToTimespec
<1>5. left' = ConvertDurationToTimespec(d)
  BY <1>3, <1>4
<1>6. ConvertDurationToTimespec(d) <= MinDuration \/ ConvertDurationToTimespec(d) <= e - now
  <2>1. d \in Int /\ (d <= 0 \/ d <= e - now)
    BY <1>1, <1>2
  <2>2. IF d < MinDuration THEN ConvertDurationToTimespec(d) = MinDuration
                           ELSE ConvertDurationToTimespec(d) = d
    BY DEF ConvertDurationToTimespec
  <2> QED BY <2>1, <2>2, UnitsAssumption
<1> QED BY <1>3, <1>4, <1>5, <1>6

-----------------------------------------------------------------------------
(* Types, and the watched queue.                                           *)

\* Every step keeps the types.
LEMMA TypeStep == TimersTypeOK /\ [TimersNext]_timerVars => TimersTypeOK'
<1> SUFFICES ASSUME TimersTypeOK, [TimersNext]_timerVars PROVE TimersTypeOK'
  OBVIOUS
<1> USE UnitsAssumption DEF TimersTypeOK
<1>1. CASE Elapse
  BY <1>1 DEF Elapse, Off
<1>2. ASSUME NEW time \in 0 .. MaxTime, SetClock(time) PROVE TimersTypeOK'
  BY <1>2 DEF SetClock
<1>3. ASSUME NEW when \in 0 .. MaxTime, NEW interval \in Intervals, AddTimer(when, interval)
      PROVE  TimersTypeOK'
  <2>0. now \in Nat /\ when \in Nat
    OBVIOUS
  <2>1. left' \in (Nat \ {0}) \cup {Off}
    BY <1>3, <2>0, ResetFacts DEF AddTimer
  <2>3. readable' \in BOOLEAN
    BY <1>3, Zenon DEF AddTimer, ResetTimerFD
  <2>2. timers' \subseteq Timers
    BY <1>3 DEF AddTimer, Timers
  <2> QED BY <1>3, <2>1, <2>2, <2>3 DEF AddTimer
<1>4. CASE PollTimer
  BY <1>4 DEF PollTimer
<1>5. CASE OnTick
  BY <1>5 DEF OnTick, Expired
<1>6. CASE Tick
  BY <1>6 DEF Tick
<1>7. CASE TickReturns
  <2>1. timers' \subseteq Timers
    BY <1>7 DEF TickReturns, Timers
  <2>2. Nobody \in Timers
    BY DEF Nobody, Timers
  <2> QED BY <1>7, <2>1, <2>2 DEF TickReturns
<1>8. CASE OnTickEnd
  <2>1. left' \in (Nat \ {0}) \cup {Off} /\ readable' \in BOOLEAN
    BY <1>8, ResetFacts, EarliestFacts DEF OnTickEnd
  <2> QED BY <1>8, <2>1 DEF OnTickEnd
<1>9. CASE UNCHANGED timerVars
  BY <1>9 DEF timerVars
<1> QED BY <1>1, <1>2, <1>3, <1>4, <1>5, <1>6, <1>7, <1>8, <1>9 DEF TimersNext

\* Initially the types are right and nothing is in the queue.
LEMMA InitType == TimersInit => TimersTypeOK
<1>1. Nobody \in Timers
  BY DEF Nobody, Timers
<1> SUFFICES ASSUME TimersInit PROVE TimersTypeOK
  OBVIOUS
<1>2. readable \in BOOLEAN /\ reported \in BOOLEAN /\ ensured \in BOOLEAN
  BY Zenon DEF TimersInit
<1> QED BY <1>1, <1>2 DEF TimersInit, TimersTypeOK

\* Every step keeps the queue watched: AddTimer and the end of OnTick set the
\* timerfd, and an expiration is readable until OnTick reads it.
LEMMA WatchedStep == TimersWatched /\ [TimersNext]_timerVars => TimersWatched'
<1> SUFFICES ASSUME TimersWatched, [TimersNext]_timerVars PROVE TimersWatched'
  OBVIOUS
<1> DEFINE W == pc = "loop" /\ ensured /\ timers # {} => left # Off \/ readable \/ reported
<1>0. TimersTypeOK /\ TimersTypeOK' /\ W
  BY TypeStep DEF TimersWatched
<1>1. CASE Elapse
  <2>1. left # Off => left' # Off \/ left = 1
    BY <1>0, <1>1 DEF Elapse, TimersTypeOK, Off
  <2>2. readable \/ left = 1 => readable'
    BY <1>1 DEF Elapse
  <2>3. UNCHANGED <<pc, ensured, timers, reported>>
    BY <1>1 DEF Elapse
  <2> QED BY <1>0, <2>1, <2>2, <2>3, Zenon DEF TimersWatched
<1>2. ASSUME NEW time \in 0 .. MaxTime, SetClock(time) PROVE TimersWatched'
  BY <1>0, <1>2 DEF SetClock, TimersWatched
<1>3. ASSUME NEW when \in 0 .. MaxTime, NEW interval \in Intervals, AddTimer(when, interval)
      PROVE  TimersWatched'
  <2>1. CASE EarliestChanged(when)
    <3>1. left' \in Nat \ {0}
      <4>1. now \in Nat /\ when \in Nat
        BY <1>0, UnitsAssumption DEF TimersTypeOK
      <4> QED BY <1>3, <2>1, <4>1, ResetFacts DEF AddTimer
    <3> QED BY <1>0, <3>1 DEF TimersWatched, Off
  <2>2. CASE ~ EarliestChanged(when)
    BY <1>0, <1>3, <2>2 DEF AddTimer, TimersWatched, EarliestChanged
  <2> QED BY <2>1, <2>2
<1>4. CASE PollTimer
  BY <1>0, <1>4 DEF PollTimer, TimersWatched
<1>5. CASE OnTick
  BY <1>0, <1>5 DEF OnTick, TimersWatched
<1>6. CASE Tick
  BY <1>0, <1>6 DEF Tick, TimersWatched
<1>7. CASE TickReturns
  BY <1>0, <1>7 DEF TickReturns, TimersWatched
<1>8. CASE OnTickEnd
  <2>1. timers # {} => left' \in Nat \ {0}
    BY <1>0, <1>8, ResetFacts, EarliestFacts DEF OnTickEnd, TimersTypeOK
  <2> QED BY <1>0, <1>8, <2>1 DEF OnTickEnd, TimersWatched, Off
<1>9. CASE UNCHANGED timerVars
  BY <1>0, <1>9 DEF timerVars, TimersWatched, TimersTypeOK
<1> QED BY <1>1, <1>2, <1>3, <1>4, <1>5, <1>6, <1>7, <1>8, <1>9 DEF TimersNext

\* Outside OnTick a queue with timers in it is watched by the timerfd, whatever
\* AddTimer, OnTick and the clocks do (TimerQueue::AddTimer, OnTick).
THEOREM WatchedTheorem == TimersSpec => []TimersWatched
<1>1. TimersInit => TimersWatched
  BY InitType DEF TimersInit, TimersWatched
<1> QED BY <1>1, WatchedStep, PTL DEF TimersSpec

-----------------------------------------------------------------------------
(* The timerfd is punctual.                                                *)

\* Every step keeps the timerfd from sleeping past the earliest timer.
LEMMA PunctualStep == TimersTypeOK /\ Punctual /\ [TimersNext]_timerVars => Punctual'
<1> SUFFICES ASSUME TimersTypeOK, Punctual, [TimersNext]_timerVars PROVE Punctual'
  OBVIOUS
<1> DEFINE e == Earliest(timers)
<1>a. TimersTypeOK' /\ timers \in SUBSET Timers
  BY TypeStep DEF TimersTypeOK
<1>b. timers # {} => e \in Nat
  BY <1>a, EarliestFacts
<1>c. /\ now \in Nat /\ left \in Nat \cup {Off} /\ skipped \in Nat
      /\ MinDuration \in Nat
  BY UnitsAssumption DEF TimersTypeOK
<1>d. pc = "loop" /\ timers # {} /\ left # Off =>
         left <= MinDuration + skipped \/ left <= e - now + skipped
  BY DEF Punctual
<1>e. timers' = timers => Earliest(timers)' = e
  OBVIOUS
<1> HIDE DEF e
<1>1. CASE Elapse
  <2>1. timers' = timers /\ pc' = pc /\ skipped' = skipped /\ now' = now + 1
    BY <1>1 DEF Elapse
  <2>2. left' # Off => left # Off /\ left' = left - 1
    BY <1>1, <1>c DEF Elapse, Off
  <2> QED BY <2>1, <2>2, <1>b, <1>c, <1>d, <1>e DEF Punctual, Off
<1>2. ASSUME NEW time \in 0 .. MaxTime, SetClock(time) PROVE Punctual'
  <2>1. timers' = timers /\ pc' = pc /\ left' = left /\ now' = time /\ time \in Nat
    BY <1>2, UnitsAssumption DEF SetClock
  <2>2. skipped' = IF time > now THEN skipped + (time - now) ELSE skipped
    BY <1>2 DEF SetClock
  <2> QED BY <2>1, <2>2, <1>b, <1>c, <1>d, <1>e DEF Punctual, Off
<1>3. ASSUME NEW when \in 0 .. MaxTime, NEW interval \in Intervals, AddTimer(when, interval)
      PROVE  Punctual'
  <2> DEFINE t == [id |-> added + 1, when |-> when, interval |-> interval]
  <2>1. /\ timers' = timers \cup {t} /\ timers' \in SUBSET Timers
        /\ now' = now /\ skipped' = skipped /\ pc' = pc
    BY <1>3, <1>a DEF AddTimer, TimersTypeOK
  <2>2. when \in Nat /\ t.when = when /\ t \in timers'
    BY <2>1, UnitsAssumption
  <2>3. CASE EarliestChanged(when)
    <3>1. left' \in Nat /\ (left' <= MinDuration \/ left' <= when - now)
      BY <1>3, <1>c, <2>2, <2>3, ResetFacts DEF AddTimer
    <3>2. \A u \in timers' : t.when <= u.when
      <4>1. \A u \in timers : when <= u.when
        BY <2>2, <2>3, <1>a, EarliestFacts DEF EarliestChanged, Timers
      <4> QED BY <2>1, <2>2, <4>1
    <3>3. Earliest(timers)' = when
      BY <2>1, <2>2, <3>2, EarliestIs
    <3> QED BY <2>1, <2>2, <3>1, <3>3, <1>c DEF Punctual
  <2>4. CASE ~ EarliestChanged(when)
    <3>1. timers # {} /\ e <= when /\ left' = left
      BY <1>3, <2>2, <2>4, <1>b DEF AddTimer, EarliestChanged, e
    <3>2. PICK u \in timers : u.when = e /\ \A v \in timers : e <= v.when
      BY <1>a, <3>1, EarliestFacts DEF e
    <3>3. u \in timers' /\ \A v \in timers' : u.when <= v.when
      BY <2>1, <2>2, <3>1, <3>2
    <3>4. Earliest(timers)' = e
      BY <2>1, <3>2, <3>3, EarliestIs
    <3> QED BY <2>1, <3>1, <3>4, <1>d DEF Punctual
  <2> QED BY <2>3, <2>4
<1>4. CASE PollTimer
  BY <1>4, <1>d, <1>e DEF PollTimer, Punctual
<1>5. CASE OnTick
  BY <1>5, <1>d, <1>e DEF OnTick, Punctual
<1>6. CASE Tick
  BY <1>6 DEF Tick, Punctual
<1>7. CASE TickReturns
  BY <1>7 DEF TickReturns, Punctual
<1>8. CASE OnTickEnd
  <2>1. timers' = timers /\ now' = now /\ skipped' = skipped
    BY <1>8 DEF OnTickEnd
  <2>2. timers # {} => left' \in Nat /\ (left' <= MinDuration \/ left' <= e - now)
    BY <1>8, <1>b, <1>c, ResetFacts DEF OnTickEnd, e
  <2> QED BY <2>1, <2>2, <1>b, <1>c, <1>e DEF Punctual
<1>9. CASE UNCHANGED timerVars
  BY <1>9, <1>d, <1>e DEF timerVars, Punctual
<1> QED BY <1>1, <1>2, <1>3, <1>4, <1>5, <1>6, <1>7, <1>8, <1>9 DEF TimersNext

\* The timerfd never sleeps past the earliest timer by more than kMinDuration and
\* what the wall clock was set forward (TimerQueue::ResetTimerFD and its callers).
THEOREM PunctualTheorem == TimersSpec => []Punctual
<1>1. TimersInit => Punctual
  BY DEF TimersInit, Punctual
<1> QED BY <1>1, InitType, TypeStep, PunctualStep, PTL DEF TimersSpec

-----------------------------------------------------------------------------
(* No timer is lost, none ticks twice.                                     *)

\* Where OnTick has its timers: expired is empty outside OnTick, the timer whose
\* handler is running has been noted in fired, and one that does not repeat has
\* left the queue before it ticks.
Whereabouts ==
    /\ pc = "loop" => expired = {}
    /\ IF pc = "in_tick" THEN ticking \in fired ELSE ticking = Nobody
    /\ \A t \in expired : t.interval = 0 => t \notin timers

\* TickedOnce with what makes it inductive.
TickInv == TimersTypeOK /\ TickedOnce /\ Whereabouts

\* The identities in use are those AddTimer has given.
LEMMA IdFacts ==
    ASSUME TickInv
    PROVE  \A t \in timers \cup expired \cup fired : t \in Timers /\ t.id \in 1 .. added
BY DEF TickInv, TimersTypeOK, TickedOnce

\* AddTimer brings in a timer with a new identity.
LEMMA AddTimerTicks ==
    ASSUME TickInv, TimersTypeOK', NEW when \in Nat, NEW interval \in Nat, AddTimer(when, interval)
    PROVE  TickInv'
<1> DEFINE n == [id |-> added + 1, when |-> when, interval |-> interval]
           all == timers \cup expired \cup fired
<1>1. /\ timers' = timers \cup {n} /\ added' = added + 1 /\ added \in Nat
      /\ UNCHANGED <<expired, fired, ticking, pc>>
  BY DEF AddTimer, TickInv, TimersTypeOK
<1>2. \A t \in all : t \in Timers /\ t.id \in 1 .. added
  BY IdFacts
<1>3. n.id = added + 1 /\ n \notin all /\ \A t \in all : t.id # n.id
  BY <1>1, <1>2
<1>4. (timers \cup expired \cup fired)' = all \cup {n}
  BY <1>1
<1> HIDE DEF n
<1>5. {t.id : t \in all \cup {n}} = 1 .. added + 1
  <2>1. {t.id : t \in all} = 1 .. added
    BY DEF TickInv, TickedOnce
  <2>2. 1 .. added + 1 = (1 .. added) \cup {added + 1}
    BY <1>1
  <2> HIDE DEF all
  <2> QED BY <2>1, <2>2, <1>3
<1>6. TickedOnce'
  <2>1. {t.id : t \in timers \cup expired \cup fired}' = (1 .. added)'
    BY <1>1, <1>4, <1>5
  <2>2. \A t, u \in all \cup {n} : t.id = u.id /\ t.interval = 0 => t = u
    BY <1>3 DEF TickInv, TickedOnce
  <2>3. \A t \in fired :
          IF t.interval = 0
          THEN t \notin timers' \cup expired
          ELSE \E u \in timers' \cup expired \cup {ticking} : u.id = t.id
    BY <1>1, <1>3 DEF TickInv, TickedOnce
  <2> QED BY <1>1, <1>4, <2>1, <2>2, <2>3 DEF TickedOnce
<1>7. Whereabouts'
  BY <1>1, <1>3 DEF TickInv, Whereabouts
<1> QED BY <1>6, <1>7 DEF TickInv

\* OnTick moves the expired timers out of the queue.
LEMMA OnTickTicks ==
    ASSUME TickInv, TimersTypeOK', OnTick
    PROVE  TickInv'
<1>1. CASE \E t \in timers : t.when = now
  BY <1>1 DEF TickInv, OnTick, TickedOnce, Whereabouts
<1>2. CASE ~ \E t \in timers : t.when = now
  <2>1. /\ expired' = Expired(now) /\ timers' = timers \ Expired(now) /\ expired = {}
        /\ pc' = "ticking" /\ pc = "loop"
        /\ UNCHANGED <<fired, ticking, added>>
    BY <1>2 DEF TickInv, OnTick, Whereabouts
  <2>2. expired' \subseteq timers /\ timers' \cup expired' = timers /\ timers' \cap expired' = {}
    BY <2>1 DEF Expired
  <2>3. (timers \cup expired \cup fired)' = timers \cup expired \cup fired
    BY <2>1, <2>2
  <2>4. TickedOnce'
    BY <2>1, <2>2, <2>3 DEF TickInv, TickedOnce
  <2>5. Whereabouts'
    BY <2>1, <2>2 DEF TickInv, Whereabouts
  <2> QED BY <2>4, <2>5 DEF TickInv
<1> QED BY <1>1, <1>2

\* Tick takes a timer from expired to fired.
LEMMA TickTicks ==
    ASSUME TickInv, TimersTypeOK', Tick
    PROVE  TickInv'
<1>1. PICK t \in expired :
         /\ expired' = expired \ {t} /\ ticking' = t /\ fired' = fired \cup {t}
         /\ pc = "ticking" /\ pc' = "in_tick" /\ UNCHANGED <<timers, added>>
  BY DEF Tick
<1>2. /\ (timers \cup expired \cup fired)' = timers \cup expired \cup fired
      /\ ticking = Nobody
  BY <1>1 DEF TickInv, Whereabouts
<1>3. Nobody.id = 0 /\ \A u \in fired : u.id # 0
  BY IdFacts DEF Nobody
<1>4. \A u \in fired' :
          IF u.interval = 0
          THEN u \notin timers' \cup expired'
          ELSE \E v \in timers' \cup expired' \cup {ticking'} : v.id = u.id
  <2>1. t.interval = 0 => t \notin timers' \cup expired'
    BY <1>1 DEF TickInv, Whereabouts
  <2>2. ASSUME NEW u \in fired, u.interval = 0 PROVE u \notin timers' \cup expired'
    BY <1>1, <2>2 DEF TickInv, TickedOnce
  <2>3. ASSUME NEW u \in fired, u.interval # 0
        PROVE  \E v \in timers' \cup expired' \cup {ticking'} : v.id = u.id
    <3>1. PICK v \in timers \cup expired \cup {ticking} : v.id = u.id
      BY <2>3 DEF TickInv, TickedOnce
    <3>2. v \in timers \cup expired
      BY <3>1, <1>2, <1>3
    <3> QED BY <1>1, <3>1, <3>2
  <2> QED BY <1>1, <2>1, <2>2, <2>3
<1>5. TickedOnce'
  BY <1>1, <1>2, <1>4 DEF TickInv, TickedOnce
<1>6. Whereabouts'
  BY <1>1 DEF TickInv, Whereabouts
<1> QED BY <1>5, <1>6 DEF TickInv

\* The end of Tick puts a repeating timer, and no other, back.
LEMMA TickReturnsTicks ==
    ASSUME TickInv, TimersTypeOK', TickReturns
    PROVE  TickInv'
<1> DEFINE n == [ticking EXCEPT !.when = sentry + ticking.interval]
           all == timers \cup expired \cup fired
<1>1. /\ timers' = (IF ticking.interval > 0 THEN timers \cup {n} ELSE timers)
      /\ ticking \in fired /\ pc' = "ticking" /\ ticking' = Nobody
      /\ ticking \in Timers
      /\ UNCHANGED <<expired, fired, added>>
  BY DEF TickReturns, TickInv, TimersTypeOK, Whereabouts
<1>2. n.id = ticking.id /\ n.interval = ticking.interval
  BY <1>1 DEF Timers
<1>3. \A t \in all : t.id = ticking.id => (t.interval = 0 <=> ticking.interval = 0)
  BY <1>1 DEF TickInv, TickedOnce
<1>4. \A t \in all : t.interval \in Nat
  BY IdFacts DEF Timers
<1> HIDE DEF n
<1>5. CASE ticking.interval > 0
  <2>1. (timers \cup expired \cup fired)' = all \cup {n} /\ timers' = timers \cup {n}
    BY <1>1, <1>5
  <2>2. ticking.interval # 0
    BY <1>1, <1>5 DEF Timers
  <2>3. {t.id : t \in all \cup {n}} = {t.id : t \in all}
    BY <1>1, <1>2
  <2>4. \A t, u \in all \cup {n} : t.id = u.id /\ t.interval = 0 => t = u
    BY <1>2, <1>3, <2>2 DEF TickInv, TickedOnce
  <2>5. ASSUME NEW t \in fired
        PROVE  IF t.interval = 0
               THEN t \notin timers' \cup expired
               ELSE \E u \in timers' \cup expired \cup {ticking'} : u.id = t.id
    BY <1>2, <2>1, <2>2 DEF TickInv, TickedOnce
  <2>6. TickedOnce'
    <3>1. {t.id : t \in all} = 1 .. added
      BY DEF TickInv, TickedOnce
    <3> HIDE DEF all
    <3>2. {t.id : t \in (timers \cup expired \cup fired)'} = 1 .. added'
      BY <1>1, <2>1, <2>3, <3>1
    <3> QED BY <1>1, <2>1, <2>4, <2>5, <3>2 DEF TickedOnce
  <2>7. Whereabouts'
    BY <1>1, <1>2, <2>1, <2>2 DEF TickInv, Whereabouts
  <2> QED BY <2>6, <2>7 DEF TickInv
<1>6. CASE ~(ticking.interval > 0)
  <2>1. timers' = timers /\ ticking.interval = 0
    BY <1>1, <1>6 DEF Timers
  <2>2. ASSUME NEW t \in fired, t.interval # 0
        PROVE  \E u \in timers' \cup expired \cup {ticking'} : u.id = t.id
    BY <1>3, <2>1, <2>2 DEF TickInv, TickedOnce
  <2>3. TickedOnce'
    BY <1>1, <2>1, <2>2 DEF TickInv, TickedOnce
  <2>4. Whereabouts'
    BY <1>1, <2>1 DEF TickInv, Whereabouts
  <2> QED BY <2>3, <2>4 DEF TickInv
<1> QED BY <1>5, <1>6

\* Every step keeps TickInv; the clocks and poll() touch no timer.
LEMMA TickStep == TickInv /\ [TimersNext]_timerVars => TickInv'
<1> SUFFICES ASSUME TickInv, [TimersNext]_timerVars PROVE TickInv'
  OBVIOUS
<1>0. TimersTypeOK'
  BY TypeStep DEF TickInv
<1>1. ASSUME UNCHANGED <<timers, expired, fired, ticking, added>>,
             pc' = pc \/ (pc' = "loop" /\ pc = "ticking" /\ expired = {})
      PROVE  TickInv'
  BY <1>0, <1>1 DEF TickInv, TickedOnce, Whereabouts
<1>2. CASE Elapse
  BY <1>1, <1>2 DEF Elapse
<1>3. ASSUME NEW time \in 0 .. MaxTime, SetClock(time) PROVE TickInv'
  BY <1>1, <1>3 DEF SetClock
<1>4. ASSUME NEW when \in 0 .. MaxTime, NEW interval \in Intervals, AddTimer(when, interval)
      PROVE  TickInv'
  <2>1. when \in Nat /\ interval \in Nat
    BY UnitsAssumption
  <2> QED BY <1>0, <1>4, <2>1, AddTimerTicks
<1>5. CASE PollTimer
  BY <1>1, <1>5 DEF PollTimer
<1>6. CASE OnTick
  BY <1>0, <1>6, OnTickTicks
<1>7. CASE Tick
  BY <1>0, <1>7, TickTicks
<1>8. CASE TickReturns
  BY <1>0, <1>8, TickReturnsTicks
<1>9. CASE OnTickEnd
  BY <1>1, <1>9 DEF OnTickEnd
<1>10. CASE UNCHANGED timerVars
  BY <1>1, <1>10 DEF timerVars
<1> QED BY <1>2, <1>3, <1>4, <1>5, <1>6, <1>7, <1>8, <1>9, <1>10 DEF TimersNext

\* No timer is lost and none ticks twice, whatever handlers add while OnTick runs
\* and whenever the clock is set (TimerQueue::OnTick, Timer::Tick).
THEOREM TickedOnceTheorem == TimersSpec => []TickedOnce
<1>1. TimersInit => TickInv
  <2> SUFFICES ASSUME TimersInit PROVE TickInv
    OBVIOUS
  <2>1. {t.id : t \in timers \cup expired \cup fired} = 1 .. added
    BY DEF TimersInit
  <2> QED BY <2>1, InitType DEF TimersInit, TickInv, TickedOnce, Whereabouts
<1>2. TickInv => TickedOnce
  BY DEF TickInv
<1> QED BY <1>1, <1>2, TickStep, PTL DEF TimersSpec

=============================================================================
