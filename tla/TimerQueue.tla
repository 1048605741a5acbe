----------------------------- MODULE TimerQueue ------------------------------
(***************************************************************************)
(* The timers of NetworkInfra's EventLoop (timer_queue.{h,cpp},            *)
(* timer.{h,cpp}): a multimap of timers by the wall-clock time at which    *)
(* they expire, and one timerfd that runs on the monotonic clock.  The     *)
(* wall clock may be set while the loop runs; the timerfd does not notice. *)
(*                                                                         *)
(* Time passes in ticks of the wall clock, Micro of them in a microsecond, *)
(* the unit to which the duration given to the timerfd is cut.             *)
(***************************************************************************)
EXTENDS Integers, FiniteSets

CONSTANTS
    Micro,        \* ticks in a microsecond
    MinDuration,  \* kMinDuration, in ticks
    Intervals,    \* intervals of timers, in ticks; 0 is a timer that does not repeat
    MaxTime,      \* bound: the wall clock
    MaxTimers,    \* bound: AddTimer calls
    MaxJumps      \* bound: how often the wall clock is set

ASSUME UnitsAssumption ==
    /\ Micro \in Nat \ {0}
    /\ MinDuration \in Nat \ {0}
    /\ Intervals \subseteq Nat
    /\ MaxTime \in Nat

VARIABLES
    now,         \* system_clock::now()
    timers,      \* TimerQueue::timers_
    left,        \* ticks until the timerfd expires, or Off
    readable,    \* the timerfd has expired and not been read
    reported,    \* poll() has returned the timer channel, OnTick is to be called
    pc,          \* "loop", or inside OnTick: "ticking", "in_tick"
    sentry,      \* OnTick's sentry
    expired,     \* OnTick's expired, still to tick
    ticking,     \* the timer whose handler is running
    added,       \* number of AddTimer calls
    fired,       \* history: the timers whose handler has been called
    ensured,     \* FALSE once an ENSURE has failed and ended the loop
    jumps,       \* how often the wall clock was set
    skipped      \* how many ticks it was set forward, in all

timerVars == <<now, timers, left, readable, reported, pc, sentry, expired, ticking,
               added, fired, ensured, jumps, skipped>>

Off == -1

Nobody == [id |-> 0, when |-> 0, interval |-> 0]

TimersInit ==
    /\ now = 0
    /\ timers = {}
    /\ left = Off
    /\ readable = FALSE
    /\ reported = FALSE
    /\ pc = "loop"
    /\ sentry = 0
    /\ expired = {}
    /\ ticking = Nobody
    /\ added = 0
    /\ fired = {}
    /\ ensured = TRUE
    /\ jumps = 0
    /\ skipped = 0

\* timers_.begin()->first.
Earliest(ts) ==
    CHOOSE w \in {t.when : t \in ts} : \A t \in ts : w <= t.when

-----------------------------------------------------------------------------
(* The clocks (external).                                                  *)

\* A tick of both clocks; the timerfd expires when its time is up.
Elapse ==
    /\ now < MaxTime
    /\ now' = now + 1
    /\ left' = IF left \in {Off, 1} THEN Off ELSE left - 1
    /\ readable' = (readable \/ left = 1)
    /\ UNCHANGED <<timers, reported, pc, sentry, expired, ticking, added, fired,
                   ensured, jumps, skipped>>

\* Somebody sets the wall clock.
SetClock(time) ==
    /\ jumps < MaxJumps
    /\ time # now
    /\ now' = time
    /\ jumps' = jumps + 1
    /\ skipped' = IF time > now THEN skipped + (time - now) ELSE skipped
    /\ UNCHANGED <<timers, left, readable, reported, pc, sentry, expired,
                   ticking, added, fired, ensured>>

-----------------------------------------------------------------------------

\* Mistake: durations are not raised to kMinDuration.
NoMinDuration(d) == d

\* ConvertDurationToTimespec.
ConvertDurationToTimespec(d) == IF d < MinDuration THEN MinDuration ELSE d

\* ResetTimerFD and timerfd_settime, which forgets an unread expiration and takes
\* a zero for an order to disarm.
ResetTimerFD(expiration) ==
    LET duration == IF expiration < now
                    THEN -(((now - expiration) \div Micro) * Micro)
                    ELSE ((expiration - now) \div Micro) * Micro
        spec == ConvertDurationToTimespec(duration)
    IN  /\ left' = IF spec = 0 THEN Off ELSE spec
        /\ readable' = FALSE

\* Insert's answer: the new timer is the earliest.
EarliestChanged(when) == timers = {} \/ when < Earliest(timers)

\* Mistake: a timer that is due before all others does not move the timerfd.
AddTimerKeepFD(when, interval) ==
    /\ ensured
    /\ pc \in {"loop", "in_tick"}
    /\ added < MaxTimers
    /\ added' = added + 1
    /\ timers' = timers \cup {[id |-> added + 1, when |-> when, interval |-> interval]}
    /\ IF timers = {}
       THEN ResetTimerFD(when)
       ELSE UNCHANGED <<left, readable>>
    /\ UNCHANGED <<now, reported, pc, sentry, expired, ticking, fired, ensured,
                   jumps, skipped>>

\* AddTimer, from a handler of the loop, a pending task or a timer's handler.
AddTimer(when, interval) ==
    /\ ensured
    /\ pc \in {"loop", "in_tick"}
    /\ added < MaxTimers
    /\ added' = added + 1
    /\ timers' = timers \cup {[id |-> added + 1, when |-> when, interval |-> interval]}
    /\ IF EarliestChanged(when)
       THEN ResetTimerFD(when)
       ELSE UNCHANGED <<left, readable>>
    /\ UNCHANGED <<now, reported, pc, sentry, expired, ticking, fired, ensured,
                   jumps, skipped>>

\* poll() reports timer_channel_; handlers of other channels may come first.
PollTimer ==
    /\ ensured
    /\ pc = "loop"
    /\ readable
    /\ ~reported
    /\ reported' = TRUE
    /\ UNCHANGED <<now, timers, left, readable, pc, sentry, expired, ticking,
                   added, fired, ensured, jumps, skipped>>

\* lower_bound(sentry): the timers before it are the ones that have expired.
Expired(s) == {t \in timers : t.when < s}

\* OnTick up to ExtractExpired: the timerfd is read, or turns out not to be
\* readable any more.  The ENSURE fails on a timer due at the sentry itself,
\* which lower_bound does not pass.
OnTick ==
    /\ ensured
    /\ pc = "loop"
    /\ reported
    /\ reported' = FALSE
    /\ sentry' = now
    /\ readable' = FALSE
    /\ IF \E t \in timers : t.when = now
       THEN /\ ensured' = FALSE
            /\ UNCHANGED <<timers, expired, pc>>
       ELSE /\ expired' = Expired(now)
            /\ timers' = timers \ Expired(now)
            /\ pc' = "ticking"
            /\ UNCHANGED ensured
    /\ UNCHANGED <<now, left, ticking, added, fired, jumps, skipped>>

\* Timer::Tick of the next expired timer: its handler runs.
Tick ==
    /\ pc = "ticking"
    /\ \E t \in expired :
          /\ t.when = Earliest(expired)
          /\ expired' = expired \ {t}
          /\ ticking' = t
          /\ fired' = fired \cup {t}
    /\ pc' = "in_tick"
    /\ UNCHANGED <<now, timers, left, readable, reported, sentry, added, ensured,
                   jumps, skipped>>

\* Mistake: every timer is put back.
TickReturnsAll ==
    /\ pc = "in_tick"
    /\ timers' = timers \cup {[ticking EXCEPT !.when = sentry + ticking.interval]}
    /\ ticking' = Nobody
    /\ pc' = "ticking"
    /\ UNCHANGED <<now, left, readable, reported, sentry, expired, added, fired,
                   ensured, jumps, skipped>>

\* The handler returns; a repeating timer restarts from the sentry.
TickReturns ==
    /\ pc = "in_tick"
    /\ timers' = IF ticking.interval > 0
                 THEN timers \cup {[ticking EXCEPT !.when = sentry + ticking.interval]}
                 ELSE timers
    /\ ticking' = Nobody
    /\ pc' = "ticking"
    /\ UNCHANGED <<now, left, readable, reported, sentry, expired, added, fired,
                   ensured, jumps, skipped>>

\* The end of OnTick.
OnTickEnd ==
    /\ pc = "ticking"
    /\ expired = {}
    /\ pc' = "loop"
    /\ IF timers # {}
       THEN ResetTimerFD(Earliest(timers))
       ELSE UNCHANGED <<left, readable>>
    /\ UNCHANGED <<now, timers, reported, sentry, expired, ticking, added, fired,
                   ensured, jumps, skipped>>

TimersNext ==
    \/ Elapse
    \/ \E time \in 0 .. MaxTime : SetClock(time)
    \/ \E when \in 0 .. MaxTime, interval \in Intervals : AddTimer(when, interval)
    \/ PollTimer
    \/ OnTick
    \/ Tick
    \/ TickReturns
    \/ OnTickEnd

TimersSpec == TimersInit /\ [][TimersNext]_timerVars

-----------------------------------------------------------------------------
(* Properties.                                                             *)

Timers == [id : Nat, when : Nat, interval : Nat]

\* Every variable has its type: the members of TimerQueue and Timer.
TimersTypeOK ==
    /\ now \in Nat
    /\ timers \subseteq Timers
    /\ left \in (Nat \ {0}) \cup {Off}
    /\ readable \in BOOLEAN
    /\ reported \in BOOLEAN
    /\ pc \in {"loop", "ticking", "in_tick"}
    /\ sentry \in Nat
    /\ expired \subseteq Timers
    /\ ticking \in Timers
    /\ added \in Nat
    /\ fired \subseteq Timers
    /\ ensured \in BOOLEAN
    /\ jumps \in Nat
    /\ skipped \in Nat

\* Outside OnTick, a queue with timers in it is watched: the timerfd is running,
\* or it has expired and OnTick is to come.  A spurious expiration (the duration
\* was cut to a microsecond, the wall clock was set back) never loses a timer.
TimersWatched ==
    /\ TimersTypeOK
    /\ pc = "loop" /\ ensured /\ timers # {} => left # Off \/ readable \/ reported

\* The timerfd never sleeps past the earliest timer by more than kMinDuration,
\* whatever AddTimer and OnTick did before, except for what the wall clock was
\* set forward: the timerfd runs on the monotonic clock.
Punctual ==
    pc = "loop" /\ timers # {} /\ left # Off =>
        \/ left <= MinDuration + skipped
        \/ left <= Earliest(timers) - now + skipped

\* No timer is lost and none ticks twice.  One that does not repeat is in
\* timers_, is about to tick or has ticked, and only one of these; one that
\* repeats is always in timers_ or with OnTick.
TickedOnce ==
    /\ {t.id : t \in timers \cup expired \cup fired} = 1 .. added
    /\ \A t, u \in timers \cup expired \cup fired :
          t.id = u.id /\ t.interval = 0 => t = u
    /\ \A t \in fired :
          IF t.interval = 0
          THEN t \notin timers \cup expired
          ELSE \E u \in timers \cup expired \cup {ticking} : u.id = t.id

\* ExtractExpired's ENSURE(end == timers_.end() || sentry_time < end->first).
EnsureHolds == ensured

=============================================================================
