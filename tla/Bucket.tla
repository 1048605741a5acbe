------------------------------- MODULE Bucket -------------------------------
(***************************************************************************)
(* Bucket (token-bucket-rate-limit/ratelimit/bucket_limiter.{h,cpp}): a    *)
(* bucket that holds up to capacity_ tokens, gets quantum_ of them every   *)
(* tick, and lends tokens to threads that wait for them.                   *)
(*                                                                         *)
(* A thread reads the clock before it takes mtx_, so it may come in with a *)
(* tick that is behind.  The assert that it is not is recorded, and the    *)
(* code goes on as a release build does.  start_time_ is 0.  The clock is  *)
(* the system's; that somebody sets it back is left out, which would only  *)
(* put off the next tick.                                                  *)
(***************************************************************************)
EXTENDS Integers, FiniteSetsExt

CONSTANTS
    Threads,
    capacity_,
    quantum_,
    fill_tick_,      \* units of time in a tick
    Counts,          \* the numbers of tokens that are asked for
    MaxTime          \* bound: the clock

\* What the constructor checks, and a tick that is not 0.
BucketAssumption ==
    /\ capacity_ \in Nat \ {0}
    /\ quantum_ \in 1 .. capacity_
    /\ fill_tick_ \in Nat \ {0}
    /\ Counts \subseteq Nat \ {0}

VARIABLES
    available_,
    latest_tick_,
    pc,              \* where every thread is
    count,           \* what it has asked for
    tick,            \* ticks_since_start, as it has read it
    until,           \* when its sleep is over
    now,             \* the clock (external)
    granted,         \* history: the tokens of calls that have returned
    asserted         \* FALSE once the assert of AdjustAvailableTokens has failed

vars == <<available_, latest_tick_, pc, count, tick, until, now, granted, asserted>>

Init ==
    /\ available_ = capacity_
    /\ latest_tick_ = 0
    /\ pc = [t \in Threads |-> "idle"]
    /\ count = [t \in Threads |-> 0]
    /\ tick = [t \in Threads |-> 0]
    /\ until = [t \in Threads |-> 0]
    /\ now = 0
    /\ granted = 0
    /\ asserted = TRUE

-----------------------------------------------------------------------------

\* Take and TakeAvailable, of a positive number, read the clock ...
Call(t, op, n) ==
    /\ pc[t] = "idle"
    /\ pc' = [pc EXCEPT ![t] = op]
    /\ count' = [count EXCEPT ![t] = n]
    /\ tick' = [tick EXCEPT ![t] = now \div fill_tick_]
    /\ UNCHANGED <<available_, latest_tick_, until, now, granted, asserted>>

\* Mistake: a tick that is behind leaves the tokens and sets latest_tick_ back.
AdjustedForward(current) ==
    Min({available_ + Max({current - latest_tick_, 0}) * quantum_, capacity_})

\* available_ after AdjustAvailableTokens.  A tick that is behind takes tokens
\* away, and the next one gives them back.
Adjusted(current) ==
    IF available_ >= capacity_ THEN available_
    ELSE Min({available_ + (current - latest_tick_) * quantum_, capacity_})

AdjustAvailableTokens(t) ==
    /\ asserted' = (asserted /\ tick[t] >= latest_tick_)
    /\ latest_tick_' = tick[t]

\* Mistake: the division rounds down.
WaitTicksDown(missing) == missing \div quantum_

\* The ticks it takes to fill the missing tokens.
WaitTicks(missing) == (missing + quantum_ - 1) \div quantum_

\* ... DoTake takes what was asked for, the missing tokens in advance, and Wait
\* sleeps until they are filled ...
DoTake(t) ==
    /\ pc[t] = "Wait"
    /\ AdjustAvailableTokens(t)
    /\ available_' = Adjusted(tick[t]) - count[t]
    /\ until' = [until EXCEPT ![t] =
                    IF available_' >= 0 THEN now
                    ELSE now + WaitTicks(-available_') * fill_tick_]
    /\ pc' = [pc EXCEPT ![t] = "sleep"]
    /\ tick' = [tick EXCEPT ![t] = 0]
    /\ UNCHANGED <<count, now, granted>>

\* ... while DoTakeAvailable takes what there is.
DoTakeAvailable(t) ==
    /\ pc[t] = "TakeAvailable"
    /\ AdjustAvailableTokens(t)
    /\ LET taken == Max({Min({count[t], Adjusted(tick[t])}), 0}) IN
       /\ available_' = Adjusted(tick[t]) - taken
       /\ granted' = granted + taken
    /\ pc' = [pc EXCEPT ![t] = "idle"]
    /\ tick' = [tick EXCEPT ![t] = 0]
    /\ count' = [count EXCEPT ![t] = 0]
    /\ UNCHANGED <<until, now>>

\* Wait returns once sleep_for is over.
Wake(t) ==
    /\ pc[t] = "sleep"
    /\ now >= until[t]
    /\ granted' = granted + count[t]
    /\ pc' = [pc EXCEPT ![t] = "idle"]
    /\ count' = [count EXCEPT ![t] = 0]
    /\ until' = [until EXCEPT ![t] = 0]
    /\ UNCHANGED <<available_, latest_tick_, tick, now, asserted>>

\* Time passes (external).
Tick ==
    /\ now < MaxTime
    /\ now' = now + 1
    /\ UNCHANGED <<available_, latest_tick_, pc, count, tick, until, granted, asserted>>

Next ==
    \/ \E t \in Threads :
          \/ \E op \in {"Wait", "TakeAvailable"}, n \in Counts : Call(t, op, n)
          \/ DoTake(t) \/ DoTakeAvailable(t) \/ Wake(t)
    \/ Tick

Spec == Init /\ [][Next]_vars

-----------------------------------------------------------------------------
(* Properties.                                                             *)

TypeOK ==
    /\ available_ \in Int
    /\ latest_tick_ \in Nat
    /\ pc \in [Threads -> {"idle", "Wait", "TakeAvailable", "sleep"}]
    /\ count \in [Threads -> Counts \cup {0}]
    /\ tick \in [Threads -> Nat]
    /\ until \in [Threads -> Nat]
    /\ now \in Nat
    /\ granted \in Nat
    /\ asserted \in BOOLEAN

Sleeping == {t \in Threads : pc[t] = "sleep"}

\* Of the tokens of the time up to latest_tick_, all that were handed out or lent
\* are gone from available_: none is filled twice, though threads come in with
\* ticks in any order.
TokensConserved ==
    /\ TypeOK
    /\ available_ <= capacity_
    /\ granted + available_ + MapThenSumSet(LAMBDA t : count[t], Sleeping)
          <= capacity_ + latest_tick_ * quantum_

\* The rate is kept: the tokens of all calls that have returned are never more
\* than the bucket held at first and was filled with since.  So nobody wakes up
\* before the tokens lent to it were filled.
RateKept == granted <= capacity_ + (now \div fill_tick_) * quantum_

\* assert(current_tick >= latest_tick_)
AssertHolds == asserted

=============================================================================
