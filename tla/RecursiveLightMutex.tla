------------------------ MODULE RecursiveLightMutex -------------------------
(***************************************************************************)
(* RecursiveLightMutex (LightweightMutex/light_mutex/                      *)
(* recursive_light_mutex.h): the mutex of LightMutex that its owner may    *)
(* lock again.                                                             *)
(*                                                                         *)
(* lock and try_lock read owner_tid_ without a guard while another thread  *)
(* may write it.  A thread only compares it with its own id, which nobody  *)
(* else writes, so any value another thread has written or is writing      *)
(* answers alike and the read is modelled as a read of the variable.       *)
(***************************************************************************)
EXTENDS Naturals, FiniteSets

CONSTANTS
    Threads,
    NoThread,    \* the owner_tid_ 0
    MaxDepth     \* bound: how often a thread holds the mutex at once

ConstantsAssumption ==
    IsFiniteSet(Threads) /\ NoThread \notin Threads /\ MaxDepth \in Nat \ {0}

VARIABLES
    use_count_,
    owner_tid_,
    recursion_count_,
    sem_,        \* count of the semaphore, at most 1
    pc,          \* where every thread is; "user" is outside the mutex's code
    depth,       \* how many lock or try_lock a thread has not yet undone
    new_recur,   \* the local of unlock
    asserted,    \* FALSE once the assert of unlock has failed
    dropped      \* TRUE once ReleaseSemaphore has failed at the maximal count

vars == <<use_count_, owner_tid_, recursion_count_, sem_, pc, depth, new_recur,
          asserted, dropped>>

Init ==
    /\ use_count_ = 0
    /\ owner_tid_ = NoThread
    /\ recursion_count_ = 0
    /\ sem_ = 0
    /\ pc = [t \in Threads |-> "user"]
    /\ depth = [t \in Threads |-> 0]
    /\ new_recur = [t \in Threads |-> 0]
    /\ asserted = TRUE
    /\ dropped = FALSE

-----------------------------------------------------------------------------

Goto(t, from, to) == pc[t] = from /\ pc' = [pc EXCEPT ![t] = to]

\* lock: the counter goes up ...
Lock(t) ==
    /\ depth[t] < MaxDepth
    /\ Goto(t, "user", IF use_count_ > 0 THEN "compare" ELSE "gained")
    /\ use_count_' = use_count_ + 1
    /\ UNCHANGED <<owner_tid_, recursion_count_, sem_, depth, new_recur, asserted, dropped>>

\* Mistake: a thread waits for itself.
CompareOwnerAlwaysWaits(t) ==
    /\ Goto(t, "compare", "wait")
    /\ UNCHANGED <<use_count_, owner_tid_, recursion_count_, sem_, depth, new_recur, asserted,
                   dropped>>

\* ... all but the owner wait ...
CompareOwner(t) ==
    /\ Goto(t, "compare", IF owner_tid_ = t THEN "gained" ELSE "wait")
    /\ UNCHANGED <<use_count_, owner_tid_, recursion_count_, sem_, depth, new_recur, asserted,
                   dropped>>

\* ... until WaitForSingleObject returns (external) ...
Wake(t) ==
    /\ sem_ > 0
    /\ Goto(t, "wait", "gained")
    /\ sem_' = sem_ - 1
    /\ UNCHANGED <<use_count_, owner_tid_, recursion_count_, depth, new_recur, asserted, dropped>>

\* ... and the owner is set; try_lock goes the same way once it has the mutex ...
SetOwner(t) ==
    /\ Goto(t, "gained", "owner")
    /\ owner_tid_' = t
    /\ UNCHANGED <<use_count_, recursion_count_, sem_, depth, new_recur, asserted, dropped>>

\* ... and counts.
CountUp(t) ==
    /\ Goto(t, "owner", "user")
    /\ recursion_count_' = recursion_count_ + 1
    /\ depth' = [depth EXCEPT ![t] = @ + 1]
    /\ UNCHANGED <<use_count_, owner_tid_, sem_, new_recur, asserted, dropped>>

\* try_lock: the owner is compared first ...
TryLock(t) ==
    /\ depth[t] < MaxDepth
    /\ Goto(t, "user", IF owner_tid_ = t THEN "again" ELSE "try")
    /\ UNCHANGED <<use_count_, owner_tid_, recursion_count_, sem_, depth, new_recur, asserted,
                   dropped>>

\* Mistake: the owner's try_lock counts only the recursion.
TryAgainUncounted(t) ==
    /\ Goto(t, "again", "owner")
    /\ UNCHANGED <<use_count_, owner_tid_, recursion_count_, sem_, depth, new_recur, asserted,
                   dropped>>

\* ... who only counts ...
TryAgain(t) ==
    /\ Goto(t, "again", "owner")
    /\ use_count_' = use_count_ + 1
    /\ UNCHANGED <<owner_tid_, recursion_count_, sem_, depth, new_recur, asserted, dropped>>

\* ... while another thread compares and exchanges, and may fail.
TryExchange(t) ==
    /\ IF use_count_ = 0
       THEN Goto(t, "try", "gained") /\ use_count_' = 1
       ELSE Goto(t, "try", "user") /\ UNCHANGED use_count_
    /\ UNCHANGED <<owner_tid_, recursion_count_, sem_, depth, new_recur, asserted, dropped>>

\* Mistake: the owner is kept until somebody else takes the mutex.
UnlockKeepsOwner(t) ==
    /\ depth[t] > 0
    /\ Goto(t, "user", "leaving")
    /\ asserted' = (asserted /\ owner_tid_ = t)
    /\ recursion_count_' = recursion_count_ - 1
    /\ new_recur' = [new_recur EXCEPT ![t] = recursion_count_']
    /\ depth' = [depth EXCEPT ![t] = @ - 1]
    /\ UNCHANGED <<use_count_, owner_tid_, sem_, dropped>>

\* unlock by a thread that holds the mutex: the assert, and the thread counts
\* down ...
Unlock(t) ==
    /\ depth[t] > 0
    /\ Goto(t, "user", IF recursion_count_ = 1 THEN "clear" ELSE "leaving")
    /\ asserted' = (asserted /\ owner_tid_ = t)
    /\ recursion_count_' = recursion_count_ - 1
    /\ new_recur' = [new_recur EXCEPT ![t] = recursion_count_']
    /\ depth' = [depth EXCEPT ![t] = @ - 1]
    /\ UNCHANGED <<use_count_, owner_tid_, sem_, dropped>>

\* ... the last time clears the owner ...
ClearOwner(t) ==
    /\ Goto(t, "clear", "leaving")
    /\ owner_tid_' = NoThread
    /\ UNCHANGED <<use_count_, recursion_count_, sem_, depth, new_recur, asserted, dropped>>

\* Mistake: an inner unlock releases the semaphore too.
LeaveInner(t) ==
    /\ Goto(t, "leaving", IF use_count_ > 1 THEN "release" ELSE "user")
    /\ use_count_' = use_count_ - 1
    /\ new_recur' = [new_recur EXCEPT ![t] = 0]
    /\ UNCHANGED <<owner_tid_, recursion_count_, sem_, depth, asserted, dropped>>

\* ... use_count_ goes down ...
Leave(t) ==
    /\ Goto(t, "leaving",
            IF use_count_ > 1 /\ new_recur[t] = 0 THEN "release" ELSE "user")
    /\ use_count_' = use_count_ - 1
    /\ new_recur' = [new_recur EXCEPT ![t] = 0]
    /\ UNCHANGED <<owner_tid_, recursion_count_, sem_, depth, asserted, dropped>>

\* ... and ReleaseSemaphore, which does nothing at the maximal count, lets a
\* waiting thread go.
Release(t) ==
    /\ Goto(t, "release", "user")
    /\ IF sem_ = 0
       THEN sem_' = 1 /\ UNCHANGED dropped
       ELSE dropped' = TRUE /\ UNCHANGED sem_
    /\ UNCHANGED <<use_count_, owner_tid_, recursion_count_, depth, new_recur, asserted>>

\* The steps a thread takes on its own, once it is in the mutex's code or has
\* the mutex.
Step(t) ==
    CompareOwner(t) \/ SetOwner(t) \/ CountUp(t) \/ TryAgain(t) \/ TryExchange(t)
    \/ Unlock(t) \/ ClearOwner(t) \/ Leave(t) \/ Release(t)

Next == \E t \in Threads : Lock(t) \/ TryLock(t) \/ Wake(t) \/ Step(t)

Spec == Init /\ [][Next]_vars

\* Threads keep running, a thread that has the mutex gives back every lock it
\* took in the end however often it locks again in between (at MaxDepth it has
\* nothing else to do), and a thread that waits on a semaphore that is released
\* again and again is let go in the end.  Nobody has to lock.
UnlockAt(t, d) == depth[t] = d /\ Unlock(t)

Fairness ==
    \A t \in Threads :
        /\ WF_vars(Step(t)) /\ SF_vars(Wake(t))
        /\ \A d \in 1 .. MaxDepth - 1 : SF_vars(UnlockAt(t, d))

FairSpec == Spec /\ Fairness

-----------------------------------------------------------------------------
(* Properties.                                                             *)

\* Threads between the step that gains the mutex and the one that gives it up.
Owning == {t \in Threads : depth[t] > 0 \/
    pc[t] \in {"gained", "owner", "again", "clear", "leaving"}}
Releasing == {t \in Threads : pc[t] = "release"}

\* Every variable has its type.
TypeOK ==
    /\ use_count_ \in Nat
    /\ owner_tid_ \in Threads \cup {NoThread}
    /\ recursion_count_ \in 0..MaxDepth
    /\ sem_ \in {0, 1}
    /\ pc \in [Threads -> {"user", "compare", "wait", "gained", "owner", "again", "try",
                           "clear", "leaving", "release"}]
    /\ depth \in [Threads -> 0..MaxDepth]
    /\ new_recur \in [Threads -> 0..MaxDepth]
    /\ asserted \in BOOLEAN
    /\ dropped \in BOOLEAN

\* No two threads have the mutex at once, although the owner passes lock and
\* try_lock without waiting, and unlock's assert(owner_tid_ == tid) holds.
OneOwner ==
    /\ \A t, u \in Owning : t = u
    /\ asserted

\* recursion_count_ counts the locks the owner holds, and use_count_ these and
\* every lock that is waited for or on its way in or out; so the next unlock sees
\* what its decision to release the semaphore needs.
CountsAgree ==
    /\ TypeOK
    /\ \A t \in Owning : depth[t] = recursion_count_
    /\ Owning = {} => recursion_count_ = 0
    /\ use_count_ = recursion_count_ +
          Cardinality({t \in Threads :
              pc[t] \in {"compare", "wait", "gained", "owner", "clear", "leaving"}})

\* As long as the mutex is used, the right to go on is in one place: with the
\* owner, with a thread about to release the semaphore, or in the semaphore.
\* So no wakeup is lost, an inner unlock lets nobody in, and ReleaseSemaphore
\* never meets the maximal count.
OneToken ==
    /\ Cardinality(Owning) + Cardinality(Releasing) + sem_ =
          IF use_count_ > 0 THEN 1 ELSE 0
    /\ ~dropped

\* A thread that waits gets the mutex.
WaiterLocks == \A t \in Threads : pc[t] = "wait" ~> depth[t] > 0

=============================================================================
