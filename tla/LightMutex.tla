----------------------------- MODULE LightMutex ------------------------------
(***************************************************************************)
(* LightMutex (LightweightMutex/light_mutex/light_mutex.h): a mutex made   *)
(* of an interlocked counter of its users and a semaphore of maximal count *)
(* 1 on which all but the first of them wait.                              *)
(*                                                                         *)
(* Every interlocked operation, every call on the semaphore and every      *)
(* access to owner_tid_ is a step of its own.                              *)
(***************************************************************************)
EXTENDS Naturals, FiniteSets

CONSTANTS
    Threads,
    NoThread    \* the owner_tid_ 0

ThreadsAssumption == IsFiniteSet(Threads) /\ NoThread \notin Threads

VARIABLES
    use_count_,
    owner_tid_,
    sem_,        \* count of the semaphore
    pc,          \* where every thread is
    dropped      \* TRUE once ReleaseSemaphore has failed at the maximal count

vars == <<use_count_, owner_tid_, sem_, pc, dropped>>

Init ==
    /\ use_count_ = 0
    /\ owner_tid_ = NoThread
    /\ sem_ = 0
    /\ pc = [t \in Threads |-> "idle"]
    /\ dropped = FALSE

-----------------------------------------------------------------------------

\* lock: the counter goes up ...
Lock(t) ==
    /\ pc[t] = "idle"
    /\ use_count_' = use_count_ + 1
    /\ pc' = [pc EXCEPT ![t] = IF use_count_ > 0 THEN "wait" ELSE "locked"]
    /\ UNCHANGED <<owner_tid_, sem_, dropped>>

\* ... WaitForSingleObject returns (external) ...
Wake(t) ==
    /\ pc[t] = "wait"
    /\ sem_ > 0
    /\ sem_' = sem_ - 1
    /\ pc' = [pc EXCEPT ![t] = "locked"]
    /\ UNCHANGED <<use_count_, owner_tid_, dropped>>

\* ... and the owner is set.
SetOwner(t) ==
    /\ pc[t] = "locked"
    /\ owner_tid_' = t
    /\ pc' = [pc EXCEPT ![t] = "in"]
    /\ UNCHANGED <<use_count_, sem_, dropped>>

\* try_lock when it succeeds, which leaves owner_tid_ alone.
TryLock(t) ==
    /\ pc[t] = "idle"
    /\ use_count_ = 0
    /\ use_count_' = 1
    /\ pc' = [pc EXCEPT ![t] = "tried"]
    /\ UNCHANGED <<owner_tid_, sem_, dropped>>

\* unlock: the owner is cleared (for the assert before it see AssertHolds) ...
Unlock(t) ==
    /\ pc[t] \in {"in", "tried"}
    /\ owner_tid_' = NoThread
    /\ pc' = [pc EXCEPT ![t] = "leaving"]
    /\ UNCHANGED <<use_count_, sem_, dropped>>

\* Mistake: the semaphore is released although nobody else has come.
LeaveReleasing(t) ==
    /\ pc[t] = "leaving"
    /\ use_count_' = use_count_ - 1
    /\ pc' = [pc EXCEPT ![t] = IF use_count_ > 0 THEN "release" ELSE "idle"]
    /\ UNCHANGED <<owner_tid_, sem_, dropped>>

\* Mistake: the semaphore is released only if two others have come.
LeaveForgetting(t) ==
    /\ pc[t] = "leaving"
    /\ use_count_' = use_count_ - 1
    /\ pc' = [pc EXCEPT ![t] = IF use_count_ > 2 THEN "release" ELSE "idle"]
    /\ UNCHANGED <<owner_tid_, sem_, dropped>>

\* ... the counter goes down ...
Leave(t) ==
    /\ pc[t] = "leaving"
    /\ use_count_' = use_count_ - 1
    /\ pc' = [pc EXCEPT ![t] = IF use_count_ > 1 THEN "release" ELSE "idle"]
    /\ UNCHANGED <<owner_tid_, sem_, dropped>>

\* ... and ReleaseSemaphore, which does nothing at the maximal count, lets a
\* waiting thread go.
Release(t) ==
    /\ pc[t] = "release"
    /\ IF sem_ = 0
       THEN sem_' = 1 /\ UNCHANGED dropped
       ELSE dropped' = TRUE /\ UNCHANGED sem_
    /\ pc' = [pc EXCEPT ![t] = "idle"]
    /\ UNCHANGED <<use_count_, owner_tid_>>

Step(t) == SetOwner(t) \/ Unlock(t) \/ Leave(t) \/ Release(t)

Next == \E t \in Threads : Lock(t) \/ TryLock(t) \/ Wake(t) \/ Step(t)

Spec == Init /\ [][Next]_vars

\* Threads keep running and unlock what they have locked, and a thread that
\* waits on a semaphore that is released again and again is let go in the end.
\* Nobody has to lock.
Fairness == \A t \in Threads : WF_vars(Step(t)) /\ SF_vars(Wake(t))

FairSpec == Spec /\ Fairness

-----------------------------------------------------------------------------
(* Properties.                                                             *)

Owning == {t \in Threads : pc[t] \in {"locked", "in", "tried", "leaving"}}
Waiting == {t \in Threads : pc[t] = "wait"}
Releasing == {t \in Threads : pc[t] = "release"}

\* Every variable has its type.
TypeOK ==
    /\ use_count_ \in Nat
    /\ owner_tid_ \in Threads \cup {NoThread}
    /\ sem_ \in {0, 1}
    /\ pc \in [Threads -> {"idle", "wait", "locked", "in", "tried", "leaving", "release"}]
    /\ dropped \in BOOLEAN

\* No two threads are between lock, or try_lock, and the end of unlock.
MutualExclusion == \A t, u \in Owning : t = u

\* The right to go on is somewhere, and only in one place, as long as the mutex
\* is used: with the owner, with a thread about to release the semaphore, or in
\* the semaphore, in which case there is somebody to take it.  So no wakeup is
\* lost and ReleaseSemaphore never meets the maximal count.
OneToken ==
    /\ TypeOK
    /\ use_count_ = Cardinality(Owning) + Cardinality(Waiting)
    /\ Cardinality(Owning) + Cardinality(Releasing) + sem_ =
          IF use_count_ > 0 THEN 1 ELSE 0
    /\ ~dropped

\* A thread that waits gets the mutex.
WaiterLocks == \A t \in Threads : pc[t] = "wait" ~> pc[t] = "in"

\* A thread that came by lock is the recorded owner until it unlocks, whatever the
\* others do.
OwnerKnown == \A t \in Threads : pc[t] = "in" => owner_tid_ = t

\* unlock's assert(owner_tid_ == GetCurrentThreadId()).  A thread that came by
\* try_lock refutes it.
AssertHolds == \A t \in Threads : pc[t] \in {"in", "tried"} => owner_tid_ = t

=============================================================================
