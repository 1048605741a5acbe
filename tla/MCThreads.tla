----------------------------- MODULE MCThreads ------------------------------
(***************************************************************************)
(* Four components that threads meet in and wait for each other: the       *)
(* mutexes of LightweightMutex, the two locks of TLQueue and the queue of  *)
(* TinyThreadPool, for one model-checking run.  They do not interact: at   *)
(* says whose behaviour it is, and the variables of the others keep a      *)
(* value of no meaning.  Components share the variables that have the same *)
(* name.                                                                   *)
(***************************************************************************)
EXTENDS Naturals

CONSTANTS
    Threads,
    More,        \* threads that only LightMutex has
    NoThread,
    Nodes, nullptr,
    Clients,
    MaxDepth, MaxTasks

VARIABLES
    at,
    pc,
    use_count_, owner_tid_, sem_, dropped,
    recursion_count_, depth, new_recur, asserted,
    head_, tail_, next, live, mine,
    running_, task_queue_, pool, doing, notifying, tasks, ended

mutexVars == <<use_count_, owner_tid_, sem_, dropped>>
recursiveVars == <<recursion_count_, depth, new_recur, asserted>>
queueVars == <<head_, tail_, next, live, mine>>
poolVars == <<running_, task_queue_, pool, doing, notifying, tasks, ended>>
vars == <<at, pc, mutexVars, recursiveVars, queueVars, poolVars>>

L == INSTANCE LightMutex WITH Threads <- Threads \cup More
R == INSTANCE RecursiveLightMutex
Q == INSTANCE TLQueue
P == INSTANCE TinyThreadPool WITH Workers <- Threads

ASSUME ThreadsAssumption ==
    /\ L!ThreadsAssumption /\ R!ConstantsAssumption
    /\ Q!QueueAssumption /\ P!PoolAssumption

NoMutex == use_count_ = 0 /\ owner_tid_ = 0 /\ sem_ = 0 /\ dropped = 0
NoRecursion == recursion_count_ = 0 /\ depth = 0 /\ new_recur = 0 /\ asserted = 0
NoQueue == head_ = 0 /\ tail_ = 0 /\ next = 0 /\ live = 0 /\ mine = 0
NoPool ==
    /\ running_ = 0 /\ task_queue_ = 0 /\ pool = 0 /\ doing = 0 /\ notifying = 0
    /\ tasks = 0 /\ ended = 0

Init ==
    \/ at = "light" /\ L!Init /\ NoRecursion /\ NoQueue /\ NoPool
    \/ at = "recursive" /\ R!Init /\ NoQueue /\ NoPool
    \/ at = "queue" /\ Q!Init /\ NoMutex /\ NoRecursion /\ NoPool
    \/ at = "pool" /\ P!Init /\ NoMutex /\ NoRecursion /\ NoQueue

\* A pool that was destroyed is the only thing here that may stop.
Stopped == at = "pool" /\ pool = "destroyed" /\ UNCHANGED vars

\* A step of one of the components.
Light(A) == at = "light" /\ A /\ UNCHANGED <<at, recursiveVars, queueVars, poolVars>>
Recursive(A) == at = "recursive" /\ A /\ UNCHANGED <<at, queueVars, poolVars>>
Queue(A) == at = "queue" /\ A /\ UNCHANGED <<at, mutexVars, recursiveVars, poolVars>>
Pool(A) == at = "pool" /\ A /\ UNCHANGED <<at, mutexVars, recursiveVars, queueVars>>

Next == Light(L!Next) \/ Recursive(R!Next) \/ Queue(Q!Next) \/ Pool(P!Next) \/ Stopped

\* The fairness of each component, of its own behaviours only: at never changes,
\* so fairness of the one or the other is fairness of the one there is.
Fairness ==
    /\ \A t \in Threads :
          /\ WF_vars(Light(L!Step(t)) \/ Recursive(R!Step(t)) \/ Pool(P!Step(t)))
          /\ SF_vars(Light(L!Wake(t)) \/ Recursive(R!Wake(t)))
          /\ \A d \in 1 .. MaxDepth - 1 : SF_vars(Recursive(R!UnlockAt(t, d)))
    /\ \A t \in More : WF_vars(Light(L!Step(t))) /\ SF_vars(Light(L!Wake(t)))
    /\ \A c \in Clients : WF_vars(Pool(P!NotifyOne(c)))
    /\ WF_vars(Pool(P!NotifyAll \/ P!Join))

Spec == Init /\ [][Next]_vars /\ Fairness

-----------------------------------------------------------------------------
(* The components' properties.                                             *)

\* LightMutex: one thread has the mutex, the semaphore is released once for every
\* thread that waits, and a thread that came by lock is the recorded owner.
MutualExclusion == at = "light" => L!MutualExclusion /\ L!OneToken /\ L!OwnerKnown

\* RecursiveLightMutex: one thread has the mutex, and it is the recorded owner; the
\* two counters agree with the locks that are held, and only the outermost unlock
\* lets somebody in.
OneOwner == at = "recursive" => R!OneOwner /\ R!CountsAgree /\ R!OneToken

\* TLQueue: no node is used after it was deleted.
NoUseAfterDelete == at = "queue" => Q!NoUseAfterDelete

\* TLQueue: nodes are removed in the order in which they were appended.
FirstInFirstOut == [][at = "queue" => Q!EndsOnly]_vars

\* TinyThreadPool: tasks that block the shutdown are run.
BlockingTasksRun == at = "pool" => P!BlockingTasksRun

\* LightMutex and RecursiveLightMutex: a thread that waits gets the mutex.
WaiterLocks ==
    /\ \A t \in Threads \cup More :
          at = "light" /\ pc[t] = "wait" ~> at = "light" /\ pc[t] = "in"
    /\ \A t \in Threads :
          at = "recursive" /\ pc[t] = "wait" ~> at = "recursive" /\ depth[t] > 0

\* TinyThreadPool: a queued task leaves the queue, and the destructor returns.
PoolGoesOn ==
    /\ \A id \in 1 .. MaxTasks : at = "pool" /\ P!Queued(id) ~> at = "pool" /\ ~P!Queued(id)
    /\ at = "pool" /\ pool = "stopping" ~> at = "pool" /\ pool = "destroyed"

=============================================================================
