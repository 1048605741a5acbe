--------------------------- MODULE TinyThreadPool ---------------------------
(***************************************************************************)
(* TinyThreadPool (TinyThreadPool/tiny_thread_pool.{h,cpp}): workers that  *)
(* take tasks from a queue, and a destructor that lets them skip some of   *)
(* the tasks, run the others, and end.                                     *)
(*                                                                         *)
(* Every section under pool_mutex_ and every notification is a step.  A    *)
(* task is user code and may post, but not once the pool shuts down, when  *)
(* the ENSURE of running_ would end the process.  Clients do not use the   *)
(* pool while or after they destroy it.                                    *)
(***************************************************************************)
EXTENDS Naturals, SequencesExt

CONSTANTS
    Workers,
    Clients,
    MaxTasks     \* bound: tasks posted in a behaviour

PoolAssumption == MaxTasks \in Nat

VARIABLES
    running_,
    task_queue_,
    pool,        \* how far the destructor is
    pc,          \* where every worker is
    doing,       \* the task it has taken
    notifying,   \* threads that have pushed a task and are to notify
    tasks,       \* history: the tasks posted
    ended        \* history: the tasks that were run

vars == <<running_, task_queue_, pool, pc, doing, notifying, tasks, ended>>

Task == [id : 0 .. MaxTasks, behavior : {"BlockShutdown", "SkipOnShutdown"}]
NoTask == [id |-> 0, behavior |-> "BlockShutdown"]

Init ==
    /\ running_ = TRUE
    /\ task_queue_ = <<>>
    /\ pool = "up"
    /\ pc = [w \in Workers |-> "retrieve"]
    /\ doing = [w \in Workers |-> NoTask]
    /\ notifying = {}
    /\ tasks = {}
    /\ ended = {}

-----------------------------------------------------------------------------

\* PostTaskWithShutdownBehavior: the task is pushed under the lock ...
Post(t, behavior) ==
    /\ IF t \in Clients THEN pool = "up" ELSE pc[t] = "run"
    /\ t \notin notifying
    /\ running_
    /\ Cardinality(tasks) < MaxTasks
    /\ LET task == [id |-> Cardinality(tasks) + 1, behavior |-> behavior] IN
       /\ task_queue_' = Append(task_queue_, task)
       /\ tasks' = tasks \cup {task}
    /\ notifying' = notifying \cup {t}
    /\ UNCHANGED <<doing, running_, pool, pc, ended>>

Waiting == {w \in Workers : pc[w] = "waiting"}

\* Mistake: only the first task of the queue is worth a notification.
NotifyOneIfFirst(t) ==
    /\ t \in notifying
    /\ notifying' = notifying \ {t}
    /\ IF Len(task_queue_) > 1 \/ Waiting = {}
       THEN UNCHANGED pc
       ELSE \E w \in Waiting : pc' = [pc EXCEPT ![w] = "retrieve"]
    /\ UNCHANGED <<doing, running_, task_queue_, pool, tasks, ended>>

\* ... and notify_one comes after it.
NotifyOne(t) ==
    /\ t \in notifying
    /\ notifying' = notifying \ {t}
    /\ IF Waiting = {}
       THEN UNCHANGED pc
       ELSE \E w \in Waiting : pc' = [pc EXCEPT ![w] = "retrieve"]
    /\ UNCHANGED <<doing, running_, task_queue_, pool, tasks, ended>>

\* The destructor clears running_ ...
Stop ==
    /\ pool = "up"
    /\ notifying \cap Clients = {}
    /\ pool' = "stopping"
    /\ running_' = FALSE
    /\ UNCHANGED <<doing, task_queue_, pc, notifying, tasks, ended>>

\* Mistake: one worker is told.
NotifyAnyone ==
    /\ pool = "stopping"
    /\ pool' = "joining"
    /\ IF Waiting = {}
       THEN UNCHANGED pc
       ELSE \E w \in Waiting : pc' = [pc EXCEPT ![w] = "retrieve"]
    /\ UNCHANGED <<doing, running_, task_queue_, notifying, tasks, ended>>

\* ... notifies all ...
NotifyAll ==
    /\ pool = "stopping"
    /\ pool' = "joining"
    /\ pc' = [w \in Workers |-> IF pc[w] = "waiting" THEN "retrieve" ELSE pc[w]]
    /\ UNCHANGED <<doing, running_, task_queue_, notifying, tasks, ended>>

\* ... and thread_joiner_ waits for every worker.
Join ==
    /\ pool = "joining"
    /\ \A w \in Workers : pc[w] = "ended"
    /\ pool' = "destroyed"
    /\ UNCHANGED <<doing, running_, task_queue_, pc, notifying, tasks, ended>>

-----------------------------------------------------------------------------

\* The queue without the tasks that are skipped before the first that is not.
Kept ==
    LET first == SelectInSeq(task_queue_, LAMBDA task : task.behavior = "BlockShutdown")
    IN  IF running_ THEN task_queue_
        ELSE IF first = 0 THEN <<>> ELSE SubSeq(task_queue_, first, Len(task_queue_))

\* Mistake: a worker that meets a task to skip takes nothing.
RetrieveNothing(w) ==
    /\ pc[w] = "retrieve"
    /\ IF running_ /\ task_queue_ = <<>>
       THEN pc' = [pc EXCEPT ![w] = "waiting"] /\ UNCHANGED <<doing, task_queue_>>
       ELSE IF Kept # task_queue_ \/ task_queue_ = <<>>
       THEN pc' = [pc EXCEPT ![w] = "ended"] /\ task_queue_' = Kept /\ UNCHANGED doing
       ELSE /\ pc' = [pc EXCEPT ![w] = "run"]
            /\ doing' = [doing EXCEPT ![w] = Head(Kept)]
            /\ task_queue_' = Tail(Kept)
    /\ UNCHANGED <<running_, pool, notifying, tasks, ended>>

\* RetrieveTask: a worker waits, or takes a task, or ends without one.
Retrieve(w) ==
    /\ pc[w] = "retrieve"
    /\ IF running_ /\ task_queue_ = <<>>
       THEN pc' = [pc EXCEPT ![w] = "waiting"] /\ UNCHANGED <<doing, task_queue_>>
       ELSE IF Kept = <<>>
       THEN pc' = [pc EXCEPT ![w] = "ended"] /\ task_queue_' = <<>> /\ UNCHANGED doing
       ELSE /\ pc' = [pc EXCEPT ![w] = "run"]
            /\ doing' = [doing EXCEPT ![w] = Head(Kept)]
            /\ task_queue_' = Tail(Kept)
    /\ UNCHANGED <<running_, pool, notifying, tasks, ended>>

\* condition_variable::wait may return for no reason (external).
Spurious(w) ==
    /\ pc[w] = "waiting"
    /\ pc' = [pc EXCEPT ![w] = "retrieve"]
    /\ UNCHANGED <<doing, running_, task_queue_, pool, notifying, tasks, ended>>

\* A task returns, and RunInThread goes round.
Finish(w) ==
    /\ pc[w] = "run"
    /\ w \notin notifying
    /\ ended' = ended \cup {doing[w]}
    /\ doing' = [doing EXCEPT ![w] = NoTask]
    /\ pc' = [pc EXCEPT ![w] = "retrieve"]
    /\ UNCHANGED <<running_, task_queue_, pool, notifying, tasks>>

Next ==
    \/ \E t \in Workers \cup Clients :
          \/ \E behavior \in {"BlockShutdown", "SkipOnShutdown"} : Post(t, behavior)
          \/ NotifyOne(t)
    \/ Stop \/ NotifyAll \/ Join
    \/ \E w \in Workers : Retrieve(w) \/ Spurious(w) \/ Finish(w)

Spec == Init /\ [][Next]_vars

\* The steps a worker takes on its own; at any time one of them is enabled.
Step(w) == NotifyOne(w) \/ Retrieve(w) \/ Finish(w)

\* Threads run, tasks return, and the destructor goes on once it is called.
\* Nobody has to post or to destroy the pool.
Fairness ==
    /\ \A w \in Workers : WF_vars(Step(w))
    /\ \A c \in Clients : WF_vars(NotifyOne(c))
    /\ WF_vars(NotifyAll \/ Join)

FairSpec == Spec /\ Fairness

-----------------------------------------------------------------------------
(* Properties.                                                             *)

TypeOK ==
    /\ running_ \in BOOLEAN
    /\ task_queue_ \in Seq(Task)
    /\ pool \in {"up", "stopping", "joining", "destroyed"}
    /\ pc \in [Workers -> {"retrieve", "waiting", "run", "ended"}]
    /\ doing \in [Workers -> Task]
    /\ notifying \subseteq Workers \cup Clients
    /\ tasks \subseteq Task
    /\ ended \subseteq tasks

\* Every task that blocks the shutdown is in the queue, with one worker or done,
\* and none is left behind when a worker has ended: the pool is destroyed only
\* after all of them were run, whichever workers find them behind skipped ones.
BlockingTasksRun ==
    /\ TypeOK
    /\ \A task \in tasks : task.behavior = "BlockShutdown" =>
          \/ task \in ended
          \/ \E w \in Workers : doing[w] = task
          \/ task \in ToSet(task_queue_) /\ pool # "destroyed"
    /\ (\E w \in Workers : pc[w] = "ended") => task_queue_ = <<>> /\ ~running_

Queued(id) == \E i \in DOMAIN task_queue_ : task_queue_[i].id = id

\* A task that is queued leaves the queue, with the pool up or not: the notify_one
\* that comes late meets a worker that is awake or waits.
TasksLeave == \A id \in 1 .. MaxTasks : Queued(id) ~> ~Queued(id)

\* The destructor returns.
PoolIsDestroyed == pool = "stopping" ~> pool = "destroyed"

=============================================================================
