------------------------------ MODULE EventLoop ------------------------------
(***************************************************************************)
(* The reactor of NetworkInfra (src/NetworkInfra/src/event_loop.{h,cpp}):  *)
(* one thread owns the loop and runs poll / handle events / run pending    *)
(* tasks; any thread may queue a task or ask the loop to quit.             *)
(*                                                                         *)
(* A task is a number, the position of its QueueTask call in the order in  *)
(* which task_list_mutex_ was taken.  What a task or an event handler does *)
(* is user code: while one runs, the owner may call QueueTask and Quit any *)
(* number of times before it returns.                                      *)
(***************************************************************************)
EXTENDS Naturals, Sequences, FiniteSets

CONSTANTS
    Threads,    \* the threads that do not own the loop
    MaxTasks,   \* bound: QueueTask calls in a behaviour
    MaxQuits    \* bound: Quit calls in a behaviour

ASSUME BoundsAssumption == MaxTasks \in Nat /\ MaxQuits \in Nat

VARIABLES
    is_running,
    executing_pending_task,
    pending_tasks,     \* the queue guarded by task_list_mutex_
    batch,             \* ProcessPendingTasks' local vector, still to be run
    wakeup,            \* counter of the eventfd wakeup_fd_
    active,            \* channels poll() reported and Run has yet to handle
    pc,                \* where the owner is
    tpc,               \* where every other thread is
    posted, quits,     \* how many QueueTask and Quit calls there have been
    done,              \* history: the tasks run, in order
    early              \* history: tasks the owner queued outside Run

vars == <<is_running, executing_pending_task, pending_tasks, batch, wakeup,
          active, pc, tpc, posted, quits, done, early>>

Locations == {"idle", "check", "poll", "events", "handler", "drain",
              "tasks", "in_task", "exited"}

\* Where the owner runs code of the user, which may call QueueTask and Quit.
InUserCode == pc \in {"idle", "exited", "handler", "in_task"}

Init ==
    /\ is_running = FALSE
    /\ executing_pending_task = FALSE
    /\ pending_tasks = <<>>
    /\ batch = <<>>
    /\ wakeup = 0
    /\ active = {}
    /\ pc = "idle"
    /\ tpc = [t \in Threads |-> "idle"]
    /\ posted = 0
    /\ quits = 0
    /\ done = <<>>
    /\ early = {}

-----------------------------------------------------------------------------
(* The owner: EventLoop::Run.                                              *)

\* Run() on a loop that is not running; a caller that breaks the ENSURE is
\* not modelled.
Run ==
    /\ pc \in {"idle", "exited"}
    /\ ~is_running
    /\ is_running' = TRUE
    /\ pc' = "check"
    /\ UNCHANGED <<executing_pending_task, pending_tasks, batch, wakeup,
                   active, tpc, posted, quits, done, early>>

\* while (is_running_)
CheckRunning ==
    /\ pc = "check"
    /\ pc' = IF is_running THEN "poll" ELSE "exited"
    /\ UNCHANGED <<is_running, executing_pending_task, pending_tasks, batch,
                   wakeup, active, tpc, posted, quits, done, early>>

\* poll() returns because descriptors are ready: the eventfd is when its
\* counter is not zero, any other descriptor whenever it likes.
PollReady ==
    /\ pc = "poll"
    /\ \E io \in SUBSET {"io"} :
          active' = io \cup (IF wakeup > 0 THEN {"wakeup"} ELSE {})
    /\ active' # {}
    /\ pc' = "events"
    /\ UNCHANGED <<is_running, executing_pending_task, pending_tasks, batch,
                   wakeup, tpc, posted, quits, done, early>>

\* poll() fails, whatever is ready, or reaches its timeout of ten seconds with
\* nothing ready: the loop goes round with no active channel.
PollNothing ==
    /\ pc = "poll"
    /\ active' = {}
    /\ pc' = "events"
    /\ UNCHANGED <<is_running, executing_pending_task, pending_tasks, batch,
                   wakeup, tpc, posted, quits, done, early>>

\* HandleEvents of wakeup_channel_: read(2) on the eventfd zeroes its counter.
OnWakeup ==
    /\ pc = "events"
    /\ "wakeup" \in active
    /\ active' = active \ {"wakeup"}
    /\ wakeup' = 0
    /\ UNCHANGED <<is_running, executing_pending_task, pending_tasks, batch,
                   pc, tpc, posted, quits, done, early>>

\* HandleEvents of any other channel calls into user code.
HandleIO ==
    /\ pc = "events"
    /\ "io" \in active
    /\ active' = active \ {"io"}
    /\ pc' = "handler"
    /\ UNCHANGED <<is_running, executing_pending_task, pending_tasks, batch,
                   wakeup, tpc, posted, quits, done, early>>

HandlerReturns ==
    /\ pc = "handler"
    /\ pc' = "events"
    /\ UNCHANGED <<is_running, executing_pending_task, pending_tasks, batch,
                   wakeup, active, tpc, posted, quits, done, early>>

EventsHandled ==
    /\ pc = "events"
    /\ active = {}
    /\ pc' = "drain"
    /\ UNCHANGED <<is_running, executing_pending_task, pending_tasks, batch,
                   wakeup, active, tpc, posted, quits, done, early>>

\* Mistake: the queue is copied out instead of swapped out.
CopyPending ==
    /\ pc = "drain"
    /\ executing_pending_task' = TRUE
    /\ batch' = pending_tasks
    /\ pc' = "tasks"
    /\ UNCHANGED <<is_running, pending_tasks, wakeup, active, tpc, posted, quits,
                   done, early>>

\* ProcessPendingTasks up to the swap under task_list_mutex_.
SwapPending ==
    /\ pc = "drain"
    /\ executing_pending_task' = TRUE
    /\ batch' = pending_tasks
    /\ pending_tasks' = <<>>
    /\ pc' = "tasks"
    /\ UNCHANGED <<is_running, wakeup, active, tpc, posted, quits, done, early>>

StartTask ==
    /\ pc = "tasks"
    /\ batch # <<>>
    /\ done' = Append(done, Head(batch))
    /\ batch' = Tail(batch)
    /\ pc' = "in_task"
    /\ UNCHANGED <<is_running, executing_pending_task, pending_tasks, wakeup,
                   active, tpc, posted, quits, early>>

TaskReturns ==
    /\ pc = "in_task"
    /\ pc' = "tasks"
    /\ UNCHANGED <<is_running, executing_pending_task, pending_tasks, batch,
                   wakeup, active, tpc, posted, quits, done, early>>

\* The batch has run: the end of ProcessPendingTasks.
BatchDone ==
    /\ pc = "tasks"
    /\ batch = <<>>
    /\ executing_pending_task' = FALSE
    /\ pc' = "check"
    /\ UNCHANGED <<is_running, pending_tasks, batch, wakeup, active, tpc,
                   posted, quits, done, early>>

-----------------------------------------------------------------------------
(* QueueTask and Quit, called by the owner and by other threads.           *)

\* The critical section of QueueTask.
PushTask ==
    /\ posted < MaxTasks
    /\ posted' = posted + 1
    /\ pending_tasks' = Append(pending_tasks, posted + 1)

\* Mistake: no wakeup on the owner, not even while pending tasks run.
OwnerQueueTaskNoWakeup ==
    /\ InUserCode
    /\ PushTask
    /\ early' = IF pc \in {"idle", "exited"} THEN early \cup {posted + 1}
                                             ELSE early
    /\ UNCHANGED <<is_running, executing_pending_task, batch, wakeup, active, pc,
                   tpc, quits, done>>

\* QueueTask on the owner, which wakes the loop up only while it is running
\* pending tasks.  (RunTask on the owner calls the task at once: it is user
\* code like the caller.)
OwnerQueueTask ==
    /\ InUserCode
    /\ PushTask
    /\ wakeup' = IF executing_pending_task THEN wakeup + 1 ELSE wakeup
    /\ early' = IF pc \in {"idle", "exited"} THEN early \cup {posted + 1}
                                             ELSE early
    /\ UNCHANGED <<is_running, executing_pending_task, batch, active, pc, tpc,
                   quits, done>>

\* Quit on the owner.
OwnerQuit ==
    /\ InUserCode
    /\ quits < MaxQuits
    /\ quits' = quits + 1
    /\ is_running' = FALSE
    /\ UNCHANGED <<executing_pending_task, pending_tasks, batch, wakeup, active,
                   pc, tpc, posted, done, early>>

\* Mistake: QueueTask tests executing_pending_task_ alone, so that another
\* thread writes a wakeup only if it happens to see tasks being run.
ThreadQueueTaskNoWakeup(t) ==
    /\ tpc[t] = "idle"
    /\ PushTask
    /\ tpc' = [tpc EXCEPT ![t] = IF executing_pending_task THEN "wake" ELSE "idle"]
    /\ UNCHANGED <<is_running, executing_pending_task, batch, wakeup, active,
                   pc, quits, done, early>>

\* QueueTask, or RunTask, on another thread: first the push ...
ThreadQueueTask(t) ==
    /\ tpc[t] = "idle"
    /\ PushTask
    /\ tpc' = [tpc EXCEPT ![t] = "wake"]
    /\ UNCHANGED <<is_running, executing_pending_task, batch, wakeup, active,
                   pc, quits, done, early>>

\* Mistake: Quit on another thread writes no wakeup.
ThreadQuitNoWakeup(t) ==
    /\ tpc[t] = "idle"
    /\ quits < MaxQuits
    /\ quits' = quits + 1
    /\ is_running' = FALSE
    /\ UNCHANGED <<executing_pending_task, pending_tasks, batch, wakeup, active,
                   pc, tpc, posted, done, early>>

\* ... and Quit on another thread: first the store ...
ThreadQuit(t) ==
    /\ tpc[t] = "idle"
    /\ quits < MaxQuits
    /\ quits' = quits + 1
    /\ is_running' = FALSE
    /\ tpc' = [tpc EXCEPT ![t] = "wake"]
    /\ UNCHANGED <<executing_pending_task, pending_tasks, batch, wakeup, active,
                   pc, posted, done, early>>

\* ... and in a later step, with the loop anywhere, Wakeup().
Wakeup(t) ==
    /\ tpc[t] = "wake"
    /\ wakeup' = wakeup + 1
    /\ tpc' = [tpc EXCEPT ![t] = "idle"]
    /\ UNCHANGED <<is_running, executing_pending_task, pending_tasks, batch,
                   active, pc, posted, quits, done, early>>

-----------------------------------------------------------------------------

\* The steps the owner takes once it is inside Run.  Of the ways out of poll()
\* only a readable eventfd is one of them: nobody can count on other descriptors,
\* and waiting for the timeout is what the eventfd is there to avoid.
LoopStep ==
    \/ CheckRunning \/ (wakeup > 0 /\ PollReady) \/ OnWakeup \/ HandleIO
    \/ HandlerReturns \/ EventsHandled \/ SwapPending \/ StartTask
    \/ TaskReturns \/ BatchDone

Next ==
    \/ Run
    \/ LoopStep
    \/ PollReady
    \/ PollNothing
    \/ OwnerQueueTask
    \/ OwnerQuit
    \/ \E t \in Threads : ThreadQueueTask(t) \/ ThreadQuit(t) \/ Wakeup(t)

Spec == Init /\ [][Next]_vars

\* A thread inside Run keeps running, handlers and tasks return, a readable
\* eventfd ends poll(), and a thread that has pushed gets to Wakeup().
\* Nobody is obliged to call Run, QueueTask or Quit, and neither the timeout of
\* poll() nor any other descriptor is relied upon.
FairSpec ==
    /\ Spec
    /\ WF_vars(LoopStep)
    /\ \A t \in Threads : WF_vars(Wakeup(t))

-----------------------------------------------------------------------------
(* Properties.                                                             *)

\* Every variable has its type: the flags, queues and eventfd counter of
\* EventLoop (event_loop.h) and the history variables.
FlagTypes ==
    /\ is_running \in BOOLEAN
    /\ executing_pending_task \in BOOLEAN

DataTypes ==
    /\ pending_tasks \in Seq(Nat)
    /\ batch \in Seq(Nat)
    /\ wakeup \in Nat
    /\ active \in SUBSET {"io", "wakeup"}
    /\ pc \in Locations
    /\ tpc \in [Threads -> {"idle", "wake"}]
    /\ posted \in Nat
    /\ quits \in Nat
    /\ done \in Seq(Nat)
    /\ early \in SUBSET Nat

TypeOK == FlagTypes /\ DataTypes

\* Tasks run exactly once and in the order in which QueueTask queued them,
\* whoever queued them and wherever the loop was: what has run, what
\* ProcessPendingTasks has swapped out and what is still queued are together
\* the calls 1, 2, ..., posted, in that order.
QueueOrder ==
    /\ \A i \in 1 .. Len(done) : done[i] = i
    /\ \A i \in 1 .. Len(batch) : batch[i] = Len(done) + i
    /\ \A i \in 1 .. Len(pending_tasks) :
          pending_tasks[i] = Len(done) + Len(batch) + i
    /\ posted = Len(done) + Len(batch) + Len(pending_tasks)

\* A thread that has pushed a task or stored is_running_ is about to wake up.
WakeupComing == wakeup > 0 \/ \E t \in Threads : tpc[t] = "wake"

\* The loop is never blocked in poll() with a task in its queue and no wakeup
\* there or on its way ("Don't get stuck at polling", event_loop.h).  Tasks
\* that the owner queues outside Run are the exception: QueueTask writes no
\* wakeup for those, and they wait for the first event or the timeout.
NoStrandedTask ==
    pc = "poll" /\ ~WakeupComing =>
        \A i \in 1 .. Len(pending_tasks) : pending_tasks[i] \in early

\* Nor is it blocked in poll() after a Quit() that came once Run had started:
\* a Quit on another thread wakes the loop after its store, a Quit on the owner
\* comes from a handler or a task, before the loop tests is_running_ again.
NoStrandedQuit == pc = "poll" /\ ~is_running => WakeupComing

\* OnWakeup's ENSURE: when wakeup_channel_ is handled, its non-blocking read of
\* the eventfd has something to read.
OnWakeupReads == "wakeup" \in active => wakeup > 0

\* A task queued while the loop runs, or before by another thread, is run
\* without help from the timeout of poll(), unless the loop is told to quit.
TaskRuns ==
    \A n \in 1 .. MaxTasks :
        (n <= posted /\ n \notin early /\ pc \notin {"idle", "exited"})
            ~> ((\E i \in 1 .. Len(done) : done[i] = n) \/ pc = "exited")

\* Quit() on a loop inside Run makes Run return, without help from the timeout.
QuitStops == (~is_running /\ pc \notin {"idle", "exited"}) ~> pc = "exited"

-----------------------------------------------------------------------------
(* The inductive invariant.                                                *)

\* executing_pending_task_ is set exactly between the swap and the end of the
\* batch, which is empty elsewhere; poll()'s channels are handled before that.
Phases ==
    /\ executing_pending_task <=> pc \in {"tasks", "in_task"}
    /\ batch # <<>> => pc \in {"tasks", "in_task"}
    /\ active # {} => pc \in {"events", "handler"}

\* Where a pass of the loop can no longer be relied on to reach the swap.
PastTheSwap == pc \in {"idle", "exited", "check", "poll", "tasks", "in_task"}

\* NoStrandedTask holds at poll() because it holds from the moment of the push:
\* until the loop is on its way to the swap, a wakeup is in the eventfd or a
\* thread is about to write it.
TasksCovered ==
    PastTheSwap /\ ~WakeupComing =>
        \A i \in 1 .. Len(pending_tasks) : pending_tasks[i] \in early

IndInv ==
    /\ TypeOK
    /\ Phases
    /\ OnWakeupReads
    /\ QueueOrder
    /\ TasksCovered
    /\ NoStrandedQuit

=============================================================================
