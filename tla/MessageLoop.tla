---------------------------- MODULE MessageLoop -----------------------------
(***************************************************************************)
(* ActiveThread-Java (src/ActiveThread-Java/src/main/java): a thread that  *)
(* runs a MessageLoop over MessagePumpDefault and SyncEvent, and threads   *)
(* that get hold of the loop, post tasks to it at once or for a later      *)
(* time, and ask it to quit.                                               *)
(*                                                                         *)
(* Every section under a lock is a step.  A PendingTask takes its number   *)
(* when it is created, a step before it is added.  What a task does is     *)
(* user code: it may post and quit any number of times before it returns.  *)
(* Waiting on a condition may end for no reason.  Somebody may interrupt   *)
(* the owner; nothing clears its interrupt status but SyncEvent, which     *)
(* sets it again.                                                          *)
(*                                                                         *)
(* Time is counted in parts of a millisecond, because Instants are         *)
(* compared exactly while SyncEvent.awaitUntil compares milliseconds.  It  *)
(* is the time of the system's clock, which may be set back.               *)
(***************************************************************************)
EXTENDS Naturals, Sequences, FiniteSets, SequencesExt

CONSTANTS
    Threads,     \* the threads that do not own the loop
    Owner,       \* the thread of the ActiveThread
    Dues,        \* due times posted; 0 is Instant.EPOCH, which means at once
    PerMilli,    \* units of time in a millisecond
    MaxTasks,    \* bound: tasks created in a behaviour
    MaxTime,     \* bound: the clock
    MaxBacks     \* bound: how many times the clock is set back

ASSUME ConstantsAssumption ==
    /\ IsFiniteSet(Threads) /\ Owner \notin Threads
    /\ Dues \subseteq Nat
    /\ PerMilli \in Nat \ {0}
    /\ MaxTasks \in Nat
    /\ MaxTime \in Nat \ {0}
    /\ MaxBacks \in Nat

VARIABLES
    pc,              \* where the owner is
    tpc,             \* where every thread is in getMessageLoop and enqueueTask
    made,            \* the PendingTask a thread has created and not yet added
    _loop,           \* ActiveThread._loop is set
    _running,
    _signaled,
    _incomingTasks,
    _outgoingTasks,
    _delayedTasks,   \* the priority queue, as a set
    _recentTime,
    doneWork,
    now,             \* the clock (external)
    latest,          \* history: the latest time the clock has shown
    backs,           \* history: how many times it was set back
    interrupted,     \* the owner's interrupt status (external)
    seqNum,          \* s_seqNumGenerator
    pending          \* history: tasks added and not yet begun, in that order

loopVars == <<_running, _delayedTasks, _outgoingTasks, _recentTime, doneWork>>
envVars == <<now, latest, backs, interrupted>>
vars == <<pc, tpc, made, _loop, _signaled, _incomingTasks, envVars, seqNum, pending, loopVars>>

\* toEpochMilli.
Milli(time) == time \div PerMilli

Tasks == [seq : 0 .. MaxTasks - 1, at : Dues, quits : BOOLEAN]
NoTask == [seq |-> MaxTasks, at |-> 0, quits |-> FALSE]

Init ==
    /\ pc = "new"
    /\ tpc = [t \in Threads \cup {Owner} |-> IF t = Owner THEN "ready" ELSE "no_loop"]
    /\ made = [t \in Threads \cup {Owner} |-> NoTask]
    /\ _loop = FALSE
    /\ _running = FALSE
    /\ _signaled = FALSE
    /\ _incomingTasks = <<>>
    /\ _outgoingTasks = <<>>
    /\ _delayedTasks = {}
    /\ _recentTime = 0
    /\ doneWork = FALSE
    /\ now = 1
    /\ latest = 1
    /\ backs = 0
    /\ interrupted = FALSE
    /\ seqNum = 0
    /\ pending = <<>>

-----------------------------------------------------------------------------
(* Getting hold of the loop.                                               *)

isAlive == pc \notin {"new", "dead"}

Start ==
    /\ pc = "new"
    /\ pc' = "starting"
    /\ UNCHANGED <<tpc, made, _loop, _signaled, _incomingTasks, envVars, seqNum, pending, loopVars>>

\* Mistake: nobody is told.
PublishSilent ==
    /\ pc = "starting"
    /\ pc' = "run"
    /\ _loop' = TRUE
    /\ UNCHANGED <<tpc, made, _signaled, _incomingTasks, envVars, seqNum, pending, loopVars>>

\* runThread publishes the loop and wakes the threads that wait for it.
Publish ==
    /\ pc = "starting"
    /\ pc' = "run"
    /\ _loop' = TRUE
    /\ tpc' = [t \in DOMAIN tpc |-> IF tpc[t] = "blocked" THEN "asking" ELSE tpc[t]]
    /\ UNCHANGED <<made, _signaled, _incomingTasks, envVars, seqNum, pending, loopVars>>

\* getMessageLoop returns null unless the thread is alive ...
AskLoop(t) ==
    /\ tpc[t] = "no_loop"
    /\ isAlive
    /\ tpc' = [tpc EXCEPT ![t] = "asking"]
    /\ UNCHANGED <<pc, made, _loop, _signaled, _incomingTasks, envVars, seqNum, pending, loopVars>>

\* ... and otherwise waits, as long as it is, until the loop is there.
GetLoop(t) ==
    /\ tpc[t] = "asking"
    /\ tpc' = [tpc EXCEPT ![t] = IF _loop THEN "ready"
                                 ELSE IF isAlive THEN "blocked" ELSE "no_loop"]
    /\ UNCHANGED <<pc, made, _loop, _signaled, _incomingTasks, envVars, seqNum, pending, loopVars>>

-----------------------------------------------------------------------------
(* Posting.                                                                *)

InUserCode == pc \in {"in_work", "in_delayed"}

\* postTask, postTaskAt and postDelayedTask, and quit of a thread that does not
\* own the loop, create a PendingTask ...
Create(t, at, quits) ==
    /\ tpc[t] = "ready"
    /\ t = Owner => InUserCode /\ ~quits
    /\ quits => at = 0
    /\ seqNum < MaxTasks
    /\ made' = [made EXCEPT ![t] = [seq |-> seqNum, at |-> at, quits |-> quits]]
    /\ seqNum' = seqNum + 1
    /\ tpc' = [tpc EXCEPT ![t] = "made"]
    /\ UNCHANGED <<pc, _loop, _signaled, _incomingTasks, envVars, pending, loopVars>>

\* ... enqueueTask adds it ...
Enqueue(t) ==
    /\ tpc[t] = "made"
    /\ _incomingTasks' = Append(_incomingTasks, made[t])
    /\ pending' = Append(pending, made[t])
    /\ made' = [made EXCEPT ![t] = NoTask]
    /\ tpc' = [tpc EXCEPT ![t] = IF t = Owner THEN "ready" ELSE "added"]
    /\ UNCHANGED <<pc, _loop, _signaled, envVars, seqNum, loopVars>>

\* Mistake: the event is set without a signal of the condition.
WakeupSilent(t) ==
    /\ tpc[t] = "added"
    /\ pc # "spinning"
    /\ _signaled' = TRUE
    /\ tpc' = [tpc EXCEPT ![t] = "ready"]
    /\ UNCHANGED <<pc, made, _loop, _incomingTasks, envVars, seqNum, pending, loopVars>>

\* ... and wakes the owner up: SyncEvent.signal, which takes the lock.
Wakeup(t) ==
    /\ tpc[t] = "added"
    /\ pc # "spinning"
    /\ _signaled' = TRUE
    /\ pc' = IF pc = "waiting" THEN "wait" ELSE pc
    /\ tpc' = [tpc EXCEPT ![t] = "ready"]
    /\ UNCHANGED <<made, _loop, _incomingTasks, envVars, seqNum, pending, loopVars>>

-----------------------------------------------------------------------------
(* The owner: MessagePumpDefault.run.                                      *)

Run ==
    /\ pc = "run"
    /\ pc' = "work"
    /\ _running' = TRUE
    /\ UNCHANGED <<tpc, made, _loop, _signaled, _incomingTasks, envVars, seqNum, pending,
                   _outgoingTasks, _delayedTasks, _recentTime, doneWork>>

\* Mistake: the task made by quit does nothing but wake the owner up.
BeginIgnoringQuit(task, where) ==
    /\ pc' = where
    /\ pending' = RemoveFirst(pending, task)
    /\ doneWork' = TRUE
    /\ UNCHANGED _running

\* A task begins; one made by quit clears _running, one of the user may do so.
Begin(task, where) ==
    /\ pc' = where
    /\ pending' = RemoveFirst(pending, task)
    /\ _running' = (_running /\ ~task.quits)
    /\ doneWork' = TRUE

\* The queue takeTask looks at, once it has fetched _incomingTasks if it must.
Fetched == IF _outgoingTasks = <<>> THEN _incomingTasks ELSE _outgoingTasks

\* Mistake: _incomingTasks is cleared although nothing was fetched.
FetchClearing == _incomingTasks' = <<>>

Fetch ==
    _incomingTasks' = IF _outgoingTasks = <<>> THEN <<>> ELSE _incomingTasks

\* doWork, with one takeTask to a step: it runs the first task without a due
\* time and puts the ones before it into _delayedTasks.
DoWork ==
    /\ pc = "work"
    /\ Fetch
    /\ \/ /\ Fetched = <<>>
          /\ pc' = "delayed"
          /\ doneWork' = FALSE
          /\ UNCHANGED <<pending, _running, _outgoingTasks, _delayedTasks>>
       \/ /\ Fetched # <<>>
          /\ _outgoingTasks' = Tail(Fetched)
          /\ LET task == Head(Fetched) IN
             IF task.at = 0
             THEN Begin(task, "in_work") /\ UNCHANGED _delayedTasks
             ELSE /\ _delayedTasks' = _delayedTasks \cup {task}
                  /\ UNCHANGED <<pc, pending, _running, doneWork>>
    /\ UNCHANGED <<tpc, made, _loop, _signaled, envVars, seqNum, _recentTime>>

\* The promise of TaskOrder, and the order of its delayed tasks.
TO == INSTANCE TaskOrder WITH
          quitting <- (pc = "dead" \/ (InUserCode /\ ~_running)),
          clock <- latest

\* PendingTaskComparator's first.
Top == CHOOSE x \in _delayedTasks : \A y \in _delayedTasks \ {x} : TO!Before(x, y)

\* Mistake: milliseconds are compared.
DoDelayedWorkMillis ==
    /\ pc = "delayed"
    /\ _recentTime' = now
    /\ IF _delayedTasks # {} /\ Milli(Top.at) <= Milli(now)
       THEN /\ Begin(Top, "in_delayed")
            /\ _delayedTasks' = _delayedTasks \ {Top}
       ELSE /\ pc' = IF doneWork THEN "work" ELSE "wait"
            /\ UNCHANGED <<pending, _running, doneWork, _delayedTasks>>
    /\ UNCHANGED <<tpc, made, _loop, _signaled, _incomingTasks, envVars, seqNum, _outgoingTasks>>

\* doDelayedWork: the clock is read only if the last reading is too early.
DoDelayedWork ==
    /\ pc = "delayed"
    /\ _recentTime' = IF _delayedTasks # {} /\ Top.at > _recentTime THEN now ELSE _recentTime
    /\ IF _delayedTasks # {} /\ Top.at <= _recentTime'
       THEN /\ Begin(Top, "in_delayed")
            /\ _delayedTasks' = _delayedTasks \ {Top}
       ELSE /\ pc' = IF doneWork THEN "work" ELSE "wait"
            /\ UNCHANGED <<pending, _running, doneWork, _delayedTasks>>
    /\ UNCHANGED <<tpc, made, _loop, _signaled, _incomingTasks, envVars, seqNum, _outgoingTasks>>

\* quit in a task.
QuitInTask ==
    /\ InUserCode
    /\ tpc[Owner] = "ready"
    /\ _running' = FALSE
    /\ UNCHANGED <<pc, tpc, made, _loop, _signaled, _incomingTasks, envVars, seqNum, pending,
                   _outgoingTasks, _delayedTasks, _recentTime, doneWork>>

\* A task returns, and run looks at _running.
Return ==
    /\ InUserCode
    /\ tpc[Owner] = "ready"
    /\ pc' = IF ~_running THEN "dead" ELSE IF pc = "in_work" THEN "delayed" ELSE "work"
    /\ UNCHANGED <<tpc, made, _loop, _signaled, _incomingTasks, envVars, seqNum, pending, loopVars>>

-----------------------------------------------------------------------------
(* SyncEvent.                                                              *)

\* awaitUntil(nextDelayedWorkExpiration()) is over; await() has no deadline.
Expired == _delayedTasks # {} /\ Milli(now) >= Milli(Top.at)

\* Mistake: the event is reset before the wait.
AwaitResetting ==
    /\ pc \in {"wait", "spinning"}
    /\ pc' = IF Expired THEN "work" ELSE IF interrupted THEN "spinning" ELSE "waiting"
    /\ _signaled' = FALSE
    /\ UNCHANGED <<tpc, made, _loop, _incomingTasks, envVars, seqNum, pending, loopVars>>

\* Under the lock: the event is consumed, or the owner waits on the condition.  If
\* it was interrupted, the condition throws before it gives up the lock and the
\* interrupt status is set again, so that the owner goes round and round with the
\* lock held.
Await ==
    /\ pc \in {"wait", "spinning"}
    /\ IF _signaled \/ Expired
       THEN pc' = "work" /\ _signaled' = FALSE
       ELSE pc' = (IF interrupted THEN "spinning" ELSE "waiting") /\ UNCHANGED _signaled
    /\ UNCHANGED <<tpc, made, _loop, _incomingTasks, envVars, seqNum, pending, loopVars>>

\* Condition.awaitUntil has reached its deadline ...
TimedOut ==
    /\ pc = "waiting"
    /\ Expired
    /\ pc' = "wait"
    /\ UNCHANGED <<tpc, made, _loop, _signaled, _incomingTasks, envVars, seqNum, pending, loopVars>>

\* ... or returns for no reason.
SpuriousWakeup ==
    /\ pc = "waiting"
    /\ pc' = "wait"
    /\ UNCHANGED <<tpc, made, _loop, _signaled, _incomingTasks, envVars, seqNum, pending, loopVars>>

\* Somebody interrupts the owner, which ends a wait on the condition (external).
Interrupt ==
    /\ isAlive
    /\ ~interrupted
    /\ interrupted' = TRUE
    /\ pc' = IF pc = "waiting" THEN "wait" ELSE pc
    /\ UNCHANGED <<tpc, made, _loop, _signaled, _incomingTasks, now, latest, backs, seqNum,
                   pending, loopVars>>

\* Time passes ...
Tick ==
    /\ now < MaxTime
    /\ now' = now + 1
    /\ latest' = IF now' > latest THEN now' ELSE latest
    /\ UNCHANGED <<pc, tpc, made, _loop, _signaled, _incomingTasks, backs, interrupted, seqNum,
                   pending, loopVars>>

\* ... and somebody sets the clock back (external).
SetBack ==
    /\ backs < MaxBacks
    /\ backs' = backs + 1
    /\ now' \in 1 .. now - 1
    /\ UNCHANGED <<pc, tpc, made, _loop, _signaled, _incomingTasks, latest, interrupted, seqNum,
                   pending, loopVars>>

-----------------------------------------------------------------------------

OwnerStep ==
    Publish \/ Run \/ DoWork \/ DoDelayedWork \/ Return \/ Await \/ TimedOut

ThreadStep(t) == GetLoop(t) \/ Enqueue(t) \/ Wakeup(t)

Next ==
    \/ Start \/ OwnerStep \/ QuitInTask \/ SpuriousWakeup \/ Interrupt \/ Tick \/ SetBack
    \/ \E t \in Threads \cup {Owner} :
          \/ AskLoop(t)
          \/ \E at \in Dues, quits \in BOOLEAN : Create(t, at, quits)
          \/ ThreadStep(t)

Spec == Init /\ [][Next]_vars

\* Threads run, tasks return, and time goes by; the clock is set back only so many
\* times.  Nobody has to start the thread, to ask for the loop, to post, to quit or
\* to interrupt.
FairSpec ==
    /\ Spec
    /\ WF_vars(OwnerStep)
    /\ WF_vars(Tick)
    /\ \A t \in Threads \cup {Owner} : WF_vars(ThreadStep(t))

-----------------------------------------------------------------------------
(* Properties.                                                             *)

TypeOK ==
    /\ pc \in {"new", "starting", "run", "work", "in_work", "delayed", "in_delayed",
               "wait", "waiting", "spinning", "dead"}
    /\ tpc \in [Threads \cup {Owner} ->
                    {"no_loop", "asking", "blocked", "ready", "made", "added"}]
    /\ made \in [Threads \cup {Owner} -> Tasks \cup {NoTask}]
    /\ {_loop, _running, _signaled, doneWork, interrupted} \subseteq BOOLEAN
    /\ _incomingTasks \in Seq(Tasks)
    /\ _outgoingTasks \in Seq(Tasks)
    /\ _delayedTasks \subseteq Tasks
    /\ _recentTime \in 0 .. latest
    /\ now \in 1 .. latest
    /\ latest \in 1 .. MaxTime
    /\ backs \in 0 .. MaxBacks
    /\ backs = 0 => now = latest
    /\ seqNum \in 0 .. MaxTasks
    /\ pending \in Seq(Tasks)

\* Every task that was added and has not begun is in exactly one of the three
\* queues: none is lost or doubled on its way from a poster to the owner, nor
\* by a fetch that meets posts.
NoTaskLost ==
    /\ TypeOK
    /\ Range(pending) = Range(_outgoingTasks) \cup Range(_incomingTasks) \cup _delayedTasks
    /\ Len(pending) = Len(_outgoingTasks) + Len(_incomingTasks) + Cardinality(_delayedTasks)

\* While the owner waits and nobody has signaled it, what was added has all been
\* fetched, but for tasks whose posters are about to signal: the event is reset
\* by the owner without losing a post that comes at any point in between.
NoLostWakeup ==
    pc = "waiting" /\ ~_signaled =>
        /\ _outgoingTasks = <<>>
        /\ Len(_incomingTasks) <= Cardinality({t \in Threads : tpc[t] = "added"})

\* No task and no wakeup is lost between posters and owner.
NothingLost == NoTaskLost /\ NoLostWakeup

\* Tasks are run in the order that TaskOrder promises, and not before the clock has
\* shown their time; and none is begun once _running was cleared.  (After the clock
\* was set back, _recentTime may be ahead of it and a task begin before its time
\* comes again.)
KeepsOrder == TO!Spec

\* A task that was added begins, unless the loop ends before or the owner is
\* interrupted; otherwise the owner never waits past the due time of a task.
TasksBegin ==
    \A seq \in 0 .. MaxTasks - 1 :
        (\E x \in Range(pending) : x.seq = seq)
            ~> (pc = "dead" \/ interrupted \/ ~\E x \in Range(pending) : x.seq = seq)

\* A loop that anybody has asked to quit ends, unless the owner is interrupted.
QuitEnds ==
    (\E x \in Range(pending) : x.quits) \/ (InUserCode /\ ~_running)
        ~> pc = "dead" \/ interrupted

\* A thread that waits in getMessageLoop gets the loop.
LoopIsGot == \A t \in Threads : tpc[t] = "blocked" ~> tpc[t] = "ready"

\* Who waits for the loop gets it, and who quits it ends it.
CallsAnswered == LoopIsGot /\ QuitEnds

=============================================================================
