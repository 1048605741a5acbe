--------------------------- MODULE EventLoopProofs ---------------------------
(***************************************************************************)
(* Proofs about EventLoop: for any set of threads and any bounds, tasks    *)
(* run exactly once and in order, and the loop never blocks in poll() over *)
(* a queued task or a Quit.                                                *)
(***************************************************************************)
EXTENDS EventLoop, TLAPS

\* The loop starts in the invariant: nothing queued, nothing running.
LEMMA InitInd == Init => IndInv
<1> SUFFICES ASSUME Init
             PROVE  IndInv
  OBVIOUS
<1>1. FlagTypes
  BY DEF Init, FlagTypes
<1>2. DataTypes
  BY DEF Init, DataTypes, Locations
<1>3. Phases /\ OnWakeupReads /\ NoStrandedQuit
  BY DEF Init, Phases, OnWakeupReads, NoStrandedQuit
<1>4. QueueOrder /\ TasksCovered
  BY DEF Init, QueueOrder, TasksCovered
<1> QED BY <1>1, <1>2, <1>3, <1>4 DEF IndInv, TypeOK

\* The owner's actions, without the threads'.
OwnerActions ==
    \/ Run \/ CheckRunning \/ PollReady \/ PollNothing \/ OnWakeup \/ HandleIO
    \/ HandlerReturns \/ EventsHandled \/ SwapPending \/ StartTask
    \/ TaskReturns \/ BatchDone \/ OwnerQueueTask \/ OwnerQuit

\* A step is one of the actions or changes nothing.
LEMMA Steps ==
    [Next]_vars <=> \/ OwnerActions
                    \/ \E t \in Threads :
                          ThreadQueueTask(t) \/ ThreadQuit(t) \/ Wakeup(t)
                    \/ UNCHANGED vars
BY DEF Next, LoopStep, OwnerActions

\* Every step keeps the variables in their types.
LEMMA NextType == IndInv /\ [Next]_vars => TypeOK'
<1> SUFFICES ASSUME IndInv, [Next]_vars
             PROVE  TypeOK'
  OBVIOUS
<1> USE DEF IndInv, TypeOK, Locations
<1>1. FlagTypes'
  BY Zenon, Steps DEF OwnerActions, FlagTypes, vars, Run, CheckRunning, PollReady,
        PollNothing, OnWakeup, HandleIO, HandlerReturns, EventsHandled,
        SwapPending, StartTask, TaskReturns, BatchDone, OwnerQueueTask, OwnerQuit,
        ThreadQueueTask, ThreadQuit, Wakeup
<1>2. DataTypes'
  <2> USE DEF DataTypes
  <2>1. CASE Run
    BY <2>1 DEF Run
  <2>2. CASE CheckRunning
    BY <2>2 DEF CheckRunning
  <2>3. CASE PollReady
    BY <2>3 DEF PollReady
  <2>4. CASE PollNothing
    BY <2>4 DEF PollNothing
  <2>5. CASE OnWakeup
    BY <2>5 DEF OnWakeup
  <2>6. CASE HandleIO
    BY <2>6 DEF HandleIO
  <2>7. CASE HandlerReturns
    BY <2>7 DEF HandlerReturns
  <2>8. CASE EventsHandled
    BY <2>8 DEF EventsHandled
  <2>9. CASE SwapPending
    BY <2>9 DEF SwapPending
  <2>10. CASE StartTask
    BY <2>10 DEF StartTask
  <2>11. CASE TaskReturns
    BY <2>11 DEF TaskReturns
  <2>12. CASE BatchDone
    BY <2>12 DEF BatchDone
  <2>13. CASE OwnerQueueTask
    BY <2>13 DEF OwnerQueueTask, PushTask
  <2>14. CASE OwnerQuit
    BY <2>14 DEF OwnerQuit
  <2>15. ASSUME NEW t \in Threads, ThreadQueueTask(t)
         PROVE  DataTypes'
    BY <2>15 DEF ThreadQueueTask, PushTask
  <2>16. ASSUME NEW t \in Threads, ThreadQuit(t)
         PROVE  DataTypes'
    BY <2>16 DEF ThreadQuit
  <2>17. ASSUME NEW t \in Threads, Wakeup(t)
         PROVE  DataTypes'
    BY <2>17 DEF Wakeup
  <2>18. CASE UNCHANGED vars
    BY <2>18 DEF vars
  <2> QED
    BY <2>1, <2>2, <2>3, <2>4, <2>5, <2>6, <2>7, <2>8, <2>9, <2>10, <2>11,
       <2>12, <2>13, <2>14, <2>15, <2>16, <2>17, <2>18, Steps DEF OwnerActions
<1> QED BY <1>1, <1>2

\* Every step keeps the queue, the batch and the history in order.
LEMMA NextOrder == IndInv /\ [Next]_vars => QueueOrder'
<1> SUFFICES ASSUME IndInv, [Next]_vars
             PROVE  QueueOrder'
  OBVIOUS
<1> USE DEF IndInv, TypeOK, DataTypes, QueueOrder
<1>1. CASE UNCHANGED <<pending_tasks, batch, posted, done>>
  BY <1>1
<1>2. CASE SwapPending
  <2>1. Len(batch) = 0
    BY <1>2 DEF SwapPending, Phases
  <2> QED BY <1>2, <2>1 DEF SwapPending
<1>3. CASE StartTask
  <2>1. Head(batch) = Len(done) + 1
    BY <1>3 DEF StartTask
  <2>2. /\ Len(batch') = Len(batch) - 1
        /\ \A i \in 1 .. Len(batch') : batch'[i] = batch[i + 1]
        /\ Len(done') = Len(done) + 1
        /\ \A i \in 1 .. Len(done) : done'[i] = done[i]
        /\ done'[Len(done) + 1] = Len(done) + 1
        /\ pending_tasks' = pending_tasks
        /\ posted' = posted
    BY <1>3, <2>1 DEF StartTask
  <2>3. ASSUME NEW i \in 1 .. Len(done')
        PROVE  done'[i] = i
    <3>1. i \in 1 .. Len(done) \/ i = Len(done) + 1
      BY <2>2
    <3> QED BY <2>2, <3>1
  <2>4. \A i \in 1 .. Len(batch') : batch'[i] = Len(done') + i
    BY <2>2
  <2>5. Len(done') + Len(batch') = Len(done) + Len(batch)
    BY <2>2
  <2> QED BY <2>2, <2>3, <2>4, <2>5
<1>4. CASE PushTask /\ UNCHANGED <<batch, done>>
  <2>1. /\ Len(pending_tasks') = Len(pending_tasks) + 1
        /\ \A i \in 1 .. Len(pending_tasks) : pending_tasks'[i] = pending_tasks[i]
        /\ pending_tasks'[Len(pending_tasks) + 1] = posted + 1
        /\ posted' = posted + 1
    BY <1>4 DEF PushTask
  <2>2. ASSUME NEW i \in 1 .. Len(pending_tasks')
        PROVE  pending_tasks'[i] = Len(done) + Len(batch) + i
    <3>1. i \in 1 .. Len(pending_tasks) \/ i = Len(pending_tasks) + 1
      BY <2>1
    <3>2. CASE i \in 1 .. Len(pending_tasks)
      BY <2>1, <3>2
    <3>3. CASE i = Len(pending_tasks) + 1
      BY <2>1, <3>3
    <3> QED BY <3>1, <3>2, <3>3
  <2> QED BY <1>4, <2>1, <2>2
<1> QED
  BY <1>1, <1>2, <1>3, <1>4
     DEF Next, LoopStep, vars, Run, CheckRunning, PollReady, PollNothing,
         OnWakeup, HandleIO, HandlerReturns, EventsHandled, TaskReturns,
         BatchDone, OwnerQueueTask, OwnerQuit, ThreadQueueTask, ThreadQuit,
         Wakeup

\* Every step keeps the phases of the loop apart.
LEMMA NextPhases == IndInv /\ [Next]_vars => Phases' /\ OnWakeupReads'
<1> SUFFICES ASSUME IndInv, [Next]_vars
             PROVE  Phases' /\ OnWakeupReads'
  OBVIOUS
<1> USE DEF IndInv, TypeOK, DataTypes, Phases, OnWakeupReads, Locations
<1>1. CASE Run \/ CheckRunning \/ PollNothing
  BY <1>1 DEF Run, CheckRunning, PollNothing
<1>6. CASE PollReady
  BY <1>6 DEF PollReady
<1>7. CASE OnWakeup
  BY <1>7 DEF OnWakeup
<1>8. CASE HandleIO
  BY <1>8 DEF HandleIO
<1>9. CASE HandlerReturns
  BY <1>9 DEF HandlerReturns
<1>10. CASE EventsHandled
  BY <1>10 DEF EventsHandled
<1>2. CASE SwapPending \/ StartTask \/ TaskReturns \/ BatchDone
  BY <1>2 DEF SwapPending, StartTask, TaskReturns, BatchDone
<1>3. CASE OwnerQueueTask \/ OwnerQuit
  BY <1>3 DEF OwnerQueueTask, OwnerQuit, InUserCode
<1>4. ASSUME NEW t \in Threads, ThreadQueueTask(t) \/ ThreadQuit(t) \/ Wakeup(t)
      PROVE  Phases' /\ OnWakeupReads'
  BY <1>4 DEF ThreadQueueTask, ThreadQuit, Wakeup
<1>5. CASE UNCHANGED vars
  BY <1>5 DEF vars
<1> QED
  BY <1>1, <1>2, <1>3, <1>4, <1>5, <1>6, <1>7, <1>8, <1>9,
     <1>10, Steps DEF OwnerActions

\* Every step keeps a wakeup in the eventfd, or on its way there, for every task
\* and every Quit that needs one.
LEMMA NextCovered == IndInv /\ [Next]_vars => TasksCovered' /\ NoStrandedQuit'
<1> SUFFICES ASSUME IndInv, [Next]_vars
             PROVE  TasksCovered' /\ NoStrandedQuit'
  OBVIOUS
<1> USE DEF IndInv, TypeOK, DataTypes, Phases, TasksCovered, NoStrandedQuit, PastTheSwap,
            WakeupComing, Locations
<1>1. CASE Run \/ CheckRunning \/ PollReady \/ PollNothing \/ OnWakeup
        \/ HandleIO \/ HandlerReturns \/ EventsHandled
  BY <1>1 DEF Run, CheckRunning, PollReady, PollNothing, OnWakeup, HandleIO,
              HandlerReturns, EventsHandled
<1>2. CASE SwapPending
  BY <1>2 DEF SwapPending
<1>3. CASE StartTask \/ TaskReturns \/ BatchDone
  BY <1>3 DEF StartTask, TaskReturns, BatchDone
<1>4. CASE OwnerQueueTask
  <2>1. CASE pc = "handler"
    BY <1>4, <2>1 DEF OwnerQueueTask, InUserCode
  <2>2. CASE pc = "in_task"
    BY <1>4, <2>2 DEF OwnerQueueTask, InUserCode
  <2>3. CASE pc \in {"idle", "exited"}
    BY <1>4, <2>3 DEF OwnerQueueTask, InUserCode, PushTask
  <2> QED BY <1>4, <2>1, <2>2, <2>3 DEF OwnerQueueTask, InUserCode
<1>5. CASE OwnerQuit
  BY <1>5 DEF OwnerQuit, InUserCode
<1>6. ASSUME NEW t \in Threads, ThreadQueueTask(t) \/ ThreadQuit(t)
      PROVE  TasksCovered' /\ NoStrandedQuit'
  <2>1. WakeupComing'
    BY <1>6 DEF ThreadQueueTask, ThreadQuit
  <2> QED BY <2>1
<1>7. ASSUME NEW t \in Threads, Wakeup(t)
      PROVE  TasksCovered' /\ NoStrandedQuit'
  <2>1. WakeupComing'
    BY <1>7 DEF Wakeup
  <2> QED BY <2>1
<1>8. CASE UNCHANGED vars
  BY <1>8 DEF vars
<1> QED
  BY <1>1, <1>2, <1>3, <1>4, <1>5, <1>6, <1>7, <1>8 DEF Next, LoopStep

\* The invariant is inductive, hence holds throughout every behaviour of Spec.
THEOREM Invariance == Spec => []IndInv
<1>1. IndInv /\ [Next]_vars => IndInv'
  BY NextType, NextOrder, NextPhases, NextCovered DEF IndInv
<1> QED BY InitInd, <1>1, PTL DEF Spec

\* The flags, queues and counters of the loop keep their types.
THEOREM TypeCorrect == Spec => []TypeOK
<1>1. IndInv => TypeOK
  BY DEF IndInv
<1> QED BY Invariance, <1>1, PTL

\* QueueTask and ProcessPendingTasks run every task once, in queueing order.
THEOREM TasksInOrder == Spec => []QueueOrder
<1>1. IndInv => QueueOrder
  BY DEF IndInv
<1> QED BY Invariance, <1>1, PTL

\* poll() never blocks over a queued task nobody will wake the loop for.
THEOREM NoTaskStranded == Spec => []NoStrandedTask
<1>1. IndInv => NoStrandedTask
  BY DEF IndInv, TasksCovered, PastTheSwap, NoStrandedTask
<1> QED BY Invariance, <1>1, PTL

\* poll() never blocks over a Quit nobody will wake the loop for.
THEOREM NoQuitStranded == Spec => []NoStrandedQuit
<1>1. IndInv => NoStrandedQuit
  BY DEF IndInv
<1> QED BY Invariance, <1>1, PTL

=============================================================================
