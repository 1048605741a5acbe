-------------------------- MODULE TcpServerThreads ---------------------------
(***************************************************************************)
(* TCPConnection::Send and Shutdown called from threads other than the     *)
(* loop's, which RunTask lets them do: they look at state_ without a lock, *)
(* then queue a lambda that has captured `this`.  User code on the loop    *)
(* hands shared_ptrs of connections to the threads; a thread may drop its  *)
(* shared_ptr as soon as its call has returned.  tcp_connection.h says of  *)
(* Send that it "Should be thread-safe".                                   *)
(***************************************************************************)
EXTENDS TcpServer

CONSTANTS
    Threads,
    NoConn      \* a thread has no connection

VARIABLES
    has,        \* the connection a thread has a shared_ptr of
    at          \* "idle", or where the thread is in Send or Shutdown

threadVars == <<has, at>>

ThreadsInit ==
    /\ Init
    /\ has = [t \in Threads |-> NoConn]
    /\ at = [t \in Threads |-> "idle"]

\* A step of the server leaves the threads alone.
ServerStep == Next /\ UNCHANGED threadVars

HandOver(t) ==
    /\ pc = "user" /\ cur \in Conns
    /\ has[t] = NoConn
    /\ has' = [has EXCEPT ![t] = cur]
    /\ UNCHANGED <<vars, at>>

DropConn(t) ==
    /\ at[t] = "idle" /\ has[t] # NoConn
    /\ has' = [has EXCEPT ![t] = NoConn]
    /\ UNCHANGED <<vars, at>>

\* Send and Shutdown, bounded like the calls on the loop, find the connection
\* connected ...
CheckConnected(t, op) ==
    /\ at[t] = "idle" /\ has[t] # NoConn
    /\ sends[has[t]] < MaxSends
    /\ state_[has[t]] = "Connected"
    /\ sends' = [sends EXCEPT ![has[t]] = @ + 1]
    /\ at' = [at EXCEPT ![t] = op]
    /\ UNCHANGED <<connVars, pollVars, taskVars, stepVars, held, story, peerVars,
                   wr_shut, ensured, has>>

\* ... Shutdown then sets state_ ...
SetDisconnecting(t) ==
    /\ at[t] = "shutdown"
    /\ state_' = [state_ EXCEPT ![has[t]] = "Disconnecting"]
    /\ at' = [at EXCEPT ![t] = "shutdown2"]
    /\ UNCHANGED <<listenning, output_, connections_, pollVars, taskVars, stepVars,
                   userVars, peerVars, wr_shut, ensured, has>>

\* ... and both queue a task with the raw pointer and return.
QueueRaw(t) ==
    /\ at[t] \in {"send", "shutdown2"}
    /\ pending_tasks' = Append(pending_tasks, Task(at[t], has[t]))
    /\ at' = [at EXCEPT ![t] = "idle"]
    /\ UNCHANGED <<connVars, pollVars, batch, batch_refs, stepVars, userVars,
                   peerVars, wr_shut, ensured, has>>

\* The loop runs such a task.
RunRaw ==
    /\ pc = "tasks"
    /\ batch # <<>> /\ Head(batch).op # "Destroy"
    /\ batch' = Tail(batch)
    /\ IF Head(batch).op = "send"
       THEN /\ \E n \in Sizes : SendInLoop(Head(batch).conn, n)
            /\ UNCHANGED wr_shut
       ELSE /\ ShutdownInLoop(Head(batch).conn)
            /\ UNCHANGED <<output_, interest>>
    /\ UNCHANGED <<listenning, state_, connections_, ready, pending_tasks,
                   batch_refs, stepVars, userVars, peerVars, ensured, threadVars>>

ThreadsNext ==
    \/ ServerStep
    \/ RunRaw
    \/ \E t \in Threads :
          \/ HandOver(t) \/ DropConn(t)
          \/ CheckConnected(t, "send") \/ CheckConnected(t, "shutdown")
          \/ SetDisconnecting(t) \/ QueueRaw(t)

ThreadsSpec == ThreadsInit /\ [][ThreadsNext]_<<vars, threadVars>>

-----------------------------------------------------------------------------

\* What "thread-safe" means for Send at the least: the task that the loop is about
\* to run for a connection, and the poll set, point to a connection that somebody
\* still has a shared_ptr of.
SendIsThreadSafe ==
    LET Alive(c) == Referenced(c) \/ \E t \in Threads : has[t] = c
    IN  /\ \A c \in Conns : interest[c].polled => Alive(c)
        /\ pc = "tasks" /\ batch # <<>> => Alive(Head(batch).conn)

=============================================================================
