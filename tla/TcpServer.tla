------------------------------ MODULE TcpServer ------------------------------
(***************************************************************************)
(* NetworkInfra's TCPServer, Acceptor and TCPConnection on one EventLoop   *)
(* (tcp_server, acceptor, tcp_connection .h and .cpp), everything on the   *)
(* thread of the loop: accepted connections, their states, their output    *)
(* buffers, the interest of their channels in the poll set, the tasks that *)
(* destroy them, and the shared_ptrs that keep them alive.                 *)
(*                                                                         *)
(* The Poller is PollSet, the specification Poller.tla implements.  The    *)
(* loop polls, handles every reported channel, then runs the pending tasks *)
(* (EventLoop.tla has the details).  Peers and sockets are the environment.*)
(* Connection and message handlers are user code, which may send on, shut  *)
(* down and keep any connection it has.                                    *)
(***************************************************************************)
EXTENDS Naturals, Sequences, FiniteSets

CONSTANTS
    Conns,      \* the TCPConnection objects of a behaviour
    Listener,   \* the channel of the Acceptor
    Sizes,      \* sizes of the messages user code sends
    MaxSends,   \* bound: Send calls on a connection
    MaxRecv     \* bound: messages of a peer

ASSUME ConstantsAssumption ==
    /\ Listener \notin Conns
    /\ Sizes \subseteq Nat
    /\ MaxSends \in Nat /\ MaxRecv \in Nat

VARIABLES
    listenning,      \* Acceptor::listenning_
    state_,          \* TCPConnection::state_, or "None" before the connection
    output_,         \* readable_size() of TCPConnection::output_buf_
    connections_,    \* TCPServer::connections_
    interest,        \* the poll set, see PollSet
    ready,           \* channels poll() reported and Run has yet to handle
    pending_tasks,   \* the queue of the loop
    batch,           \* the tasks ProcessPendingTasks has taken and not run
    batch_refs,      \* connections bound to a task of the whole batch
    pc, cur, todo,   \* where the loop is: step, channel, handlers yet to call
    ret,             \* where the loop goes on when user code returns
    held,            \* connections user code keeps a shared_ptr of
    story,           \* what connection_handler_ was told: "new", "up", "down"
    sends, recv,     \* how many Send calls, how many messages of the peer
    inbox,           \* messages in the receive buffer of the socket
    peer, err,       \* "open", "closed" or "reset"; its error is still to be read
    wr_shut,         \* shutdown(SHUT_WR) was called on the socket
    backlog,         \* connections to be accepted
    ensured          \* FALSE once an ENSURE has failed

connVars == <<listenning, state_, output_, connections_>>
pollVars == <<interest, ready>>
taskVars == <<pending_tasks, batch, batch_refs>>
stepVars == <<pc, cur, todo, ret>>
userVars == <<held, story, sends>>
peerVars == <<recv, inbox, peer, err, backlog>>

vars == <<connVars, pollVars, taskVars, stepVars, userVars, peerVars, wr_shut,
          ensured>>

Channels == Conns \cup {Listener}

Revents == {"IN", "OUT", "HUP", "ERR"}

PS == INSTANCE PollSet

\* The loop has been created and the server too; user code is about to Start
\* it and to Run the loop.
Init ==
    /\ listenning = FALSE
    /\ state_ = [c \in Conns |-> "None"]
    /\ output_ = [c \in Conns |-> 0]
    /\ connections_ = {}
    /\ PS!Init
    /\ pending_tasks = <<>> /\ batch = <<>> /\ batch_refs = {}
    /\ pc = "user" /\ cur = Listener /\ todo = <<>> /\ ret = "poll"
    /\ held = {}
    /\ story = [c \in Conns |-> "new"]
    /\ sends = [c \in Conns |-> 0]
    /\ recv = [c \in Conns |-> 0]
    /\ inbox = [c \in Conns |-> 0]
    /\ peer = [c \in Conns |-> "open"]
    /\ err = [c \in Conns |-> FALSE]
    /\ wr_shut = [c \in Conns |-> FALSE]
    /\ backlog = 0
    /\ ensured = TRUE

\* A task of the queue: DestroyConnection holds a shared_ptr of its connection,
\* the other ones (TcpServerThreads) have a raw pointer.
Task(op, c) == [op |-> op, conn |-> c]

Owns(task, c) == task.op = "Destroy" /\ task.conn = c

-----------------------------------------------------------------------------
(* Channels.                                                               *)

IsWritingEnabled(c) == "Write" \in interest[c].events

\* What Poller::UpdateChannel makes of the entry of a channel with events_ ev: the
\* first call registers it, and every call without events turns the sign of the
\* descriptor.  (PollSet promises less.)
Updated(entry, ev) ==
    [polled |-> TRUE,
     events |-> ev,
     ignored |-> entry.polled /\ (entry.ignored # (ev = {}))]

\* interest with events_ of channel c set to ev.
With(c, ev) == [interest EXCEPT ![c] = Updated(interest[c], ev)]

\* Mistake: a hang-up is always a close, also when the end of the stream is to be
\* read.
HandlersHupCloses(rev) ==
    (IF "HUP" \in rev THEN <<"close">> ELSE <<>>)
    \o (IF "ERR" \in rev THEN <<"error">> ELSE <<>>)
    \o (IF "IN" \in rev THEN <<"read">> ELSE <<>>)
    \o (IF "OUT" \in rev THEN <<"write">> ELSE <<>>)

\* The handlers HandleEvents calls, in its order.
Handlers(rev) ==
    (IF "HUP" \in rev /\ "IN" \notin rev THEN <<"close">> ELSE <<>>)
    \o (IF "ERR" \in rev THEN <<"error">> ELSE <<>>)
    \o (IF "IN" \in rev THEN <<"read">> ELSE <<>>)
    \o (IF "OUT" \in rev THEN <<"write">> ELSE <<>>)

-----------------------------------------------------------------------------
(* Peers and sockets (external).                                           *)

ClientConnects ==
    /\ listenning
    /\ backlog + Cardinality({c \in Conns : state_[c] # "None"}) < Cardinality(Conns)
    /\ backlog' = backlog + 1
    /\ UNCHANGED <<connVars, pollVars, taskVars, stepVars, userVars, recv, inbox,
                   peer, err, wr_shut, ensured>>

PeerSends(c) ==
    /\ c \in connections_ /\ peer[c] = "open"
    /\ recv[c] < MaxRecv
    /\ recv' = [recv EXCEPT ![c] = @ + 1]
    /\ inbox' = [inbox EXCEPT ![c] = @ + 1]
    /\ UNCHANGED <<connVars, pollVars, taskVars, stepVars, userVars, peer, err,
                   backlog, wr_shut, ensured>>

PeerCloses(c) ==
    /\ c \in connections_ /\ peer[c] = "open"
    /\ peer' = [peer EXCEPT ![c] = "closed"]
    /\ UNCHANGED <<connVars, pollVars, taskVars, stepVars, userVars, recv, inbox,
                   err, backlog, wr_shut, ensured>>

\* A reset drops what was not read.  Its error is told once, by read(2) or by
\* getsockopt(SO_ERROR); from then on read(2) returns 0.
PeerResets(c) ==
    /\ c \in connections_ /\ peer[c] # "reset"
    /\ peer' = [peer EXCEPT ![c] = "reset"]
    /\ err' = [err EXCEPT ![c] = TRUE]
    /\ inbox' = [inbox EXCEPT ![c] = 0]
    /\ UNCHANGED <<connVars, pollVars, taskVars, stepVars, userVars, recv, backlog,
                   wr_shut, ensured>>

Over(c) == peer[c] # "open"
Hup(c) == peer[c] = "reset" \/ (peer[c] = "closed" /\ wr_shut[c])

\* What poll(2) may answer for the socket of connection c.  It is writable as long
\* as there is room in its send buffer, which is up to the peer: one that does not
\* read leaves it full.  At a hang-up with nothing to be read, POSIX leaves open
\* whether the socket is readable too.
Answers(c) ==
    LET ev == interest[c].events
        hup == (IF Hup(c) THEN {"HUP"} ELSE {}) \cup (IF err[c] THEN {"ERR"} ELSE {})
        in == IF "Read" \in ev /\ (inbox[c] > 0 \/ Over(c)) THEN {"IN"} ELSE {}
        outs == IF "Write" \in ev THEN {{}, {"OUT"}} ELSE {{}}
        ins == {in} \cup IF Hup(c) /\ inbox[c] = 0 THEN {{}} ELSE {}
    IN  {a[1] \cup a[2] \cup hup : a \in ins \X outs}

ListenerAnswers ==
    {IF "Read" \in interest[Listener].events /\ backlog > 0 THEN {"IN"} ELSE {}}

-----------------------------------------------------------------------------
(* The loop.                                                               *)

\* Poll: poll(2) answers for every entry it does not ignore.
Poll ==
    /\ pc = "poll"
    /\ LET Watched == {h \in Channels : interest[h].polled /\ ~interest[h].ignored}
           Of(h) == IF h = Listener THEN ListenerAnswers ELSE Answers(h)
       IN  \E answer \in [Watched -> UNION {Of(h) : h \in Watched}] :
              /\ \A h \in Watched : answer[h] \in Of(h)
              /\ ready' = {<<h, answer[h]>> : h \in {g \in Watched : answer[g] # {}}}
    /\ pc' = "events"
    /\ UNCHANGED <<connVars, interest, taskVars, cur, todo, ret, userVars,
                   peerVars, wr_shut, ensured>>

\* Run calls HandleEvents of the next reported channel.
HandleEvents ==
    /\ pc = "events"
    /\ \E r \in ready :
          /\ ready' = ready \ {r}
          /\ cur' = r[1]
          /\ todo' = Handlers(r[2])
    /\ pc' = "dispatch"
    /\ UNCHANGED <<connVars, interest, taskVars, ret, userVars, peerVars, wr_shut,
                   ensured>>

\* HandleEvents returns.
HandleEventsReturns ==
    /\ pc = "dispatch"
    /\ todo = <<>>
    /\ pc' = "events"
    /\ UNCHANGED <<connVars, pollVars, taskVars, cur, todo, ret, userVars,
                   peerVars, wr_shut, ensured>>

\* ProcessPendingTasks takes the queue.
ProcessPendingTasks ==
    /\ pc = "events"
    /\ ready = {}
    /\ batch' = pending_tasks
    /\ batch_refs' = {c \in Conns : \E i \in DOMAIN pending_tasks : Owns(pending_tasks[i], c)}
    /\ pending_tasks' = <<>>
    /\ pc' = "tasks"
    /\ UNCHANGED <<connVars, pollVars, cur, todo, ret, userVars, peerVars,
                   wr_shut, ensured>>

\* The batch has run and its vector goes, with the shared_ptrs bound to tasks.
TasksDone ==
    /\ pc = "tasks"
    /\ batch = <<>>
    /\ batch_refs' = {}
    /\ pc' = "poll"
    /\ UNCHANGED <<connVars, pollVars, pending_tasks, batch, cur, todo, ret,
                   userVars, peerVars, wr_shut, ensured>>

\* The loop calls handler h of channel cur.
Calls(h) ==
    /\ pc = "dispatch"
    /\ todo # <<>>
    /\ Head(todo) = h
    /\ todo' = Tail(todo)

\* The loop calls a handler of the user, for connection c.
CallUser(c, next) ==
    /\ pc' = "user"
    /\ cur' = c
    /\ ret' = next

-----------------------------------------------------------------------------
(* Acceptor and TCPServer.                                                 *)

\* Acceptor::HandleNewConnection, with an accept4(2) that succeeds.
Accept ==
    /\ Calls("read")
    /\ cur = Listener
    /\ backlog > 0
    /\ backlog' = backlog - 1

\* TCPConnection::EstablishConnection, up to the call of connection_handler_.
EstablishConnection(c) ==
    /\ state_' = [state_ EXCEPT ![c] = "Connected"]
    /\ interest' = With(c, interest[c].events \cup {"Read"})
    /\ story' = [story EXCEPT ![c] = "up"]
    /\ CallUser(c, "dispatch")

\* TCPServer::HandleNewConnection: a new connection is one that has no state yet.
HandleNewConnection(c) ==
    /\ Accept
    /\ state_[c] = "None"
    /\ connections_' = connections_ \cup {c}
    /\ EstablishConnection(c)
    /\ UNCHANGED <<listenning, output_, ready, taskVars, held, sends, recv, inbox,
                   peer, err, wr_shut, ensured>>

\* TCPServer::RemoveConnection queues DestroyConnection.
RemoveConnection(c) ==
    /\ connections_' = connections_ \ {c}
    /\ pending_tasks' = Append(pending_tasks, Task("Destroy", c))

\* The ENSUREs of HandleClose and RemoveConnection.
MayClose(c) == state_[c] \in {"Connected", "Disconnecting"} /\ c \in connections_

\* Mistake: the connection is taken off the poll set while its channel, and
\* those after it, are being handled.
HandleCloseRemoves(c) ==
    /\ ensured' = (ensured /\ MayClose(c))
    /\ interest' = [interest EXCEPT ![c] = PS!NotPolled]
    /\ RemoveConnection(c)

\* Mistake: the connection is forgotten without a task to destroy it.
HandleCloseNotQueued(c) ==
    /\ ensured' = (ensured /\ MayClose(c))
    /\ interest' = With(c, {})
    /\ connections_' = connections_ \ {c}
    /\ UNCHANGED pending_tasks

\* TCPConnection::HandleClose, which leaves state_ alone, with close_handler_.
HandleClose(c) ==
    /\ ensured' = (ensured /\ MayClose(c))
    /\ interest' = With(c, {})
    /\ RemoveConnection(c)

\* TCPConnection::DestroyConnection, as a task, up to connection_handler_, which it
\* calls without the test EstablishConnection makes: user code has set one ...
DestroyConnection ==
    /\ pc = "tasks"
    /\ batch # <<>>
    /\ Head(batch).op = "Destroy"
    /\ batch' = Tail(batch)
    /\ LET c == Head(batch).conn IN
          /\ state_' = [state_ EXCEPT ![c] = "Disconnected"]
          /\ interest' = With(c, {})
          /\ story' = [story EXCEPT ![c] = "down"]
          /\ CallUser(c, "destroy")
    /\ UNCHANGED <<listenning, output_, connections_, ready, pending_tasks,
                   batch_refs, todo, held, sends, peerVars, wr_shut, ensured>>

\* Mistake: the channel of a destroyed connection is only disabled.
DestroyConnectionEndDisableOnly ==
    /\ pc = "destroy"
    /\ pc' = "tasks"
    /\ UNCHANGED <<connVars, interest, ready, taskVars, cur, todo, ret, userVars,
                   peerVars, wr_shut, ensured>>

\* ... and after it: the channel leaves the poll set.
DestroyConnectionEnd ==
    /\ pc = "destroy"
    /\ pc' = "tasks"
    /\ ensured' = (ensured /\ interest[cur].polled)
    /\ interest' = [interest EXCEPT ![cur] = PS!NotPolled]
    /\ UNCHANGED <<connVars, ready, taskVars, cur, todo, ret, userVars, peerVars,
                   wr_shut>>

-----------------------------------------------------------------------------
(* TCPConnection: reading and writing.                                     *)

\* HandleRead with data: message_handler_ is called.
HandleReadMessage ==
    /\ Calls("read")
    /\ cur \in Conns
    /\ inbox[cur] > 0
    /\ inbox' = [inbox EXCEPT ![cur] = 0]
    /\ CallUser(cur, "dispatch")
    /\ UNCHANGED <<connVars, pollVars, taskVars, userVars, recv, peer, err, backlog,
                   wr_shut, ensured>>

\* HandleError logs the error of the socket, which clears it: as the error
\* handler of the channel, or when read(2) fails.
HandleError ==
    /\ Calls("error") \/ (Calls("read") /\ cur \in Conns /\ err[cur])
    /\ err' = [err EXCEPT ![cur] = FALSE]
    /\ UNCHANGED <<connVars, pollVars, taskVars, pc, cur, ret, userVars, recv,
                   inbox, peer, backlog, wr_shut, ensured>>

\* HandleRead at the end of the stream, or the close handler of the channel.
HandleEnd ==
    /\ \/ Calls("close")
       \/ Calls("read") /\ cur \in Conns /\ inbox[cur] = 0 /\ ~err[cur] /\ Over(cur)
    /\ HandleClose(cur)
    /\ UNCHANGED <<listenning, state_, output_, ready, batch, batch_refs, pc, cur,
                   ret, userVars, peerVars, wr_shut>>

\* HandleWrite when writing is no longer enabled, or when write(2) takes nothing:
\* the channel stays as it is.
HandleWriteNothing ==
    /\ Calls("write")
    /\ UNCHANGED <<connVars, pollVars, taskVars, pc, cur, ret, userVars, peerVars,
                   wr_shut, ensured>>

\* Mistake: a connection that is shutting down forgets SHUT_WR once it has
\* written everything.
WrittenNoShutdown(c) ==
    /\ interest' = With(c, interest[c].events \ {"Write"})
    /\ UNCHANGED wr_shut

\* Mistake: writing stays enabled when there is nothing left to write.
WrittenKeepsWriting(c) ==
    /\ wr_shut' = [wr_shut EXCEPT ![c] = @ \/ state_[c] = "Disconnecting"]
    /\ UNCHANGED interest

\* The end of HandleWrite when the output buffer has become empty.
Written(c) ==
    /\ interest' = With(c, interest[c].events \ {"Write"})
    /\ wr_shut' = [wr_shut EXCEPT ![c] = @ \/ state_[c] = "Disconnecting"]

\* HandleWrite when write(2) takes n bytes.
HandleWrite(c) ==
    /\ Calls("write")
    /\ cur = c
    /\ IsWritingEnabled(c)
    /\ peer[c] # "reset" /\ ~wr_shut[c]
    /\ \E n \in 1 .. output_[c] :
          /\ output_' = [output_ EXCEPT ![c] = @ - n]
          /\ IF n = output_[c] THEN Written(c) ELSE UNCHANGED <<interest, wr_shut>>
    /\ UNCHANGED <<listenning, state_, connections_, ready, taskVars, pc, cur, ret,
                   userVars, peerVars, ensured>>

-----------------------------------------------------------------------------
(* User code on the thread of the loop.                                    *)

\* The connections user code has: the one it was called for and those it kept.
AtHand == held \cup ({cur} \cap Conns)

\* Acceptor::Listen.
Listen ==
    /\ listenning' = TRUE
    /\ interest' = With(Listener, interest[Listener].events \cup {"Read"})

\* TCPServer::Start; RunTask calls its task at once.
Start ==
    /\ pc = "user"
    /\ ~listenning
    /\ Listen
    /\ UNCHANGED <<state_, output_, connections_, ready, taskVars, stepVars,
                   userVars, peerVars, wr_shut, ensured>>

\* SendInLoop.
SendInLoop(c, n) ==
    /\ output_' = [output_ EXCEPT ![c] = @ + n]
    /\ interest' = IF IsWritingEnabled(c)
                   THEN interest
                   ELSE With(c, interest[c].events \cup {"Write"})

\* Send, on a connection it does not ignore.
Send(c, n) ==
    /\ pc = "user" /\ c \in AtHand
    /\ sends[c] < MaxSends
    /\ state_[c] = "Connected"
    /\ sends' = [sends EXCEPT ![c] = @ + 1]
    /\ SendInLoop(c, n)
    /\ UNCHANGED <<listenning, state_, connections_, ready, taskVars, stepVars,
                   held, story, peerVars, wr_shut, ensured>>

\* Mistake: SHUT_WR at once, whether or not there is output to write.
ShutdownAtOnce(c) == wr_shut' = [wr_shut EXCEPT ![c] = TRUE]

ShutdownInLoop(c) ==
    wr_shut' = IF IsWritingEnabled(c) THEN wr_shut
                                      ELSE [wr_shut EXCEPT ![c] = TRUE]

\* Shutdown, on a connection it does not ignore.
Shutdown(c) ==
    /\ pc = "user" /\ c \in AtHand
    /\ state_[c] = "Connected"
    /\ state_' = [state_ EXCEPT ![c] = "Disconnecting"]
    /\ ShutdownInLoop(c)
    /\ UNCHANGED <<listenning, output_, connections_, pollVars, taskVars, stepVars,
                   userVars, peerVars, ensured>>

\* User code keeps a shared_ptr, or drops one.
Keep ==
    /\ pc = "user" /\ cur \in Conns
    /\ held' = held \cup {cur}
    /\ UNCHANGED <<connVars, pollVars, taskVars, stepVars, story, sends, peerVars,
                   wr_shut, ensured>>

Drop(c) ==
    /\ pc = "user" /\ c \in held
    /\ held' = held \ {c}
    /\ UNCHANGED <<connVars, pollVars, taskVars, stepVars, story, sends, peerVars,
                   wr_shut, ensured>>

UserReturns ==
    /\ pc = "user"
    /\ pc' = ret
    /\ UNCHANGED <<connVars, pollVars, taskVars, cur, todo, ret, userVars, peerVars,
                   wr_shut, ensured>>

-----------------------------------------------------------------------------

LoopStep ==
    \/ Poll \/ HandleEvents \/ HandleEventsReturns \/ ProcessPendingTasks
    \/ TasksDone \/ DestroyConnection \/ DestroyConnectionEnd
    \/ HandleReadMessage \/ HandleError \/ HandleEnd
    \/ HandleWriteNothing \/ UserReturns
    \/ \E c \in Conns : HandleNewConnection(c) \/ HandleWrite(c)

UserStep ==
    \/ Start \/ Keep
    \/ \E c \in Conns : (\E n \in Sizes : Send(c, n)) \/ Shutdown(c) \/ Drop(c)

PeerStep ==
    \/ ClientConnects
    \/ \E c \in Conns : PeerSends(c) \/ PeerCloses(c) \/ PeerResets(c)

Next == LoopStep \/ UserStep \/ PeerStep

Spec == Init /\ [][Next]_vars

\* The thread of the loop keeps running, handlers of the user return, and a
\* socket that is reported writable again and again takes bytes in the end.
\* Peers and users may do nothing; a peer may leave its socket full for ever.
FairSpec ==
    /\ Spec
    /\ WF_vars(LoopStep)
    /\ \A c \in Conns : SF_vars(HandleWrite(c))

-----------------------------------------------------------------------------
(* Properties.                                                             *)

\* Every variable has its type: the members of TCPServer, Acceptor and
\* TCPConnection, and the state of the loop, of user code and of the sockets.
TypeOK ==
    /\ listenning \in BOOLEAN
    /\ state_ \in [Conns -> {"None", "Connected", "Disconnecting", "Disconnected"}]
    /\ output_ \in [Conns -> Nat]
    /\ connections_ \in SUBSET Conns
    /\ interest \in [Channels -> PS!Entries]
    /\ ready \in SUBSET (Channels \X SUBSET Revents)
    /\ pending_tasks \in Seq([op : {"Destroy"}, conn : Conns])
    /\ batch \in Seq([op : {"Destroy"}, conn : Conns])
    /\ batch_refs \in SUBSET Conns
    /\ pc \in {"poll", "events", "dispatch", "tasks", "user", "destroy"}
    /\ cur \in Channels
    /\ todo \in Seq({"close", "error", "read", "write"})
    /\ ret \in {"poll", "dispatch", "destroy"}
    /\ held \in SUBSET Conns
    /\ story \in [Conns -> {"new", "up", "down"}]
    /\ sends \in [Conns -> Nat] /\ recv \in [Conns -> Nat] /\ inbox \in [Conns -> Nat]
    /\ peer \in [Conns -> {"open", "closed", "reset"}]
    /\ err \in [Conns -> BOOLEAN] /\ wr_shut \in [Conns -> BOOLEAN]
    /\ backlog \in Nat
    /\ ensured \in BOOLEAN

\* No ENSURE of HandleClose, RemoveConnection or RemoveChannel fails: whatever
\* poll(2) reports and whatever user code does in between, a connection is closed
\* once, while it is one of the server's, and its channel is registered when
\* DestroyConnection removes it.  (With the types of the variables.)
EnsuresHold == TypeOK /\ ensured

\* The shared_ptrs that keep the object of connection c alive.
Referenced(c) ==
    \/ c \in connections_ \cup held \cup batch_refs
    \/ \E i \in DOMAIN pending_tasks : Owns(pending_tasks[i], c)

\* The Poller, the vector of reported channels and a HandleEvents that is running
\* point to channels inside connections that are alive: the poll set keeps no
\* pointer to a connection whose last shared_ptr is gone, and HandleEvents does not
\* lose its own channel (the canary of ~Channel).
NoDangling ==
    \A c \in Conns :
        (\/ interest[c].polled
         \/ \E r \in ready : r[1] = c
         \/ pc = "dispatch" /\ cur = c) => Referenced(c)

\* When the loop goes to poll, the poll set is exactly what the connections of the
\* server need: each is watched for reading, and for writing if and only if it has
\* output; nobody else is registered, and no disabled entry is left behind, although
\* user code may send on and shut down connections that are closed but not yet
\* destroyed.
PollSetExact ==
    pc = "poll" =>
        /\ \A c \in Conns :
              IF c \in connections_
              THEN interest[c] = [polled |-> TRUE, ignored |-> FALSE,
                                  events |-> {"Read"} \cup
                                     IF output_[c] > 0 THEN {"Write"} ELSE {}]
              ELSE interest[c] = PS!NotPolled
        /\ interest[Listener].polled <=> listenning

\* The server sends FIN after all the output that Send took before Shutdown, as
\* long as the peer is there.
FinAfterFlush ==
    \A c \in connections_ : wr_shut[c] => output_[c] = 0

\* Handlers of the user are called in order: connection_handler_ once when the
\* connection is up, message_handler_ any number of times, connection_handler_ once
\* when it is down, and nothing after it, even if poll(2) had reported more.
CallbackOrder ==
    [][pc # "user" /\ pc' = "user" =>
          CASE pc = "tasks"                    -> story[cur'] = "up"
            [] pc = "dispatch" /\ cur \in Conns -> story[cur] = "up" /\ cur \in connections_
            [] OTHER                           -> story[cur'] = "new"]_vars

\* A channel leaves the poll set only when every reported channel has been handled:
\* RemoveChannel moves entries, and Poller.tla relies on nobody removing a channel
\* that Run is about to handle.
RemovedWhenIdle ==
    [][\A c \in Channels : interest[c].polled /\ ~interest'[c].polled
                               => ready = {} /\ pc # "dispatch"]_vars

\* A connection whose peer has closed or reset is reported down to the user and
\* leaves the poll set.
ClosedIsDestroyed ==
    \A c \in Conns : Over(c) ~> (story[c] = "down" /\ ~interest[c].polled)

\* The peer keeps reading: while the loop waits to write to connection c, poll(2)
\* finds its socket writable again and again.
PeerReads(c) ==
    []<>(~IsWritingEnabled(c) \/ \E r \in ready : r[1] = c /\ "OUT" \in r[2])

\* A connection that was shut down sends FIN in the end, unless it goes down first,
\* to a peer that keeps reading.  (Nothing ends the wait for a peer that does not.)
ShutdownCompletes ==
    \A c \in Conns :
        PeerReads(c) => (state_[c] = "Disconnecting" ~> (wr_shut[c] \/ story[c] = "down"))

=============================================================================
