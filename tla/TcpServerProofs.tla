--------------------------- MODULE TcpServerProofs ---------------------------
(***************************************************************************)
(* Proofs about TcpServer, for any number of connections, messages and     *)
(* peers: no ENSURE fails, nobody points to a connection that is gone, the *)
(* poll set is what the connections need whenever the loop polls, FIN      *)
(* comes after the output, and the user's handlers are called in order.    *)
(***************************************************************************)
EXTENDS TcpServer, TLAPS

-----------------------------------------------------------------------------
(* The inductive invariant.                                                *)

\* Where the loop is, seen from outside the user code it calls.
Where == IF pc = "user" THEN ret ELSE pc

\* The connections of the tasks of a queue, and those that wait to be destroyed.
TaskConns(q) == {q[i].conn : i \in DOMAIN q}
Queued == TaskConns(pending_tasks) \cup TaskConns(batch)
Distinct(q) == \A i, j \in DOMAIN q : q[i].conn = q[j].conn => i = j

\* DestroyConnection of c has called the user and not yet returned.
Destroying(c) == Where = "destroy" /\ cur = c

\* HandleEvents may still close the channel, and may do so once.
Ends == {"close", "read"}
MayEnd(s) == \E i \in DOMAIN s : s[i] \in Ends
OneEnd(s) == \A i, j \in DOMAIN s : s[i] \in Ends /\ s[j] \in Ends => i = j

\* Tasks are queued while channels are handled and gone before the next poll, a
\* connection has one task at most, and the batch keeps its connections.
TasksInv ==
    /\ Where \notin {"tasks", "destroy"} => batch = <<>> /\ batch_refs = {}
    /\ Where \notin {"events", "dispatch"} => pending_tasks = <<>> /\ ready = {}
    /\ TaskConns(batch) \subseteq batch_refs
    /\ Distinct(pending_tasks) /\ Distinct(batch)
    /\ Where = "destroy" => cur \in batch_refs /\ cur \notin TaskConns(batch)

\* A connection is the server's, waits to be destroyed, or is new or down; state_ and
\* what the user was told agree.
StagesInv ==
    \A c \in Conns :
        /\ c \in connections_ => c \notin Queued
        /\ c \in connections_ \cup Queued <=> state_[c] \in {"Connected", "Disconnecting"}
        /\ Destroying(c) => state_[c] = "Disconnected"
        /\ story[c] = CASE state_[c] = "None"         -> "new"
                        [] state_[c] = "Disconnected" -> "down"
                        [] OTHER                      -> "up"

\* Channels are in the poll set from EstablishConnection to the end of
\* DestroyConnection, and watched while the server has the connection.
InterestInv ==
    /\ \A c \in Conns :
          /\ interest[c].polled <=> c \in connections_ \cup Queued \/ Destroying(c)
          /\ interest[c].polled \/ interest[c] = PS!NotPolled
          /\ c \in connections_ => ~interest[c].ignored /\ "Read" \in interest[c].events
    /\ interest[Listener].polled <=> listenning

\* The channels yet to be handled are those of connections of the server, each is
\* reported once, and the listener only for reading.
ReadyInv ==
    /\ \A r \in ready : IF r[1] = Listener THEN r[2] \subseteq {"IN"} ELSE r[1] \in connections_
    /\ \A r, s \in ready : r[1] = s[1] => r = s
    /\ Where = "dispatch" => \A r \in ready : r[1] # cur

\* HandleEvents calls nothing that may close a connection twice.
DispatchInv ==
    Where = "dispatch" =>
        /\ OneEnd(todo)
        /\ IF cur = Listener
           THEN todo \in Seq({"read"})
           ELSE /\ cur \in connections_ \cup Queued
                /\ MayEnd(todo) => cur \in connections_

\* Output is watched for, and the socket is shut only when it is written.
OutputInv ==
    \A c \in Conns :
        /\ state_[c] \in {"None", "Connected"} => ~wr_shut[c]
        /\ state_[c] = "None" => output_[c] = 0
        /\ c \in connections_ =>
              /\ output_[c] > 0 => "Write" \in interest[c].events
              /\ wr_shut[c] => output_[c] = 0

\* If no empty message is sent, writing is watched for only if there is output.
WritingInv == \A c \in connections_ : "Write" \in interest[c].events => output_[c] > 0

ServerInv ==
    /\ TypeOK /\ ensured
    /\ TasksInv /\ StagesInv /\ InterestInv /\ ReadyInv /\ DispatchInv /\ OutputInv

-----------------------------------------------------------------------------
(* The operators of the model.                                             *)

\* The tasks of the queue and the handlers of a channel, as TypeOK has them.
TaskSet == [op : {"Destroy"}, conn : Conns]
HandlerNames == {"close", "error", "read", "write"}

\* What HandleEvents has left after a call: after one that may close, no other.
LEMMA TodoFacts ==
    ASSUME NEW S \in SUBSET HandlerNames, NEW s \in Seq(S), s # <<>>, OneEnd(s)
    PROVE  /\ Tail(s) \in Seq(S)
           /\ OneEnd(Tail(s))
           /\ MayEnd(Tail(s)) => MayEnd(s)
           /\ Head(s) \in Ends => MayEnd(s) /\ ~MayEnd(Tail(s))
<1>1. Tail(s) \in Seq(S) /\ \A i \in DOMAIN Tail(s) : i + 1 \in DOMAIN s /\ Tail(s)[i] = s[i + 1]
  OBVIOUS
<1>2. 1 \in DOMAIN s /\ Head(s) = s[1]
  OBVIOUS
<1>3. \A i \in DOMAIN Tail(s) : i \in Nat \ {0}
  BY <1>1
<1>4. OneEnd(Tail(s))
  BY <1>1, <1>3 DEF OneEnd
<1>5. MayEnd(Tail(s)) => MayEnd(s)
  BY <1>1 DEF MayEnd
<1>6. Head(s) \in Ends => MayEnd(s) /\ ~MayEnd(Tail(s))
  BY <1>1, <1>2, <1>3 DEF OneEnd, MayEnd
<1> QED BY <1>1, <1>4, <1>5, <1>6

\* Two lists of handlers, one after the other.
LEMMA ConcatFacts ==
    ASSUME NEW S \in SUBSET HandlerNames, NEW s \in Seq(S), NEW t \in Seq(S),
           OneEnd(s), OneEnd(t), ~(MayEnd(s) /\ MayEnd(t))
    PROVE  /\ s \o t \in Seq(S)
           /\ OneEnd(s \o t)
           /\ MayEnd(s \o t) => MayEnd(s) \/ MayEnd(t)
<1> DEFINE st == s \o t
<1>1. st \in Seq(S) /\ Len(st) = Len(s) + Len(t) /\ Len(s) \in Nat /\ Len(t) \in Nat
  OBVIOUS
<1>2. \A i \in DOMAIN st : IF i <= Len(s) THEN i \in DOMAIN s /\ st[i] = s[i]
                            ELSE i - Len(s) \in DOMAIN t /\ st[i] = t[i - Len(s)]
  BY <1>1
<1>3. DOMAIN st \subseteq Nat
  BY <1>1
<1> HIDE DEF st
<1>4. OneEnd(st)
  BY <1>1, <1>2, <1>3 DEF OneEnd, MayEnd
<1>5. MayEnd(st) => MayEnd(s) \/ MayEnd(t)
  BY <1>2 DEF MayEnd
<1> QED BY <1>1, <1>4, <1>5 DEF st

\* HandleEvents never calls both the close and the read handler, and for the listener
\* only the read handler.
LEMMA HandlersFacts ==
    ASSUME NEW rev
    PROVE  /\ Handlers(rev) \in Seq(HandlerNames)
           /\ OneEnd(Handlers(rev))
           /\ rev \subseteq {"IN"} => Handlers(rev) \in Seq({"read"})
<1> DEFINE a == IF "HUP" \in rev /\ "IN" \notin rev THEN <<"close">> ELSE <<>>
           b == IF "ERR" \in rev THEN <<"error">> ELSE <<>>
           c == IF "IN" \in rev THEN <<"read">> ELSE <<>>
           d == IF "OUT" \in rev THEN <<"write">> ELSE <<>>
           S == IF rev \subseteq {"IN"} THEN {"read"} ELSE HandlerNames
<1>1. S \in SUBSET HandlerNames
  BY DEF HandlerNames
<1>2. /\ a \in Seq(S) /\ OneEnd(a) /\ (MayEnd(a) => "HUP" \in rev /\ "IN" \notin rev)
      /\ b \in Seq(S) /\ OneEnd(b) /\ ~MayEnd(b)
      /\ c \in Seq(S) /\ OneEnd(c) /\ (MayEnd(c) => "IN" \in rev)
      /\ d \in Seq(S) /\ OneEnd(d) /\ ~MayEnd(d)
  <2> HIDE DEF S
  <2>1. <<>> \in Seq(S) /\ OneEnd(<<>>) /\ ~MayEnd(<<>>)
    BY DEF OneEnd, MayEnd
  <2>2. ASSUME NEW x \in S
        PROVE  <<x>> \in Seq(S) /\ OneEnd(<<x>>) /\ (MayEnd(<<x>>) => x \in Ends)
    <3>1. <<x>> \in Seq(S) /\ DOMAIN <<x>> = {1} /\ <<x>>[1] = x
      OBVIOUS
    <3> QED BY <3>1 DEF OneEnd, MayEnd
  <2>3. /\ "IN" \in rev => "read" \in S
        /\ "HUP" \in rev => "close" \in S
        /\ "ERR" \in rev => "error" \in S
        /\ "OUT" \in rev => "write" \in S
    BY DEF S, HandlerNames
  <2>4. a \in Seq(S) /\ OneEnd(a) /\ (MayEnd(a) => "HUP" \in rev /\ "IN" \notin rev)
    BY <2>1, <2>2, <2>3
  <2>5. b \in Seq(S) /\ OneEnd(b) /\ ~MayEnd(b)
    BY <2>1, <2>2, <2>3 DEF Ends
  <2>6. c \in Seq(S) /\ OneEnd(c) /\ (MayEnd(c) => "IN" \in rev)
    BY <2>1, <2>2, <2>3
  <2>7. d \in Seq(S) /\ OneEnd(d) /\ ~MayEnd(d)
    BY <2>1, <2>2, <2>3 DEF Ends
  <2> QED BY <2>4, <2>5, <2>6, <2>7
<1>3. Handlers(rev) = ((a \o b) \o c) \o d
  BY DEF Handlers
<1> HIDE DEF a, b, c, d, S
<1>4. a \o b \in Seq(S) /\ OneEnd(a \o b) /\ (MayEnd(a \o b) => MayEnd(a))
  BY <1>1, <1>2, ConcatFacts
<1>5. (a \o b) \o c \in Seq(S) /\ OneEnd((a \o b) \o c)
  BY <1>1, <1>2, <1>4, ConcatFacts
<1>6. Handlers(rev) \in Seq(S) /\ OneEnd(Handlers(rev))
  <2>1. ((a \o b) \o c) \o d \in Seq(S) /\ OneEnd(((a \o b) \o c) \o d)
    BY <1>1, <1>2, <1>5, ConcatFacts
  <2> QED BY <1>3, <2>1
<1>7. Handlers(rev) \in Seq(HandlerNames)
  BY <1>1, <1>6
<1> QED BY <1>6, <1>7 DEF S

\* UpdateChannel registers the channel, and leaves it watched if there is an event
\* to watch for.
LEMMA UpdatedFacts ==
    ASSUME NEW e \in PS!Entries, NEW ev \in SUBSET {"Read", "Write"}
    PROVE  /\ Updated(e, ev) \in PS!Entries
           /\ Updated(e, ev).polled
           /\ Updated(e, ev).events = ev
           /\ ~e.ignored /\ ev # {} => ~Updated(e, ev).ignored
           /\ Updated(e, ev) \in PS!MayBecome(e, ev)
<1> DEFINE ign == Updated(e, ev).ignored
<1>1. e.polled \in BOOLEAN /\ e.ignored \in BOOLEAN
  BY DEF PS!Entries
<1>2. /\ Updated(e, ev) = [polled |-> TRUE, events |-> ev, ignored |-> ign]
      /\ ign = (e.polled /\ (e.ignored # (ev = {})))
      /\ ign \in BOOLEAN
  BY Zenon DEF Updated
<1>3. ~e.ignored /\ ev # {} => ~ign
  BY <1>1, <1>2, Zenon
<1>4. ign \in PS!MayIgnore(e, ev)
  <2>1. CASE e.ignored \/ (~e.polled /\ ev = {})
    BY <1>2, <2>1 DEF PS!MayIgnore
  <2>2. CASE ~e.ignored /\ (e.polled \/ ev # {})
    <3>1. ign = (ev = {})
      BY <1>1, <1>2, <2>2, Zenon
    <3> QED BY <2>2, <3>1, Zenon DEF PS!MayIgnore
  <2> QED BY <2>1, <2>2
<1> HIDE DEF ign
<1>5. Updated(e, ev) \in PS!MayBecome(e, ev)
  BY <1>2, <1>4 DEF PS!MayBecome
<1>6. Updated(e, ev) \in PS!Entries
  BY <1>2 DEF PS!Entries, PS!IOEvents
<1>7. Updated(e, ev).polled = TRUE /\ Updated(e, ev).events = ev
  BY <1>2
<1> QED BY <1>3, <1>5, <1>6, <1>7, Zenon DEF ign

\* A new task.
LEMMA AppendFacts ==
    ASSUME NEW q \in Seq(TaskSet), NEW c \in Conns
    PROVE  /\ Append(q, Task("Destroy", c)) \in Seq(TaskSet)
           /\ TaskConns(Append(q, Task("Destroy", c))) = TaskConns(q) \cup {c}
           /\ Distinct(q) /\ c \notin TaskConns(q) => Distinct(Append(q, Task("Destroy", c)))
BY DEF TaskConns, Distinct, Task, TaskSet

\* The next task of the batch.
LEMMA TailFacts ==
    ASSUME NEW q \in Seq(TaskSet), q # <<>>
    PROVE  /\ Tail(q) \in Seq(TaskSet)
           /\ Head(q) \in TaskSet
           /\ Head(q).conn \in Conns
           /\ TaskConns(q) = TaskConns(Tail(q)) \cup {Head(q).conn}
           /\ Distinct(q) => Distinct(Tail(q)) /\ Head(q).conn \notin TaskConns(Tail(q))
<1>1. /\ Tail(q) \in Seq(TaskSet) /\ Len(q) \in Nat \ {0}
      /\ Head(q) = q[1] /\ DOMAIN q = 1 .. Len(q) /\ DOMAIN Tail(q) = 1 .. Len(q) - 1
      /\ \A i \in 1 .. Len(q) - 1 : Tail(q)[i] = q[i + 1]
      /\ \A i \in 1 .. Len(q) : q[i] \in TaskSet
  OBVIOUS
<1>2. Head(q) \in TaskSet /\ Head(q).conn \in Conns
  BY <1>1 DEF TaskSet
<1>3. TaskConns(q) \subseteq TaskConns(Tail(q)) \cup {Head(q).conn}
  <2> SUFFICES ASSUME NEW i \in 1 .. Len(q)
               PROVE  q[i].conn \in TaskConns(Tail(q)) \cup {Head(q).conn}
    BY <1>1 DEF TaskConns
  <2>1. CASE i = 1
    BY <1>1, <2>1
  <2>2. CASE i # 1
    <3>1. i - 1 \in DOMAIN Tail(q) /\ Tail(q)[i - 1] = q[i]
      BY <1>1, <2>2
    <3> QED BY <3>1 DEF TaskConns
  <2> QED BY <2>1, <2>2
<1>4. TaskConns(Tail(q)) \cup {Head(q).conn} \subseteq TaskConns(q)
  BY <1>1 DEF TaskConns
<1>5. Distinct(q) => Distinct(Tail(q)) /\ Head(q).conn \notin TaskConns(Tail(q))
  BY <1>1 DEF Distinct, TaskConns
<1> QED BY <1>1, <1>2, <1>3, <1>4, <1>5

\* No task, no connection.
LEMMA EmptyFacts == TaskConns(<<>>) = {} /\ Distinct(<<>>) /\ <<>> \in Seq(TaskSet)
BY DEF TaskConns, Distinct

-----------------------------------------------------------------------------
(* Steps that leave connections and channels alone.                        *)

\* Peers, and user code that keeps or drops a connection or returns, change nothing
\* the invariant is about.
LEMMA FrameStep ==
    ASSUME ServerInv, TypeOK', Where' = Where,
           UNCHANGED <<connVars, pollVars, taskVars, cur, todo, story, wr_shut, ensured>>
    PROVE  ServerInv'
<1>1. /\ UNCHANGED <<listenning, state_, output_, connections_, interest, ready>>
      /\ UNCHANGED <<pending_tasks, batch, batch_refs, cur, todo, story, wr_shut, ensured>>
  BY DEF connVars, pollVars, taskVars
<1>2. TasksInv'
  BY <1>1 DEF ServerInv, TasksInv
<1>3. StagesInv'
  BY <1>1 DEF ServerInv, StagesInv, Queued, Destroying
<1>4. InterestInv'
  BY <1>1 DEF ServerInv, InterestInv, Queued, Destroying
<1>5. ReadyInv'
  BY <1>1 DEF ServerInv, ReadyInv
<1>6. DispatchInv'
  BY <1>1 DEF ServerInv, DispatchInv, Queued
<1>7. OutputInv'
  BY <1>1 DEF ServerInv, OutputInv
<1> QED BY <1>1, <1>2, <1>3, <1>4, <1>5, <1>6, <1>7 DEF ServerInv

\* What user code and the peers do between the steps of the loop.
LEMMA PeerSteps ==
    ASSUME ServerInv, PeerStep
    PROVE  ServerInv'
<1> DEFINE Quiet ==
              /\ UNCHANGED <<connVars, pollVars, taskVars, stepVars, userVars, wr_shut, ensured>>
              /\ backlog' \in Nat
              /\ recv' \in [Conns -> Nat] /\ inbox' \in [Conns -> Nat]
              /\ peer' \in [Conns -> {"open", "closed", "reset"}]
<1>1. Quiet
  <2>1. CASE ClientConnects
    BY <2>1 DEF ClientConnects, ServerInv, TypeOK
  <2>2. ASSUME NEW c \in Conns, PeerSends(c) PROVE Quiet
    BY <2>2 DEF PeerSends, ServerInv, TypeOK
  <2>3. ASSUME NEW c \in Conns, PeerCloses(c) PROVE Quiet
    BY <2>3 DEF PeerCloses, ServerInv, TypeOK
  <2>4. ASSUME NEW c \in Conns, PeerResets(c) PROVE Quiet
    BY <2>4 DEF PeerResets, ServerInv, TypeOK
  <2> QED BY <2>1, <2>2, <2>3, <2>4 DEF PeerStep
<1>2. err' \in [Conns -> BOOLEAN]
  BY DEF PeerStep, ClientConnects, PeerSends, PeerCloses, PeerResets, ServerInv, TypeOK
<1>3. TypeOK'
  BY <1>1, <1>2 DEF ServerInv, TypeOK, connVars, pollVars, taskVars, stepVars, userVars
<1>4. Where' = Where
  BY <1>1 DEF Where, stepVars
<1>5. UNCHANGED <<connVars, pollVars, taskVars, cur, todo, story, wr_shut, ensured>>
  BY <1>1 DEF stepVars, userVars
<1> QED BY <1>3, <1>4, <1>5, FrameStep

\* User code that keeps or drops a shared_ptr or returns to the loop.
LEMMA KeepStep ==
    ASSUME ServerInv, Keep \/ (\E c \in Conns : Drop(c)) \/ UserReturns \/ UNCHANGED vars
    PROVE  ServerInv'
<1>1. TypeOK'
  BY DEF Keep, Drop, UserReturns, vars, ServerInv, TypeOK, connVars, pollVars, taskVars,
         stepVars, userVars, peerVars
<1>2. Where' = Where
  BY DEF Keep, Drop, UserReturns, vars, stepVars, Where, ServerInv, TypeOK
<1>3. UNCHANGED <<connVars, pollVars, taskVars, cur, todo, story, wr_shut, ensured>>
  BY DEF Keep, Drop, UserReturns, vars, stepVars, userVars
<1> QED BY <1>1, <1>2, <1>3, FrameStep

-----------------------------------------------------------------------------
(* Steps inside HandleEvents.                                              *)

\* What is known while the loop calls a handler of channel cur.
LEMMA CallsFacts ==
    ASSUME ServerInv, NEW h \in HandlerNames, Calls(h)
    PROVE  /\ pc = "dispatch" /\ Where = "dispatch"
           /\ todo \in Seq(HandlerNames) /\ todo # <<>> /\ todo' = Tail(todo)
           /\ todo' \in Seq(HandlerNames) /\ OneEnd(todo')
           /\ cur = Listener => h = "read" /\ todo' \in Seq({"read"})
           /\ MayEnd(todo') => MayEnd(todo)
           /\ h \in Ends => MayEnd(todo) /\ ~MayEnd(todo')
           /\ cur # Listener => /\ cur \in connections_ \cup Queued
                                /\ MayEnd(todo) => cur \in connections_
<1>1. /\ pc = "dispatch" /\ Where = "dispatch"
      /\ todo \in Seq(HandlerNames) /\ todo # <<>> /\ todo' = Tail(todo) /\ Head(todo) = h
  BY DEF Calls, Where, ServerInv, TypeOK, HandlerNames
<1>2. /\ OneEnd(todo)
      /\ cur = Listener => todo \in Seq({"read"})
      /\ cur # Listener => /\ cur \in connections_ \cup Queued
                           /\ MayEnd(todo) => cur \in connections_
  BY <1>1 DEF ServerInv, DispatchInv
<1>3. cur = Listener => h = "read" /\ Tail(todo) \in Seq({"read"})
  BY <1>1, <1>2
<1> QED BY <1>1, <1>2, <1>3, TodoFacts

\* A handler that changes neither channels nor connections.
LEMMA HandledStep ==
    ASSUME ServerInv, NEW h \in HandlerNames, Calls(h), TypeOK', Where' = "dispatch",
           UNCHANGED <<connVars, pollVars, taskVars, cur, story, wr_shut, ensured>>
    PROVE  ServerInv'
<1>1. /\ UNCHANGED <<listenning, state_, output_, connections_, interest, ready>>
      /\ UNCHANGED <<pending_tasks, batch, batch_refs, cur, story, wr_shut, ensured>>
      /\ Where' = Where
  BY CallsFacts DEF connVars, pollVars, taskVars
<1>2. TasksInv'
  BY <1>1 DEF ServerInv, TasksInv
<1>3. StagesInv'
  BY <1>1 DEF ServerInv, StagesInv, Queued, Destroying
<1>4. InterestInv'
  BY <1>1 DEF ServerInv, InterestInv, Queued, Destroying
<1>5. ReadyInv'
  BY <1>1 DEF ServerInv, ReadyInv
<1>6. DispatchInv'
  BY <1>1, CallsFacts DEF DispatchInv, Queued
<1>7. OutputInv'
  BY <1>1 DEF ServerInv, OutputInv
<1> QED BY <1>1, <1>2, <1>3, <1>4, <1>5, <1>6, <1>7 DEF ServerInv

\* HandleRead with data calls the user and leaves the channel as it is.
LEMMA HandleReadMessageStep ==
    ASSUME ServerInv, HandleReadMessage
    PROVE  ServerInv'
<1>1. Calls("read") /\ "read" \in HandlerNames
  BY DEF HandleReadMessage, HandlerNames
<1>2. TypeOK'
  <2>1. todo' \in Seq(HandlerNames)
    BY <1>1, CallsFacts
  <2>2. inbox' \in [Conns -> Nat]
    BY DEF HandleReadMessage, ServerInv, TypeOK
  <2> QED BY <2>1, <2>2 DEF HandleReadMessage, CallUser, ServerInv, TypeOK, connVars, pollVars,
             taskVars, userVars, peerVars, HandlerNames
<1>3. Where' = "dispatch"
  BY DEF HandleReadMessage, CallUser, Where
<1>4. UNCHANGED <<connVars, pollVars, taskVars, cur, story, wr_shut, ensured>>
  BY DEF HandleReadMessage, CallUser, userVars
<1> QED BY <1>1, <1>2, <1>3, <1>4, HandledStep

\* HandleError: the error of the socket is read, whoever asks for it.
LEMMA HandleErrorStep ==
    ASSUME ServerInv, HandleError
    PROVE  ServerInv'
<1>1. PICK h \in HandlerNames : Calls(h)
  BY DEF HandleError, HandlerNames
<1>2. TypeOK'
  <2>1. todo' \in Seq(HandlerNames)
    BY <1>1, CallsFacts
  <2>2. err' \in [Conns -> BOOLEAN]
    BY DEF HandleError, ServerInv, TypeOK
  <2> QED BY <2>1, <2>2 DEF HandleError, ServerInv, TypeOK, connVars, pollVars,
             taskVars, userVars, peerVars, HandlerNames
<1>3. Where' = "dispatch"
  BY <1>1 DEF HandleError, Calls, Where
<1>4. UNCHANGED <<connVars, pollVars, taskVars, cur, story, wr_shut, ensured>>
  BY DEF HandleError, userVars
<1> QED BY <1>1, <1>2, <1>3, <1>4, HandledStep

\* HandleWrite when writing is not enabled any more or write(2) fails.
LEMMA HandleWriteNothingStep ==
    ASSUME ServerInv, HandleWriteNothing
    PROVE  ServerInv'
<1>1. Calls("write") /\ "write" \in HandlerNames
  BY DEF HandleWriteNothing, HandlerNames
<1>2. TypeOK'
  <2>1. todo' \in Seq(HandlerNames)
    BY <1>1, CallsFacts
  <2> QED BY <2>1 DEF HandleWriteNothing, ServerInv, TypeOK, connVars, pollVars,
             taskVars, userVars, peerVars, HandlerNames
<1>3. Where' = "dispatch"
  BY <1>1 DEF HandleWriteNothing, Calls, Where
<1>4. UNCHANGED <<connVars, pollVars, taskVars, cur, story, wr_shut, ensured>>
  BY DEF HandleWriteNothing, userVars
<1> QED BY <1>1, <1>2, <1>3, <1>4, HandledStep

\* A call of UpdateChannel changes the entry of its channel only.
LEMMA WithFacts ==
    ASSUME ServerInv, NEW c \in Channels, NEW ev \in SUBSET {"Read", "Write"},
           interest' = With(c, ev)
    PROVE  /\ interest' \in [Channels -> PS!Entries]
           /\ \A d \in Channels : d # c => interest'[d] = interest[d]
           /\ interest'[c].polled
           /\ interest'[c].events = ev
           /\ ~interest[c].ignored /\ ev # {} => ~interest'[c].ignored
<1>1. interest \in [Channels -> PS!Entries] /\ interest[c] \in PS!Entries
  BY DEF ServerInv, TypeOK
<1>2. interest' = [interest EXCEPT ![c] = Updated(interest[c], ev)]
  BY DEF With
<1>3. interest'[c] = Updated(interest[c], ev)
  BY <1>1, <1>2
<1> DEFINE u == Updated(interest[c], ev)
<1>4. /\ u \in PS!Entries /\ u.polled /\ u.events = ev
      /\ ~interest[c].ignored /\ ev # {} => ~u.ignored
  BY <1>1, UpdatedFacts
<1> HIDE DEF u
<1>5. /\ interest' \in [Channels -> PS!Entries]
      /\ \A d \in Channels : d # c => interest'[d] = interest[d]
  BY <1>1, <1>2, <1>4 DEF u
<1> QED BY <1>3, <1>4, <1>5 DEF u

\* The entry of a channel has a set of events.
LEMMA EventsType ==
    ASSUME ServerInv, NEW c \in Channels
    PROVE  interest[c].events \in SUBSET {"Read", "Write"}
BY DEF ServerInv, TypeOK, PS!Entries, PS!IOEvents

\* HandleClose is called for a connection of the server, once.
LEMMA HandleEndStep ==
    ASSUME ServerInv, HandleEnd
    PROVE  ServerInv'
<1>1. PICK h \in {"close", "read"} : Calls(h) /\ (cur = Listener => h = "close")
  BY ConstantsAssumption DEF HandleEnd
<1>2. /\ cur # Listener /\ cur \in connections_ /\ cur \in Conns /\ ~MayEnd(todo')
      /\ todo' \in Seq(HandlerNames) /\ OneEnd(todo') /\ pc = "dispatch" /\ Where = "dispatch"
  BY <1>1, CallsFacts DEF HandlerNames, Ends, ServerInv, TypeOK
<1>3. /\ connections_' = connections_ \ {cur}
      /\ pending_tasks' = Append(pending_tasks, Task("Destroy", cur))
      /\ interest' = With(cur, {})
      /\ ensured' = (ensured /\ MayClose(cur))
      /\ UNCHANGED <<listenning, state_, output_, ready, batch, batch_refs, pc, cur, ret,
                     held, story, sends, recv, inbox, peer, err, backlog, wr_shut>>
  BY DEF HandleEnd, HandleClose, RemoveConnection, userVars, peerVars
<1>4. Where' = "dispatch"
  BY <1>2, <1>3 DEF Where
<1>5. pending_tasks \in Seq(TaskSet) /\ cur \notin Queued
  BY <1>2 DEF ServerInv, TypeOK, StagesInv, TaskSet
<1>6. /\ pending_tasks' \in Seq(TaskSet)
      /\ TaskConns(pending_tasks)' = TaskConns(pending_tasks) \cup {cur}
      /\ Distinct(pending_tasks')
  <2>1. Distinct(pending_tasks) /\ cur \notin TaskConns(pending_tasks)
    BY <1>5 DEF ServerInv, TasksInv, Queued
  <2> QED BY <1>2, <1>3, <1>5, <2>1, AppendFacts
<1>7. Queued' = Queued \cup {cur}
  BY <1>3, <1>6 DEF Queued
<1>8. /\ interest' \in [Channels -> PS!Entries]
      /\ \A d \in Channels : d # cur => interest'[d] = interest[d]
      /\ interest'[cur].polled
  BY <1>2, <1>3, WithFacts DEF Channels
<1>9. ensured' = TRUE
  BY <1>2, <1>3 DEF ServerInv, TypeOK, StagesInv, MayClose
<1>10. TypeOK'
  BY <1>2, <1>3, <1>6, <1>8, <1>9 DEF ServerInv, TypeOK, TaskSet, HandlerNames
<1>11. TasksInv'
  BY <1>2, <1>3, <1>4, <1>6 DEF ServerInv, TasksInv
<1>12. StagesInv'
  BY <1>2, <1>3, <1>4, <1>5, <1>7 DEF ServerInv, StagesInv, Destroying
<1>13. InterestInv'
  BY <1>2, <1>3, <1>4, <1>7, <1>8, ConstantsAssumption
     DEF ServerInv, InterestInv, Destroying, Channels
<1>14. ReadyInv'
  BY <1>2, <1>3, <1>4 DEF ServerInv, ReadyInv
<1>15. DispatchInv'
  BY <1>2, <1>3, <1>4, <1>7 DEF DispatchInv
<1>16. OutputInv'
  BY <1>2, <1>3, <1>8 DEF ServerInv, OutputInv, Channels
<1> QED BY <1>9, <1>10, <1>11, <1>12, <1>13, <1>14, <1>15, <1>16 DEF ServerInv

\* HandleWrite writes some or all of the output.
LEMMA HandleWriteStep ==
    ASSUME ServerInv, NEW c \in Conns, HandleWrite(c)
    PROVE  ServerInv'
<1>1. Calls("write") /\ cur = c /\ "write" \in HandlerNames /\ c # Listener
  BY ConstantsAssumption DEF HandleWrite, HandlerNames
<1>2. PICK n \in 1 .. output_[c] :
         /\ output_' = [output_ EXCEPT ![c] = output_[c] - n]
         /\ IF n = output_[c] THEN Written(c) ELSE UNCHANGED <<interest, wr_shut>>
  BY DEF HandleWrite
<1>3. /\ UNCHANGED <<listenning, state_, connections_, ready, pending_tasks, batch, batch_refs,
                     pc, cur, ret, held, story, sends, recv, inbox, peer, err, backlog, ensured>>
      /\ Where = "dispatch" /\ pc = "dispatch"
  BY <1>1, CallsFacts DEF HandleWrite, taskVars, userVars, peerVars
<1>4. Where' = "dispatch"
  BY <1>3 DEF Where
<1>5. /\ todo' \in Seq(HandlerNames) /\ OneEnd(todo') /\ (MayEnd(todo') => c \in connections_)
      /\ c \in connections_ \cup Queued
  BY <1>1, CallsFacts
<1>6. Queued' = Queued
  BY <1>3 DEF Queued
<1>7. /\ output_[c] \in Nat /\ output_' \in [Conns -> Nat]
      /\ \A d \in Conns : d # c => output_'[d] = output_[d]
      /\ n = output_[c] <=> output_'[c] = 0
  BY <1>2 DEF ServerInv, TypeOK
<1>8. /\ interest' \in [Channels -> PS!Entries]
      /\ \A d \in Channels : d # c => interest'[d] = interest[d]
      /\ interest'[c].polled
      /\ n # output_[c] => interest'[c] = interest[c]
      /\ "Read" \in interest[c].events /\ ~interest[c].ignored =>
            "Read" \in interest'[c].events /\ ~interest'[c].ignored
  <2>1. CASE n = output_[c]
    <3>1. interest' = With(c, interest[c].events \ {"Write"})
      BY <1>2, <2>1 DEF Written
    <3>2. interest[c].events \ {"Write"} \in SUBSET {"Read", "Write"} /\ c \in Channels
      BY EventsType DEF Channels
    <3> DEFINE ev == interest[c].events \ {"Write"}
    <3> HIDE DEF ev
    <3>3. /\ interest' \in [Channels -> PS!Entries]
          /\ \A d \in Channels : d # c => interest'[d] = interest[d]
          /\ interest'[c].polled
          /\ interest'[c].events = ev
          /\ ~interest[c].ignored /\ ev # {} => ~interest'[c].ignored
      BY <3>1, <3>2, WithFacts DEF ev
    <3>4. "Read" \in interest[c].events => "Read" \in ev
      BY DEF ev
    <3> QED BY <2>1, <3>3, <3>4
  <2>2. CASE n # output_[c]
    BY <1>2, <1>5, <2>2 DEF ServerInv, TypeOK, InterestInv
  <2> QED BY <2>1, <2>2
<1>9. /\ wr_shut' \in [Conns -> BOOLEAN]
      /\ \A d \in Conns : d # c => wr_shut'[d] = wr_shut[d]
      /\ wr_shut'[c] => wr_shut[c] \/ (state_[c] = "Disconnecting" /\ n = output_[c])
  BY <1>2 DEF Written, ServerInv, TypeOK
<1>10. ~wr_shut[c]
  BY DEF HandleWrite
<1>11. TypeOK'
  BY <1>3, <1>5, <1>7, <1>8, <1>9 DEF ServerInv, TypeOK, HandlerNames
<1>12. TasksInv'
  BY <1>3, <1>4 DEF ServerInv, TasksInv
<1>13. StagesInv'
  BY <1>3, <1>4, <1>6 DEF ServerInv, StagesInv, Destroying
<1>14. InterestInv'
  BY <1>1, <1>3, <1>4, <1>5, <1>6, <1>8 DEF ServerInv, InterestInv, Destroying, Channels
<1>15. ReadyInv'
  BY <1>1, <1>3, <1>4 DEF ServerInv, ReadyInv
<1>16. DispatchInv'
  BY <1>1, <1>3, <1>4, <1>5, <1>6 DEF DispatchInv
<1>17. OutputInv'
  <2> SUFFICES ASSUME NEW d \in Conns
               PROVE  /\ state_[d] \in {"None", "Connected"} => ~wr_shut'[d]
                      /\ state_[d] = "None" => output_'[d] = 0
                      /\ d \in connections_ =>
                            /\ output_'[d] > 0 => "Write" \in interest'[d].events
                            /\ wr_shut'[d] => output_'[d] = 0
    BY <1>3 DEF OutputInv
  <2>1. CASE d # c
    BY <1>7, <1>8, <1>9, <2>1 DEF ServerInv, OutputInv, Channels
  <2>2. CASE d = c
    <3>1. state_[c] # "None"
      BY <1>5 DEF ServerInv, StagesInv
    <3>2. output_[c] > 0 /\ output_'[c] \in Nat
      BY <1>2, <1>7
    <3>3. c \in connections_ => "Write" \in interest[c].events
      BY <3>2 DEF ServerInv, OutputInv
    <3> QED BY <1>7, <1>8, <1>9, <1>10, <2>2, <3>1, <3>2, <3>3
  <2> QED BY <2>1, <2>2
<1> QED BY <1>3, <1>11, <1>12, <1>13, <1>14, <1>15, <1>16, <1>17 DEF ServerInv

\* A connection is accepted: it was new, and is the server's and watched.
LEMMA HandleNewConnectionStep ==
    ASSUME ServerInv, NEW c \in Conns, HandleNewConnection(c)
    PROVE  ServerInv'
<1>1. /\ Calls("read") /\ "read" \in HandlerNames /\ cur = Listener /\ c # Listener
      /\ state_[c] = "None" /\ backlog > 0 /\ backlog' = backlog - 1
      /\ connections_' = connections_ \cup {c}
      /\ state_' = [state_ EXCEPT ![c] = "Connected"]
      /\ interest' = With(c, interest[c].events \cup {"Read"})
      /\ story' = [story EXCEPT ![c] = "up"]
      /\ pc' = "user" /\ cur' = c /\ ret' = "dispatch"
      /\ UNCHANGED <<listenning, output_, ready, pending_tasks, batch, batch_refs, held, sends,
                     recv, inbox, peer, err, wr_shut, ensured>>
  BY ConstantsAssumption
     DEF HandleNewConnection, Accept, EstablishConnection, CallUser, HandlerNames, taskVars
<1>2. /\ Where = "dispatch" /\ todo' \in Seq(HandlerNames) /\ OneEnd(todo') /\ Where' = "dispatch"
  BY <1>1, CallsFacts DEF Where
<1>3. /\ c \notin connections_ /\ c \notin Queued /\ Queued' = Queued
      /\ \A r \in ready : r[1] # c
  BY <1>1 DEF ServerInv, StagesInv, ReadyInv, Queued
<1>4. ~interest[c].polled /\ interest[c] = PS!NotPolled
  BY <1>2, <1>3 DEF ServerInv, InterestInv, Destroying
<1>5. ~interest[c].ignored /\ interest[c].events = {}
  <2>1. PS!NotPolled.ignored = FALSE /\ PS!NotPolled.events = {}
    BY Zenon DEF PS!NotPolled
  <2> QED BY <1>4, <2>1, Zenon
<1>6. /\ interest' \in [Channels -> PS!Entries]
      /\ \A d \in Channels : d # c => interest'[d] = interest[d]
      /\ interest'[c].polled
      /\ ~interest'[c].ignored
      /\ interest'[c].events = {"Read"}
  <2>1. interest[c].events \cup {"Read"} = {"Read"} /\ c \in Channels
    BY <1>5 DEF Channels
  <2>2. interest' = With(c, {"Read"}) /\ {"Read"} \in SUBSET {"Read", "Write"}
    BY <1>1, <2>1
  <2> QED BY <1>5, <2>1, <2>2, WithFacts
<1>7. /\ state_'[c] = "Connected" /\ \A d \in Conns : d # c => state_'[d] = state_[d]
      /\ story'[c] = "up" /\ \A d \in Conns : d # c => story'[d] = story[d]
      /\ state_' \in [Conns -> {"None", "Connected", "Disconnecting", "Disconnected"}]
      /\ story' \in [Conns -> {"new", "up", "down"}]
      /\ backlog' \in Nat
  BY <1>1 DEF ServerInv, TypeOK
<1>8. TypeOK'
  BY <1>1, <1>2, <1>6, <1>7 DEF ServerInv, TypeOK, HandlerNames, Channels
<1>9. TasksInv'
  BY <1>1, <1>2 DEF ServerInv, TasksInv
<1>10. StagesInv'
  BY <1>1, <1>2, <1>3, <1>7 DEF ServerInv, StagesInv, Destroying
<1>11. InterestInv'
  <2> SUFFICES ASSUME NEW d \in Conns
               PROVE  /\ interest'[d].polled <=> d \in connections_' \cup Queued
                      /\ interest'[d].polled \/ interest'[d] = PS!NotPolled
                      /\ d \in connections_' => ~interest'[d].ignored /\ "Read" \in interest'[d].events
    BY <1>1, <1>2, <1>3, <1>6 DEF ServerInv, InterestInv, Destroying, Channels
  <2>1. CASE d = c
    BY <1>1, <1>6, <2>1
  <2>2. CASE d # c
    BY <1>1, <1>2, <1>6, <2>2 DEF ServerInv, InterestInv, Destroying, Channels
  <2> QED BY <2>1, <2>2
<1>12. ReadyInv'
  BY <1>1, <1>2, <1>3 DEF ServerInv, ReadyInv
<1>13. DispatchInv'
  BY <1>1, <1>2 DEF DispatchInv
<1>14. OutputInv'
  <2> SUFFICES ASSUME NEW d \in Conns
               PROVE  /\ state_'[d] \in {"None", "Connected"} => ~wr_shut[d]
                      /\ state_'[d] = "None" => output_[d] = 0
                      /\ d \in connections_' =>
                            /\ output_[d] > 0 => "Write" \in interest'[d].events
                            /\ wr_shut[d] => output_[d] = 0
    BY <1>1 DEF OutputInv
  <2>1. CASE d = c
    BY <1>1, <2>1 DEF ServerInv, OutputInv
  <2>2. CASE d # c
    BY <1>1, <1>6, <1>7, <2>2 DEF ServerInv, OutputInv, Channels
  <2> QED BY <2>1, <2>2
<1> QED BY <1>1, <1>8, <1>9, <1>10, <1>11, <1>12, <1>13, <1>14 DEF ServerInv

-----------------------------------------------------------------------------
(* Steps of the loop around HandleEvents.                                  *)

\* poll(2) reports channels of the server's connections, and the listener for
\* reading.
LEMMA PollStep ==
    ASSUME ServerInv, Poll
    PROVE  ServerInv'
<1> DEFINE Watched == {h \in Channels : interest[h].polled /\ ~interest[h].ignored}
           Of(h) == IF h = Listener THEN ListenerAnswers ELSE Answers(h)
<1>1. PICK answer \in [Watched -> UNION {Of(h) : h \in Watched}] :
         /\ \A h \in Watched : answer[h] \in Of(h)
         /\ ready' = {<<h, answer[h]>> : h \in {g \in Watched : answer[g] # {}}}
  BY DEF Poll
<1>2. /\ pc = "poll" /\ pc' = "events"
      /\ UNCHANGED <<listenning, state_, output_, connections_, interest, pending_tasks, batch,
                     batch_refs, cur, todo, ret, held, story, sends, recv, inbox, peer, err,
                     backlog, wr_shut, ensured>>
  BY DEF Poll, connVars, taskVars, userVars, peerVars
<1>3. Where = "poll" /\ Where' = "events"
  BY <1>2 DEF Where
<1>4. pending_tasks = <<>> /\ batch = <<>> /\ batch_refs = {} /\ Queued = {} /\ Queued' = {}
  BY <1>2, <1>3, EmptyFacts DEF ServerInv, TasksInv, Queued
<1>5. \A h \in Watched : h # Listener => h \in connections_
  BY <1>3, <1>4 DEF ServerInv, InterestInv, Channels, Destroying
<1>6. \A h \in Watched : answer[h] \subseteq Revents /\ (h = Listener => answer[h] \subseteq {"IN"})
  <2> SUFFICES ASSUME NEW h \in Watched
               PROVE  answer[h] \subseteq Revents /\ (h = Listener => answer[h] \subseteq {"IN"})
    OBVIOUS
  <2>1. answer[h] \in Of(h)
    BY <1>1
  <2>2. CASE h = Listener
    BY <2>1, <2>2 DEF ListenerAnswers, Revents
  <2>3. CASE h # Listener
    <3>1. answer[h] \in Answers(h)
      BY <2>1, <2>3
    <3> QED BY <2>3, <3>1 DEF Answers, Revents
  <2> QED BY <2>2, <2>3
<1> HIDE DEF Watched, Of
<1>7. \A r \in ready' : \E h \in Watched : r = <<h, answer[h]>>
  BY <1>1
<1>8. Watched \subseteq Channels
  BY DEF Watched
<1>9. ready' \in SUBSET (Channels \X SUBSET Revents)
  BY <1>6, <1>7, <1>8
<1>10. TypeOK'
  BY <1>2, <1>9 DEF ServerInv, TypeOK
<1>11. TasksInv'
  BY <1>2, <1>3, <1>4 DEF ServerInv, TasksInv
<1>12. StagesInv'
  BY <1>2, <1>3, <1>4 DEF ServerInv, StagesInv, Destroying
<1>13. InterestInv'
  BY <1>2, <1>3, <1>4 DEF ServerInv, InterestInv, Destroying
<1>14. ReadyInv'
  BY <1>2, <1>3, <1>5, <1>6, <1>7 DEF ReadyInv
<1>15. DispatchInv'
  BY <1>3 DEF DispatchInv
<1>16. OutputInv'
  BY <1>2 DEF ServerInv, OutputInv
<1> QED BY <1>2, <1>10, <1>11, <1>12, <1>13, <1>14, <1>15, <1>16 DEF ServerInv

\* Run goes on to the next reported channel.
LEMMA HandleEventsStep ==
    ASSUME ServerInv, HandleEvents
    PROVE  ServerInv'
<1>1. PICK r \in ready : ready' = ready \ {r} /\ cur' = r[1] /\ todo' = Handlers(r[2])
  BY DEF HandleEvents
<1>2. /\ pc = "events" /\ pc' = "dispatch"
      /\ UNCHANGED <<listenning, state_, output_, connections_, interest, pending_tasks, batch,
                     batch_refs, ret, held, story, sends, recv, inbox, peer, err, backlog,
                     wr_shut, ensured>>
  BY DEF HandleEvents, connVars, taskVars, userVars, peerVars
<1>3. Where = "events" /\ Where' = "dispatch" /\ Queued' = Queued
  BY <1>2 DEF Where, Queued
<1>4. r \in Channels \X SUBSET Revents /\ r[1] \in Channels
  BY DEF ServerInv, TypeOK
<1>5. /\ todo' \in Seq(HandlerNames) /\ OneEnd(todo')
      /\ r[1] = Listener => todo' \in Seq({"read"})
      /\ r[1] # Listener => r[1] \in connections_
      /\ \A s \in ready' : s[1] # r[1]
  BY <1>1, HandlersFacts DEF ServerInv, ReadyInv
<1>6. TypeOK'
  BY <1>1, <1>2, <1>4, <1>5 DEF ServerInv, TypeOK, HandlerNames
<1>7. TasksInv'
  BY <1>2, <1>3 DEF ServerInv, TasksInv
<1>8. StagesInv'
  BY <1>2, <1>3 DEF ServerInv, StagesInv, Destroying
<1>9. InterestInv'
  BY <1>2, <1>3 DEF ServerInv, InterestInv, Destroying
<1>10. ReadyInv'
  BY <1>1, <1>2, <1>3, <1>5 DEF ServerInv, ReadyInv
<1>11. DispatchInv'
  BY <1>1, <1>2, <1>3, <1>5 DEF DispatchInv
<1>12. OutputInv'
  BY <1>2 DEF ServerInv, OutputInv
<1> QED BY <1>2, <1>6, <1>7, <1>8, <1>9, <1>10, <1>11, <1>12 DEF ServerInv

\* HandleEvents returns to Run.
LEMMA HandleEventsReturnsStep ==
    ASSUME ServerInv, HandleEventsReturns
    PROVE  ServerInv'
<1>1. /\ pc = "dispatch" /\ pc' = "events"
      /\ UNCHANGED <<listenning, state_, output_, connections_, interest, ready, pending_tasks,
                     batch, batch_refs, cur, todo, ret, held, story, sends, recv, inbox, peer,
                     err, backlog, wr_shut, ensured>>
  BY DEF HandleEventsReturns, connVars, pollVars, taskVars, userVars, peerVars
<1>2. Where = "dispatch" /\ Where' = "events" /\ Queued' = Queued
  BY <1>1 DEF Where, Queued
<1>3. TypeOK'
  BY <1>1 DEF ServerInv, TypeOK
<1>4. TasksInv'
  BY <1>1, <1>2 DEF ServerInv, TasksInv
<1>5. StagesInv'
  BY <1>1, <1>2 DEF ServerInv, StagesInv, Destroying
<1>6. InterestInv'
  BY <1>1, <1>2 DEF ServerInv, InterestInv, Destroying
<1>7. ReadyInv' /\ DispatchInv'
  BY <1>1, <1>2 DEF ServerInv, ReadyInv, DispatchInv
<1>8. OutputInv'
  BY <1>1 DEF ServerInv, OutputInv
<1> QED BY <1>1, <1>3, <1>4, <1>5, <1>6, <1>7, <1>8 DEF ServerInv

\* The tasks are swapped out: the connections they destroy stay alive.
LEMMA ProcessPendingTasksStep ==
    ASSUME ServerInv, ProcessPendingTasks
    PROVE  ServerInv'
<1>1. /\ pc = "events" /\ pc' = "tasks" /\ ready = {}
      /\ batch' = pending_tasks /\ pending_tasks' = <<>>
      /\ batch_refs' = {c \in Conns : \E i \in DOMAIN pending_tasks : Owns(pending_tasks[i], c)}
      /\ UNCHANGED <<listenning, state_, output_, connections_, interest, ready,
                     cur, todo, ret, held, story, sends, recv, inbox, peer,
                     err, backlog, wr_shut, ensured>>
  BY DEF ProcessPendingTasks, connVars, pollVars, userVars, peerVars
<1>2. Where = "events" /\ Where' = "tasks"
  BY <1>1 DEF Where
<1>3. pending_tasks \in Seq(TaskSet)
  BY DEF ServerInv, TypeOK, TaskSet
<1>4. TaskConns(pending_tasks) \subseteq batch_refs'
  <2> SUFFICES ASSUME NEW i \in DOMAIN pending_tasks
               PROVE  pending_tasks[i].conn \in batch_refs'
    BY DEF TaskConns
  <2>1. pending_tasks[i] \in TaskSet
    BY <1>3
  <2>2. pending_tasks[i].conn \in Conns /\ Owns(pending_tasks[i], pending_tasks[i].conn)
    BY <2>1 DEF TaskSet, Owns
  <2> QED BY <1>1, <2>2
<1>5. batch = <<>> /\ TaskConns(batch) = {} /\ TaskConns(pending_tasks)' = {} /\ Queued' = Queued
  BY <1>1, <1>2, EmptyFacts DEF ServerInv, TasksInv, Queued
<1>6. TypeOK'
  BY <1>1, EmptyFacts DEF ServerInv, TypeOK, TaskSet
<1>7. TasksInv'
  BY <1>1, <1>2, <1>4, EmptyFacts DEF ServerInv, TasksInv
<1>8. StagesInv'
  BY <1>1, <1>2, <1>5 DEF ServerInv, StagesInv, Destroying
<1>9. InterestInv'
  BY <1>1, <1>2, <1>5 DEF ServerInv, InterestInv, Destroying
<1>10. ReadyInv' /\ DispatchInv'
  BY <1>1, <1>2 DEF ServerInv, ReadyInv, DispatchInv
<1>11. OutputInv'
  BY <1>1 DEF ServerInv, OutputInv
<1> QED BY <1>1, <1>6, <1>7, <1>8, <1>9, <1>10, <1>11 DEF ServerInv

\* The batch has run: no connection waits to be destroyed when the loop polls.
LEMMA TasksDoneStep ==
    ASSUME ServerInv, TasksDone
    PROVE  ServerInv'
<1>1. /\ pc = "tasks" /\ pc' = "poll" /\ batch = <<>> /\ batch_refs' = {}
      /\ UNCHANGED <<listenning, state_, output_, connections_, interest, ready,
                     pending_tasks, batch, cur, todo, ret, held, story, sends, recv, inbox, peer,
                     err, backlog, wr_shut, ensured>>
  BY DEF TasksDone, connVars, pollVars, userVars, peerVars
<1>2. Where = "tasks" /\ Where' = "poll" /\ Queued' = Queued
  BY <1>1 DEF Where, Queued
<1>3. TypeOK'
  BY <1>1 DEF ServerInv, TypeOK
<1>4. TasksInv'
  BY <1>1, <1>2, EmptyFacts DEF ServerInv, TasksInv
<1>5. StagesInv'
  BY <1>1, <1>2 DEF ServerInv, StagesInv, Destroying
<1>6. InterestInv'
  BY <1>1, <1>2 DEF ServerInv, InterestInv, Destroying
<1>7. ReadyInv' /\ DispatchInv'
  BY <1>1, <1>2 DEF ServerInv, ReadyInv, DispatchInv
<1>8. OutputInv'
  BY <1>1 DEF ServerInv, OutputInv
<1> QED BY <1>1, <1>3, <1>4, <1>5, <1>6, <1>7, <1>8 DEF ServerInv

\* DestroyConnection of a queued connection: it goes down, and its channel stays
\* registered until the user's handler has returned.
LEMMA DestroyConnectionStep ==
    ASSUME ServerInv, DestroyConnection
    PROVE  ServerInv'
<1> DEFINE c == Head(batch).conn
<1>1. /\ pc = "tasks" /\ batch # <<>> /\ batch' = Tail(batch)
      /\ state_' = [state_ EXCEPT ![c] = "Disconnected"]
      /\ interest' = With(c, {})
      /\ story' = [story EXCEPT ![c] = "down"]
      /\ pc' = "user" /\ cur' = c /\ ret' = "destroy"
      /\ UNCHANGED <<listenning, output_, connections_, ready, pending_tasks, batch_refs, todo,
                     held, sends, recv, inbox, peer, err, backlog, wr_shut, ensured>>
  BY DEF DestroyConnection, CallUser, peerVars
<1>2. Where = "tasks" /\ Where' = "destroy"
  BY <1>1 DEF Where
<1>3. batch \in Seq(TaskSet) /\ Distinct(batch) /\ TaskConns(batch) \subseteq batch_refs
  BY DEF ServerInv, TypeOK, TaskSet, TasksInv
<1>4. /\ c \in Conns /\ batch' \in Seq(TaskSet) /\ Distinct(batch')
      /\ TaskConns(batch) = TaskConns(batch') \cup {c} /\ c \notin TaskConns(batch')
  BY <1>1, <1>3, TailFacts
<1> HIDE DEF c
<1>5. pending_tasks = <<>> /\ ready = {} /\ TaskConns(pending_tasks) = {}
  BY <1>2, EmptyFacts DEF ServerInv, TasksInv
<1>6. Queued = Queued' \cup {c} /\ c \notin Queued'
  BY <1>1, <1>4, <1>5, EmptyFacts DEF Queued
<1>7. c \notin connections_ /\ c # Listener
  BY <1>4, <1>6, ConstantsAssumption DEF ServerInv, StagesInv
<1>8. /\ interest' \in [Channels -> PS!Entries]
      /\ \A d \in Channels : d # c => interest'[d] = interest[d]
      /\ interest'[c].polled
  BY <1>1, <1>4, WithFacts DEF Channels
<1>9. /\ state_'[c] = "Disconnected" /\ \A d \in Conns : d # c => state_'[d] = state_[d]
      /\ story'[c] = "down" /\ \A d \in Conns : d # c => story'[d] = story[d]
      /\ state_' \in [Conns -> {"None", "Connected", "Disconnecting", "Disconnected"}]
      /\ story' \in [Conns -> {"new", "up", "down"}]
  BY <1>1, <1>4 DEF ServerInv, TypeOK
<1>10. TypeOK'
  BY <1>1, <1>4, <1>8, <1>9 DEF ServerInv, TypeOK, TaskSet, Channels
<1>11. TasksInv'
  BY <1>1, <1>2, <1>3, <1>4, <1>5 DEF ServerInv, TasksInv
<1>12. StagesInv'
  BY <1>1, <1>2, <1>4, <1>6, <1>7, <1>9 DEF ServerInv, StagesInv, Destroying
<1>13. InterestInv'
  <2> SUFFICES ASSUME NEW d \in Conns
               PROVE  /\ interest'[d].polled <=> d \in connections_ \cup Queued' \/ d = c
                      /\ interest'[d].polled \/ interest'[d] = PS!NotPolled
                      /\ d \in connections_ => ~interest'[d].ignored /\ "Read" \in interest'[d].events
    BY <1>1, <1>2, <1>7, <1>8 DEF ServerInv, InterestInv, Destroying, Channels
  <2>1. CASE d = c
    BY <1>7, <1>8, <2>1
  <2>2. CASE d # c
    BY <1>2, <1>6, <1>8, <2>2 DEF ServerInv, InterestInv, Destroying, Channels
  <2> QED BY <2>1, <2>2
<1>14. ReadyInv' /\ DispatchInv'
  BY <1>1, <1>2, <1>5 DEF ReadyInv, DispatchInv
<1>15. OutputInv'
  <2> SUFFICES ASSUME NEW d \in Conns
               PROVE  /\ state_'[d] \in {"None", "Connected"} => ~wr_shut[d]
                      /\ state_'[d] = "None" => output_[d] = 0
                      /\ d \in connections_ =>
                            /\ output_[d] > 0 => "Write" \in interest'[d].events
                            /\ wr_shut[d] => output_[d] = 0
    BY <1>1 DEF OutputInv
  <2>1. CASE d = c
    BY <1>7, <1>9, <2>1
  <2>2. CASE d # c
    BY <1>8, <1>9, <2>2 DEF ServerInv, OutputInv, Channels
  <2> QED BY <2>1, <2>2
<1> QED BY <1>1, <1>10, <1>11, <1>12, <1>13, <1>14, <1>15 DEF ServerInv

\* The end of DestroyConnection finds the channel registered and removes it.
LEMMA DestroyConnectionEndStep ==
    ASSUME ServerInv, DestroyConnectionEnd
    PROVE  ServerInv'
<1>1. /\ pc = "destroy" /\ pc' = "tasks"
      /\ ensured' = (ensured /\ interest[cur].polled)
      /\ interest' = [interest EXCEPT ![cur] = PS!NotPolled]
      /\ UNCHANGED <<listenning, state_, output_, connections_, ready, pending_tasks, batch,
                     batch_refs, cur, todo, ret, held, story, sends, recv, inbox, peer, err,
                     backlog, wr_shut>>
  BY DEF DestroyConnectionEnd, connVars, taskVars, userVars, peerVars
<1>2. Where = "destroy" /\ Where' = "tasks" /\ Queued' = Queued
  BY <1>1 DEF Where, Queued
<1>3. cur \in Conns /\ cur # Listener /\ Destroying(cur) /\ ready = {}
  BY <1>2, ConstantsAssumption DEF ServerInv, TypeOK, TasksInv, Destroying
<1>4. cur \notin connections_ \cup Queued
  BY <1>3 DEF ServerInv, StagesInv
<1>5. ensured' = TRUE
  BY <1>1, <1>3 DEF ServerInv, InterestInv
<1>6. PS!NotPolled \in PS!Entries /\ ~PS!NotPolled.polled
  BY Zenon DEF PS!NotPolled, PS!Entries, PS!IOEvents
<1>7. /\ interest' \in [Channels -> PS!Entries]
      /\ \A d \in Channels : d # cur => interest'[d] = interest[d]
      /\ interest'[cur] = PS!NotPolled
  BY <1>1, <1>6 DEF ServerInv, TypeOK
<1>8. TypeOK'
  BY <1>1, <1>5, <1>7 DEF ServerInv, TypeOK
<1>9. TasksInv'
  BY <1>1, <1>2 DEF ServerInv, TasksInv
<1>10. StagesInv'
  BY <1>1, <1>2 DEF ServerInv, StagesInv, Destroying
<1>11. InterestInv'
  BY <1>1, <1>2, <1>3, <1>4, <1>6, <1>7 DEF ServerInv, InterestInv, Destroying, Channels
<1>12. ReadyInv' /\ DispatchInv'
  BY <1>1, <1>2, <1>3 DEF ReadyInv, DispatchInv
<1>13. OutputInv'
  BY <1>1, <1>4, <1>7 DEF ServerInv, OutputInv, Channels
<1> QED BY <1>5, <1>8, <1>9, <1>10, <1>11, <1>12, <1>13 DEF ServerInv

-----------------------------------------------------------------------------
(* User code.                                                              *)

\* TCPServer::Start registers the listener, and touches no connection.
LEMMA StartStep ==
    ASSUME ServerInv, Start
    PROVE  ServerInv'
<1>1. /\ listenning' = TRUE
      /\ interest' = With(Listener, interest[Listener].events \cup {"Read"})
      /\ UNCHANGED <<state_, output_, connections_, ready, pending_tasks, batch, batch_refs,
                     pc, cur, todo, ret, held, story, sends, recv, inbox, peer, err, backlog,
                     wr_shut, ensured>>
  BY DEF Start, Listen, taskVars, stepVars, userVars, peerVars
<1>2. Where' = Where /\ Queued' = Queued
  BY <1>1 DEF Where, Queued
<1>3. interest[Listener].events \cup {"Read"} \in SUBSET {"Read", "Write"} /\ Listener \in Channels
  BY EventsType DEF Channels
<1>4. /\ interest' \in [Channels -> PS!Entries]
      /\ \A d \in Channels : d # Listener => interest'[d] = interest[d]
      /\ interest'[Listener].polled
  BY <1>1, <1>3, WithFacts
<1>5. TypeOK'
  BY <1>1, <1>4 DEF ServerInv, TypeOK
<1>6. TasksInv'
  BY <1>1, <1>2 DEF ServerInv, TasksInv
<1>7. StagesInv'
  BY <1>1, <1>2 DEF ServerInv, StagesInv, Destroying
<1>8. InterestInv'
  BY <1>1, <1>2, <1>4, ConstantsAssumption DEF ServerInv, InterestInv, Destroying, Channels
<1>9. ReadyInv' /\ DispatchInv'
  BY <1>1, <1>2 DEF ServerInv, ReadyInv, DispatchInv
<1>10. OutputInv'
  BY <1>1, <1>4, ConstantsAssumption DEF ServerInv, OutputInv, Channels
<1> QED BY <1>1, <1>5, <1>6, <1>7, <1>8, <1>9, <1>10 DEF ServerInv

\* What Send does to the channel: it is watched for writing too.
LEMMA SendFacts ==
    ASSUME ServerInv, NEW c \in Conns, NEW n \in Sizes, Send(c, n)
    PROVE  /\ state_[c] = "Connected" /\ c # Listener
           /\ n \in Nat
           /\ output_' = [output_ EXCEPT ![c] = output_[c] + n]
           /\ sends' \in [Conns -> Nat]
           /\ interest' \in [Channels -> PS!Entries]
           /\ \A d \in Channels : d # c => interest'[d] = interest[d]
           /\ interest'[c].polled
           /\ interest'[c].events = interest[c].events \cup {"Write"}
           /\ ~interest[c].ignored => ~interest'[c].ignored
           /\ UNCHANGED <<listenning, state_, connections_, ready, pending_tasks, batch, batch_refs,
                          pc, cur, todo, ret, held, story, recv, inbox, peer, err, backlog,
                          wr_shut, ensured>>
<1>1. /\ state_[c] = "Connected" /\ c # Listener /\ c \in Channels
      /\ n \in Nat
      /\ output_' = [output_ EXCEPT ![c] = output_[c] + n]
      /\ sends' = [sends EXCEPT ![c] = sends[c] + 1]
      /\ interest' = (IF "Write" \in interest[c].events THEN interest
                      ELSE With(c, interest[c].events \cup {"Write"}))
      /\ UNCHANGED <<listenning, state_, connections_, ready, pending_tasks, batch, batch_refs,
                     pc, cur, todo, ret, held, story, recv, inbox, peer, err, backlog,
                     wr_shut, ensured>>
  BY ConstantsAssumption
     DEF Send, SendInLoop, IsWritingEnabled, taskVars, stepVars, peerVars, Channels
<1>2. sends' \in [Conns -> Nat]
  BY <1>1 DEF ServerInv, TypeOK
<1>3. interest[c].polled /\ interest \in [Channels -> PS!Entries]
  BY <1>1 DEF ServerInv, TypeOK, StagesInv, InterestInv
<1> DEFINE ev == interest[c].events \cup {"Write"}
<1>4. ev \in SUBSET {"Read", "Write"} /\ ev # {}
  BY <1>1, EventsType
<1>5. CASE "Write" \in interest[c].events
  BY <1>1, <1>2, <1>3, <1>5
<1>6. CASE "Write" \notin interest[c].events
  <2>1. interest' = With(c, ev)
    BY <1>1, <1>6
  <2> HIDE DEF ev
  <2>2. /\ interest' \in [Channels -> PS!Entries]
        /\ \A d \in Channels : d # c => interest'[d] = interest[d]
        /\ interest'[c].polled
        /\ interest'[c].events = ev
        /\ ~interest[c].ignored => ~interest'[c].ignored
    BY <1>1, <1>4, <2>1, WithFacts
  <2> QED BY <1>1, <1>2, <2>2 DEF ev
<1> QED BY <1>5, <1>6

\* Send adds output and watches for it; a connection that takes output has not been
\* shut for writing.
LEMMA SendStep ==
    ASSUME ServerInv, NEW c \in Conns, NEW n \in Sizes, Send(c, n)
    PROVE  ServerInv'
<1>0. /\ n \in Nat /\ output_' = [output_ EXCEPT ![c] = output_[c] + n]
      /\ UNCHANGED <<ready, pending_tasks, batch, batch_refs, cur>>
  BY SendFacts
<1>1. Where' = Where /\ Queued' = Queued
  BY SendFacts DEF Where, Queued
<1>2. /\ output_' \in [Conns -> Nat] /\ \A d \in Conns : d # c => output_'[d] = output_[d]
  BY <1>0 DEF ServerInv, TypeOK
<1>3. TypeOK'
  <2>1. /\ sends' \in [Conns -> Nat] /\ interest' \in [Channels -> PS!Entries]
        /\ UNCHANGED <<listenning, state_, connections_, ready, pending_tasks, batch, batch_refs,
                       pc, cur, todo, ret, held, story, recv, inbox, peer, err, backlog,
                       wr_shut, ensured>>
    BY SendFacts
  <2> QED BY <1>2, <2>1 DEF ServerInv, TypeOK
<1>4. TasksInv'
  BY <1>0, <1>1 DEF ServerInv, TasksInv
<1>5. StagesInv'
  BY <1>1, SendFacts DEF ServerInv, StagesInv, Destroying
<1>6. c \in connections_ \cup Queued
  BY SendFacts DEF ServerInv, StagesInv
<1>7. InterestInv'
  <2> SUFFICES ASSUME NEW d \in Conns
               PROVE  /\ interest'[d].polled <=> d \in connections_ \cup Queued \/ Destroying(d)
                      /\ interest'[d].polled \/ interest'[d] = PS!NotPolled
                      /\ d \in connections_ => ~interest'[d].ignored /\ "Read" \in interest'[d].events
    BY <1>1, SendFacts DEF ServerInv, InterestInv, Destroying, Channels
  <2>1. CASE d = c
    BY <1>6, <2>1, SendFacts DEF ServerInv, InterestInv
  <2>2. CASE d # c
    BY <2>2, SendFacts DEF ServerInv, InterestInv, Channels
  <2> QED BY <2>1, <2>2
<1>8. ReadyInv' /\ DispatchInv'
  BY <1>1, SendFacts DEF ServerInv, ReadyInv, DispatchInv
<1>9. OutputInv'
  <2> SUFFICES ASSUME NEW d \in Conns
               PROVE  /\ state_[d] \in {"None", "Connected"} => ~wr_shut[d]
                      /\ state_[d] = "None" => output_'[d] = 0
                      /\ d \in connections_ =>
                            /\ output_'[d] > 0 => "Write" \in interest'[d].events
                            /\ wr_shut[d] => output_'[d] = 0
    BY SendFacts DEF OutputInv
  <2>1. CASE d = c
    BY <2>1, SendFacts DEF ServerInv, OutputInv
  <2>2. CASE d # c
    BY <1>2, <2>2, SendFacts DEF ServerInv, OutputInv, Channels
  <2> QED BY <2>1, <2>2
<1> QED BY <1>3, <1>4, <1>5, <1>7, <1>8, <1>9, SendFacts DEF ServerInv

\* Shutdown leaves SHUT_WR to HandleWrite while there is output.
LEMMA ShutdownStep ==
    ASSUME ServerInv, NEW c \in Conns, Shutdown(c)
    PROVE  ServerInv'
<1>1. /\ state_[c] = "Connected"
      /\ state_' = [state_ EXCEPT ![c] = "Disconnecting"]
      /\ wr_shut' = IF "Write" \in interest[c].events THEN wr_shut
                                                      ELSE [wr_shut EXCEPT ![c] = TRUE]
      /\ UNCHANGED <<listenning, output_, connections_, interest, ready, pending_tasks, batch,
                     batch_refs, pc, cur, todo, ret, held, story, sends, recv, inbox, peer, err,
                     backlog, ensured>>
  BY DEF Shutdown, ShutdownInLoop, IsWritingEnabled, pollVars, taskVars, stepVars, userVars,
         peerVars
<1>2. Where' = Where /\ Queued' = Queued
  BY <1>1 DEF Where, Queued
<1>3. /\ state_' \in [Conns -> {"None", "Connected", "Disconnecting", "Disconnected"}]
      /\ state_'[c] = "Disconnecting" /\ \A d \in Conns : d # c => state_'[d] = state_[d]
  BY <1>1 DEF ServerInv, TypeOK
<1>4. /\ wr_shut' \in [Conns -> BOOLEAN]
      /\ \A d \in Conns : d # c => wr_shut'[d] = wr_shut[d]
      /\ "Write" \in interest[c].events => wr_shut'[c] = wr_shut[c]
  BY <1>1 DEF ServerInv, TypeOK
<1>5. TypeOK'
  BY <1>1, <1>3, <1>4 DEF ServerInv, TypeOK
<1>6. TasksInv'
  BY <1>1, <1>2 DEF ServerInv, TasksInv
<1>7. StagesInv'
  BY <1>1, <1>2, <1>3 DEF ServerInv, StagesInv, Destroying
<1>8. InterestInv'
  BY <1>1, <1>2 DEF ServerInv, InterestInv, Destroying
<1>9. ReadyInv' /\ DispatchInv'
  BY <1>1, <1>2 DEF ServerInv, ReadyInv, DispatchInv
<1>10. OutputInv'
  <2> SUFFICES ASSUME NEW d \in Conns
               PROVE  /\ state_'[d] \in {"None", "Connected"} => ~wr_shut'[d]
                      /\ state_'[d] = "None" => output_[d] = 0
                      /\ d \in connections_ =>
                            /\ output_[d] > 0 => "Write" \in interest[d].events
                            /\ wr_shut'[d] => output_[d] = 0
    BY <1>1 DEF OutputInv
  <2>1. CASE d = c
    <3>1. output_[c] \in Nat
      BY DEF ServerInv, TypeOK
    <3> QED BY <1>1, <1>3, <1>4, <2>1, <3>1 DEF ServerInv, OutputInv
  <2>2. CASE d # c
    BY <1>3, <1>4, <2>2 DEF ServerInv, OutputInv
  <2> QED BY <2>1, <2>2
<1> QED BY <1>1, <1>5, <1>6, <1>7, <1>8, <1>9, <1>10 DEF ServerInv

-----------------------------------------------------------------------------
(* The theorems.                                                           *)

\* The invariant holds when the server has been created.
LEMMA InitServer == Init => ServerInv
<1> SUFFICES ASSUME Init PROVE ServerInv
  OBVIOUS
<1>1. PS!NotPolled \in PS!Entries /\ ~PS!NotPolled.polled
  BY Zenon DEF PS!NotPolled, PS!Entries, PS!IOEvents
<1>2. /\ interest \in [Channels -> PS!Entries] /\ ready = {}
      /\ \A c \in Channels : interest[c] = PS!NotPolled
  BY <1>1 DEF Init, PS!Init
<1>3. Where = "poll" /\ Queued = {} /\ TaskConns(batch) = {}
  BY EmptyFacts DEF Init, Where, Queued
<1>4. /\ listenning \in BOOLEAN /\ ensured \in BOOLEAN /\ ensured /\ ~listenning
      /\ err \in [Conns -> BOOLEAN] /\ wr_shut \in [Conns -> BOOLEAN]
      /\ \A c \in Conns : ~wr_shut[c]
  BY Zenon DEF Init
<1>5. TypeOK
  BY <1>2, <1>4 DEF Init, TypeOK, Channels
<1>6. TasksInv
  BY <1>2, <1>3, EmptyFacts DEF Init, TasksInv
<1>7. StagesInv
  BY <1>3 DEF Init, StagesInv, Destroying
<1>8. InterestInv
  BY <1>1, <1>2, <1>3, <1>4 DEF Init, InterestInv, Destroying, Channels
<1>9. ReadyInv /\ DispatchInv
  BY <1>2, <1>3 DEF ReadyInv, DispatchInv
<1>10. OutputInv
  BY <1>4 DEF Init, OutputInv
<1> QED BY <1>4, <1>5, <1>6, <1>7, <1>8, <1>9, <1>10 DEF ServerInv

\* Every step of the loop, of user code and of the peers keeps the invariant.
LEMMA ServerStep == ServerInv /\ [Next]_vars => ServerInv'
<1> SUFFICES ASSUME ServerInv, [Next]_vars PROVE ServerInv'
  OBVIOUS
<1>1. CASE PeerStep
  BY <1>1, PeerSteps
<1>2. CASE UserStep
  BY <1>2, StartStep, KeepStep, SendStep, ShutdownStep DEF UserStep
<1>3. CASE LoopStep
  BY <1>3, PollStep, HandleEventsStep, HandleEventsReturnsStep, ProcessPendingTasksStep,
     TasksDoneStep, DestroyConnectionStep, DestroyConnectionEndStep, HandleReadMessageStep,
     HandleErrorStep, HandleEndStep, HandleWriteNothingStep, KeepStep,
     HandleNewConnectionStep, HandleWriteStep
     DEF LoopStep
<1>4. CASE UNCHANGED vars
  BY <1>4, KeepStep
<1> QED BY <1>1, <1>2, <1>3, <1>4 DEF Next

\* The inductive invariant: connections, channels, queued tasks and handlers to call
\* stay in step, whatever the order of reports, tasks and calls of the user.
THEOREM ServerInvariant == Spec => []ServerInv
BY InitServer, ServerStep, PTL DEF Spec

\* No ENSURE of HandleClose, RemoveConnection or RemoveChannel fails.
THEOREM EnsuresTheorem == Spec => []EnsuresHold
<1>1. ServerInv => EnsuresHold
  BY DEF ServerInv, EnsuresHold
<1> QED BY <1>1, ServerInvariant, PTL

\* The Poller, the reported channels and HandleEvents point to connections that are
\* alive.
THEOREM NoDanglingTheorem == Spec => []NoDangling
<1>1. ServerInv => NoDangling
  <2> SUFFICES ASSUME ServerInv, NEW c \in Conns,
                      \/ interest[c].polled
                      \/ \E r \in ready : r[1] = c
                      \/ pc = "dispatch" /\ cur = c
               PROVE  Referenced(c)
    BY DEF NoDangling
  <2>1. c # Listener
    BY ConstantsAssumption
  <2>2. c \in connections_ \cup Queued \/ Destroying(c)
    BY <2>1 DEF ServerInv, InterestInv, ReadyInv, DispatchInv, Where
  <2>3. CASE c \in TaskConns(pending_tasks)
    <3>1. PICK i \in DOMAIN pending_tasks : pending_tasks[i].conn = c
      BY <2>3 DEF TaskConns
    <3>2. pending_tasks \in Seq(TaskSet)
      BY DEF ServerInv, TypeOK, TaskSet
    <3>3. pending_tasks[i] \in TaskSet
      BY <3>2
    <3> QED BY <3>1, <3>3 DEF Referenced, Owns, TaskSet
  <2>4. CASE c \in connections_ \cup TaskConns(batch) \/ Destroying(c)
    BY <2>4 DEF ServerInv, TasksInv, Referenced, Destroying
  <2> QED BY <2>2, <2>3, <2>4 DEF Queued
<1> QED BY <1>1, ServerInvariant, PTL

\* FIN is sent after the output (TCPConnection::ShutdownInLoop, HandleWrite).
THEOREM FinTheorem == Spec => []FinAfterFlush
<1>1. ServerInv => FinAfterFlush
  BY DEF ServerInv, OutputInv, FinAfterFlush, TypeOK
<1> QED BY <1>1, ServerInvariant, PTL

\* What a step of the server does to the poll set.
LEMMA PollSetSteps ==
    ASSUME ServerInv, Next
    PROVE  \/ UNCHANGED <<interest, ready>>
           \/ \E c \in Channels, ev \in SUBSET {"Read", "Write"} :
                 interest' = With(c, ev) /\ ready' = ready
           \/ pc = "destroy" /\ cur \in Channels /\ PS!RemoveChannel(cur)
           \/ PS!Poll
           \/ \E r \in ready : PS!HandleEvents(r)
<1> DEFINE Goal == \/ UNCHANGED <<interest, ready>>
                   \/ \E c \in Channels, ev \in SUBSET {"Read", "Write"} :
                         interest' = With(c, ev) /\ ready' = ready
                   \/ pc = "destroy" /\ cur \in Channels /\ PS!RemoveChannel(cur)
                   \/ PS!Poll
                   \/ \E r \in ready : PS!HandleEvents(r)
<1> SUFFICES Goal
  OBVIOUS
<1>b. ASSUME NEW c \in Channels, NEW ev \in SUBSET {"Read", "Write"},
             interest' = With(c, ev), ready' = ready
      PROVE  Goal
  BY <1>b
<1>c. {} \in SUBSET {"Read", "Write"}
  OBVIOUS
<1> HIDE DEF Goal
<1>1. CASE PeerStep
  BY <1>1 DEF PeerStep, ClientConnects, PeerSends, PeerCloses, PeerResets, pollVars, Goal
<1>2. CASE Start
  <2>1. Listener \in Channels /\ interest[Listener].events \cup {"Read"} \in SUBSET {"Read", "Write"}
    BY EventsType DEF Channels
  <2>2. ready' = ready /\ interest' = With(Listener, interest[Listener].events \cup {"Read"})
    BY <1>2 DEF Start, Listen
  <2> QED BY <2>1, <2>2, <1>b
<1>3. ASSUME NEW c \in Conns, NEW n \in Sizes, Send(c, n) PROVE Goal
  <2>1. c \in Channels /\ interest[c].events \cup {"Write"} \in SUBSET {"Read", "Write"}
    BY EventsType DEF Channels
  <2>2. ready' = ready /\ (interest' = interest
                           \/ interest' = With(c, interest[c].events \cup {"Write"}))
    BY <1>3 DEF Send, SendInLoop
  <2>3. CASE interest' = interest
    BY <2>2, <2>3 DEF Goal
  <2>4. CASE interest' = With(c, interest[c].events \cup {"Write"})
    BY <2>1, <2>2, <2>4, <1>b
  <2> QED BY <2>2, <2>3, <2>4
<1>4. CASE Keep \/ (\E c \in Conns : Shutdown(c) \/ Drop(c)) \/ UserReturns
  BY <1>4 DEF Keep, Shutdown, Drop, UserReturns, pollVars, Goal
<1>5. CASE \/ HandleEventsReturns \/ ProcessPendingTasks \/ TasksDone
           \/ HandleReadMessage \/ HandleError \/ HandleWriteNothing
  BY <1>5 DEF HandleEventsReturns, ProcessPendingTasks, TasksDone, HandleReadMessage, HandleError,
              HandleWriteNothing, pollVars, Goal
<1>6. CASE HandleEvents
  BY <1>6 DEF HandleEvents, PS!HandleEvents, Goal
<1>7. CASE Poll
  <2> DEFINE Watched == {h \in Channels : interest[h].polled /\ ~interest[h].ignored}
             Of(h) == IF h = Listener THEN ListenerAnswers ELSE Answers(h)
  <2>1. PICK answer \in [Watched -> UNION {Of(h) : h \in Watched}] :
           /\ \A h \in Watched : answer[h] \in Of(h)
           /\ ready' = {<<h, answer[h]>> : h \in {g \in Watched : answer[g] # {}}}
    BY <1>7 DEF Poll
  <2>2. UNCHANGED interest /\ pc = "poll" /\ ready = {}
    BY <1>7 DEF Poll, ServerInv, TasksInv, Where
  <2>3. ASSUME NEW g \in Watched, answer[g] # {}
        PROVE  PS!MayReport(interest[g], answer[g])
    <3>1. answer[g] \in Of(g)
      BY <2>1
    <3>2. /\ "IN" \in answer[g] => "Read" \in interest[g].events
          /\ "OUT" \in answer[g] => "Write" \in interest[g].events
      <4>1. CASE g = Listener
        BY <3>1, <4>1 DEF ListenerAnswers
      <4>2. CASE g # Listener
        <5>1. answer[g] \in Answers(g)
          BY <3>1, <4>2
        <5> QED BY <5>1 DEF Answers
      <4> QED BY <4>1, <4>2
    <3> QED BY <2>3, <3>2 DEF PS!MayReport
  <2>4. ready' \in SUBSET (Channels \X SUBSET Revents)
    BY <1>7, PollStep DEF ServerInv, TypeOK
  <2> HIDE DEF Watched, Of
  <2>6. \A r \in ready' : \E g \in Watched : r = <<g, answer[g]>> /\ answer[g] # {}
    BY <2>1
  <2>7. \A r \in ready' : PS!MayReport(interest[r[1]], r[2])
    <3> SUFFICES ASSUME NEW r \in ready' PROVE PS!MayReport(interest[r[1]], r[2])
      OBVIOUS
    <3>1. PICK g \in Watched : r = <<g, answer[g]>> /\ answer[g] # {}
      BY <2>6
    <3>2. r[1] = g /\ r[2] = answer[g]
      BY <3>1
    <3>3. PS!MayReport(interest[g], answer[g])
      BY <2>3, <3>1, Zenon
    <3> QED BY <3>2, <3>3
  <2>8. \A r, s \in ready' : r[1] = s[1] => r = s
    BY <2>6
  <2>9. PS!Poll
    BY <2>2, <2>4, <2>7, <2>8 DEF PS!Poll
  <2> QED BY <2>9 DEF Goal
<1>8. CASE DestroyConnection
  <2>1. batch \in Seq(TaskSet) /\ batch # <<>>
    BY <1>8 DEF DestroyConnection, ServerInv, TypeOK, TaskSet
  <2>2. Head(batch).conn \in Channels
    BY <2>1, TailFacts DEF Channels
  <2>3. interest' = With(Head(batch).conn, {}) /\ ready' = ready
    BY <1>8 DEF DestroyConnection
  <2> QED BY <2>2, <2>3, <1>b, <1>c
<1>9. CASE DestroyConnectionEnd
  <2>1. /\ pc = "destroy" /\ interest' = [interest EXCEPT ![cur] = PS!NotPolled]
        /\ ready' = ready
    BY <1>9 DEF DestroyConnectionEnd
  <2>2. cur \in Conns /\ Destroying(cur)
    BY <2>1 DEF ServerInv, TypeOK, TasksInv, Where, Destroying
  <2>3. interest[cur].polled
    BY <2>2 DEF ServerInv, InterestInv
  <2> QED BY <2>1, <2>2, <2>3 DEF PS!RemoveChannel, Channels, Goal
<1>10. CASE HandleEnd
  <2>1. interest' = With(cur, {}) /\ ready' = ready /\ cur \in Channels
    BY <1>10 DEF HandleEnd, HandleClose, ServerInv, TypeOK
  <2> QED BY <2>1, <1>b, <1>c
<1>11. ASSUME NEW c \in Conns, HandleNewConnection(c) PROVE Goal
  <2>1. c \in Channels /\ interest[c].events \cup {"Read"} \in SUBSET {"Read", "Write"}
    BY EventsType DEF Channels
  <2>2. ready' = ready /\ interest' = With(c, interest[c].events \cup {"Read"})
    BY <1>11 DEF HandleNewConnection, EstablishConnection
  <2> QED BY <2>1, <2>2, <1>b
<1>12. ASSUME NEW c \in Conns, HandleWrite(c) PROVE Goal
  <2>1. c \in Channels /\ interest[c].events \ {"Write"} \in SUBSET {"Read", "Write"}
    BY EventsType DEF Channels
  <2>2. ready' = ready /\ (interest' = interest
                           \/ interest' = With(c, interest[c].events \ {"Write"}))
    BY <1>12 DEF HandleWrite, Written
  <2>3. CASE interest' = interest
    BY <2>2, <2>3 DEF Goal
  <2>4. CASE interest' = With(c, interest[c].events \ {"Write"})
    BY <2>1, <2>2, <2>4, <1>b
  <2> QED BY <2>2, <2>3, <2>4
<1>13. CASE UserStep
  BY <1>2, <1>3, <1>4, <1>13 DEF UserStep
<1>14. CASE LoopStep
  BY <1>4, <1>5, <1>6, <1>7, <1>8, <1>9, <1>10, <1>11, <1>12, <1>14 DEF LoopStep
<1> QED BY <1>1, <1>13, <1>14 DEF Next

\* The server uses the Poller as PollSet, which Poller implements, allows: it removes
\* registered channels only, and polls when all reports have been handled.
THEOREM UsesPollSet == Spec => PS!Spec
<1>1. Init => PS!Init
  BY DEF Init
<1>2. ServerInv /\ [Next]_vars => [PS!Next]_(PS!psvars)
  <2> SUFFICES ASSUME ServerInv, [Next]_vars PROVE [PS!Next]_(PS!psvars)
    OBVIOUS
  <2>1. CASE UNCHANGED vars
    BY <2>1 DEF vars, pollVars, PS!psvars
  <2>2. ASSUME NEW c \in Channels, NEW ev \in SUBSET {"Read", "Write"},
               interest' = With(c, ev), ready' = ready
        PROVE  PS!UpdateChannel(c, ev)
    <3>1. Updated(interest[c], ev) \in PS!MayBecome(interest[c], ev)
      BY UpdatedFacts DEF ServerInv, TypeOK
    <3>2. interest' \in {[interest EXCEPT ![c] = e] : e \in PS!MayBecome(interest[c], ev)}
      BY <2>2, <3>1 DEF With
    <3> QED BY <2>2, <3>2 DEF PS!UpdateChannel
  <2>3. CASE Next
    <3>1. PS!IOEvents = {"Read", "Write"}
      BY DEF PS!IOEvents
    <3> QED BY <2>2, <2>3, <3>1, PollSetSteps DEF PS!Next, PS!psvars
  <2> QED BY <2>1, <2>3
<1> QED BY <1>1, <1>2, ServerInvariant, PTL DEF Spec, PS!Spec

\* Channels leave the poll set in DestroyConnection only, when every reported channel
\* has been handled (Poller::RemoveChannel moves entries).
THEOREM RemovedTheorem == Spec => RemovedWhenIdle
<1>1. ServerInv /\ [Next]_vars =>
         [\A c \in Channels : interest[c].polled /\ ~interest'[c].polled
                                 => ready = {} /\ pc # "dispatch"]_vars
  <2> SUFFICES ASSUME ServerInv, Next, NEW c \in Channels,
                      interest[c].polled, ~interest'[c].polled
               PROVE  ready = {} /\ pc # "dispatch"
    BY DEF vars
  <2>1. interest \in [Channels -> PS!Entries]
    BY DEF ServerInv, TypeOK
  <2>2. ASSUME NEW d \in Channels, NEW ev \in SUBSET {"Read", "Write"}, interest' = With(d, ev)
        PROVE  FALSE
    BY <2>2, WithFacts
  <2>3. pc = "destroy"
    BY <2>2, PollSetSteps DEF PS!Poll, PS!HandleEvents
  <2> QED BY <2>3 DEF ServerInv, TasksInv, Where
<1> QED BY <1>1, ServerInvariant, PTL DEF Spec, RemovedWhenIdle

\* The handlers of the user are called in order (TCPConnection::EstablishConnection,
\* HandleRead, DestroyConnection).
THEOREM CallbackTheorem == Spec => CallbackOrder
<1> DEFINE Order ==
       pc # "user" /\ pc' = "user" =>
          CASE pc = "tasks"                    -> story[cur'] = "up"
            [] pc = "dispatch" /\ cur \in Conns -> story[cur] = "up" /\ cur \in connections_
            [] OTHER                           -> story[cur'] = "new"
<1>1. ServerInv /\ [Next]_vars => [Order]_vars
  <2> SUFFICES ASSUME ServerInv, Next, pc # "user", pc' = "user" PROVE Order
    BY DEF vars
  <2>1. CASE PeerStep
    BY <2>1 DEF PeerStep, ClientConnects, PeerSends, PeerCloses, PeerResets, stepVars
  <2>2. CASE UserStep
    BY <2>2 DEF UserStep, Start, Keep, Send, Shutdown, Drop
  <2>3. CASE \/ Poll \/ HandleEvents \/ HandleEventsReturns \/ ProcessPendingTasks
             \/ TasksDone \/ DestroyConnectionEnd \/ UserReturns
    BY <2>3 DEF Poll, HandleEvents, HandleEventsReturns, ProcessPendingTasks, TasksDone,
                DestroyConnectionEnd, UserReturns
  <2>4. CASE HandleError \/ HandleEnd \/ HandleWriteNothing \/ \E c \in Conns : HandleWrite(c)
    BY <2>4 DEF HandleError, HandleEnd, HandleWriteNothing, HandleWrite, stepVars
  <2>5. CASE DestroyConnection
    <3>1. pc = "tasks" /\ cur' = Head(batch).conn
      BY <2>5 DEF DestroyConnection, CallUser
    <3>2. batch \in Seq(TaskSet) /\ batch # <<>>
      BY <2>5 DEF DestroyConnection, ServerInv, TypeOK, TaskSet
    <3>3. cur' \in Conns /\ cur' \in Queued
      BY <3>1, <3>2, TailFacts DEF Queued
    <3>4. story[cur'] = "up"
      BY <3>3 DEF ServerInv, StagesInv
    <3> QED BY <3>1, <3>4
  <2>6. CASE HandleReadMessage
    <3>1. Calls("read") /\ cur \in Conns /\ "read" \in HandlerNames /\ "read" \in Ends
      BY <2>6 DEF HandleReadMessage, HandlerNames, Ends
    <3>2. pc = "dispatch" /\ cur \in connections_
      BY <3>1, CallsFacts, ConstantsAssumption
    <3>3. story[cur] = "up"
      BY <3>1, <3>2 DEF ServerInv, StagesInv
    <3> QED BY <3>1, <3>2, <3>3
  <2>7. ASSUME NEW c \in Conns, HandleNewConnection(c) PROVE Order
    <3>1. pc = "dispatch" /\ cur = Listener /\ cur' = c /\ state_[c] = "None"
      BY <2>7 DEF HandleNewConnection, Accept, Calls, EstablishConnection, CallUser
    <3>2. story[c] = "new"
      BY <3>1 DEF ServerInv, StagesInv
    <3> QED BY <3>1, <3>2, ConstantsAssumption
  <2> QED BY <2>1, <2>2, <2>3, <2>4, <2>5, <2>6, <2>7 DEF Next, LoopStep
<1> QED BY <1>1, ServerInvariant, PTL DEF Spec, CallbackOrder

-----------------------------------------------------------------------------
(* The poll set when the loop polls.                                       *)

\* A step that changes the entry and the output of channel c only.
LEMMA WritingFrame ==
    ASSUME ServerInv, WritingInv, NEW c,
           connections_' \subseteq connections_ \cup {c},
           \A d \in Conns : d # c => interest'[d] = interest[d] /\ output_'[d] = output_[d],
           c \in connections_' => ("Write" \in interest'[c].events => output_'[c] > 0),
           TypeOK'
    PROVE  WritingInv'
BY DEF WritingInv, TypeOK

\* As long as no message is empty, writing is enabled only while there is output:
\* SendInLoop enables it, and HandleWrite disables it with the last byte.
LEMMA WritingStep ==
    ASSUME 0 \notin Sizes, ServerInv, WritingInv, [Next]_vars
    PROVE  WritingInv'
<1>0. ServerInv' /\ TypeOK'
  BY ServerStep DEF ServerInv
<1>1. CASE UNCHANGED <<interest, output_, connections_>>
  BY <1>1 DEF WritingInv
<1>2. CASE PeerStep
  BY <1>1, <1>2 DEF PeerStep, ClientConnects, PeerSends, PeerCloses, PeerResets, connVars, pollVars
<1>3. CASE Keep \/ (\E c \in Conns : Shutdown(c) \/ Drop(c)) \/ UserReturns \/ UNCHANGED vars
  BY <1>1, <1>3 DEF Keep, Shutdown, Drop, UserReturns, vars, connVars, pollVars
<1>4. CASE \/ Poll \/ HandleEvents \/ HandleEventsReturns \/ ProcessPendingTasks \/ TasksDone
           \/ HandleReadMessage \/ HandleError \/ HandleWriteNothing
  BY <1>1, <1>4 DEF Poll, HandleEvents, HandleEventsReturns, ProcessPendingTasks, TasksDone,
                    HandleReadMessage, HandleError, HandleWriteNothing, connVars, pollVars
<1>5. CASE Start
  <2>1. /\ interest' = With(Listener, interest[Listener].events \cup {"Read"})
        /\ output_' = output_ /\ connections_' = connections_
    BY <1>5 DEF Start, Listen
  <2>2. interest[Listener].events \cup {"Read"} \in SUBSET {"Read", "Write"} /\ Listener \in Channels
    BY EventsType DEF Channels
  <2>3. \A d \in Channels : d # Listener => interest'[d] = interest[d]
    BY <2>1, <2>2, WithFacts
  <2>4. Listener \notin connections_'
    BY <1>0, ConstantsAssumption DEF TypeOK
  <2> QED BY <1>0, <2>1, <2>3, <2>4, WritingFrame DEF Channels
<1>6. ASSUME NEW c \in Conns, NEW n \in Sizes, Send(c, n) PROVE WritingInv'
  <2>1. /\ output_' = [output_ EXCEPT ![c] = output_[c] + n] /\ n \in Nat /\ n # 0
        /\ \A d \in Channels : d # c => interest'[d] = interest[d]
        /\ connections_' = connections_
    BY <1>6, SendFacts
  <2>2. output_'[c] > 0 /\ \A d \in Conns : d # c => output_'[d] = output_[d]
    BY <2>1 DEF ServerInv, TypeOK
  <2> QED BY <1>0, <2>1, <2>2, WritingFrame DEF Channels
<1>7. CASE DestroyConnection
  <2>1. batch \in Seq(TaskSet) /\ batch # <<>>
    BY <1>7 DEF DestroyConnection, ServerInv, TypeOK, TaskSet
  <2> DEFINE c == Head(batch).conn
  <2>2. /\ c \in Conns /\ c \in Queued
        /\ interest' = With(c, {}) /\ output_' = output_ /\ connections_' = connections_
    BY <1>7, <2>1, TailFacts DEF DestroyConnection, Queued
  <2> HIDE DEF c
  <2>3. c \notin connections_'
    BY <2>2 DEF ServerInv, StagesInv
  <2>4. \A d \in Channels : d # c => interest'[d] = interest[d]
    BY <2>2, WithFacts DEF Channels
  <2> QED BY <1>0, <2>2, <2>3, <2>4, WritingFrame DEF Channels
<1>8. CASE DestroyConnectionEnd
  <2>1. /\ pc = "destroy" /\ interest' = [interest EXCEPT ![cur] = PS!NotPolled]
        /\ output_' = output_ /\ connections_' = connections_
    BY <1>8 DEF DestroyConnectionEnd, connVars
  <2>2. cur \in Conns /\ Destroying(cur)
    BY <2>1 DEF ServerInv, TypeOK, TasksInv, Where, Destroying
  <2>3. cur \notin connections_'
    BY <2>1, <2>2 DEF ServerInv, StagesInv
  <2>4. \A d \in Channels : d # cur => interest'[d] = interest[d]
    BY <2>1 DEF ServerInv, TypeOK
  <2> QED BY <1>0, <2>1, <2>3, <2>4, WritingFrame DEF Channels
<1>9. CASE HandleEnd
  <2>1. /\ interest' = With(cur, {}) /\ cur \in Channels
        /\ output_' = output_ /\ connections_' = connections_ \ {cur}
    BY <1>9 DEF HandleEnd, HandleClose, RemoveConnection, ServerInv, TypeOK
  <2>2. \A d \in Channels : d # cur => interest'[d] = interest[d]
    BY <2>1, WithFacts
  <2> QED BY <1>0, <2>1, <2>2, WritingFrame DEF Channels
<1>10. ASSUME NEW c \in Conns, HandleNewConnection(c) PROVE WritingInv'
  <2>1. /\ interest' = With(c, interest[c].events \cup {"Read"}) /\ state_[c] = "None"
        /\ output_' = output_ /\ connections_' = connections_ \cup {c} /\ pc = "dispatch"
    BY <1>10 DEF HandleNewConnection, EstablishConnection, Accept, Calls
  <2>2. interest[c] = PS!NotPolled
    BY <2>1 DEF ServerInv, StagesInv, InterestInv, Destroying, Where
  <2>3. interest[c].events = {}
    <3>1. PS!NotPolled.events = {}
      BY Zenon DEF PS!NotPolled
    <3> QED BY <2>2, <3>1, Zenon
  <2>4. interest' = With(c, {"Read"}) /\ {"Read"} \in SUBSET {"Read", "Write"} /\ c \in Channels
    <3>1. interest[c].events \cup {"Read"} = {"Read"}
      BY <2>3
    <3> QED BY <2>1, <3>1 DEF Channels
  <2>5. /\ \A d \in Channels : d # c => interest'[d] = interest[d]
        /\ "Write" \notin interest'[c].events
    BY <2>4, WithFacts
  <2> QED BY <1>0, <2>1, <2>5, WritingFrame DEF Channels
<1>11. ASSUME NEW c \in Conns, HandleWrite(c) PROVE WritingInv'
  <2>1. PICK n \in 1 .. output_[c] :
           /\ output_' = [output_ EXCEPT ![c] = output_[c] - n]
           /\ IF n = output_[c] THEN Written(c) ELSE UNCHANGED <<interest, wr_shut>>
    BY <1>11 DEF HandleWrite
  <2>2. connections_' = connections_ /\ c \in Channels
    BY <1>11 DEF HandleWrite, Channels
  <2>3. /\ output_[c] \in Nat /\ \A d \in Conns : d # c => output_'[d] = output_[d]
        /\ n # output_[c] => output_'[c] > 0
    BY <2>1 DEF ServerInv, TypeOK
  <2>4. /\ \A d \in Channels : d # c => interest'[d] = interest[d]
        /\ n = output_[c] => "Write" \notin interest'[c].events
    <3>1. CASE n = output_[c]
      <4>1. interest' = With(c, interest[c].events \ {"Write"})
        BY <2>1, <3>1 DEF Written
      <4>2. interest[c].events \ {"Write"} \in SUBSET {"Read", "Write"}
        BY <2>2, EventsType
      <4> QED BY <2>2, <4>1, <4>2, WithFacts
    <3>2. CASE n # output_[c]
      BY <2>1, <3>2
    <3> QED BY <3>1, <3>2
  <2> QED BY <1>0, <2>2, <2>3, <2>4, WritingFrame DEF Channels
<1>12. CASE UserStep
  BY <1>3, <1>5, <1>6, <1>12 DEF UserStep
<1>13. CASE LoopStep
  BY <1>3, <1>4, <1>7, <1>8, <1>9, <1>10, <1>11, <1>13 DEF LoopStep
<1> QED BY <1>2, <1>3, <1>12, <1>13 DEF Next

\* An entry of the poll set is known by its three fields.
LEMMA EntryFacts ==
    ASSUME NEW e \in PS!Entries, NEW ev, e.polled, ~e.ignored, e.events = ev
    PROVE  e = [polled |-> TRUE, ignored |-> FALSE, events |-> ev]
BY Zenon DEF PS!Entries

\* Whenever the loop polls, the poll set is what the connections of the server need,
\* provided that user code sends no empty message: Send of nothing enables writing with
\* nothing to write (TCPConnection::SendInLoop).
THEOREM PollSetTheorem == 0 \notin Sizes => (Spec => []PollSetExact)
<1> SUFFICES ASSUME 0 \notin Sizes PROVE Spec => []PollSetExact
  OBVIOUS
<1>1. Init => WritingInv
  BY DEF Init, WritingInv
<1>2. ServerInv /\ WritingInv /\ [Next]_vars => WritingInv'
  BY WritingStep
<1>3. ServerInv /\ WritingInv => PollSetExact
  <2> SUFFICES ASSUME ServerInv, WritingInv, pc = "poll" PROVE PollSetExact
    BY DEF PollSetExact
  <2>1. Where = "poll" /\ Queued = {}
    BY EmptyFacts DEF ServerInv, TasksInv, Where, Queued
  <2>2. interest[Listener].polled <=> listenning
    BY DEF ServerInv, InterestInv
  <2>3. ASSUME NEW c \in Conns, c \in connections_
        PROVE  interest[c] = [polled |-> TRUE, ignored |-> FALSE,
                              events |-> {"Read"} \cup IF output_[c] > 0 THEN {"Write"} ELSE {}]
    <3>1. /\ interest[c].polled /\ ~interest[c].ignored /\ "Read" \in interest[c].events
          /\ interest[c] \in PS!Entries /\ c \in Channels
      BY <2>3 DEF ServerInv, InterestInv, TypeOK, Channels
    <3>2. "Write" \in interest[c].events <=> output_[c] > 0
      BY <2>3 DEF ServerInv, OutputInv, WritingInv
    <3>3. interest[c].events = {"Read"} \cup IF output_[c] > 0 THEN {"Write"} ELSE {}
      BY <3>1, <3>2, EventsType
    <3> QED BY <3>1, <3>3, EntryFacts
  <2>4. ASSUME NEW c \in Conns, c \notin connections_ PROVE interest[c] = PS!NotPolled
    BY <2>1, <2>4 DEF ServerInv, InterestInv, Destroying
  <2> QED BY <2>2, <2>3, <2>4 DEF PollSetExact
<1> QED BY <1>1, <1>2, <1>3, ServerInvariant, PTL DEF Spec

=============================================================================
