------------------------------ MODULE ConnPool ------------------------------
(***************************************************************************)
(* ConnPool (conn-pool/conn_pool/pool.h): threads get connections, reused  *)
(* or new, from a pool of limited size and give them back when they        *)
(* destroy their Conn; connections that were idle for too long are         *)
(* retired, and so is the oldest when too many are idle.                   *)
(*                                                                         *)
(* Every section under mtx_ is a step, and so are the call of NewConn and  *)
(* the closing of retired connections, which come outside it.  The clock   *)
(* is the system's, which may be set back.  A thread has at most two       *)
(* Conns: one it holds, and one it has just got and may move into the      *)
(* first.                                                                  *)
(***************************************************************************)
EXTENDS Naturals, Sequences, FiniteSets, Functions

CONSTANTS
    Threads,
    Conns,           \* bound: the connections that can be open at once
    capacity_,
    max_idle_,
    idle_timeout_,   \* 0 for never
    MaxTime          \* bound: the clock

\* With max_idle_ 0 Put would take the front of an empty deque.
PoolAssumption ==
    /\ IsFiniteSet(Threads)
    /\ capacity_ \in Nat
    /\ max_idle_ \in Nat \ {0}
    /\ idle_timeout_ \in Nat

VARIABLES
    size_,
    idle_list_,      \* from the most inactive on: conn and last_active
    pc,              \* where every thread is
    clock,           \* the clock as a thread has read it in Get, 0 once it is of no use
    held,            \* the connections of a thread's Conns, the older first
    retired,         \* the connections a thread is about to close
    open,            \* connections that are open
    dropped,         \* history: places of size_ that nobody will give back
    alive,           \* the pool has not been destroyed
    now,             \* the clock (external)
    set_back         \* history: the clock has been set back

vars == <<size_, idle_list_, pc, clock, held, retired, open, dropped, alive, now, set_back>>

Init ==
    /\ size_ = 0
    /\ idle_list_ = <<>>
    /\ pc = [t \in Threads |-> "user"]
    /\ clock = [t \in Threads |-> 0]
    /\ held = [t \in Threads |-> <<>>]
    /\ retired = [t \in Threads |-> {}]
    /\ open = {}
    /\ dropped = 0
    /\ alive = TRUE
    /\ now = 0
    /\ set_back = FALSE

Goto(t, from, to) == pc[t] = from /\ pc' = [pc EXCEPT ![t] = to]

-----------------------------------------------------------------------------
(* Get.                                                                    *)

\* Get by a thread that has a reference to the pool; RetireTimeoutIdleConnections
\* reads the clock ...
Get(t) ==
    /\ alive
    /\ Len(held[t]) < 2
    /\ Goto(t, "user", IF idle_timeout_ > 0 THEN "retire" ELSE "get")
    /\ clock' = [clock EXCEPT ![t] = now]
    /\ UNCHANGED <<size_, idle_list_, held, retired, open, dropped, alive, now, set_back>>

\* The connections at the head that have been idle for too long.
Expired(t) ==
    {i \in DOMAIN idle_list_ :
        \A j \in 1 .. i : clock[t] >= idle_list_[j].last_active + idle_timeout_}

\* Mistake: an expired connection is retired only if it is not the only one.
RetireAllButOne(t) ==
    LET k == IF Cardinality(Expired(t)) = Len(idle_list_) /\ idle_list_ # <<>>
             THEN Len(idle_list_) - 1 ELSE Cardinality(Expired(t)) IN
    /\ Goto(t, "retire", "close_then_get")
    /\ idle_list_' = SubSeq(idle_list_, k + 1, Len(idle_list_))
    /\ retired' = [retired EXCEPT ![t] = {idle_list_[i].conn : i \in 1 .. k}]
    /\ size_' = size_ - k
    /\ UNCHANGED <<clock, held, open, dropped, alive, now, set_back>>

\* ... takes them off the list ...
RetireTimeoutIdleConnections(t) ==
    LET k == Cardinality(Expired(t)) IN
    /\ Goto(t, "retire", "close_then_get")
    /\ idle_list_' = SubSeq(idle_list_, k + 1, Len(idle_list_))
    /\ retired' = [retired EXCEPT ![t] = {idle_list_[i].conn : i \in 1 .. k}]
    /\ size_' = size_ - k
    /\ UNCHANGED <<clock, held, open, dropped, alive, now, set_back>>

\* ... and they are closed when to_retire goes, outside the lock.  Put ends alike.
Close(t) ==
    /\ \/ Goto(t, "close_then_get", "get")
       \/ Goto(t, "close", "user")
    /\ open' = open \ retired[t]
    /\ retired' = [retired EXCEPT ![t] = {}]
    /\ UNCHANGED <<size_, idle_list_, clock, held, dropped, alive, now, set_back>>

\* Mistake: the connection is not taken off the list.
ReuseKeeping(t) ==
    /\ idle_list_ # <<>>
    /\ Goto(t, "get", "user")
    /\ held' = [held EXCEPT ![t] = Append(@, idle_list_[Len(idle_list_)].conn)]
    /\ clock' = [clock EXCEPT ![t] = 0]
    /\ UNCHANGED <<size_, idle_list_, retired, open, dropped, alive, now, set_back>>

\* Get reuses the connection that was active last ...
Reuse(t) ==
    /\ idle_list_ # <<>>
    /\ Goto(t, "get", "user")
    /\ held' = [held EXCEPT ![t] = Append(@, idle_list_[Len(idle_list_)].conn)]
    /\ idle_list_' = SubSeq(idle_list_, 1, Len(idle_list_) - 1)
    /\ clock' = [clock EXCEPT ![t] = 0]
    /\ UNCHANGED <<size_, retired, open, dropped, alive, now, set_back>>

\* ... throws PoolExhausted ...
Exhausted(t) ==
    /\ idle_list_ = <<>>
    /\ size_ >= capacity_
    /\ Goto(t, "get", "user")
    /\ clock' = [clock EXCEPT ![t] = 0]
    /\ UNCHANGED <<size_, idle_list_, held, retired, open, dropped, alive, now, set_back>>

\* Mistake: the size goes up once the connection is made.
ReserveLater(t) ==
    /\ idle_list_ = <<>>
    /\ size_ < capacity_
    /\ Goto(t, "get", "connect")
    /\ clock' = [clock EXCEPT ![t] = 0]
    /\ UNCHANGED <<size_, idle_list_, held, retired, open, dropped, alive, now, set_back>>

\* ... or reserves a place ...
Reserve(t) ==
    /\ idle_list_ = <<>>
    /\ size_ < capacity_
    /\ Goto(t, "get", "connect")
    /\ size_' = size_ + 1
    /\ clock' = [clock EXCEPT ![t] = 0]
    /\ UNCHANGED <<idle_list_, held, retired, open, dropped, alive, now, set_back>>

\* ... for the connection of NewConn (external) ...
NewConn(t, c) ==
    /\ c \notin open
    /\ Goto(t, "connect", "user")
    /\ open' = open \cup {c}
    /\ held' = [held EXCEPT ![t] = Append(@, c)]
    /\ UNCHANGED <<size_, idle_list_, clock, retired, dropped, alive, now, set_back>>

\* ... and gives the place back if NewConn throws a std::exception ...
NewConnThrows(t) ==
    /\ Goto(t, "connect", "user")
    /\ size_' = size_ - 1
    /\ UNCHANGED <<idle_list_, clock, held, retired, open, dropped, alive, now, set_back>>

\* ... but not if it throws anything else, which is not caught.
NewConnThrowsOther(t) ==
    /\ Goto(t, "connect", "user")
    /\ dropped' = dropped + 1
    /\ UNCHANGED <<size_, idle_list_, clock, held, retired, open, alive, now, set_back>>

-----------------------------------------------------------------------------
(* Conn.                                                                   *)

\* Mistake: with no room the connection itself is retired, and still counted.
PutFull(t) ==
    /\ alive
    /\ held[t] # <<>>
    /\ Goto(t, "user", "close")
    /\ LET mine == Head(held[t]) IN
       IF Len(idle_list_) = max_idle_
       THEN /\ retired' = [retired EXCEPT ![t] = {mine}]
            /\ UNCHANGED <<idle_list_, size_>>
       ELSE /\ idle_list_' = Append(idle_list_, [conn |-> mine, last_active |-> now])
            /\ UNCHANGED <<size_, retired>>
    /\ held' = [held EXCEPT ![t] = Tail(@)]
    /\ UNCHANGED <<clock, open, dropped, alive, now, set_back>>

\* ~Conn with a pool: Put makes the connection the most active of the idle ones,
\* for which the most inactive goes if they are too many.
Put(t) ==
    /\ alive
    /\ held[t] # <<>>
    /\ Goto(t, "user", "close")
    /\ LET full == Len(idle_list_) = max_idle_
           rest == IF full THEN Tail(idle_list_) ELSE idle_list_ IN
       /\ idle_list_' = Append(rest, [conn |-> Head(held[t]), last_active |-> now])
       /\ retired' = [retired EXCEPT ![t] = IF full THEN {Head(idle_list_).conn} ELSE {}]
       /\ size_' = IF full THEN size_ - 1 ELSE size_
    /\ held' = [held EXCEPT ![t] = Tail(@)]
    /\ UNCHANGED <<clock, open, dropped, alive, now, set_back>>

\* ~Conn when the pool has long gone.
CloseConn(t) ==
    /\ ~alive
    /\ pc[t] = "user"
    /\ held[t] # <<>>
    /\ open' = open \ {Head(held[t])}
    /\ held' = [held EXCEPT ![t] = Tail(@)]
    /\ UNCHANGED <<size_, idle_list_, pc, clock, retired, dropped, alive, now, set_back>>

\* The move assignment of a Conn to another closes the connection that is
\* overwritten without giving it back; the Conn moved from has no pool.
MoveAssign(t) ==
    /\ pc[t] = "user"
    /\ Len(held[t]) = 2
    /\ open' = open \ {Head(held[t])}
    /\ held' = [held EXCEPT ![t] = Tail(@)]
    /\ dropped' = IF alive THEN dropped + 1 ELSE dropped
    /\ UNCHANGED <<size_, idle_list_, pc, clock, retired, alive, now, set_back>>

\* The last reference to the pool goes, with no call under way.
DestroyPool ==
    /\ alive
    /\ \A t \in Threads : pc[t] = "user"
    /\ alive' = FALSE
    /\ open' = open \ {idle_list_[i].conn : i \in DOMAIN idle_list_}
    /\ idle_list_' = <<>>
    /\ UNCHANGED <<size_, pc, clock, held, retired, dropped, now, set_back>>

\* Time passes (external).
Tick ==
    /\ now < MaxTime
    /\ now' = now + 1
    /\ UNCHANGED <<size_, idle_list_, pc, clock, held, retired, open, dropped, alive, set_back>>

\* Somebody sets the system's clock back (external).
SetBack ==
    /\ now' \in {n \in 0 .. MaxTime : n < now}
    /\ set_back' = TRUE
    /\ UNCHANGED <<size_, idle_list_, pc, clock, held, retired, open, dropped, alive>>

Next ==
    \/ \E t \in Threads :
          \/ Get(t) \/ RetireTimeoutIdleConnections(t) \/ Close(t)
          \/ Reuse(t) \/ Exhausted(t) \/ Reserve(t)
          \/ \E c \in Conns : NewConn(t, c)
          \/ NewConnThrows(t) \/ NewConnThrowsOther(t)
          \/ Put(t) \/ CloseConn(t) \/ MoveAssign(t)
    \/ DestroyPool
    \/ Tick \/ SetBack

Spec == Init /\ [][Next]_vars

-----------------------------------------------------------------------------
(* Properties.                                                             *)

Connecting == {t \in Threads : pc[t] = "connect"}
Idle == {idle_list_[i].conn : i \in DOMAIN idle_list_}
Held == UNION {Range(held[t]) : t \in Threads}
Retired == UNION {retired[t] : t \in Threads}

TypeOK ==
    /\ size_ \in Nat
    /\ idle_list_ \in Seq([conn : Conns, last_active : Nat])
    /\ Len(idle_list_) <= max_idle_
    /\ pc \in [Threads -> {"user", "retire", "close_then_get", "get", "connect", "close"}]
    /\ clock \in [Threads -> Nat]
    /\ held \in [Threads -> Seq(Conns)]
    /\ retired \in [Threads -> SUBSET Conns]
    /\ dropped \in Nat
    /\ set_back \in BOOLEAN

\* An open connection is in one place: idle, with one thread, or about to be
\* closed by one.
OnePlace ==
    /\ TypeOK
    /\ open = Idle \cup Held \cup Retired
    /\ Cardinality(open) =
          Len(idle_list_) + SumFunction([t \in Threads |-> Len(held[t]) + Cardinality(retired[t])])

\* size_ counts the connections that are idle or held, the ones being made and, for
\* ever, the places that are lost: one for every connection closed by an assignment
\* to its Conn, and one for every time NewConn threw something that is no
\* std::exception; however retiring and giving back interleave.
SizeCounts ==
    alive => size_ = Len(idle_list_) + SumFunction([t \in Threads |-> Len(held[t])])
                     + Cardinality(Connecting) + dropped

\* No more than capacity_ connections are open or being made at once, but for the
\* retired ones, whose places are free before they are closed outside the lock.
WithinCapacity ==
    Cardinality(open \ Retired) + Cardinality(Connecting) <= capacity_

\* As long as the clock has not been set back, the idle list is in the order of
\* last activity ("most inactive conn is at the head"), which retiring from its head
\* relies on, and a connection that
\* Get is about to reuse had not expired when Get was called, although others give
\* back connections in between.
NoneExpired ==
    ~set_back =>
        /\ \A i, j \in DOMAIN idle_list_ :
              i < j => idle_list_[i].last_active <= idle_list_[j].last_active
        /\ idle_timeout_ > 0 => \A t \in Threads : pc[t] \in {"close_then_get", "get"} =>
              \A i \in DOMAIN idle_list_ : clock[t] < idle_list_[i].last_active + idle_timeout_

=============================================================================
