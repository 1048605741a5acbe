------------------------------ MODULE TLQueue -------------------------------
(***************************************************************************)
(* TLQueue (ConcurrentQueue/two_lock.h): a linked queue with a lock for    *)
(* its head and one for its tail, kept apart by a sentinel.                *)
(*                                                                         *)
(* A value is the node that was made for it.  The allocator may give a     *)
(* node that was deleted to anybody.  With one node left Enqueue writes    *)
(* the next that Dequeue reads under the other lock: Dequeue gets the old  *)
(* or the new pointer, as an aligned word does, and the node behind it is  *)
(* complete, as stores are seen in order on the machines it is built for.  *)
(***************************************************************************)
EXTENDS Naturals, Sequences, FiniteSets, Functions

CONSTANTS
    Threads,
    Nodes,       \* bound: the memory for nodes
    nullptr

QueueAssumption == IsFiniteSet(Nodes) /\ Nodes # {} /\ nullptr \notin Nodes

VARIABLES
    head_, tail_,
    next,
    live,        \* nodes that are allocated
    pc,          \* where every thread is
    mine         \* the node a thread is to link or to delete, or the new head

vars == <<head_, tail_, next, live, pc, mine>>

Init ==
    /\ \E sentinel \in Nodes :
          /\ head_ = sentinel
          /\ tail_ = sentinel
          /\ live = {sentinel}
    /\ next = [n \in Nodes |-> nullptr]
    /\ pc = [t \in Threads |-> "idle"]
    /\ mine = [t \in Threads |-> nullptr]

-----------------------------------------------------------------------------

Goto(t, from, to) == pc[t] = from /\ pc' = [pc EXCEPT ![t] = to]

\* tail_mtx_ is held between the two assignments, head_mtx_ between the read of
\* next and the new head.
TailLocked == \E t \in Threads : pc[t] = "linked"
HeadLocked == \E t \in Threads : pc[t] = "read"

\* Enqueue: new Node(value) ...
New(t, n) ==
    /\ n \notin live
    /\ Goto(t, "idle", "new")
    /\ live' = live \cup {n}
    /\ next' = [next EXCEPT ![n] = nullptr]
    /\ mine' = [mine EXCEPT ![t] = n]
    /\ UNCHANGED <<head_, tail_>>

\* Mistake: tail_mtx_ is not taken.
LinkUnlocked(t) ==
    /\ Goto(t, "new", "linked")
    /\ next' = [next EXCEPT ![tail_] = mine[t]]
    /\ UNCHANGED <<head_, tail_, live, mine>>

\* ... tail_->next = new_tail ...
Link(t) ==
    /\ ~TailLocked
    /\ Goto(t, "new", "linked")
    /\ next' = [next EXCEPT ![tail_] = mine[t]]
    /\ UNCHANGED <<head_, tail_, live, mine>>

\* ... tail_ = new_tail.
SetTail(t) ==
    /\ Goto(t, "linked", "idle")
    /\ tail_' = mine[t]
    /\ mine' = [mine EXCEPT ![t] = nullptr]
    /\ UNCHANGED <<head_, next, live>>

\* Dequeue reads the sentinel's next; it returns false if there is none.
ReadHead(t) ==
    /\ ~HeadLocked
    /\ next[head_] # nullptr
    /\ Goto(t, "idle", "read")
    /\ mine' = [mine EXCEPT ![t] = next[head_]]
    /\ UNCHANGED <<head_, tail_, next, live>>

\* Mistake: the node with the value is deleted, and the sentinel kept.
SetHeadKeepingSentinel(t) ==
    /\ Goto(t, "read", "delete")
    /\ next' = [next EXCEPT ![head_] = next[mine[t]]]
    /\ UNCHANGED <<head_, tail_, live, mine>>

\* The new head is the sentinel from now on, its value is returned ...
SetHead(t) ==
    /\ Goto(t, "read", "delete")
    /\ head_' = mine[t]
    /\ mine' = [mine EXCEPT ![t] = head_]
    /\ UNCHANGED <<tail_, next, live>>

\* ... and the old one is deleted outside the lock.
Delete(t) ==
    /\ Goto(t, "delete", "idle")
    /\ live' = live \ {mine[t]}
    /\ mine' = [mine EXCEPT ![t] = nullptr]
    /\ UNCHANGED <<head_, tail_, next>>

Next ==
    \E t \in Threads :
        \/ \E n \in Nodes : New(t, n)
        \/ Link(t) \/ SetTail(t) \/ ReadHead(t) \/ SetHead(t) \/ Delete(t)

Spec == Init /\ [][Next]_vars

-----------------------------------------------------------------------------
(* Properties.                                                             *)

\* The nodes that can be reached from one of them, in order: a prefix of the walk,
\* as nothing follows nullptr.
Walk(from, nxt) ==
    LET at[k \in 1 .. Cardinality(Nodes)] ==
            IF k = 1 THEN from
            ELSE IF at[k - 1] = nullptr THEN nullptr ELSE nxt[at[k - 1]]
    IN  Restrict(at, {k \in DOMAIN at : at[k] # nullptr})

\* The queue, the sentinel first.
Chain == Walk(head_, next)

TypeOK ==
    /\ head_ \in Nodes /\ tail_ \in Nodes
    /\ next \in [Nodes -> Nodes \cup {nullptr}]
    /\ live \subseteq Nodes
    /\ pc \in [Threads -> {"idle", "new", "linked", "read", "delete"}]
    /\ mine \in [Threads -> Nodes \cup {nullptr}]

\* No node is used after it was deleted: what the head leads to is allocated,
\* the tail is its end, and while it is not, as its node may be deleted as soon
\* as it is linked, tail_ is about to be overwritten and is not followed.  And
\* none is leaked.
NoUseAfterDelete ==
    /\ TypeOK
    /\ Range(Chain) \subseteq live
    /\ \A t \in Threads : mine[t] # nullptr => mine[t] \in live
    /\ \A t \in Threads : pc[t] = "linked" => mine[t] = Chain[Len(Chain)]
    /\ ~TailLocked => tail_ = Chain[Len(Chain)]
    /\ live \subseteq Range(Chain) \cup Range(mine)

\* Every step leaves the queue as it is, appends the node of one Enqueue, or
\* removes the first: nothing is lost or overtakes, and nobody dequeues a node
\* twice, with either lock held by another thread.
EndsOnly ==
    \/ Chain' = Chain
    \/ \E t \in Threads : pc[t] = "new" /\ Chain' = Append(Chain, mine[t])
    \/ Len(Chain) > 1 /\ Chain' = Tail(Chain)

FirstInFirstOut == [][EndsOnly]_vars

=============================================================================
