------------------------------- MODULE LStack -------------------------------
(***************************************************************************)
(* LStack (LockfreeStack/lstack.h): a bounded stack without locks.  Its    *)
(* nodes are in one of two linked lists, the stack and the free nodes,     *)
(* whose heads carry a tag that every exchange increments.                 *)
(*                                                                         *)
(* Every access to a head, to size_ and to the next of a node that others  *)
(* may reach is a step.  PopHead reads the next of a node that another     *)
(* thread may have taken and be writing: the read gives the old or the new *)
(* pointer, as an aligned word does.                                       *)
(***************************************************************************)
EXTENDS Integers, Sequences, FiniteSets, Functions

CONSTANTS
    Threads,
    maxsize,     \* number of nodes
    MaxOps,      \* bound: Push and Pop calls in a behaviour
    MaxSize      \* size_t counts modulo MaxSize

StackAssumption ==
    /\ IsFiniteSet(Threads)
    /\ maxsize \in Nat \ {0} /\ MaxOps \in Nat /\ MaxSize \in Nat \ {0}

VARIABLES
    top,       \* head_ and free_
    next,
    size_,
    pc,        \* where every thread is
    job,       \* what it does: "Push" or "Pop"
    old_head,  \* the locals of PopHead and PushHead
    new_node,  \* the node PopHead is about to put, or the thread has taken
    ops

vars == <<top, next, size_, pc, job, old_head, new_node, ops>>

Nodes == 1 .. maxsize
nullptr == 0

Init ==
    /\ top = [l \in {"head_", "free_"} |->
                 [aba_tag |-> 0, node |-> IF l = "free_" THEN 1 ELSE nullptr]]
    /\ next = [n \in Nodes |-> IF n = maxsize THEN nullptr ELSE n + 1]
    /\ size_ = 0
    /\ pc = [t \in Threads |-> "idle"]
    /\ job = [t \in Threads |-> "Push"]
    /\ old_head = [t \in Threads |-> top["head_"]]
    /\ new_node = [t \in Threads |-> nullptr]
    /\ ops = 0

-----------------------------------------------------------------------------

Goto(t, from, to) == pc[t] = from /\ pc' = [pc EXCEPT ![t] = to]

\* The list a thread takes a node from, and the one it puts it on.
Source(t) == IF job[t] = "Push" THEN "free_" ELSE "head_"
Target(t) == IF job[t] = "Push" THEN "head_" ELSE "free_"

\* Push and Pop begin with PopHead's load ...
Call(t, j) ==
    /\ ops < MaxOps
    /\ Goto(t, "idle", "next")
    /\ ops' = ops + 1
    /\ job' = [job EXCEPT ![t] = j]
    /\ old_head' = [old_head EXCEPT ![t] = top[IF j = "Push" THEN "free_" ELSE "head_"]]
    /\ UNCHANGED <<top, next, size_, new_node>>

\* ... which gives up if there is no node, and else reads the next one ...
ReadNext(t) ==
    /\ IF old_head[t].node = nullptr
       THEN Goto(t, "next", "idle") /\ UNCHANGED new_node
       ELSE /\ Goto(t, "next", "take")
            /\ new_node' = [new_node EXCEPT ![t] = next[old_head[t].node]]
    /\ UNCHANGED <<top, next, size_, job, old_head, ops>>

\* compare_exchange_weak: it fails if the head has changed, and may fail without
\* a reason; old_head then gets the head.
Fails(t, l, from, to) ==
    /\ Goto(t, from, to)
    /\ old_head' = [old_head EXCEPT ![t] = top[l]]
    /\ UNCHANGED <<top, new_node>>

\* Mistake: nodes are compared without their tags.
ExchangeUntagged(t, l, node) ==
    /\ top[l].node = old_head[t].node
    /\ top' = [top EXCEPT ![l] = [aba_tag |-> old_head[t].aba_tag + 1, node |-> node]]

Exchange(t, l, node) ==
    /\ top[l] = old_head[t]
    /\ top' = [top EXCEPT ![l] = [aba_tag |-> old_head[t].aba_tag + 1, node |-> node]]

\* ... and puts it at the head.
Take(t) ==
    /\ \/ /\ Goto(t, "take", IF job[t] = "Push" THEN "load" ELSE "count")
          /\ Exchange(t, Source(t), new_node[t])
          /\ new_node' = [new_node EXCEPT ![t] = old_head[t].node]
          /\ UNCHANGED old_head
       \/ Fails(t, Source(t), "take", "next")
    /\ UNCHANGED <<next, size_, job, ops>>

\* PushHead loads the other head ...
Load(t) ==
    /\ Goto(t, "load", "link")
    /\ old_head' = [old_head EXCEPT ![t] = top[Target(t)]]
    /\ UNCHANGED <<top, next, size_, job, new_node, ops>>

\* ... links the node ...
Link(t) ==
    /\ Goto(t, "link", "put")
    /\ next' = [next EXCEPT ![new_node[t]] = old_head[t].node]
    /\ UNCHANGED <<top, size_, job, old_head, new_node, ops>>

\* Mistake: the node is not linked again if the exchange fails.
PutUnlinked(t) ==
    /\ \/ /\ Goto(t, "put", IF job[t] = "Push" THEN "count" ELSE "idle")
          /\ Exchange(t, Target(t), new_node[t])
          /\ new_node' = [new_node EXCEPT ![t] = nullptr]
          /\ UNCHANGED old_head
       \/ Fails(t, Target(t), "put", "put")
    /\ UNCHANGED <<next, size_, job, ops>>

\* ... and makes it the head.
Put(t) ==
    /\ \/ /\ Goto(t, "put", IF job[t] = "Push" THEN "count" ELSE "idle")
          /\ Exchange(t, Target(t), new_node[t])
          /\ new_node' = [new_node EXCEPT ![t] = nullptr]
          /\ UNCHANGED old_head
       \/ Fails(t, Target(t), "put", "link")
    /\ UNCHANGED <<next, size_, job, ops>>

\* Mistake: a node that is given back is not counted.
CountPushes(t) ==
    /\ Goto(t, "count", IF job[t] = "Push" THEN "idle" ELSE "load")
    /\ size_' = (size_ + 1) % MaxSize
    /\ UNCHANGED <<top, next, job, old_head, new_node, ops>>

\* size_ goes up after a Push has put its node, and down before a Pop gives it
\* back: it may go below 0 in between, and wraps.
Count(t) ==
    /\ Goto(t, "count", IF job[t] = "Push" THEN "idle" ELSE "load")
    /\ size_' = (IF job[t] = "Push" THEN size_ + 1 ELSE size_ - 1) % MaxSize
    /\ UNCHANGED <<top, next, job, old_head, new_node, ops>>

Next ==
    \E t \in Threads :
        \/ \E j \in {"Push", "Pop"} : Call(t, j)
        \/ ReadNext(t) \/ Take(t) \/ Load(t) \/ Link(t) \/ Put(t) \/ Count(t)

Spec == Init /\ [][Next]_vars

-----------------------------------------------------------------------------
(* Properties.                                                             *)

\* The nodes that can be reached from one of them, in order: a prefix of the walk,
\* as nothing follows nullptr.  A list with a cycle has more nodes than there are.
Walk(from, nxt) ==
    LET at[k \in 1 .. maxsize + 1] ==
            IF k = 1 THEN from
            ELSE IF at[k - 1] = nullptr THEN nullptr ELSE nxt[at[k - 1]]
    IN  Restrict(at, {k \in DOMAIN at : at[k] # nullptr})

Chain(l) == Walk(top[l].node, next)

\* Threads that have taken a node and not yet put it.
Holding == {t \in Threads :
    pc[t] \in {"load", "link", "put"} \/ (pc[t] = "count" /\ job[t] = "Pop")}

Heads == [aba_tag : Nat, node : Nodes \cup {nullptr}]

TypeOK ==
    /\ top \in [{"head_", "free_"} -> Heads]
    /\ next \in [Nodes -> Nodes \cup {nullptr}]
    /\ size_ \in 0 .. MaxSize - 1
    /\ pc \in [Threads -> {"idle", "next", "take", "load", "link", "put", "count"}]
    /\ job \in [Threads -> {"Push", "Pop"}]
    /\ old_head \in [Threads -> Heads]
    /\ new_node \in [Threads -> Nodes \cup {nullptr}]

\* Every node is in one place: once in the stack, once in the free list, or with
\* one thread.  So no two threads write or read the value of a node at once, and
\* none is lost, although a thread may exchange a head that was removed and put
\* back since it looked.
NodesAccounted ==
    LET stack == Chain("head_")
        free == Chain("free_")
        Times(c, n) == Cardinality({k \in 1 .. Len(c) : c[k] = n})
    IN  /\ TypeOK
        /\ Len(stack) <= maxsize /\ Len(free) <= maxsize
        /\ \A n \in Nodes :
              Times(stack, n) + Times(free, n) + Cardinality({t \in Holding : new_node[t] = n}) = 1

\* Every step leaves the stack as it is, or one thread puts its node on top, or
\* takes the top: what is below is never touched, whatever a slow thread writes
\* into the next of the node it holds.
TopOnly ==
    LET s == Chain("head_") IN
    \/ Chain("head_")' = s
    \/ \E t \in Holding : Chain("head_")' = <<new_node[t]>> \o s
    \/ s # <<>> /\ Chain("head_")' = Tail(s)

LastInFirstOut == [][TopOnly]_vars

\* size() is off by the calls under way only: when all are done it is the number
\* of nodes in the stack.
SizeSettles ==
    size_ = (Len(Chain("head_"))
             - Cardinality({t \in Threads : pc[t] = "count" /\ job[t] = "Push"})
             + Cardinality({t \in Threads : pc[t] = "count" /\ job[t] = "Pop"})) % MaxSize

=============================================================================
