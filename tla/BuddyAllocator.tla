--------------------------- MODULE BuddyAllocator ---------------------------
(***************************************************************************)
(* BuddyAllocator and BinManager (BuddyAllocator/src): blocks of a power   *)
(* of 2 slots, found and merged in a complete binary tree that keeps for   *)
(* every node the largest free block below it.                             *)
(*                                                                         *)
(* A pointer is the offset of its slot, and sizes are counted in slots.    *)
(* Allocate that finds no room, and Deallocate of a pointer that is not in *)
(* the table, return without a change and are no steps.                    *)
(***************************************************************************)
EXTENDS Integers, FiniteSetsExt

CONSTANT total_slot_count_

PowersOf2 == {2 ^ k : k \in 0 .. total_slot_count_}

BuddyAssumption == total_slot_count_ \in Nat /\ total_slot_count_ \in PowersOf2

VARIABLES
    max_consecutive_slot_,
    allocation_table_        \* offsets of allocated blocks to their sizes

vars == <<max_consecutive_slot_, allocation_table_>>

Nodes == 0 .. 2 * total_slot_count_ - 2
LeftChild(i) == 2 * (i + 1) - 1
RightChild(i) == 2 * (i + 1)

\* The slots of a node, half as many with every level of the tree, ...
SlotsOf(i) == total_slot_count_ \div Max({p \in PowersOf2 : p <= i + 1})

\* ... the offset of the first, and all of them.
OffsetOf(i) == (i + 1) * SlotsOf(i) - total_slot_count_
Span(i) == OffsetOf(i) .. OffsetOf(i) + SlotsOf(i) - 1

\* The nodes on the way from the root to node i, which is one of them.
Path(i) == {j \in Nodes : Span(i) \subseteq Span(j)}

Init ==
    /\ max_consecutive_slot_ = [i \in Nodes |-> SlotsOf(i)]
    /\ allocation_table_ = [o \in {} |-> 0]

-----------------------------------------------------------------------------

NearestUpperPowerOf2(n) == Min({p \in PowersOf2 \cup {2 * total_slot_count_} : p >= n})

\* The tree with a value at node i, and the values on the way up from it made
\* from those of the children.
Refreshed(i, value, FromChildren(_, _, _)) ==
    LET new[j \in Nodes] ==
            IF j = i THEN value
            ELSE IF j \in Path(i)
            THEN FromChildren(j, new[LeftChild(j)], new[RightChild(j)])
            ELSE max_consecutive_slot_[j]
    IN  new

Larger(j, left, right) == Max({left, right})

\* Mistake: the left half is taken if anything is free in it.
DescendLeft(needed) ==
    LET from[i \in {j \in Nodes : SlotsOf(j) >= needed}] ==
            IF SlotsOf(i) = needed THEN i
            ELSE IF max_consecutive_slot_[LeftChild(i)] > 0
            THEN from[LeftChild(i)] ELSE from[RightChild(i)]
    IN  from[0]

\* The node with the block for so many slots, the left half before the right.
Descend(needed) ==
    LET from[i \in {j \in Nodes : SlotsOf(j) >= needed}] ==
            IF SlotsOf(i) = needed THEN i
            ELSE IF max_consecutive_slot_[LeftChild(i)] >= needed
            THEN from[LeftChild(i)] ELSE from[RightChild(i)]
    IN  from[0]

\* The first node without a free slot on the way up from the one of the offset.
BlockAt(tree, offset) ==
    Max({i \in Path(offset + total_slot_count_ - 1) : tree[i] = 0})

SlotCountFor(tree, offset) == SlotsOf(BlockAt(tree, offset))

Allocate(slots_required) ==
    LET needed == NearestUpperPowerOf2(slots_required)
        index == Descend(needed)
        offset == OffsetOf(index) IN
    /\ max_consecutive_slot_[0] >= needed
    /\ max_consecutive_slot_' = Refreshed(index, 0, Larger)
    /\ allocation_table_' =
          [o \in DOMAIN allocation_table_ \cup {offset} |->
              IF o = offset THEN SlotCountFor(max_consecutive_slot_', offset)
              ELSE allocation_table_[o]]

\* Mistake: two halves that are free stay apart.
MergedNever(j, left, right) == Max({left, right})

\* Two halves that are free make a whole.
Merged(j, left, right) ==
    IF left + right = SlotsOf(j) THEN SlotsOf(j) ELSE Max({left, right})

Deallocate(offset) ==
    LET index == BlockAt(max_consecutive_slot_, offset) IN
    /\ max_consecutive_slot_' = Refreshed(index, SlotsOf(index), Merged)
    /\ allocation_table_' =
          [o \in DOMAIN allocation_table_ \ {offset} |-> allocation_table_[o]]

Next ==
    \/ \E n \in 1 .. total_slot_count_ : Allocate(n)
    \/ \E offset \in DOMAIN allocation_table_ : Deallocate(offset)

Spec == Init /\ [][Next]_vars

-----------------------------------------------------------------------------
(* Properties.                                                             *)

TypeOK ==
    /\ max_consecutive_slot_ \in [Nodes -> 0 .. total_slot_count_]
    /\ DOMAIN allocation_table_ \subseteq 0 .. total_slot_count_ - 1
    /\ \A o \in DOMAIN allocation_table_ : allocation_table_[o] \in PowersOf2

Block(o) == o .. o + allocation_table_[o] - 1
Allocated == UNION {Block(o) : o \in DOMAIN allocation_table_}

\* No slot is given out twice, whatever was allocated, freed and merged before:
\* the blocks in the table lie apart, inside the memory.
BlocksApart ==
    /\ TypeOK
    /\ Allocated \subseteq 0 .. total_slot_count_ - 1
    /\ \A o, p \in DOMAIN allocation_table_ : o # p => Block(o) \cap Block(p) = {}

\* The tree says of every node that is not part of an allocated block how large
\* the largest free block in it is, and of the nodes inside one, which Free
\* passes on its way up, that they are whole.  So Allocate fails only if there is
\* no aligned free block, and nothing stays in pieces once it is free.
TreeExact ==
    \A i \in Nodes :
        max_consecutive_slot_[i] =
            IF \E o \in DOMAIN allocation_table_ : Span(i) \subseteq Block(o) /\ Span(i) # Block(o)
            THEN SlotsOf(i)
            ELSE Max({SlotsOf(j) : j \in {n \in Nodes :
                        Span(n) \subseteq Span(i) /\ Span(n) \cap Allocated = {}}} \cup {0})

=============================================================================
