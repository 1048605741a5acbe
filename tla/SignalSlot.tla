----------------------------- MODULE SignalSlot -----------------------------
(***************************************************************************)
(* Signal and Slot (Signal-Slot/src/signals.h): slots are connected and    *)
(* disconnected while the signal is being emitted, by other threads and by *)
(* the functions it calls.  The list of slots is shared with the emissions *)
(* and copied before a change if one of them holds it.                     *)
(*                                                                         *)
(* mutex_ is never held while a function is called, so what a function     *)
(* does, a nested Emit included, is a step that may come between any two   *)
(* others, and each part under mutex_ is one step.                         *)
(***************************************************************************)
EXTENDS Naturals, Sequences, SequencesExt

CONSTANTS Slots, Emissions

SignalAssumption == IsFiniteSet(Emissions)

None == 0
Lists == 1 .. Cardinality(Emissions) + 1    \* each emission holds one list at most

VARIABLES
    slots_,      \* the list of the signal, None once the signal is destroyed
    list,        \* the lists' slots
    slots,       \* the list an emission holds
    iter,        \* the position of an emission in it
    checked,     \* the emission is about to call the function at iter
    gone,        \* slots whose weakly bound object has ended
    connected,   \* history: the slots as the calls so far leave them, ...
    snapshot     \* ... and what they were when an emission began

vars == <<slots_, list, slots, iter, checked, gone, connected, snapshot>>

Init ==
    /\ slots_ = 1
    /\ list = [l \in Lists |-> <<>>]
    /\ slots = [e \in Emissions |-> None]
    /\ iter = [e \in Emissions |-> 0]
    /\ checked = [e \in Emissions |-> FALSE]
    /\ gone = {}
    /\ connected = <<>>
    /\ snapshot = [e \in Emissions |-> <<>>]

-----------------------------------------------------------------------------

Referenced == ({slots_} \cup Range(slots)) \ {None}

\* A list ends with its last reference, and SlotImpl of s with the last list it is
\* in.
Release(lists) == [l \in Lists |-> IF l \in Referenced' THEN lists[l] ELSE <<>>]
Kept(s) == \E l \in Lists : s \in Range(list[l])
ForgetUnkept == gone' = {s \in gone : Kept(s)'}

\* Mistake: the list is changed in place.
CopyNever == slots_

\* The list to change: the present one if no emission holds it, or a copy.
CopyIfNeeded ==
    IF slots_ \notin Range(slots) THEN slots_
    ELSE CHOOSE l \in Lists : l \notin Referenced

\* What the code does under mutex_ to change the list; the history is told too.
Change(changed, told) ==
    /\ slots_ # None
    /\ slots_' = CopyIfNeeded
    /\ list' = [list EXCEPT ![CopyIfNeeded] = changed]
    /\ connected' = told
    /\ UNCHANGED <<slots, iter, checked, snapshot>>

\* Connect, of a function with an object it is weakly bound to, or without one,
\* which is as with an object that never ends.
Connect(s) ==
    /\ ~ Kept(s)
    /\ Change(Append(list[slots_], s), Append(connected, s))
    /\ UNCHANGED gone

Without(q, s) == SelectSeq(q, LAMBDA r : r # s)

\* Disconnect does nothing if the slot or the signal is gone.
Disconnect(s) ==
    /\ Kept(s)
    /\ Change(Without(list[slots_], s), Without(connected, s))
    /\ ForgetUnkept

DisconnectAll ==
    /\ Change(<<>>, <<>>)
    /\ ForgetUnkept

DestroySignal ==
    /\ slots_' = None
    /\ connected' = <<>>
    /\ UNCHANGED <<slots, iter, checked, snapshot>>
    /\ list' = Release(list)
    /\ ForgetUnkept

Emit(e) ==
    /\ slots_ # None /\ slots[e] = None
    /\ slots' = [slots EXCEPT ![e] = slots_]
    /\ iter' = [iter EXCEPT ![e] = 1]
    /\ snapshot' = [snapshot EXCEPT ![e] = connected]
    /\ UNCHANGED <<slots_, list, checked, gone, connected>>

Slot(e) == list[slots[e]][iter[e]]

\* Is there a slot left, and its bound object?  The object is let go again at the
\* end of the block, before the function is called.
Check(e) ==
    /\ slots[e] # None /\ ~ checked[e] /\ iter[e] <= Len(list[slots[e]])
    /\ IF Slot(e) \in gone
       THEN iter' = [iter EXCEPT ![e] = @ + 1] /\ UNCHANGED checked
       ELSE checked' = [checked EXCEPT ![e] = TRUE] /\ UNCHANGED iter
    /\ UNCHANGED <<slots_, list, slots, gone, connected, snapshot>>

\* The function at iter is called.
Call(e) ==
    /\ checked[e]
    /\ checked' = [checked EXCEPT ![e] = FALSE]
    /\ iter' = [iter EXCEPT ![e] = @ + 1]
    /\ UNCHANGED <<slots_, list, slots, gone, connected, snapshot>>

Return(e) ==
    /\ slots[e] # None /\ ~ checked[e] /\ iter[e] > Len(list[slots[e]])
    /\ slots' = [slots EXCEPT ![e] = None]
    /\ iter' = [iter EXCEPT ![e] = 0]
    /\ snapshot' = [snapshot EXCEPT ![e] = <<>>]
    /\ UNCHANGED <<slots_, checked, connected>>
    /\ list' = Release(list)
    /\ ForgetUnkept

ObjectEnds(s) ==
    /\ Kept(s)
    /\ gone' = gone \cup {s}
    /\ UNCHANGED <<slots_, list, slots, iter, checked, connected, snapshot>>

Next ==
    \/ \E s \in Slots : Connect(s) \/ Disconnect(s) \/ ObjectEnds(s)
    \/ DisconnectAll \/ DestroySignal
    \/ \E e \in Emissions : Emit(e) \/ Check(e) \/ Call(e) \/ Return(e)

Spec == Init /\ [][Next]_vars

-----------------------------------------------------------------------------
(* Properties.                                                             *)

\* An emission goes through the slots that were connected when it began, in their
\* order and to the end, whatever is connected, disconnected or destroyed during
\* it, and none that was disconnected before.
EmitsSnapshot ==
    \A e \in Emissions : slots[e] # None => list[slots[e]] = snapshot[e]

=============================================================================
