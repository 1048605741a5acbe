----------------------------- MODULE TaskOrder ------------------------------
(***************************************************************************)
(* What ActiveThread-Java's MessageLoop promises to those who post tasks:  *)
(* every task is run at most once and not before the clock has shown its   *)
(* due time; tasks without a due time are run in the order in which they   *)
(* were added, delayed ones in the order of their due times; and a loop    *)
(* that was told to quit begins no further task.                           *)
(***************************************************************************)
EXTENDS Naturals, Sequences, SequencesExt

CONSTANT Tasks      \* records with a number seq and a due time at, 0 for none

VARIABLES
    pending,        \* tasks added and not yet begun, in the order of adding
    quitting,       \* the loop was told to quit
    clock           \* the latest time that the system's clock has shown

vars == <<pending, quitting, clock>>

Init ==
    /\ pending = <<>>
    /\ quitting = FALSE
    /\ clock \in Nat

Add(task) ==
    /\ pending' = Append(pending, task)
    /\ UNCHANGED <<quitting, clock>>

\* The order of delayed tasks: by due time, then by creation.
Before(x, y) == x.at < y.at \/ (x.at = y.at /\ x.seq < y.seq)

\* The first of the tasks without a due time.
BeginImmediate(i) ==
    /\ pending[i].at = 0
    /\ \A j \in 1 .. i - 1 : pending[j].at # 0

\* A delayed task that is due, with no earlier one before it.  (One that was
\* added later, behind tasks without a due time, may still be on its way.)
BeginDelayed(i) ==
    /\ pending[i].at \in 1 .. clock
    /\ \A j \in 1 .. i - 1 : pending[j].at # 0 => ~Before(pending[j], pending[i])

Begin(i) ==
    /\ ~quitting
    /\ BeginImmediate(i) \/ BeginDelayed(i)
    /\ pending' = RemoveAt(pending, i)
    /\ quitting' \in BOOLEAN
    /\ UNCHANGED clock

Quit ==
    /\ quitting' = TRUE
    /\ UNCHANGED <<pending, clock>>

Tick ==
    /\ clock' > clock
    /\ UNCHANGED <<pending, quitting>>

Next ==
    \/ \E task \in Tasks : Add(task)
    \/ \E i \in DOMAIN pending : Begin(i)
    \/ Quit
    \/ Tick

Spec == Init /\ [][Next]_vars
=============================================================================
