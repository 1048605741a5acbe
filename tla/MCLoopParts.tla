---------------------------- MODULE MCLoopParts -----------------------------
(***************************************************************************)
(* Three parts of NetworkInfra that the thread of a loop uses and that do  *)
(* not call each other, for one model-checking run: Poller, TimerQueue and *)
(* Buffer.  at says whose behaviour it is; the others stay as they are     *)
(* constructed.                                                            *)
(***************************************************************************)
EXTENDS Poller, TimerQueue, Buffer, TLC

VARIABLE at

Symmetry == Permutations(Channels)

PartsInit ==
    /\ at \in {"poller", "timers", "buffer"}
    /\ Init
    /\ TimersInit
    /\ BufferInit
    /\ at # "buffer" => writable_size = 0

\* The clock of a TimerQueue has reached its bound, or an ENSURE has ended the
\* loop: nothing else here may stop.
Stopped ==
    /\ at = "timers"
    /\ now = MaxTime \/ ~ensured
    /\ UNCHANGED <<at, vars, timerVars, bufferVars>>

PartsNext ==
    \/ at = "poller" /\ Next /\ UNCHANGED <<at, timerVars, bufferVars>>
    \/ at = "timers" /\ TimersNext /\ UNCHANGED <<at, vars, bufferVars>>
    \/ at = "buffer" /\ BufferNext /\ UNCHANGED <<at, vars, timerVars>>
    \/ Stopped

PartsSpec == PartsInit /\ [][PartsNext]_<<at, vars, timerVars, bufferVars>>

=============================================================================
