------------------------------ MODULE MCPools -------------------------------
(***************************************************************************)
(* Components whose parts threads share or share out: the connections of   *)
(* ConnPool, the tokens of Bucket, the nodes of LStack, the slots of       *)
(* BuddyAllocator, the data of RCString and the list of SignalSlot, for    *)
(* one model-checking run.  They do not interact: at says whose behaviour  *)
(* it is, and the variables of the others keep a value of no meaning.      *)
(* Components share the variables that have the same name.                 *)
(***************************************************************************)
EXTENDS Naturals, TLC

CONSTANTS
    Threads,     \* for RCString the strings, for SignalSlot the slots
    Objects,     \* connections, data of strings
    capacity_, max_idle_, idle_timeout_,
    quantum_, fill_tick_, Counts,
    maxsize, MaxSize,
    total_slot_count_,
    Wrap,
    Emissions,
    MaxTime,
    MaxOps

VARIABLES
    at,
    pc, now, size_, job,
    idle_list_, clock, held, retired, open, dropped, alive, set_back,
    available_, latest_tick_, count, tick, until, granted, asserted,
    top, next, old_head, new_node, ops,
    max_consecutive_slot_, allocation_table_,
    other, data_, new_data, ref_count_, content, allocated, reference, value,
    slots_, list, slots, iter, checked, gone, connected, snapshot

poolVars == <<idle_list_, clock, held, retired, open, dropped, alive, set_back>>
bucketVars == <<available_, latest_tick_, count, tick, until, granted, asserted>>
stackVars == <<top, next, old_head, new_node, ops>>
buddyVars == <<max_consecutive_slot_, allocation_table_>>
stringVars == <<other, data_, new_data, ref_count_, content, allocated, reference, value>>
signalVars == <<slots_, list, slots, iter, checked, gone, connected, snapshot>>
vars == <<at, pc, now, size_, job, poolVars, bucketVars, stackVars, buddyVars, stringVars,
          signalVars>>

P == INSTANCE ConnPool WITH Conns <- Objects
B == INSTANCE Bucket WITH MaxTime <- 2 * MaxTime + 1
S == INSTANCE LStack
A == INSTANCE BuddyAllocator
R == INSTANCE RCString WITH Strings <- Threads, Datas <- Objects
G == INSTANCE SignalSlot WITH Slots <- Threads

ASSUME PoolsAssumption ==
    /\ P!PoolAssumption /\ B!BucketAssumption /\ S!StackAssumption /\ A!BuddyAssumption
    /\ R!StringAssumption /\ G!SignalAssumption

NoPool ==
    /\ idle_list_ = 0 /\ clock = 0 /\ held = 0 /\ retired = 0 /\ open = 0 /\ dropped = 0
    /\ alive = 0 /\ set_back = 0
NoBucket ==
    /\ available_ = 0 /\ latest_tick_ = 0 /\ count = 0 /\ tick = 0 /\ until = 0
    /\ granted = 0 /\ asserted = 0
NoStack ==
    top = 0 /\ next = 0 /\ old_head = 0 /\ new_node = 0 /\ ops = 0
NoBuddy ==
    max_consecutive_slot_ = 0 /\ allocation_table_ = 0
NoString ==
    /\ other = 0 /\ data_ = 0 /\ new_data = 0 /\ ref_count_ = 0 /\ content = 0
    /\ allocated = 0 /\ reference = 0 /\ value = 0
NoSignal ==
    /\ slots_ = 0 /\ list = 0 /\ slots = 0 /\ iter = 0 /\ checked = 0 /\ gone = 0
    /\ connected = 0 /\ snapshot = 0

Init ==
    \/ /\ at = "pool" /\ P!Init /\ job = 0
       /\ NoBucket /\ NoStack /\ NoBuddy /\ NoString /\ NoSignal
    \/ /\ at = "bucket" /\ B!Init /\ size_ = 0 /\ job = 0
       /\ NoPool /\ NoStack /\ NoBuddy /\ NoString /\ NoSignal
    \/ /\ at = "stack" /\ S!Init /\ now = 0
       /\ NoPool /\ NoBucket /\ NoBuddy /\ NoString /\ NoSignal
    \/ /\ at = "buddy" /\ A!Init /\ pc = 0 /\ now = 0 /\ size_ = 0 /\ job = 0
       /\ NoPool /\ NoBucket /\ NoStack /\ NoString /\ NoSignal
    \/ /\ at = "string" /\ R!Init /\ now = 0 /\ size_ = 0
       /\ NoPool /\ NoBucket /\ NoStack /\ NoBuddy /\ NoSignal
    \/ /\ at = "signal" /\ G!Init /\ pc = 0 /\ now = 0 /\ size_ = 0 /\ job = 0
       /\ NoPool /\ NoBucket /\ NoStack /\ NoBuddy /\ NoString

Next ==
    /\ UNCHANGED at
    /\ \/ /\ at = "pool" /\ P!Next
          /\ UNCHANGED <<job, bucketVars, stackVars, buddyVars, stringVars, signalVars>>
       \/ /\ at = "bucket" /\ B!Next
          /\ UNCHANGED <<size_, job, poolVars, stackVars, buddyVars, stringVars, signalVars>>
       \/ /\ at = "stack" /\ S!Next
          /\ UNCHANGED <<now, poolVars, bucketVars, buddyVars, stringVars, signalVars>>
       \/ /\ at = "buddy" /\ A!Next
          /\ UNCHANGED <<pc, now, size_, job, poolVars, bucketVars, stackVars, stringVars, signalVars>>
       \/ /\ at = "string" /\ R!Next
          /\ UNCHANGED <<now, size_, poolVars, bucketVars, stackVars, buddyVars, signalVars>>
       \/ /\ at = "signal" /\ G!Next
          /\ UNCHANGED <<pc, now, size_, job, poolVars, bucketVars, stackVars, buddyVars, stringVars>>

Spec == Init /\ [][Next]_vars

Symmetry == Permutations(Threads) \cup Permutations(Objects)

-----------------------------------------------------------------------------
(* The components' properties.                                             *)

\* ConnPool: an open connection is in one place, size_ counts what it should (with
\* the places lost to a move assignment or to a NewConn that throws no
\* std::exception), and at most capacity_ connections are open that are not being
\* closed.
ConnsAccounted == at = "pool" => P!OnePlace /\ P!SizeCounts /\ P!WithinCapacity

\* ConnPool: as long as the clock has not been set back, the idle list is in order
\* and Get reuses no connection that had expired when it was called.
NoneExpired == at = "pool" => P!NoneExpired

\* Bucket: no token is filled or lent twice, and calls return no more tokens than
\* have been filled.
RateKept == at = "bucket" => B!TokensConserved /\ B!RateKept

\* LStack: every node is in one place, and size() is right when no call is under
\* way.
NodesAccounted == at = "stack" => S!NodesAccounted /\ S!SizeSettles

\* LStack: the stack changes at its top only.
LastInFirstOut == [][at = "stack" => S!TopOnly]_vars

\* BuddyAllocator: no slot is in two blocks, and the tree tells exactly what is
\* free.
TreeExact == at = "buddy" => A!BlocksApart /\ A!TreeExact

\* RCString: a string changes by its own calls only, the counts are right, and data
\* end with their last string.
CopyOnWrite == at = "string" => R!CopyOnWrite /\ R!OwnersCounted

\* SignalSlot: an emission goes through the slots connected when it began.
EmitsSnapshot == at = "signal" => G!EmitsSnapshot

=============================================================================
