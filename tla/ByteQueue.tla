------------------------------ MODULE ByteQueue ------------------------------
(***************************************************************************)
(* What NetworkInfra's Buffer is to its users: a queue of bytes, written   *)
(* at the end, consumed from the front, with a header that may be put in   *)
(* front of it.  Buffer.tla implements it in one vector.                   *)
(***************************************************************************)
EXTENDS Naturals, Sequences

CONSTANTS
    Bytes,
    MaxRead     \* how many bytes a read(2) may bring at most

VARIABLE bytes

Init == bytes = <<>>

Strings == UNION {[1 .. n -> Bytes] : n \in 0 .. MaxRead}

Written == \E data \in Strings : bytes' = bytes \o data

Prepended == \E data \in Strings : bytes' = data \o bytes

Consumed ==
    \E n \in 0 .. Len(bytes) : bytes' = SubSeq(bytes, n + 1, Len(bytes))

Next == Written \/ Prepended \/ Consumed

Spec == Init /\ [][Next]_bytes

=============================================================================
