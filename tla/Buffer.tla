------------------------------- MODULE Buffer --------------------------------
(***************************************************************************)
(* NetworkInfra's Buffer (buffer.{h,cpp}): a vector with a prependable, a  *)
(* readable and a writable part.  Write makes room by moving the readable  *)
(* part back to kDefaultPrependSize, or by growing the vector when that is *)
(* not enough; ReadFD reads into the writable part and, beyond it, into an *)
(* array of its own that it then writes.                                   *)
(*                                                                         *)
(* Integers are written as the bytes of their network order: Write and     *)
(* Prepend of those.  Positions count from 0 in the code and from 1 here.  *)
(***************************************************************************)
EXTENDS Integers, Sequences

CONSTANTS
    Bytes,                \* what is written; 0 is what resize() fills with
    kDefaultPrependSize,
    kExtraBufSize,        \* of ReadFD
    InitialSizes,         \* arguments of the constructor
    MaxWrite,             \* bound: size of a Write or a Prepend
    MaxReadable           \* bound: readable_size()

ASSUME SizesAssumption ==
    /\ kDefaultPrependSize \in Nat
    /\ kExtraBufSize \in Nat
    /\ InitialSizes \subseteq Nat
    /\ MaxWrite \in Nat
    /\ MaxReadable \in Nat

VARIABLES buf_, reader_index_, writer_index_

bufferVars == <<buf_, reader_index_, writer_index_>>

BufferInit ==
    /\ \E size \in InitialSizes : buf_ = [i \in 1 .. size + kDefaultPrependSize |-> 0]
    /\ reader_index_ = kDefaultPrependSize
    /\ writer_index_ = kDefaultPrependSize

prependable_size == reader_index_
readable_size == writer_index_ - reader_index_
writable_size == Len(buf_) - writer_index_

\* The readable part.
Readable == [i \in 1 .. readable_size |-> buf_[reader_index_ + i]]

Strings(max) == UNION {[1 .. n -> Bytes] : n \in 0 .. max}

\* The vector with data copied to the bytes from position `at` on.
Copied(buf, at, data) ==
    [i \in 1 .. Len(buf) |->
        IF i \in at + 1 .. at + Len(data) THEN data[i - at] ELSE buf[i]]

\* resize(), which keeps what is there.
Resized(buf, size) == [i \in 1 .. size |-> IF i <= Len(buf) THEN buf[i] ELSE 0]

-----------------------------------------------------------------------------
(* Writing.                                                                *)

\* Mistake: room for the header is forgotten in the test for growing.
ReserveWithoutHeader(b, size) ==
    IF Len(b.buf) - b.writer >= size
    THEN b
    ELSE IF b.reader + (Len(b.buf) - b.writer) < size
    THEN [b EXCEPT !.buf = Resized(b.buf, b.writer + size)]
    ELSE [buf |-> Copied(b.buf, kDefaultPrependSize,
                         SubSeq(b.buf, b.reader + 1, b.writer)),
          reader |-> kDefaultPrependSize,
          writer |-> kDefaultPrependSize + (b.writer - b.reader)]

\* Mistake: the indices move, the bytes do not.
ReserveNoMove(b, size) ==
    IF Len(b.buf) - b.writer >= size
    THEN b
    ELSE IF b.reader + (Len(b.buf) - b.writer) < kDefaultPrependSize + size
    THEN [b EXCEPT !.buf = Resized(b.buf, b.writer + size)]
    ELSE [b EXCEPT !.reader = kDefaultPrependSize,
                   !.writer = kDefaultPrependSize + (b.writer - b.reader)]

\* ReserveWritable on a buffer b: nothing to do, grow, or move.
ReserveWritable(b, size) ==
    IF Len(b.buf) - b.writer >= size
    THEN b
    ELSE IF b.reader + (Len(b.buf) - b.writer) < kDefaultPrependSize + size
    THEN [b EXCEPT !.buf = Resized(b.buf, b.writer + size)]
    ELSE [buf |-> Copied(b.buf, kDefaultPrependSize,
                         SubSeq(b.buf, b.reader + 1, b.writer)),
          reader |-> kDefaultPrependSize,
          writer |-> kDefaultPrependSize + (b.writer - b.reader)]

\* memcpy to BeginWrite, and EndWrite.
Filled(b, data) ==
    [b EXCEPT !.buf = Copied(b.buf, b.writer, data), !.writer = @ + Len(data)]

This == [buf |-> buf_, reader |-> reader_index_, writer |-> writer_index_]

Becomes(b) ==
    /\ buf_' = b.buf
    /\ reader_index_' = b.reader
    /\ writer_index_' = b.writer

Write(data) ==
    /\ readable_size + Len(data) <= MaxReadable
    /\ Becomes(Filled(ReserveWritable(This, Len(data)), data))

\* What readv(2) (external) can bring: two vectors unless the first is large.
ReadLimit ==
    IF writable_size < kExtraBufSize THEN writable_size + kExtraBufSize
                                     ELSE writable_size

\* Mistake: EndWrite for all that was read, before the extra bytes have a place.
ReadFDEndsTwice(data) ==
    /\ readable_size + Len(data) <= MaxReadable
    /\ Len(data) <= ReadLimit
    /\ buf_' = Copied(buf_, writer_index_, data)
    /\ writer_index_' = writer_index_ + Len(data)
    /\ UNCHANGED reader_index_

\* ReadFD when readv(2) brings data, and when it brings nothing.
ReadFD(data) ==
    /\ readable_size + Len(data) <= MaxReadable
    /\ Len(data) <= ReadLimit
    /\ IF Len(data) <= writable_size
       THEN Becomes(Filled(This, data))
       ELSE LET first == SubSeq(data, 1, writable_size)
                extra == SubSeq(data, writable_size + 1, Len(data))
            IN  Becomes(Filled(ReserveWritable(Filled(This, first), Len(extra)), extra))

\* Prepend, whose ENSURE the caller respects.
Prepend(data) ==
    /\ Len(data) <= prependable_size
    /\ readable_size + Len(data) <= MaxReadable
    /\ buf_' = Copied(buf_, reader_index_ - Len(data), data)
    /\ reader_index_' = reader_index_ - Len(data)
    /\ UNCHANGED writer_index_

-----------------------------------------------------------------------------
(* Reading.                                                                *)

ConsumeAll ==
    /\ reader_index_' = kDefaultPrependSize
    /\ writer_index_' = kDefaultPrependSize
    /\ UNCHANGED buf_

\* Consume, which ReadAsString and the ReadAsInt functions call in the end.
Consume(n) ==
    /\ n <= readable_size
    /\ IF n < readable_size
       THEN /\ reader_index_' = reader_index_ + n
            /\ UNCHANGED <<buf_, writer_index_>>
       ELSE ConsumeAll

BufferNext ==
    \/ \E data \in Strings(MaxWrite) : Write(data) \/ Prepend(data)
    \/ \E data \in Strings(MaxReadable) : ReadFD(data)
    \/ \E n \in 0 .. MaxReadable : Consume(n)
    \/ ConsumeAll

BufferSpec == BufferInit /\ [][BufferNext]_bufferVars

-----------------------------------------------------------------------------
(* Properties.                                                             *)

\* The three parts of the vector are in order and inside it, whatever was
\* written, read, prepended and consumed before.
PartsInOrder ==
    /\ buf_ \in Seq(Bytes \cup {0})
    /\ reader_index_ \in 0 .. writer_index_
    /\ writer_index_ \in 0 .. Len(buf_)
    /\ kDefaultPrependSize <= Len(buf_)

\* Write's ENSURE: after ReserveWritable there is room for what is to be written,
\* whether the vector was grown or the readable part was moved.
ReserveSuffices ==
    \A size \in 0 .. MaxWrite + kExtraBufSize :
        LET b == ReserveWritable(This, size) IN Len(b.buf) - b.writer >= size

BQ == INSTANCE ByteQueue WITH
          bytes <- Readable,
          MaxRead <- MaxReadable

\* A Buffer is a queue of bytes: no byte is lost, doubled or reordered when the
\* readable part moves, the vector grows or ReadFD splits what it has read.
ImplementsByteQueue == BQ!Spec

=============================================================================
