---------------------------- MODULE BufferProofs -----------------------------
(***************************************************************************)
(* Proofs about Buffer, for every prepend size, extra size, initial size   *)
(* and set of bytes: the parts of the vector are in order, ReserveWritable *)
(* makes enough room, and Buffer implements ByteQueue.                     *)
(*                                                                         *)
(* The argument goes through well-formed buffers: ReserveWritable keeps    *)
(* the contents of one and makes room, and filling room appends.           *)
(***************************************************************************)
EXTENDS Buffer, SequenceTheorems, TLAPS

Cells == Bytes \cup {0}

WellFormed(b) ==
    /\ b \in [buf : Seq(Cells), reader : Nat, writer : Nat]
    /\ b.reader <= b.writer
    /\ b.writer <= Len(b.buf)
    /\ kDefaultPrependSize <= Len(b.buf)

Contents(b) == [i \in 1 .. b.writer - b.reader |-> b.buf[b.reader + i]]

-----------------------------------------------------------------------------
(* The helpers on vectors.                                                 *)

\* Copied keeps the length and changes the cells from `at` on.
LEMMA CopiedCells ==
    ASSUME NEW buf \in Seq(Cells), NEW at \in Nat, NEW data \in Seq(Cells)
    PROVE  /\ Copied(buf, at, data) \in Seq(Cells)
           /\ Len(Copied(buf, at, data)) = Len(buf)
           /\ \A i \in 1 .. Len(buf) :
                 Copied(buf, at, data)[i] =
                    IF i \in at + 1 .. at + Len(data) THEN data[i - at] ELSE buf[i]
<1> DEFINE f == Copied(buf, at, data)
<1>1. Len(buf) \in Nat /\ Len(data) \in Nat
  OBVIOUS
<1>2. f = [i \in 1 .. Len(buf) |->
              IF i \in at + 1 .. at + Len(data) THEN data[i - at] ELSE buf[i]]
  BY DEF Copied
<1>3. \A i \in 1 .. Len(buf) :
         (IF i \in at + 1 .. at + Len(data) THEN data[i - at] ELSE buf[i]) \in Cells
  <2> TAKE i \in 1 .. Len(buf)
  <2>1. CASE i \in at + 1 .. at + Len(data)
    <3>1. i - at \in 1 .. Len(data)
      BY <2>1, <1>1
    <3> QED BY <3>1, <2>1
  <2>2. CASE i \notin at + 1 .. at + Len(data)
    BY <2>2
  <2> QED BY <2>1, <2>2
<1>4. f \in [1 .. Len(buf) -> Cells]
  BY <1>2, <1>3
<1>5. f \in Seq(Cells) /\ Len(f) = Len(buf)
  BY <1>4, <1>1, SeqDef, LenProperties
<1> QED BY <1>2, <1>5

\* Resized keeps the cells that are there.
LEMMA ResizedCells ==
    ASSUME NEW buf \in Seq(Cells), NEW size \in Nat
    PROVE  /\ Resized(buf, size) \in Seq(Cells)
           /\ Len(Resized(buf, size)) = size
           /\ \A i \in 1 .. size : i <= Len(buf) => Resized(buf, size)[i] = buf[i]
<1> DEFINE f == Resized(buf, size)
<1>1. f = [i \in 1 .. size |-> IF i <= Len(buf) THEN buf[i] ELSE 0]
  BY DEF Resized
<1>2. \A i \in 1 .. size : (IF i <= Len(buf) THEN buf[i] ELSE 0) \in Cells
  BY DEF Cells
<1>3. f \in [1 .. size -> Cells]
  BY <1>1, <1>2
<1>4. f \in Seq(Cells) /\ Len(f) = size
  BY <1>3, SeqDef, LenProperties
<1> QED BY <1>1, <1>4

-----------------------------------------------------------------------------
(* The operations on well-formed buffers.                                  *)

\* The bytes from reader to writer, as a sequence.
LEMMA ContentsSeq ==
    ASSUME NEW b, WellFormed(b)
    PROVE  /\ Contents(b) \in Seq(Cells)
           /\ Len(Contents(b)) = b.writer - b.reader
           /\ \A i \in 1 .. b.writer - b.reader : Contents(b)[i] = b.buf[b.reader + i]
<1> DEFINE n == b.writer - b.reader
<1>1. n \in Nat /\ b.buf \in Seq(Cells) /\ b.reader \in Nat /\ b.writer <= Len(b.buf)
      /\ b.writer \in Nat
  BY DEF WellFormed
<1>2. \A i \in 1 .. n : b.buf[b.reader + i] \in Cells
  <2> TAKE i \in 1 .. n
  <2>1. b.reader + i \in 1 .. Len(b.buf)
    BY <1>1
  <2> QED BY <1>1, <2>1
<1>3. Contents(b) = [i \in 1 .. n |-> b.buf[b.reader + i]]
  BY DEF Contents
<1>4. Contents(b) \in [1 .. n -> Cells]
  BY <1>2, <1>3
<1>5. Contents(b) \in Seq(Cells) /\ Len(Contents(b)) = n
  BY <1>1, <1>4, SeqDef, LenProperties
<1> QED BY <1>3, <1>5

\* Two well-formed buffers of as many readable bytes have the same contents if
\* these agree one by one.
LEMMA SameContents ==
    ASSUME NEW b, NEW c, WellFormed(b), WellFormed(c),
           b.writer - b.reader = c.writer - c.reader,
           \A i \in 1 .. b.writer - b.reader :
              b.buf[b.reader + i] = c.buf[c.reader + i]
    PROVE  Contents(b) = Contents(c)
BY DEF Contents

\* ReserveWritable keeps the contents of a buffer and makes room.
LEMMA Reserving ==
    ASSUME NEW b, WellFormed(b), NEW size \in Nat
    PROVE  LET r == ReserveWritable(b, size)
           IN  /\ WellFormed(r)
               /\ Len(r.buf) - r.writer >= size
               /\ Contents(r) = Contents(b)
<1> DEFINE r == ReserveWritable(b, size)
           K == kDefaultPrependSize
<1>1. /\ b.buf \in Seq(Cells) /\ b.reader \in Nat /\ b.writer \in Nat
      /\ b.reader <= b.writer /\ b.writer <= Len(b.buf) /\ K <= Len(b.buf)
      /\ K \in Nat /\ Len(b.buf) \in Nat
  BY SizesAssumption DEF WellFormed
<1>2. CASE Len(b.buf) - b.writer >= size
  BY <1>2 DEF ReserveWritable
<1>3. CASE /\ ~(Len(b.buf) - b.writer >= size)
           /\ b.reader + (Len(b.buf) - b.writer) < K + size
  <2> DEFINE grown == Resized(b.buf, b.writer + size)
  <2>1. r = [b EXCEPT !.buf = grown]
    BY <1>3 DEF ReserveWritable
  <2>2. r.buf = grown /\ r.reader = b.reader /\ r.writer = b.writer
    BY <2>1 DEF WellFormed
  <2>3. /\ grown \in Seq(Cells) /\ Len(grown) = b.writer + size
        /\ \A i \in 1 .. b.writer + size : i <= Len(b.buf) => grown[i] = b.buf[i]
    <3>1. b.writer + size \in Nat
      BY <1>1
    <3> QED BY <1>1, <3>1, ResizedCells
  <2> HIDE DEF grown, r
  <2>4. r \in [buf : Seq(Cells), reader : Nat, writer : Nat]
    BY <2>1, <2>3 DEF WellFormed
  <2>5. b.writer <= Len(grown) /\ K <= Len(grown)
    BY <1>1, <1>3, <2>3
  <2>6. WellFormed(r)
    BY <1>1, <2>2, <2>4, <2>5 DEF WellFormed
  <2>7. \A i \in 1 .. b.writer - b.reader : r.buf[r.reader + i] = b.buf[b.reader + i]
    <3> TAKE i \in 1 .. b.writer - b.reader
    <3>1. b.reader + i \in 1 .. b.writer + size /\ b.reader + i <= Len(b.buf)
      BY <1>1
    <3> QED BY <2>2, <2>3, <3>1
  <2>8. Contents(r) = Contents(b)
    BY <2>2, <2>6, <2>7, SameContents
  <2>9. Len(r.buf) - r.writer >= size
    BY <1>1, <2>2, <2>3
  <2> QED BY <2>6, <2>8, <2>9 DEF r
<1>4. CASE /\ ~(Len(b.buf) - b.writer >= size)
           /\ ~(b.reader + (Len(b.buf) - b.writer) < K + size)
  <2> DEFINE n == b.writer - b.reader
             data == SubSeq(b.buf, b.reader + 1, b.writer)
             moved == Copied(b.buf, K, data)
  <2>1. r = [buf |-> moved, reader |-> K, writer |-> K + n]
    BY <1>4 DEF ReserveWritable
  <2>2. r.buf = moved /\ r.reader = K /\ r.writer = K + n
    BY <2>1
  <2>3. n \in Nat
    BY <1>1
  <2>4. /\ data \in Seq(Cells) /\ Len(data) = n
        /\ \A i \in 1 .. n : data[i] = b.buf[b.reader + i]
    <3>1. \A i \in b.reader + 1 .. b.writer : b.buf[i] \in Cells
      <4> TAKE i \in b.reader + 1 .. b.writer
      <4>1. i \in 1 .. Len(b.buf)
        BY <1>1
      <4> QED BY <1>1, <4>1
    <3>2. b.reader + 1 \in Int /\ b.writer \in Int
      BY <1>1
    <3>3. /\ data \in Seq(Cells)
          /\ Len(data) = IF b.reader + 1 <= b.writer THEN b.writer - (b.reader + 1) + 1 ELSE 0
          /\ \A i \in 1 .. b.writer - (b.reader + 1) + 1 :
                data[i] = b.buf[b.reader + 1 + i - 1]
      BY <3>1, <3>2, SubSeqProperties
    <3> HIDE DEF data
    <3>4. Len(data) = n
      BY <1>1, <3>3
    <3>5. ASSUME NEW i \in 1 .. n PROVE data[i] = b.buf[b.reader + i]
      <4>1. i \in 1 .. b.writer - (b.reader + 1) + 1 /\ b.reader + 1 + i - 1 = b.reader + i
        BY <1>1
      <4> QED BY <3>3, <4>1
    <3> QED BY <3>3, <3>4, <3>5
  <2>5. /\ moved \in Seq(Cells) /\ Len(moved) = Len(b.buf)
        /\ \A i \in 1 .. Len(b.buf) :
              moved[i] = IF i \in K + 1 .. K + Len(data) THEN data[i - K] ELSE b.buf[i]
    <3> HIDE DEF data
    <3> QED BY <1>1, <2>4, CopiedCells, SMTT(20)
  <2> HIDE DEF data, moved, r
  <2>6. K + n <= Len(b.buf) /\ Len(b.buf) - (K + n) >= size
    BY <1>1, <1>4
  <2> HIDE DEF n
  <2>7. r \in [buf : Seq(Cells), reader : Nat, writer : Nat]
    BY <1>1, <2>1, <2>3, <2>5
  <2>8. WellFormed(r)
    BY <1>1, <2>2, <2>3, <2>5, <2>6, <2>7 DEF WellFormed
  <2>9. \A i \in 1 .. n : r.buf[r.reader + i] = b.buf[b.reader + i]
    <3> TAKE i \in 1 .. n
    <3>1. K + i \in 1 .. Len(b.buf) /\ K + i \in K + 1 .. K + n /\ (K + i) - K = i
      BY <1>1, <2>3, <2>6
    <3>2. moved[K + i] = data[i]
      BY <2>4, <2>5, <3>1
    <3> QED BY <2>2, <2>4, <3>2
  <2>10. r.writer - r.reader = b.writer - b.reader
    BY <1>1, <2>2, <2>3 DEF n
  <2>11. Contents(r) = Contents(b)
    BY <2>8, <2>9, <2>10, SameContents DEF n
  <2>12. Len(r.buf) - r.writer >= size
    BY <2>2, <2>5, <2>6
  <2> QED BY <2>8, <2>11, <2>12 DEF r
<1> QED BY <1>2, <1>3, <1>4

\* Filling room that is there appends.
LEMMA Filling ==
    ASSUME NEW b, WellFormed(b), NEW data \in Seq(Cells),
           Len(b.buf) - b.writer >= Len(data)
    PROVE  /\ WellFormed(Filled(b, data))
           /\ Contents(Filled(b, data)) = Contents(b) \o data
           /\ Filled(b, data).writer = b.writer + Len(data)
           /\ Filled(b, data).reader = b.reader
           /\ Len(Filled(b, data).buf) = Len(b.buf)
<1> DEFINE f == Filled(b, data)
           n == b.writer - b.reader
<1>1. /\ b.buf \in Seq(Cells) /\ b.reader \in Nat /\ b.writer \in Nat
      /\ b.reader <= b.writer /\ b.writer <= Len(b.buf)
      /\ kDefaultPrependSize <= Len(b.buf)
      /\ Len(b.buf) \in Nat /\ Len(data) \in Nat /\ n \in Nat
  BY DEF WellFormed
<1>2. /\ Copied(b.buf, b.writer, data) \in Seq(Cells)
      /\ Len(Copied(b.buf, b.writer, data)) = Len(b.buf)
      /\ \A i \in 1 .. Len(b.buf) :
            Copied(b.buf, b.writer, data)[i] =
               IF i \in b.writer + 1 .. b.writer + Len(data)
               THEN data[i - b.writer] ELSE b.buf[i]
  BY <1>1, CopiedCells, SMTT(20)
<1>3. /\ f.buf = Copied(b.buf, b.writer, data)
      /\ f.reader = b.reader /\ f.writer = b.writer + Len(data)
      /\ f \in [buf : Seq(Cells), reader : Nat, writer : Nat]
  <2> DEFINE copy == Copied(b.buf, b.writer, data)
  <2>1. b \in [buf : Seq(Cells), reader : Nat, writer : Nat]
    BY DEF WellFormed
  <2>2. f = [b EXCEPT !.buf = copy, !.writer = b.writer + Len(data)]
    BY <2>1 DEF Filled
  <2>3. copy \in Seq(Cells) /\ b.writer + Len(data) \in Nat
    BY <1>1, <1>2
  <2> HIDE DEF copy, f
  <2>4. f.buf = copy /\ f.reader = b.reader /\ f.writer = b.writer + Len(data)
    BY <2>1, <2>2
  <2>5. f \in [buf : Seq(Cells), reader : Nat, writer : Nat]
    BY <2>1, <2>2, <2>3
  <2> QED BY <2>4, <2>5 DEF copy
<1> HIDE DEF f
<1>4. WellFormed(f)
  BY <1>1, <1>2, <1>3 DEF WellFormed
<1>5. /\ Contents(b) \in Seq(Cells) /\ Len(Contents(b)) = n
      /\ \A i \in 1 .. n : Contents(b)[i] = b.buf[b.reader + i]
  BY ContentsSeq
<1>6. /\ Contents(f) \in Seq(Cells) /\ Len(Contents(f)) = f.writer - f.reader
      /\ \A i \in 1 .. f.writer - f.reader : Contents(f)[i] = f.buf[f.reader + i]
  BY <1>4, ContentsSeq
<1>7. f.writer - f.reader = n + Len(data)
  BY <1>1, <1>3
<1>8. \A i \in 1 .. n + Len(data) :
         f.buf[f.reader + i] = IF i <= n THEN b.buf[b.reader + i] ELSE data[i - n]
  <2> TAKE i \in 1 .. n + Len(data)
  <2>1. b.reader + i \in 1 .. Len(b.buf)
    BY <1>1
  <2>2. CASE i <= n
    <3>1. b.reader + i \notin b.writer + 1 .. b.writer + Len(data)
      BY <1>1, <2>2
    <3> QED BY <1>2, <1>3, <2>1, <2>2, <3>1
  <2>3. CASE ~(i <= n)
    <3>1. b.reader + i \in b.writer + 1 .. b.writer + Len(data)
          /\ (b.reader + i) - b.writer = i - n
      BY <1>1, <2>3, SMTT(20)
    <3> QED BY <1>2, <1>3, <2>1, <2>3, <3>1
  <2> QED BY <2>2, <2>3
<1> HIDE DEF n
<1>9. Len(Contents(f)) = Len(Contents(b)) + Len(data)
  BY <1>5, <1>6, <1>7
<1>10. \A i \in 1 .. Len(Contents(f)) :
          Contents(f)[i] = IF i <= Len(Contents(b)) THEN Contents(b)[i]
                                                   ELSE data[i - Len(Contents(b))]
  <2> TAKE i \in 1 .. Len(Contents(f))
  <2>1. i \in 1 .. n + Len(data)
    BY <1>6, <1>7
  <2>2. Contents(f)[i] = IF i <= n THEN b.buf[b.reader + i] ELSE data[i - n]
    BY <1>6, <1>7, <1>8, <2>1
  <2>3. CASE i <= n
    BY <1>1, <1>5, <2>1, <2>2, <2>3
  <2>4. CASE ~(i <= n)
    BY <1>5, <2>2, <2>4
  <2> QED BY <2>3, <2>4
<1>11. Contents(f) = Contents(b) \o data
  <2> DEFINE c == Contents(b)
             g == Contents(f)
  <2>1. c \in Seq(Cells) /\ g \in Seq(Cells)
    BY <1>5, <1>6
  <2> HIDE DEF c, g
  <2>2. /\ c \o data \in Seq(Cells) /\ Len(c \o data) = Len(c) + Len(data)
        /\ \A i \in 1 .. Len(c) + Len(data) :
              (c \o data)[i] = IF i <= Len(c) THEN c[i] ELSE data[i - Len(c)]
    BY <2>1, ConcatProperties
  <2>3. Len(g) = Len(c) + Len(data)
    BY <1>9 DEF c, g
  <2>4. \A i \in 1 .. Len(g) : g[i] = (c \o data)[i]
    BY <1>10, <2>2, <2>3 DEF c, g
  <2>5. g = c \o data
    BY <2>1, <2>2, <2>3, <2>4, SeqEqual
  <2> QED BY <2>5 DEF c, g
<1> QED BY <1>2, <1>3, <1>4, <1>11 DEF f

-----------------------------------------------------------------------------
(* The actions.                                                            *)

\* Strings are the sequences of bytes up to a length.
LEMMA StringsAreSeqs ==
    ASSUME NEW max \in Nat, NEW data
    PROVE  data \in Strings(max) <=> data \in Seq(Bytes) /\ Len(data) <= max
<1>1. ASSUME data \in Strings(max)
      PROVE  data \in Seq(Bytes) /\ Len(data) <= max
  <2>1. PICK n \in 0 .. max : data \in [1 .. n -> Bytes]
    BY <1>1 DEF Strings
  <2>2. n \in Nat
    OBVIOUS
  <2>3. data \in Seq(Bytes) /\ Len(data) = n
    BY <2>1, <2>2, SeqDef, LenProperties
  <2> QED BY <2>2, <2>3
<1>2. ASSUME data \in Seq(Bytes), Len(data) <= max
      PROVE  data \in Strings(max)
  <2>1. Len(data) \in 0 .. max /\ data \in [1 .. Len(data) -> Bytes]
    BY <1>2, LenProperties
  <2> QED BY <2>1 DEF Strings
<1> QED BY <1>1, <1>2

\* PartsInOrder says that the buffer is well formed.
LEMMA PartsWellFormed == PartsInOrder <=> WellFormed(This)
<1>1. This.buf = buf_ /\ This.reader = reader_index_ /\ This.writer = writer_index_
  BY DEF This
<1>2. This \in [buf : Seq(Cells), reader : Nat, writer : Nat] <=>
         buf_ \in Seq(Cells) /\ reader_index_ \in Nat /\ writer_index_ \in Nat
  BY DEF This
<1>3. ASSUME PartsInOrder PROVE WellFormed(This)
  <2>1. buf_ \in Seq(Cells) /\ Len(buf_) \in Nat
    BY <1>3 DEF PartsInOrder, Cells
  <2>2. writer_index_ \in Nat /\ writer_index_ <= Len(buf_)
    BY <1>3, <2>1 DEF PartsInOrder
  <2>3. reader_index_ \in Nat /\ reader_index_ <= writer_index_
    BY <1>3, <2>2 DEF PartsInOrder
  <2> QED BY <1>1, <1>2, <1>3, <2>1, <2>2, <2>3 DEF WellFormed, PartsInOrder
<1>4. ASSUME WellFormed(This) PROVE PartsInOrder
  BY <1>1, <1>2, <1>4 DEF WellFormed, PartsInOrder, Cells
<1> QED BY <1>3, <1>4

\* The readable part is the contents of the buffer.
LEMMA ReadableContents == Readable = Contents(This)
BY DEF Readable, Contents, This, readable_size

\* A step to a well-formed buffer keeps the parts in order.
LEMMA Becoming ==
    ASSUME NEW b, WellFormed(b), Becomes(b)
    PROVE  PartsInOrder' /\ Readable' = Contents(b)
<1>1. /\ b.buf \in Seq(Cells) /\ b.reader \in Nat /\ b.writer \in Nat
      /\ b.reader <= b.writer /\ b.writer <= Len(b.buf)
      /\ kDefaultPrependSize <= Len(b.buf)
  BY DEF WellFormed
<1>2. buf_' = b.buf /\ reader_index_' = b.reader /\ writer_index_' = b.writer
  BY DEF Becomes
<1>3. PartsInOrder'
  BY <1>1, <1>2 DEF PartsInOrder, Cells
<1>4. Readable' = Contents(b)
  BY <1>2 DEF Readable, Contents, readable_size
<1> QED BY <1>3, <1>4

\* A Write is a write to the queue.
LEMMA WriteStep ==
    ASSUME PartsInOrder, NEW data \in Strings(MaxWrite), Write(data)
    PROVE  PartsInOrder' /\ BQ!Written
<1> DEFINE r == ReserveWritable(This, Len(data))
<1>1. WellFormed(This)
  BY PartsWellFormed
<1>2. data \in Seq(Bytes) /\ data \in Seq(Cells) /\ Len(data) \in Nat
  BY StringsAreSeqs, SizesAssumption DEF Cells
<1>3. WellFormed(r) /\ Len(r.buf) - r.writer >= Len(data) /\ Contents(r) = Contents(This)
  BY <1>1, <1>2, Reserving
<1> HIDE DEF r
<1>4. WellFormed(Filled(r, data)) /\ Contents(Filled(r, data)) = Contents(This) \o data
  BY <1>2, <1>3, Filling
<1>5. Becomes(Filled(r, data))
  BY DEF Write, r
<1>6. PartsInOrder'
  BY <1>4, <1>5, Becoming
<1>7. Readable' = Readable \o data
  BY <1>4, <1>5, Becoming, ReadableContents
<1>8. Len(data) <= MaxReadable
  BY <1>1, <1>2, SizesAssumption DEF Write, readable_size, WellFormed, This
<1>9. data \in BQ!Strings
  BY <1>2, <1>8, StringsAreSeqs, SizesAssumption DEF BQ!Strings, Strings
<1> QED BY <1>6, <1>7, <1>9 DEF BQ!Written

\* ReadFD is a write to the queue, of both its parts.
LEMMA ReadFDStep ==
    ASSUME PartsInOrder, NEW data \in Strings(MaxReadable), ReadFD(data)
    PROVE  PartsInOrder' /\ BQ!Written
<1>1. /\ WellFormed(This) /\ This.buf = buf_ /\ This.writer = writer_index_
      /\ This.reader = reader_index_
  BY PartsWellFormed DEF This
<1>2. /\ data \in Seq(Bytes) /\ data \in Seq(Cells) /\ Len(data) \in Nat
      /\ Len(data) <= MaxReadable
  BY StringsAreSeqs, SizesAssumption DEF Cells
<1>3. writable_size \in Nat /\ Len(This.buf) - This.writer = writable_size
  BY <1>1 DEF WellFormed, writable_size
<1>4. PICK b : WellFormed(b) /\ Contents(b) = Contents(This) \o data /\ Becomes(b)
  <2>1. CASE Len(data) <= writable_size
    <3>1. Becomes(Filled(This, data))
      BY <2>1 DEF ReadFD
    <3>2. Len(This.buf) - This.writer >= Len(data)
      BY <1>2, <1>3, <2>1
    <3> QED BY <1>1, <1>2, <3>1, <3>2, Filling
  <2>2. CASE ~(Len(data) <= writable_size)
    <3> DEFINE w == writable_size
               first == SubSeq(data, 1, w)
               extra == SubSeq(data, w + 1, Len(data))
               half == Filled(This, first)
               room == ReserveWritable(half, Len(extra))
    <3>1. Becomes(Filled(room, extra))
      BY <2>2 DEF ReadFD
    <3>2. w \in Nat /\ w < Len(data)
      BY <1>2, <1>3, <2>2
    <3>3. first \in Seq(Cells) /\ Len(first) = w
      <4>1. \A i \in 1 .. w : data[i] \in Cells
        BY <1>2, <3>2
      <4> QED BY <3>2, <4>1, SubSeqProperties
    <3>4. extra \in Seq(Cells) /\ Len(extra) \in Nat
      <4>1. \A i \in w + 1 .. Len(data) : data[i] \in Cells
        BY <1>2, <3>2
      <4>2. extra \in Seq(Cells)
        BY <1>2, <3>2, <4>1, SubSeqProperties
      <4> QED BY <4>2, LenProperties
    <3>5. first \o extra = data
      <4>1. 1 \in 1 .. Len(data) + 1 /\ w \in 1 - 1 .. Len(data) /\ Len(data) \in w .. Len(data)
        BY <1>2, <3>2
      <4>2. first \o extra = SubSeq(data, 1, Len(data))
        BY <1>2, <4>1, ConcatAdjacentSubSeq
      <4> QED BY <1>2, <4>2, SubSeqFull
    <3> HIDE DEF first, extra
    <3>6. WellFormed(half) /\ Contents(half) = Contents(This) \o first
      <4>1. Len(This.buf) - This.writer >= Len(first)
        BY <1>3, <3>3
      <4> QED BY <1>1, <3>3, <4>1, Filling
    <3> HIDE DEF half
    <3>7. /\ WellFormed(room) /\ Len(room.buf) - room.writer >= Len(extra)
          /\ Contents(room) = Contents(half)
      BY <3>4, <3>6, Reserving
    <3> HIDE DEF room
    <3>8. /\ WellFormed(Filled(room, extra))
          /\ Contents(Filled(room, extra)) = Contents(room) \o extra
      BY <3>4, <3>7, Filling
    <3>9. (Contents(This) \o first) \o extra = Contents(This) \o (first \o extra)
      <4>1. Contents(This) \in Seq(Cells)
        BY <1>1, ContentsSeq
      <4> QED BY <3>3, <3>4, <4>1, ConcatAssociative, SMTT(20)
    <3> QED BY <3>1, <3>5, <3>6, <3>7, <3>8, <3>9
  <2> QED BY <2>1, <2>2
<1>5. PartsInOrder' /\ Readable' = Readable \o data
  BY <1>4, Becoming, ReadableContents
<1>6. data \in BQ!Strings
  BY DEF BQ!Strings, Strings
<1> QED BY <1>5, <1>6 DEF BQ!Written

\* Consuming, all or a part, takes bytes off the front.
LEMMA ConsumeStep ==
    ASSUME PartsInOrder, NEW n \in 0 .. readable_size,
           \/ /\ n < readable_size
              /\ reader_index_' = reader_index_ + n
              /\ UNCHANGED <<buf_, writer_index_>>
           \/ /\ n = readable_size
              /\ ConsumeAll
    PROVE  PartsInOrder' /\ BQ!Consumed
<1> DEFINE b == [buf |-> buf_, reader |-> reader_index_', writer |-> writer_index_']
           c == Readable
<1>1. /\ WellFormed(This) /\ This.buf = buf_ /\ This.writer = writer_index_
      /\ This.reader = reader_index_
  BY PartsWellFormed DEF This
<1>2. /\ buf_ \in Seq(Cells) /\ reader_index_ \in Nat /\ writer_index_ \in Nat
      /\ reader_index_ <= writer_index_ /\ writer_index_ <= Len(buf_)
      /\ kDefaultPrependSize <= Len(buf_) /\ kDefaultPrependSize \in Nat
      /\ readable_size = writer_index_ - reader_index_
      /\ Len(buf_) \in Nat
  BY <1>1, SizesAssumption DEF WellFormed, readable_size
<1>3. c \in Seq(Cells) /\ Len(c) = readable_size
      /\ \A i \in 1 .. readable_size : c[i] = buf_[reader_index_ + i]
  BY <1>1, <1>2, ContentsSeq, ReadableContents
<1>4. /\ reader_index_' \in Nat /\ writer_index_' \in Nat
      /\ reader_index_' <= writer_index_' /\ writer_index_' <= Len(buf_)
      /\ writer_index_' - reader_index_' = readable_size - n
      /\ buf_' = buf_
      /\ n < readable_size => reader_index_' = reader_index_ + n
  BY <1>2 DEF ConsumeAll
<1>5. /\ b.buf = buf_ /\ b.reader = reader_index_' /\ b.writer = writer_index_'
      /\ b \in [buf : Seq(Cells), reader : Nat, writer : Nat]
  BY <1>2, <1>4
<1> HIDE DEF b
<1>6. WellFormed(b) /\ Becomes(b)
  BY <1>2, <1>4, <1>5 DEF WellFormed, Becomes
<1>7. PartsInOrder' /\ Readable' = Contents(b)
  BY <1>6, Becoming
<1>8. /\ Contents(b) \in Seq(Cells) /\ Len(Contents(b)) = readable_size - n
      /\ \A i \in 1 .. readable_size - n : Contents(b)[i] = buf_[reader_index_' + i]
  BY <1>4, <1>5, <1>6, ContentsSeq
<1> DEFINE rest == SubSeq(c, n + 1, Len(c))
<1>9. /\ rest \in Seq(Cells) /\ Len(rest) = readable_size - n
      /\ \A i \in 1 .. readable_size - n : rest[i] = c[n + i]
  <2> HIDE DEF c
  <2>1. \A i \in n + 1 .. Len(c) : c[i] \in Cells
    BY <1>2, <1>3
  <2>2. n + 1 \in Int /\ Len(c) \in Int
    BY <1>2, <1>3
  <2>3. /\ rest \in Seq(Cells)
        /\ Len(rest) = IF n + 1 <= Len(c) THEN Len(c) - (n + 1) + 1 ELSE 0
        /\ \A i \in 1 .. Len(c) - (n + 1) + 1 : rest[i] = c[n + 1 + i - 1]
    BY <2>1, <2>2, SubSeqProperties
  <2> HIDE DEF rest
  <2>4. Len(rest) = readable_size - n
    BY <1>2, <1>3, <2>3
  <2>5. ASSUME NEW i \in 1 .. readable_size - n PROVE rest[i] = c[n + i]
    <3>1. i \in 1 .. Len(c) - (n + 1) + 1 /\ n + 1 + i - 1 = n + i
      BY <1>2, <1>3
    <3> QED BY <2>3, <3>1
  <2> QED BY <2>3, <2>4, <2>5
<1>10. \A i \in 1 .. readable_size - n : Contents(b)[i] = rest[i]
  <2> TAKE i \in 1 .. readable_size - n
  <2>1. n < readable_size /\ n + i \in 1 .. readable_size
    BY <1>2
  <2>2. reader_index_' + i = reader_index_ + (n + i)
    BY <1>2, <1>4, <2>1
  <2> QED BY <1>3, <1>8, <1>9, <2>1, <2>2
<1> HIDE DEF rest, c
<1>11. Contents(b) = rest
  <2>1. Len(Contents(b)) = Len(rest)
    BY <1>8, <1>9
  <2>2. \A i \in 1 .. Len(Contents(b)) : Contents(b)[i] = rest[i]
    BY <1>8, <1>10
  <2> QED BY <1>8, <1>9, <2>1, <2>2, SeqEqual
<1>12. n \in 0 .. Len(c)
  BY <1>3
<1> QED BY <1>7, <1>11, <1>12 DEF BQ!Consumed, rest, c

\* A Prepend puts its bytes in front of the queue.
LEMMA PrependStep ==
    ASSUME PartsInOrder, NEW data \in Strings(MaxWrite), Prepend(data)
    PROVE  PartsInOrder' /\ BQ!Prepended
<1> DEFINE d == Len(data)
           copy == Copied(buf_, reader_index_ - d, data)
           b == [buf |-> copy, reader |-> reader_index_ - d, writer |-> writer_index_]
           c == Readable
           m == readable_size
<1>1. /\ WellFormed(This) /\ This.buf = buf_ /\ This.writer = writer_index_
      /\ This.reader = reader_index_
  BY PartsWellFormed DEF This
<1>2. /\ data \in Seq(Bytes) /\ data \in Seq(Cells) /\ d \in Nat
  BY StringsAreSeqs, SizesAssumption DEF Cells
<1>3. /\ buf_ \in Seq(Cells) /\ reader_index_ \in Nat /\ writer_index_ \in Nat
      /\ reader_index_ <= writer_index_ /\ writer_index_ <= Len(buf_)
      /\ kDefaultPrependSize <= Len(buf_) /\ Len(buf_) \in Nat
      /\ m = writer_index_ - reader_index_ /\ m \in Nat
  BY <1>1 DEF WellFormed, readable_size
<1>4. d <= reader_index_ /\ reader_index_ - d \in Nat /\ d <= MaxReadable
  BY <1>2, <1>3, SizesAssumption DEF Prepend, prependable_size
<1>5. /\ copy \in Seq(Cells) /\ Len(copy) = Len(buf_)
      /\ \A i \in 1 .. Len(buf_) :
            copy[i] = IF i \in (reader_index_ - d) + 1 .. (reader_index_ - d) + d
                      THEN data[i - (reader_index_ - d)] ELSE buf_[i]
  BY <1>2, <1>3, <1>4, CopiedCells
<1>6. Becomes(b)
  BY DEF Prepend, Becomes
<1> HIDE DEF copy
<1>7. /\ b.buf = copy /\ b.reader = reader_index_ - d /\ b.writer = writer_index_
      /\ b \in [buf : Seq(Cells), reader : Nat, writer : Nat]
  BY <1>3, <1>4, <1>5
<1> HIDE DEF b
<1>8. WellFormed(b)
  BY <1>2, <1>3, <1>4, <1>5, <1>7 DEF WellFormed
<1>9. PartsInOrder' /\ Readable' = Contents(b)
  BY <1>6, <1>8, Becoming
<1>10. c \in Seq(Cells) /\ Len(c) = m
       /\ \A i \in 1 .. m : c[i] = buf_[reader_index_ + i]
  BY <1>1, <1>3, ContentsSeq, ReadableContents
<1>11. /\ Contents(b) \in Seq(Cells) /\ Len(Contents(b)) = b.writer - b.reader
       /\ \A i \in 1 .. b.writer - b.reader : Contents(b)[i] = b.buf[b.reader + i]
  BY <1>8, ContentsSeq
<1>12. b.writer - b.reader = d + m
  BY <1>2, <1>3, <1>4, <1>7
<1> HIDE DEF c, m, d
<1>13. /\ data \o c \in Seq(Cells) /\ Len(data \o c) = d + m
       /\ \A i \in 1 .. d + m : (data \o c)[i] = IF i <= d THEN data[i] ELSE c[i - d]
  BY <1>2, <1>10, ConcatProperties DEF d
<1>14. \A i \in 1 .. d + m : Contents(b)[i] = (data \o c)[i]
  <2> TAKE i \in 1 .. d + m
  <2>1. /\ (reader_index_ - d) + i \in 1 .. Len(buf_)
        /\ ((reader_index_ - d) + i) - (reader_index_ - d) = i
    BY <1>2, <1>3, <1>4
  <2>2. Contents(b)[i] = copy[(reader_index_ - d) + i]
    BY <1>7, <1>11, <1>12
  <2>3. CASE i <= d
    <3>1. (reader_index_ - d) + i \in (reader_index_ - d) + 1 .. (reader_index_ - d) + d
      BY <1>2, <1>4, <2>3
    <3> QED BY <1>5, <1>13, <2>1, <2>2, <2>3, <3>1
  <2>4. CASE ~(i <= d)
    <3>1. (reader_index_ - d) + i \notin (reader_index_ - d) + 1 .. (reader_index_ - d) + d
      BY <1>2, <1>4, <2>4
    <3>2. i - d \in 1 .. m /\ (reader_index_ - d) + i = reader_index_ + (i - d)
      BY <1>2, <1>3, <2>4
    <3>3. copy[(reader_index_ - d) + i] = buf_[reader_index_ + (i - d)]
      BY <1>5, <2>1, <3>1, <3>2
    <3> QED BY <1>10, <1>13, <2>2, <2>4, <3>2, <3>3
  <2> QED BY <2>3, <2>4
<1>15. Contents(b) = data \o c
  <2>1. Len(Contents(b)) = Len(data \o c)
    BY <1>11, <1>12, <1>13
  <2>2. \A i \in 1 .. Len(Contents(b)) : Contents(b)[i] = (data \o c)[i]
    BY <1>11, <1>12, <1>14
  <2> QED BY <1>11, <1>13, <2>1, <2>2, SeqEqual
<1>16. data \in BQ!Strings
  BY <1>2, <1>4, StringsAreSeqs, SizesAssumption DEF BQ!Strings, Strings, d
<1> QED BY <1>9, <1>15, <1>16 DEF BQ!Prepended, c

\* Every step keeps the parts in order and is a step of the queue.
LEMMA NextStep ==
    ASSUME PartsInOrder, BufferNext
    PROVE  PartsInOrder' /\ BQ!Next
<1>0. readable_size \in Nat
  BY PartsWellFormed DEF WellFormed, This, readable_size
<1>1. CASE \E data \in Strings(MaxWrite) : Write(data)
  BY <1>1, WriteStep DEF BQ!Next
<1>2. CASE \E data \in Strings(MaxWrite) : Prepend(data)
  BY <1>2, PrependStep DEF BQ!Next
<1>3. CASE \E data \in Strings(MaxReadable) : ReadFD(data)
  BY <1>3, ReadFDStep DEF BQ!Next
<1>4. CASE \E n \in 0 .. MaxReadable : Consume(n)
  <2>1. PICK n \in 0 .. MaxReadable : Consume(n)
    BY <1>4
  <2>2. n \in 0 .. readable_size
    BY <1>0, <2>1 DEF Consume
  <2>3. CASE n < readable_size
    BY <2>1, <2>2, <2>3, ConsumeStep DEF Consume, BQ!Next
  <2>4. CASE ~(n < readable_size)
    <3>1. n = readable_size
      BY <1>0, <2>2, <2>4
    <3>2. ConsumeAll
      BY <2>1, <2>4 DEF Consume
    <3> QED BY <2>2, <3>1, <3>2, ConsumeStep DEF BQ!Next
  <2> QED BY <2>3, <2>4
<1>5. CASE ConsumeAll
  <2>1. readable_size \in 0 .. readable_size
    BY <1>0
  <2> QED BY <1>5, <2>1, ConsumeStep DEF BQ!Next
<1> QED BY <1>1, <1>2, <1>3, <1>4, <1>5 DEF BufferNext

\* The initial vector has empty readable and enough prependable space.
LEMMA InitStep == BufferInit => PartsInOrder /\ BQ!Init
<1> SUFFICES ASSUME BufferInit PROVE PartsInOrder /\ BQ!Init
  OBVIOUS
<1>1. PICK size \in InitialSizes : buf_ = [i \in 1 .. size + kDefaultPrependSize |-> 0]
  BY DEF BufferInit
<1>2. size + kDefaultPrependSize \in Nat /\ kDefaultPrependSize <= size + kDefaultPrependSize
  BY SizesAssumption
<1>3. buf_ \in [1 .. size + kDefaultPrependSize -> Cells]
  BY <1>1 DEF Cells
<1>4. buf_ \in Seq(Cells) /\ Len(buf_) = size + kDefaultPrependSize
  BY <1>2, <1>3, SeqDef, LenProperties
<1>5. PartsInOrder
  BY <1>2, <1>4, SizesAssumption DEF PartsInOrder, BufferInit, Cells
<1>6. readable_size = 0
  BY SizesAssumption DEF BufferInit, readable_size
<1>7. Readable = <<>>
  BY <1>6 DEF Readable
<1> QED BY <1>5, <1>7 DEF BQ!Init

-----------------------------------------------------------------------------

\* The prependable, readable and writable parts of a Buffer are always in order
\* and inside the vector (buffer.cpp: every operation that moves an index).
THEOREM BufferInOrder == BufferSpec => []PartsInOrder
<1>1. BufferInit => PartsInOrder
  BY InitStep
<1>2. PartsInOrder /\ [BufferNext]_bufferVars => PartsInOrder'
  <2>1. ASSUME PartsInOrder, UNCHANGED bufferVars PROVE PartsInOrder'
    BY <2>1 DEF PartsInOrder, bufferVars
  <2> QED BY <2>1, NextStep
<1> QED BY <1>1, <1>2, PTL DEF BufferSpec

\* ReserveWritable always makes room for what is to be written: the ENSURE of
\* Buffer::Write never fails.
THEOREM RoomReserved == BufferSpec => []ReserveSuffices
<1>1. PartsInOrder => ReserveSuffices
  BY PartsWellFormed, Reserving, SizesAssumption DEF ReserveSuffices
<1> QED BY <1>1, BufferInOrder, PTL

\* Buffer implements the queue of bytes.
THEOREM QueueImplemented == BufferSpec => ImplementsByteQueue
<1>1. BufferInit => BQ!Init
  BY InitStep
<1>2. PartsInOrder /\ [BufferNext]_bufferVars => [BQ!Next]_Readable
  <2>1. ASSUME UNCHANGED bufferVars PROVE UNCHANGED Readable
    BY <2>1 DEF bufferVars, Readable, readable_size
  <2> QED BY <2>1, NextStep
<1> QED BY <1>1, <1>2, BufferInOrder, PTL DEF BufferSpec, ImplementsByteQueue, BQ!Spec

=============================================================================
