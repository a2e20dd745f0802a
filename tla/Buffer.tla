------------------------------- MODULE Buffer -------------------------------
(***************************************************************************)
(* muduo::net::Buffer: bytes between readerIndex_ and writerIndex_ of a    *)
(* vector that is compacted or enlarged when what is written does not fit. *)
(* A buffer is a record: its vector as a function from 0 .. size - 1, the  *)
(* size and the two indices.                                               *)
(***************************************************************************)
EXTENDS Integers, Sequences

CONSTANTS
    Byte,
    kCheapPrepend, kInitialSize,
    ExtraBuf,                   \* sizeof extrabuf of readFd
    Blocks,                     \* what is appended, read or prepended at once
    Lengths,                    \* what is retrieved, taken back or reserved at once
    MaxContent                  \* bound: readable bytes

ASSUME BufferAssumption ==
    /\ Byte # {}
    /\ kCheapPrepend \in Nat /\ kInitialSize \in Nat /\ ExtraBuf \in Nat
    /\ Blocks \subseteq Seq(Byte) /\ Lengths \subseteq Nat /\ MaxContent \in Nat

VARIABLE buf

Buf(bytes, size, reader, writer) == [bytes |-> bytes, size |-> size, reader |-> reader, writer |-> writer]

ReadableBytes(b) == b.writer - b.reader
WritableBytes(b) == b.size - b.writer
PrependableBytes(b) == b.reader

(* The readable bytes, as a sequence. *)
Content(b) == [i \in 1..ReadableBytes(b) |-> b.bytes[b.reader + i - 1]]

Zero == CHOOSE zero \in Byte : TRUE
NewBuffer ==
    Buf([i \in 0..kCheapPrepend + kInitialSize - 1 |-> Zero], kCheapPrepend + kInitialSize,
        kCheapPrepend, kCheapPrepend)

-----------------------------------------------------------------------------
\* Mutant: the prependable bytes the content keeps are not counted.
SpaceShortOff(b, len) == WritableBytes(b) + PrependableBytes(b) < len

(* makeSpace: the vector grows, or the content moves to the front of it. *)
SpaceShort(b, len) == WritableBytes(b) + PrependableBytes(b) < len + kCheapPrepend
Resize(b, n) == Buf([i \in 0..n - 1 |-> IF i < b.size THEN b.bytes[i] ELSE Zero], n, b.reader, b.writer)
MoveToFront(b) ==
    Buf([i \in 0..b.size - 1 |->
            IF i >= kCheapPrepend /\ i < kCheapPrepend + ReadableBytes(b)
            THEN b.bytes[b.reader + i - kCheapPrepend] ELSE b.bytes[i]],
        b.size, kCheapPrepend, kCheapPrepend + ReadableBytes(b))
MakeSpace(b, len) == IF SpaceShort(b, len) THEN Resize(b, b.writer + len) ELSE MoveToFront(b)
EnsureWritableBytes(b, len) == IF WritableBytes(b) < len THEN MakeSpace(b, len) ELSE b

(* std::copy of data to a place of the vector. *)
Copy(b, at, data) ==
    [i \in 0..b.size - 1 |-> IF i >= at /\ i < at + Len(data) THEN data[i - at + 1] ELSE b.bytes[i]]
PutBytes(b, data) == Buf(Copy(b, b.writer, data), b.size, b.reader, b.writer + Len(data))
AppendTo(b, data) == PutBytes(EnsureWritableBytes(b, Len(data)), data)

(* readFd: what does not fit goes through extrabuf. *)
CanRead(b) == WritableBytes(b) + (IF WritableBytes(b) < ExtraBuf THEN ExtraBuf ELSE 0)
\* Mutant: extrabuf is appended from its wrong end.
FilledByTail(b, data) ==
    IF Len(data) <= WritableBytes(b) THEN PutBytes(b, data)
    ELSE AppendTo(PutBytes(b, SubSeq(data, 1, WritableBytes(b))), SubSeq(data, 1, Len(data) - WritableBytes(b)))

FilledBy(b, data) ==
    IF Len(data) <= WritableBytes(b) THEN PutBytes(b, data)
    ELSE AppendTo(PutBytes(b, SubSeq(data, 1, WritableBytes(b))), SubSeq(data, WritableBytes(b) + 1, Len(data)))

RetrieveAll(b) == Buf(b.bytes, b.size, kCheapPrepend, kCheapPrepend)
RetrieveFrom(b, n) ==
    IF n < ReadableBytes(b) THEN Buf(b.bytes, b.size, b.reader + n, b.writer) ELSE RetrieveAll(b)
UnwriteFrom(b, n) == Buf(b.bytes, b.size, b.reader, b.writer - n)
PrependTo(b, data) == Buf(Copy(b, b.reader - Len(data), data), b.size, b.reader - Len(data), b.writer)
Shrunk(b, n) == AppendTo(EnsureWritableBytes(NewBuffer, ReadableBytes(b) + n), Content(b))

-----------------------------------------------------------------------------
BufferInit == buf = NewBuffer

Fits(data) == ReadableBytes(buf) + Len(data) <= MaxContent
BufferAppend(data) == Fits(data) /\ buf' = AppendTo(buf, data)
ReadFd(data) == Fits(data) /\ Len(data) <= CanRead(buf) /\ buf' = FilledBy(buf, data)
(* The caller sees to the first condition, which the code asserts. *)
Prepend(data) == Len(data) <= PrependableBytes(buf) /\ Fits(data) /\ buf' = PrependTo(buf, data)
Retrieve(n) == n <= ReadableBytes(buf) /\ buf' = RetrieveFrom(buf, n)
Unwrite(n) == n <= ReadableBytes(buf) /\ buf' = UnwriteFrom(buf, n)
Reserve(n) == buf' = EnsureWritableBytes(buf, n)
Shrink(n) == buf' = Shrunk(buf, n)

BufferNext ==
    \/ \E data \in Blocks : BufferAppend(data) \/ ReadFd(data) \/ Prepend(data)
    \/ \E n \in Lengths : Retrieve(n) \/ Unwrite(n) \/ Reserve(n) \/ Shrink(n)

BufferSpec == BufferInit /\ [][BufferNext]_buf

-----------------------------------------------------------------------------
IsBuffer(b) ==
    /\ b.size \in Nat /\ b.reader \in Nat /\ b.writer \in Nat
    /\ b.reader <= b.writer /\ b.writer <= b.size /\ kCheapPrepend <= b.size
    /\ b.bytes \in [0..b.size - 1 -> Byte]

(* The indices are in the order the header draws, and the vector has as many
   bytes as it says, whatever is read, written, prepended or moved. *)
BufferTypeOK == IsBuffer(buf)

(* The assertions of ensureWritableBytes and makeSpace hold for every length
   that can be asked for: there is room afterwards, and content is moved
   only towards the front. *)
SpaceMade ==
    \A n \in Lengths \cup {Len(data) : data \in Blocks} :
        /\ WritableBytes(EnsureWritableBytes(buf, n)) >= n
        /\ WritableBytes(buf) < n /\ ~ SpaceShort(buf, n) => kCheapPrepend < buf.reader

(* The buffer is a queue of bytes: no move, no enlargement, no detour through
   extrabuf loses, repeats or reorders one. *)
Queue == INSTANCE ByteQueue WITH queue <- Content(buf)
ImplementsQueue == Queue!QueueSpec
=============================================================================
