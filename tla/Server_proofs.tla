---------------------------- MODULE Server_proofs ----------------------------
(***************************************************************************)
(* What is proved of the server: of muduo's Buffer, for every size of its  *)
(* parts; of HttpServer with its loops, connections and workers, for any   *)
(* number of each.  The second part has one inductive invariant, with one  *)
(* conjunct for each thing a step can disturb:                             *)
(*                                                                         *)
(*   - ThreadsInv: a loop is woken for what it has queued (LoopsInv);      *)
(*   - LifeInv: state_, maps and channel of a connection, and the functors *)
(*     of its life, tell the same story;                                   *)
(*   - EventsInv: a loop handles events of connections not destroyed;      *)
(*   - WorkersInv: tasks and workers have connections that have been up;   *)
(*   - OutputRight: what goes out is what was accepted, in order;          *)
(*   - FdsInv: descriptors are counted;                                    *)
(*   - RequestsInv: where a request in one piece is between its socket and *)
(*     its answer.                                                         *)
(*                                                                         *)
(* The queues of a loop are seen as one, of what its thread has taken and  *)
(* what it has not (ToRun): every step takes a functor from its head, adds *)
(* one at its end, or leaves it (QueueEffect).                             *)
(***************************************************************************)
EXTENDS HttpServer, Buffer, FiniteSetTheorems, FunctionTheorems, SequenceTheorems, TLAPS

-----------------------------------------------------------------------------
(* Buffer *)

(* The byte that fills new places is one. *)
LEMMA ZeroByte == Zero \in Byte
BY BufferAssumption DEF Zero

(* The content is a sequence of bytes, as long as readableBytes says. *)
LEMMA ContentSeq ==
    ASSUME NEW b, IsBuffer(b)
    PROVE  /\ Content(b) \in Seq(Byte)
           /\ Len(Content(b)) = b.writer - b.reader
           /\ \A i \in 1..(b.writer - b.reader) : Content(b)[i] = b.bytes[b.reader + i - 1]
<1>1. b.writer - b.reader \in Nat
  BY DEF IsBuffer
<1>2. \A i \in 1..(b.writer - b.reader) : b.bytes[b.reader + i - 1] \in Byte
  BY SMTT(30) DEF IsBuffer
<1>3. Content(b) \in [1..(b.writer - b.reader) -> Byte]
  BY <1>2 DEF Content, ReadableBytes
<1>4. QED
  BY <1>1, <1>3 DEF Content, ReadableBytes

(* Two sequences are one when their lengths and elements agree. *)
LEMMA SameSeq ==
    ASSUME NEW S, NEW s \in Seq(S), NEW t \in Seq(S), Len(s) = Len(t),
           \A i \in 1..Len(s) : s[i] = t[i]
    PROVE  s = t
BY SeqEqual

(* The initial buffer. *)
LEMMA NewBufferIs == IsBuffer(NewBuffer) /\ Content(NewBuffer) = <<>>
<1>1. IsBuffer(NewBuffer)
  BY ZeroByte, BufferAssumption DEF NewBuffer, Buf, IsBuffer
<1>2. Content(NewBuffer) \in Seq(Byte) /\ Len(Content(NewBuffer)) = 0
  BY <1>1, ContentSeq, BufferAssumption DEF NewBuffer, Buf
<1>3. QED
  BY <1>1, <1>2, EmptySeq

(* Buffers with the same bytes between their indices have the same content. *)
LEMMA SameContent ==
    ASSUME NEW a, NEW b, IsBuffer(a), IsBuffer(b), a.writer - a.reader = b.writer - b.reader,
           \A i \in 1..(b.writer - b.reader) : a.bytes[a.reader + i - 1] = b.bytes[b.reader + i - 1]
    PROVE  Content(a) = Content(b)
<1>1. Content(a) \in Seq(Byte) /\ Content(b) \in Seq(Byte) /\ Len(Content(a)) = Len(Content(b))
  BY ContentSeq
<1>2. \A i \in 1..Len(Content(a)) : Content(a)[i] = Content(b)[i]
  BY ContentSeq
<1>3. QED
  BY <1>1, <1>2, SameSeq

(* resize to no fewer bytes. *)
LEMMA ResizeIs ==
    ASSUME NEW b, IsBuffer(b), NEW n \in Nat, b.size <= n
    PROVE  IsBuffer(Resize(b, n)) /\ Content(Resize(b, n)) = Content(b)
<1> DEFINE r == Resize(b, n)
<1>1. r.size = n /\ r.reader = b.reader /\ r.writer = b.writer
      /\ r.bytes = [i \in 0..n - 1 |-> IF i < b.size THEN b.bytes[i] ELSE Zero]
  BY DEF Resize, Buf
<1>2. \A i \in 0..n - 1 : (IF i < b.size THEN b.bytes[i] ELSE Zero) \in Byte
  BY ZeroByte DEF IsBuffer
<1>3. r.bytes \in [0..n - 1 -> Byte]
  BY <1>1, <1>2
<1>4. IsBuffer(r)
  BY <1>1, <1>3, BufferAssumption DEF IsBuffer
<1>5. \A i \in 1..(b.writer - b.reader) : r.bytes[r.reader + i - 1] = b.bytes[b.reader + i - 1]
  <2>1. SUFFICES ASSUME NEW i \in 1..(b.writer - b.reader)
                 PROVE  r.bytes[r.reader + i - 1] = b.bytes[b.reader + i - 1]
    OBVIOUS
  <2>2. b.reader + i - 1 \in 0..n - 1 /\ b.reader + i - 1 < b.size
    BY DEF IsBuffer
  <2>3. QED
    BY <1>1, <2>2
<1>6. QED
  BY <1>1, <1>4, <1>5, SameContent

(* The content moved to the front, towards which there is room. *)
LEMMA MoveToFrontIs ==
    ASSUME NEW b, IsBuffer(b), kCheapPrepend <= b.reader
    PROVE  IsBuffer(MoveToFront(b)) /\ Content(MoveToFront(b)) = Content(b)
<1> DEFINE r == MoveToFront(b)
           at(i) == IF i >= kCheapPrepend /\ i < kCheapPrepend + ReadableBytes(b)
                    THEN b.bytes[b.reader + i - kCheapPrepend] ELSE b.bytes[i]
<1>1. r.size = b.size /\ r.reader = kCheapPrepend /\ r.writer = kCheapPrepend + (b.writer - b.reader)
      /\ r.bytes = [i \in 0..b.size - 1 |-> at(i)]
  BY DEF MoveToFront, Buf, ReadableBytes
<1>2. ASSUME NEW i \in 0..b.size - 1 PROVE at(i) \in Byte
  <2>1. CASE i >= kCheapPrepend /\ i < kCheapPrepend + ReadableBytes(b)
    <3>1. b.reader + i - kCheapPrepend \in 0..b.size - 1
      BY <2>1, BufferAssumption, SMTT(30) DEF IsBuffer, ReadableBytes
    <3>2. QED
      BY <2>1, <3>1 DEF IsBuffer
  <2>2. CASE ~ (i >= kCheapPrepend /\ i < kCheapPrepend + ReadableBytes(b))
    BY <2>2 DEF IsBuffer
  <2>3. QED
    BY <2>1, <2>2
<1>3. r.bytes \in [0..b.size - 1 -> Byte]
  BY <1>1, <1>2
<1>4. IsBuffer(r)
  BY <1>1, <1>3, BufferAssumption DEF IsBuffer
<1>5. \A i \in 1..(b.writer - b.reader) : r.bytes[r.reader + i - 1] = b.bytes[b.reader + i - 1]
  <2>1. SUFFICES ASSUME NEW i \in 1..(b.writer - b.reader)
                 PROVE  r.bytes[r.reader + i - 1] = b.bytes[b.reader + i - 1]
    OBVIOUS
  <2> DEFINE k == kCheapPrepend + i - 1
  <2>2. k \in 0..b.size - 1 /\ k >= kCheapPrepend /\ k < kCheapPrepend + ReadableBytes(b)
        /\ b.reader + k - kCheapPrepend = b.reader + i - 1
    BY BufferAssumption DEF IsBuffer, ReadableBytes
  <2>3. r.bytes[k] = b.bytes[b.reader + k - kCheapPrepend]
    BY <1>1, <2>2
  <2>4. QED
    BY <1>1, <2>2, <2>3
<1>6. r.writer - r.reader = b.writer - b.reader
  BY <1>1, BufferAssumption DEF IsBuffer
<1>7. QED
  BY <1>4, <1>5, <1>6, SameContent

(* ensureWritableBytes: its assertions hold, and it changes no content. *)
LEMMA EnsureWritableIs ==
    ASSUME NEW b, IsBuffer(b), NEW len \in Nat
    PROVE  /\ IsBuffer(EnsureWritableBytes(b, len))
           /\ Content(EnsureWritableBytes(b, len)) = Content(b)
           /\ WritableBytes(EnsureWritableBytes(b, len)) >= len
           /\ WritableBytes(b) < len /\ ~ SpaceShort(b, len) => kCheapPrepend < b.reader
<1>1. WritableBytes(b) < len /\ ~ SpaceShort(b, len) => kCheapPrepend < b.reader
  BY BufferAssumption DEF IsBuffer, SpaceShort, WritableBytes, PrependableBytes
<1>2. CASE WritableBytes(b) >= len
  BY <1>1, <1>2 DEF EnsureWritableBytes, WritableBytes, IsBuffer
<1>3. CASE WritableBytes(b) < len /\ SpaceShort(b, len)
  <2>1. EnsureWritableBytes(b, len) = Resize(b, b.writer + len)
    BY <1>3 DEF EnsureWritableBytes, MakeSpace
  <2>2. b.writer + len \in Nat /\ b.size <= b.writer + len
    BY <1>3 DEF IsBuffer, WritableBytes
  <2>3. Resize(b, b.writer + len).size = b.writer + len /\ Resize(b, b.writer + len).writer = b.writer
    BY DEF Resize, Buf
  <2>4. WritableBytes(Resize(b, b.writer + len)) >= len
    BY <2>3 DEF WritableBytes, IsBuffer
  <2>5. QED
    BY <1>1, <2>1, <2>2, <2>4, ResizeIs
<1>4. CASE WritableBytes(b) < len /\ ~ SpaceShort(b, len)
  <2>1. EnsureWritableBytes(b, len) = MoveToFront(b)
    BY <1>4 DEF EnsureWritableBytes, MakeSpace
  <2>2. kCheapPrepend <= b.reader
    BY <1>1, <1>4, BufferAssumption DEF IsBuffer
  <2>3. MoveToFront(b).size = b.size /\ MoveToFront(b).writer = kCheapPrepend + (b.writer - b.reader)
    BY DEF MoveToFront, Buf, ReadableBytes
  <2>4. WritableBytes(MoveToFront(b)) >= len
    BY <1>4, <2>3, BufferAssumption DEF IsBuffer, SpaceShort, WritableBytes, PrependableBytes
  <2>5. QED
    BY <1>1, <2>1, <2>2, <2>4, MoveToFrontIs
<1>5. QED
  BY <1>2, <1>3, <1>4 DEF WritableBytes, IsBuffer

(* A vector with data copied into it has as many bytes. *)
LEMMA CopyIs ==
    ASSUME NEW b, IsBuffer(b), NEW at \in Nat, NEW data \in Seq(Byte), at + Len(data) <= b.size
    PROVE  /\ Copy(b, at, data) \in [0..b.size - 1 -> Byte]
           /\ \A i \in 1..Len(data) : Copy(b, at, data)[at + i - 1] = data[i]
           /\ \A i \in 0..b.size - 1 : i < at \/ i >= at + Len(data) => Copy(b, at, data)[i] = b.bytes[i]
<1>0. Len(data) \in Nat /\ \A i \in 1..Len(data) : data[i] \in Byte
  BY ElementOfSeq, LenProperties
<1> DEFINE c(i) == IF i >= at /\ i < at + Len(data) THEN data[i - at + 1] ELSE b.bytes[i]
<1>1. ASSUME NEW i \in 0..b.size - 1 PROVE c(i) \in Byte
  <2>1. CASE i >= at /\ i < at + Len(data)
    <3>1. i - at + 1 \in 1..Len(data)
      BY <1>0, <2>1 DEF IsBuffer
    <3>2. QED
      BY <1>0, <2>1, <3>1
  <2>2. CASE ~ (i >= at /\ i < at + Len(data))
    BY <2>2 DEF IsBuffer
  <2>3. QED
    BY <2>1, <2>2
<1>2. Copy(b, at, data) = [i \in 0..b.size - 1 |-> c(i)]
  BY DEF Copy
<1>3. ASSUME NEW i \in 1..Len(data) PROVE Copy(b, at, data)[at + i - 1] = data[i]
  <2>1. at + i - 1 \in 0..b.size - 1 /\ at + i - 1 >= at /\ at + i - 1 < at + Len(data) /\ (at + i - 1) - at + 1 = i
    BY <1>0 DEF IsBuffer
  <2>2. c(at + i - 1) = data[i]
    BY <2>1
  <2>3. QED
    BY <1>2, <2>1, <2>2
<1>4. ASSUME NEW i \in 0..b.size - 1, i < at \/ i >= at + Len(data) PROVE Copy(b, at, data)[i] = b.bytes[i]
  <2>1. c(i) = b.bytes[i]
    BY <1>0, <1>4 DEF IsBuffer
  <2>2. QED
    BY <1>2, <2>1
<1>5. QED
  BY <1>1, <1>2, <1>3, <1>4

(* Data written behind the content, where there is room for it. *)
LEMMA PutBytesIs ==
    ASSUME NEW b, IsBuffer(b), NEW data \in Seq(Byte), Len(data) <= WritableBytes(b)
    PROVE  IsBuffer(PutBytes(b, data)) /\ Content(PutBytes(b, data)) = Content(b) \o data
<1> DEFINE r == PutBytes(b, data)
           n == b.writer - b.reader
<1>0. Len(data) \in Nat /\ n \in Nat
  BY LenProperties DEF IsBuffer
<1>1. r.size = b.size /\ r.reader = b.reader /\ r.writer = b.writer + Len(data)
      /\ r.bytes = Copy(b, b.writer, data)
  BY DEF PutBytes, Buf
<1> HIDE DEF r
<1>2. b.writer \in Nat /\ b.writer + Len(data) <= b.size
  BY <1>0 DEF IsBuffer, WritableBytes
<1>3. IsBuffer(r)
  BY <1>0, <1>1, <1>2, CopyIs, SMTT(30) DEF IsBuffer
<1>4. /\ Content(b) \in Seq(Byte) /\ Len(Content(b)) = n
      /\ Content(b) \o data \in Seq(Byte) /\ Len(Content(b) \o data) = n + Len(data)
  <2>1. Content(b) \in Seq(Byte) /\ Len(Content(b)) = n
    BY ContentSeq
  <2> HIDE DEF n
  <2>2. QED
    BY <2>1, ConcatProperties
<1>a. r.writer - r.reader = n + Len(data)
  BY <1>0, <1>1 DEF IsBuffer
<1>5. Content(r) \in Seq(Byte) /\ Len(Content(r)) = n + Len(data)
  BY <1>a, <1>3, ContentSeq
<1>6. ASSUME NEW i \in 1..n + Len(data) PROVE Content(r)[i] = (Content(b) \o data)[i]
  <2>1. Content(r)[i] = r.bytes[b.reader + i - 1]
    BY <1>1, <1>a, <1>3, ContentSeq
  <2>2. CASE i <= n
    <3>1. i \in 1..n /\ b.reader + i - 1 \in 0..b.size - 1 /\ b.reader + i - 1 < b.writer
      BY <1>0, <2>2, SMTT(30) DEF IsBuffer
    <3>2. r.bytes[b.reader + i - 1] = b.bytes[b.reader + i - 1]
      BY <1>1, <1>2, <3>1, CopyIs
    <3>3. Content(b)[i] = b.bytes[b.reader + i - 1]
      BY <3>1, ContentSeq
    <3>4. (Content(b) \o data)[i] = Content(b)[i]
      BY <1>4, <3>1, ConcatProperties
    <3>5. QED
      BY <2>1, <3>2, <3>3, <3>4
  <2>3. CASE i > n
    <3>1. i - n \in 1..Len(data) /\ b.writer + (i - n) - 1 = b.reader + i - 1
      <4>1. b.reader \in Nat /\ b.writer = b.reader + n
        BY DEF IsBuffer
      <4> HIDE DEF n
      <4>2. i - n \in 1..Len(data)
        BY <1>0, <2>3
      <4>3. QED
        BY <1>0, <4>1, <4>2
    <3>2. r.bytes[b.reader + i - 1] = data[i - n]
      BY <1>1, <1>2, <3>1, CopyIs
    <3>3. (Content(b) \o data)[i] = data[i - n]
      BY <1>0, <1>4, <2>3, ConcatProperties
    <3>4. QED
      BY <2>1, <3>2, <3>3
  <2>4. i <= n \/ i > n
    BY <1>0
  <2>5. QED
    BY <2>2, <2>3, <2>4
<1>7. Content(r) = Content(b) \o data
  BY <1>4, <1>5, <1>6, SameSeq
<1>8. QED
  BY <1>3, <1>7 DEF r

(* append. *)
LEMMA AppendIs ==
    ASSUME NEW b, IsBuffer(b), NEW data \in Seq(Byte)
    PROVE  IsBuffer(AppendTo(b, data)) /\ Content(AppendTo(b, data)) = Content(b) \o data
<1>1. Len(data) \in Nat
  BY LenProperties
<1>2. IsBuffer(EnsureWritableBytes(b, Len(data))) /\ Content(EnsureWritableBytes(b, Len(data))) = Content(b)
      /\ WritableBytes(EnsureWritableBytes(b, Len(data))) >= Len(data)
  BY <1>1, EnsureWritableIs
<1>3. Len(data) <= WritableBytes(EnsureWritableBytes(b, Len(data)))
  BY <1>1, <1>2 DEF WritableBytes, IsBuffer
<1>4. QED
  BY <1>2, <1>3, PutBytesIs DEF AppendTo

(* readFd: the detour through extrabuf puts the bytes behind each other. *)
LEMMA FilledByIs ==
    ASSUME NEW b, IsBuffer(b), NEW data \in Seq(Byte)
    PROVE  IsBuffer(FilledBy(b, data)) /\ Content(FilledBy(b, data)) = Content(b) \o data
<1>0. Len(data) \in Nat /\ WritableBytes(b) \in Nat
  BY LenProperties DEF IsBuffer, WritableBytes
<1>1. CASE Len(data) <= WritableBytes(b)
  BY <1>1, PutBytesIs DEF FilledBy
<1>2. CASE ~ (Len(data) <= WritableBytes(b))
  <2> DEFINE first == SubSeq(data, 1, WritableBytes(b))
             more == SubSeq(data, WritableBytes(b) + 1, Len(data))
  <2>1. first \in Seq(Byte) /\ Len(first) = WritableBytes(b) /\ more \in Seq(Byte)
    BY <1>0, <1>2, SubSeqProperties
  <2>2. IsBuffer(PutBytes(b, first)) /\ Content(PutBytes(b, first)) = Content(b) \o first
    <3>1. Len(first) <= WritableBytes(b)
      BY <1>0, <2>1
    <3> HIDE DEF first
    <3>2. QED
      BY <2>1, <3>1, PutBytesIs
  <2>3. IsBuffer(AppendTo(PutBytes(b, first), more))
        /\ Content(AppendTo(PutBytes(b, first), more)) = (Content(b) \o first) \o more
    BY <2>1, <2>2, AppendIs
  <2>4. first \o more = data
    <3>1. WritableBytes(b) \in 0..Len(data)
      BY <1>0, <1>2
    <3>2. first \o more = SubSeq(data, 1, Len(data))
      <4>1. 1 \in 1..Len(data) + 1 /\ WritableBytes(b) \in 1 - 1..Len(data) /\ Len(data) \in WritableBytes(b)..Len(data)
        BY <1>0, <3>1
      <4>2. QED
        BY <4>1, ConcatAdjacentSubSeq
    <3>3. QED
      BY <3>2, SubSeqFull
  <2>5. (Content(b) \o first) \o more = Content(b) \o data
    <3>1. Content(b) \in Seq(Byte)
      BY ContentSeq
    <3> HIDE DEF first, more
    <3>2. (Content(b) \o first) \o more = Content(b) \o (first \o more)
      BY <2>1, <3>1, ConcatAssociative, SMTT(30)
    <3>3. QED
      BY <2>4, <3>2
  <2>6. FilledBy(b, data) = AppendTo(PutBytes(b, first), more)
    BY <1>2 DEF FilledBy
  <2>7. QED
    BY <2>3, <2>5, <2>6
<1>3. QED
  BY <1>1, <1>2

(* prepend, where there is room in front of the content. *)
LEMMA PrependIs ==
    ASSUME NEW b, IsBuffer(b), NEW data \in Seq(Byte), Len(data) <= PrependableBytes(b)
    PROVE  IsBuffer(PrependTo(b, data)) /\ Content(PrependTo(b, data)) = data \o Content(b)
<1> DEFINE r == PrependTo(b, data)
           n == b.writer - b.reader
           at == b.reader - Len(data)
<1>0. Len(data) \in Nat /\ n \in Nat /\ at \in Nat /\ at + Len(data) = b.reader /\ at + Len(data) <= b.size
  BY LenProperties DEF IsBuffer, PrependableBytes
<1>1. r.size = b.size /\ r.reader = at /\ r.writer = b.writer /\ r.bytes = Copy(b, at, data)
  BY DEF PrependTo, Buf
<1> HIDE DEF r
<1>2. r.bytes \in [0..b.size - 1 -> Byte]
  BY <1>0, <1>1, CopyIs
<1>c. \A j \in 0..b.size - 1 : j >= at + Len(data) => r.bytes[j] = b.bytes[j]
  <2>1. PICK p \in Nat : p = at
    BY <1>0
  <2>2. \A j \in 0..b.size - 1 : j < p \/ j >= p + Len(data) => Copy(b, p, data)[j] = b.bytes[j]
    BY <1>0, <2>1, CopyIs
  <2>3. \A j \in 0..b.size - 1 : j >= p + Len(data) => r.bytes[j] = b.bytes[j]
    BY ONLY <1>1, <2>1, <2>2
  <2>4. QED
    BY <2>1, <2>3
<1>3. IsBuffer(r)
  BY <1>0, <1>1, <1>2 DEF IsBuffer
<1>4. /\ Content(b) \in Seq(Byte) /\ Len(Content(b)) = n
      /\ data \o Content(b) \in Seq(Byte) /\ Len(data \o Content(b)) = Len(data) + n
  <2>1. Content(b) \in Seq(Byte) /\ Len(Content(b)) = n
    BY ContentSeq
  <2>2. QED
    BY <2>1, ConcatProperties
<1>5. r.writer - r.reader = Len(data) + n
  BY <1>0, <1>1 DEF IsBuffer
<1>6. Content(r) \in Seq(Byte) /\ Len(Content(r)) = Len(data) + n
  BY <1>3, <1>5, ContentSeq
<1>7. ASSUME NEW i \in 1..Len(data) + n PROVE Content(r)[i] = (data \o Content(b))[i]
  <2>1. Content(r)[i] = r.bytes[at + i - 1]
    BY <1>1, <1>3, <1>5, ContentSeq
  <2>2. CASE i <= Len(data)
    <3>1. i \in 1..Len(data)
      BY <1>0, <2>2
    <3>2. r.bytes[at + i - 1] = data[i]
      BY <1>0, <1>1, <3>1, CopyIs
    <3>3. (data \o Content(b))[i] = data[i]
      BY <1>4, <3>1, ConcatProperties
    <3>4. QED
      BY <2>1, <3>2, <3>3
  <2>3. CASE i > Len(data)
    <3>1. i - Len(data) \in 1..n /\ at + i - 1 = b.reader + (i - Len(data)) - 1
          /\ at + i - 1 \in 0..b.size - 1 /\ at + i - 1 >= at + Len(data)
      <4>1. b.reader \in Nat /\ b.size \in Nat /\ b.writer \in Nat /\ b.writer <= b.size /\ b.writer = b.reader + n
        BY DEF IsBuffer
      <4> HIDE DEF n, at
      <4>2. i - Len(data) \in 1..n
        BY <1>0, <2>3
      <4>3. QED
        BY <1>0, <2>3, <4>1, <4>2, SMTT(30)
    <3>2. r.bytes[at + i - 1] = b.bytes[at + i - 1]
      <4> HIDE DEF at, n
      <4>1. QED
        BY <1>c, <3>1
    <3>3. Content(b)[i - Len(data)] = b.bytes[at + i - 1]
      BY <3>1, ContentSeq
    <3>4. (data \o Content(b))[i] = Content(b)[i - Len(data)]
      BY <1>0, <1>4, <2>3, ConcatProperties
    <3>5. QED
      BY <2>1, <3>2, <3>3, <3>4
  <2>4. i <= Len(data) \/ i > Len(data)
    BY <1>0
  <2>5. QED
    BY <2>2, <2>3, <2>4
<1>8. Content(r) = data \o Content(b)
  BY <1>4, <1>6, <1>7, SameSeq
<1>9. QED
  BY <1>3, <1>8 DEF r

(* retrieve: what is left is the rest of the content. *)
LEMMA RetrieveIs ==
    ASSUME NEW b, IsBuffer(b), NEW n \in Nat, n <= ReadableBytes(b)
    PROVE  /\ IsBuffer(RetrieveFrom(b, n))
           /\ n \in 0..Len(Content(b))
           /\ Content(RetrieveFrom(b, n)) = SubSeq(Content(b), n + 1, Len(Content(b)))
<1> DEFINE r == RetrieveFrom(b, n)
           len == b.writer - b.reader
<1>0. len \in Nat /\ n \in 0..len /\ Content(b) \in Seq(Byte) /\ Len(Content(b)) = len
      /\ \A i \in 1..len : Content(b)[i] = b.bytes[b.reader + i - 1]
  BY ContentSeq DEF IsBuffer, ReadableBytes
<1>1. /\ SubSeq(Content(b), n + 1, len) \in Seq(Byte)
      /\ Len(SubSeq(Content(b), n + 1, len)) = len - n
      /\ \A i \in 1..len - n : SubSeq(Content(b), n + 1, len)[i] = Content(b)[n + i]
  <2>1. \A i \in n + 1..len : Content(b)[i] \in Byte
    BY <1>0, ElementOfSeq
  <2>2. \A i \in 1..len - n : n + 1 + i - 1 = n + i
    BY <1>0
  <2>3. len - (n + 1) + 1 = len - n /\ (n + 1 <= len \/ len - n = 0)
    BY <1>0
  <2>4. QED
    BY <1>0, <2>1, <2>2, <2>3, SubSeqProperties
<1>2. IsBuffer(r) /\ r.writer - r.reader = len - n
      /\ (n < len => r.bytes = b.bytes /\ r.reader = b.reader + n)
  <2>1. CASE n < len
    <3>1. r = Buf(b.bytes, b.size, b.reader + n, b.writer)
      BY <2>1 DEF RetrieveFrom, ReadableBytes
    <3>2. r.bytes = b.bytes /\ r.size = b.size /\ r.reader = b.reader + n /\ r.writer = b.writer
      BY <3>1 DEF Buf
    <3> HIDE DEF r
    <3>3. QED
      BY <1>0, <2>1, <3>2 DEF IsBuffer
  <2>2. CASE ~ (n < len)
    <3>1. r = Buf(b.bytes, b.size, kCheapPrepend, kCheapPrepend)
      BY <2>2 DEF RetrieveFrom, RetrieveAll, ReadableBytes
    <3>2. r.bytes = b.bytes /\ r.size = b.size /\ r.reader = kCheapPrepend /\ r.writer = kCheapPrepend
      BY <3>1 DEF Buf
    <3>3. kCheapPrepend \in Nat
      BY BufferAssumption
    <3> HIDE DEF r
    <3>4. QED
      BY <1>0, <2>2, <3>2, <3>3 DEF IsBuffer
  <2>3. QED
    BY <2>1, <2>2
<1> HIDE DEF r
<1>3. Content(r) \in Seq(Byte) /\ Len(Content(r)) = len - n
      /\ \A i \in 1..len - n : Content(r)[i] = r.bytes[r.reader + i - 1]
  BY <1>2, ContentSeq
<1>4. ASSUME NEW i \in 1..len - n PROVE Content(r)[i] = SubSeq(Content(b), n + 1, len)[i]
  <2>1. n < len /\ n + i \in 1..len /\ b.reader + n + i - 1 = b.reader + (n + i) - 1
    <3>1. b.reader \in Nat
      BY DEF IsBuffer
    <3> HIDE DEF len
    <3>2. QED
      BY <1>0, <3>1, SMTT(30)
  <2>2. Content(r)[i] = b.bytes[b.reader + (n + i) - 1]
    BY <1>2, <1>3, <2>1
  <2>3. QED
    BY <1>0, <1>1, <2>1, <2>2
<1>5. Content(r) = SubSeq(Content(b), n + 1, len)
  BY <1>1, <1>3, <1>4, SameSeq
<1>6. QED
  BY <1>0, <1>2, <1>5 DEF r

(* unwrite: what is left is the beginning of the content. *)
LEMMA UnwriteIs ==
    ASSUME NEW b, IsBuffer(b), NEW n \in Nat, n <= ReadableBytes(b)
    PROVE  /\ IsBuffer(UnwriteFrom(b, n))
           /\ n \in 0..Len(Content(b))
           /\ Content(UnwriteFrom(b, n)) = SubSeq(Content(b), 1, Len(Content(b)) - n)
<1> DEFINE r == UnwriteFrom(b, n)
           len == b.writer - b.reader
<1>0. len \in Nat /\ n \in 0..len /\ Content(b) \in Seq(Byte) /\ Len(Content(b)) = len
      /\ \A i \in 1..len : Content(b)[i] = b.bytes[b.reader + i - 1]
  BY ContentSeq DEF IsBuffer, ReadableBytes
<1>1. r.bytes = b.bytes /\ r.size = b.size /\ r.reader = b.reader /\ r.writer = b.writer - n
  BY DEF UnwriteFrom, Buf
<1> HIDE DEF r
<1>2. IsBuffer(r) /\ r.writer - r.reader = len - n
  BY <1>0, <1>1, SMTT(30) DEF IsBuffer
<1>3. Content(r) \in Seq(Byte) /\ Len(Content(r)) = len - n
      /\ \A i \in 1..len - n : Content(r)[i] = b.bytes[b.reader + i - 1]
  BY <1>1, <1>2, ContentSeq
<1> HIDE DEF len
<1>4. /\ SubSeq(Content(b), 1, len - n) \in Seq(Byte)
      /\ Len(SubSeq(Content(b), 1, len - n)) = len - n
      /\ \A i \in 1..len - n : SubSeq(Content(b), 1, len - n)[i] = Content(b)[i]
  <2>1. \A i \in 1..len - n : Content(b)[i] \in Byte
    BY <1>0, ElementOfSeq
  <2>2. \A i \in 1..len - n : 1 + i - 1 = i
    BY <1>0
  <2>3. len - n \in Int /\ len - n - 1 + 1 = len - n /\ (1 <= len - n \/ len - n = 0)
    BY <1>0
  <2>4. QED
    BY <2>1, <2>2, <2>3, SubSeqProperties
<1>5. ASSUME NEW i \in 1..len - n PROVE Content(r)[i] = SubSeq(Content(b), 1, len - n)[i]
  <2>1. i \in 1..len
    BY <1>0
  <2>2. QED
    BY <1>0, <1>3, <1>4, <2>1
<1>6. Content(r) = SubSeq(Content(b), 1, len - n)
  BY <1>3, <1>4, <1>5, SameSeq
<1>7. QED
  BY <1>0, <1>2, <1>6 DEF r

(* shrink: the same content in a new buffer. *)
LEMMA ShrunkIs ==
    ASSUME NEW b, IsBuffer(b), NEW n \in Nat
    PROVE  IsBuffer(Shrunk(b, n)) /\ Content(Shrunk(b, n)) = Content(b)
<1> DEFINE e == EnsureWritableBytes(NewBuffer, ReadableBytes(b) + n)
<1>1. ReadableBytes(b) + n \in Nat /\ Content(b) \in Seq(Byte)
  BY ContentSeq DEF IsBuffer, ReadableBytes
<1>2. IsBuffer(e) /\ Content(e) = <<>>
  BY <1>1, NewBufferIs, EnsureWritableIs
<1>3. Shrunk(b, n) = AppendTo(e, Content(b))
  BY DEF Shrunk
<1> HIDE DEF e
<1>4. IsBuffer(AppendTo(e, Content(b))) /\ Content(AppendTo(e, Content(b))) = <<>> \o Content(b)
  BY <1>1, <1>2, AppendIs
<1>5. <<>> \o Content(b) = Content(b)
  BY <1>1, ConcatEmptySeq
<1>6. QED
  BY <1>3, <1>4, <1>5

(* Whatever is done to a buffer leaves a buffer, and does to its content what
   the queue of bytes allows: every operation of Buffer.h and readFd. *)
LEMMA BufferStep ==
    ASSUME BufferTypeOK, [BufferNext]_buf
    PROVE  BufferTypeOK' /\ [Queue!Change]_(Content(buf))
<1> USE DEF BufferTypeOK
<1>0. /\ \A data \in Blocks : data \in Seq(Byte)
      /\ \A n \in Lengths : n \in Nat
  BY BufferAssumption
<1>1. ASSUME NEW data \in Blocks, BufferAppend(data)
      PROVE  IsBuffer(buf') /\ Content(buf') = Content(buf) \o data
  BY <1>0, <1>1, AppendIs DEF BufferAppend
<1>2. ASSUME NEW data \in Blocks, ReadFd(data)
      PROVE  IsBuffer(buf') /\ Content(buf') = Content(buf) \o data
  BY <1>0, <1>2, FilledByIs DEF ReadFd
<1>3. ASSUME NEW data \in Blocks, Prepend(data)
      PROVE  IsBuffer(buf') /\ Content(buf') = data \o Content(buf)
  BY <1>0, <1>3, PrependIs DEF Prepend
<1>4. ASSUME NEW n \in Lengths, Retrieve(n)
      PROVE  /\ IsBuffer(buf') /\ n \in 0..Len(Content(buf))
             /\ Content(buf') = SubSeq(Content(buf), n + 1, Len(Content(buf)))
  BY <1>0, <1>4, RetrieveIs DEF Retrieve
<1>5. ASSUME NEW n \in Lengths, Unwrite(n)
      PROVE  /\ IsBuffer(buf') /\ n \in 0..Len(Content(buf))
             /\ Content(buf') = SubSeq(Content(buf), 1, Len(Content(buf)) - n)
  BY <1>0, <1>5, UnwriteIs DEF Unwrite
<1>6. ASSUME NEW n \in Lengths, Reserve(n)
      PROVE  IsBuffer(buf') /\ Content(buf') = Content(buf)
  BY <1>0, <1>6, EnsureWritableIs DEF Reserve
<1>7. ASSUME NEW n \in Lengths, Shrink(n)
      PROVE  IsBuffer(buf') /\ Content(buf') = Content(buf)
  BY <1>0, <1>7, ShrunkIs DEF Shrink
<1>8. CASE UNCHANGED buf
  BY <1>8
<1>9. CASE \E data \in Blocks : BufferAppend(data) \/ ReadFd(data) \/ Prepend(data)
  BY <1>1, <1>2, <1>3, <1>9 DEF Queue!Change, Queue!Grow, Queue!Lead
<1>10. CASE \E n \in Lengths : Retrieve(n) \/ Unwrite(n) \/ Reserve(n) \/ Shrink(n)
  BY <1>4, <1>5, <1>6, <1>7, <1>10 DEF Queue!Change, Queue!Consume, Queue!TakeBack
<1>11. QED
  BY <1>8, <1>9, <1>10 DEF BufferNext

(* The indices of a Buffer stay in order and inside its vector, for every
   size of the vector, of extrabuf and of what is read and written. *)
THEOREM BufferTypeCorrect == BufferSpec => []BufferTypeOK
<1>1. BufferInit => BufferTypeOK
  BY NewBufferIs DEF BufferInit, BufferTypeOK
<1>2. BufferTypeOK /\ [BufferNext]_buf => BufferTypeOK'
  BY BufferStep
<1>3. QED
  BY <1>1, <1>2, PTL DEF BufferSpec

(* The assertions of ensureWritableBytes and makeSpace never fail. *)
THEOREM SpaceAlwaysMade == BufferSpec => []SpaceMade
<1>1. BufferTypeOK => SpaceMade
  <2>1. SUFFICES ASSUME BufferTypeOK, NEW n \in Lengths \cup {Len(data) : data \in Blocks}
                 PROVE  /\ WritableBytes(EnsureWritableBytes(buf, n)) >= n
                        /\ WritableBytes(buf) < n /\ ~ SpaceShort(buf, n) => kCheapPrepend < buf.reader
    BY DEF SpaceMade
  <2>2. n \in Nat
    BY BufferAssumption, LenProperties
  <2>3. QED
    BY <2>1, <2>2, EnsureWritableIs DEF BufferTypeOK
<1>2. QED
  BY <1>1, BufferTypeCorrect, PTL

(* A Buffer implements a queue of bytes. *)
THEOREM BufferImplementsQueue == BufferSpec => ImplementsQueue
<1>1. BufferInit => Queue!Empty
  BY NewBufferIs DEF BufferInit, Queue!Empty
<1>2. BufferTypeOK /\ [BufferNext]_buf => [Queue!Change]_(Content(buf))
  BY BufferStep
<1>3. QED
  BY <1>1, <1>2, BufferTypeCorrect, PTL DEF BufferSpec, ImplementsQueue, Queue!QueueSpec

-----------------------------------------------------------------------------
(* HttpServer *)

\* The functors of a loop as one queue: what is taken from its head, what is put at
\* its end, and what that does to the functors of one operation for one connection.
LEMMA OnFront ==
    ASSUME NEW S, NEW f \in S, NEW q \in Seq(S)
    PROVE  /\ <<f>> \o q \in Seq(S) /\ <<f>> \o q # <<>>
           /\ Head(<<f>> \o q) = f /\ Tail(<<f>> \o q) = q
  <1>1. <<f>> \in Seq(S) /\ Len(<<f>>) = 1
    OBVIOUS
  <1>2. /\ <<f>> \o q \in Seq(S) /\ Len(<<f>> \o q) = 1 + Len(q)
        /\ \A i \in 1..1 + Len(q) : (<<f>> \o q)[i] = IF i <= 1 THEN f ELSE q[i - 1]
    BY <1>1, ConcatProperties
  <1>3. Len(q) \in Nat
    BY LenProperties
  <1>4. <<f>> \o q # <<>> /\ Head(<<f>> \o q) = f
    BY <1>2, <1>3
  <1>5. /\ Tail(<<f>> \o q) \in Seq(S) /\ Len(Tail(<<f>> \o q)) = Len(q)
        /\ \A i \in 1..Len(q) : Tail(<<f>> \o q)[i] = (<<f>> \o q)[i + 1]
    BY <1>2, <1>3, <1>4, HeadTailProperties
  <1>6. \A i \in 1..Len(q) : Tail(<<f>> \o q)[i] = q[i]
    <2> TAKE i \in 1..Len(q)
    <2>1. i + 1 \in 1..1 + Len(q) /\ ~ i + 1 <= 1 /\ (i + 1) - 1 = i
      BY <1>3
    <2> QED BY <1>2, <1>5, <2>1
  <1> QED BY <1>2, <1>4, <1>5, <1>6, SeqEqual

LEMMA FromFront ==
    ASSUME NEW S, NEW q \in Seq(S), q # <<>>, NEW op, NEW c
    PROVE  /\ Head(q) \in S /\ Tail(q) \in Seq(S)
           /\ Has(q, op, c) <=> Has(Tail(q), op, c) \/ (Head(q)[1] = op /\ Head(q)[2] = c)
           /\ Single(q, op, c) => Single(Tail(q), op, c)
           /\ Single(q, op, c) /\ Head(q)[1] = op /\ Head(q)[2] = c => ~ Has(Tail(q), op, c)
           /\ \A n : Carry(q, op, c, n) => Carry(Tail(q), op, c, n)
  <1>1. /\ Head(q) \in S /\ Tail(q) \in Seq(S) /\ Len(Tail(q)) = Len(q) - 1
        /\ \A i \in 1..Len(q) - 1 : Tail(q)[i] = q[i + 1]
    BY HeadTailProperties
  <1>2. /\ Len(q) \in Nat \ {0} /\ Head(q) = q[1] /\ DOMAIN q = 1..Len(q)
        /\ DOMAIN Tail(q) = 1..Len(q) - 1
    BY <1>1, EmptySeq, LenProperties
  <1>3. \A i \in DOMAIN Tail(q) : i + 1 \in DOMAIN q /\ Tail(q)[i] = q[i + 1] /\ i + 1 # 1
    BY <1>1, <1>2
  <1>4. \A i \in DOMAIN q : i = 1 \/ (i - 1 \in DOMAIN Tail(q) /\ Tail(q)[i - 1] = q[i])
    <2> TAKE i \in DOMAIN q
    <2>1. i = 1 \/ (i - 1 \in 1..Len(q) - 1 /\ (i - 1) + 1 = i)
      BY <1>2
    <2> QED BY <1>1, <1>2, <2>1
  <1>5. Has(q, op, c) <=> Has(Tail(q), op, c) \/ (Head(q)[1] = op /\ Head(q)[2] = c)
    <2>1. 1 \in DOMAIN q
      BY <1>2
    <2>2. Has(Tail(q), op, c) => Has(q, op, c)
      BY ONLY <1>3 DEF Has
    <2>3. Head(q)[1] = op /\ Head(q)[2] = c => Has(q, op, c)
      BY ONLY <1>2, <2>1 DEF Has
    <2>4. ASSUME Has(q, op, c) PROVE Has(Tail(q), op, c) \/ (Head(q)[1] = op /\ Head(q)[2] = c)
      <3>1. PICK i \in DOMAIN q : q[i][1] = op /\ q[i][2] = c
        BY <2>4 DEF Has
      <3>2. CASE i = 1
        BY <1>2, <3>1, <3>2
      <3>3. CASE i - 1 \in DOMAIN Tail(q) /\ Tail(q)[i - 1] = q[i]
        BY <3>1, <3>3 DEF Has
      <3> QED BY <1>4, <3>2, <3>3
    <2> QED BY <2>2, <2>3, <2>4
  <1>6. Single(q, op, c) => Single(Tail(q), op, c)
    <2> SUFFICES ASSUME Single(q, op, c), NEW i \in DOMAIN Tail(q), NEW j \in DOMAIN Tail(q),
                        Tail(q)[i][1] = op, Tail(q)[i][2] = c, Tail(q)[j][1] = op, Tail(q)[j][2] = c
                 PROVE  i = j
      BY DEF Single
    <2>1. i + 1 = j + 1
      BY <1>3 DEF Single
    <2> QED BY <1>2, <2>1
  <1>7. Single(q, op, c) /\ Head(q)[1] = op /\ Head(q)[2] = c => ~ Has(Tail(q), op, c)
    <2>1. 1 \in DOMAIN q
      BY <1>2
    <2> QED BY ONLY <1>2, <1>3, <2>1 DEF Has, Single
  <1>8. \A n : Carry(q, op, c, n) => Carry(Tail(q), op, c, n)
    BY ONLY <1>3 DEF Carry
  <1> QED BY <1>1, <1>5, <1>6, <1>7, <1>8

LEMMA AtEnd ==
    ASSUME NEW S, NEW q \in Seq(S), NEW g \in S, NEW op, NEW c
    PROVE  /\ q \o <<g>> \in Seq(S)
           /\ Has(q \o <<g>>, op, c) <=> Has(q, op, c) \/ (g[1] = op /\ g[2] = c)
           /\ Single(q, op, c) /\ (g[1] = op /\ g[2] = c => ~ Has(q, op, c)) => Single(q \o <<g>>, op, c)
           /\ \A n : Carry(q, op, c, n) /\ (g[1] = op /\ g[2] = c => g[3] = n)
                        => Carry(q \o <<g>>, op, c, n)
  <1> DEFINE r == q \o <<g>>
  <1>1. <<g>> \in Seq(S) /\ Len(<<g>>) = 1 /\ Len(q) \in Nat /\ DOMAIN q = 1..Len(q)
    BY LenProperties
  <1>2. /\ r \in Seq(S) /\ Len(r) = Len(q) + 1
        /\ \A i \in 1..Len(q) + 1 : r[i] = IF i <= Len(q) THEN q[i] ELSE <<g>>[i - Len(q)]
    BY <1>1, ConcatProperties
  <1>3. DOMAIN r = 1..Len(q) + 1
    BY <1>2, LenProperties
  <1>4. \A i \in DOMAIN q : i \in DOMAIN r /\ r[i] = q[i] /\ i # Len(q) + 1
    BY <1>1, <1>2, <1>3
  <1>5. Len(q) + 1 \in DOMAIN r /\ r[Len(q) + 1] = g
    BY <1>1, <1>2, <1>3
  <1>6. \A i \in DOMAIN r : i \in DOMAIN q \/ i = Len(q) + 1
    BY <1>1, <1>3
  <1>7. PICK last : last = Len(q) + 1
    OBVIOUS
  <1> HIDE DEF r
  <1>8. Has(r, op, c) <=> Has(q, op, c) \/ (g[1] = op /\ g[2] = c)
    BY ONLY <1>4, <1>5, <1>6, <1>7 DEF Has
  <1>9. Single(q, op, c) /\ (g[1] = op /\ g[2] = c => ~ Has(q, op, c)) => Single(r, op, c)
    BY ONLY <1>4, <1>5, <1>6, <1>7 DEF Has, Single
  <1>10. \A n : Carry(q, op, c, n) /\ (g[1] = op /\ g[2] = c => g[3] = n) => Carry(r, op, c, n)
    BY ONLY <1>4, <1>5, <1>6, <1>7 DEF Carry
  <1> QED BY <1>2, <1>8, <1>9, <1>10 DEF r

LEMMA ToRunSeq == ASSUME LoopTypeOK, LoopsInv, NEW l \in Loops PROVE ToRun(l) \in Seq(FunctorSet)
  <1>1. /\ functors[l] \in Seq(FunctorSet) /\ pendingFunctors[l] \in Seq(FunctorSet)
        /\ next[l] \in Nat
    BY DEF LoopsInv, LoopTypeOK
  <1>2. SubSeq(functors[l], next[l] + 1, Len(functors[l])) \in Seq(FunctorSet)
    <2>1. Len(functors[l]) \in Nat /\ \A i \in 1..Len(functors[l]) : functors[l][i] \in FunctorSet
      BY <1>1, LenProperties, ElementOfSeq
    <2> QED BY <1>1, <2>1, SubSeqProperties
  <1> QED BY <1>1, <1>2, ConcatProperties DEF ToRun

\* The functor that runs is the head of the queue.
LEMMA RunsHead ==
    ASSUME LoopTypeOK, LoopsInv, NEW l \in Loops, NEW f, Running(l, f), Ran(l)
    PROVE  /\ ToRun(l) # <<>> /\ Head(ToRun(l)) = f /\ f \in FunctorSet
           /\ SubSeq(functors'[l], next'[l] + 1, Len(functors'[l])) \o pendingFunctors[l] = Tail(ToRun(l))
           /\ functors' = functors /\ next'[l] \in Nat /\ next'[l] <= Len(functors[l])
           /\ \A k \in Loops \ {l} : next'[k] = next[k]
           /\ next' \in [Loops -> Nat]
  <1> DEFINE q == functors[l]
             n == next[l]
             u == SubSeq(q, n + 2, Len(q))
             p == pendingFunctors[l]
  <1>1. /\ q \in Seq(FunctorSet) /\ pendingFunctors[l] \in Seq(FunctorSet)
        /\ n \in Nat /\ next \in [Loops -> Nat] /\ n < Len(q) /\ q[n + 1] = f /\ Len(q) \in Nat
        /\ next' = [next EXCEPT ![l] = n + 1] /\ functors' = functors
    BY LenProperties DEF LoopsInv, LoopTypeOK, Running, Ran
  <1>2. n + 1 \in 1..Len(q) /\ Len(q) \in n + 1..Len(q) /\ (n + 1) + 1 = n + 2
    BY <1>1
  <1>3. SubSeq(q, n + 1, Len(q)) = <<f>> \o SubSeq(q, n + 2, Len(q))
    <2> HIDE DEF q, n
    <2>1. SubSeq(q, n + 1, Len(q)) = <<q[n + 1]>> \o SubSeq(q, (n + 1) + 1, Len(q))
      BY <1>1, <1>2, SubSeqRecursiveFirst
    <2> QED BY <1>1, <1>2, <2>1
  <1>4. f \in FunctorSet
    BY <1>1, <1>2, ElementOfSeq
  <1>5. SubSeq(q, n + 2, Len(q)) \in Seq(FunctorSet)
    <2>1. \A i \in n + 2..Len(q) : q[i] \in FunctorSet
      BY <1>1, ElementOfSeq
    <2> QED BY <1>1, <2>1, SubSeqProperties
  <1>6. ToRun(l) = (<<f>> \o u) \o p
    BY <1>3 DEF ToRun
  <1>7. <<f>> \in Seq(FunctorSet) /\ u \in Seq(FunctorSet) /\ p \in Seq(FunctorSet)
    BY <1>1, <1>4, <1>5
  <1>8. ToRun(l) # <<>> /\ Head(ToRun(l)) = f
        /\ Tail(ToRun(l)) = SubSeq(q, n + 2, Len(q)) \o pendingFunctors[l]
    <2> HIDE DEF u, p
    <2>1. (<<f>> \o u) \o p = <<f>> \o (u \o p)
      BY ONLY <1>7, ConcatAssociative
    <2>2. u \o p \in Seq(FunctorSet)
      BY ONLY <1>7, ConcatProperties
    <2>3. ToRun(l) # <<>> /\ Head(ToRun(l)) = f /\ Tail(ToRun(l)) = u \o p
      BY ONLY <1>4, <1>6, <2>1, <2>2, OnFront
    <2> QED BY <2>3 DEF u, p
  <1>9. next'[l] = n + 1 /\ functors'[l] = q
    BY <1>1
  <1>10. SubSeq(functors'[l], next'[l] + 1, Len(functors'[l])) \o pendingFunctors[l] = Tail(ToRun(l))
    BY <1>1, <1>2, <1>8, <1>9
  <1>11. \A k \in Loops \ {l} : next'[k] = next[k]
    BY <1>1
  <1>12. next'[l] \in Nat /\ next'[l] <= Len(functors[l]) /\ next' \in [Loops -> Nat]
    BY <1>1
  <1> QED BY <1>1, <1>4, <1>8, <1>10, <1>11, <1>12

-----------------------------------------------------------------------------
\* What a step does to the queues: a functor for each of out is gone, one for each of
\* in is new, nothing else has changed.
QueueEffect(out, in) ==
    \A k \in Loops, op \in Operations, d \in Channels :
        /\ <<k, op, d>> \in in =>
              Queued(k, op, d)' /\ (Once(k, op, d) /\ ~ Queued(k, op, d) => Once(k, op, d)')
        /\ <<k, op, d>> \notin in =>
              /\ Queued(k, op, d)' => Queued(k, op, d)
              /\ Once(k, op, d) => Once(k, op, d)'
              /\ Carrying(k, op, d, 1) => Carrying(k, op, d, 1)'
        /\ <<k, op, d>> \in out => Queued(k, op, d) /\ (Once(k, op, d) => ~ Queued(k, op, d)')
        /\ <<k, op, d>> \notin out => (Queued(k, op, d) => Queued(k, op, d)')

\* The same for the queue of one loop.
QueueIs(k, q) == ToRun(k)' = q

LEMMA SameQueues ==
    ASSUME \A k \in Loops : QueueIs(k, ToRun(k))
    PROVE  QueueEffect({}, {})
  <1> SUFFICES ASSUME NEW k \in Loops, NEW op \in Operations, NEW d \in Channels
               PROVE  /\ Queued(k, op, d)' <=> Queued(k, op, d)
                      /\ Once(k, op, d)' <=> Once(k, op, d)
                      /\ Carrying(k, op, d, 1)' <=> Carrying(k, op, d, 1)
    BY DEF QueueEffect
  <1> QED BY DEF QueueIs, Queued, Once, Carrying

LEMMA FunctorFields ==
    ASSUME NEW f \in FunctorSet
    PROVE  f[1] \in Operations /\ f[2] \in Channels /\ (f[1] = "sendInLoop" => f[3] \in Nat)
           /\ f = <<f[1], f[2], f[3]>>
  BY DEF FunctorSet, Operations, Lifecycle

LEMMA FunctorIn ==
    ASSUME NEW op, NEW c \in Channels, NEW m,
           (op \in Operations \ {"sendInLoop"} /\ m = NoMessage) \/ (op = "sendInLoop" /\ m \in Nat)
    PROVE  /\ Functor(op, c, m) \in FunctorSet
           /\ Functor(op, c, m)[1] = op /\ Functor(op, c, m)[2] = c /\ Functor(op, c, m)[3] = m
  BY DEF Functor, FunctorSet

LEMMA OneRun ==
    ASSUME LoopTypeOK, LoopsInv, NEW l \in Loops, NEW f \in FunctorSet,
           ToRun(l) # <<>>, Head(ToRun(l)) = f, QueueIs(l, Tail(ToRun(l))),
           \A k \in Loops \ {l} : QueueIs(k, ToRun(k))
    PROVE  QueueEffect({<<l, f[1], f[2]>>}, {})
  <1>1. ToRun(l) \in Seq(FunctorSet)
    BY ToRunSeq
  <1> SUFFICES ASSUME NEW k \in Loops, NEW op \in Operations, NEW d \in Channels
               PROVE  /\ Queued(k, op, d)' => Queued(k, op, d)
                      /\ Once(k, op, d) => Once(k, op, d)'
                      /\ Carrying(k, op, d, 1) => Carrying(k, op, d, 1)'
                      /\ <<k, op, d>> = <<l, f[1], f[2]>> =>
                            Queued(k, op, d) /\ (Once(k, op, d) => ~ Queued(k, op, d)')
                      /\ <<k, op, d>> # <<l, f[1], f[2]>> => (Queued(k, op, d) => Queued(k, op, d)')
    BY DEF QueueEffect
  <1>2. CASE k # l
    BY <1>2 DEF QueueIs, Queued, Once, Carrying
  <1>3. CASE k = l
    <2>1. /\ Has(ToRun(l), op, d) <=> Has(Tail(ToRun(l)), op, d) \/ (f[1] = op /\ f[2] = d)
          /\ Single(ToRun(l), op, d) => Single(Tail(ToRun(l)), op, d)
          /\ Single(ToRun(l), op, d) /\ f[1] = op /\ f[2] = d => ~ Has(Tail(ToRun(l)), op, d)
          /\ Carry(ToRun(l), op, d, 1) => Carry(Tail(ToRun(l)), op, d, 1)
      BY <1>1, FromFront
    <2> QED BY <1>3, <2>1 DEF QueueIs, Queued, Once, Carrying
  <1> QED BY <1>2, <1>3

LEMMA OneQueued ==
    ASSUME LoopTypeOK, LoopsInv, NEW l \in Loops, NEW g \in FunctorSet,
           QueueIs(l, ToRun(l) \o <<g>>), \A k \in Loops \ {l} : QueueIs(k, ToRun(k))
    PROVE  /\ QueueEffect({}, {<<l, g[1], g[2]>>})
           /\ g[3] = 1 /\ Carrying(l, g[1], g[2], 1) => Carrying(l, g[1], g[2], 1)'
  <1>1. ToRun(l) \in Seq(FunctorSet)
    BY ToRunSeq
  <1>2. ASSUME NEW k \in Loops, NEW op \in Operations, NEW d \in Channels
        PROVE  /\ Queued(k, op, d)' <=> Queued(k, op, d) \/ <<k, op, d>> = <<l, g[1], g[2]>>
               /\ <<k, op, d>> # <<l, g[1], g[2]>> \/ ~ Queued(k, op, d) => (Once(k, op, d) => Once(k, op, d)')
               /\ <<k, op, d>> # <<l, g[1], g[2]>> \/ g[3] = 1 =>
                     (Carrying(k, op, d, 1) => Carrying(k, op, d, 1)')
    <2>1. CASE k # l
      BY <2>1 DEF QueueIs, Queued, Once, Carrying
    <2>2. CASE k = l
      <3>1. /\ Has(ToRun(l) \o <<g>>, op, d) <=> Has(ToRun(l), op, d) \/ (g[1] = op /\ g[2] = d)
            /\ Single(ToRun(l), op, d) /\ (g[1] = op /\ g[2] = d => ~ Has(ToRun(l), op, d))
                  => Single(ToRun(l) \o <<g>>, op, d)
            /\ Carry(ToRun(l), op, d, 1) /\ (g[1] = op /\ g[2] = d => g[3] = 1)
                  => Carry(ToRun(l) \o <<g>>, op, d, 1)
        BY <1>1, AtEnd
      <3> QED BY <2>2, <3>1 DEF QueueIs, Queued, Once, Carrying
    <2> QED BY <2>1, <2>2
  <1>3. QueueEffect({}, {<<l, g[1], g[2]>>})
    BY <1>2 DEF QueueEffect
  <1>4. g[1] \in Operations /\ g[2] \in Channels
    BY FunctorFields
  <1> QED BY <1>2, <1>3, <1>4

\* A functor runs and queues another one, on its own loop or on another.
LEMMA RunAndQueued ==
    ASSUME LoopTypeOK, LoopsInv, NEW l \in Loops, NEW f \in FunctorSet, NEW to \in Loops, NEW g \in FunctorSet,
           ToRun(l) # <<>>, Head(ToRun(l)) = f, <<l, f[1], f[2]>> # <<to, g[1], g[2]>>,
           \A k \in Loops : QueueIs(k, (IF k = l THEN Tail(ToRun(k)) ELSE ToRun(k))
                                          \o (IF k = to THEN <<g>> ELSE <<>>))
    PROVE  QueueEffect({<<l, f[1], f[2]>>}, {<<to, g[1], g[2]>>})
  <1>1. ASSUME NEW k \in Loops, NEW op \in Operations, NEW d \in Channels
        PROVE  /\ Queued(k, op, d)' => Queued(k, op, d) \/ <<k, op, d>> = <<to, g[1], g[2]>>
               /\ <<k, op, d>> = <<to, g[1], g[2]>> => Queued(k, op, d)'
               /\ Queued(k, op, d) => Queued(k, op, d)' \/ <<k, op, d>> = <<l, f[1], f[2]>>
               /\ <<k, op, d>> = <<l, f[1], f[2]>> =>
                     Queued(k, op, d) /\ (Once(k, op, d) => ~ Queued(k, op, d)')
               /\ <<k, op, d>> # <<to, g[1], g[2]>> \/ ~ Queued(k, op, d) => (Once(k, op, d) => Once(k, op, d)')
               /\ <<k, op, d>> # <<to, g[1], g[2]>> => (Carrying(k, op, d, 1) => Carrying(k, op, d, 1)')
    <2> DEFINE q == ToRun(k)
               r == IF k = l THEN Tail(q) ELSE q
               s == IF k = to THEN r \o <<g>> ELSE r
    <2>1. q \in Seq(FunctorSet)
      BY ToRunSeq
    <2>2. /\ r \in Seq(FunctorSet)
          /\ Has(q, op, d) <=> Has(r, op, d) \/ (k = l /\ f[1] = op /\ f[2] = d)
          /\ Single(q, op, d) => Single(r, op, d)
          /\ Single(q, op, d) /\ k = l /\ f[1] = op /\ f[2] = d => ~ Has(r, op, d)
          /\ Carry(q, op, d, 1) => Carry(r, op, d, 1)
      BY <2>1, FromFront
    <2>3. ToRun(k)' = s
      <3>1. r \o <<>> = r
        BY <2>2, ConcatEmptySeq
      <3> QED BY <3>1 DEF QueueIs
    <2>4. /\ Has(s, op, d) <=> Has(r, op, d) \/ (k = to /\ g[1] = op /\ g[2] = d)
          /\ Single(r, op, d) /\ (k = to /\ g[1] = op /\ g[2] = d => ~ Has(r, op, d)) => Single(s, op, d)
          /\ Carry(r, op, d, 1) /\ ~ (k = to /\ g[1] = op /\ g[2] = d) => Carry(s, op, d, 1)
      <3> HIDE DEF r
      <3>1. CASE k # to
        BY <3>1
      <3>2. CASE k = to
        BY <2>2, <3>2, AtEnd
      <3> QED BY <3>1, <3>2
    <2> HIDE DEF r, s
    <2>5. /\ Queued(k, op, d)' <=> Has(s, op, d)
          /\ Once(k, op, d)' <=> Single(s, op, d)
          /\ Carrying(k, op, d, 1)' <=> Carry(s, op, d, 1)
      BY <2>3 DEF Queued, Once, Carrying
    <2>6. /\ Queued(k, op, d) <=> Has(q, op, d)
          /\ Once(k, op, d) <=> Single(q, op, d)
          /\ Carrying(k, op, d, 1) <=> Carry(q, op, d, 1)
      BY DEF Queued, Once, Carrying
    <2>7. <<k, op, d>> = <<to, g[1], g[2]>> <=> (k = to /\ g[1] = op /\ g[2] = d)
      OBVIOUS
    <2>8. <<k, op, d>> = <<l, f[1], f[2]>> <=> (k = l /\ f[1] = op /\ f[2] = d)
      OBVIOUS
    <2>9. ~ (<<k, op, d>> = <<l, f[1], f[2]>> /\ <<k, op, d>> = <<to, g[1], g[2]>>)
      OBVIOUS
    <2> QED BY ONLY <2>2, <2>4, <2>5, <2>6, <2>7, <2>8, <2>9
  <1> QED BY <1>1 DEF QueueEffect

LEMMA RunOnly ==
    ASSUME LoopTypeOK, LoopsInv, NEW l \in Loops, NEW f, Running(l, f), Ran(l), UNCHANGED pendingFunctors
    PROVE  QueueEffect({<<l, f[1], f[2]>>}, {}) /\ f \in FunctorSet
  <1>1. /\ ToRun(l) # <<>> /\ Head(ToRun(l)) = f /\ f \in FunctorSet
        /\ SubSeq(functors'[l], next'[l] + 1, Len(functors'[l])) \o pendingFunctors[l] = Tail(ToRun(l))
        /\ functors' = functors /\ \A k \in Loops \ {l} : next'[k] = next[k]
    BY RunsHead
  <1>2. QueueIs(l, Tail(ToRun(l)))
    BY <1>1 DEF QueueIs, ToRun
  <1>3. \A k \in Loops \ {l} : QueueIs(k, ToRun(k))
    BY <1>1 DEF QueueIs, ToRun
  <1> QED BY <1>1, <1>2, <1>3, OneRun

LEMMA Joined ==
    ASSUME LoopTypeOK, LoopsInv, NEW l \in Loops, NEW g \in FunctorSet,
           NEW u \in Seq(FunctorSet)
    PROVE  u \o (pendingFunctors[l] \o <<g>>) = (u \o pendingFunctors[l]) \o <<g>>
  <1>1. pendingFunctors[l] \in Seq(FunctorSet) /\ <<g>> \in Seq(FunctorSet)
    BY DEF LoopsInv
  <1> DEFINE p == pendingFunctors[l]
             h == <<g>>
  <1>2. p \in Seq(FunctorSet) /\ h \in Seq(FunctorSet)
    BY <1>1
  <1> HIDE DEF p, h
  <1>3. u \o (p \o h) = (u \o p) \o h
    BY ONLY <1>2, u \in Seq(FunctorSet), ConcatAssociative
  <1> QED BY <1>3 DEF p, h

LEMMA Untaken ==
    ASSUME LoopTypeOK, LoopsInv, NEW l \in Loops, NEW n \in Nat
    PROVE  SubSeq(functors[l], n + 1, Len(functors[l])) \in Seq(FunctorSet)
  <1>1. functors[l] \in Seq(FunctorSet)
    BY DEF LoopsInv
  <1>2. Len(functors[l]) \in Nat /\ \A i \in 1..Len(functors[l]) : functors[l][i] \in FunctorSet
    BY <1>1, LenProperties, ElementOfSeq
  <1> QED BY <1>1, <1>2, SubSeqProperties

LEMMA QueueOnly ==
    ASSUME LoopTypeOK, LoopsInv, NEW t, NEW to \in Loops, NEW g \in FunctorSet,
           QueueInLoop(t, to, <<g>>), UNCHANGED <<functors, next>>
    PROVE  /\ QueueEffect({}, {<<to, g[1], g[2]>>})
           /\ g[3] = 1 /\ Carrying(to, g[1], g[2], 1) => Carrying(to, g[1], g[2], 1)'
  <1>1. /\ pendingFunctors'[to] = pendingFunctors[to] \o <<g>>
        /\ \A k \in Loops \ {to} : pendingFunctors'[k] = pendingFunctors[k]
    BY DEF QueueInLoop, LoopsInv
  <1>2. next[to] \in Nat
    BY DEF LoopTypeOK
  <1>3. QueueIs(to, ToRun(to) \o <<g>>)
    BY <1>1, <1>2, Joined, Untaken DEF QueueIs, ToRun
  <1>4. \A k \in Loops \ {to} : QueueIs(k, ToRun(k))
    BY <1>1 DEF QueueIs, ToRun
  <1> QED BY <1>3, <1>4, OneQueued

LEMMA RunAndQueue ==
    ASSUME LoopTypeOK, LoopsInv, NEW l \in Loops, NEW f, Running(l, f), Ran(l),
           NEW to \in Loops, NEW g \in FunctorSet, QueueInLoop(l, to, <<g>>),
           <<l, f[1], f[2]>> # <<to, g[1], g[2]>>
    PROVE  QueueEffect({<<l, f[1], f[2]>>}, {<<to, g[1], g[2]>>}) /\ f \in FunctorSet
  <1>1. /\ ToRun(l) # <<>> /\ Head(ToRun(l)) = f /\ f \in FunctorSet
        /\ SubSeq(functors'[l], next'[l] + 1, Len(functors'[l])) \o pendingFunctors[l] = Tail(ToRun(l))
        /\ functors' = functors /\ next'[l] \in Nat /\ \A k \in Loops \ {l} : next'[k] = next[k]
    BY RunsHead
  <1>2. /\ pendingFunctors'[to] = pendingFunctors[to] \o <<g>>
        /\ \A k \in Loops \ {to} : pendingFunctors'[k] = pendingFunctors[k]
    BY DEF QueueInLoop, LoopsInv
  <1>3. ASSUME NEW k \in Loops
        PROVE  QueueIs(k, (IF k = l THEN Tail(ToRun(k)) ELSE ToRun(k)) \o (IF k = to THEN <<g>> ELSE <<>>))
    <2> DEFINE u == SubSeq(functors'[k], next'[k] + 1, Len(functors'[k]))
               r == IF k = l THEN Tail(ToRun(k)) ELSE ToRun(k)
    <2>1. next'[k] \in Nat
      BY <1>1 DEF LoopTypeOK
    <2>2. u \in Seq(FunctorSet)
      BY <1>1, <2>1, Untaken
    <2>3. u \o pendingFunctors[k] = r
      BY <1>1 DEF ToRun
    <2>4. pendingFunctors[k] \in Seq(FunctorSet)
      BY DEF LoopsInv
    <2>5. ToRun(k)' = u \o pendingFunctors'[k]
      BY DEF ToRun
    <2> HIDE DEF u, r
    <2>6. CASE k = to
      BY <1>2, <2>2, <2>3, <2>5, <2>6, Joined DEF QueueIs, r
    <2>7. CASE k # to
      <3>1. r \o <<>> = r
        <4>1. r \in Seq(FunctorSet)
          BY <2>2, <2>3, <2>4, ConcatProperties
        <4> QED BY <4>1, ConcatEmptySeq
      <3>2. pendingFunctors'[k] = pendingFunctors[k]
        BY <1>2, <2>7
      <3> QED BY <2>3, <2>5, <2>7, <3>1, <3>2 DEF QueueIs, r
    <2> QED BY <2>6, <2>7
  <1> QED BY <1>1, <1>3, RunAndQueued

LEMMA QueuesKept ==
    ASSUME LoopTypeOK, LoopsInv, NEW l \in Loops,
           \/ UNCHANGED <<pendingFunctors, functors, next>>
           \/ TakeFunctors(l)
           \/ FunctorsDone(l)
    PROVE  QueueEffect({}, {})
  <1>1. CASE UNCHANGED <<pendingFunctors, functors, next>>
    BY <1>1, SameQueues DEF QueueIs, ToRun
  <1>2. CASE TakeFunctors(l)
    <2>1. ASSUME NEW k \in Loops PROVE ToRun(k)' = ToRun(k)
      <3>1. CASE k # l
        BY <1>2, <3>1 DEF TakeFunctors, ToRun, LoopsInv
      <3>2. CASE k = l
        <4>1. /\ phase[l] = "events" /\ functors[l] = <<>> /\ next[l] = 0
              /\ pendingFunctors[l] \in Seq(FunctorSet) /\ pendingFunctors'[l] = <<>>
              /\ functors'[l] = pendingFunctors[l] /\ next'[l] = 0
          BY <1>2 DEF TakeFunctors, LoopsInv
        <4>2. ToRun(l) = pendingFunctors[l]
          <5>1. SubSeq(<<>>, 0 + 1, Len(<<>>)) = <<>>
            BY SubSeqEmpty, EmptySeq
          <5> QED BY <4>1, <5>1, ConcatEmptySeq DEF ToRun
        <4>3. ToRun(l)' = pendingFunctors[l]
          <5>1. SubSeq(pendingFunctors[l], 0 + 1, Len(pendingFunctors[l])) = pendingFunctors[l]
            BY <4>1, SubSeqFull
          <5> QED BY <4>1, <5>1, ConcatEmptySeq DEF ToRun
        <4> QED BY <3>2, <4>2, <4>3
      <3> QED BY <3>1, <3>2
    <2> QED BY <2>1, SameQueues DEF QueueIs
  <1>3. CASE FunctorsDone(l)
    <2>1. ASSUME NEW k \in Loops PROVE ToRun(k)' = ToRun(k)
      <3>1. CASE k # l
        <4>1. functors'[k] = functors[k] /\ next'[k] = next[k] /\ pendingFunctors' = pendingFunctors
          BY <1>3, <3>1 DEF FunctorsDone, LoopsInv, LoopTypeOK
        <4> QED BY <4>1 DEF ToRun
      <3>2. CASE k = l
        <4>1. /\ next[l] = Len(functors[l]) /\ functors[l] \in Seq(FunctorSet)
              /\ pendingFunctors' = pendingFunctors /\ functors'[l] = <<>> /\ next'[l] = 0 /\ next[l] \in Nat
          BY <1>3 DEF FunctorsDone, LoopsInv, LoopTypeOK
        <4>2. SubSeq(functors[l], next[l] + 1, Len(functors[l])) = <<>>
          BY <4>1, SubSeqEmpty
        <4>3. SubSeq(functors'[l], next'[l] + 1, Len(functors'[l])) = <<>>
          BY <4>1, SubSeqEmpty, EmptySeq
        <4> QED BY <3>2, <4>1, <4>2, <4>3 DEF ToRun
      <3> QED BY <3>1, <3>2
    <2> QED BY <2>1, SameQueues DEF QueueIs
  <1> QED BY <1>1, <1>2, <1>3

-----------------------------------------------------------------------------
\* What loops do, whatever the channel and the functor: types, and no lost wakeup.
ThreadTypes ==
    /\ phase \in [Loops -> {"poll", "events", "functors"}]
    /\ active \in [Loops -> Seq((Channels \cup {Wakeup, Acceptor}) \X SUBSET Revents)]
    /\ wakeupFd \in [Loops -> BOOLEAN]
    /\ next \in [Loops -> Nat]
    /\ \A l \in Loops : next[l] <= Len(functors[l])
ThreadsInv == ThreadTypes /\ LoopsInv

EventSet == (Channels \cup {Wakeup, Acceptor}) \X SUBSET Revents

\* Nothing is queued, or one functor by t.
Passes(t) ==
    \/ UNCHANGED <<pendingFunctors, wakeupFd>>
    \/ \E k \in Loops, g \in FunctorSet : QueueInLoop(t, k, <<g>>)

Handles(l, r) ==
    /\ phase[l] = "events" /\ active[l] # <<>> /\ r \in Head(active[l])[2]
    /\ Handled(l, r)
    /\ UNCHANGED <<phase, functors, next>>

LEMMA PassesKeeps ==
    ASSUME ThreadsInv, NEW t, Passes(t), UNCHANGED <<functors>>, next' \in [Loops -> Nat],
           \A l \in Loops : /\ next'[l] <= Len(functors[l])
                            /\ phase[l] # "functors" => next'[l] = next[l]
                            /\ phase[l] = phase'[l] /\ (phase[l] # "events" => active'[l] = active[l]),
           t \in Loops => phase[t] # "poll",
           phase' \in [Loops -> {"poll", "events", "functors"}],
           active' \in [Loops -> Seq((Channels \cup {Wakeup, Acceptor}) \X SUBSET Revents)]
    PROVE  ThreadsInv'
  <1>1. /\ pendingFunctors' \in [Loops -> Seq(FunctorSet)] /\ wakeupFd' \in [Loops -> BOOLEAN]
        /\ \A l \in Loops : phase[l] # "events" =>
              (pendingFunctors'[l] # <<>> => wakeupFd'[l])
    <2>1. CASE UNCHANGED <<pendingFunctors, wakeupFd>>
      BY <2>1 DEF ThreadsInv, ThreadTypes, LoopsInv
    <2>2. CASE \E k \in Loops, g \in FunctorSet : QueueInLoop(t, k, <<g>>)
      <3>1. PICK k \in Loops, g \in FunctorSet : QueueInLoop(t, k, <<g>>)
        BY <2>2
      <3>2. /\ pendingFunctors' = [pendingFunctors EXCEPT ![k] = @ \o <<g>>]
            /\ wakeupFd' = [wakeupFd EXCEPT ![k] = @ \/ (<<g>> # <<>> /\ (t # k \/ phase[k] = "functors"))]
        BY <3>1 DEF QueueInLoop
      <3>3. pendingFunctors[k] \o <<g>> \in Seq(FunctorSet)
        <4>1. pendingFunctors[k] \in Seq(FunctorSet) /\ <<g>> \in Seq(FunctorSet)
          BY DEF ThreadsInv, LoopsInv
        <4> QED BY <4>1, ConcatProperties
      <3>4. pendingFunctors' \in [Loops -> Seq(FunctorSet)]
        BY <3>2, <3>3 DEF ThreadsInv, LoopsInv
      <3>5. phase[k] # "events" => (t # k \/ phase[k] = "functors")
        BY DEF ThreadsInv, ThreadTypes
      <3>6. <<g>> # <<>>
        OBVIOUS
      <3>7. wakeupFd' \in [Loops -> BOOLEAN]
        BY <3>2, <3>6 DEF ThreadsInv, ThreadTypes
      <3>8. \A l \in Loops : phase[l] # "events" => (pendingFunctors'[l] # <<>> => wakeupFd'[l])
        <4> SUFFICES ASSUME NEW l \in Loops, phase[l] # "events", pendingFunctors'[l] # <<>> PROVE wakeupFd'[l]
          OBVIOUS
        <4>1. CASE l = k
          BY <3>2, <3>5, <3>6, <4>1 DEF ThreadsInv, ThreadTypes
        <4>2. CASE l # k
          BY <3>2, <4>2 DEF ThreadsInv, ThreadTypes, LoopsInv
        <4> QED BY <4>1, <4>2
      <3> QED BY <3>4, <3>7, <3>8
    <2> QED BY <2>1, <2>2 DEF Passes
  <1>2. ThreadTypes'
    BY <1>1 DEF ThreadTypes
  <1>3. LoopsInv'
    BY <1>1 DEF ThreadsInv, LoopsInv
  <1> QED BY <1>2, <1>3 DEF ThreadsInv

LEMMA HandledEvents ==
    ASSUME ThreadsInv, NEW l \in Loops, NEW r, Handles(l, r)
    PROVE  /\ active' \in [Loops -> Seq(EventSet)]
           /\ \A k \in Loops \ {l} : active'[k] = active[k]
           /\ LET q == active[l]
                  e == <<q[1][1], q[1][2] \ {r}>>
              IN  /\ 1 \in DOMAIN q /\ r \in q[1][2] /\ q[1] = Head(q) /\ q[1] \in EventSet
                  /\ \/ active'[l] = Tail(q)
                     \/ active'[l] = <<e>> \o Tail(q) /\ e \in EventSet /\ e[2] # {}
  <1> DEFINE q == active[l]
             e == <<q[1][1], q[1][2] \ {r}>>
  <1>1. active \in [Loops -> Seq(EventSet)] /\ q \in Seq(EventSet) /\ q # <<>> /\ r \in Head(q)[2]
    BY DEF ThreadsInv, ThreadTypes, Handles, EventSet
  <1>2. 1 \in DOMAIN q /\ q[1] = Head(q) /\ Head(q) \in EventSet /\ Tail(q) \in Seq(EventSet)
    BY <1>1, HeadTailProperties, EmptySeq, LenProperties
  <1>3. e \in EventSet
    BY <1>2 DEF EventSet
  <1>4. <<e>> \o Tail(q) \in Seq(EventSet)
    <2> HIDE DEF e
    <2> QED BY <1>2, <1>3, OnFront
  <1>5. active' = [active EXCEPT ![l] = IF e[2] = {} THEN Tail(q) ELSE <<e>> \o Tail(q)]
    BY <1>2 DEF Handles, Handled
  <1>6. \/ active'[l] = Tail(q)
        \/ active'[l] = <<e>> \o Tail(q) /\ e \in EventSet /\ e[2] # {}
    <2> HIDE DEF e
    <2> QED BY <1>1, <1>3, <1>5
  <1>7. active' \in [Loops -> Seq(EventSet)] /\ \A k \in Loops \ {l} : active'[k] = active[k]
    <2> HIDE DEF e
    <2> QED BY <1>1, <1>2, <1>4, <1>5
  <1> QED BY <1>1, <1>2, <1>6, <1>7

LEMMA HandlesKeeps ==
    ASSUME ThreadsInv, NEW l \in Loops, NEW r, Handles(l, r), Passes(l)
    PROVE  ThreadsInv'
  <1>1. /\ active' \in [Loops -> Seq(EventSet)] /\ \A k \in Loops \ {l} : active'[k] = active[k]
    BY HandledEvents
  <1>2. phase[l] = "events" /\ UNCHANGED <<phase, functors, next>>
    BY DEF Handles
  <1>3. /\ \A k \in Loops : next[k] <= Len(functors[k])
        /\ next \in [Loops -> Nat] /\ phase \in [Loops -> {"poll", "events", "functors"}]
    BY DEF ThreadsInv, ThreadTypes
  <1> QED BY <1>1, <1>2, <1>3, PassesKeeps DEF EventSet

LEMMA RunsKeeps ==
    ASSUME ThreadsInv, LoopTypeOK, NEW l \in Loops, NEW f, Running(l, f), Ran(l), Passes(l)
    PROVE  ThreadsInv'
  <1>1. /\ functors' = functors /\ next'[l] \in Nat /\ next'[l] <= Len(functors[l])
        /\ \A k \in Loops \ {l} : next'[k] = next[k]
        /\ next' \in [Loops -> Nat]
    BY RunsHead DEF ThreadsInv
  <1>2. phase[l] = "functors" /\ UNCHANGED <<phase, active>>
    BY DEF Running, Ran
  <1>3. /\ \A k \in Loops : next[k] <= Len(functors[k])
        /\ active \in [Loops -> Seq((Channels \cup {Wakeup, Acceptor}) \X SUBSET Revents)]
        /\ phase \in [Loops -> {"poll", "events", "functors"}]
    BY DEF ThreadsInv, ThreadTypes
  <1>4. \A k \in Loops : next'[k] <= Len(functors[k]) /\ (phase[k] # "functors" => next'[k] = next[k])
    BY <1>1, <1>2, <1>3
  <1> QED BY <1>1, <1>2, <1>3, <1>4, PassesKeeps

LEMMA QueuesKeeps ==
    ASSUME ThreadsInv, NEW t, t \notin Loops, Passes(t), UNCHANGED <<phase, active, functors, next>>
    PROVE  ThreadsInv'
  <1>1. ThreadTypes
    BY DEF ThreadsInv
  <1> QED BY <1>1, PassesKeeps DEF ThreadTypes

\* poll() returns each of the ready channels once.
LEMMA Polled ==
    ASSUME ThreadsInv, NEW l \in Loops, NEW ready, Poll(l, ready), IsFiniteSet(ready),
           ready \subseteq (Channels \cup {Acceptor}) \X SUBSET Revents
    PROVE  /\ active' \in [Loops -> Seq(EventSet)]
           /\ \A k \in Loops \ {l} : active'[k] = active[k]
           /\ \A i \in DOMAIN active'[l] : active'[l][i] \in ready \cup {<<Wakeup, {"IN"}>>}
           /\ \A i, j \in DOMAIN active'[l] : active'[l][i] = active'[l][j] => i = j
  <1> DEFINE woken == IF wakeupFd[l] THEN {<<Wakeup, {"IN"}>>} ELSE {}
             all == ready \cup woken
  <1>1. PICK order \in SetToSeqs(all) : active' = [active EXCEPT ![l] = order]
    BY DEF Poll
  <1>2. IsFiniteSet(all) /\ all \subseteq EventSet /\ all \subseteq ready \cup {<<Wakeup, {"IN"}>>}
    <2>1. IsFiniteSet(woken)
      BY FS_EmptySet, FS_Singleton
    <2>2. <<Wakeup, {"IN"}>> \in EventSet
      <3>1. {"IN"} \subseteq Revents
        <4>1. CallbackOrder[3] = "IN" /\ 3 \in DOMAIN CallbackOrder
          BY DEF CallbackOrder
        <4> QED BY <4>1 DEF Revents
      <3> QED BY <3>1 DEF EventSet
    <2>3. ready \subseteq EventSet
      BY DEF EventSet
    <2> QED BY <2>1, <2>2, <2>3, FS_Union
  <1> HIDE DEF all
  <1>3. Cardinality(all) \in Nat
    BY <1>2, FS_CardinalityType
  <1>4. /\ order \in [1..Cardinality(all) -> all]
        /\ \A i, j \in 1..Cardinality(all) : i # j => order[i] # order[j]
    BY DEF SetToSeqs
  <1>5. order \in Seq(EventSet)
    <2>1. order \in [1..Cardinality(all) -> EventSet]
      BY <1>2, <1>4
    <2> QED BY <1>3, <2>1
  <1>6. active \in [Loops -> Seq(EventSet)]
    BY DEF ThreadsInv, ThreadTypes, EventSet
  <1>7. active'[l] = order /\ active' \in [Loops -> Seq(EventSet)] /\ \A k \in Loops \ {l} : active'[k] = active[k]
    BY <1>1, <1>5, <1>6
  <1>8. DOMAIN order = 1..Cardinality(all)
    BY <1>4
  <1>9. \A i \in DOMAIN order : order[i] \in ready \cup {<<Wakeup, {"IN"}>>}
    BY <1>2, <1>4, <1>8
  <1> QED BY <1>4, <1>7, <1>8, <1>9

LEMMA PollKeeps ==
    ASSUME ThreadsInv, NEW l \in Loops, NEW ready, Poll(l, ready), IsFiniteSet(ready),
           ready \subseteq (Channels \cup {Acceptor}) \X SUBSET Revents
    PROVE  ThreadsInv'
  <1>1. /\ active' \in [Loops -> Seq(EventSet)] /\ \A k \in Loops \ {l} : active'[k] = active[k]
    BY Polled
  <1>2. /\ phase[l] = "poll" /\ phase' = [phase EXCEPT ![l] = "events"]
        /\ UNCHANGED <<pendingFunctors, functors, next, wakeupFd>>
    BY DEF Poll
  <1>3. ThreadTypes'
    BY <1>1, <1>2 DEF ThreadsInv, ThreadTypes, EventSet
  <1>4. \A k \in Loops : phase'[k] = IF k = l THEN "events" ELSE phase[k]
    BY <1>2 DEF ThreadsInv, ThreadTypes
  <1>5. LoopsInv'
    BY <1>1, <1>2, <1>4 DEF ThreadsInv, LoopsInv
  <1> QED BY <1>3, <1>5 DEF ThreadsInv

LEMMA LoopStepKeeps ==
    ASSUME ThreadsInv, NEW l \in Loops, LoopStep(l)
    PROVE  ThreadsInv'
  <1>1. CASE HandleWakeup(l)
    <2>1. Handles(l, "IN")
      BY <1>1 DEF HandleWakeup, Handling, Handles
    <2>2. /\ active' \in [Loops -> Seq(EventSet)] /\ \A k \in Loops \ {l} : active'[k] = active[k]
      BY <2>1, HandledEvents
    <2>3. /\ phase[l] = "events" /\ UNCHANGED <<phase, pendingFunctors, functors, next>>
          /\ wakeupFd' = [wakeupFd EXCEPT ![l] = FALSE]
      BY <1>1 DEF HandleWakeup, Handling
    <2>4. ThreadTypes'
      BY <2>2, <2>3 DEF ThreadsInv, ThreadTypes, EventSet
    <2>5. \A k \in Loops \ {l} : wakeupFd'[k] = wakeupFd[k]
      BY <2>3 DEF ThreadsInv, ThreadTypes
    <2>6. LoopsInv'
      BY <2>2, <2>3, <2>5 DEF ThreadsInv, LoopsInv
    <2> QED BY <2>4, <2>6 DEF ThreadsInv
  <1>2. CASE TakeFunctors(l)
    <2>1. /\ phase[l] = "events" /\ active[l] = <<>> /\ UNCHANGED <<active, next, wakeupFd>>
          /\ functors' = [functors EXCEPT ![l] = pendingFunctors[l]]
          /\ pendingFunctors' = [pendingFunctors EXCEPT ![l] = <<>>]
          /\ phase' = [phase EXCEPT ![l] = IF pendingFunctors[l] = <<>> THEN "poll" ELSE "functors"]
      BY <1>2 DEF TakeFunctors
    <2>2. /\ functors' \in [Loops -> Seq(FunctorSet)] /\ pendingFunctors' \in [Loops -> Seq(FunctorSet)]
          /\ phase' \in [Loops -> {"poll", "events", "functors"}]
      BY <2>1 DEF ThreadsInv, ThreadTypes, LoopsInv
    <2>3. /\ functors'[l] = pendingFunctors[l] /\ pendingFunctors'[l] = <<>>
          /\ phase'[l] = IF pendingFunctors[l] = <<>> THEN "poll" ELSE "functors"
          /\ \A k \in Loops \ {l} : functors'[k] = functors[k] /\ pendingFunctors'[k] = pendingFunctors[k]
                                    /\ phase'[k] = phase[k]
      BY <2>1 DEF ThreadsInv, ThreadTypes, LoopsInv
    <2>4. next[l] = 0 /\ Len(pendingFunctors[l]) \in Nat
      BY <2>1, LenProperties DEF ThreadsInv, LoopsInv
    <2>5. \A k \in Loops : next'[k] <= Len(functors'[k])
      BY <2>1, <2>3, <2>4 DEF ThreadsInv, ThreadTypes
    <2>6. ThreadTypes'
      BY <2>1, <2>2, <2>5 DEF ThreadsInv, ThreadTypes
    <2>7. LoopsInv'
      BY <2>1, <2>2, <2>3, <2>4 DEF ThreadsInv, LoopsInv
    <2> QED BY <2>6, <2>7 DEF ThreadsInv
  <1>3. CASE FunctorsDone(l)
    <2>1. /\ phase[l] = "functors" /\ UNCHANGED <<active, pendingFunctors, wakeupFd>>
          /\ functors' = [functors EXCEPT ![l] = <<>>] /\ next' = [next EXCEPT ![l] = 0]
          /\ phase' = [phase EXCEPT ![l] = "poll"]
      BY <1>3 DEF FunctorsDone
    <2>2. /\ functors' \in [Loops -> Seq(FunctorSet)] /\ next' \in [Loops -> Nat]
          /\ phase' \in [Loops -> {"poll", "events", "functors"}]
      BY <2>1 DEF ThreadsInv, ThreadTypes, LoopsInv
    <2>3. /\ functors'[l] = <<>> /\ next'[l] = 0 /\ phase'[l] = "poll"
          /\ \A k \in Loops \ {l} : functors'[k] = functors[k] /\ next'[k] = next[k] /\ phase'[k] = phase[k]
      BY <2>1 DEF ThreadsInv, ThreadTypes, LoopsInv
    <2>4. \A k \in Loops : next'[k] <= Len(functors'[k])
      <3>1. Len(functors'[l]) = 0
        BY <2>3, EmptySeq
      <3> TAKE k \in Loops
      <3>2. CASE k = l
        BY <2>3, <3>1, <3>2
      <3>3. CASE k # l
        BY <2>3, <3>3 DEF ThreadsInv, ThreadTypes
      <3> QED BY <3>2, <3>3
    <2>5. ThreadTypes'
      BY <2>1, <2>2, <2>4 DEF ThreadsInv, ThreadTypes
    <2>6. LoopsInv'
      BY <2>1, <2>2, <2>3 DEF ThreadsInv, LoopsInv
    <2> QED BY <2>5, <2>6 DEF ThreadsInv
  <1> QED BY <1>1, <1>2, <1>3 DEF LoopStep

LEMMA StillKeeps == ASSUME ThreadsInv, UNCHANGED loopVars PROVE ThreadsInv'
  BY DEF ThreadsInv, ThreadTypes, LoopsInv, loopVars

-----------------------------------------------------------------------------
\* The steps of connections, seen from the queues.
LEMMA TypesSplit == TypeOK /\ LoopsInv => ThreadsInv /\ LoopTypeOK /\ TcpTypeOK /\ ServerTypeOK
  BY DEF TypeOK, LoopTypeOK, ThreadsInv, ThreadTypes

LEMMA HandlingHandles ==
    ASSUME NEW l, NEW c, NEW r, Handling(l, c, r), Handled(l, r), UNCHANGED <<phase, functors, next>>
    PROVE  Handles(l, r) /\ Head(active[l])[1] = c
  BY DEF Handling, Handles

LEMMA NextLoopIs == ASSUME ServerTypeOK PROVE GetNextLoop \in Loops \ {Base}
  <1>1. IoLoops \in Seq(Loops \ {Base}) /\ IoLoops # <<>>
    BY ServerAssumption
  <1>2. nextLoop + 1 \in 1..Len(IoLoops)
    BY <1>1, EmptySeq DEF ServerTypeOK
  <1> QED BY <1>1, <1>2, ElementOfSeq DEF GetNextLoop

LEMMA NewConnectionQueues ==
    ASSUME TypeOK, LoopsInv, NEW c \in Channels, NewConnection(c)
    PROVE  /\ Handles(Base, "IN") /\ Head(active[Base])[1] = Acceptor /\ Passes(Base)
           /\ QueueEffect({}, {<<GetNextLoop, "connectEstablished", c>>})
  <1> DEFINE g == Functor("connectEstablished", c, NoMessage)
  <1>0. ThreadsInv /\ LoopTypeOK /\ TcpTypeOK /\ ServerTypeOK
    BY TypesSplit
  <1>1. g \in FunctorSet /\ g[1] = "connectEstablished" /\ g[2] = c
    BY FunctorIn DEF Operations, Lifecycle
  <1>2. GetNextLoop \in Loops
    BY <1>0, NextLoopIs
  <1>3. QueueInLoop(Base, GetNextLoop, <<g>>) /\ UNCHANGED <<functors, next>>
    BY DEF NewConnection
  <1>4. Handles(Base, "IN") /\ Head(active[Base])[1] = Acceptor
    BY HandlingHandles DEF NewConnection
  <1> HIDE DEF g
  <1>5. Passes(Base)
    BY <1>1, <1>2, <1>3 DEF Passes
  <1>6. QueueEffect({}, {<<GetNextLoop, g[1], g[2]>>})
    BY <1>0, <1>1, <1>2, <1>3, QueueOnly
  <1> QED BY <1>1, <1>4, <1>5, <1>6

LEMMA RefuseConnectionQueues ==
    ASSUME TypeOK, LoopsInv, NEW c \in Channels, RefuseConnection(c)
    PROVE  Handles(Base, "IN") /\ Head(active[Base])[1] = Acceptor /\ Passes(Base) /\ QueueEffect({}, {})
  <1>0. ThreadsInv /\ LoopTypeOK /\ Base \in Loops
    BY TypesSplit, ServerAssumption
  <1> QED BY <1>0, HandlingHandles, QueuesKept DEF RefuseConnection, Passes

LEMMA CloseConnectionQueues ==
    ASSUME TypeOK, LoopsInv, NEW l \in Loops, NEW c \in Channels, NEW r, Handling(l, c, r), CloseConnection(l, c, r)
    PROVE  /\ Handles(l, r) /\ Head(active[l])[1] = c /\ Passes(l)
           /\ QueueEffect({}, {<<Base, "removeConnection", c>>})
  <1> DEFINE g == Functor("removeConnection", c, NoMessage)
  <1>0. ThreadsInv /\ LoopTypeOK /\ Base \in Loops
    BY TypesSplit, ServerAssumption
  <1>1. g \in FunctorSet /\ g[1] = "removeConnection" /\ g[2] = c
    BY FunctorIn DEF Operations, Lifecycle
  <1>3. QueueInLoop(l, Base, <<g>>) /\ UNCHANGED <<functors, next>>
    BY DEF CloseConnection, RemoveConnection
  <1>4. Handles(l, r) /\ Head(active[l])[1] = c
    BY HandlingHandles DEF CloseConnection
  <1> HIDE DEF g
  <1>5. Passes(l)
    BY <1>0, <1>1, <1>3 DEF Passes
  <1>6. QueueEffect({}, {<<Base, g[1], g[2]>>})
    BY <1>0, <1>1, <1>3, QueueOnly
  <1> QED BY <1>1, <1>4, <1>5, <1>6

LEMMA RunEstablishedQueues ==
    ASSUME TypeOK, LoopsInv, NEW l \in Loops, NEW c \in Channels, RunEstablished(l, c)
    PROVE  /\ Running(l, Functor("connectEstablished", c, NoMessage)) /\ Ran(l) /\ Passes(l)
           /\ QueueEffect({<<l, "connectEstablished", c>>}, {})
  <1>0. ThreadsInv /\ LoopTypeOK
    BY TypesSplit
  <1>1. /\ Running(l, Functor("connectEstablished", c, NoMessage)) /\ Ran(l)
        /\ UNCHANGED <<pendingFunctors, wakeupFd>>
    BY DEF RunEstablished
  <1> QED BY <1>0, <1>1, RunOnly DEF Passes, Functor

LEMMA RunDestroyedQueues ==
    ASSUME TypeOK, LoopsInv, NEW l \in Loops, NEW c \in Channels, RunDestroyed(l, c)
    PROVE  /\ Running(l, Functor("connectDestroyed", c, NoMessage)) /\ Ran(l) /\ Passes(l)
           /\ QueueEffect({<<l, "connectDestroyed", c>>}, {})
  <1>0. ThreadsInv /\ LoopTypeOK
    BY TypesSplit
  <1>1. /\ Running(l, Functor("connectDestroyed", c, NoMessage)) /\ Ran(l)
        /\ UNCHANGED <<pendingFunctors, wakeupFd>>
    BY DEF RunDestroyed
  <1> QED BY <1>0, <1>1, RunOnly DEF Passes, Functor

LEMMA RunWriteCompleteQueues ==
    ASSUME TypeOK, LoopsInv, NEW l \in Loops, NEW c \in Channels, RunWriteComplete(l, c)
    PROVE  /\ Running(l, Functor("writeComplete", c, NoMessage)) /\ Ran(l) /\ Passes(l)
           /\ QueueEffect({<<l, "writeComplete", c>>}, {})
  <1>0. ThreadsInv /\ LoopTypeOK
    BY TypesSplit
  <1>1. /\ Running(l, Functor("writeComplete", c, NoMessage)) /\ Ran(l)
        /\ UNCHANGED <<pendingFunctors, wakeupFd>>
    BY DEF RunWriteComplete
  <1> QED BY <1>0, <1>1, RunOnly DEF Passes, Functor

LEMMA RunRemoveQueues ==
    ASSUME TypeOK, LoopsInv, NEW c \in Channels, RunRemove(c)
    PROVE  /\ Running(Base, Functor("removeConnection", c, NoMessage)) /\ Ran(Base) /\ Passes(Base)
           /\ QueueEffect({<<Base, "removeConnection", c>>}, {<<loopOf[c], "connectDestroyed", c>>})
  <1> DEFINE f == Functor("removeConnection", c, NoMessage)
             g == Functor("connectDestroyed", c, NoMessage)
  <1>0. ThreadsInv /\ LoopTypeOK /\ Base \in Loops /\ loopOf[c] \in Loops
    BY TypesSplit, ServerAssumption DEF ServerTypeOK
  <1>1. g \in FunctorSet /\ g[1] = "connectDestroyed" /\ g[2] = c /\ f[1] = "removeConnection" /\ f[2] = c
    BY FunctorIn DEF Operations, Lifecycle, Functor
  <1>2. Running(Base, f) /\ Ran(Base) /\ QueueInLoop(Base, loopOf[c], <<g>>)
    BY DEF RunRemove, RemoveConnectionInLoop
  <1> HIDE DEF f, g
  <1>3. Passes(Base)
    BY <1>0, <1>1, <1>2 DEF Passes
  <1>4. <<Base, f[1], f[2]>> # <<loopOf[c], g[1], g[2]>>
    BY <1>1
  <1>5. QueueEffect({<<Base, f[1], f[2]>>}, {<<loopOf[c], g[1], g[2]>>})
    BY <1>0, <1>1, <1>2, <1>4, RunAndQueue
  <1> QED BY <1>1, <1>2, <1>3, <1>5 DEF f

LEMMA HandleReadQueues ==
    ASSUME TypeOK, LoopsInv, NEW l \in Loops, NEW c \in Channels, HandleRead(l, c)
    PROVE  Handles(l, "IN") /\ Head(active[l])[1] = c /\ Passes(l) /\ QueueEffect({}, {})
  <1>0. ThreadsInv /\ LoopTypeOK
    BY TypesSplit
  <1> QED BY <1>0, HandlingHandles, QueuesKept DEF HandleRead, Passes

LEMMA HandleHupQueues ==
    ASSUME TypeOK, LoopsInv, NEW l \in Loops, NEW c \in Channels, HandleHup(l, c)
    PROVE  Handles(l, "HUP") /\ Head(active[l])[1] = c /\ Passes(l) /\ QueueEffect({}, {})
  <1>0. ThreadsInv /\ LoopTypeOK
    BY TypesSplit
  <1> QED BY <1>0, HandlingHandles, QueuesKept DEF HandleHup, Passes

LEMMA HandleErrorQueues ==
    ASSUME TypeOK, LoopsInv, NEW l \in Loops, NEW c \in Channels, HandleReadError(l, c) \/ HandleError(l, c)
    PROVE  /\ \E r \in {"IN", "ERR"} : Handles(l, r)
           /\ Head(active[l])[1] = c /\ Passes(l) /\ QueueEffect({}, {})
  <1>0. ThreadsInv /\ LoopTypeOK
    BY TypesSplit
  <1>1. CASE HandleReadError(l, c)
    BY <1>0, <1>1, HandlingHandles, QueuesKept DEF HandleReadError, Passes
  <1>2. CASE HandleError(l, c)
    BY <1>0, <1>2, HandlingHandles, QueuesKept DEF HandleError, Passes
  <1> QED BY <1>1, <1>2

LEMMA HandleWriteQueues ==
    ASSUME TypeOK, LoopsInv, NEW l \in Loops, NEW c \in Channels, HandleWrite(l, c)
    PROVE  /\ Handles(l, "OUT") /\ Head(active[l])[1] = c /\ Passes(l)
           /\ QueueEffect({}, {}) \/ (QueueEffect({}, {<<l, "writeComplete", c>>}) /\ Writing(c))
  <1> DEFINE g == Functor("writeComplete", c, NoMessage)
  <1>0. ThreadsInv /\ LoopTypeOK
    BY TypesSplit
  <1>1. g \in FunctorSet /\ g[1] = "writeComplete" /\ g[2] = c
    BY FunctorIn DEF Operations, Lifecycle
  <1>2. /\ UNCHANGED <<functors, next>>
        /\ \/ UNCHANGED <<pendingFunctors, wakeupFd>>
           \/ Writing(c) /\ QueueInLoop(l, l, <<g>>)
    BY DEF HandleWrite
  <1>3. Handles(l, "OUT") /\ Head(active[l])[1] = c
    BY HandlingHandles DEF HandleWrite
  <1> HIDE DEF g
  <1>4. Passes(l)
    BY <1>1, <1>2 DEF Passes
  <1>5. CASE UNCHANGED <<pendingFunctors, wakeupFd>>
    BY <1>0, <1>2, <1>3, <1>4, <1>5, QueuesKept
  <1>6. CASE Writing(c) /\ QueueInLoop(l, l, <<g>>)
    <2>1. QueueEffect({}, {<<l, g[1], g[2]>>})
      BY <1>0, <1>1, <1>2, <1>6, QueueOnly
    <2> QED BY <1>1, <1>3, <1>4, <1>6, <2>1
  <1> QED BY <1>2, <1>5, <1>6

LEMMA RunSendQueues ==
    ASSUME TypeOK, LoopsInv, NEW l \in Loops, NEW c \in Channels, NEW m \in Messages, RunSend(l, c, m)
    PROVE  /\ Running(l, Functor("sendInLoop", c, m)) /\ Ran(l) /\ Passes(l)
           /\ \/ QueueEffect({<<l, "sendInLoop", c>>}, {})
              \/ /\ QueueEffect({<<l, "sendInLoop", c>>}, {<<l, "writeComplete", c>>})
                 /\ state[c] # "kDisconnected"
  <1> DEFINE f == Functor("sendInLoop", c, m)
             g == Functor("writeComplete", c, NoMessage)
  <1>0. ThreadsInv /\ LoopTypeOK
    BY TypesSplit
  <1>1. g \in FunctorSet /\ g[1] = "writeComplete" /\ g[2] = c /\ f[1] = "sendInLoop" /\ f[2] = c
    BY FunctorIn DEF Operations, Lifecycle, Functor
  <1>2. Running(l, f) /\ Ran(l)
    BY DEF RunSend
  <1>3. \/ UNCHANGED <<pendingFunctors, wakeupFd>>
        \/ state[c] # "kDisconnected" /\ QueueInLoop(l, l, <<g>>)
    BY DEF RunSend, SendInLoop
  <1> HIDE DEF f, g
  <1>4. Passes(l)
    BY <1>1, <1>3 DEF Passes
  <1>5. CASE UNCHANGED <<pendingFunctors, wakeupFd>>
    BY <1>0, <1>1, <1>2, <1>4, <1>5, RunOnly DEF f
  <1>6. CASE state[c] # "kDisconnected" /\ QueueInLoop(l, l, <<g>>)
    <2>1. <<l, f[1], f[2]>> # <<l, g[1], g[2]>>
      BY <1>1
    <2>2. QueueEffect({<<l, f[1], f[2]>>}, {<<l, g[1], g[2]>>})
      BY <1>0, <1>1, <1>2, <1>6, <2>1, RunAndQueue
    <2> QED BY <1>1, <1>2, <1>4, <1>6, <2>2 DEF f
  <1> QED BY <1>3, <1>5, <1>6

LEMMA QueueSendQueues ==
    ASSUME TypeOK, LoopsInv, WorkersInv, NEW w \in Workers, QueueSend(w), NEW c, NEW to,
           c = wconn[w], to = loopOf[c]
    PROVE  /\ c \in Channels /\ to \in Loops /\ w \notin Loops /\ Passes(w)
           /\ QueueEffect({}, {<<to, "sendInLoop", c>>})
           /\ handled[c] = 1 /\ Carrying(to, "sendInLoop", c, 1) => Carrying(to, "sendInLoop", c, 1)'
  <1>0. ThreadsInv /\ LoopTypeOK
    BY TypesSplit
  <1>1. c \in Channels /\ w \notin Loops /\ handled[c] \in Nat /\ to \in Loops
    <2>1. wpc[w] # "take"
      BY DEF QueueSend
    <2>2. c # Nobody
      BY <2>1 DEF WorkersInv
    <2>3. c \in Channels \cup {Nobody}
      BY DEF TypeOK
    <2> QED BY <2>2, <2>3, HttpAssumption DEF TypeOK, ServerTypeOK
  <1>2. PICK n \in Nat : n = handled[c]
    BY <1>1
  <1> DEFINE g == Functor("sendInLoop", c, n)
  <1>3. g \in FunctorSet /\ g[1] = "sendInLoop" /\ g[2] = c /\ g[3] = n
    BY <1>1, FunctorIn
  <1>4. QueueInLoop(w, to, <<g>>) /\ UNCHANGED <<functors, next>>
    BY <1>2 DEF QueueSend
  <1> HIDE DEF g
  <1>5. Passes(w)
    BY <1>1, <1>3, <1>4 DEF Passes
  <1>6. /\ QueueEffect({}, {<<to, g[1], g[2]>>})
        /\ g[3] = 1 /\ Carrying(to, g[1], g[2], 1) => Carrying(to, g[1], g[2], 1)'
    BY <1>0, <1>1, <1>3, <1>4, QueueOnly
  <1> QED BY <1>1, <1>2, <1>3, <1>5, <1>6

-----------------------------------------------------------------------------
\* The life of connections.
\* What a step does to the functors of a connection none of out and in is about.
LEMMA OthersKept ==
    ASSUME NEW d \in Channels, NEW k \in Loops, NEW op \in Operations, NEW out, NEW in,
           QueueEffect(out, in), <<k, op, d>> \notin out, <<k, op, d>> \notin in
    PROVE  /\ Queued(k, op, d)' <=> Queued(k, op, d)
           /\ Once(k, op, d) => Once(k, op, d)'
           /\ Carrying(k, op, d, 1) => Carrying(k, op, d, 1)'
  BY DEF QueueEffect

LifeKept(d) ==
    \A k \in Loops, op \in Lifecycle :
        (Queued(k, op, d)' <=> Queued(k, op, d)) /\ (Once(k, op, d) => Once(k, op, d)')

LEMMA LifeSame ==
    ASSUME NEW d \in Channels, Life(d), LifeKept(d),
           state'[d] = state[d], loopOf'[d] = loopOf[d], shut'[d] = shut[d], index'[d] = index[d],
           d \in connections' <=> d \in connections, d \in s_http_map' <=> d \in s_http_map,
           d \in backlog' => d \in backlog \/ state[d] = "none",
           events'[d] = events[d] \/ (state[d] = "kConnected" /\ "IN" \in events'[d])
    PROVE  Life(d)'
  <1>1. /\ "connectEstablished" \in Lifecycle /\ "removeConnection" \in Lifecycle
        /\ "connectDestroyed" \in Lifecycle
    BY DEF Lifecycle
  <1>2. \A k \in Loops :
          /\ \A op \in Lifecycle : Once(k, op, d)'
          /\ Queued(k, "connectEstablished", d)' <=> k = loopOf'[d] /\ state'[d] = "kConnecting"
          /\ Queued(k, "removeConnection", d)' <=>
                k = Base /\ state'[d] = "kDisconnected" /\ d \in connections'
          /\ Queued(k, "connectDestroyed", d)' =>
                k = loopOf'[d] /\ state'[d] = "kDisconnected" /\ d \notin connections'
    BY <1>1 DEF Life, LifeKept
  <1> QED BY <1>2 DEF Life

LEMMA LifeOps == Lifecycle \subseteq Operations
  BY DEF Operations

\* A step that is about no functor of the life of d.
LEMMA LifeAside ==
    ASSUME NEW d \in Channels, NEW out, NEW in, QueueEffect(out, in),
           \A k \in Loops, op \in Lifecycle : <<k, op, d>> \notin out /\ <<k, op, d>> \notin in
    PROVE  LifeKept(d)
  BY LifeOps, OthersKept DEF LifeKept

LEMMA LifeAccepted ==
    ASSUME TypeOK, LoopsInv, LifeInv, NEW c \in Channels, NewConnection(c), UNCHANGED s_http_map
    PROVE  LifeInv'
  <1>0. ServerTypeOK /\ TcpTypeOK /\ index \in [Channels -> {"kNew", "kAdded", "kDeleted"}]
    BY TypesSplit DEF LoopTypeOK
  <1>1. PICK to \in Loops \ {Base} : to = GetNextLoop
    BY <1>0, NextLoopIs
  <1>2. QueueEffect({}, {<<to, "connectEstablished", c>>})
    BY <1>1, NewConnectionQueues
  <1>3. /\ c \in backlog /\ backlog' = backlog \ {c} /\ connections' = connections \cup {c}
        /\ loopOf' = [loopOf EXCEPT ![c] = to] /\ state' = [state EXCEPT ![c] = "kConnecting"]
        /\ UNCHANGED <<shut, index, events>>
    BY <1>1 DEF NewConnection, channelVars
  <1>4. \A d \in Channels : /\ state'[d] = IF d = c THEN "kConnecting" ELSE state[d]
                            /\ loopOf'[d] = IF d = c THEN to ELSE loopOf[d]
    BY <1>0, <1>3 DEF TcpTypeOK, ServerTypeOK
  <1>5. Life(c)'
    <2>1. Life(c) /\ state[c] = "none"
      BY <1>3 DEF LifeInv, Life
    <2>2. \A k \in Loops : /\ ~ Queued(k, "connectEstablished", c) /\ ~ Queued(k, "removeConnection", c)
                           /\ ~ Queued(k, "connectDestroyed", c)
      BY <2>1 DEF Life
    <2>3. ASSUME NEW k \in Loops
          PROVE  /\ \A op \in Lifecycle : Once(k, op, c)'
                 /\ Queued(k, "connectEstablished", c)' <=> k = to
                 /\ ~ Queued(k, "removeConnection", c)'
                 /\ ~ Queued(k, "connectDestroyed", c)'
      <3>1. \A op \in Lifecycle : op \in Operations /\ Once(k, op, c) /\ ~ Queued(k, op, c)
        BY <2>1, <2>2, LifeOps DEF Life, Lifecycle
      <3>2. ASSUME NEW op \in Lifecycle
            PROVE  Once(k, op, c)' /\ (Queued(k, op, c)' <=> k = to /\ op = "connectEstablished")
        <4>1. <<k, op, c>> \in {<<to, "connectEstablished", c>>} <=> k = to /\ op = "connectEstablished"
          OBVIOUS
        <4> QED BY <1>2, <3>1, <4>1 DEF QueueEffect
      <3> QED BY <3>2 DEF Lifecycle
    <2>4. /\ state'[c] = "kConnecting" /\ loopOf'[c] = to /\ c \in connections' /\ c \notin backlog'
          /\ events' = events /\ index' = index /\ shut' = shut /\ s_http_map' = s_http_map
      BY <1>3, <1>4
    <2>5. shut[c] = FALSE /\ c \notin s_http_map /\ index[c] # "kAdded" /\ events[c] = {}
      BY <2>1 DEF Life
    <2> QED BY <1>1, <2>3, <2>4, <2>5 DEF Life
  <1>6. ASSUME NEW d \in Channels, d # c PROVE Life(d)'
    <2>1. LifeKept(d)
      BY <1>2, <1>6, LifeAside
    <2> QED BY <1>3, <1>4, <1>6, <2>1, LifeSame DEF LifeInv
  <1> QED BY <1>5, <1>6 DEF LifeInv

LEMMA LifeEstablished ==
    ASSUME TypeOK, LoopsInv, LifeInv, NEW l \in Loops, NEW c \in Channels, RunEstablished(l, c)
    PROVE  LifeInv'
  <1>0. TcpTypeOK /\ index \in [Channels -> {"kNew", "kAdded", "kDeleted"}]
        /\ events \in [Channels -> SUBSET {"IN", "OUT"}]
    BY TypesSplit DEF LoopTypeOK
  <1>1. QueueEffect({<<l, "connectEstablished", c>>}, {})
    BY RunEstablishedQueues
  <1>2. /\ state' = [state EXCEPT ![c] = "kConnected"] /\ events' = [events EXCEPT ![c] = {"IN"}]
        /\ index' = [index EXCEPT ![c] = IF @ = "kAdded" /\ {"IN"} = {} THEN "kDeleted" ELSE "kAdded"]
        /\ s_http_map' = s_http_map \cup {c} /\ UNCHANGED <<shut, connections, loopOf, backlog>>
    BY DEF RunEstablished, Establish, UpdateChannel, serverVars
  <1>3. \A d \in Channels : /\ state'[d] = IF d = c THEN "kConnected" ELSE state[d]
                            /\ events'[d] = IF d = c THEN {"IN"} ELSE events[d]
                            /\ index'[d] = IF d = c THEN "kAdded" ELSE index[d]
    BY <1>0, <1>2 DEF TcpTypeOK
  <1>4. Life(c)'
    <2>1. Life(c) /\ Queued(l, "connectEstablished", c)
      BY <1>1 DEF LifeInv, QueueEffect, Operations, Lifecycle
    <2>2. l = loopOf[c] /\ state[c] = "kConnecting" /\ c \in connections /\ c \notin backlog
          /\ loopOf[c] # Base /\ shut[c] = FALSE
      BY <2>1 DEF Life
    <2>3. ASSUME NEW k \in Loops
          PROVE  /\ \A op \in Lifecycle : Once(k, op, c)'
                 /\ ~ Queued(k, "connectEstablished", c)'
                 /\ ~ Queued(k, "removeConnection", c)'
                 /\ ~ Queued(k, "connectDestroyed", c)'
      <3>1. \A op \in Lifecycle : op \in Operations /\ Once(k, op, c)
        BY <2>1, LifeOps DEF Life
      <3>2. \A op \in Lifecycle : Once(k, op, c)' /\ (Queued(k, op, c)' => Queued(k, op, c))
        BY <1>1, <3>1 DEF QueueEffect
      <3>3. /\ ~ Queued(k, "removeConnection", c) /\ ~ Queued(k, "connectDestroyed", c)
            /\ Queued(k, "connectEstablished", c) => k = l
        BY <2>1, <2>2 DEF Life
      <3>4. "connectEstablished" \in Lifecycle
        BY DEF Lifecycle
      <3>5. ~ Queued(l, "connectEstablished", c)'
        BY <1>1, <2>1, <3>4, LifeOps DEF QueueEffect, Life
      <3> QED BY <3>2, <3>3, <3>5 DEF Lifecycle
    <2> QED BY <1>2, <1>3, <2>2, <2>3 DEF Life
  <1>5. ASSUME NEW d \in Channels, d # c PROVE Life(d)'
    <2>1. LifeKept(d)
      BY <1>1, <1>5, LifeAside
    <2> QED BY <1>2, <1>3, <1>5, <2>1, LifeSame DEF LifeInv
  <1> QED BY <1>4, <1>5 DEF LifeInv

LEMMA LifeClosed ==
    ASSUME TypeOK, LoopsInv, LifeInv, NEW l \in Loops, NEW c \in Channels, NEW r,
           Handling(l, c, r), CloseConnection(l, c, r), state[c] = "kConnected"
    PROVE  LifeInv'
  <1>0. TcpTypeOK /\ index \in [Channels -> {"kNew", "kAdded", "kDeleted"}]
        /\ events \in [Channels -> SUBSET {"IN", "OUT"}]
    BY TypesSplit DEF LoopTypeOK
  <1>1. QueueEffect({}, {<<Base, "removeConnection", c>>})
    BY CloseConnectionQueues
  <1>2. /\ state' = [state EXCEPT ![c] = "kDisconnected"] /\ events' = [events EXCEPT ![c] = {}]
        /\ index' = [index EXCEPT ![c] = IF @ = "kAdded" /\ {} = {} THEN "kDeleted" ELSE "kAdded"]
        /\ s_http_map' = s_http_map \ {c} /\ UNCHANGED <<shut, connections, loopOf, backlog>>
    BY DEF CloseConnection, Close, UpdateChannel, RemoveConnection, serverVars
  <1>3. /\ Life(c) /\ c \in connections /\ c \notin backlog /\ loopOf[c] # Base /\ shut[c] = FALSE
        /\ index[c] = "kAdded"
    BY DEF LifeInv, Life
  <1>4. \A d \in Channels : /\ state'[d] = IF d = c THEN "kDisconnected" ELSE state[d]
                            /\ events'[d] = IF d = c THEN {} ELSE events[d]
                            /\ index'[d] = IF d = c THEN "kDeleted" ELSE index[d]
    BY <1>0, <1>2, <1>3 DEF TcpTypeOK
  <1>5. Life(c)'
    <2>1. ASSUME NEW k \in Loops
          PROVE  /\ \A op \in Lifecycle : Once(k, op, c)'
                 /\ ~ Queued(k, "connectEstablished", c)'
                 /\ Queued(k, "removeConnection", c)' <=> k = Base
                 /\ ~ Queued(k, "connectDestroyed", c)'
      <3>1. \A op \in Lifecycle : op \in Operations /\ Once(k, op, c) /\ ~ Queued(k, op, c)
        BY <1>3, LifeOps DEF Life, Lifecycle
      <3>2. ASSUME NEW op \in Lifecycle
            PROVE  Once(k, op, c)' /\ (Queued(k, op, c)' <=> k = Base /\ op = "removeConnection")
        <4>1. <<k, op, c>> \in {<<Base, "removeConnection", c>>} <=> k = Base /\ op = "removeConnection"
          OBVIOUS
        <4> QED BY <1>1, <3>1, <4>1 DEF QueueEffect
      <3> QED BY <3>2 DEF Lifecycle
    <2> QED BY <1>2, <1>3, <1>4, <2>1 DEF Life
  <1>6. ASSUME NEW d \in Channels, d # c PROVE Life(d)'
    <2>1. LifeKept(d)
      BY <1>1, <1>6, LifeAside
    <2> QED BY <1>2, <1>4, <1>6, <2>1, LifeSame DEF LifeInv
  <1> QED BY <1>5, <1>6 DEF LifeInv

LEMMA LifeRemoved ==
    ASSUME TypeOK, LoopsInv, LifeInv, NEW c \in Channels, RunRemove(c)
    PROVE  LifeInv' /\ state[c] = "kDisconnected" /\ c \in connections /\ loopOf[c] # Base
  <1>0. PICK to \in Loops : to = loopOf[c]
    BY DEF TypeOK, ServerTypeOK
  <1>1. QueueEffect({<<Base, "removeConnection", c>>}, {<<to, "connectDestroyed", c>>})
    BY <1>0, RunRemoveQueues
  <1>2. /\ connections' = connections \ {c}
        /\ UNCHANGED <<state, events, index, s_http_map, shut, loopOf, backlog>>
    BY DEF RunRemove, RemoveConnectionInLoop, channelVars, tcpVars, httpVars
  <1>3. Life(c) /\ Queued(Base, "removeConnection", c) /\ Base \in Loops
    BY <1>1, ServerAssumption DEF LifeInv, QueueEffect, Operations, Lifecycle
  <1>4. state[c] = "kDisconnected" /\ c \in connections /\ loopOf[c] # Base
    BY <1>3 DEF Life
  <1>5. Life(c)'
    <2>1. ASSUME NEW k \in Loops
          PROVE  /\ \A op \in Lifecycle : Once(k, op, c)'
                 /\ ~ Queued(k, "connectEstablished", c)'
                 /\ ~ Queued(k, "removeConnection", c)'
                 /\ Queued(k, "connectDestroyed", c)' => k = to
      <3>1. \A op \in Lifecycle : /\ op \in Operations /\ Once(k, op, c)
                                  /\ Queued(k, op, c) => k = Base /\ op = "removeConnection"
        BY <1>3, <1>4, LifeOps DEF Life, Lifecycle
      <3>2. ASSUME NEW op \in Lifecycle
            PROVE  Once(k, op, c)' /\ (Queued(k, op, c)' => k = to /\ op = "connectDestroyed")
        <4>1. <<k, op, c>> \in {<<to, "connectDestroyed", c>>} <=> k = to /\ op = "connectDestroyed"
          OBVIOUS
        <4>2. <<k, op, c>> \in {<<Base, "removeConnection", c>>} <=> k = Base /\ op = "removeConnection"
          OBVIOUS
        <4> QED BY <1>1, <3>1, <4>1, <4>2 DEF QueueEffect
      <3> QED BY <3>2 DEF Lifecycle
    <2>2. /\ shut[c] = FALSE /\ c \notin s_http_map /\ index[c] # "kAdded" /\ events[c] = {} /\ c \notin backlog
      BY <1>3, <1>4 DEF Life
    <2>3. c \notin connections'
      BY <1>2
    <2> QED BY <1>0, <1>2, <1>4, <2>1, <2>2, <2>3 DEF Life
  <1>6. ASSUME NEW d \in Channels, d # c PROVE Life(d)'
    <2>1. LifeKept(d)
      BY <1>1, <1>6, LifeAside
    <2> QED BY <1>2, <1>6, <2>1, LifeSame DEF LifeInv
  <1> QED BY <1>4, <1>5, <1>6 DEF LifeInv

LEMMA LifeDestroyed ==
    ASSUME TypeOK, LoopsInv, LifeInv, NEW l \in Loops, NEW c \in Channels, RunDestroyed(l, c)
    PROVE  /\ LifeInv' /\ l = loopOf[c] /\ state[c] = "kDisconnected" /\ c \notin connections
           /\ UNCHANGED <<state, events>>
  <1>0. TcpTypeOK /\ index \in [Channels -> {"kNew", "kAdded", "kDeleted"}]
        /\ events \in [Channels -> SUBSET {"IN", "OUT"}]
    BY TypesSplit DEF LoopTypeOK
  <1>1. QueueEffect({<<l, "connectDestroyed", c>>}, {})
    BY RunDestroyedQueues
  <1>2. Life(c) /\ Queued(l, "connectDestroyed", c)
    BY <1>1 DEF LifeInv, QueueEffect, Operations, Lifecycle
  <1>3. l = loopOf[c] /\ state[c] = "kDisconnected" /\ c \notin connections
    BY <1>2 DEF Life
  <1>4. /\ state' = [state EXCEPT ![c] = IF @ = "kConnected" THEN "kDisconnected" ELSE @]
        /\ events' = [events EXCEPT ![c] = IF state[c] = "kConnected" THEN {} ELSE @]
        /\ index' = [index EXCEPT ![c] = "kNew"]
        /\ UNCHANGED <<s_http_map, shut, connections, loopOf, backlog>>
    BY DEF RunDestroyed, Destroy, RemoveChannel, serverVars, httpVars
  <1>5. UNCHANGED <<state, events>> /\ \A d \in Channels : index'[d] = IF d = c THEN "kNew" ELSE index[d]
    BY <1>0, <1>3, <1>4 DEF TcpTypeOK
  <1>6. Life(c)'
    <2>1. \A k \in Loops : \A op \in Lifecycle : Once(k, op, c)' /\ (Queued(k, op, c)' => Queued(k, op, c))
      BY <1>1, <1>2, LifeOps DEF QueueEffect, Life
    <2>2. ASSUME NEW k \in Loops
          PROVE  /\ \A op \in Lifecycle : Once(k, op, c)'
                 /\ ~ Queued(k, "connectEstablished", c)'
                 /\ ~ Queued(k, "removeConnection", c)'
                 /\ Queued(k, "connectDestroyed", c)' => k = loopOf[c]
      BY <1>2, <1>3, <2>1 DEF Life, Lifecycle
    <2> QED BY <1>2, <1>3, <1>4, <1>5, <2>2 DEF Life
  <1>7. ASSUME NEW d \in Channels, d # c PROVE Life(d)'
    <2>1. LifeKept(d)
      BY <1>1, <1>7, LifeAside
    <2> QED BY <1>4, <1>5, <1>7, <2>1, LifeSame DEF LifeInv
  <1> QED BY <1>3, <1>5, <1>6, <1>7 DEF LifeInv

\* Steps that are not about the life of a connection, but perhaps about its POLLOUT.
LEMMA LifeElsewhere ==
    ASSUME TypeOK, LifeInv, NEW out, NEW in, QueueEffect(out, in),
           \A k \in Loops, op \in Lifecycle, d \in Channels : <<k, op, d>> \notin out /\ <<k, op, d>> \notin in,
           UNCHANGED <<state, loopOf, shut, connections, s_http_map, index>>,
           \A d \in Channels : d \in backlog' => d \in backlog \/ state[d] = "none",
           \A d \in Channels : events'[d] = events[d] \/ (state[d] = "kConnected" /\ "IN" \in events'[d])
    PROVE  LifeInv'
  <1> SUFFICES ASSUME NEW d \in Channels PROVE Life(d)'
    BY DEF LifeInv
  <1>1. LifeKept(d)
    BY LifeAside
  <1> QED BY <1>1, LifeSame DEF LifeInv

\* The channel of a connection that is up is updated, with POLLIN.
LEMMA UpdatedUp ==
    ASSUME TypeOK, LifeInv, NEW c \in Channels, state[c] = "kConnected", NEW ev, UpdateChannel(c, ev),
           "IN" \in ev
    PROVE  /\ index' = index
           /\ \A d \in Channels : events'[d] = IF d = c THEN ev ELSE events[d]
  <1>1. /\ index \in [Channels -> {"kNew", "kAdded", "kDeleted"}]
        /\ events \in [Channels -> SUBSET {"IN", "OUT"}]
    BY DEF TypeOK, LoopTypeOK
  <1>2. index[c] = "kAdded"
    BY DEF LifeInv, Life
  <1>3. index' = [index EXCEPT ![c] = "kAdded"]
    BY <1>1, <1>2 DEF UpdateChannel
  <1> QED BY <1>1, <1>2, <1>3 DEF UpdateChannel

LEMMA WriteEffect ==
    ASSUME TypeOK, LifeInv, NEW l \in Loops, NEW c \in Channels, HandleWrite(l, c)
    PROVE  /\ index' = index /\ UNCHANGED <<state, accepted, socketVars>>
           /\ \/ UNCHANGED <<events, shut, sent, outputBuffer>>
              \/ /\ state[c] = "kConnected" /\ Writing(c)
                 /\ shut' = shut
                 /\ \E n \in WriteResults(outputBuffer[c]) \ {0} :
                       /\ sent' = [sent EXCEPT ![c] = @ \o SubSeq(outputBuffer[c], 1, n)]
                       /\ outputBuffer' = [outputBuffer EXCEPT ![c] = Drop(@, n)]
                       /\ \A d \in Channels : events'[d] =
                             IF d = c /\ n = Len(outputBuffer[c]) THEN events[c] \ {"OUT"} ELSE events[d]
                 /\ "IN" \in events'[c]
  <1>1. CASE Writing(c) /\ ~ Broken(c)
    <2>1. state[c] = "kConnected" /\ "IN" \in events[c] /\ shut[c] = FALSE
      BY <1>1 DEF Writing, LifeInv, Life
    <2>2. PICK n \in WriteResults(outputBuffer[c]) \ {0} :
              /\ sent' = [sent EXCEPT ![c] = @ \o SubSeq(outputBuffer[c], 1, n)]
              /\ outputBuffer' = [outputBuffer EXCEPT ![c] = Drop(@, n)]
              /\ IF n = Len(outputBuffer[c])
                 THEN /\ UpdateChannel(c, events[c] \ {"OUT"})
                      /\ shut' = [shut EXCEPT ![c] = @ \/ state[c] = "kDisconnecting"]
                 ELSE UNCHANGED <<channelVars, shut>>
      BY <1>1 DEF HandleWrite
    <2>3. n = Len(outputBuffer[c]) => /\ index' = index
                                      /\ \A d \in Channels : events'[d] =
                                            IF d = c THEN events[c] \ {"OUT"} ELSE events[d]
      BY <2>1, <2>2, UpdatedUp
    <2>4. n # Len(outputBuffer[c]) => UNCHANGED <<index, events, shut>>
      BY <2>2 DEF channelVars
    <2>5. shut' = shut
      <3>1. shut \in [Channels -> BOOLEAN]
        BY DEF TypeOK, TcpTypeOK
      <3>2. (shut[c] \/ state[c] = "kDisconnecting") = FALSE
        BY <2>1
      <3>3. n = Len(outputBuffer[c]) => shut' = [shut EXCEPT ![c] = FALSE]
        BY <2>2, <3>2
      <3> QED BY <2>1, <2>4, <3>1, <3>3
    <2>6. UNCHANGED <<state, accepted, socketVars>>
      BY DEF HandleWrite
    <2>7. index' = index
      BY <2>3, <2>4
    <2>8. \A d \in Channels : events'[d] =
             IF d = c /\ n = Len(outputBuffer[c]) THEN events[c] \ {"OUT"} ELSE events[d]
      BY <2>3, <2>4
    <2>9. "IN" \in events'[c]
      BY <2>1, <2>8
    <2> QED BY <1>1, <2>1, <2>2, <2>5, <2>6, <2>7, <2>8, <2>9
  <1>2. CASE ~ (Writing(c) /\ ~ Broken(c))
    BY <1>2 DEF HandleWrite, channelVars
  <1> QED BY <1>1, <1>2

\* sendInLoop on a connection that is up: the three ways, and nothing otherwise.
SendsDirectly(c, m) ==
    /\ ~ Writing(c) /\ outputBuffer[c] = <<>>
    /\ accepted' = [accepted EXCEPT ![c] = Append(@, m)]
    /\ \E n \in WriteResults(Bytes(m)) :
          /\ sent' = [sent EXCEPT ![c] = @ \o SubSeq(Bytes(m), 1, n)]
          /\ outputBuffer' = [outputBuffer EXCEPT ![c] = Drop(Bytes(m), n)]
          /\ \A d \in Channels : events'[d] =
                IF d = c /\ n # Len(Bytes(m)) THEN events[c] \cup {"OUT"} ELSE events[d]
SendsLater(c, m) ==
    /\ Writing(c) \/ outputBuffer[c] # <<>>
    /\ accepted' = [accepted EXCEPT ![c] = Append(@, m)]
    /\ outputBuffer' = [outputBuffer EXCEPT ![c] = @ \o Bytes(m)]
    /\ sent' = sent
    /\ \A d \in Channels : events'[d] = IF d = c THEN events[c] \cup {"OUT"} ELSE events[d]

LEMMA SendEffect ==
    ASSUME TypeOK, LoopsInv, LifeInv, WorkersInv, NEW l \in Loops, NEW c \in Channels, NEW m \in Messages,
           RunSend(l, c, m)
    PROVE  /\ UNCHANGED <<state, shut, index, socketVars, serverVars, httpVars>>
           /\ \/ /\ UNCHANGED <<sent, outputBuffer, accepted, events>>
                 /\ state[c] = "kDisconnected" \/ Broken(c)
              \/ state[c] = "kConnected" /\ "IN" \in events[c] /\ "IN" \in events'[c]
                 /\ (SendsDirectly(c, m) \/ SendsLater(c, m))
  <1>1. UNCHANGED <<socketVars, serverVars, httpVars>> /\ SendInLoop(l, c, m)
    BY DEF RunSend
  <1>2. CASE state[c] = "kDisconnected"
    BY <1>1, <1>2 DEF SendInLoop, tcpVars, channelVars
  <1>3. CASE state[c] # "kDisconnected"
    <2>1. state[c] = "kConnected"
      <3>1. Queued(l, "sendInLoop", c)
        <4>1. QueueEffect({<<l, "sendInLoop", c>>}, {})
              \/ QueueEffect({<<l, "sendInLoop", c>>}, {<<l, "writeComplete", c>>})
          BY RunSendQueues
        <4> QED BY <4>1 DEF QueueEffect, Operations
      <3> QED BY <1>3, <3>1 DEF WorkersInv, Been
    <2>2. "IN" \in events[c]
      BY <2>1 DEF LifeInv, Life
    <2>3. ASSUME UpdateChannel(c, events[c] \cup {"OUT"})
          PROVE  /\ index' = index
                 /\ \A d \in Channels : events'[d] = IF d = c THEN events[c] \cup {"OUT"} ELSE events[d]
      <3>1. "IN" \in events[c] \cup {"OUT"}
        BY <2>2
      <3> QED BY <2>1, <2>3, <3>1, UpdatedUp
    <2>4. UNCHANGED <<state, shut>>
      BY <1>1, <1>3 DEF SendInLoop
    <2>5. CASE /\ ~ Writing(c) /\ outputBuffer[c] = <<>> /\ ~ Broken(c)
               /\ accepted' = [accepted EXCEPT ![c] = Append(@, m)]
               /\ \E n \in WriteResults(Bytes(m)) :
                    /\ sent' = [sent EXCEPT ![c] = @ \o SubSeq(Bytes(m), 1, n)]
                    /\ outputBuffer' = [outputBuffer EXCEPT ![c] = Drop(Bytes(m), n)]
                    /\ IF n = Len(Bytes(m)) THEN UNCHANGED channelVars
                       ELSE UpdateChannel(c, events[c] \cup {"OUT"})
      <3>1. PICK n \in WriteResults(Bytes(m)) :
                    /\ sent' = [sent EXCEPT ![c] = @ \o SubSeq(Bytes(m), 1, n)]
                    /\ outputBuffer' = [outputBuffer EXCEPT ![c] = Drop(Bytes(m), n)]
                    /\ IF n = Len(Bytes(m)) THEN UNCHANGED channelVars
                       ELSE UpdateChannel(c, events[c] \cup {"OUT"})
        BY <2>5
      <3>2. CASE n = Len(Bytes(m))
        <4>1. UNCHANGED <<index, events>>
          BY <3>1, <3>2 DEF channelVars
        <4> QED BY <1>1, <2>1, <2>2, <2>4, <2>5, <3>1, <3>2, <4>1 DEF SendsDirectly
      <3>3. CASE n # Len(Bytes(m))
        <4>1. /\ index' = index
              /\ \A d \in Channels : events'[d] = IF d = c THEN events[c] \cup {"OUT"} ELSE events[d]
          BY <2>3, <3>1, <3>3
        <4> QED BY <1>1, <2>1, <2>2, <2>4, <2>5, <3>1, <3>3, <4>1 DEF SendsDirectly
      <3> QED BY <3>2, <3>3
    <2>6. CASE /\ ~ Writing(c) /\ outputBuffer[c] = <<>> /\ Broken(c)
               /\ UNCHANGED <<sent, outputBuffer, accepted, channelVars>>
      BY <1>1, <2>4, <2>6 DEF channelVars
    <2>7. CASE /\ Writing(c) \/ outputBuffer[c] # <<>>
               /\ accepted' = [accepted EXCEPT ![c] = Append(@, m)]
               /\ outputBuffer' = [outputBuffer EXCEPT ![c] = @ \o Bytes(m)]
               /\ IF Writing(c) THEN UNCHANGED channelVars
                  ELSE UpdateChannel(c, events[c] \cup {"OUT"})
               /\ UNCHANGED sent
      <3>1. /\ index' = index
            /\ \A d \in Channels : events'[d] = IF d = c THEN events[c] \cup {"OUT"} ELSE events[d]
        <4>1. CASE Writing(c)
          BY <2>7, <4>1 DEF Writing, channelVars
        <4>2. CASE ~ Writing(c)
          BY <2>3, <2>7, <4>2
        <4> QED BY <4>1, <4>2
      <3> QED BY <1>1, <2>1, <2>2, <2>4, <2>7, <3>1 DEF SendsLater
    <2> QED BY <1>1, <1>3, <2>5, <2>6, <2>7 DEF SendInLoop
  <1> QED BY <1>2, <1>3

LEMMA HandlingEvent ==
    ASSUME ThreadsInv, EventsInv, NEW l \in Loops, NEW c \in Channels, active[l] # <<>>, Head(active[l])[1] = c
    PROVE  /\ Event(l, c)
           /\ "IN" \in Head(active[l])[2] => state[c] = "kConnected"
  <1>1. active[l] \in Seq(EventSet)
    BY DEF ThreadsInv, ThreadTypes, EventSet
  <1>2. 1 \in DOMAIN active[l] /\ Head(active[l]) = active[l][1]
    BY <1>1, EmptySeq, LenProperties
  <1> QED BY <1>2 DEF EventsInv

LEMMA Ends ==
    ASSUME TypeOK, LoopsInv, EventsInv, NEW l \in Loops, NEW c \in Channels, HandleEof(l, c)
    PROVE  Handling(l, c, "IN") /\ CloseConnection(l, c, "IN") /\ state[c] = "kConnected"
  <1>1. Handling(l, c, "IN") /\ CloseConnection(l, c, "IN") /\ ThreadsInv
    BY TypesSplit DEF HandleEof
  <1> QED BY <1>1, HandlingEvent DEF Handling

LEMMA LifeStep ==
    ASSUME TypeOK, LoopsInv, LifeInv, EventsInv, WorkersInv, [Next]_vars
    PROVE  LifeInv'
  <1> DEFINE Aside == UNCHANGED <<state, loopOf, shut, connections, s_http_map, index, events>>
  <1>0. ThreadsInv /\ LoopTypeOK /\ Base \in Loops
    BY TypesSplit, ServerAssumption
  <1>1. ASSUME QueueEffect({}, {}), Aside, backlog' \subseteq backlog PROVE LifeInv'
    BY <1>1, LifeElsewhere
  <1>2. ASSUME UNCHANGED <<loopVars, channelVars, tcpVars, serverVars, s_http_map>> PROVE LifeInv'
    BY <1>0, <1>1, <1>2, QueuesKept DEF loopVars, channelVars, tcpVars, serverVars
  <1>3. CASE UNCHANGED vars
    BY <1>2, <1>3 DEF vars, httpVars
  <1>4. ASSUME NEW c \in Channels, Client(c) PROVE LifeInv'
    <2>1. CASE Connect(c)
      <3>1. UNCHANGED <<pendingFunctors, functors, next>> /\ Aside
            /\ state[c] = "none" /\ backlog' = backlog \cup {c}
        BY <2>1 DEF Connect, PeerConnects, loopVars, channelVars, tcpVars, httpVars
      <3>2. QueueEffect({}, {})
        BY <1>0, <3>1, QueuesKept
      <3> QED BY <3>1, <3>2, LifeElsewhere
    <2>2. CASE Send(c)
      BY <1>2, <2>2 DEF Send
    <2>3. CASE Hangup(c)
      BY <1>2, <2>3 DEF Hangup, httpVars
    <2> QED BY <1>4, <2>1, <2>2, <2>3 DEF Client
  <1>5. ASSUME NEW l \in Loops, PollLoop(l) \/ LoopStepOnly(l) PROVE LifeInv'
    <2>1. Aside /\ backlog' = backlog
      BY <1>5 DEF PollLoop, LoopStepOnly, channelVars, tcpVars, serverVars, httpVars
    <2>2. QueueEffect({}, {})
      BY <1>0, <1>5, QueuesKept DEF PollLoop, Poll, LoopStepOnly, LoopStep, HandleWakeup
    <2> QED BY <1>1, <2>1, <2>2
  <1>6. ASSUME NEW l \in Loops, NEW c \in Channels, OnConnection(l, c) PROVE LifeInv'
    <2>1. CASE Accept(c)
      <3>1. CASE NewConnection(c)
        BY <2>1, <3>1, LifeAccepted DEF Accept, httpVars
      <3>2. CASE RefuseConnection(c)
        <4>1. QueueEffect({}, {})
          BY <3>2, RefuseConnectionQueues
        <4>2. Aside /\ backlog' \subseteq backlog
          BY <2>1, <3>2 DEF Accept, RefuseConnection, httpVars, tcpVars, channelVars
        <4> QED BY <1>1, <4>1, <4>2
      <3> QED BY <2>1, <3>1, <3>2 DEF Accept
    <2>2. CASE RunRemove(c)
      BY <2>2, LifeRemoved
    <2>3. CASE RunEstablished(l, c)
      BY <2>3, LifeEstablished
    <2>4. CASE HandleRead(l, c)
      <3>1. QueueEffect({}, {})
        BY <2>4, HandleReadQueues
      <3>2. Aside /\ backlog' \subseteq backlog
        BY <2>4 DEF HandleRead, channelVars, tcpVars, serverVars
      <3> QED BY <1>1, <3>1, <3>2
    <2>5. CASE HandleEof(l, c)
      BY <2>5, Ends, LifeClosed
    <2>6. CASE HandleHup(l, c)
      <3>1. QueueEffect({}, {})
        BY <2>6, HandleHupQueues
      <3>2. Aside /\ backlog' \subseteq backlog
        BY <2>6 DEF HandleHup, channelVars, tcpVars, serverVars, httpVars
      <3> QED BY <1>1, <3>1, <3>2
    <2>7. CASE HandleOther(l, c)
      <3>1. UNCHANGED <<loopOf, connections, s_http_map, backlog>>
        BY <2>7 DEF HandleOther, serverVars, httpVars
      <3>2. CASE HandleReadError(l, c) \/ HandleError(l, c)
        <4>1. QueueEffect({}, {})
          BY <3>2, HandleErrorQueues
        <4>2. Aside
          BY <3>1, <3>2 DEF HandleReadError, HandleError, channelVars, tcpVars
        <4> QED BY <1>1, <3>1, <4>1, <4>2
      <3>3. CASE HandleWrite(l, c)
        <4>1. UNCHANGED <<state, shut, index>>
              /\ \A d \in Channels : events'[d] = events[d] \/ (state[d] = "kConnected" /\ "IN" \in events'[d])
          BY <3>3, WriteEffect
        <4>2. QueueEffect({}, {}) \/ QueueEffect({}, {<<l, "writeComplete", c>>})
          BY <3>3, HandleWriteQueues
        <4>3. "writeComplete" \notin Lifecycle
          BY DEF Lifecycle
        <4> QED BY <3>1, <4>1, <4>2, <4>3, LifeElsewhere
      <3> QED BY <2>7, <3>2, <3>3 DEF HandleOther
    <2>8. CASE RunDestroyed(l, c)
      BY <2>8, LifeDestroyed
    <2>9. CASE RunWriteComplete(l, c)
      <3>1. QueueEffect({<<l, "writeComplete", c>>}, {}) /\ "writeComplete" \notin Lifecycle
        BY <2>9, RunWriteCompleteQueues DEF Lifecycle
      <3>2. Aside /\ backlog' = backlog
        BY <2>9 DEF RunWriteComplete, channelVars, tcpVars, serverVars, httpVars
      <3> QED BY <3>1, <3>2, LifeElsewhere
    <2>10. CASE \E m \in Messages : RunSend(l, c, m)
      <3>1. PICK m \in Messages : RunSend(l, c, m)
        BY <2>10
      <3>2. QueueEffect({<<l, "sendInLoop", c>>}, {})
            \/ QueueEffect({<<l, "sendInLoop", c>>}, {<<l, "writeComplete", c>>})
        BY <3>1, RunSendQueues
      <3>3. "writeComplete" \notin Lifecycle /\ "sendInLoop" \notin Lifecycle
        BY DEF Lifecycle
      <3>4. /\ UNCHANGED <<state, loopOf, shut, connections, s_http_map, index, backlog>>
            /\ \A d \in Channels : events'[d] = events[d] \/ (state[d] = "kConnected" /\ "IN" \in events'[d])
        BY <3>1, SendEffect DEF SendsDirectly, SendsLater, serverVars, httpVars
      <3> QED BY <3>2, <3>3, <3>4, LifeElsewhere
    <2> QED BY <1>6, <2>1, <2>2, <2>3, <2>4, <2>5, <2>6, <2>7, <2>8, <2>9, <2>10 DEF OnConnection
  <1>7. ASSUME NEW w \in Workers, Work(w) PROVE LifeInv'
    <2>1. CASE Take(w) \/ EndParse(w) \/ Handle(w)
      BY <1>2, <2>1 DEF Take, EndParse, Handle
    <2>2. CASE QueueSend(w)
      <3>1. PICK c, to : c = wconn[w] /\ to = loopOf[c]
        OBVIOUS
      <3>2. QueueEffect({}, {<<to, "sendInLoop", c>>}) /\ "sendInLoop" \notin Lifecycle
        BY <2>2, <3>1, QueueSendQueues DEF Lifecycle
      <3>3. Aside /\ backlog' = backlog
        BY <2>2 DEF QueueSend, channelVars, tcpVars, serverVars
      <3> QED BY <3>2, <3>3, LifeElsewhere
    <2> QED BY <1>7, <2>1, <2>2 DEF Work
  <1> QED BY <1>3, <1>4, <1>5, <1>6, <1>7 DEF Next, LoopThread, Quiet

-----------------------------------------------------------------------------
\* The loops, at every step.
Ready(l) == ReadyConnections({c \in Channels : loopOf[c] = l}) \cup ReadyAcceptor(l)

LEMMA ReadyIs ==
    ASSUME TypeOK, LifeInv, FdsInv, NEW l \in Loops
    PROVE  /\ IsFiniteSet(Ready(l))
           /\ Ready(l) \subseteq (Channels \cup {Acceptor}) \X SUBSET Revents
           /\ \A e \in Ready(l) :
                 /\ e[2] # {}
                 /\ e[1] \in Channels => /\ loopOf[e[1]] = l /\ state[e[1]] = "kConnected"
                                         /\ e = <<e[1], ReadyEvents(e[1])>>
                 /\ e[1] \notin Channels => e = <<Acceptor, {"IN"}>>
  <1> DEFINE mine == {c \in Channels : loopOf[c] = l}
             up == {d \in mine : index[d] = "kAdded" /\ ReadyEvents(d) # {}}
  <1>1. \A d \in up : d \in Channels /\ loopOf[d] = l /\ state[d] = "kConnected" /\ d \in connections
    BY DEF LifeInv, Life
  <1>2. up \subseteq OpenFds
    BY <1>1 DEF OpenFds, Owned
  <1>3. IsFiniteSet(up)
    BY <1>2, FS_Subset DEF FdsInv
  <1>4. ReadyConnections(mine) = {<<c, ReadyEvents(c)>> : c \in up}
    BY DEF ReadyConnections
  <1>5. IsFiniteSet({<<c, ReadyEvents(c)>> : c \in up})
    <2> DEFINE f == [c \in up |-> <<c, ReadyEvents(c)>>]
               T == {<<c, ReadyEvents(c)>> : c \in up}
    <2>1. f \in Surjection(up, T)
      BY DEF Surjection
    <2> HIDE DEF f, T, up
    <2> QED BY <1>3, <2>1, FS_Surjection DEF T
  <1>6. IsFiniteSet(ReadyAcceptor(l))
    BY FS_EmptySet, FS_Singleton DEF ReadyAcceptor
  <1>7. IsFiniteSet(Ready(l))
    BY <1>4, <1>5, <1>6, FS_Union DEF Ready
  <1>8. {"IN"} \subseteq Revents
    <2>1. CallbackOrder[3] = "IN" /\ 3 \in DOMAIN CallbackOrder
      BY DEF CallbackOrder
    <2> QED BY <2>1 DEF Revents
  <1>9. ASSUME NEW e \in ReadyConnections(mine)
        PROVE  /\ e \in (Channels \cup {Acceptor}) \X SUBSET Revents
               /\ e[2] # {} /\ e[1] \in Channels
               /\ loopOf[e[1]] = l /\ state[e[1]] = "kConnected" /\ e = <<e[1], ReadyEvents(e[1])>>
    <2>1. PICK d \in up : e = <<d, ReadyEvents(d)>>
      BY <1>4, <1>9
    <2>2. ReadyEvents(d) \subseteq Revents /\ ReadyEvents(d) # {}
      BY <2>1 DEF ReadyEvents
    <2> QED BY <1>1, <2>1, <2>2
  <1>10. ASSUME NEW e \in ReadyAcceptor(l)
         PROVE  /\ e \in (Channels \cup {Acceptor}) \X SUBSET Revents
                /\ e[2] # {} /\ e[1] \notin Channels /\ e = <<Acceptor, {"IN"}>>
    <2>1. e = <<Acceptor, {"IN"}>>
      BY <1>10 DEF ReadyAcceptor
    <2> QED BY <1>8, <2>1, HttpAssumption
  <1> QED BY <1>7, <1>9, <1>10 DEF Ready

LEMMA ThreadsStep ==
    ASSUME TypeOK, LoopsInv, LifeInv, EventsInv, WorkersInv, FdsInv, [Next]_vars
    PROVE  ThreadsInv'
  <1>0. ThreadsInv /\ LoopTypeOK /\ Base \in Loops
    BY TypesSplit, ServerAssumption
  <1>1. CASE UNCHANGED loopVars
    BY <1>0, <1>1, StillKeeps
  <1>2. ASSUME NEW c \in Channels, Client(c) PROVE ThreadsInv'
    BY <1>1, <1>2 DEF Client, Connect, Send, Hangup
  <1>3. ASSUME NEW l \in Loops, PollLoop(l) PROVE ThreadsInv'
    <2>1. Poll(l, Ready(l))
      BY <1>3 DEF PollLoop, Ready
    <2>2. /\ IsFiniteSet(Ready(l))
          /\ Ready(l) \subseteq (Channels \cup {Acceptor}) \X SUBSET Revents
      BY ReadyIs
    <2> QED BY <1>0, <2>1, <2>2, PollKeeps
  <1>4. ASSUME NEW l \in Loops, LoopStepOnly(l) PROVE ThreadsInv'
    BY <1>0, <1>4, LoopStepKeeps DEF LoopStepOnly
  <1>5. ASSUME NEW l \in Loops, NEW c \in Channels, OnConnection(l, c) PROVE ThreadsInv'
    <2>1. CASE Accept(c)
      BY <1>0, <2>1, NewConnectionQueues, RefuseConnectionQueues, HandlesKeeps DEF Accept
    <2>2. CASE RunRemove(c)
      BY <1>0, <2>2, RunRemoveQueues, RunsKeeps
    <2>3. CASE RunEstablished(l, c)
      BY <1>0, <2>3, RunEstablishedQueues, RunsKeeps
    <2>4. CASE HandleRead(l, c)
      BY <1>0, <2>4, HandleReadQueues, HandlesKeeps
    <2>5. CASE HandleEof(l, c)
      BY <1>0, <2>5, Ends, CloseConnectionQueues, HandlesKeeps
    <2>6. CASE HandleHup(l, c)
      BY <1>0, <2>6, HandleHupQueues, HandlesKeeps
    <2>7. CASE HandleOther(l, c)
      BY <1>0, <2>7, HandleErrorQueues, HandleWriteQueues, HandlesKeeps DEF HandleOther
    <2>8. CASE RunDestroyed(l, c)
      BY <1>0, <2>8, RunDestroyedQueues, RunsKeeps
    <2>9. CASE RunWriteComplete(l, c)
      BY <1>0, <2>9, RunWriteCompleteQueues, RunsKeeps
    <2>10. CASE \E m \in Messages : RunSend(l, c, m)
      BY <1>0, <2>10, RunSendQueues, RunsKeeps
    <2> QED BY <1>5, <2>1, <2>2, <2>3, <2>4, <2>5, <2>6, <2>7, <2>8, <2>9, <2>10 DEF OnConnection
  <1>6. ASSUME NEW w \in Workers, Work(w) PROVE ThreadsInv'
    <2>1. CASE Take(w) \/ EndParse(w) \/ Handle(w)
      BY <1>1, <2>1 DEF Take, EndParse, Handle
    <2>2. CASE QueueSend(w)
      <3>1. PICK c, to : c = wconn[w] /\ to = loopOf[c]
        OBVIOUS
      <3>2. w \notin Loops /\ Passes(w)
        BY <2>2, <3>1, QueueSendQueues
      <3>3. UNCHANGED <<phase, active, functors, next>>
        BY <2>2 DEF QueueSend
      <3> QED BY <1>0, <3>2, <3>3, QueuesKeeps
    <2> QED BY <1>6, <2>1, <2>2 DEF Work
  <1> QED BY <1>1, <1>2, <1>3, <1>4, <1>5, <1>6 DEF Next, LoopThread, Quiet, vars

-----------------------------------------------------------------------------
\* Events are those of connections that are not destroyed.
\* What a step has to do for that, loop by loop: events of before, or those of poll().
EventsFrom(l) ==
    /\ \A i \in DOMAIN active'[l] :
          /\ active'[l][i][2] # {}
          /\ \A c \in Channels : active'[l][i][1] = c =>
                Event(l, c)' /\ ("IN" \in active'[l][i][2] => state'[c] = "kConnected")
    /\ \A i, j \in DOMAIN active'[l] : active'[l][j][1] = active'[l][i][1] => i = j

LEMMA EventsAll == ASSUME \A l \in Loops : EventsFrom(l) PROVE EventsInv'
  BY DEF EventsInv, EventsFrom

\* Events stay valid for connections that stay.
EventKept(l) ==
    \A c \in Channels : Event(l, c) => Event(l, c)' /\ (state[c] = "kConnected" => state'[c] = "kConnected")

LEMMA EventsSame ==
    ASSUME EventsInv, NEW l \in Loops, EventKept(l), active'[l] = active[l]
    PROVE  EventsFrom(l)
  BY DEF EventsInv, EventsFrom, EventKept

\* The first event of loop l has been handled as far as r goes, and it was of channel c.
LEMMA EventsHandled ==
    ASSUME ThreadsInv, EventsInv, NEW l \in Loops, NEW r, NEW c, Handles(l, r), Head(active[l])[1] = c,
           \A d \in Channels : Event(l, d) => Event(l, d)',
           \A d \in Channels : Event(l, d) /\ state[d] = "kConnected" =>
              state'[d] = "kConnected" \/ (d = c /\ r = "IN")
    PROVE  EventsFrom(l)
  <1> DEFINE q == active[l]
             e == <<q[1][1], q[1][2] \ {r}>>
  <1>1. /\ 1 \in DOMAIN q /\ r \in q[1][2] /\ q[1] = Head(q) /\ q[1] \in EventSet
        /\ \/ active'[l] = Tail(q)
           \/ active'[l] = <<e>> \o Tail(q) /\ e \in EventSet /\ e[2] # {}
    BY HandledEvents
  <1>2. q \in Seq(EventSet) /\ q # <<>>
    BY DEF ThreadsInv, ThreadTypes, EventSet, Handles
  <1>3. /\ Tail(q) \in Seq(EventSet) /\ Len(Tail(q)) = Len(q) - 1
        /\ \A i \in 1..Len(q) - 1 : Tail(q)[i] = q[i + 1]
        /\ Len(q) \in Nat /\ DOMAIN q = 1..Len(q) /\ DOMAIN Tail(q) = 1..Len(q) - 1
    BY <1>2, HeadTailProperties, LenProperties
  <1>4. \A i \in DOMAIN Tail(q) : Tail(q)[i] = q[i + 1] /\ i + 1 \in DOMAIN q /\ i + 1 # 1
    BY <1>3
  <1>5. /\ \A i \in DOMAIN q : /\ q[i][2] # {}
                               /\ \A d \in Channels : q[i][1] = d =>
                                     Event(l, d) /\ ("IN" \in q[i][2] => state[d] = "kConnected")
        /\ \A i, j \in DOMAIN q : q[j][1] = q[i][1] => i = j
    BY DEF EventsInv
  <1>6. \A i \in DOMAIN Tail(q) :
           /\ Tail(q)[i][2] # {} /\ Tail(q)[i][1] # c
           /\ \A d \in Channels : Tail(q)[i][1] = d =>
                 Event(l, d)' /\ ("IN" \in Tail(q)[i][2] => state'[d] = "kConnected")
    <2> TAKE i \in DOMAIN Tail(q)
    <2>1. Tail(q)[i] = q[i + 1] /\ i + 1 \in DOMAIN q /\ i + 1 # 1
      BY <1>4
    <2>2. q[i + 1][1] # q[1][1] /\ q[1][1] = c
      BY <1>1, <1>5, <2>1
    <2>3. q[i + 1][2] # {} /\ \A d \in Channels : q[i + 1][1] = d =>
              Event(l, d) /\ ("IN" \in q[i + 1][2] => state[d] = "kConnected")
      BY <1>5, <2>1
    <2> HIDE DEF q
    <2> QED BY <2>1, <2>2, <2>3
  <1>7. \A i, j \in DOMAIN Tail(q) : Tail(q)[j][1] = Tail(q)[i][1] => i = j
    <2> TAKE i, j \in DOMAIN Tail(q)
    <2>1. Tail(q)[j][1] = Tail(q)[i][1] => i + 1 = j + 1
      BY <1>4, <1>5
    <2> QED BY <1>3, <2>1
  <1>8. CASE active'[l] = Tail(q)
    BY <1>6, <1>7, <1>8 DEF EventsFrom
  <1>9. CASE active'[l] = <<e>> \o Tail(q) /\ e \in EventSet /\ e[2] # {}
    <2>1. /\ Len(<<e>> \o Tail(q)) = 1 + Len(Tail(q))
          /\ \A i \in 1..1 + Len(Tail(q)) : (<<e>> \o Tail(q))[i] = IF i <= 1 THEN e ELSE Tail(q)[i - 1]
          /\ <<e>> \o Tail(q) \in Seq(EventSet)
      <3> DEFINE t == Tail(q)
      <3>1. <<e>> \in Seq(EventSet) /\ Len(<<e>>) = 1 /\ \A i \in 1..1 : <<e>>[i] = e
        BY <1>9
      <3> HIDE DEF e, t
      <3> QED BY <1>3, <3>1, ConcatProperties
    <2>2. DOMAIN active'[l] = 1..Len(q)
      BY <1>3, <1>9, <2>1, LenProperties
    <2> HIDE DEF e
    <2>3. \A i \in DOMAIN active'[l] :
             \/ i = 1 /\ active'[l][i] = e
             \/ i # 1 /\ i - 1 \in DOMAIN Tail(q) /\ active'[l][i] = Tail(q)[i - 1]
      BY <1>3, <1>9, <2>1, <2>2
    <2>4. e[1] = c /\ e[2] # {} /\ ("IN" \in e[2] => "IN" \in q[1][2] /\ r # "IN")
      BY <1>1, <1>9 DEF e
    <2>5. \A d \in Channels : c = d => Event(l, d)' /\ ("IN" \in e[2] => state'[d] = "kConnected")
      BY <1>1, <1>5, <2>4
    <2>6. \A i \in DOMAIN active'[l] :
             /\ active'[l][i][2] # {}
             /\ \A d \in Channels : active'[l][i][1] = d =>
                   Event(l, d)' /\ ("IN" \in active'[l][i][2] => state'[d] = "kConnected")
      BY <1>6, <2>3, <2>4, <2>5
    <2>7. \A i, j \in DOMAIN active'[l] : active'[l][j][1] = active'[l][i][1] => i = j
      <3> TAKE i, j \in DOMAIN active'[l]
      <3> HAVE active'[l][j][1] = active'[l][i][1]
      <3>1. CASE i = 1 \/ j = 1
        BY <1>6, <2>3, <2>4, <3>1
      <3>2. CASE i # 1 /\ j # 1
        <4>1. i - 1 \in DOMAIN Tail(q) /\ j - 1 \in DOMAIN Tail(q) /\ i - 1 = j - 1
          BY <1>7, <2>3, <3>2
        <4>2. i \in Nat /\ j \in Nat
          BY <1>3, <2>2
        <4> QED BY <4>1, <4>2
      <3> QED BY <3>1, <3>2
    <2> QED BY <2>6, <2>7 DEF EventsFrom
  <1> QED BY <1>1, <1>8, <1>9

LEMMA EventsPolled ==
    ASSUME TypeOK, LoopsInv, LifeInv, FdsInv, NEW l \in Loops, PollLoop(l)
    PROVE  EventsFrom(l) /\ \A k \in Loops \ {l} : active'[k] = active[k]
  <1>0. ThreadsInv
    BY TypesSplit
  <1>1. /\ IsFiniteSet(Ready(l))
        /\ Ready(l) \subseteq (Channels \cup {Acceptor}) \X SUBSET Revents
        /\ \A e \in Ready(l) :
                 /\ e[2] # {}
                 /\ e[1] \in Channels => /\ loopOf[e[1]] = l /\ state[e[1]] = "kConnected"
                                         /\ e = <<e[1], ReadyEvents(e[1])>>
                 /\ e[1] \notin Channels => e = <<Acceptor, {"IN"}>>
    BY ReadyIs
  <1>2. Poll(l, Ready(l)) /\ UNCHANGED <<state, connections, loopOf>>
    BY DEF PollLoop, Ready, tcpVars, serverVars
  <1>3. /\ \A k \in Loops \ {l} : active'[k] = active[k]
        /\ \A i \in DOMAIN active'[l] : active'[l][i] \in Ready(l) \cup {<<Wakeup, {"IN"}>>}
        /\ \A i, j \in DOMAIN active'[l] : active'[l][i] = active'[l][j] => i = j
    BY <1>0, <1>1, <1>2, Polled
  <1>4. Wakeup \notin Channels /\ Acceptor \notin Channels /\ Wakeup # Acceptor
    BY HttpAssumption DEF Wakeup, Acceptor
  <1>5. ASSUME NEW e \in Ready(l) \cup {<<Wakeup, {"IN"}>>}
        PROVE  /\ e[2] # {}
               /\ \A c \in Channels : e[1] = c => Event(l, c)' /\ ("IN" \in e[2] => state'[c] = "kConnected")
    <2>1. CASE e \in Ready(l)
      <3> SUFFICES ASSUME NEW c \in Channels, e[1] = c PROVE Event(l, c)' /\ state'[c] = "kConnected"
        BY <1>1, <2>1
      <3>1. loopOf'[c] = l /\ state'[c] = "kConnected" /\ c \in connections'
        BY <1>1, <1>2, <2>1 DEF LifeInv, Life
      <3> QED BY <3>1 DEF Event
    <2>2. CASE e = <<Wakeup, {"IN"}>>
      BY <1>4, <2>2
    <2> QED BY <2>1, <2>2
  <1>6. ASSUME NEW e \in Ready(l) \cup {<<Wakeup, {"IN"}>>}, NEW f \in Ready(l) \cup {<<Wakeup, {"IN"}>>},
               e[1] = f[1]
        PROVE  e = f
    <2>1. CASE e[1] \in Channels
      BY <1>1, <1>4, <1>6, <2>1
    <2>2. CASE e[1] \notin Channels
      BY <1>1, <1>4, <1>6, <2>2
    <2> QED BY <2>1, <2>2
  <1>7. EventsFrom(l)
    BY <1>3, <1>5, <1>6 DEF EventsFrom
  <1> QED BY <1>3, <1>7

LEMMA EventStays ==
    ASSUME NEW l \in Loops, NEW d \in Channels, Event(l, d), loopOf'[d] = loopOf[d],
           state'[d] \in {"kConnected", "kDisconnected"},
           d \in connections => d \in connections' \/ Queued(l, "connectDestroyed", d)',
           Queued(l, "connectDestroyed", d) => Queued(l, "connectDestroyed", d)'
    PROVE  Event(l, d)'
  BY DEF Event

\* Nothing is destroyed, removed or closed.
LEMMA EventsAside ==
    ASSUME NEW out, NEW in, QueueEffect(out, in), \A k \in Loops, d \in Channels : <<k, "connectDestroyed", d>> \notin out,
           UNCHANGED <<state, loopOf, connections>>
    PROVE  \A l \in Loops : EventKept(l)
  <1> SUFFICES ASSUME NEW l \in Loops, NEW c \in Channels, Event(l, c) PROVE Event(l, c)'
    BY DEF EventKept
  <1>1. Queued(l, "connectDestroyed", c) => Queued(l, "connectDestroyed", c)'
    BY DEF QueueEffect, Operations, Lifecycle
  <1>2. state'[c] \in {"kConnected", "kDisconnected"}
    BY DEF Event
  <1> QED BY <1>1, <1>2, EventStays

LEMMA HandledAside ==
    ASSUME ThreadsInv, EventsInv, NEW l \in Loops, NEW r, Handles(l, r), \A k \in Loops : EventKept(k)
    PROVE  EventsInv'
  <1>1. \A k \in Loops \ {l} : active'[k] = active[k]
    BY HandledEvents
  <1>2. EventsFrom(l)
    <2>1. PICK c : c = Head(active[l])[1]
      OBVIOUS
    <2>2. \A d \in Channels : /\ Event(l, d) => Event(l, d)'
                              /\ Event(l, d) /\ state[d] = "kConnected" => state'[d] = "kConnected"
      BY DEF EventKept
    <2> QED BY <2>1, <2>2, EventsHandled DEF EventKept
  <1>3. \A k \in Loops \ {l} : EventsFrom(k)
    BY <1>1, EventsSame
  <1> QED BY <1>2, <1>3, EventsAll

LEMMA EventsClosed ==
    ASSUME TypeOK, LoopsInv, EventsInv, NEW l \in Loops, NEW c \in Channels,
           Handling(l, c, "IN"), CloseConnection(l, c, "IN")
    PROVE  EventsInv'
  <1>0. ThreadsInv /\ TcpTypeOK
    BY TypesSplit
  <1>1. /\ Handles(l, "IN") /\ Head(active[l])[1] = c /\ active[l] # <<>>
        /\ QueueEffect({}, {<<Base, "removeConnection", c>>})
    BY CloseConnectionQueues DEF Handles
  <1>2. /\ UNCHANGED <<connections, loopOf>>
        /\ \A d \in Channels : state'[d] = IF d = c THEN "kDisconnected" ELSE state[d]
    BY <1>0 DEF CloseConnection, Close, RemoveConnection, serverVars, TcpTypeOK
  <1>3. \A k \in Loops, d \in Channels : Event(k, d) => Event(k, d)'
    <2> SUFFICES ASSUME NEW k \in Loops, NEW d \in Channels, Event(k, d) PROVE Event(k, d)'
      OBVIOUS
    <2>1. Queued(k, "connectDestroyed", d) => Queued(k, "connectDestroyed", d)'
      BY <1>1 DEF QueueEffect, Operations, Lifecycle
    <2>2. state'[d] \in {"kConnected", "kDisconnected"}
      BY <1>2 DEF Event
    <2> QED BY <1>2, <2>1, <2>2, EventStays
  <1>4. EventsFrom(l)
    BY <1>0, <1>1, <1>2, <1>3, EventsHandled
  <1>5. \A k \in Loops \ {l} : active'[k] = active[k]
    BY <1>0, <1>1, HandledEvents
  <1>6. ASSUME NEW k \in Loops \ {l} PROVE EventsFrom(k)
    <2>1. Event(l, c)
      BY <1>0, <1>1, HandlingEvent
    <2>2. ~ Event(k, c)
      BY <2>1 DEF Event
    <2>3. EventKept(k)
      BY <1>2, <1>3, <2>2 DEF EventKept
    <2> QED BY <1>5, <2>3, EventsSame
  <1> QED BY <1>4, <1>6, EventsAll

LEMMA EventsStep ==
    ASSUME TypeOK, LoopsInv, LifeInv, EventsInv, WorkersInv, FdsInv, [Next]_vars
    PROVE  EventsInv'
  <1> DEFINE Aside == UNCHANGED <<state, loopOf, connections>>
  <1>0. ThreadsInv /\ LoopTypeOK /\ TcpTypeOK /\ ServerTypeOK /\ Base \in Loops
    BY TypesSplit, ServerAssumption
  <1>1. ASSUME \A k \in Loops : EventKept(k), active' = active PROVE EventsInv'
    BY <1>1, EventsSame, EventsAll
  <1>2. ASSUME UNCHANGED <<loopVars, tcpVars, connections, loopOf>> PROVE EventsInv'
    <2>1. QueueEffect({}, {})
      BY <1>0, <1>2, QueuesKept DEF loopVars
    <2> QED BY <1>1, <1>2, <2>1, EventsAside DEF loopVars, tcpVars
  <1>3. ASSUME NEW c \in Channels, Client(c) PROVE EventsInv'
    BY <1>2, <1>3 DEF Client, Connect, PeerConnects, Send, Hangup, serverVars
  <1>4. ASSUME NEW l \in Loops, PollLoop(l) PROVE EventsInv'
    <2>1. QueueEffect({}, {})
      BY <1>0, <1>4, QueuesKept DEF PollLoop, Poll
    <2>2. Aside
      BY <1>4 DEF PollLoop, tcpVars, serverVars
    <2>3. \A k \in Loops : EventKept(k)
      BY <2>1, <2>2, EventsAside
    <2>4. EventsFrom(l) /\ \A k \in Loops \ {l} : active'[k] = active[k]
      BY <1>4, EventsPolled
    <2> QED BY <2>3, <2>4, EventsSame, EventsAll
  <1>5. ASSUME NEW l \in Loops, LoopStepOnly(l) PROVE EventsInv'
    <2>1. QueueEffect({}, {})
      BY <1>0, <1>5, QueuesKept DEF LoopStepOnly, LoopStep, HandleWakeup
    <2>2. Aside
      BY <1>5 DEF LoopStepOnly, tcpVars, serverVars
    <2>3. \A k \in Loops : EventKept(k)
      BY <2>1, <2>2, EventsAside
    <2>4. CASE HandleWakeup(l)
      <3>1. Handles(l, "IN")
        BY <2>4, HandlingHandles DEF HandleWakeup
      <3> QED BY <1>0, <2>3, <3>1, HandledAside
    <2>5. CASE TakeFunctors(l) \/ FunctorsDone(l)
      BY <1>1, <2>3, <2>5 DEF TakeFunctors, FunctorsDone
    <2> QED BY <1>5, <2>4, <2>5 DEF LoopStepOnly, LoopStep
  <1>6. ASSUME NEW l \in Loops, NEW r, Handles(l, r), NEW in, QueueEffect({}, in), Aside PROVE EventsInv'
    <2>1. \A k \in Loops : EventKept(k)
      BY <1>6, EventsAside
    <2> QED BY <1>0, <1>6, <2>1, HandledAside
  <1>7. ASSUME NEW l \in Loops, NEW c \in Channels, OnConnection(l, c) PROVE EventsInv'
    <2>1. CASE Accept(c)
      <3>1. CASE NewConnection(c)
        <4>1. PICK to : to = GetNextLoop
          OBVIOUS
        <4>2. QueueEffect({}, {<<to, "connectEstablished", c>>}) /\ Handles(Base, "IN")
          BY <3>1, <4>1, NewConnectionQueues
        <4>3. /\ c \in backlog /\ connections' = connections \cup {c}
              /\ \A d \in Channels \ {c} : state'[d] = state[d] /\ loopOf'[d] = loopOf[d]
          BY <1>0, <3>1 DEF NewConnection, TcpTypeOK, ServerTypeOK
        <4>4. state[c] = "none"
          BY <4>3 DEF LifeInv, Life
        <4>5. ASSUME NEW k \in Loops PROVE EventKept(k)
          <5> SUFFICES ASSUME NEW d \in Channels, Event(k, d)
                       PROVE  Event(k, d)' /\ (state[d] = "kConnected" => state'[d] = "kConnected")
            BY DEF EventKept
          <5>1. d # c /\ state[d] \in {"kConnected", "kDisconnected"}
            BY <4>4 DEF Event
          <5>2. Queued(k, "connectDestroyed", d) => Queued(k, "connectDestroyed", d)'
            BY <4>2 DEF QueueEffect, Operations, Lifecycle
          <5> QED BY <4>3, <5>1, <5>2, EventStays
        <4> QED BY <1>0, <4>2, <4>5, HandledAside
      <3>2. CASE RefuseConnection(c)
        <4>1. QueueEffect({}, {}) /\ Handles(Base, "IN")
          BY <3>2, RefuseConnectionQueues
        <4>2. Aside
          BY <3>2 DEF RefuseConnection, tcpVars
        <4> QED BY <1>0, <1>6, <4>1, <4>2
      <3> QED BY <2>1, <3>1, <3>2 DEF Accept
    <2>2. CASE RunRemove(c)
      <3>1. PICK to : to = loopOf[c]
        OBVIOUS
      <3>2. QueueEffect({<<Base, "removeConnection", c>>}, {<<to, "connectDestroyed", c>>})
        BY <2>2, <3>1, RunRemoveQueues
      <3>3. /\ connections' = connections \ {c} /\ UNCHANGED <<state, loopOf, active>>
        BY <2>2 DEF RunRemove, Ran, RemoveConnectionInLoop, tcpVars
      <3>4. ASSUME NEW k \in Loops PROVE EventKept(k)
        <4> SUFFICES ASSUME NEW d \in Channels, Event(k, d) PROVE Event(k, d)'
          BY <3>3 DEF EventKept
        <4>1. Queued(k, "connectDestroyed", d) => Queued(k, "connectDestroyed", d)'
          BY <3>2 DEF QueueEffect, Operations, Lifecycle
        <4>2. d = c => Queued(k, "connectDestroyed", d)'
          <5>1. d = c => k = to
            BY <3>1 DEF Event
          <5> QED BY <3>2, <5>1 DEF QueueEffect, Operations, Lifecycle
        <4>3. state'[d] \in {"kConnected", "kDisconnected"} /\ (d \in connections => d = c \/ d \in connections')
          BY <3>3 DEF Event
        <4> QED BY <3>3, <4>1, <4>2, <4>3, EventStays
      <3> QED BY <1>1, <3>3, <3>4
    <2>3. CASE RunEstablished(l, c)
      <3>1. QueueEffect({<<l, "connectEstablished", c>>}, {})
        BY <2>3, RunEstablishedQueues
      <3>2. /\ UNCHANGED <<active, connections, loopOf>>
            /\ \A d \in Channels : state'[d] = IF d = c THEN "kConnected" ELSE state[d]
        BY <1>0, <2>3 DEF RunEstablished, Ran, Establish, serverVars, TcpTypeOK
      <3>3. ASSUME NEW k \in Loops PROVE EventKept(k)
        <4> SUFFICES ASSUME NEW d \in Channels, Event(k, d) PROVE Event(k, d)'
          BY <3>2 DEF EventKept
        <4>1. Queued(k, "connectDestroyed", d) => Queued(k, "connectDestroyed", d)'
          BY <3>1 DEF QueueEffect, Operations, Lifecycle
        <4>2. state'[d] \in {"kConnected", "kDisconnected"}
          BY <3>2 DEF Event
        <4> QED BY <3>2, <4>1, <4>2, EventStays
      <3> QED BY <1>1, <3>2, <3>3
    <2>4. CASE HandleRead(l, c)
      <3>1. QueueEffect({}, {}) /\ Handles(l, "IN")
        BY <2>4, HandleReadQueues
      <3>2. Aside
        BY <2>4 DEF HandleRead, tcpVars, serverVars
      <3> QED BY <1>6, <3>1, <3>2
    <2>5. CASE HandleEof(l, c)
      BY <2>5, EventsClosed DEF HandleEof
    <2>6. CASE HandleHup(l, c)
      <3>1. QueueEffect({}, {}) /\ Handles(l, "HUP")
        BY <2>6, HandleHupQueues
      <3>2. Aside
        BY <2>6 DEF HandleHup, tcpVars, serverVars
      <3> QED BY <1>6, <3>1, <3>2
    <2>7. CASE HandleOther(l, c)
      <3>1. UNCHANGED <<loopOf, connections>>
        BY <2>7 DEF HandleOther, serverVars
      <3>2. CASE HandleReadError(l, c) \/ HandleError(l, c)
        <4>1. QueueEffect({}, {}) /\ \E r \in {"IN", "ERR"} : Handles(l, r)
          BY <3>2, HandleErrorQueues
        <4>2. Aside
          BY <3>1, <3>2 DEF HandleReadError, HandleError, tcpVars
        <4> QED BY <1>6, <4>1, <4>2
      <3>3. CASE HandleWrite(l, c)
        <4>1. Aside
          BY <3>1, <3>3, WriteEffect
        <4>2. Handles(l, "OUT") /\ (QueueEffect({}, {}) \/ QueueEffect({}, {<<l, "writeComplete", c>>}))
          BY <3>3, HandleWriteQueues
        <4> QED BY <1>6, <4>1, <4>2
      <3> QED BY <2>7, <3>2, <3>3 DEF HandleOther
    <2>8. CASE RunDestroyed(l, c)
      <3>1. QueueEffect({<<l, "connectDestroyed", c>>}, {}) /\ l = loopOf[c] /\ UNCHANGED state
        BY <2>8, LifeDestroyed, RunDestroyedQueues
      <3>2. UNCHANGED <<active, connections, loopOf>> /\ phase[l] = "functors"
        BY <2>8 DEF RunDestroyed, Ran, Running, serverVars
      <3>3. ASSUME NEW k \in Loops \ {l} PROVE EventKept(k)
        <4> SUFFICES ASSUME NEW d \in Channels, Event(k, d) PROVE Event(k, d)'
          BY <3>1 DEF EventKept
        <4>1. d # c
          BY <3>1 DEF Event
        <4>2. Queued(k, "connectDestroyed", d) => Queued(k, "connectDestroyed", d)'
          BY <3>1, <4>1 DEF QueueEffect, Operations, Lifecycle
        <4>3. state'[d] \in {"kConnected", "kDisconnected"}
          BY <3>1 DEF Event
        <4> QED BY <3>2, <4>2, <4>3, EventStays
      <3>4. EventsFrom(l)
        <4>1. active'[l] = <<>>
          BY <3>2 DEF LoopsInv
        <4> QED BY <4>1 DEF EventsFrom
      <3> QED BY <3>2, <3>3, <3>4, EventsSame, EventsAll
    <2>9. CASE RunWriteComplete(l, c)
      <3>1. QueueEffect({<<l, "writeComplete", c>>}, {})
        BY <2>9, RunWriteCompleteQueues
      <3>2. Aside /\ active' = active
        BY <2>9 DEF RunWriteComplete, Ran, tcpVars, serverVars
      <3>3. \A k \in Loops : EventKept(k)
        BY <3>1, <3>2, EventsAside
      <3> QED BY <1>1, <3>2, <3>3
    <2>10. CASE \E m \in Messages : RunSend(l, c, m)
      <3>1. PICK m \in Messages : RunSend(l, c, m)
        BY <2>10
      <3>2. QueueEffect({<<l, "sendInLoop", c>>}, {})
            \/ QueueEffect({<<l, "sendInLoop", c>>}, {<<l, "writeComplete", c>>})
        BY <3>1, RunSendQueues
      <3>3. Aside /\ active' = active
        BY <3>1, SendEffect DEF RunSend, Ran, serverVars
      <3>4. \A k \in Loops : EventKept(k)
        BY <3>2, <3>3, EventsAside
      <3> QED BY <1>1, <3>3, <3>4
    <2> QED BY <1>7, <2>1, <2>2, <2>3, <2>4, <2>5, <2>6, <2>7, <2>8, <2>9, <2>10 DEF OnConnection
  <1>8. ASSUME NEW w \in Workers, Work(w) PROVE EventsInv'
    <2>1. CASE Take(w) \/ EndParse(w) \/ Handle(w)
      BY <1>2, <2>1 DEF Take, EndParse, Handle, serverVars
    <2>2. CASE QueueSend(w)
      <3>1. PICK c, to : c = wconn[w] /\ to = loopOf[c]
        OBVIOUS
      <3>2. QueueEffect({}, {<<to, "sendInLoop", c>>})
        BY <2>2, <3>1, QueueSendQueues
      <3>3. Aside /\ active' = active
        BY <2>2 DEF QueueSend, tcpVars, serverVars
      <3>4. \A k \in Loops : EventKept(k)
        BY <3>2, <3>3, EventsAside
      <3> QED BY <1>1, <3>3, <3>4
    <2> QED BY <1>8, <2>1, <2>2 DEF Work
  <1>9. CASE UNCHANGED vars
    BY <1>2, <1>9 DEF vars, serverVars
  <1> QED BY <1>3, <1>4, <1>5, <1>7, <1>8, <1>9 DEF Next, LoopThread, Quiet

-----------------------------------------------------------------------------
\* Tasks, workers and answers are for connections that have been up.
LEMMA WorkersKept ==
    ASSUME WorkersInv, NEW out, NEW in, QueueEffect(out, in),
           \A l \in Loops, c \in Channels, op \in {"sendInLoop", "writeComplete"} : <<l, op, c>> \in in => Been(c),
           \A c \in Channels :
              /\ Been(c) => Been(c)'
              /\ TaskFor(c)' => TaskFor(c) \/ Been(c)
              /\ WorkerFor(c)' => WorkerFor(c) \/ Been(c)
              /\ ~ Been(c) => /\ outputBuffer'[c] = outputBuffer[c] /\ accepted'[c] = accepted[c]
                              /\ inputBuffer'[c] = inputBuffer[c] /\ handled'[c] = handled[c],
           \A w \in Workers : wpc'[w] = "take" <=> wconn'[w] = Nobody
    PROVE  WorkersInv'
  <1>1. \A l \in Loops, c \in Channels, op \in {"sendInLoop", "writeComplete"} :
           Queued(l, op, c)' => Queued(l, op, c) \/ Been(c)
    BY DEF QueueEffect, Operations
  <1>2. \A c \in Channels, l \in Loops : Queued(l, "sendInLoop", c)' \/ Queued(l, "writeComplete", c)' => Been(c)'
    BY <1>1 DEF WorkersInv
  <1>3. \A c \in Channels : /\ TaskFor(c)' \/ WorkerFor(c)' => Been(c)'
                            /\ Been(c)' \/ (outputBuffer'[c] = <<>> /\ accepted'[c] = <<>> /\ inputBuffer'[c] = 0
                                            /\ handled'[c] = 0)
    BY DEF WorkersInv
  <1> QED BY <1>2, <1>3 DEF WorkersInv

\* The workers are not concerned.
LEMMA WorkersAside ==
    ASSUME WorkersInv, NEW out, NEW in, QueueEffect(out, in),
           \A l \in Loops, c \in Channels, op \in {"sendInLoop", "writeComplete"} : <<l, op, c>> \in in => Been(c),
           \A c \in Channels :
              /\ Been(c) => Been(c)'
              /\ ~ Been(c) => outputBuffer'[c] = outputBuffer[c] /\ accepted'[c] = accepted[c],
           UNCHANGED <<tasks, wpc, wconn, inputBuffer, handled>>
    PROVE  WorkersInv'
  <1>1. \A c \in Channels : (TaskFor(c)' => TaskFor(c)) /\ (WorkerFor(c)' => WorkerFor(c))
    BY DEF TaskFor, WorkerFor
  <1>2. \A w \in Workers : wpc'[w] = "take" <=> wconn'[w] = Nobody
    BY DEF WorkersInv
  <1> QED BY <1>1, <1>2, WorkersKept

LEMMA TaskFront ==
    ASSUME TypeOK, tasks # <<>>
    PROVE  /\ Head(tasks) \in Channels /\ TaskFor(Head(tasks))
           /\ Tail(tasks) \in Seq(Channels)
           /\ \A i \in DOMAIN Tail(tasks) : i + 1 \in DOMAIN tasks /\ Tail(tasks)[i] = tasks[i + 1] /\ i \in Nat
           /\ \A i \in DOMAIN tasks : i # 1 => i - 1 \in DOMAIN Tail(tasks) /\ tasks[i] = Tail(tasks)[i - 1]
           /\ 1 \in DOMAIN tasks /\ Head(tasks) = tasks[1]
  <1>1. /\ tasks \in Seq(Channels) /\ Len(tasks) \in Nat \ {0} /\ DOMAIN tasks = 1..Len(tasks)
    BY EmptySeq, LenProperties DEF TypeOK
  <1>2. /\ Head(tasks) = tasks[1] /\ Tail(tasks) \in Seq(Channels) /\ Len(Tail(tasks)) = Len(tasks) - 1
        /\ Head(tasks) \in Channels
        /\ \A i \in 1..Len(tasks) - 1 : Tail(tasks)[i] = tasks[i + 1]
    BY <1>1, HeadTailProperties
  <1>3. DOMAIN Tail(tasks) = 1..Len(tasks) - 1
    BY <1>2, LenProperties
  <1>4. 1 \in DOMAIN tasks
    BY <1>1
  <1>5. \A i \in DOMAIN Tail(tasks) : i + 1 \in DOMAIN tasks /\ Tail(tasks)[i] = tasks[i + 1] /\ i \in Nat
    BY <1>1, <1>2, <1>3
  <1>6. \A i \in DOMAIN tasks : i # 1 => i - 1 \in DOMAIN Tail(tasks) /\ tasks[i] = Tail(tasks)[i - 1]
    <2> TAKE i \in DOMAIN tasks
    <2> HAVE i # 1
    <2>1. i - 1 \in 1..Len(tasks) - 1 /\ (i - 1) + 1 = i
      BY <1>1
    <2> QED BY <1>2, <1>3, <2>1
  <1> QED BY <1>2, <1>4, <1>5, <1>6 DEF TaskFor

LEMMA TaskBack ==
    ASSUME TypeOK, NEW c \in Channels, tasks' = Append(tasks, c)
    PROVE  /\ tasks' \in Seq(Channels)
           /\ \A i \in DOMAIN tasks' : \/ i \in DOMAIN tasks /\ tasks'[i] = tasks[i]
                                       \/ i = Len(tasks) + 1 /\ tasks'[i] = c
           /\ \A i \in DOMAIN tasks : i \in DOMAIN tasks' /\ tasks'[i] = tasks[i]
           /\ Len(tasks) + 1 \in DOMAIN tasks' /\ tasks'[Len(tasks) + 1] = c
  <1>1. /\ tasks \in Seq(Channels) /\ Len(tasks) \in Nat /\ DOMAIN tasks = 1..Len(tasks)
    BY LenProperties DEF TypeOK
  <1>2. /\ tasks' \in Seq(Channels) /\ Len(tasks') = Len(tasks) + 1
        /\ \A i \in 1..Len(tasks) : tasks'[i] = tasks[i]
        /\ tasks'[Len(tasks) + 1] = c
    BY <1>1, AppendProperties
  <1>3. DOMAIN tasks' = 1..Len(tasks) + 1
    BY <1>2, LenProperties
  <1> QED BY <1>1, <1>2, <1>3

LEMMA WorkersStep ==
    ASSUME TypeOK, LoopsInv, LifeInv, EventsInv, WorkersInv, FdsInv, [Next]_vars
    PROVE  WorkersInv'
  <1> DEFINE Aside == UNCHANGED <<tasks, wpc, wconn, inputBuffer, handled>>
             TcpAside == UNCHANGED <<state, outputBuffer, accepted>>
  <1>0. ThreadsInv /\ LoopTypeOK /\ TcpTypeOK /\ ServerTypeOK /\ Base \in Loops
    BY TypesSplit, ServerAssumption
  <1>1. ASSUME NEW out, NEW in, QueueEffect(out, in), Aside, TcpAside,
               \A l \in Loops, c \in Channels, op \in {"sendInLoop", "writeComplete"} : <<l, op, c>> \in in => Been(c)
        PROVE  WorkersInv'
    <2>1. \A c \in Channels : Been(c) <=> Been(c)'
      BY <1>1 DEF Been
    <2> QED BY <1>1, <2>1, WorkersAside
  <1>2. ASSUME UNCHANGED loopVars, TcpAside PROVE QueueEffect({}, {})
    BY <1>0, <1>2, QueuesKept DEF loopVars
  <1>3. ASSUME UNCHANGED <<loopVars, tcpVars>>, Aside PROVE WorkersInv'
    BY <1>1, <1>2, <1>3 DEF tcpVars
  <1>4. ASSUME NEW c \in Channels, Client(c) PROVE WorkersInv'
    BY <1>3, <1>4 DEF Client, Connect, Send, Hangup, httpVars
  <1>5. ASSUME NEW l \in Loops, PollLoop(l) \/ LoopStepOnly(l) PROVE WorkersInv'
    <2>1. QueueEffect({}, {})
      BY <1>0, <1>5, QueuesKept DEF PollLoop, Poll, LoopStepOnly, LoopStep, HandleWakeup
    <2>2. Aside /\ TcpAside
      BY <1>5 DEF PollLoop, LoopStepOnly, tcpVars, httpVars
    <2> QED BY <1>1, <2>1, <2>2
  <1>6. ASSUME NEW l \in Loops, NEW c \in Channels, OnConnection(l, c) PROVE WorkersInv'
    <2>1. CASE Accept(c)
      <3>1. CASE NewConnection(c)
        <4>1. PICK to : to = GetNextLoop
          OBVIOUS
        <4>2. QueueEffect({}, {<<to, "connectEstablished", c>>})
          BY <3>1, <4>1, NewConnectionQueues
        <4>3. /\ c \in backlog /\ UNCHANGED <<outputBuffer, accepted>> /\ Aside
              /\ \A d \in Channels \ {c} : state'[d] = state[d]
          BY <1>0, <2>1, <3>1 DEF Accept, NewConnection, TcpTypeOK, httpVars
        <4>4. state[c] = "none"
          BY <4>3 DEF LifeInv, Life
        <4>5. \A d \in Channels : Been(d) => Been(d)'
          BY <4>3, <4>4 DEF Been
        <4> QED BY <4>2, <4>3, <4>5, WorkersAside
      <3>2. CASE RefuseConnection(c)
        <4>1. QueueEffect({}, {})
          BY <3>2, RefuseConnectionQueues
        <4>2. Aside /\ TcpAside
          BY <2>1, <3>2 DEF Accept, RefuseConnection, tcpVars, httpVars
        <4> QED BY <1>1, <4>1, <4>2
      <3> QED BY <2>1, <3>1, <3>2 DEF Accept
    <2>2. CASE RunRemove(c)
      <3>1. PICK to : to = loopOf[c]
        OBVIOUS
      <3>2. QueueEffect({<<Base, "removeConnection", c>>}, {<<to, "connectDestroyed", c>>})
        BY <2>2, <3>1, RunRemoveQueues
      <3>3. Aside /\ TcpAside
        BY <2>2 DEF RunRemove, tcpVars, httpVars
      <3> QED BY <1>1, <3>2, <3>3
    <2>3. CASE RunEstablished(l, c)
      <3>1. QueueEffect({<<l, "connectEstablished", c>>}, {})
        BY <2>3, RunEstablishedQueues
      <3>2. /\ Aside /\ UNCHANGED <<outputBuffer, accepted>>
            /\ \A d \in Channels : state'[d] = IF d = c THEN "kConnected" ELSE state[d]
        BY <1>0, <2>3 DEF RunEstablished, Establish, TcpTypeOK
      <3>3. \A d \in Channels : Been(d) => Been(d)'
        BY <3>2 DEF Been
      <3> QED BY <3>1, <3>2, <3>3, WorkersAside
    <2>4. CASE HandleRead(l, c)
      <3>1. QueueEffect({}, {}) /\ Handles(l, "IN") /\ Head(active[l])[1] = c
        BY <2>4, HandleReadQueues
      <3>2. TcpAside /\ UNCHANGED <<wpc, wconn, handled>>
        BY <2>4 DEF HandleRead, tcpVars
      <3>3. /\ tasks' = IF c \in s_http_map THEN Append(tasks, c) ELSE tasks
            /\ \A d \in Channels \ {c} : inputBuffer'[d] = inputBuffer[d]
        BY <2>4 DEF HandleRead, TypeOK
      <3>4. Been(c)
        BY <1>0, <3>1, HandlingEvent DEF Event, Been, Handles
      <3>5. \A d \in Channels : TaskFor(d)' => TaskFor(d) \/ Been(d)
        <4>1. CASE c \in s_http_map
          BY <3>3, <3>4, <4>1, TaskBack DEF TaskFor
        <4>2. CASE c \notin s_http_map
          BY <3>3, <4>2 DEF TaskFor
        <4> QED BY <4>1, <4>2
      <3>6. \A d \in Channels : (Been(d) => Been(d)') /\ (WorkerFor(d)' => WorkerFor(d))
        BY <3>2 DEF Been, WorkerFor
      <3>7. \A w \in Workers : wpc'[w] = "take" <=> wconn'[w] = Nobody
        BY <3>2 DEF WorkersInv
      <3> QED BY <3>1, <3>2, <3>3, <3>4, <3>5, <3>6, <3>7, WorkersKept
    <2>5. CASE HandleEof(l, c)
      <3>1. CloseConnection(l, c, "IN") /\ QueueEffect({}, {<<Base, "removeConnection", c>>})
        BY <2>5, Ends, CloseConnectionQueues
      <3>2. /\ Aside /\ UNCHANGED <<outputBuffer, accepted>>
            /\ \A d \in Channels : state'[d] = IF d = c THEN "kDisconnected" ELSE state[d]
        BY <1>0, <3>1 DEF CloseConnection, Close, TcpTypeOK
      <3>3. \A d \in Channels : Been(d) => Been(d)'
        BY <3>2 DEF Been
      <3> QED BY <3>1, <3>2, <3>3, WorkersAside
    <2>6. CASE HandleHup(l, c)
      <3>1. QueueEffect({}, {})
        BY <2>6, HandleHupQueues
      <3>2. Aside /\ TcpAside
        BY <2>6 DEF HandleHup, tcpVars, httpVars
      <3> QED BY <1>1, <3>1, <3>2
    <2>7. CASE HandleOther(l, c)
      <3>1. Aside
        BY <2>7 DEF HandleOther, httpVars
      <3>2. CASE HandleReadError(l, c) \/ HandleError(l, c)
        <4>1. QueueEffect({}, {})
          BY <3>2, HandleErrorQueues
        <4>2. TcpAside
          BY <3>2 DEF HandleReadError, HandleError, tcpVars
        <4> QED BY <1>1, <3>1, <4>1, <4>2
      <3>3. CASE HandleWrite(l, c)
        <4>1. Been(c) \/ ~ Writing(c)
          BY DEF Been, Writing, LifeInv, Life
        <4>2. UNCHANGED <<state, accepted>>
              /\ \A d \in Channels : ~ Been(d) => outputBuffer'[d] = outputBuffer[d]
          <5>1. CASE UNCHANGED outputBuffer
            BY <3>3, <5>1, WriteEffect
          <5>2. CASE state[c] = "kConnected" /\ \E n : outputBuffer' = [outputBuffer EXCEPT ![c] = Drop(@, n)]
            BY <1>0, <3>3, <5>2, WriteEffect DEF Been, TcpTypeOK
          <5> QED BY <3>3, <5>1, <5>2, WriteEffect
        <4>3. \A d \in Channels : Been(d) <=> Been(d)'
          BY <4>2 DEF Been
        <4>4. QueueEffect({}, {}) \/ (QueueEffect({}, {<<l, "writeComplete", c>>}) /\ Writing(c))
          BY <3>3, HandleWriteQueues
        <4> QED BY <3>1, <4>1, <4>2, <4>3, <4>4, WorkersAside
      <3> QED BY <2>7, <3>2, <3>3 DEF HandleOther
    <2>8. CASE RunDestroyed(l, c)
      <3>1. QueueEffect({<<l, "connectDestroyed", c>>}, {}) /\ UNCHANGED state
        BY <2>8, LifeDestroyed, RunDestroyedQueues
      <3>2. Aside /\ TcpAside
        BY <2>8, <3>1 DEF RunDestroyed, Destroy, httpVars
      <3> QED BY <1>1, <3>1, <3>2
    <2>9. CASE RunWriteComplete(l, c)
      <3>1. QueueEffect({<<l, "writeComplete", c>>}, {})
        BY <2>9, RunWriteCompleteQueues
      <3>2. Aside /\ TcpAside
        BY <2>9 DEF RunWriteComplete, tcpVars, httpVars
      <3> QED BY <1>1, <3>1, <3>2
    <2>10. CASE \E m \in Messages : RunSend(l, c, m)
      <3>1. PICK m \in Messages : RunSend(l, c, m)
        BY <2>10
      <3>2. QueueEffect({<<l, "sendInLoop", c>>}, {})
            \/ QueueEffect({<<l, "sendInLoop", c>>}, {<<l, "writeComplete", c>>})
        BY <3>1, RunSendQueues
      <3>3. Been(c)
        <4>1. Queued(l, "sendInLoop", c)
          BY <3>2 DEF QueueEffect, Operations
        <4> QED BY <4>1 DEF WorkersInv
      <3>4. Aside /\ state' = state
        BY <3>1, SendEffect DEF httpVars
      <3>5. \A d \in Channels : d # c => outputBuffer'[d] = outputBuffer[d] /\ accepted'[d] = accepted[d]
        <4>1. CASE UNCHANGED <<outputBuffer, accepted>>
          BY <4>1
        <4>2. CASE SendsDirectly(c, m)
          BY <1>0, <4>2 DEF SendsDirectly, TcpTypeOK
        <4>3. CASE SendsLater(c, m)
          BY <1>0, <4>3 DEF SendsLater, TcpTypeOK
        <4> QED BY <3>1, <4>1, <4>2, <4>3, SendEffect
      <3>6. \A d \in Channels : Been(d) <=> Been(d)'
        BY <3>4 DEF Been
      <3> QED BY <3>2, <3>3, <3>4, <3>5, <3>6, WorkersAside
    <2> QED BY <1>6, <2>1, <2>2, <2>3, <2>4, <2>5, <2>6, <2>7, <2>8, <2>9, <2>10 DEF OnConnection
  <1>7. ASSUME NEW w \in Workers, Work(w) PROVE WorkersInv'
    <2>0. /\ wpc \in [Workers -> {"take", "parse", "handle", "queue"}] /\ wconn \in [Workers -> Channels \cup {Nobody}]
          /\ handled \in [Channels -> Nat] /\ Nobody \notin Channels
      BY HttpAssumption DEF TypeOK
    <2>1. CASE Take(w)
      <3>1. QueueEffect({}, {}) /\ TcpAside /\ UNCHANGED <<inputBuffer, handled>>
        BY <1>2, <2>1 DEF Take, tcpVars
      <3>2. /\ tasks # <<>> /\ tasks' = Tail(tasks) /\ wconn' = [wconn EXCEPT ![w] = Head(tasks)]
            /\ wpc' = [wpc EXCEPT ![w] = "parse"]
        BY <2>1 DEF Take
      <3>3. \A d \in Channels : TaskFor(d)' => TaskFor(d)
        BY <3>2, TaskFront DEF TaskFor
      <3>4. \A d \in Channels : WorkerFor(d)' => WorkerFor(d) \/ TaskFor(d)
        BY <2>0, <3>2, TaskFront DEF WorkerFor
      <3>5. \A d \in Channels : (Been(d) <=> Been(d)') /\ (TaskFor(d) => Been(d))
        BY <3>1 DEF Been, WorkersInv
      <3>6. \A v \in Workers : wpc'[v] = "take" <=> wconn'[v] = Nobody
        <4>1. Head(tasks) # Nobody
          BY <2>0, <3>2, TaskFront
        <4> QED BY <2>0, <3>2, <4>1 DEF WorkersInv
      <3> QED BY <3>1, <3>3, <3>4, <3>5, <3>6, WorkersKept
    <2>2. CASE EndParse(w)
      <3>1. QueueEffect({}, {}) /\ TcpAside /\ UNCHANGED <<inputBuffer, handled, tasks>>
        BY <1>2, <2>2 DEF EndParse, tcpVars
      <3>2. /\ wpc[w] = "parse"
            /\ \/ wpc' = [wpc EXCEPT ![w] = "handle"] /\ wconn' = wconn
               \/ wpc' = [wpc EXCEPT ![w] = "take"] /\ wconn' = [wconn EXCEPT ![w] = Nobody]
        BY <2>2 DEF EndParse
      <3>3. \A d \in Channels : (TaskFor(d)' => TaskFor(d)) /\ (Been(d) <=> Been(d)')
        BY <3>1 DEF TaskFor, Been
      <3>4. \A d \in Channels : WorkerFor(d)' => WorkerFor(d)
        BY <2>0, <3>2 DEF WorkerFor
      <3>5. \A v \in Workers : wpc'[v] = "take" <=> wconn'[v] = Nobody
        BY <2>0, <3>2 DEF WorkersInv
      <3> QED BY <3>1, <3>3, <3>4, <3>5, WorkersKept
    <2>3. CASE Handle(w)
      <3>1. QueueEffect({}, {}) /\ TcpAside /\ UNCHANGED <<inputBuffer, tasks>>
        BY <1>2, <2>3 DEF Handle, tcpVars
      <3>2. /\ wpc[w] = "handle" /\ handled' = [handled EXCEPT ![wconn[w]] = @ + 1]
            /\ \/ wpc' = [wpc EXCEPT ![w] = "queue"] /\ wconn' = wconn
               \/ wpc' = [wpc EXCEPT ![w] = "take"] /\ wconn' = [wconn EXCEPT ![w] = Nobody]
        BY <2>3 DEF Handle
      <3>3. \A d \in Channels : (TaskFor(d)' => TaskFor(d)) /\ (Been(d) <=> Been(d)')
        BY <3>1 DEF TaskFor, Been
      <3>4. \A d \in Channels : WorkerFor(d)' => WorkerFor(d)
        BY <2>0, <3>2 DEF WorkerFor
      <3>5. \A v \in Workers : wpc'[v] = "take" <=> wconn'[v] = Nobody
        BY <2>0, <3>2 DEF WorkersInv
      <3>6. \A d \in Channels : ~ Been(d) => handled'[d] = handled[d]
        <4>1. \A d \in Channels : wconn[w] = d => Been(d)
          BY DEF WorkersInv, WorkerFor
        <4> QED BY <2>0, <3>2, <4>1
      <3> QED BY <3>1, <3>3, <3>4, <3>5, <3>6, WorkersKept
    <2>4. CASE QueueSend(w)
      <3>1. PICK c, to : c = wconn[w] /\ to = loopOf[c]
        OBVIOUS
      <3>2. QueueEffect({}, {<<to, "sendInLoop", c>>}) /\ c \in Channels
        BY <2>4, <3>1, QueueSendQueues
      <3>3. /\ TcpAside /\ UNCHANGED <<inputBuffer, handled, tasks>>
            /\ wpc' = [wpc EXCEPT ![w] = "take"] /\ wconn' = [wconn EXCEPT ![w] = Nobody]
        BY <2>4 DEF QueueSend, tcpVars
      <3>4. Been(c)
        BY <3>1, <3>2 DEF WorkersInv, WorkerFor
      <3>5. \A d \in Channels : (TaskFor(d)' => TaskFor(d)) /\ (Been(d) <=> Been(d)')
        BY <3>3 DEF TaskFor, Been
      <3>6. \A d \in Channels : WorkerFor(d)' => WorkerFor(d)
        BY <2>0, <3>3 DEF WorkerFor
      <3>7. \A v \in Workers : wpc'[v] = "take" <=> wconn'[v] = Nobody
        BY <2>0, <3>3 DEF WorkersInv
      <3> QED BY <3>2, <3>3, <3>4, <3>5, <3>6, <3>7, WorkersKept
    <2> QED BY <1>7, <2>1, <2>2, <2>3, <2>4 DEF Work
  <1>8. CASE UNCHANGED vars
    BY <1>3, <1>8 DEF vars, httpVars
  <1> QED BY <1>4, <1>5, <1>6, <1>7, <1>8 DEF Next, LoopThread, Quiet

-----------------------------------------------------------------------------
\* What goes out of a connection.
Unit == Messages \X {1, 2}

LEMMA BytesIs ==
    ASSUME NEW m \in Messages
    PROVE  Bytes(m) \in Seq(Unit) /\ Len(Bytes(m)) = 2 /\ Bytes(m)[1] = <<m, 1>> /\ Bytes(m)[2] = <<m, 2>>
  BY DEF Bytes, Unit

LEMMA FlattenIs ==
    ASSUME NEW ms \in Seq(Messages)
    PROVE  /\ Flatten(ms) \in Seq(Unit) /\ Len(Flatten(ms)) = 2 * Len(ms)
           /\ \A i \in 1..2 * Len(ms) : /\ (i + 1) \div 2 \in 1..Len(ms) /\ (i + 1) % 2 \in {0, 1}
                                        /\ Flatten(ms)[i] = Bytes(ms[(i + 1) \div 2])[((i + 1) % 2) + 1]
  <1>1. Len(ms) \in Nat
    BY LenProperties
  <1>2. \A i \in 1..2 * Len(ms) : (i + 1) \div 2 \in 1..Len(ms) /\ (i + 1) % 2 \in {0, 1}
    BY <1>1
  <1>3. \A i \in 1..2 * Len(ms) : Bytes(ms[(i + 1) \div 2])[((i + 1) % 2) + 1] \in Unit
    <2> TAKE i \in 1..2 * Len(ms)
    <2>1. PICK j \in 1..Len(ms), k \in {0, 1} : j = (i + 1) \div 2 /\ k = (i + 1) % 2
      BY <1>2
    <2>2. PICK m \in Messages : m = ms[j]
      BY <2>1, ElementOfSeq
    <2>3. Bytes(m)[k + 1] \in Unit
      BY <2>1, BytesIs DEF Unit
    <2> QED BY ONLY <2>1, <2>2, <2>3
  <1>4. Flatten(ms) \in [1..2 * Len(ms) -> Unit]
    BY <1>3 DEF Flatten
  <1>5. Flatten(ms) \in Seq(Unit) /\ Len(Flatten(ms)) = 2 * Len(ms)
    BY <1>1, <1>4
  <1> QED BY <1>2, <1>5 DEF Flatten

LEMMA FlattenEmpty == Flatten(<<>>) = <<>>
  <1>1. Flatten(<<>>) \in Seq(Unit) /\ Len(Flatten(<<>>)) = 2 * Len(<<>>)
    BY EmptySeq, FlattenIs
  <1> QED BY <1>1, EmptySeq

LEMMA FlattenAppend ==
    ASSUME NEW ms \in Seq(Messages), NEW m \in Messages
    PROVE  Flatten(Append(ms, m)) = Flatten(ms) \o Bytes(m)
  <1> DEFINE n == Len(ms)
             a == Append(ms, m)
             fa == Flatten(a)
             fm == Flatten(ms)
             b == Bytes(m)
  <1>1. /\ a \in Seq(Messages) /\ Len(a) = n + 1 /\ n \in Nat
        /\ \A i \in 1..n : a[i] = ms[i]
        /\ a[n + 1] = m
    BY LenProperties, AppendProperties
  <1>2. /\ fa \in Seq(Unit) /\ Len(fa) = 2 * (n + 1)
        /\ \A i \in 1..2 * (n + 1) : fa[i] = Bytes(a[(i + 1) \div 2])[((i + 1) % 2) + 1]
    <2> HIDE DEF a
    <2> QED BY <1>1, FlattenIs
  <1>3. /\ fm \in Seq(Unit) /\ Len(fm) = 2 * n
        /\ \A i \in 1..2 * n : /\ (i + 1) \div 2 \in 1..n
                               /\ fm[i] = Bytes(ms[(i + 1) \div 2])[((i + 1) % 2) + 1]
    BY FlattenIs
  <1>4. b \in Seq(Unit) /\ Len(b) = 2
    BY BytesIs
  <1> HIDE DEF n, a, fa, fm, b
  <1>5. /\ fm \o b \in Seq(Unit) /\ Len(fm \o b) = 2 * n + 2
        /\ \A i \in 1..2 * n + 2 : (fm \o b)[i] = IF i <= 2 * n THEN fm[i] ELSE b[i - 2 * n]
    <2>1. /\ fm \o b \in Seq(Unit) /\ Len(fm \o b) = Len(fm) + Len(b)
          /\ \A i \in 1..Len(fm) + Len(b) : (fm \o b)[i] = IF i <= Len(fm) THEN fm[i] ELSE b[i - Len(fm)]
      BY <1>3, <1>4, ConcatProperties
    <2> QED BY <1>1, <1>3, <1>4, <2>1
  <1>6. ASSUME NEW i \in 1..2 * n + 2 PROVE fa[i] = (fm \o b)[i]
    <2>1. i \in 1..2 * (n + 1) /\ i \in Nat
      BY <1>1
    <2>2. fa[i] = Bytes(a[(i + 1) \div 2])[((i + 1) % 2) + 1]
      BY <1>2, <2>1
    <2>3. CASE i <= 2 * n
      <3>1. i \in 1..2 * n
        BY <1>1, <2>3
      <3>2. a[(i + 1) \div 2] = ms[(i + 1) \div 2]
        BY <1>1, <1>3, <3>1
      <3>3. fa[i] = fm[i]
        BY <1>3, <2>2, <3>1, <3>2
      <3> QED BY <1>5, <2>3, <3>3
    <2>4. CASE i = 2 * n + 1
      <3>1. (i + 1) \div 2 = n + 1 /\ (i + 1) % 2 = 0 /\ i - 2 * n = 1 /\ ~ i <= 2 * n
        BY <1>1, <2>4
      <3>2. fa[i] = b[1]
        BY <1>1, <2>2, <3>1 DEF b
      <3> QED BY <1>5, <3>1, <3>2
    <2>5. CASE i = 2 * n + 2
      <3>1. (i + 1) \div 2 = n + 1 /\ (i + 1) % 2 = 1 /\ i - 2 * n = 2 /\ ~ i <= 2 * n
        BY <1>1, <2>5
      <3>2. fa[i] = b[2]
        BY <1>1, <2>2, <3>1 DEF b
      <3> QED BY <1>5, <3>1, <3>2
    <2>6. i <= 2 * n \/ i = 2 * n + 1 \/ i = 2 * n + 2
      BY <1>1, <2>1
    <2> QED BY <2>3, <2>4, <2>5, <2>6
  <1>7. Len(fa) = Len(fm \o b) /\ Len(fa) = 2 * n + 2
    BY <1>1, <1>2, <1>5
  <1>8. fa = fm \o b
    BY <1>2, <1>5, <1>6, <1>7, SeqEqual
  <1> QED BY <1>8 DEF fa, fm, b, a

\* A write takes the front and leaves the rest.
LEMMA WriteSplits ==
    ASSUME NEW S, NEW u \in Seq(S), NEW n \in 0..Len(u)
    PROVE  /\ SubSeq(u, 1, n) \in Seq(S) /\ Drop(u, n) \in Seq(S)
           /\ SubSeq(u, 1, n) \o Drop(u, n) = u
           /\ Drop(u, n) = <<>> <=> n = Len(u)
  <1>1. Len(u) \in Nat /\ \A i \in 1..Len(u) : u[i] \in S
    BY LenProperties, ElementOfSeq
  <1>2. SubSeq(u, 1, n) \in Seq(S)
    <2>1. \A i \in 1..n : u[i] \in S
      BY <1>1
    <2> QED BY <1>1, <2>1, SubSeqProperties
  <1>3. Drop(u, n) \in Seq(S) /\ Len(Drop(u, n)) = Len(u) - n
    <2>1. \A i \in n + 1..Len(u) : u[i] \in S
      BY <1>1
    <2>2. /\ SubSeq(u, n + 1, Len(u)) \in Seq(S)
          /\ Len(SubSeq(u, n + 1, Len(u))) = IF n + 1 <= Len(u) THEN Len(u) - (n + 1) + 1 ELSE 0
      BY <1>1, <2>1, SubSeqProperties
    <2>3. Len(u) - n = IF n + 1 <= Len(u) THEN Len(u) - (n + 1) + 1 ELSE 0
      BY <1>1
    <2> QED BY <2>2, <2>3 DEF Drop
  <1>4. SubSeq(u, 1, n) \o SubSeq(u, n + 1, Len(u)) = u
    <2>1. SubSeq(u, 1, n) \o SubSeq(u, n + 1, Len(u)) = SubSeq(u, 1, Len(u))
      <3>1. 1 \in 1..Len(u) + 1 /\ n \in 1 - 1..Len(u) /\ Len(u) \in n..Len(u)
        BY <1>1
      <3> QED BY <3>1, ConcatAdjacentSubSeq
    <2> QED BY <2>1, SubSeqFull
  <1>5. Drop(u, n) = <<>> <=> n = Len(u)
    BY <1>1, <1>3, EmptySeq
  <1> QED BY <1>2, <1>3, <1>4, <1>5 DEF Drop

\* One channel.
Up == {"kConnected", "kDisconnecting"}
OutputAt(c) ==
    /\ sent[c] \o outputBuffer[c] = Flatten(accepted[c])
    /\ state[c] \in Up => (outputBuffer[c] # <<>> <=> Writing(c))
OutputTypes ==
    /\ outputBuffer \in [Channels -> Seq(Unit)]
    /\ sent \in [Channels -> Seq(Unit)]
    /\ accepted \in [Channels -> Seq(Messages)]
OutputInv == OutputTypes /\ \A c \in Channels : OutputAt(c)

LEMMA OutputIs == (TcpTypeOK /\ OutputRight => OutputInv) /\ (OutputInv => OutputTypes /\ OutputRight)
  BY DEF TcpTypeOK, OutputRight, OutputInOrder, WriteInterest, OutputInv, OutputTypes, OutputAt, Up, Unit

LEMMA OutputKept ==
    ASSUME OutputInv, UNCHANGED <<sent, outputBuffer, accepted>>,
           \A c \in Channels : \/ state'[c] = state[c] /\ events'[c] = events[c]
                               \/ outputBuffer[c] = <<>> /\ "OUT" \notin events'[c]
                               \/ state'[c] \notin Up
    PROVE  OutputInv'
  BY DEF OutputInv, OutputTypes, OutputAt, Writing

LEMMA OutputWritten ==
    ASSUME TypeOK, LifeInv, OutputInv, NEW l \in Loops, NEW c \in Channels, HandleWrite(l, c)
    PROVE  OutputInv'
  <1>1. UNCHANGED <<state, accepted>>
    BY WriteEffect
  <1>2. CASE UNCHANGED <<events, sent, outputBuffer>>
    BY <1>1, <1>2, OutputKept
  <1>3. ASSUME Writing(c), state[c] = "kConnected", NEW n \in WriteResults(outputBuffer[c]) \ {0},
               sent' = [sent EXCEPT ![c] = @ \o SubSeq(outputBuffer[c], 1, n)],
               outputBuffer' = [outputBuffer EXCEPT ![c] = Drop(@, n)],
               \A d \in Channels : events'[d] =
                  IF d = c /\ n = Len(outputBuffer[c]) THEN events[c] \ {"OUT"} ELSE events[d]
        PROVE  OutputInv'
    <2> DEFINE s == sent[c]
               u == outputBuffer[c]
               v == SubSeq(u, 1, n)
               w == Drop(u, n)
    <2>1. s \in Seq(Unit) /\ u \in Seq(Unit) /\ n \in 0..Len(u)
      BY <1>3 DEF OutputInv, OutputTypes, WriteResults
    <2>2. v \in Seq(Unit) /\ w \in Seq(Unit) /\ v \o w = u /\ (w = <<>> <=> n = Len(u))
      <3> HIDE DEF u
      <3> QED BY <2>1, WriteSplits
    <2>3. /\ \A d \in Channels : /\ sent'[d] = IF d = c THEN s \o v ELSE sent[d]
                                 /\ outputBuffer'[d] = IF d = c THEN w ELSE outputBuffer[d]
          /\ DOMAIN sent' = Channels /\ DOMAIN outputBuffer' = Channels
      BY <1>3 DEF OutputInv, OutputTypes
    <2>4. sent' = [sent EXCEPT ![c] = s \o v] /\ outputBuffer' = [outputBuffer EXCEPT ![c] = w]
      BY <1>3
    <2> HIDE DEF s, u, v, w
    <2>5. s \o v \in Seq(Unit) /\ (s \o v) \o w = s \o u
      <3>0. s \in Seq(Unit) /\ v \in Seq(Unit) /\ w \in Seq(Unit)
        BY <2>1, <2>2
      <3>1. (s \o v) \o w = s \o (v \o w)
        BY ONLY <3>0, ConcatAssociative
      <3> QED BY <2>1, <2>2, <3>1, ConcatProperties
    <2>6. OutputTypes'
      BY <1>1, <2>2, <2>4, <2>5 DEF OutputInv, OutputTypes
    <2>7. OutputAt(c)'
      <3>1. sent'[c] \o outputBuffer'[c] = Flatten(accepted'[c])
        BY <1>1, <2>3, <2>5 DEF OutputInv, OutputAt, s, u
      <3>2. outputBuffer'[c] # <<>> <=> "OUT" \in events'[c]
        BY <1>3, <2>2, <2>3 DEF Writing, u
      <3> QED BY <3>1, <3>2 DEF OutputAt, Writing
    <2>8. \A d \in Channels \ {c} : OutputAt(d)'
      BY <1>1, <1>3, <2>3 DEF OutputInv, OutputAt, Writing
    <2> QED BY <2>6, <2>7, <2>8 DEF OutputInv
  <1> QED BY <1>2, <1>3, WriteEffect

LEMMA OutputSent ==
    ASSUME TypeOK, LoopsInv, LifeInv, WorkersInv, OutputInv, NEW l \in Loops, NEW c \in Channels,
           NEW m \in Messages, RunSend(l, c, m)
    PROVE  OutputInv'
  <1> DEFINE s == sent[c]
             u == outputBuffer[c]
             b == Bytes(m)
             a == Append(accepted[c], m)
  <1>1. state' = state
    BY SendEffect
  <1>2. CASE UNCHANGED <<sent, outputBuffer, accepted, events>>
    BY <1>1, <1>2, OutputKept
  <1>3. /\ s \in Seq(Unit) /\ u \in Seq(Unit) /\ b \in Seq(Unit) /\ Len(b) = 2 /\ a \in Seq(Messages)
        /\ Flatten(a) = Flatten(accepted[c]) \o b /\ s \o u = Flatten(accepted[c])
    BY BytesIs, FlattenAppend, AppendProperties DEF OutputInv, OutputTypes, OutputAt
  <1>4. ASSUME NEW s2 \in Seq(Unit), NEW u2 \in Seq(Unit), s2 \o u2 = (s \o u) \o b,
               sent' = [sent EXCEPT ![c] = s2], outputBuffer' = [outputBuffer EXCEPT ![c] = u2],
               accepted' = [accepted EXCEPT ![c] = a],
               \A d \in Channels \ {c} : events'[d] = events[d],
               u2 # <<>> <=> "OUT" \in events'[c]
        PROVE  OutputInv'
    <2> HIDE DEF s, u, b, a
    <2>1. /\ \A d \in Channels : /\ sent'[d] = IF d = c THEN s2 ELSE sent[d]
                                 /\ outputBuffer'[d] = IF d = c THEN u2 ELSE outputBuffer[d]
                                 /\ accepted'[d] = IF d = c THEN a ELSE accepted[d]
      BY <1>4 DEF OutputInv, OutputTypes
    <2>2. OutputTypes'
      BY <1>3, <1>4 DEF OutputInv, OutputTypes
    <2>3. OutputAt(c)'
      BY <1>3, <1>4, <2>1 DEF OutputAt, Writing
    <2>4. \A d \in Channels \ {c} : OutputAt(d)'
      BY <1>1, <1>4, <2>1 DEF OutputInv, OutputAt, Writing
    <2> QED BY <2>2, <2>3, <2>4 DEF OutputInv
  <1>5. CASE SendsDirectly(c, m) /\ state[c] = "kConnected"
    <2>1. PICK n \in WriteResults(b) :
            /\ sent' = [sent EXCEPT ![c] = s \o SubSeq(b, 1, n)]
            /\ outputBuffer' = [outputBuffer EXCEPT ![c] = Drop(b, n)]
            /\ \A d \in Channels : events'[d] =
                  IF d = c /\ n # Len(b) THEN events[c] \cup {"OUT"} ELSE events[d]
      BY <1>5 DEF SendsDirectly
    <2>2. ~ Writing(c) /\ u = <<>> /\ accepted' = [accepted EXCEPT ![c] = a]
      BY <1>5 DEF SendsDirectly
    <2> DEFINE v == SubSeq(b, 1, n)
               w == Drop(b, n)
    <2> HIDE DEF s, u, b, a
    <2>3. v \in Seq(Unit) /\ w \in Seq(Unit) /\ v \o w = b /\ (w = <<>> <=> n = Len(b))
      BY <1>3, <2>1, WriteSplits DEF WriteResults
    <2> HIDE DEF v, w
    <2>4. s \o v \in Seq(Unit) /\ (s \o v) \o w = s \o b
      <3>0. s \in Seq(Unit) /\ v \in Seq(Unit) /\ w \in Seq(Unit)
        BY <1>3, <2>3
      <3>1. (s \o v) \o w = s \o (v \o w)
        BY ONLY <3>0, ConcatAssociative
      <3> QED BY <1>3, <2>3, <3>1, ConcatProperties
    <2>5. s \o u = s
      BY <1>3, <2>2, ConcatEmptySeq
    <2>6. \A d \in Channels \ {c} : events'[d] = events[d]
      BY <2>1
    <2>7. w # <<>> <=> "OUT" \in events'[c]
      BY <2>1, <2>2, <2>3 DEF Writing
    <2>8. sent' = [sent EXCEPT ![c] = s \o v] /\ outputBuffer' = [outputBuffer EXCEPT ![c] = w]
      BY <2>1 DEF v, w
    <2> QED BY <1>4, <2>2, <2>3, <2>4, <2>5, <2>6, <2>7, <2>8
  <1>6. CASE SendsLater(c, m)
    <2>1. /\ accepted' = [accepted EXCEPT ![c] = a] /\ outputBuffer' = [outputBuffer EXCEPT ![c] = u \o b]
          /\ sent' = sent /\ \A d \in Channels : events'[d] = IF d = c THEN events[c] \cup {"OUT"} ELSE events[d]
      BY <1>6 DEF SendsLater
    <2>2. sent' = [sent EXCEPT ![c] = s]
      BY <2>1 DEF OutputInv, OutputTypes
    <2> HIDE DEF s, u, b, a
    <2>3. u \o b \in Seq(Unit) /\ s \o (u \o b) = (s \o u) \o b /\ u \o b # <<>>
      <3>1. b # <<>>
        <4>1. Len(b) = 2 /\ Len(<<>>) = 0
          BY <1>3, EmptySeq
        <4> QED BY ONLY <4>1
      <3>0. s \in Seq(Unit) /\ u \in Seq(Unit) /\ b \in Seq(Unit)
        BY <1>3
      <3>2. s \o (u \o b) = (s \o u) \o b
        BY ONLY <3>0, ConcatAssociative
      <3>3. u \o b \in Seq(Unit)
        BY ONLY <1>3, ConcatProperties
      <3>4. u \o b # <<>>
        BY ONLY <1>3, <3>1, ConcatEqualIffEmpty
      <3> QED BY <3>2, <3>3, <3>4
    <2>4. "OUT" \in events'[c]
      BY <2>1
    <2> QED BY <1>3, <1>4, <2>1, <2>2, <2>3, <2>4
  <1> QED BY <1>2, <1>5, <1>6, SendEffect

LEMMA OutputStep ==
    ASSUME TypeOK, LoopsInv, LifeInv, EventsInv, WorkersInv, OutputRight, [Next]_vars
    PROVE  OutputInv'
  <1>0. ThreadsInv /\ LoopTypeOK /\ TcpTypeOK /\ OutputInv
    BY TypesSplit, OutputIs
  <1>1. CASE UNCHANGED <<tcpVars, channelVars>>
    BY <1>0, <1>1, OutputKept DEF tcpVars, channelVars
  <1>2. ASSUME NEW c \in Channels, Client(c) PROVE OutputInv'
    BY <1>1, <1>2 DEF Client, Connect, Send, Hangup
  <1>3. ASSUME NEW l \in Loops, PollLoop(l) \/ LoopStepOnly(l) PROVE OutputInv'
    BY <1>1, <1>3 DEF PollLoop, LoopStepOnly
  <1>4. ASSUME NEW l \in Loops, NEW c \in Channels, OnConnection(l, c) PROVE OutputInv'
    <2>1. CASE Accept(c)
      <3>1. CASE NewConnection(c)
        <4>1. /\ UNCHANGED <<sent, outputBuffer, accepted, events>>
              /\ \A d \in Channels : state'[d] = IF d = c THEN "kConnecting" ELSE state[d]
          BY <1>0, <3>1 DEF NewConnection, channelVars, TcpTypeOK
        <4> QED BY <1>0, <4>1, OutputKept DEF Up
      <3>2. CASE RefuseConnection(c)
        BY <1>1, <3>2 DEF RefuseConnection
      <3> QED BY <2>1, <3>1, <3>2 DEF Accept
    <2>2. CASE RunRemove(c)
      BY <1>1, <2>2 DEF RunRemove
    <2>3. CASE RunEstablished(l, c)
      <3>1. /\ UNCHANGED <<sent, outputBuffer, accepted>>
            /\ \A d \in Channels : /\ state'[d] = IF d = c THEN "kConnected" ELSE state[d]
                                   /\ events'[d] = IF d = c THEN {"IN"} ELSE events[d]
        BY <1>0, <2>3 DEF RunEstablished, Establish, UpdateChannel, TcpTypeOK, LoopTypeOK
      <3>2. outputBuffer[c] = <<>>
        <4>1. Queued(l, "connectEstablished", c)
          BY <2>3, RunEstablishedQueues DEF QueueEffect, Operations, Lifecycle
        <4>2. state[c] = "kConnecting"
          BY <4>1 DEF LifeInv, Life
        <4> QED BY <4>2 DEF WorkersInv, Been
      <3> QED BY <1>0, <3>1, <3>2, OutputKept
    <2>4. CASE HandleRead(l, c)
      BY <1>1, <2>4 DEF HandleRead
    <2>5. CASE HandleEof(l, c)
      <3>1. /\ UNCHANGED <<sent, outputBuffer, accepted>>
            /\ \A d \in Channels : /\ state'[d] = IF d = c THEN "kDisconnected" ELSE state[d]
                                   /\ events'[d] = IF d = c THEN {} ELSE events[d]
        BY <1>0, <2>5 DEF HandleEof, CloseConnection, Close, UpdateChannel, TcpTypeOK, LoopTypeOK
      <3> QED BY <1>0, <3>1, OutputKept DEF Up
    <2>6. CASE HandleHup(l, c)
      BY <1>1, <2>6 DEF HandleHup
    <2>7. CASE HandleOther(l, c)
      <3>1. CASE HandleReadError(l, c) \/ HandleError(l, c)
        BY <1>1, <3>1 DEF HandleReadError, HandleError
      <3>2. CASE HandleWrite(l, c)
        BY <1>0, <3>2, OutputWritten
      <3> QED BY <2>7, <3>1, <3>2 DEF HandleOther
    <2>8. CASE RunDestroyed(l, c)
      <3>1. UNCHANGED <<sent, outputBuffer, accepted, state, events>>
        BY <2>8, LifeDestroyed DEF RunDestroyed, Destroy
      <3> QED BY <1>0, <3>1, OutputKept
    <2>9. CASE RunWriteComplete(l, c)
      BY <1>1, <2>9 DEF RunWriteComplete
    <2>10. CASE \E m \in Messages : RunSend(l, c, m)
      BY <1>0, <2>10, OutputSent
    <2> QED BY <1>4, <2>1, <2>2, <2>3, <2>4, <2>5, <2>6, <2>7, <2>8, <2>9, <2>10 DEF OnConnection
  <1>5. ASSUME NEW w \in Workers, Work(w) PROVE OutputInv'
    BY <1>1, <1>5 DEF Work, Take, EndParse, Handle, QueueSend
  <1>6. CASE UNCHANGED vars
    BY <1>1, <1>6 DEF vars
  <1> QED BY <1>2, <1>3, <1>4, <1>5, <1>6 DEF Next, LoopThread, Quiet

-----------------------------------------------------------------------------
\* Types of the rest.
ConnectionTypes ==
    /\ events \in [Channels -> SUBSET {"IN", "OUT"}]
    /\ index \in [Channels -> {"kNew", "kAdded", "kDeleted"}]
    /\ state \in [Channels -> States]
    /\ shut \in [Channels -> BOOLEAN]
SocketTypes ==
    /\ rx \in [Channels -> Nat]
    /\ peer \in [Channels -> {"open", "closed", "reset"}]
    /\ sockerr \in [Channels -> BOOLEAN]
HttpTypes ==
    /\ s_http_map \subseteq Channels
    /\ inputBuffer \in [Channels -> Nat]
    /\ arrived \in [Channels -> Nat]
    /\ tasks \in Seq(Channels)
    /\ wpc \in [Workers -> {"take", "parse", "handle", "queue"}]
    /\ wconn \in [Workers -> Channels \cup {Nobody}]
    /\ length \in [Workers -> Nat]
    /\ disturbed \in [Workers -> BOOLEAN]
    /\ handled \in [Channels -> Nat]

LEMMA TypesAre ==
    /\ TypeOK => ConnectionTypes /\ SocketTypes /\ ServerTypeOK /\ HttpTypes
    /\ ThreadsInv /\ ConnectionTypes /\ SocketTypes /\ OutputTypes /\ ServerTypeOK /\ HttpTypes
          => TypeOK /\ LoopsInv
  BY DEF TypeOK, LoopTypeOK, TcpTypeOK, ThreadsInv, ThreadTypes, ConnectionTypes, SocketTypes, OutputTypes,
         HttpTypes, Unit

LEMMA UpdateTypes ==
    ASSUME ConnectionTypes, NEW c \in Channels, NEW ev \in SUBSET {"IN", "OUT"}, UpdateChannel(c, ev)
    PROVE  /\ events' \in [Channels -> SUBSET {"IN", "OUT"}]
           /\ index' \in [Channels -> {"kNew", "kAdded", "kDeleted"}]
  BY DEF ConnectionTypes, UpdateChannel

LEMMA ConnectionTypesStep ==
    ASSUME TypeOK, LoopsInv, LifeInv, EventsInv, WorkersInv, [Next]_vars
    PROVE  ConnectionTypes'
  <1>0. ConnectionTypes
    BY TypesAre
  <1>1. CASE UNCHANGED <<tcpVars, channelVars>>
    BY <1>0, <1>1 DEF ConnectionTypes, tcpVars, channelVars
  <1>2. ASSUME NEW c \in Channels, Client(c) PROVE ConnectionTypes'
    BY <1>1, <1>2 DEF Client, Connect, Send, Hangup
  <1>3. ASSUME NEW l \in Loops, PollLoop(l) \/ LoopStepOnly(l) PROVE ConnectionTypes'
    BY <1>1, <1>3 DEF PollLoop, LoopStepOnly
  <1>4. ASSUME NEW l \in Loops, NEW c \in Channels, OnConnection(l, c) PROVE ConnectionTypes'
    <2>1. CASE Accept(c)
      BY <1>0, <2>1 DEF Accept, NewConnection, RefuseConnection, channelVars, tcpVars, ConnectionTypes, States
    <2>2. CASE RunRemove(c)
      BY <1>1, <2>2 DEF RunRemove
    <2>3. CASE RunEstablished(l, c)
      <3>1. UpdateChannel(c, {"IN"}) /\ state' = [state EXCEPT ![c] = "kConnected"] /\ shut' = shut
        BY <2>3 DEF RunEstablished, Establish
      <3> QED BY <1>0, <3>1, UpdateTypes DEF ConnectionTypes, States
    <2>4. CASE HandleRead(l, c)
      BY <1>1, <2>4 DEF HandleRead
    <2>5. CASE HandleEof(l, c)
      <3>1. UpdateChannel(c, {}) /\ state' = [state EXCEPT ![c] = "kDisconnected"] /\ shut' = shut
        BY <2>5 DEF HandleEof, CloseConnection, Close
      <3> QED BY <1>0, <3>1, UpdateTypes DEF ConnectionTypes, States
    <2>6. CASE HandleHup(l, c)
      BY <1>1, <2>6 DEF HandleHup
    <2>7. CASE HandleOther(l, c)
      <3>1. CASE HandleReadError(l, c) \/ HandleError(l, c)
        BY <1>1, <3>1 DEF HandleReadError, HandleError
      <3>2. CASE HandleWrite(l, c)
        <4>1. UNCHANGED <<state, channelVars, shut>>
              \/ UNCHANGED <<state, channelVars>>
              \/ (UpdateChannel(c, events[c] \ {"OUT"}) /\ UNCHANGED state)
          BY <3>2 DEF HandleWrite
        <4>2. shut' = shut
          BY <3>2, WriteEffect
        <4>3. events[c] \ {"OUT"} \in SUBSET {"IN", "OUT"}
          BY <1>0 DEF ConnectionTypes
        <4> QED BY <1>0, <4>1, <4>2, <4>3, UpdateTypes DEF ConnectionTypes, channelVars
      <3> QED BY <2>7, <3>1, <3>2 DEF HandleOther
    <2>8. CASE RunDestroyed(l, c)
      <3>1. UNCHANGED <<state, events, shut>> /\ RemoveChannel(c)
        BY <2>8, LifeDestroyed DEF RunDestroyed, Destroy
      <3> QED BY <1>0, <3>1 DEF ConnectionTypes, RemoveChannel
    <2>9. CASE RunWriteComplete(l, c)
      BY <1>1, <2>9 DEF RunWriteComplete
    <2>10. CASE \E m \in Messages : RunSend(l, c, m)
      <3>1. UNCHANGED <<state, shut>>
        BY <2>10, SendEffect
      <3>2. UNCHANGED channelVars \/ UpdateChannel(c, events[c] \cup {"OUT"})
        BY <2>10 DEF RunSend, SendInLoop
      <3>3. events[c] \cup {"OUT"} \in SUBSET {"IN", "OUT"}
        BY <1>0 DEF ConnectionTypes
      <3> QED BY <1>0, <3>1, <3>2, <3>3, UpdateTypes DEF ConnectionTypes, channelVars
    <2> QED BY <1>4, <2>1, <2>2, <2>3, <2>4, <2>5, <2>6, <2>7, <2>8, <2>9, <2>10 DEF OnConnection
  <1>5. ASSUME NEW w \in Workers, Work(w) PROVE ConnectionTypes'
    BY <1>1, <1>5 DEF Work, Take, EndParse, Handle, QueueSend
  <1>6. CASE UNCHANGED vars
    BY <1>1, <1>6 DEF vars
  <1> QED BY <1>2, <1>3, <1>4, <1>5, <1>6 DEF Next, LoopThread, Quiet

LEMMA SocketTypesStep ==
    ASSUME TypeOK, [Next]_vars
    PROVE  SocketTypes'
  <1>0. SocketTypes
    BY TypesAre
  <1>1. CASE UNCHANGED socketVars
    BY <1>0, <1>1 DEF SocketTypes, socketVars
  <1>2. ASSUME NEW c \in Channels, Client(c) PROVE SocketTypes'
    <2>1. CASE Connect(c)
      BY <1>1, <2>1 DEF Connect
    <2>2. CASE Send(c)
      BY <1>0, <2>2 DEF Send, PeerSends, SocketTypes
    <2>3. CASE Hangup(c)
      <3>1. CASE PeerCloses(c)
        BY <1>0, <3>1 DEF PeerCloses, SocketTypes
      <3>2. CASE PeerResets(c)
        BY <1>0, <3>2 DEF PeerResets, SocketTypes
      <3> QED BY <2>3, <3>1, <3>2 DEF Hangup
    <2> QED BY <1>2, <2>1, <2>2, <2>3 DEF Client
  <1>3. ASSUME NEW l \in Loops, PollLoop(l) \/ LoopStepOnly(l) PROVE SocketTypes'
    BY <1>1, <1>3 DEF PollLoop, LoopStepOnly
  <1>4. ASSUME NEW l \in Loops, NEW c \in Channels, OnConnection(l, c) PROVE SocketTypes'
    <2>1. CASE Accept(c) \/ RunRemove(c) \/ RunEstablished(l, c)
      BY <1>1, <2>1 DEF Accept, NewConnection, RefuseConnection, RunRemove, RunEstablished
    <2>2. CASE HandleRead(l, c)
      BY <1>0, <2>2 DEF HandleRead, SocketTypes
    <2>3. CASE HandleEof(l, c) \/ HandleHup(l, c)
      BY <1>1, <2>3 DEF HandleEof, CloseConnection, HandleHup
    <2>4. CASE HandleOther(l, c)
      BY <1>0, <2>4 DEF HandleOther, HandleReadError, HandleError, HandleWrite, SocketTypes, socketVars
    <2>5. CASE RunDestroyed(l, c) \/ RunWriteComplete(l, c) \/ \E m \in Messages : RunSend(l, c, m)
      BY <1>1, <2>5 DEF RunDestroyed, RunWriteComplete, RunSend
    <2> QED BY <1>4, <2>1, <2>2, <2>3, <2>4, <2>5 DEF OnConnection
  <1>5. ASSUME NEW w \in Workers, Work(w) PROVE SocketTypes'
    BY <1>1, <1>5 DEF Work, Take, EndParse, Handle, QueueSend
  <1>6. CASE UNCHANGED vars
    BY <1>1, <1>6 DEF vars
  <1> QED BY <1>2, <1>3, <1>4, <1>5, <1>6 DEF Next, LoopThread, Quiet

LEMMA ServerTypesStep ==
    ASSUME TypeOK, [Next]_vars
    PROVE  ServerTypeOK'
  <1>0. ServerTypeOK /\ GetNextLoop \in Loops
    BY TypesAre, NextLoopIs
  <1>1. CASE UNCHANGED serverVars
    BY <1>0, <1>1 DEF ServerTypeOK, serverVars
  <1>2. ASSUME NEW c \in Channels, Client(c) PROVE ServerTypeOK'
    <2>1. CASE Connect(c)
      BY <1>0, <1>2, <2>1 DEF Connect, PeerConnects, ServerTypeOK
    <2> QED BY <1>1, <1>2, <2>1 DEF Client, Send, Hangup
  <1>3. ASSUME NEW l \in Loops, PollLoop(l) \/ LoopStepOnly(l) PROVE ServerTypeOK'
    BY <1>1, <1>3 DEF PollLoop, LoopStepOnly
  <1>4. ASSUME NEW l \in Loops, NEW c \in Channels, OnConnection(l, c) PROVE ServerTypeOK'
    <2>1. CASE NewConnection(c)
      <3>1. /\ backlog' \subseteq Channels /\ refused' \subseteq Channels /\ connections' \subseteq Channels
            /\ loopOf' \in [Channels -> Loops]
        BY <1>0, <2>1 DEF NewConnection, ServerTypeOK
      <3>2. nextLoop' = (nextLoop + 1) % Len(IoLoops) /\ nextLoop \in Nat
        BY <1>0, <2>1 DEF NewConnection, ServerTypeOK
      <3>3. Len(IoLoops) \in Nat \ {0}
        BY ServerAssumption, EmptySeq, LenProperties
      <3>4. nextLoop' \in Nat /\ nextLoop' < Len(IoLoops)
        BY <3>2, <3>3
      <3> QED BY <3>1, <3>4 DEF ServerTypeOK
    <2>2. CASE RefuseConnection(c)
      BY <1>0, <2>2 DEF RefuseConnection, ServerTypeOK
    <2>3. CASE RunRemove(c)
      BY <1>0, <2>3 DEF RunRemove, RemoveConnectionInLoop, ServerTypeOK
    <2>4. CASE RunEstablished(l, c) \/ HandleRead(l, c)
      BY <1>1, <2>4 DEF RunEstablished, HandleRead
    <2>5. CASE HandleEof(l, c) \/ HandleHup(l, c) \/ HandleOther(l, c)
      BY <1>1, <2>5 DEF HandleEof, CloseConnection, RemoveConnection, HandleHup, HandleOther
    <2>6. CASE RunDestroyed(l, c) \/ RunWriteComplete(l, c) \/ \E m \in Messages : RunSend(l, c, m)
      BY <1>1, <2>6 DEF RunDestroyed, RunWriteComplete, RunSend
    <2> QED BY <1>4, <2>1, <2>2, <2>3, <2>4, <2>5, <2>6 DEF OnConnection, Accept
  <1>5. ASSUME NEW w \in Workers, Work(w) PROVE ServerTypeOK'
    BY <1>1, <1>5 DEF Work, Take, EndParse, Handle, QueueSend
  <1>6. CASE UNCHANGED vars
    BY <1>1, <1>6 DEF vars
  <1> QED BY <1>2, <1>3, <1>4, <1>5, <1>6 DEF Next, LoopThread, Quiet

LEMMA HttpTypesStep ==
    ASSUME TypeOK, [Next]_vars
    PROVE  HttpTypes'
  <1>0. HttpTypes /\ SocketTypes
    BY TypesAre
  <1>1. CASE UNCHANGED httpVars
    BY <1>0, <1>1 DEF HttpTypes, httpVars
  <1>2. ASSUME NEW c \in Channels, Client(c) PROVE HttpTypes'
    <2>1. CASE Send(c)
      BY <1>0, <1>2, <2>1 DEF Send, HttpTypes
    <2> QED BY <1>1, <1>2, <2>1 DEF Client, Connect, Hangup
  <1>3. ASSUME NEW l \in Loops, PollLoop(l) \/ LoopStepOnly(l) PROVE HttpTypes'
    BY <1>1, <1>3 DEF PollLoop, LoopStepOnly
  <1>4. ASSUME NEW l \in Loops, NEW c \in Channels, OnConnection(l, c) PROVE HttpTypes'
    <2>1. CASE Accept(c) \/ RunRemove(c)
      BY <1>1, <2>1 DEF Accept, RunRemove
    <2>2. CASE RunEstablished(l, c)
      BY <1>0, <1>4, <2>2 DEF RunEstablished, HttpTypes
    <2>3. CASE HandleRead(l, c)
      <3>1. tasks' \in Seq(Channels)
        BY <1>0, <2>3, TaskBack DEF HandleRead, HttpTypes
      <3>2. inputBuffer' \in [Channels -> Nat]
        BY <1>0, <2>3 DEF HandleRead, HttpTypes, SocketTypes
      <3>3. disturbed' \in [Workers -> BOOLEAN]
        <4>1. CASE disturbed' = disturbed
          BY <1>0, <4>1 DEF HttpTypes
        <4>2. CASE disturbed' = [w \in Workers |-> disturbed[w] \/ w \in Parsing(c)]
          <5>1. \A w \in Workers : (disturbed[w] \/ w \in Parsing(c)) \in BOOLEAN
            OBVIOUS
          <5> QED BY <4>2, <5>1
        <4> QED BY <2>3, <4>1, <4>2 DEF HandleRead
      <3> QED BY <1>0, <2>3, <3>1, <3>2, <3>3 DEF HandleRead, HttpTypes
    <2>4. CASE HandleEof(l, c)
      BY <1>0, <2>4 DEF HandleEof, CloseConnection, HttpTypes
    <2>5. CASE HandleHup(l, c) \/ HandleOther(l, c)
      BY <1>1, <2>5 DEF HandleHup, HandleOther
    <2>6. CASE RunDestroyed(l, c) \/ RunWriteComplete(l, c) \/ \E m \in Messages : RunSend(l, c, m)
      BY <1>1, <2>6 DEF RunDestroyed, RunWriteComplete, RunSend
    <2> QED BY <1>4, <2>1, <2>2, <2>3, <2>4, <2>5, <2>6 DEF OnConnection
  <1>5. ASSUME NEW w \in Workers, Work(w) PROVE HttpTypes'
    <2>1. CASE Take(w)
      <3>1. PICK c \in Channels : c = Head(tasks)
        BY <2>1, TaskFront DEF Take
      <3>2. tasks' \in Seq(Channels)
        BY <2>1, TaskFront DEF Take
      <3>3. /\ wconn' = [wconn EXCEPT ![w] = c] /\ wpc' = [wpc EXCEPT ![w] = "parse"]
            /\ length' = [length EXCEPT ![w] = inputBuffer[c]]
            /\ disturbed' = [v \in Workers |-> IF v = w THEN Parsing(c) # {}
                                               ELSE disturbed[v] \/ v \in Parsing(c)]
            /\ UNCHANGED <<s_http_map, inputBuffer, arrived, handled>>
        BY <2>1, <3>1 DEF Take
      <3>4. inputBuffer[c] \in Nat
        BY <1>0 DEF HttpTypes
      <3>5. disturbed' \in [Workers -> BOOLEAN]
        <4>1. \A v \in Workers : (IF v = w THEN Parsing(c) # {} ELSE disturbed[v] \/ v \in Parsing(c)) \in BOOLEAN
          OBVIOUS
        <4> QED BY <3>3, <4>1
      <3> QED BY <1>0, <3>2, <3>3, <3>4, <3>5 DEF HttpTypes
    <2>2. CASE EndParse(w)
      BY <1>0, <2>2 DEF EndParse, HttpTypes
    <2>3. CASE Handle(w)
      <3>1. /\ handled' = [handled EXCEPT ![wconn[w]] = @ + 1]
            /\ \/ wpc' = [wpc EXCEPT ![w] = "queue"] /\ wconn' = wconn
               \/ wpc' = [wpc EXCEPT ![w] = "take"] /\ wconn' = [wconn EXCEPT ![w] = Nobody]
            /\ UNCHANGED <<s_http_map, inputBuffer, arrived, tasks, length, disturbed>>
        BY <2>3 DEF Handle
      <3>2. handled' \in [Channels -> Nat]
        <4>1. PICK c : c = wconn[w]
          OBVIOUS
        <4>2. handled \in [Channels -> Nat] /\ handled' = [handled EXCEPT ![c] = handled[c] + 1]
          BY <1>0, <3>1, <4>1 DEF HttpTypes
        <4>3. CASE c \in Channels
          BY ONLY <4>2, <4>3
        <4>4. CASE c \notin Channels
          BY ONLY <4>2, <4>4
        <4> QED BY <4>3, <4>4
      <3>3. /\ wpc' \in [Workers -> {"take", "parse", "handle", "queue"}]
            /\ wconn' \in [Workers -> Channels \cup {Nobody}]
        <4>1. /\ wpc \in [Workers -> {"take", "parse", "handle", "queue"}]
              /\ wconn \in [Workers -> Channels \cup {Nobody}]
          BY <1>0 DEF HttpTypes
        <4>2. CASE wpc' = [wpc EXCEPT ![w] = "queue"] /\ wconn' = wconn
          BY ONLY <4>1, <4>2
        <4>3. CASE wpc' = [wpc EXCEPT ![w] = "take"] /\ wconn' = [wconn EXCEPT ![w] = Nobody]
          BY ONLY <4>1, <4>3
        <4> QED BY <3>1, <4>2, <4>3
      <3> QED BY <1>0, <3>1, <3>2, <3>3 DEF HttpTypes
    <2>4. CASE QueueSend(w)
      BY <1>0, <2>4 DEF QueueSend, HttpTypes
    <2> QED BY <1>5, <2>1, <2>2, <2>3, <2>4 DEF Work
  <1>6. CASE UNCHANGED vars
    BY <1>1, <1>6 DEF vars
  <1> QED BY <1>2, <1>3, <1>4, <1>5, <1>6 DEF Next, LoopThread, Quiet

-----------------------------------------------------------------------------
\* Descriptors.  Besides functors, tasks and workers it is the server's map that keeps
\* connections: those with an entry in s_http_map, or an event, are there or in a functor.
Kept(c) == c \in connections \/ OwnedByFunctor(c) \/ TaskFor(c) \/ WorkerFor(c)

\* What is queued is in one of the two vectors.
LEMMA QueuedSomewhere ==
    ASSUME LoopTypeOK, LoopsInv, NEW l \in Loops, NEW i \in DOMAIN ToRun(l)
    PROVE  \E q \in {pendingFunctors[l], functors[l]} : \E j \in DOMAIN q : q[j] = ToRun(l)[i]
  <1> DEFINE n == next[l]
             q == functors[l]
             p == pendingFunctors[l]
             u == SubSeq(q, n + 1, Len(q))
  <1>1. q \in Seq(FunctorSet) /\ p \in Seq(FunctorSet) /\ n \in Nat /\ n <= Len(q) /\ Len(q) \in Nat
    BY LenProperties DEF LoopsInv, LoopTypeOK
  <1>2. /\ u \in Seq(FunctorSet) /\ Len(u) = Len(q) - n
        /\ \A j \in 1..Len(q) - n : u[j] = q[n + j] /\ n + j \in 1..Len(q)
    <2> HIDE DEF q, n
    <2>1. \A j \in n + 1..Len(q) : q[j] \in FunctorSet
      BY <1>1, ElementOfSeq
    <2>2. /\ SubSeq(q, n + 1, Len(q)) \in Seq(FunctorSet)
          /\ Len(SubSeq(q, n + 1, Len(q))) = IF n + 1 <= Len(q) THEN Len(q) - (n + 1) + 1 ELSE 0
          /\ \A j \in 1..Len(q) - (n + 1) + 1 : SubSeq(q, n + 1, Len(q))[j] = q[(n + 1) + j - 1]
      BY <1>1, <2>1, SubSeqProperties
    <2>3. \A j \in 1..Len(q) - n : j \in 1..Len(q) - (n + 1) + 1 /\ (n + 1) + j - 1 = n + j /\ n + j \in 1..Len(q)
      BY <1>1
    <2>4. Len(q) - n = IF n + 1 <= Len(q) THEN Len(q) - (n + 1) + 1 ELSE 0
      BY <1>1
    <2> QED BY <2>2, <2>3, <2>4
  <1>3. ToRun(l) = u \o p
    BY DEF ToRun
  <1> HIDE DEF u
  <1>4. /\ u \o p \in Seq(FunctorSet) /\ Len(u \o p) = Len(u) + Len(p)
        /\ \A j \in 1..Len(u) + Len(p) : (u \o p)[j] = IF j <= Len(u) THEN u[j] ELSE p[j - Len(u)]
    <2> HIDE DEF p
    <2> QED BY <1>1, <1>2, ConcatProperties
  <1>5. i \in 1..Len(u) + Len(p) /\ Len(u) \in Nat /\ Len(p) \in Nat
    BY <1>1, <1>2, <1>3, <1>4, LenProperties
  <1>6. CASE i <= Len(u)
    <2>1. i \in 1..Len(u)
      BY <1>5, <1>6
    <2>2. n + i \in DOMAIN q /\ q[n + i] = ToRun(l)[i]
      BY <1>1, <1>2, <1>3, <1>4, <1>5, <1>6, <2>1, LenProperties
    <2> QED BY <2>2
  <1>7. CASE ~ i <= Len(u)
    <2>1. i - Len(u) \in 1..Len(p)
      BY <1>5, <1>7
    <2>2. i - Len(u) \in DOMAIN p /\ p[i - Len(u)] = ToRun(l)[i]
      BY <1>1, <1>3, <1>4, <1>5, <1>7, <2>1, LenProperties
    <2> QED BY <2>2
  <1> QED BY <1>6, <1>7

LEMMA QueuedOwns ==
    ASSUME LoopTypeOK, LoopsInv, NEW l \in Loops, NEW op \in Owning, NEW c, Queued(l, op, c)
    PROVE  OwnedByFunctor(c)
  <1>1. PICK i \in DOMAIN ToRun(l) : ToRun(l)[i][1] = op /\ ToRun(l)[i][2] = c
    BY DEF Queued, Has
  <1>2. PICK q \in {pendingFunctors[l], functors[l]} : \E j \in DOMAIN q : q[j] = ToRun(l)[i]
    BY QueuedSomewhere
  <1> QED BY <1>1, <1>2 DEF OwnedByFunctor

LEMMA OwnedIs ==
    TypeOK /\ LoopsInv /\ LifeInv /\ EventsInv => \A c \in Channels : Owned(c) <=> Kept(c)
  <1> SUFFICES ASSUME TypeOK, LoopsInv, LifeInv, EventsInv, NEW c \in Channels PROVE Owned(c) <=> Kept(c)
    OBVIOUS
  <1>0. ThreadsInv /\ LoopTypeOK
    BY TypesSplit
  <1>1. c \in s_http_map => c \in connections
    BY DEF LifeInv, Life
  <1>2. Guarded(c) => c \in connections \/ OwnedByFunctor(c)
    <2> SUFFICES ASSUME Guarded(c), c \notin connections PROVE OwnedByFunctor(c)
      OBVIOUS
    <2>1. PICK l \in Loops : active[l] # <<>> /\ Head(active[l])[1] = c
      BY DEF Guarded
    <2>2. Queued(l, "connectDestroyed", c)
      BY <1>0, <2>1, HandlingEvent DEF Event
    <2> QED BY <1>0, <2>2, QueuedOwns DEF Owning
  <1> QED BY <1>1, <1>2 DEF Owned, Kept, TaskFor, WorkerFor

\* What owns connections among the functors, after a step of a loop or a thread.
LEMMA FunctorsSame ==
    ASSUME UNCHANGED <<pendingFunctors, functors>>
    PROVE  \A c : OwnedByFunctor(c)' => OwnedByFunctor(c)
  BY DEF OwnedByFunctor

LEMMA FunctorsMoved ==
    ASSUME ThreadsInv, NEW l \in Loops, TakeFunctors(l) \/ FunctorsDone(l)
    PROVE  \A c : OwnedByFunctor(c)' => OwnedByFunctor(c)
  <1>1. \A k \in Loops : /\ pendingFunctors'[k] \in {pendingFunctors[k], <<>>}
                         /\ functors'[k] \in {pendingFunctors[k], functors[k], <<>>}
    BY DEF TakeFunctors, FunctorsDone, ThreadsInv, LoopsInv
  <1>2. DOMAIN <<>> = {}
    OBVIOUS
  <1> QED BY <1>1, <1>2 DEF OwnedByFunctor

LEMMA FunctorsQueued ==
    ASSUME ThreadsInv, NEW t, NEW to \in Loops, NEW g \in FunctorSet, QueueInLoop(t, to, <<g>>), UNCHANGED functors
    PROVE  \A c : OwnedByFunctor(c)' => OwnedByFunctor(c) \/ (g[1] \in Owning /\ g[2] = c)
  <1>1. /\ pendingFunctors'[to] = pendingFunctors[to] \o <<g>> /\ pendingFunctors[to] \in Seq(FunctorSet)
        /\ \A k \in Loops \ {to} : pendingFunctors'[k] = pendingFunctors[k]
    BY DEF QueueInLoop, ThreadsInv, LoopsInv
  <1> SUFFICES ASSUME NEW c, NEW l \in Loops, NEW q \in {pendingFunctors'[l], functors'[l]}, NEW i \in DOMAIN q,
                      q[i][1] \in Owning, q[i][2] = c
               PROVE  OwnedByFunctor(c) \/ (g[1] \in Owning /\ g[2] = c)
    BY DEF OwnedByFunctor
  <1>2. CASE q = functors[l] \/ q = pendingFunctors[l]
    BY <1>2 DEF OwnedByFunctor
  <1>3. CASE l = to /\ q = pendingFunctors[to] \o <<g>>
    <2>1. Has(q, q[i][1], c)
      BY DEF Has
    <2>2. Has(pendingFunctors[to], q[i][1], c) \/ (g[1] = q[i][1] /\ g[2] = c)
      BY <1>1, <1>3, <2>1, AtEnd
    <2> QED BY <2>2 DEF Has, OwnedByFunctor
  <1> QED BY <1>1, <1>2, <1>3

LEMMA FdsKept ==
    ASSUME FdsInv,
           \A c \in Channels : state'[c] # "none" => state[c] # "none" /\ (Owned(c)' => Owned(c))
    PROVE  FdsInv'
  <1>1. OpenFds' \subseteq OpenFds
    BY DEF OpenFds
  <1>2. PICK S : S = OpenFds'
    OBVIOUS
  <1>3. IsFiniteSet(S) /\ Cardinality(S) <= Cardinality(OpenFds)
    BY <1>1, <1>2, FS_Subset DEF FdsInv
  <1>4. Cardinality(S) \in Nat /\ Cardinality(OpenFds) \in Nat /\ MaxFds \in Nat
    BY <1>3, FS_CardinalityType, ServerAssumption DEF FdsInv
  <1>5. IsFiniteSet(S) /\ Cardinality(S) <= MaxFds
    BY <1>3, <1>4 DEF FdsInv, FdsBounded
  <1> QED BY <1>2, <1>5 DEF FdsInv, FdsBounded

LEMMA FdsAdded ==
    ASSUME FdsInv, NEW c \in Channels, Cardinality(OpenFds) < MaxFds,
           \A d \in Channels \ {c} : state'[d] # "none" => state[d] # "none" /\ (Owned(d)' => Owned(d))
    PROVE  FdsInv'
  <1>1. OpenFds' \subseteq OpenFds \cup {c}
    BY DEF OpenFds
  <1>2. PICK S : S = OpenFds'
    OBVIOUS
  <1>3. /\ IsFiniteSet(OpenFds \cup {c})
        /\ Cardinality(OpenFds \cup {c}) = IF c \in OpenFds THEN Cardinality(OpenFds) ELSE Cardinality(OpenFds) + 1
    BY FS_AddElement DEF FdsInv
  <1>4. IsFiniteSet(S) /\ Cardinality(S) <= Cardinality(OpenFds \cup {c})
    BY <1>1, <1>2, <1>3, FS_Subset
  <1>5. Cardinality(S) \in Nat /\ Cardinality(OpenFds) \in Nat /\ MaxFds \in Nat
    BY <1>4, FS_CardinalityType, ServerAssumption DEF FdsInv
  <1>6. IsFiniteSet(S) /\ Cardinality(S) <= MaxFds
    BY <1>3, <1>4, <1>5
  <1> QED BY <1>2, <1>6 DEF FdsInv, FdsBounded

LEMMA TasksKept ==
    ASSUME UNCHANGED tasks PROVE \A c : TaskFor(c)' => TaskFor(c)
  BY DEF TaskFor

LEMMA WorkersSame ==
    ASSUME UNCHANGED wconn PROVE \A c : WorkerFor(c)' => WorkerFor(c)
  BY DEF WorkerFor

LEMMA FdsStep ==
    ASSUME TypeOK, LoopsInv, LifeInv, EventsInv, WorkersInv, FdsInv, [Next]_vars,
           TypeOK', LoopsInv', LifeInv', EventsInv'
    PROVE  FdsInv'
  <1> DEFINE Aside == UNCHANGED <<connections, tasks, wconn>>
             Grows(c) == state'[c] # "none" => state[c] # "none"
             Stays(c) == OwnedByFunctor(c)' => OwnedByFunctor(c) \/ c \in connections
  <1>0. ThreadsInv /\ LoopTypeOK /\ TcpTypeOK /\ ServerTypeOK /\ Base \in Loops
    BY TypesSplit, ServerAssumption
  <1>1. \A c \in Channels : (Owned(c) <=> Kept(c)) /\ (Owned(c)' <=> Kept(c)')
    <2>1. \A c \in Channels : Owned(c) <=> Kept(c)
      BY OwnedIs
    <2>2. (TypeOK /\ LoopsInv /\ LifeInv /\ EventsInv => \A c \in Channels : Owned(c) <=> Kept(c))'
      BY OwnedIs, PTL
    <2> QED BY <2>1, <2>2
  <1>2. ASSUME \A c \in Channels : Grows(c) /\ (Kept(c)' => Kept(c)) PROVE FdsInv'
    BY <1>1, <1>2, FdsKept
  <1>3. ASSUME \A c \in Channels : Grows(c) /\ Stays(c), connections' \subseteq connections,
               UNCHANGED <<tasks, wconn>>
        PROVE  FdsInv'
    <2>1. \A c \in Channels : Kept(c)' => Kept(c)
      BY <1>3, TasksKept, WorkersSame DEF Kept
    <2> QED BY <1>2, <1>3, <2>1
  <1>4. ASSUME UNCHANGED <<pendingFunctors, functors, state>>, Aside PROVE FdsInv'
    <2>1. \A c \in Channels : Grows(c) /\ Stays(c)
      BY <1>4, FunctorsSame
    <2> QED BY <1>3, <1>4, <2>1
  <1>5. ASSUME NEW c \in Channels, Client(c) PROVE FdsInv'
    BY <1>4, <1>5 DEF Client, Connect, PeerConnects, Send, Hangup, loopVars, tcpVars, serverVars, httpVars
  <1>6. ASSUME NEW l \in Loops, PollLoop(l) PROVE FdsInv'
    BY <1>4, <1>6 DEF PollLoop, Poll, tcpVars, serverVars, httpVars
  <1>7. ASSUME NEW l \in Loops, LoopStepOnly(l) PROVE FdsInv'
    <2>1. Aside /\ state' = state
      BY <1>7 DEF LoopStepOnly, tcpVars, serverVars, httpVars
    <2>2. CASE HandleWakeup(l)
      BY <1>4, <2>1, <2>2 DEF HandleWakeup
    <2>3. CASE TakeFunctors(l) \/ FunctorsDone(l)
      <3>1. \A c \in Channels : Grows(c) /\ Stays(c)
        BY <1>0, <2>1, <2>3, FunctorsMoved
      <3> QED BY <1>3, <2>1, <3>1
    <2> QED BY <1>7, <2>2, <2>3 DEF LoopStepOnly, LoopStep
  <1>8. ASSUME NEW t, NEW to \in Loops, NEW op, NEW c \in Channels, NEW m,
               (op \in Operations \ {"sendInLoop"} /\ m = NoMessage) \/ (op = "sendInLoop" /\ m \in Nat),
               QueueInLoop(t, to, <<Functor(op, c, m)>>), UNCHANGED functors
        PROVE  \A d \in Channels : OwnedByFunctor(d)' => OwnedByFunctor(d) \/ (op \in Owning /\ d = c)
    <2>1. PICK g \in FunctorSet : g = Functor(op, c, m) /\ g[1] = op /\ g[2] = c
      BY <1>8, FunctorIn
    <2>2. QueueInLoop(t, to, <<g>>)
      BY <1>8, <2>1
    <2>3. \A d : OwnedByFunctor(d)' => OwnedByFunctor(d) \/ (g[1] \in Owning /\ g[2] = d)
      BY <1>0, <1>8, <2>2, FunctorsQueued
    <2> QED BY <2>1, <2>3
  <1>9. ASSUME NEW l \in Loops, NEW c \in Channels, OnConnection(l, c) PROVE FdsInv'
    <2>1. CASE Accept(c)
      <3>0. UNCHANGED <<tasks, wconn>>
        BY <2>1 DEF Accept, httpVars
      <3>1. CASE NewConnection(c) /\ Cardinality(OpenFds) < MaxFds
        <4>1. PICK to \in Loops : to = GetNextLoop
          BY <1>0, NextLoopIs
        <4>2. /\ QueueInLoop(Base, to, <<Functor("connectEstablished", c, NoMessage)>>) /\ UNCHANGED functors
              /\ connections' = connections \cup {c}
              /\ \A d \in Channels \ {c} : state'[d] = state[d]
          BY <1>0, <3>1, <4>1 DEF NewConnection, TcpTypeOK
        <4>3. \A d \in Channels \ {c} : OwnedByFunctor(d)' => OwnedByFunctor(d)
          BY <1>8, <4>2 DEF Operations, Lifecycle
        <4>4. \A d \in Channels \ {c} : Kept(d)' => Kept(d)
          BY <3>0, <4>2, <4>3, TasksKept, WorkersSame DEF Kept
        <4> QED BY <1>1, <3>1, <4>2, <4>4, FdsAdded
      <3>2. CASE RefuseConnection(c)
        BY <1>4, <3>0, <3>2 DEF RefuseConnection, tcpVars
      <3> QED BY <2>1, <3>1, <3>2 DEF Accept
    <2>2. CASE RunRemove(c)
      <3>1. PICK to \in Loops : to = loopOf[c]
        BY <1>0 DEF ServerTypeOK
      <3>2. /\ QueueInLoop(Base, to, <<Functor("connectDestroyed", c, NoMessage)>>) /\ UNCHANGED functors
            /\ connections' = connections \ {c} /\ UNCHANGED <<state, tasks, wconn>>
        BY <2>2, <3>1 DEF RunRemove, Ran, RemoveConnectionInLoop, tcpVars, httpVars
      <3>3. \A d \in Channels : OwnedByFunctor(d)' => OwnedByFunctor(d) \/ d = c
        BY <1>8, <3>2 DEF Operations, Lifecycle
      <3>4. c \in connections
        BY <2>2, LifeRemoved
      <3> QED BY <1>3, <3>2, <3>3, <3>4
    <2>3. CASE RunEstablished(l, c)
      <3>1. UNCHANGED <<pendingFunctors, functors>> /\ Aside
            /\ \A d \in Channels : state'[d] = IF d = c THEN "kConnected" ELSE state[d]
        BY <1>0, <2>3 DEF RunEstablished, Ran, Establish, serverVars, TcpTypeOK
      <3>2. state[c] = "kConnecting"
        <4>1. Queued(l, "connectEstablished", c)
          BY <2>3, RunEstablishedQueues DEF QueueEffect, Operations, Lifecycle
        <4> QED BY <4>1 DEF LifeInv, Life
      <3>3. \A d \in Channels : Grows(d) /\ Stays(d)
        BY <3>1, <3>2, FunctorsSame
      <3> QED BY <1>3, <3>1, <3>3
    <2>4. CASE HandleRead(l, c)
      <3>1. UNCHANGED <<pendingFunctors, functors, state, connections, wconn>>
            /\ tasks' = IF c \in s_http_map THEN Append(tasks, c) ELSE tasks
        BY <2>4 DEF HandleRead, tcpVars, serverVars
      <3>2. c \in s_http_map => c \in connections
        BY DEF LifeInv, Life
      <3>3. \A d \in Channels : TaskFor(d)' => TaskFor(d) \/ d \in connections
        <4>1. CASE c \in s_http_map
          BY <3>1, <3>2, <4>1, TaskBack DEF TaskFor
        <4>2. CASE c \notin s_http_map
          BY <3>1, <4>2, TasksKept
        <4> QED BY <4>1, <4>2
      <3>4. \A d \in Channels : Kept(d)' => Kept(d)
        BY <3>1, <3>3, FunctorsSame, WorkersSame DEF Kept
      <3> QED BY <1>2, <3>1, <3>4
    <2>5. CASE HandleEof(l, c)
      <3>1. CloseConnection(l, c, "IN") /\ state[c] = "kConnected"
        BY <2>5, Ends
      <3>2. /\ QueueInLoop(l, Base, <<Functor("removeConnection", c, NoMessage)>>) /\ UNCHANGED functors /\ Aside
            /\ \A d \in Channels : state'[d] = IF d = c THEN "kDisconnected" ELSE state[d]
        BY <1>0, <3>1 DEF CloseConnection, Close, RemoveConnection, serverVars, TcpTypeOK
      <3>3. \A d \in Channels : OwnedByFunctor(d)' => OwnedByFunctor(d) \/ d = c
        BY <1>0, <1>8, <3>2 DEF Operations, Lifecycle
      <3>4. c \in connections
        BY <3>1 DEF LifeInv, Life
      <3>5. \A d \in Channels : Grows(d) /\ Stays(d)
        BY <3>1, <3>2, <3>3, <3>4
      <3> QED BY <1>3, <3>2, <3>5
    <2>6. CASE HandleHup(l, c)
      BY <1>4, <2>6 DEF HandleHup, tcpVars, serverVars, httpVars
    <2>7. CASE HandleOther(l, c)
      <3>1. Aside
        BY <2>7 DEF HandleOther, serverVars, httpVars
      <3>2. CASE HandleReadError(l, c) \/ HandleError(l, c)
        BY <1>4, <3>1, <3>2 DEF HandleReadError, HandleError, tcpVars
      <3>3. CASE HandleWrite(l, c)
        <4>1. /\ UNCHANGED <<functors, state>>
              /\ \/ UNCHANGED pendingFunctors
                 \/ Writing(c) /\ QueueInLoop(l, l, <<Functor("writeComplete", c, NoMessage)>>)
          BY <3>3 DEF HandleWrite
        <4>2. Writing(c) => c \in connections
          BY DEF Writing, LifeInv, Life
        <4>3. Writing(c) /\ QueueInLoop(l, l, <<Functor("writeComplete", c, NoMessage)>>)
                => \A d \in Channels : OwnedByFunctor(d)' => OwnedByFunctor(d) \/ d = c
          BY <1>8, <4>1 DEF Operations
        <4>4. \A d \in Channels : Grows(d) /\ Stays(d)
          BY <4>1, <4>2, <4>3, FunctorsSame
        <4> QED BY <1>3, <3>1, <4>4
      <3> QED BY <2>7, <3>2, <3>3 DEF HandleOther
    <2>8. CASE RunDestroyed(l, c)
      <3>1. state' = state
        BY <2>8, LifeDestroyed
      <3> QED BY <1>4, <2>8, <3>1 DEF RunDestroyed, Ran, serverVars, httpVars
    <2>9. CASE RunWriteComplete(l, c)
      BY <1>4, <2>9 DEF RunWriteComplete, Ran, tcpVars, serverVars, httpVars
    <2>10. CASE \E m \in Messages : RunSend(l, c, m)
      <3>1. PICK m \in Messages : RunSend(l, c, m)
        BY <2>10
      <3>2. state' = state /\ Aside
        BY <3>1, SendEffect DEF serverVars, httpVars
      <3>3. /\ UNCHANGED functors
            /\ \/ UNCHANGED pendingFunctors
               \/ state[c] # "kDisconnected" /\ QueueInLoop(l, l, <<Functor("writeComplete", c, NoMessage)>>)
        BY <3>1 DEF RunSend, Ran, SendInLoop
      <3>4. state[c] # "kDisconnected" => c \in connections
        <4>1. Queued(l, "sendInLoop", c)
          BY <3>1, RunSendQueues DEF QueueEffect, Operations
        <4> QED BY <4>1 DEF WorkersInv, Been, LifeInv, Life
      <3>5. QueueInLoop(l, l, <<Functor("writeComplete", c, NoMessage)>>)
                => \A d \in Channels : OwnedByFunctor(d)' => OwnedByFunctor(d) \/ d = c
        BY <1>8, <3>3 DEF Operations
      <3>6. \A d \in Channels : Grows(d) /\ Stays(d)
        BY <3>2, <3>3, <3>4, <3>5, FunctorsSame
      <3> QED BY <1>3, <3>2, <3>6
    <2> QED BY <1>9, <2>1, <2>2, <2>3, <2>4, <2>5, <2>6, <2>7, <2>8, <2>9, <2>10 DEF OnConnection
  <1>10. ASSUME NEW w \in Workers, Work(w) PROVE FdsInv'
    <2>0. wconn \in [Workers -> Channels \cup {Nobody}] /\ Nobody \notin Channels
      BY HttpAssumption DEF TypeOK
    <2>1. CASE Take(w)
      <3>1. /\ UNCHANGED <<pendingFunctors, functors, state, connections>> /\ tasks # <<>>
            /\ tasks' = Tail(tasks) /\ wconn' = [wconn EXCEPT ![w] = Head(tasks)]
        BY <2>1 DEF Take, loopVars, tcpVars, serverVars
      <3>2. \A d \in Channels : (TaskFor(d)' => TaskFor(d)) /\ (WorkerFor(d)' => WorkerFor(d) \/ TaskFor(d))
        BY <2>0, <3>1, TaskFront DEF TaskFor, WorkerFor
      <3>3. \A d \in Channels : Kept(d)' => Kept(d)
        BY <3>1, <3>2, FunctorsSame DEF Kept
      <3> QED BY <1>2, <3>1, <3>3
    <2>2. ASSUME UNCHANGED <<tasks, state, connections>>, wconn' = wconn \/ wconn' = [wconn EXCEPT ![w] = Nobody],
                 \A d \in Channels : OwnedByFunctor(d)' => OwnedByFunctor(d)
          PROVE  FdsInv'
      <3>1. \A d \in Channels : WorkerFor(d)' => WorkerFor(d)
        BY <2>0, <2>2 DEF WorkerFor
      <3>2. \A d \in Channels : Kept(d)' => Kept(d)
        BY <2>2, <3>1, TasksKept DEF Kept
      <3> QED BY <1>2, <2>2, <3>2
    <2>3. CASE EndParse(w) \/ Handle(w)
      <3>1. UNCHANGED <<tasks, state, connections, pendingFunctors, functors>>
        BY <2>3 DEF EndParse, Handle, loopVars, tcpVars, serverVars
      <3>2. wconn' = wconn \/ wconn' = [wconn EXCEPT ![w] = Nobody]
        BY <2>3 DEF EndParse, Handle
      <3> QED BY <2>2, <3>1, <3>2, FunctorsSame
    <2>4. CASE QueueSend(w)
      <3>1. PICK c, to : c = wconn[w] /\ to = loopOf[c]
        OBVIOUS
      <3>2. c \in Channels /\ to \in Loops
        BY <2>4, <3>1, QueueSendQueues
      <3>3. PICK n \in Nat : n = handled[c]
        BY <3>2 DEF TypeOK
      <3>4. /\ QueueInLoop(w, to, <<Functor("sendInLoop", c, n)>>) /\ UNCHANGED <<functors, tasks, state, connections>>
            /\ wconn' = [wconn EXCEPT ![w] = Nobody]
        BY <2>4, <3>1, <3>3 DEF QueueSend, tcpVars, serverVars
      <3>5. \A d \in Channels : OwnedByFunctor(d)' => OwnedByFunctor(d)
        BY <1>8, <3>2, <3>4 DEF Owning
      <3> QED BY <2>2, <3>4, <3>5
    <2> QED BY <1>10, <2>1, <2>3, <2>4 DEF Work
  <1>11. CASE UNCHANGED vars
    BY <1>4, <1>11 DEF vars, loopVars, tcpVars, serverVars, httpVars
  <1> QED BY <1>5, <1>6, <1>7, <1>9, <1>10, <1>11 DEF Next, LoopThread, Quiet

-----------------------------------------------------------------------------
\* A request in one piece: where it is, at every step.
Live(c) == Segments[c] = 1 /\ state[c] # "kDisconnected" /\ peer[c] # "reset"
Stage(c) == Unread(c) \/ InTask(c) \/ AtWorker(c) \/ AtLoop(c) \/ Written(c)
Sound(c) == arrived[c] = rx[c] + inputBuffer[c] /\ arrived[c] <= 1 /\ Stage(c)

LEMMA RequestIs == \A c : Request(c) <=> (Live(c) => Sound(c))
  BY DEF Request, Live, Sound, Stage

LEMMA RequestsAll ==
    ASSUME RequestsInv,
           \A c \in Channels \ Malformed : Live(c)' => Live(c) /\ (Sound(c) => Sound(c)')
    PROVE  RequestsInv'
  <1>1. (\A c : Request(c) <=> (Live(c) => Sound(c)))'
    BY RequestIs, PTL
  <1>2. \A c \in Channels \ Malformed : Request(c)'
    BY <1>1, RequestIs DEF RequestsInv
  <1> QED BY <1>2 DEF RequestsInv

\* What may stay as it is.
SendsKept(c) ==
    \A l \in Loops : /\ Queued(l, "sendInLoop", c)' <=> Queued(l, "sendInLoop", c)
                     /\ Once(l, "sendInLoop", c) => Once(l, "sendInLoop", c)'
                     /\ Carrying(l, "sendInLoop", c, 1) => Carrying(l, "sendInLoop", c, 1)'
CountsKept(c) ==
    /\ arrived'[c] = arrived[c] /\ rx'[c] = rx[c] /\ inputBuffer'[c] = inputBuffer[c]
    /\ handled'[c] = handled[c] /\ accepted'[c] = accepted[c]
TaskKept(c) == (TaskFor(c)' <=> TaskFor(c)) /\ (OneTask(c) => OneTask(c)')
WorkKept(c) ==
    \A w \in Workers : /\ wconn'[w] = c <=> wconn[w] = c
                       /\ wconn[w] = c => /\ wpc'[w] = wpc[w] /\ length'[w] = length[w]
                                          /\ disturbed'[w] = disturbed[w]

LEMMA SendForKept == ASSUME NEW c, SendsKept(c) PROVE SendFor(c)' <=> SendFor(c)
  BY DEF SendsKept, SendFor

LEMMA WorkerForKept == ASSUME NEW c, WorkKept(c) PROVE WorkerFor(c)' <=> WorkerFor(c)
  BY DEF WorkKept, WorkerFor

LEMMA RequestStays ==
    ASSUME NEW c \in Channels, Sound(c), SendsKept(c), CountsKept(c), TaskKept(c), WorkKept(c),
           loopOf'[c] = loopOf[c] \/ ~ SendFor(c)
    PROVE  Sound(c)'
  <1>1. (SendFor(c)' <=> SendFor(c)) /\ (WorkerFor(c)' <=> WorkerFor(c)) /\ (TaskFor(c)' <=> TaskFor(c))
        /\ (OneTask(c) => OneTask(c)')
    BY SendForKept, WorkerForKept DEF TaskKept
  <1>2. Unread(c) => Unread(c)'
    BY <1>1 DEF Unread, CountsKept
  <1>3. InTask(c) => InTask(c)'
    BY <1>1 DEF InTask, CountsKept
  <1>4. ASSUME AtWorker(c) PROVE AtWorker(c)'
    <2>1. PICK w \in Workers : /\ \A v \in Workers : wconn[v] = c <=> v = w
                               /\ wpc[w] = "parse" => length[w] = 1 /\ disturbed[w] = FALSE
                               /\ handled[c] = IF wpc[w] = "queue" THEN 1 ELSE 0
      BY <1>4 DEF AtWorker
    <2>2. \A v \in Workers : wconn'[v] = c <=> v = w
      BY <2>1 DEF WorkKept
    <2>3. wpc'[w] = wpc[w] /\ length'[w] = length[w] /\ disturbed'[w] = disturbed[w]
      BY <2>1 DEF WorkKept
    <2> QED BY <1>1, <1>4, <2>1, <2>2, <2>3 DEF AtWorker, CountsKept
  <1>5. ASSUME AtLoop(c) PROVE AtLoop(c)'
    <2>1. loopOf'[c] = loopOf[c]
      BY <1>5 DEF AtLoop
    <2> QED BY <1>1, <1>5, <2>1 DEF AtLoop, CountsKept, SendsKept
  <1>6. Written(c) => Written(c)'
    BY <1>1 DEF Written, CountsKept
  <1> QED BY <1>2, <1>3, <1>4, <1>5, <1>6 DEF Sound, Stage, CountsKept

LEMMA SendsAside ==
    ASSUME NEW c \in Channels, NEW out, NEW in, QueueEffect(out, in),
           \A l \in Loops : <<l, "sendInLoop", c>> \notin out /\ <<l, "sendInLoop", c>> \notin in
    PROVE  SendsKept(c)
  <1>1. "sendInLoop" \in Operations
    BY DEF Operations
  <1> QED BY <1>1, OthersKept DEF SendsKept

LEMMA WorkAside ==
    ASSUME UNCHANGED <<tasks, wpc, wconn, length, disturbed>>
    PROVE  \A c : TaskKept(c) /\ WorkKept(c)
  BY DEF TaskKept, WorkKept, TaskFor, OneTask

LEMMA RequestsAside ==
    ASSUME RequestsInv, NEW out, NEW in, QueueEffect(out, in),
           \A l \in Loops, c \in Channels : <<l, "sendInLoop", c>> \notin out /\ <<l, "sendInLoop", c>> \notin in,
           UNCHANGED <<arrived, rx, inputBuffer, handled, accepted, tasks, wpc, wconn, length, disturbed>>,
           \A c \in Channels : /\ Live(c)' => Live(c)
                               /\ loopOf'[c] = loopOf[c] \/ ~ SendFor(c)
    PROVE  RequestsInv'
  <1>1. \A c \in Channels : SendsKept(c)
    BY SendsAside
  <1>2. \A c \in Channels : TaskKept(c) /\ WorkKept(c) /\ CountsKept(c)
    BY WorkAside DEF CountsKept
  <1> QED BY <1>1, <1>2, RequestStays, RequestsAll

\* The steps a request takes.
LEMMA RequestArrives ==
    ASSUME TypeOK, LoopsInv, RequestsInv, NEW c \in Channels, Send(c)
    PROVE  RequestsInv'
  <1>0. ThreadsInv /\ LoopTypeOK /\ HttpTypes /\ SocketTypes
    BY TypesSplit, TypesAre
  <1>1. QueueEffect({}, {})
    <2>1. PICK l \in Loops : l = Base
      BY ServerAssumption
    <2> QED BY <1>0, <2>1, QueuesKept DEF Send, loopVars
  <1>2. /\ arrived[c] < Segments[c] /\ arrived' = [arrived EXCEPT ![c] = @ + 1] /\ rx' = [rx EXCEPT ![c] = @ + 1]
        /\ UNCHANGED <<state, peer, accepted, loopOf, inputBuffer, handled, tasks, wpc, wconn, length, disturbed>>
    BY DEF Send, PeerSends, tcpVars, serverVars
  <1>3. /\ \A d \in Channels : SendsKept(d) /\ TaskKept(d) /\ WorkKept(d)
        /\ \A d \in Channels : Live(d)' <=> Live(d)
    BY <1>1, <1>2, SendsAside, WorkAside DEF Live
  <1>4. \A d \in Channels \ {c} : CountsKept(d)
    BY <1>0, <1>2 DEF CountsKept, HttpTypes, SocketTypes
  <1>5. \A d \in Channels \ {c} : Sound(d) => Sound(d)'
    BY <1>2, <1>3, <1>4, RequestStays
  <1>6. ASSUME Live(c), Sound(c) PROVE Sound(c)'
    <2>1. arrived[c] = 0 /\ rx[c] = 0 /\ inputBuffer[c] = 0
      BY <1>0, <1>2, <1>6 DEF Live, Sound, HttpTypes, SocketTypes
    <2>2. Unread(c)
      BY <1>6, <2>1 DEF Sound, Stage, InTask, AtWorker, AtLoop, Written
    <2>3. (SendFor(c)' <=> SendFor(c)) /\ (WorkerFor(c)' <=> WorkerFor(c)) /\ (TaskFor(c)' <=> TaskFor(c))
      BY <1>3, SendForKept, WorkerForKept DEF TaskKept
    <2>4. Unread(c)'
      BY <1>2, <2>2, <2>3 DEF Unread
    <2>5. arrived'[c] = 1 /\ rx'[c] = 1 /\ inputBuffer'[c] = 0
      BY <1>0, <1>2, <2>1 DEF HttpTypes, SocketTypes
    <2> QED BY <2>4, <2>5 DEF Sound, Stage
  <1> QED BY <1>3, <1>5, <1>6, RequestsAll

LEMMA RequestRead ==
    ASSUME TypeOK, LoopsInv, LifeInv, EventsInv, RequestsInv, NEW l \in Loops, NEW c \in Channels, HandleRead(l, c)
    PROVE  RequestsInv'
  <1>0. ThreadsInv /\ LoopTypeOK /\ HttpTypes /\ SocketTypes
    BY TypesSplit, TypesAre
  <1>1. QueueEffect({}, {}) /\ Handles(l, "IN") /\ Head(active[l])[1] = c
    BY HandleReadQueues
  <1>2. /\ rx[c] > 0 /\ rx' = [rx EXCEPT ![c] = 0] /\ inputBuffer' = [inputBuffer EXCEPT ![c] = @ + rx[c]]
        /\ tasks' = IF c \in s_http_map THEN Append(tasks, c) ELSE tasks
        /\ UNCHANGED <<state, peer, accepted, loopOf, arrived, handled, wpc, wconn, length>>
        /\ disturbed' = disturbed \/ disturbed' = [w \in Workers |-> disturbed[w] \/ w \in Parsing(c)]
    BY DEF HandleRead, ReadsData, tcpVars, serverVars
  <1>3. \A d \in Channels : SendsKept(d) /\ (Live(d)' <=> Live(d))
    BY <1>1, <1>2, SendsAside DEF Live
  <1>4. c \in s_http_map
    <2>1. state[c] = "kConnected"
      BY <1>0, <1>1, HandlingEvent DEF Handles
    <2> QED BY <2>1 DEF LifeInv, Life
  <1>5. tasks' = Append(tasks, c)
    BY <1>2, <1>4
  <1>6. /\ \A i \in DOMAIN tasks' : \/ i \in DOMAIN tasks /\ tasks'[i] = tasks[i]
                                    \/ i = Len(tasks) + 1 /\ tasks'[i] = c
        /\ \A i \in DOMAIN tasks : i \in DOMAIN tasks' /\ tasks'[i] = tasks[i]
        /\ Len(tasks) + 1 \in DOMAIN tasks' /\ tasks'[Len(tasks) + 1] = c
    BY <1>5, TaskBack
  <1>7. \A d \in Channels \ {c} : TaskKept(d) /\ WorkKept(d) /\ CountsKept(d)
    <2> TAKE d \in Channels \ {c}
    <2>1. TaskKept(d)
      BY <1>6 DEF TaskKept, TaskFor, OneTask
    <2>2. \A w \in Workers : wconn[w] = d => disturbed'[w] = disturbed[w]
      <3>1. \A w \in Workers : disturbed[w] \in BOOLEAN
        BY <1>0 DEF HttpTypes
      <3>2. \A w \in Workers : wconn[w] = d => w \notin Parsing(c)
        BY DEF Parsing
      <3> QED BY <1>2, <3>1, <3>2
    <2>3. WorkKept(d)
      BY <1>2, <2>2 DEF WorkKept
    <2>4. CountsKept(d)
      BY <1>0, <1>2 DEF CountsKept, HttpTypes, SocketTypes
    <2> QED BY <2>1, <2>3, <2>4
  <1>8. \A d \in Channels \ {c} : Sound(d) => Sound(d)'
    BY <1>2, <1>3, <1>7, RequestStays
  <1>9. ASSUME Live(c), Sound(c) PROVE Sound(c)'
    <2>1. rx[c] = 1 /\ inputBuffer[c] = 0 /\ arrived[c] = 1
      BY <1>0, <1>2, <1>9 DEF Sound, HttpTypes, SocketTypes
    <2>2. Unread(c)
      BY <1>9, <2>1 DEF Sound, Stage, InTask, AtWorker, AtLoop, Written
    <2>3. arrived'[c] = 1 /\ rx'[c] = 0 /\ inputBuffer'[c] = 1
      BY <1>0, <1>2, <2>1 DEF HttpTypes, SocketTypes
    <2>4. ~ SendFor(c)'
      BY <1>3, <2>2, SendForKept DEF Unread
    <2>5. ~ WorkerFor(c)'
      BY <1>2, <2>2 DEF Unread, WorkerFor
    <2>6. TaskFor(c)' /\ OneTask(c)'
      BY <1>6, <2>2 DEF Unread, TaskFor, OneTask
    <2>7. InTask(c)'
      BY <1>2, <2>2, <2>3, <2>4, <2>5, <2>6 DEF Unread, InTask
    <2> QED BY <2>3, <2>7 DEF Sound, Stage
  <1> QED BY <1>3, <1>8, <1>9, RequestsAll

\* What the workers do leaves the sockets and the loops alone.
LEMMA RequestsOfOthers ==
    ASSUME RequestsInv, NEW c \in Channels, UNCHANGED <<state, peer, loopOf>>,
           \A d \in Channels \ {c} : SendsKept(d) /\ CountsKept(d) /\ TaskKept(d) /\ WorkKept(d),
           c \notin Malformed /\ Live(c) /\ Sound(c) => Sound(c)'
    PROVE  RequestsInv'
  <1>1. \A d \in Channels : Live(d)' <=> Live(d)
    BY DEF Live
  <1>2. \A d \in Channels \ {c} : Sound(d) => Sound(d)'
    BY RequestStays
  <1> QED BY <1>1, <1>2, RequestsAll

LEMMA RequestTaken ==
    ASSUME TypeOK, LoopsInv, WorkersInv, RequestsInv, NEW w \in Workers, Take(w)
    PROVE  RequestsInv'
  <1>0. LoopTypeOK /\ HttpTypes /\ Nobody \notin Channels
    BY TypesSplit, TypesAre, HttpAssumption
  <1>1. QueueEffect({}, {})
    <2>1. PICK l \in Loops : l = Base
      BY ServerAssumption
    <2> QED BY <1>0, <2>1, QueuesKept DEF Take, loopVars
  <1>2. PICK c \in Channels : c = Head(tasks)
    BY TaskFront DEF Take
  <1>3. /\ wpc[w] = "take" /\ tasks # <<>> /\ tasks' = Tail(tasks) /\ wconn' = [wconn EXCEPT ![w] = c]
        /\ wpc' = [wpc EXCEPT ![w] = "parse"] /\ length' = [length EXCEPT ![w] = inputBuffer[c]]
        /\ disturbed' = [v \in Workers |-> IF v = w THEN Parsing(c) # {} ELSE disturbed[v] \/ v \in Parsing(c)]
        /\ UNCHANGED <<state, peer, loopOf, rx, accepted, inputBuffer, arrived, handled>>
    BY <1>2 DEF Take, tcpVars, serverVars, socketVars
  <1>4. wconn[w] = Nobody
    BY <1>3 DEF WorkersInv
  <1>5. /\ \A v \in Workers : /\ wconn'[v] = IF v = w THEN c ELSE wconn[v]
                              /\ wpc'[v] = IF v = w THEN "parse" ELSE wpc[v]
                              /\ length'[v] = IF v = w THEN inputBuffer[c] ELSE length[v]
                              /\ disturbed'[v] = IF v = w THEN Parsing(c) # {} ELSE disturbed[v] \/ v \in Parsing(c)
    BY <1>0, <1>3 DEF HttpTypes
  <1>6. /\ TaskFor(c)
        /\ \A i \in DOMAIN Tail(tasks) : i + 1 \in DOMAIN tasks /\ Tail(tasks)[i] = tasks[i + 1] /\ i \in Nat
        /\ \A i \in DOMAIN tasks : i # 1 => i - 1 \in DOMAIN Tail(tasks) /\ tasks[i] = Tail(tasks)[i - 1]
        /\ 1 \in DOMAIN tasks /\ c = tasks[1]
    BY <1>2, <1>3, TaskFront
  <1>7. \A d \in Channels : SendsKept(d) /\ CountsKept(d)
    BY <1>1, <1>3, SendsAside DEF CountsKept
  <1>8. ASSUME NEW d \in Channels \ {c} PROVE TaskKept(d) /\ WorkKept(d)
    <2>1. TaskFor(d)' <=> TaskFor(d)
      BY <1>3, <1>6 DEF TaskFor
    <2>2. ASSUME OneTask(d) PROVE OneTask(d)'
      <3> SUFFICES ASSUME NEW i \in DOMAIN Tail(tasks), NEW j \in DOMAIN Tail(tasks),
                          Tail(tasks)[i] = d, Tail(tasks)[j] = d
                   PROVE  i = j
        BY <1>3 DEF OneTask
      <3>1. i + 1 = j + 1 /\ i \in Nat /\ j \in Nat
        BY <1>6, <2>2 DEF OneTask
      <3> QED BY ONLY <3>1
    <2>3. WorkKept(d)
      <3>1. \A v \in Workers : wconn[v] = d => v # w /\ v \notin Parsing(c) /\ disturbed[v] \in BOOLEAN
        BY <1>0, <1>4 DEF Parsing, HttpTypes
      <3> QED BY <1>0, <1>4, <1>5, <3>1 DEF WorkKept
    <2> QED BY <2>1, <2>2, <2>3 DEF TaskKept
  <1>9. ASSUME Live(c), Sound(c) PROVE Sound(c)'
    <2>1. InTask(c)
      BY <1>6, <1>9 DEF Sound, Stage, Unread, AtWorker, AtLoop, Written
    <2>2. ~ TaskFor(c)'
      <3> SUFFICES ASSUME NEW i \in DOMAIN Tail(tasks), Tail(tasks)[i] = c PROVE FALSE
        BY <1>3 DEF TaskFor
      <3>1. i + 1 = 1 /\ i \in Nat
        <4>1. \A j, k \in DOMAIN tasks : tasks[j] = c /\ tasks[k] = c => j = k
          BY <2>1 DEF InTask, OneTask
        <4> QED BY ONLY <1>6, <4>1, i \in DOMAIN Tail(tasks), Tail(tasks)[i] = c
      <3> QED BY ONLY <3>1
    <2>3. \A v \in Workers : wconn[v] # c
      BY <2>1 DEF InTask, WorkerFor
    <2>4. \A v \in Workers : wconn'[v] = c <=> v = w
      BY <1>5, <2>3
    <2>5. Parsing(c) = {}
      BY <2>3 DEF Parsing
    <2>6. wpc'[w] = "parse" /\ length'[w] = 1 /\ disturbed'[w] = FALSE /\ handled'[c] = 0
      BY <1>3, <1>5, <2>1, <2>5 DEF InTask
    <2>7. ~ SendFor(c)'
      BY <1>7, <2>1, SendForKept DEF InTask
    <2>8. AtWorker(c)'
      BY <1>3, <2>1, <2>2, <2>4, <2>6, <2>7 DEF InTask, AtWorker
    <2> QED BY <1>7, <1>9, <2>8 DEF Sound, Stage, CountsKept
  <1> QED BY <1>3, <1>7, <1>8, <1>9, RequestsOfOthers

\* A worker that is not waiting has a request of its connection in hand.
LEMMA InHand ==
    ASSUME TypeOK, WorkersInv, NEW w \in Workers, wpc[w] # "take"
    PROVE  /\ wconn[w] \in Channels /\ WorkerFor(wconn[w])
           /\ Sound(wconn[w]) => AtWorker(wconn[w])
  <1>1. wconn[w] \in Channels /\ WorkerFor(wconn[w])
    BY HttpAssumption DEF TypeOK, WorkersInv, WorkerFor
  <1>2. PICK c \in Channels : c = wconn[w]
    BY <1>1
  <1>3. Sound(c) => AtWorker(c)
    BY <1>1, <1>2 DEF Sound, Stage, Unread, InTask, AtLoop, Written
  <1> QED BY <1>1, <1>2, <1>3

LEMMA RequestParsed ==
    ASSUME TypeOK, LoopsInv, WorkersInv, RequestsInv, NEW w \in Workers, EndParse(w)
    PROVE  RequestsInv'
  <1>0. LoopTypeOK /\ HttpTypes /\ Nobody \notin Channels
    BY TypesSplit, TypesAre, HttpAssumption
  <1>1. QueueEffect({}, {})
    <2>1. PICK l \in Loops : l = Base
      BY ServerAssumption
    <2> QED BY <1>0, <2>1, QueuesKept DEF EndParse, loopVars
  <1>2. wpc[w] = "parse"
    BY DEF EndParse
  <1>3. PICK c \in Channels : c = wconn[w] /\ (Sound(c) => AtWorker(c))
    BY <1>2, InHand
  <1>4. /\ length' = [length EXCEPT ![w] = 0] /\ disturbed' = [disturbed EXCEPT ![w] = FALSE]
        /\ UNCHANGED <<state, peer, loopOf, rx, accepted, inputBuffer, arrived, handled, tasks>>
    BY DEF EndParse, tcpVars, serverVars, socketVars
  <1>5. PICK all \in ReadAll(w) :
            \/ all /\ wpc' = [wpc EXCEPT ![w] = "handle"] /\ wconn' = wconn
            \/ ~ all /\ wpc' = [wpc EXCEPT ![w] = "take"] /\ wconn' = [wconn EXCEPT ![w] = Nobody]
    BY DEF EndParse
  <1>6. \A d \in Channels : SendsKept(d) /\ CountsKept(d) /\ TaskKept(d)
    BY <1>1, <1>4, SendsAside DEF CountsKept, TaskKept, TaskFor, OneTask
  <1>7. \A d \in Channels \ {c} : WorkKept(d)
    BY <1>0, <1>3, <1>4, <1>5 DEF WorkKept, HttpTypes
  <1>8. ASSUME c \notin Malformed, Live(c), Sound(c) PROVE Sound(c)'
    <2>1. PICK v \in Workers : /\ \A u \in Workers : wconn[u] = c <=> u = v
                               /\ wpc[v] = "parse" => length[v] = 1 /\ disturbed[v] = FALSE
                               /\ handled[c] = IF wpc[v] = "queue" THEN 1 ELSE 0
      BY <1>3, <1>8 DEF AtWorker
    <2>2. v = w
      BY <1>3, <2>1
    <2>3. length[w] = 1 /\ disturbed[w] = FALSE /\ handled[c] = 0
      BY <1>2, <2>1, <2>2
    <2>4. ReadAll(w) = {TRUE}
      BY <1>3, <1>8, <2>3 DEF ReadAll, Live
    <2>5. wpc' = [wpc EXCEPT ![w] = "handle"] /\ wconn' = wconn
      BY <1>5, <2>4
    <2>6. wpc'[w] = "handle"
      BY <1>0, <2>5 DEF HttpTypes
    <2>7. ~ TaskFor(c)' /\ ~ SendFor(c)' /\ inputBuffer'[c] = 1 /\ accepted'[c] = <<>> /\ handled'[c] = 0
      <3>1. AtWorker(c)
        BY <1>3, <1>8
      <3> QED BY <1>4, <1>6, <2>3, <3>1, SendForKept DEF AtWorker, TaskKept
    <2>8. AtWorker(c)'
      BY <2>1, <2>2, <2>5, <2>6, <2>7 DEF AtWorker
    <2> QED BY <1>6, <1>8, <2>8 DEF Sound, Stage, CountsKept
  <1> QED BY <1>4, <1>6, <1>7, <1>8, RequestsOfOthers

LEMMA RequestHandled ==
    ASSUME TypeOK, LoopsInv, WorkersInv, RequestsInv, NEW w \in Workers, Handle(w)
    PROVE  RequestsInv'
  <1>0. LoopTypeOK /\ HttpTypes /\ Nobody \notin Channels
    BY TypesSplit, TypesAre, HttpAssumption
  <1>1. QueueEffect({}, {})
    <2>1. PICK l \in Loops : l = Base
      BY ServerAssumption
    <2> QED BY <1>0, <2>1, QueuesKept DEF Handle, loopVars
  <1>2. wpc[w] = "handle"
    BY DEF Handle
  <1>3. PICK c \in Channels : c = wconn[w] /\ WorkerFor(c) /\ (Sound(c) => AtWorker(c))
    BY <1>2, InHand
  <1>4. /\ handled' = [handled EXCEPT ![c] = @ + 1]
        /\ UNCHANGED <<state, peer, loopOf, rx, accepted, inputBuffer, arrived, tasks, length, disturbed>>
        /\ \/ state[c] = "kConnected" /\ wpc' = [wpc EXCEPT ![w] = "queue"] /\ wconn' = wconn
           \/ state[c] # "kConnected" /\ wpc' = [wpc EXCEPT ![w] = "take"] /\ wconn' = [wconn EXCEPT ![w] = Nobody]
    BY <1>3 DEF Handle, tcpVars, serverVars, socketVars
  <1>5. \A d \in Channels : SendsKept(d) /\ TaskKept(d)
    BY <1>1, <1>4, SendsAside DEF TaskKept, TaskFor, OneTask
  <1>6. \A d \in Channels \ {c} : WorkKept(d) /\ CountsKept(d)
    <2>1. \A d \in Channels \ {c} : WorkKept(d)
      BY <1>0, <1>3, <1>4 DEF WorkKept, HttpTypes
    <2>2. \A d \in Channels \ {c} : CountsKept(d)
      BY <1>0, <1>4 DEF CountsKept, HttpTypes
    <2> QED BY <2>1, <2>2
  <1>7. ASSUME Live(c), Sound(c) PROVE Sound(c)'
    <2>1. PICK v \in Workers : /\ \A u \in Workers : wconn[u] = c <=> u = v
                               /\ handled[c] = IF wpc[v] = "queue" THEN 1 ELSE 0
      BY <1>3, <1>7 DEF AtWorker
    <2>2. v = w
      BY <1>3, <2>1
    <2>3. handled[c] = 0
      BY <1>2, <2>1, <2>2
    <2>4. state[c] = "kConnected"
      BY <1>3, <1>7 DEF WorkersInv, Been, Live
    <2>5. wpc' = [wpc EXCEPT ![w] = "queue"] /\ wconn' = wconn
      BY <1>4, <2>4
    <2>6. wpc'[w] = "queue" /\ handled'[c] = 1
      BY <1>0, <1>4, <2>3, <2>5 DEF HttpTypes
    <2>7. ~ TaskFor(c)' /\ ~ SendFor(c)' /\ inputBuffer'[c] = 1 /\ accepted'[c] = <<>>
      <3>1. AtWorker(c)
        BY <1>3, <1>7
      <3> QED BY <1>4, <1>5, <3>1, SendForKept DEF AtWorker, TaskKept
    <2>8. AtWorker(c)'
      BY <2>1, <2>2, <2>5, <2>6, <2>7 DEF AtWorker
    <2> QED BY <1>4, <1>7, <2>8 DEF Sound, Stage
  <1> QED BY <1>4, <1>5, <1>6, <1>7, RequestsOfOthers

LEMMA RequestQueued ==
    ASSUME TypeOK, LoopsInv, WorkersInv, RequestsInv, NEW w \in Workers, QueueSend(w)
    PROVE  RequestsInv'
  <1>0. LoopTypeOK /\ HttpTypes /\ Nobody \notin Channels
    BY TypesSplit, TypesAre, HttpAssumption
  <1>1. wpc[w] = "queue"
    BY DEF QueueSend
  <1>2. PICK c \in Channels : c = wconn[w] /\ (Sound(c) => AtWorker(c))
    BY <1>1, InHand
  <1>3. PICK to : to = loopOf[c]
    OBVIOUS
  <1>4. /\ to \in Loops /\ QueueEffect({}, {<<to, "sendInLoop", c>>})
        /\ handled[c] = 1 /\ Carrying(to, "sendInLoop", c, 1) => Carrying(to, "sendInLoop", c, 1)'
    BY <1>2, <1>3, QueueSendQueues
  <1>5. /\ UNCHANGED <<state, peer, loopOf, rx, accepted, inputBuffer, arrived, handled, tasks, length, disturbed>>
        /\ wpc' = [wpc EXCEPT ![w] = "take"] /\ wconn' = [wconn EXCEPT ![w] = Nobody]
    BY DEF QueueSend, tcpVars, serverVars, socketVars
  <1>6. \A d \in Channels : CountsKept(d) /\ TaskKept(d)
    BY <1>5 DEF CountsKept, TaskKept, TaskFor, OneTask
  <1>7. \A d \in Channels \ {c} : WorkKept(d) /\ SendsKept(d)
    <2>1. \A d \in Channels \ {c} : WorkKept(d)
      BY <1>0, <1>2, <1>5 DEF WorkKept, HttpTypes
    <2>2. \A d \in Channels \ {c} : SendsKept(d)
      BY <1>4, SendsAside
    <2> QED BY <2>1, <2>2
  <1>8. ASSUME Live(c), Sound(c) PROVE Sound(c)'
    <2>1. AtWorker(c)
      BY <1>2, <1>8
    <2>2. PICK v \in Workers : /\ \A u \in Workers : wconn[u] = c <=> u = v
                               /\ handled[c] = IF wpc[v] = "queue" THEN 1 ELSE 0
      BY <2>1 DEF AtWorker
    <2>3. v = w
      BY <1>2, <2>2
    <2>4. handled[c] = 1
      BY <1>1, <2>2, <2>3
    <2>5. \A k \in Loops : ~ Queued(k, "sendInLoop", c)
      BY <2>1 DEF AtWorker, SendFor
    <2>6. \A k \in Loops : Once(k, "sendInLoop", c) /\ Carrying(k, "sendInLoop", c, 1)
      BY <2>5 DEF Queued, Has, Once, Single, Carrying, Carry
    <2>7. "sendInLoop" \in Operations
      BY DEF Operations
    <2>8. \A k \in Loops : /\ Queued(k, "sendInLoop", c)' <=> k = to
                           /\ Once(k, "sendInLoop", c)' /\ Carrying(k, "sendInLoop", c, 1)'
      <3> TAKE k \in Loops
      <3>1. CASE k = to
        BY <1>4, <2>4, <2>5, <2>6, <2>7, <3>1 DEF QueueEffect
      <3>2. CASE k # to
        <4>1. <<k, "sendInLoop", c>> \notin {<<to, "sendInLoop", c>>}
          BY <3>2
        <4> QED BY <1>4, <2>5, <2>6, <2>7, <3>2, <4>1 DEF QueueEffect
      <3> QED BY <3>1, <3>2
    <2>9. ~ WorkerFor(c)'
      BY <1>0, <1>5, <2>2, <2>3 DEF WorkerFor, HttpTypes
    <2>10. SendFor(c)' /\ loopOf'[c] = to
      BY <1>3, <1>4, <1>5, <2>8 DEF SendFor
    <2>11. ~ TaskFor(c)' /\ inputBuffer'[c] = 1 /\ accepted'[c] = <<>> /\ handled'[c] = 1
      BY <1>5, <1>6, <2>1, <2>4 DEF AtWorker, TaskKept
    <2>12. AtLoop(c)'
      BY <2>8, <2>9, <2>10, <2>11 DEF AtLoop
    <2> QED BY <1>6, <1>8, <2>12 DEF Sound, Stage, CountsKept
  <1> QED BY <1>5, <1>6, <1>7, <1>8, RequestsOfOthers

LEMMA RunCarries ==
    ASSUME LoopTypeOK, LoopsInv, NEW l \in Loops, NEW f, Running(l, f), Ran(l), NEW n, Carrying(l, f[1], f[2], n)
    PROVE  f[3] = n
  <1>1. ToRun(l) # <<>> /\ Head(ToRun(l)) = f
    BY RunsHead
  <1>2. ToRun(l) \in Seq(FunctorSet)
    BY ToRunSeq
  <1>3. 1 \in DOMAIN ToRun(l) /\ ToRun(l)[1] = f
    BY <1>1, <1>2, EmptySeq, LenProperties
  <1> QED BY <1>3 DEF Carrying, Carry

LEMMA RequestWritten ==
    ASSUME TypeOK, LoopsInv, LifeInv, WorkersInv, RequestsInv, NEW l \in Loops, NEW c \in Channels,
           NEW m \in Messages, RunSend(l, c, m)
    PROVE  RequestsInv'
  <1>0. LoopTypeOK /\ TcpTypeOK
    BY TypesSplit
  <1>1. /\ Running(l, Functor("sendInLoop", c, m)) /\ Ran(l)
        /\ \/ QueueEffect({<<l, "sendInLoop", c>>}, {})
           \/ QueueEffect({<<l, "sendInLoop", c>>}, {<<l, "writeComplete", c>>})
    BY RunSendQueues
  <1>2. /\ UNCHANGED <<state, peer, loopOf, rx, inputBuffer, arrived, handled, tasks, wpc, wconn, length, disturbed>>
        /\ \/ UNCHANGED accepted /\ ~ Live(c)
           \/ accepted' = [accepted EXCEPT ![c] = Append(@, m)]
    <2>1. shut[c] = FALSE
      BY DEF LifeInv, Life
    <2>2. /\ UNCHANGED <<state, socketVars, serverVars, httpVars>>
          /\ \/ UNCHANGED accepted /\ (state[c] = "kDisconnected" \/ Broken(c))
             \/ SendsDirectly(c, m)
             \/ SendsLater(c, m)
      BY SendEffect
    <2>3. UNCHANGED <<state, peer, loopOf, rx, inputBuffer, arrived, handled, tasks, wpc, wconn, length, disturbed>>
      BY ONLY <2>2 DEF serverVars, socketVars, httpVars
    <2>4. state[c] = "kDisconnected" \/ Broken(c) => ~ Live(c)
      BY <2>1 DEF Live, Broken
    <2>5. SendsDirectly(c, m) \/ SendsLater(c, m) => accepted' = [accepted EXCEPT ![c] = Append(@, m)]
      BY DEF SendsDirectly, SendsLater
    <2> QED BY ONLY <2>2, <2>3, <2>4, <2>5
  <1>3. \A d \in Channels : TaskKept(d) /\ WorkKept(d)
    BY <1>2, WorkAside
  <1>4. \A d \in Channels \ {c} : SendsKept(d) /\ CountsKept(d)
    <2>1. \A d \in Channels \ {c} : SendsKept(d)
      BY <1>1, SendsAside
    <2>2. \A d \in Channels \ {c} : CountsKept(d)
      BY <1>0, <1>2 DEF CountsKept, TcpTypeOK
    <2> QED BY <2>1, <2>2
  <1>5. ASSUME Live(c), Sound(c) PROVE Sound(c)'
    <2>1. "sendInLoop" \in Operations
      BY DEF Operations
    <2>2. Queued(l, "sendInLoop", c) /\ (Once(l, "sendInLoop", c) => ~ Queued(l, "sendInLoop", c)')
      BY <1>1, <2>1 DEF QueueEffect
    <2>3. AtLoop(c)
      BY <1>5, <2>2 DEF Sound, Stage, Unread, InTask, AtWorker, Written, SendFor
    <2>4. m = 1
      <3>1. /\ Functor("sendInLoop", c, m)[1] = "sendInLoop" /\ Functor("sendInLoop", c, m)[2] = c
            /\ Functor("sendInLoop", c, m)[3] = m
        BY DEF Functor
      <3>2. Carrying(l, "sendInLoop", c, 1)
        BY <2>3 DEF AtLoop
      <3> QED BY <1>0, <1>1, <3>1, <3>2, RunCarries
    <2>5. \A k \in Loops : ~ Queued(k, "sendInLoop", c)'
      <3>1. \A k \in Loops : Queued(k, "sendInLoop", c) => k = l
        BY <2>2, <2>3 DEF AtLoop
      <3>2. \A k \in Loops : Queued(k, "sendInLoop", c)' => Queued(k, "sendInLoop", c)
        BY <1>1, <2>1 DEF QueueEffect
      <3> QED BY <2>2, <2>3, <3>1, <3>2 DEF AtLoop
    <2>6. accepted'[c] = <<1>>
      <3>1. accepted[c] = <<>> /\ accepted' = [accepted EXCEPT ![c] = Append(@, m)]
        BY <1>2, <1>5, <2>3 DEF AtLoop
      <3>2. Append(<<>>, 1) = <<1>>
        OBVIOUS
      <3>3. accepted'[c] = Append(accepted[c], m)
        BY <1>0, <3>1 DEF TcpTypeOK
      <3> QED BY <2>4, <3>1, <3>2, <3>3
    <2>7. ~ TaskFor(c)' /\ ~ WorkerFor(c)' /\ ~ SendFor(c)'
      BY <1>3, <2>3, <2>5, WorkerForKept DEF AtLoop, TaskKept, SendFor
    <2>8. Written(c)'
      BY <1>2, <2>3, <2>6, <2>7 DEF AtLoop, Written
    <2> QED BY <1>2, <1>5, <2>8 DEF Sound, Stage
  <1> QED BY <1>2, <1>3, <1>4, <1>5, RequestsOfOthers

\* Whatever a step does, a request is nowhere else than it should be.
LEMMA RequestsStep ==
    ASSUME TypeOK, LoopsInv, LifeInv, EventsInv, WorkersInv, RequestsInv, [Next]_vars
    PROVE  RequestsInv'
  <1> DEFINE Counts == UNCHANGED <<arrived, rx, inputBuffer, handled, accepted>>
             Works == UNCHANGED <<tasks, wpc, wconn, length, disturbed>>
             Conns == UNCHANGED <<state, peer, loopOf>>
  <1>0. ThreadsInv /\ LoopTypeOK /\ TcpTypeOK /\ ServerTypeOK /\ SocketTypes /\ HttpTypes /\ Base \in Loops
    BY TypesSplit, TypesAre, ServerAssumption
  <1>1. ASSUME NEW out, NEW in, QueueEffect(out, in), Counts, Works,
               \A k \in Loops, d \in Channels : <<k, "sendInLoop", d>> \notin out /\ <<k, "sendInLoop", d>> \notin in,
               \A d \in Channels : (Live(d)' => Live(d)) /\ (loopOf'[d] = loopOf[d] \/ ~ SendFor(d))
        PROVE  RequestsInv'
    BY <1>1, RequestsAside
  <1>2. ASSUME NEW out, NEW in, QueueEffect(out, in), Counts, Works, Conns,
               \A k \in Loops, d \in Channels : <<k, "sendInLoop", d>> \notin out /\ <<k, "sendInLoop", d>> \notin in
        PROVE  RequestsInv'
    <2>1. \A d \in Channels : (Live(d)' => Live(d)) /\ loopOf'[d] = loopOf[d]
      BY <1>2 DEF Live
    <2> QED BY <1>1, <1>2, <2>1
  <1>3. UNCHANGED loopVars => QueueEffect({}, {})
    BY <1>0, QueuesKept DEF loopVars
  <1>4. ASSUME NEW c \in Channels, Client(c) PROVE RequestsInv'
    <2>1. CASE Connect(c)
      BY <1>2, <1>3, <2>1 DEF Connect, PeerConnects, tcpVars, socketVars, httpVars
    <2>2. CASE Send(c)
      BY <2>2, RequestArrives
    <2>3. CASE Hangup(c)
      <3>1. /\ QueueEffect({}, {}) /\ Works
            /\ UNCHANGED <<state, loopOf, arrived, inputBuffer, handled, accepted>>
        BY <1>3, <2>3 DEF Hangup, tcpVars, serverVars, httpVars
      <3>2. \A d \in Channels : SendsKept(d) /\ TaskKept(d) /\ WorkKept(d)
        BY <3>1, SendsAside, WorkAside
      <3>3. \A d \in Channels : Live(d)' => Live(d) /\ rx'[d] = rx[d]
        <4>1. CASE PeerCloses(c)
          BY <1>0, <3>1, <4>1 DEF PeerCloses, Live, SocketTypes
        <4>2. CASE PeerResets(c)
          BY <1>0, <3>1, <4>2 DEF PeerResets, Live, SocketTypes
        <4> QED BY <2>3, <4>1, <4>2 DEF Hangup
      <3>4. \A d \in Channels : Live(d)' /\ Sound(d) => Sound(d)'
        <4> TAKE d \in Channels
        <4> HAVE Live(d)' /\ Sound(d)
        <4>1. CountsKept(d)
          BY <3>1, <3>3 DEF CountsKept
        <4> QED BY <3>1, <3>2, <4>1, RequestStays
      <3> QED BY <3>3, <3>4, RequestsAll
    <2> QED BY <1>4, <2>1, <2>2, <2>3 DEF Client
  <1>5. ASSUME NEW l \in Loops, PollLoop(l) \/ LoopStepOnly(l) PROVE RequestsInv'
    <2>1. QueueEffect({}, {})
      BY <1>0, <1>5, QueuesKept DEF PollLoop, Poll, LoopStepOnly, LoopStep, HandleWakeup
    <2>2. Counts /\ Works /\ Conns
      BY <1>5 DEF PollLoop, LoopStepOnly, tcpVars, socketVars, serverVars, httpVars
    <2> QED BY <1>2, <2>1, <2>2
  <1>6. ASSUME NEW l \in Loops, NEW c \in Channels, OnConnection(l, c) PROVE RequestsInv'
    <2>1. CASE Accept(c)
      <3>1. CASE NewConnection(c)
        <4>1. PICK to : to = GetNextLoop
          OBVIOUS
        <4>2. QueueEffect({}, {<<to, "connectEstablished", c>>})
          BY <3>1, <4>1, NewConnectionQueues
        <4>3. c \in backlog /\ Counts /\ Works /\ UNCHANGED peer
          BY <2>1, <3>1 DEF Accept, NewConnection, socketVars, httpVars
        <4>4. \A d \in Channels \ {c} : state'[d] = state[d] /\ loopOf'[d] = loopOf[d]
          BY <1>0, <3>1 DEF NewConnection, TcpTypeOK, ServerTypeOK
        <4>5. state[c] = "none"
          BY <4>3 DEF LifeInv, Life
        <4>6. ~ SendFor(c)
          BY <4>5 DEF SendFor, WorkersInv, Been
        <4>7. \A d \in Channels : (Live(d)' => Live(d)) /\ (loopOf'[d] = loopOf[d] \/ ~ SendFor(d))
          <5> TAKE d \in Channels
          <5>1. CASE d = c
            BY <4>3, <4>5, <4>6, <5>1 DEF Live
          <5>2. CASE d # c
            BY <4>3, <4>4, <5>2 DEF Live
          <5> QED BY <5>1, <5>2
        <4> QED BY <1>1, <4>2, <4>3, <4>7
      <3>2. CASE RefuseConnection(c)
        <4>1. QueueEffect({}, {})
          BY <3>2, RefuseConnectionQueues
        <4>2. Counts /\ Works /\ Conns
          BY <2>1, <3>2 DEF Accept, RefuseConnection, tcpVars, socketVars, httpVars
        <4> QED BY <1>2, <4>1, <4>2
      <3> QED BY <2>1, <3>1, <3>2 DEF Accept
    <2>2. CASE RunRemove(c)
      <3>1. PICK to : to = loopOf[c]
        OBVIOUS
      <3>2. QueueEffect({<<Base, "removeConnection", c>>}, {<<to, "connectDestroyed", c>>})
        BY <2>2, <3>1, RunRemoveQueues
      <3>3. Counts /\ Works /\ Conns
        BY <2>2 DEF RunRemove, RemoveConnectionInLoop, tcpVars, socketVars, httpVars
      <3> QED BY <1>2, <3>2, <3>3
    <2>3. CASE RunEstablished(l, c)
      <3>1. QueueEffect({<<l, "connectEstablished", c>>}, {})
        BY <2>3, RunEstablishedQueues
      <3>2. Counts /\ Works /\ UNCHANGED <<peer, loopOf>>
        BY <2>3 DEF RunEstablished, Establish, socketVars, serverVars
      <3>3. \A d \in Channels : state'[d] = IF d = c THEN "kConnected" ELSE state[d]
        BY <1>0, <2>3 DEF RunEstablished, Establish, TcpTypeOK
      <3>4. state[c] = "kConnecting"
        <4>1. Queued(l, "connectEstablished", c)
          BY <3>1 DEF QueueEffect, Operations, Lifecycle
        <4> QED BY <4>1 DEF LifeInv, Life
      <3>5. \A d \in Channels : (Live(d)' => Live(d)) /\ loopOf'[d] = loopOf[d]
        BY <3>2, <3>3, <3>4 DEF Live
      <3> QED BY <1>1, <3>1, <3>2, <3>5
    <2>4. CASE HandleRead(l, c)
      BY <2>4, RequestRead
    <2>5. CASE HandleEof(l, c)
      <3>1. CloseConnection(l, c, "IN") /\ QueueEffect({}, {<<Base, "removeConnection", c>>})
        BY <2>5, Ends, CloseConnectionQueues
      <3>2. Counts /\ Works /\ UNCHANGED <<peer, loopOf>>
        BY <3>1 DEF CloseConnection, Close, RemoveConnection, socketVars, serverVars
      <3>3. \A d \in Channels : state'[d] = IF d = c THEN "kDisconnected" ELSE state[d]
        BY <1>0, <3>1 DEF CloseConnection, Close, TcpTypeOK
      <3>4. \A d \in Channels : (Live(d)' => Live(d)) /\ loopOf'[d] = loopOf[d]
        BY <3>2, <3>3 DEF Live
      <3> QED BY <1>1, <3>1, <3>2, <3>4
    <2>6. CASE HandleHup(l, c)
      <3>1. QueueEffect({}, {})
        BY <2>6, HandleHupQueues
      <3>2. Counts /\ Works /\ Conns
        BY <2>6 DEF HandleHup, tcpVars, socketVars, serverVars, httpVars
      <3> QED BY <1>2, <3>1, <3>2
    <2>7. CASE HandleOther(l, c)
      <3>1. Works /\ UNCHANGED <<loopOf, arrived, inputBuffer, handled>>
        BY <2>7 DEF HandleOther, serverVars, httpVars
      <3>2. CASE HandleReadError(l, c) \/ HandleError(l, c)
        <4>1. QueueEffect({}, {})
          BY <3>2, HandleErrorQueues
        <4>2. UNCHANGED <<state, peer, rx, accepted>>
          BY <3>2 DEF HandleReadError, HandleError, tcpVars
        <4> QED BY <1>2, <3>1, <4>1, <4>2
      <3>3. CASE HandleWrite(l, c)
        <4>1. UNCHANGED <<state, peer, rx, accepted>>
          BY <3>3, WriteEffect DEF socketVars
        <4>2. QueueEffect({}, {}) \/ QueueEffect({}, {<<l, "writeComplete", c>>})
          BY <3>3, HandleWriteQueues
        <4> QED BY <1>2, <3>1, <4>1, <4>2
      <3> QED BY <2>7, <3>2, <3>3 DEF HandleOther
    <2>8. CASE RunDestroyed(l, c)
      <3>1. QueueEffect({<<l, "connectDestroyed", c>>}, {}) /\ UNCHANGED state
        BY <2>8, LifeDestroyed, RunDestroyedQueues
      <3>2. Counts /\ Works /\ Conns
        BY <2>8, <3>1 DEF RunDestroyed, Destroy, socketVars, serverVars, httpVars
      <3> QED BY <1>2, <3>1, <3>2
    <2>9. CASE RunWriteComplete(l, c)
      <3>1. QueueEffect({<<l, "writeComplete", c>>}, {})
        BY <2>9, RunWriteCompleteQueues
      <3>2. Counts /\ Works /\ Conns
        BY <2>9 DEF RunWriteComplete, tcpVars, socketVars, serverVars, httpVars
      <3> QED BY <1>2, <3>1, <3>2
    <2>10. CASE \E m \in Messages : RunSend(l, c, m)
      BY <2>10, RequestWritten
    <2> QED BY <1>6, <2>1, <2>2, <2>3, <2>4, <2>5, <2>6, <2>7, <2>8, <2>9, <2>10 DEF OnConnection
  <1>7. ASSUME NEW w \in Workers, Work(w) PROVE RequestsInv'
    BY <1>7, RequestTaken, RequestParsed, RequestHandled, RequestQueued DEF Work
  <1>8. CASE UNCHANGED vars
    <2>1. QueueEffect({}, {})
      BY <1>3, <1>8 DEF vars
    <2>2. Counts /\ Works /\ Conns
      BY <1>8 DEF vars, tcpVars, socketVars, serverVars, httpVars
    <2> QED BY <1>2, <2>1, <2>2
  <1> QED BY <1>4, <1>5, <1>6, <1>7, <1>8 DEF Next, LoopThread, Quiet

-----------------------------------------------------------------------------
\* The invariant of the server.
LEMMA NothingQueued == ASSUME NEW l, functors[l] = <<>>, pendingFunctors[l] = <<>>, next[l] = 0
                       PROVE  ToRun(l) = <<>> /\ \A op, c : ~ Queued(l, op, c) /\ Once(l, op, c)
  <1>1. SubSeq(<<>>, 0 + 1, Len(<<>>)) \o <<>> = <<>>
    OBVIOUS
  <1>2. ToRun(l) = <<>>
    BY <1>1 DEF ToRun
  <1> QED BY <1>2 DEF Queued, Has, Once, Single

LEMMA ServerStarts == Init => ServerInv
  <1> SUFFICES ASSUME Init PROVE ServerInv
    OBVIOUS
  <1>0. LoopInit /\ TcpInit /\ ServerInit
    BY DEF Init
  <1>1. \A l \in Loops : /\ phase[l] = "poll" /\ active[l] = <<>> /\ pendingFunctors[l] = <<>>
                         /\ functors[l] = <<>> /\ next[l] = 0 /\ wakeupFd[l] = FALSE
    BY <1>0 DEF LoopInit
  <1>2. \A l \in Loops : \A op, c : ~ Queued(l, op, c) /\ Once(l, op, c)
    BY <1>1, NothingQueued
  <1>3. \A c \in Channels : /\ state[c] = "none" /\ outputBuffer[c] = <<>> /\ sent[c] = <<>> /\ accepted[c] = <<>>
                            /\ shut[c] = FALSE /\ rx[c] = 0 /\ events[c] = {} /\ index[c] = "kNew"
                            /\ loopOf[c] = Base /\ inputBuffer[c] = 0 /\ handled[c] = 0 /\ arrived[c] = 0
    BY <1>0 DEF Init, LoopInit, TcpInit, ServerInit
  <1>4. tasks = <<>> /\ connections = {} /\ s_http_map = {} /\ backlog = {}
        /\ \A w \in Workers : wpc[w] = "take" /\ wconn[w] = Nobody
    BY <1>0 DEF Init, ServerInit
  <1>5. \A S : <<>> \in Seq(S)
    BY EmptySeq
  <1>6. TypeOK /\ LoopsInv
    <2>1. /\ phase \in [Loops -> {"poll", "events", "functors"}]
          /\ active \in [Loops -> Seq((Channels \cup {Wakeup, Acceptor}) \X SUBSET Revents)]
          /\ wakeupFd \in [Loops -> BOOLEAN] /\ next \in [Loops -> Nat]
          /\ events \in [Channels -> SUBSET {"IN", "OUT"}]
          /\ index \in [Channels -> {"kNew", "kAdded", "kDeleted"}]
      BY <1>0, <1>5 DEF LoopInit
    <2>2. \A l \in Loops : next[l] <= Len(functors[l])
      BY <1>1, EmptySeq
    <2>3. TcpTypeOK
      BY <1>0, <1>5 DEF TcpInit, TcpTypeOK, States
    <2>4. ServerTypeOK
      <3>1. IoLoops \in Seq(Loops \ {Base}) /\ IoLoops # <<>> /\ Base \in Loops
        BY ServerAssumption
      <3>2. Len(IoLoops) \in Nat \ {0}
        BY <3>1, EmptySeq, LenProperties
      <3> QED BY <1>0, <3>1, <3>2 DEF ServerInit, ServerTypeOK
    <2>5. HttpTypes
      BY <1>5 DEF Init, HttpTypes
    <2>6. LoopsInv
      <3>1. pendingFunctors \in [Loops -> Seq(FunctorSet)] /\ functors \in [Loops -> Seq(FunctorSet)]
        BY <1>0, <1>5 DEF LoopInit
      <3> QED BY <1>1, <3>1 DEF LoopsInv
    <2>7. LoopTypeOK
      BY <2>1, <2>2 DEF LoopTypeOK
    <2> QED BY <2>3, <2>4, <2>5, <2>6, <2>7 DEF TypeOK, HttpTypes
  <1>7. LifeInv
    BY <1>2, <1>3, <1>4 DEF LifeInv, Life
  <1>8. EventsInv
    BY <1>1, EmptySeq DEF EventsInv
  <1>9. \A c \in Channels : ~ TaskFor(c) /\ ~ WorkerFor(c) /\ ~ SendFor(c)
    BY <1>2, <1>4, HttpAssumption DEF TaskFor, WorkerFor, SendFor
  <1>10. WorkersInv
    BY <1>2, <1>3, <1>4, <1>9 DEF WorkersInv
  <1>11. OutputRight
    <2>1. <<>> \o <<>> = <<>>
      OBVIOUS
    <2> QED BY <1>3, <2>1, FlattenEmpty DEF OutputRight, OutputInOrder, WriteInterest
  <1>12. FdsInv
    <2>1. OpenFds = {}
      BY <1>3 DEF OpenFds
    <2> QED BY <2>1, FS_EmptySet, ServerAssumption DEF FdsInv, FdsBounded
  <1>13. RequestsInv
    <2>1. \A c \in Channels : Sound(c)
      BY <1>3, <1>9 DEF Sound, Stage, Unread
    <2> QED BY <2>1, RequestIs DEF RequestsInv
  <1> QED BY <1>6, <1>7, <1>8, <1>10, <1>11, <1>12, <1>13 DEF ServerInv

LEMMA ServerStep == ASSUME ServerInv, [Next]_vars PROVE ServerInv'
  <1>0. TypeOK /\ LoopsInv /\ LifeInv /\ EventsInv /\ WorkersInv /\ OutputRight /\ FdsInv /\ RequestsInv
    BY DEF ServerInv
  <1>1. ThreadsInv' /\ LifeInv' /\ EventsInv' /\ WorkersInv' /\ OutputInv' /\ RequestsInv'
    BY <1>0, ThreadsStep, LifeStep, EventsStep, WorkersStep, OutputStep, RequestsStep
  <1>2. ConnectionTypes' /\ SocketTypes' /\ ServerTypeOK' /\ HttpTypes'
    BY <1>0, ConnectionTypesStep, SocketTypesStep, ServerTypesStep, HttpTypesStep
  <1>3. (OutputInv => OutputTypes /\ OutputRight)'
    BY OutputIs, PTL
  <1>4. OutputTypes' /\ OutputRight'
    BY <1>1, <1>3
  <1>5. (ThreadsInv /\ ConnectionTypes /\ SocketTypes /\ OutputTypes /\ ServerTypeOK /\ HttpTypes
            => TypeOK /\ LoopsInv)'
    BY TypesAre, PTL
  <1>6. TypeOK' /\ LoopsInv'
    BY <1>1, <1>2, <1>4, <1>5
  <1>7. FdsInv'
    BY <1>0, <1>1, <1>6, FdsStep
  <1> QED BY <1>1, <1>4, <1>6, <1>7 DEF ServerInv

(* The invariant the properties follow from: types, what the loops have queued, where a
   connection is in its life and whose turn it is, the events a loop has still to handle,
   what tasks and workers refer to, output, descriptors and requests in one piece. *)
THEOREM ServerInductive == Spec => []ServerInv
  <1>1. Init => ServerInv
    BY ServerStarts
  <1>2. ServerInv /\ [Next]_vars => ServerInv'
    BY ServerStep
  <1> QED BY <1>1, <1>2, PTL DEF Spec

(* No lost wakeup, for any number of loops, workers and connections: a loop that waits in
   poll() with functors queued has its eventfd written.  (EventLoop::queueInLoop) *)
THEOREM ServerNeverSleepsOnWork == Spec => []NoLostWakeup
  <1>1. ServerInv => NoLostWakeup
    BY DEF ServerInv, LoopsInv, NoLostWakeup
  <1> QED BY <1>1, ServerInductive, PTL

(* What a connection has accepted goes out in order and waits for POLLOUT while it has to,
   with any messages and any short writes.  (TcpConnection::sendInLoop, handleWrite) *)
THEOREM OutputAlwaysRight == Spec => []OutputRight
  <1>1. ServerInv => OutputRight
    BY DEF ServerInv
  <1> QED BY <1>1, ServerInductive, PTL

LEMMA QueuedFind == ServerInv => QueuedFindsConnection
  <1> SUFFICES ASSUME ServerInv, NEW l \in Loops, NEW i \in DOMAIN ToRun(l), NEW f, f = ToRun(l)[i]
               PROVE  Owned(f[2]) \/ (f[1] = "sendInLoop" /\ state[f[2]] = "kDisconnected")
    BY DEF QueuedFindsConnection
  <1>0. LoopTypeOK /\ LoopsInv /\ LifeInv /\ WorkersInv
    BY TypesSplit DEF ServerInv
  <1>1. f \in FunctorSet
    <2>1. ToRun(l) \in Seq(FunctorSet)
      BY <1>0, ToRunSeq
    <2> QED BY <2>1, ElementOfSeq, LenProperties
  <1>2. f[1] \in Operations /\ f[2] \in Channels
    BY <1>1, FunctorFields
  <1>3. Queued(l, f[1], f[2])
    BY DEF Queued, Has
  <1>4. CASE f[1] \in Owning
    BY <1>0, <1>3, <1>4, QueuedOwns DEF Owned
  <1>5. CASE f[1] = "sendInLoop"
    <2>1. Been(f[2])
      BY <1>0, <1>2, <1>3, <1>5 DEF WorkersInv
    <2>2. state[f[2]] = "kConnected" => f[2] \in connections
      BY <1>0, <1>2 DEF LifeInv, Life
    <2> QED BY <1>5, <2>1, <2>2 DEF Been, Owned
  <1> QED BY <1>2, <1>4, <1>5 DEF Operations, Lifecycle, Owning

LEMMA RemovesOnce == ServerInv => RemovedOnce
  <1> SUFFICES ASSUME ServerInv, NEW c \in Channels,
                      NEW R, R = {i \in DOMAIN ToRun(Base) :
                                     ToRun(Base)[i] = Functor("removeConnection", c, NoMessage)},
                      R # {}
               PROVE  Cardinality(R) = 1 /\ c \in connections
    BY DEF RemovedOnce
  <1>0. LifeInv /\ Base \in Loops
    BY ServerAssumption DEF ServerInv
  <1>1. \A i \in R : i \in DOMAIN ToRun(Base) /\ ToRun(Base)[i][1] = "removeConnection" /\ ToRun(Base)[i][2] = c
    BY DEF Functor
  <1>2. Queued(Base, "removeConnection", c) /\ Once(Base, "removeConnection", c)
    BY <1>0, <1>1 DEF Queued, Has, LifeInv, Life, Lifecycle
  <1>3. c \in connections
    BY <1>0, <1>2 DEF LifeInv, Life
  <1>4. PICK i \in R : R = {i}
    BY <1>1, <1>2 DEF Once, Single
  <1> QED BY <1>3, <1>4, FS_Singleton

(* However connections end: what is queued finds its connection, each is removed from the
   server's map once, and no more descriptors are open than the process may have.
   (TcpServer::newConnection, removeConnection, removeConnectionInLoop, Acceptor::handleRead) *)
THEOREM ConnectionsAlwaysSound == Spec => []ConnectionsSound
  <1>1. ServerInv => ConnectionsSound
    BY QueuedFind, RemovesOnce DEF ServerInv, FdsInv, ConnectionsSound
  <1> QED BY <1>1, ServerInductive, PTL

\* What the server still keeps when it has settled is up, and nothing is ready for it.
LEMMA AtRest ==
    ASSUME ServerInv, Settled, NEW c \in Channels
    PROVE  /\ ~ TaskFor(c) /\ ~ WorkerFor(c) /\ ~ SendFor(c)
           /\ Owned(c) => state[c] = "kConnected" /\ "IN" \in events[c] /\ ReadyEvents(c) = {}
  <1>0. /\ TypeOK /\ LoopsInv /\ LifeInv /\ EventsInv /\ WorkersInv
        /\ HttpTypes /\ ServerTypeOK /\ ConnectionTypes /\ Base \in Loops
    BY TypesAre, ServerAssumption DEF ServerInv
  <1>1. \A l \in Loops : pendingFunctors[l] = <<>> /\ functors[l] = <<>> /\ next[l] = 0
    BY <1>0 DEF Settled, LoopsInv
  <1>2. \A l \in Loops : \A op : ~ Queued(l, op, c)
    BY <1>1, NothingQueued
  <1>3. ~ TaskFor(c) /\ ~ WorkerFor(c) /\ ~ SendFor(c)
    BY <1>0, <1>2, HttpAssumption DEF Settled, TaskFor, WorkerFor, SendFor, WorkersInv
  <1>4. ~ OwnedByFunctor(c)
    BY <1>1 DEF OwnedByFunctor
  <1>5. ASSUME Owned(c) PROVE state[c] = "kConnected" /\ "IN" \in events[c] /\ ReadyEvents(c) = {}
    <2>1. c \in connections
      BY <1>0, <1>3, <1>4, <1>5, OwnedIs DEF Kept
    <2>2. Life(c) /\ loopOf[c] \in Loops
      BY <1>0 DEF LifeInv, ServerTypeOK
    <2>3. state[c] # "none" /\ state[c] # "kDisconnecting" /\ state[c] \in States
      BY <1>0, <2>1, <2>2 DEF Life, ConnectionTypes
    <2>4. state[c] # "kConnecting"
      BY <1>2, <2>2 DEF Life
    <2>5. state[c] # "kDisconnected"
      BY <1>0, <1>2, <2>1, <2>2 DEF Life
    <2>6. state[c] = "kConnected"
      BY <2>3, <2>4, <2>5 DEF States
    <2>7. "IN" \in events[c] /\ index[c] = "kAdded"
      BY <2>2, <2>6 DEF Life
    <2>8. ReadyConnections({d \in Channels : loopOf[d] = loopOf[c]}) = {}
      BY <2>2 DEF Settled
    <2> QED BY <2>6, <2>7, <2>8 DEF ReadyConnections
  <1> QED BY <1>3, <1>5

LEMMA RevEvents == Revents = {"HUP", "ERR", "IN", "OUT"}
  BY DEF Revents, CallbackOrder

(* Nothing is kept for ever: when the server has settled, no map, task, worker, functor or
   event holds a connection whose client is gone.
   (HttpServer::onConnection, TcpServer::removeConnectionInLoop) *)
THEOREM ConnectionsFreed == Spec => []Freed
  <1>1. ASSUME ServerInv, Settled, NEW c \in Channels, peer[c] # "open" PROVE ~ Owned(c)
    <2>1. Owned(c) => "IN" \in ReadyEvents(c) /\ ReadyEvents(c) = {}
      BY <1>1, AtRest, RevEvents DEF ReadyEvents
    <2> QED BY <2>1
  <1>2. ServerInv => Freed
    BY <1>1 DEF Freed
  <1> QED BY <1>2, ServerInductive, PTL

(* When the server has settled, a well-formed request that arrived in one piece has been
   carried out once, and its answer is written completely, whatever the other connections
   do and however short the writes were.  (CHttpConn::OnRead, TcpConnection::send) *)
THEOREM RequestsAnsweredOnce == Spec => []AnsweredOnce
  <1>1. ASSUME ServerInv, Settled, NEW c \in OpenFds \ Malformed, Segments[c] = 1, arrived[c] = 1
        PROVE  handled[c] = 1 /\ sent[c] = Bytes(1)
    <2>0. c \in Channels /\ Owned(c) /\ TypeOK /\ HttpTypes /\ SocketTypes /\ OutputInv
      BY <1>1, TypesAre, TypesSplit, OutputIs DEF OpenFds, ServerInv
    <2>1. /\ ~ TaskFor(c) /\ ~ WorkerFor(c) /\ ~ SendFor(c)
          /\ state[c] = "kConnected" /\ "IN" \in events[c] /\ ReadyEvents(c) = {}
      BY <1>1, <2>0, AtRest
    <2>2. peer[c] # "reset" /\ ~ rx[c] > 0 /\ ~ Writing(c)
      BY <2>1, RevEvents DEF ReadyEvents, Writing
    <2>3. Sound(c)
      <3>1. Request(c)
        BY <1>1, <2>0 DEF ServerInv, RequestsInv
      <3> QED BY <1>1, <2>1, <2>2, <3>1, RequestIs DEF Live
    <2>4. inputBuffer[c] = 1
      <3>1. rx[c] \in Nat /\ inputBuffer[c] \in Nat /\ arrived[c] = rx[c] + inputBuffer[c]
        BY <2>0, <2>3 DEF Sound, HttpTypes, SocketTypes
      <3> QED BY ONLY <1>1, <2>2, <3>1
    <2>5. ~ AtWorker(c)
      BY <2>1 DEF AtWorker, WorkerFor
    <2>6. Written(c)
      BY <2>1, <2>3, <2>4, <2>5 DEF Sound, Stage, Unread, InTask, AtLoop
    <2>7. sent[c] = Flatten(<<1>>)
      <3>1. OutputAt(c) /\ sent[c] \in Seq(Unit)
        BY <2>0 DEF OutputInv, OutputTypes
      <3>2. outputBuffer[c] = <<>>
        BY <2>1, <2>2, <3>1 DEF OutputAt, Up
      <3>3. sent[c] \o <<>> = Flatten(<<1>>)
        BY <2>6, <3>1, <3>2 DEF OutputAt, Written
      <3>4. sent[c] \o <<>> = sent[c]
        BY <3>1, ConcatEmptySeq
      <3> QED BY <3>3, <3>4
    <2>8. Flatten(<<1>>) = Bytes(1)
      <3>1. <<1>> \in Seq(Messages)
        BY <2>0, <2>6 DEF Written, OutputInv, OutputTypes
      <3>2. 1 \in Messages
        BY <3>1, ElementOfSeq
      <3>3. Append(<<>>, 1) = <<1>> /\ <<>> \in Seq(Messages)
        BY EmptySeq
      <3>4. Flatten(<<1>>) = <<>> \o Bytes(1)
        BY <3>2, <3>3, FlattenAppend, FlattenEmpty
      <3>5. Bytes(1) \in Seq(Unit)
        BY <3>2, BytesIs
      <3> QED BY <3>4, <3>5, ConcatEmptySeq
    <2> QED BY <2>6, <2>7, <2>8 DEF Written
  <1>2. ServerInv => AnsweredOnce
    BY <1>1 DEF AnsweredOnce
  <1> QED BY <1>2, ServerInductive, PTL

=============================================================================
