---------------------------- MODULE RedisReader -----------------------------
(***************************************************************************)
(* hiredis: how commands are written (redisFormatCommand) and how replies  *)
(* are read (read.c), however the socket cuts them into pieces.            *)
(*                                                                         *)
(* Texts are strings.  A reply is a function from paths to nodes: the path *)
(* of a node is the sequence of its indices in the arrays around it.       *)
(* Memory is never short.                                                  *)
(***************************************************************************)
EXTENDS Integers, Sequences, SequencesExt, FiniteSets

CONSTANTS
    ReaderInputs,       \* what the caller reads: text, replies, ends, error, totlen
    ReaderSegments,     \* sizes of the pieces
    ULLONG, INT_MAX,    \* largest numbers
    ReaderKeep          \* the read part of the buffer is dropped from this size on

VARIABLES
    incoming,      \* the text of this behaviour and what it means
    fed,        \* characters handed to the reader
    reader,     \* struct redisReader
    replies,    \* the replies got so far
    drained     \* the last redisReaderGetReply gave no reply

readerVars == <<incoming, fed, reader, replies, drained>>
-----------------------------------------------------------------------------
Char(text, i) == IF i \in 1..Len(text) THEN SubSeq(text, i, i) ELSE ""
IsDigit(ch) == \E d \in 0..9 : ToString(d) = ch
DigitOf(ch) == CHOOSE d \in 0..9 : ToString(d) = ch
NoNumber == [ok |-> FALSE, value |-> 0]

(* string2ll: exactly the numerals of the numbers of the type. *)
LLONG == ULLONG \div 2
AddDigit(n, d) ==
    IF ~ n.ok \/ n.value > ULLONG \div 10 \/ n.value * 10 > ULLONG - d THEN NoNumber
    ELSE [ok |-> TRUE, value |-> n.value * 10 + d]

Magnitude(digits) ==
    LET after[i \in 0..Len(digits)] ==
            IF i = 0 THEN [ok |-> TRUE, value |-> 0]
            ELSE AddDigit(after[i - 1], DigitOf(Char(digits, i)))
    IN  IF digits # "" /\ (\A i \in 1..Len(digits) : IsDigit(Char(digits, i))) /\ Char(digits, 1) # "0"
        THEN after[Len(digits)] ELSE NoNumber

String2ll(s) ==
    LET negative == s # "" /\ Char(s, 1) = "-"
        n == Magnitude(IF negative THEN SubSeq(s, 2, Len(s)) ELSE s)
    IN  CASE s = "0" -> [ok |-> TRUE, value |-> 0]
          [] ~ n.ok \/ n.value > LLONG + (IF negative THEN 1 ELSE 0) -> NoNumber
          [] negative -> [ok |-> TRUE, value |-> - n.value]
          [] OTHER -> n

-----------------------------------------------------------------------------
(* struct redisReader; ridx is the length of rstack less one.  go tells whether
   processItem returned REDIS_OK. *)
Task(idx) == [type |-> "none", elements |-> -1, idx |-> idx]
ReaderCreate == [buf |-> "", pos |-> 0, err |-> "", rstack |-> <<>>, reply |-> <<>>, go |-> TRUE]
SetError(r, why) == [ReaderCreate EXCEPT !.err = why, !.go = FALSE]
More(r) == [r EXCEPT !.go = FALSE]

Cur(r) == r.rstack[Len(r.rstack)]
Node(type, value) == [type |-> type, value |-> value]

(* create*Object: the new object is put into its parent. *)
PathTo(r) == [i \in 1..Len(r.rstack) - 1 |-> r.rstack[i + 1].idx]
Create(r, node) == [r EXCEPT !.reply = (PathTo(r) :> node) @@ @]

(* seekNewline: where the next \r\n starts, 0 if there is none. *)
SeekNewline(r) ==
    LET found == {i \in r.pos + 1..Len(r.buf) - 1 : SubSeq(r.buf, i, i + 1) = "\r\n"}
    IN  IF found = {} THEN 0 ELSE CHOOSE i \in found : \A j \in found : i <= j
LineOf(r, at) == SubSeq(r.buf, r.pos + 1, at - 1)
Skip(r, at) == [r EXCEPT !.pos = at + 1]

\* Mutant: only one finished array is popped.
MoveToNextTaskOne(r) ==
    LET n == Len(r.rstack)
    IN  IF n = 1 THEN [r EXCEPT !.rstack = <<>>]
        ELSE IF Cur(r).idx = r.rstack[n - 1].elements - 1
             THEN [r EXCEPT !.rstack = SubSeq(@, 1, n - 1)]
             ELSE [r EXCEPT !.rstack[n] = Task(@.idx + 1)]

(* Leave every array whose last element is done. *)
MoveToNextTask(r) ==
    LET unfinished == {k \in 2..Len(r.rstack) : r.rstack[k].idx # r.rstack[k - 1].elements - 1}
        k == CHOOSE k \in unfinished : \A j \in unfinished : j <= k
    IN  IF unfinished = {} THEN [r EXCEPT !.rstack = <<>>]
        ELSE [r EXCEPT !.rstack = Append(SubSeq(@, 1, k - 1), Task(@[k].idx + 1))]

ProcessLineItem(r) ==
    LET at == SeekNewline(r)
        n == String2ll(LineOf(r, at))
    IN  CASE at = 0 -> More(r)
          [] at # 0 /\ Cur(r).type = "integer" /\ ~ n.ok -> SetError(r, "Bad integer value")
          [] at # 0 /\ Cur(r).type = "integer" /\ n.ok ->
               MoveToNextTask(Create(Skip(r, at), Node("integer", n.value)))
          [] OTHER -> MoveToNextTask(Create(Skip(r, at), Node(Cur(r).type, LineOf(r, at))))

ProcessBulkItem(r) ==
    LET at == SeekNewline(r)
        n == String2ll(LineOf(r, at))
        end == at + 1 + n.value + 2
    IN  CASE at = 0 -> More(r)
          [] at # 0 /\ ~ n.ok -> SetError(r, "Bad bulk string length")
          [] at # 0 /\ n.ok /\ n.value < -1 -> SetError(r, "Bulk string length out of range")
          [] at # 0 /\ n.ok /\ n.value = -1 -> MoveToNextTask(Create(Skip(r, at), Node("nil", 0)))
          [] OTHER ->
               IF end > Len(r.buf) THEN More(r)
               ELSE MoveToNextTask([Create(r, Node("string", SubSeq(r.buf, at + 2, at + 1 + n.value)))
                                       EXCEPT !.pos = end])

ProcessMultiBulkItem(r) ==
    LET at == SeekNewline(r)
        n == String2ll(LineOf(r, at))
        made == Create(Skip(r, at), Node("array", n.value))
    IN  CASE Len(r.rstack) = 9 -> SetError(r, "nested")
          [] Len(r.rstack) # 9 /\ at = 0 -> More(r)
          [] Len(r.rstack) # 9 /\ at # 0 /\ ~ n.ok -> SetError(r, "Bad multi-bulk length")
          [] Len(r.rstack) # 9 /\ at # 0 /\ n.ok /\ (n.value < -1 \/ n.value > INT_MAX) ->
               SetError(r, "Multi-bulk length out of range")
          [] OTHER ->
               CASE n.value = -1 -> MoveToNextTask(Create(Skip(r, at), Node("nil", 0)))
                 [] n.value = 0 -> MoveToNextTask(made)
                 [] OTHER -> [made EXCEPT !.rstack = Append([@ EXCEPT ![Len(@)].elements = n.value], Task(0))]

TypeOf(ch) ==
    CASE ch = "-" -> "error" [] ch = "+" -> "status" [] ch = ":" -> "integer"
      [] ch = "$" -> "string" [] ch = "*" -> "array" [] OTHER -> "bad"

(* The type is kept when the rest of the item is not there yet. *)
Typed(r) ==
    IF Cur(r).type # "none" THEN r
    ELSE IF r.pos = Len(r.buf) THEN More(r)
    ELSE LET type == TypeOf(Char(r.buf, r.pos + 1))
         IN  IF type = "bad" THEN SetError(r, "Protocol error")
             ELSE [r EXCEPT !.pos = @ + 1, !.rstack[Len(r.rstack)].type = type]

ProcessTyped(r) ==
    CASE ~ r.go -> r
      [] r.go /\ Cur(r).type \in {"error", "status", "integer"} -> ProcessLineItem(r)
      [] r.go /\ Cur(r).type = "string" -> ProcessBulkItem(r)
      [] OTHER -> ProcessMultiBulkItem(r)
ProcessItem(r) == ProcessTyped(Typed(r))

(* redisReaderFeed *)
ReaderFeed(r, piece) == IF r.err # "" THEN r ELSE [r EXCEPT !.buf = @ \o piece]

(* redisReaderGetReply: items until the stack is empty or something is missing. *)
ProcessNext(r) == IF r.go /\ r.rstack # <<>> THEN ProcessItem(r) ELSE r
Items(r) ==
    LET first == [r EXCEPT !.rstack = IF @ = <<>> THEN <<Task(0)>> ELSE @, !.go = TRUE]
        after[i \in 0..Len(r.buf) - r.pos + 1] == IF i = 0 THEN first ELSE ProcessNext(after[i - 1])
    IN  after[Len(r.buf) - r.pos + 1]

Discard(r) ==
    IF r.pos < ReaderKeep THEN r
    ELSE [r EXCEPT !.buf = SubSeq(@, r.pos + 1, Len(@)), !.pos = 0]

Emitted(r) ==
    CASE r.err # "" -> [reader |-> r, reply |-> <<>>]
      [] r.err = "" /\ r.rstack = <<>> ->
           [reader |-> [Discard(r) EXCEPT !.reply = <<>>], reply |-> r.reply]
      [] OTHER -> [reader |-> Discard(r), reply |-> <<>>]
GetReply(r) ==
    IF r.err # "" \/ r.buf = "" THEN [reader |-> r, reply |-> <<>>] ELSE Emitted(Items(r))

-----------------------------------------------------------------------------
(* Commands: a format with its arguments in order, all of them text. *)
DigitsIn[v \in Nat] ==
    IF v < 10 THEN 1 ELSE IF v < 100 THEN 2 ELSE IF v < 1000 THEN 3 ELSE IF v < 10000 THEN 4
    ELSE DigitsIn[v \div 10000] + 4
CountDigits(v) == DigitsIn[v]
Bulklen(n) == 1 + CountDigits(n) + 2 + n + 2
Flat(s) == FoldLeft(LAMBDA a, b : a \o b, "", s)
Bulk(s) == Flat(<<"$", ToString(Len(s)), "\r\n", s, "\r\n">>)
Multi(argv) == Flat(<<"*", ToString(Len(argv)), "\r\n">> \o [i \in DOMAIN argv |-> Bulk(argv[i])])
Totlen(argv) == FoldLeft(LAMBDA a, b : a + Bulklen(Len(b)), 1 + CountDigits(Len(argv)) + 2, argv)

(* redisvFormatCommand, from the character at f.at on.  An argument stands for what
   printf makes of it. *)
FormatStart(args) == [at |-> 1, argv |-> <<>>, cur |-> "", touched |-> FALSE, args |-> args, err |-> 0]
NextArg(f) ==
    IF f.touched THEN [f EXCEPT !.argv = Append(@, f.cur), !.cur = "", !.touched = FALSE] ELSE f
Put(f, text, at) == [f EXCEPT !.cur = @ \o text, !.touched = TRUE, !.at = at]
Put1(f, at) == [Put(f, Head(f.args), at) EXCEPT !.args = Tail(@)]

(* Flags, width, precision, size, conversion: where the conversion is, 0 for none. *)
Span(format, i, chars) ==
    CHOOSE j \in i..Len(format) + 1 :
        /\ \A k \in i..j - 1 : Char(format, k) \in chars
        /\ j <= Len(format) => Char(format, j) \notin chars
NumberChars == {ToString(d) : d \in 0..9}
AfterPrecision(format, i) ==
    LET w == Span(format, Span(format, i, {"#", "0", "-", "+", " "}), NumberChars)
    IN  IF Char(format, w) = "." THEN Span(format, w + 1, NumberChars) ELSE w
SizedAt(format, p) ==
    LET two == Char(format, p) \o Char(format, p + 1)
        size == IF two \in {"hh", "ll"} THEN 2 ELSE IF Char(format, p) \in {"h", "l"} THEN 1 ELSE 0
        conv == IF p + size > Len(format) THEN "" ELSE Char(format, p + size)
    IN  IF conv \in {"d", "i", "o", "u", "x", "X"} \/ (size = 0 /\ conv \in {"e", "E", "f", "F", "g", "G", "a", "A"})
        THEN p + size ELSE 0
ConversionAt(format, i) == SizedAt(format, AfterPrecision(format, i))

(* A conversion too long for _format is dropped, and what follows % copied. *)
Convert(f, conv) ==
    CASE conv = 0 -> [f EXCEPT !.err = -2]
      [] conv # 0 /\ conv + 1 - f.at < 14 -> Put1(f, conv + 1)
      [] OTHER -> [f EXCEPT !.args = Tail(@), !.touched = TRUE, !.at = @ + 2]

FormatStep(f, format) ==
    LET i == f.at
        ch == Char(format, i)
    IN  CASE f.err # 0 \/ i > Len(format) -> f
          [] i <= Len(format) /\ ch = " " -> [NextArg(f) EXCEPT !.at = i + 1]
          [] i = Len(format) \/ ch \notin {"%", " "} -> Put(f, ch, i + 1)
          [] OTHER -> CASE Char(format, i + 1) \in {"s", "b"} -> Put1(f, i + 2)
                        [] Char(format, i + 1) = "%" -> Put(f, "%", i + 2)
                        [] OTHER -> Convert(f, ConversionAt(format, i + 1))

Command(f) == [err |-> f.err, text |-> Multi(f.argv), totlen |-> Totlen(f.argv)]
FormatCommand(format, args) ==
    LET after[i \in 0..Len(format)] ==
            IF i = 0 THEN FormatStart(args) ELSE FormatStep(after[i - 1], format)
    IN  Command(NextArg(after[Len(format)]))

-----------------------------------------------------------------------------
(* The caller: feeds pieces as they come and asks for replies when it likes. *)
ReaderInit ==
    /\ incoming \in ReaderInputs
    /\ fed = 0 /\ reader = ReaderCreate /\ replies = <<>> /\ drained = TRUE

FeedPiece(n) ==
    LET piece == SubSeq(incoming.text, fed + 1, fed + n)
    IN  /\ fed + n <= Len(incoming.text)
        /\ reader' = ReaderFeed(reader, piece)
        /\ fed' = fed + n /\ drained' = FALSE
        /\ UNCHANGED <<incoming, replies>>

Take(got) ==
    /\ reader' = got.reader
    /\ replies' = IF got.reply = <<>> THEN replies ELSE Append(replies, got.reply)
    /\ drained' = (got.reply = <<>>)
NextReply == ~ drained /\ Take(GetReply(reader)) /\ UNCHANGED <<incoming, fed>>

ReaderNext ==
    \/ \E n \in ReaderSegments \cup {Len(incoming.text) - fed} : n > 0 /\ FeedPiece(n)
    \/ NextReply

ReaderSpec == ReaderInit /\ [][ReaderNext]_readerVars
-----------------------------------------------------------------------------
(* Type correctness: the cursor stays in the buffer, the stack in its nine places. *)
ReaderTypeOK ==
    /\ reader.pos \in 0..Len(reader.buf)
    /\ Len(reader.rstack) <= 9
    /\ reader.err # "" => reader.buf = "" /\ reader.rstack = <<>>

(* However the text is cut, the replies are those that were written, each as soon as
   its last byte is there and asked for; a malformed one gives its error. *)
RepliesExact ==
    /\ IsPrefix(replies, incoming.replies)
    /\ drained /\ reader.err = "" =>
          Len(replies) = Cardinality({i \in DOMAIN incoming.ends : incoming.ends[i] <= fed})
    /\ reader.err # "" => replies = incoming.replies /\ reader.err = incoming.error
    /\ drained /\ fed = Len(incoming.text) => reader.err = incoming.error

(* assert(pos == totlen): the memory for a command is computed exactly. *)
CommandFits == incoming.totlen = Len(incoming.text)
=============================================================================
