-------------------------------- MODULE Sds --------------------------------
(***************************************************************************)
(* The dynamic strings of hiredis: a header whose width depends on the     *)
(* length of the string, the bytes, a NUL behind them.  A string is a      *)
(* record: the fields of its header, the block it really has, and the      *)
(* bytes up to the NUL (what lies behind the NUL is never read).           *)
(* Characters are their codes.  Memory is never short: a function that     *)
(* cannot allocate returns NULL and leaves the string as it was, except    *)
(* sdscatfmt, which does not look.                                         *)
(***************************************************************************)
EXTENDS Integers, SequencesExt, FiniteSetsExt

CONSTANTS
    Limit,              \* Limit[k]: the lengths below it fit into header k; the first header
                        \* (SDS_TYPE_5) has no alloc field, the one after the last any width
    SDS_MAX_PREALLOC,
    Texts,              \* what is appended, copied or read into a string
    Csets,              \* the sets of characters strings are trimmed by
    Offsets,            \* the offsets of sdsrange
    Numbers,            \* the integers that are formatted
    MaxLen              \* bound: the length of the string

VARIABLES
    str,                \* the string
    text                \* what it should hold (history)

NUL == 0
Space == {9, 10, 11, 12, 13, 32}
IsSpace(c) == c \in Space
IsPrint(c) == c \in 32..126

-----------------------------------------------------------------------------
(* The header. *)
SDS_TYPE_5 == 1
SDS_TYPE_8 == 2
Wide == Len(Limit) + 1
SdsReqType(n) == Min({k \in 1..Wide : k = Wide \/ n < Limit[k]})

(* What a field of header type k keeps of n: five bits or as many as the width. *)
Field(k, n) ==
    IF k = Wide THEN n ELSE n % (IF k = SDS_TYPE_5 THEN Limit[k] ELSE Limit[k] + 1)

SdsLen(s) == s.len
SdsAlloc(s) == IF s.type = SDS_TYPE_5 THEN s.len ELSE s.alloc
SdsAvail(s) == IF s.type = SDS_TYPE_5 THEN 0 ELSE s.alloc - s.len
SdsSetLen(s, n) == [s EXCEPT !.len = Field(s.type, n)]
SdsIncLen(s, n) == SdsSetLen(s, s.len + n)
SdsSetAlloc(s, n) == [s EXCEPT !.alloc = IF s.type = SDS_TYPE_5 THEN 0 ELSE Field(s.type, n)]

(* data written at offset at, with or without the NUL behind it.  Whoever
   writes past the block overruns it. *)
Written(s, at, data, terminated) ==
    [s EXCEPT !.bytes = SubSeq(@, 1, at) \o data,
              !.terminated = terminated,
              !.overrun = @ \/ at + Len(data) + (IF terminated THEN 1 ELSE 0) > s.block + 1]

Stored(s) == SubSeq(s.bytes, 1, SdsLen(s))

-----------------------------------------------------------------------------
SdsNewLen(init) ==
    LET type == IF SdsReqType(Len(init)) = SDS_TYPE_5 /\ init = <<>> THEN SDS_TYPE_8
                ELSE SdsReqType(Len(init))
        s == [type |-> type, len |-> 0, alloc |-> 0, block |-> Len(init),
              bytes |-> init, terminated |-> TRUE, overrun |-> FALSE]
    IN  SdsSetAlloc(SdsSetLen(s, Len(init)), Len(init))

\* Mutant: the length is not carried to the new header.
MovedForgets(s, type, n) ==
    SdsSetAlloc([s EXCEPT !.type = type, !.block = n, !.len = Field(type, 0)], n)

(* A block of another size, and with another header where the type changes. *)
Moved(s, type, n) ==
    SdsSetAlloc(IF type = s.type THEN [s EXCEPT !.block = n]
                ELSE SdsSetLen([s EXCEPT !.type = type, !.block = n], SdsLen(s)), n)

SdsMakeRoomFor(s, addlen) ==
    LET newlen == SdsLen(s) + addlen
        size == IF newlen < SDS_MAX_PREALLOC THEN 2 * newlen ELSE newlen + SDS_MAX_PREALLOC
        type == Max({SdsReqType(size), SDS_TYPE_8})
    IN  IF SdsAvail(s) >= addlen THEN s ELSE Moved(s, type, size)

SdsRemoveFreeSpace(s) == Moved(s, SdsReqType(SdsLen(s)), SdsLen(s))

SdsCatLen(s, t) ==
    LET room == SdsMakeRoomFor(s, Len(t))
    IN  SdsSetLen(Written(room, SdsLen(s), t, TRUE), SdsLen(s) + Len(t))

SdsCpyLen(s, t) ==
    LET room == IF SdsAlloc(s) < Len(t) THEN SdsMakeRoomFor(s, Len(t) - SdsLen(s)) ELSE s
    IN  SdsSetLen(Written(room, 0, t, TRUE), Len(t))

SdsGrowZero(s, n) ==
    LET room == SdsMakeRoomFor(s, n - SdsLen(s))
        zeros == [i \in 1..n - SdsLen(s) |-> NUL]
    IN  IF n <= SdsLen(s) THEN s ELSE SdsSetLen(Written(room, SdsLen(s), zeros, TRUE), n)

SdsClear(s) == Written(SdsSetLen(s, 0), 0, <<>>, TRUE)

(* strlen: up to the first NUL. *)
Strlen(t) == Min({i \in 1..Len(t) + 1 : i = Len(t) + 1 \/ t[i] = NUL}) - 1
SdsUpdateLen(s) == SdsSetLen(Written(s, Strlen(s.bytes), <<>>, s.terminated), Strlen(s.bytes))

(* sdsIncrLen behind bytes the caller has written to the room it asked for, or
   by a negative amount; the condition of its assertion is the second part. *)
SdsIncrLen(s, incr) == Written(SdsSetLen(s, SdsLen(s) + incr), SdsLen(s) + incr, <<>>, TRUE)
IncrAllowed(s, incr) ==
    IF s.type = SDS_TYPE_5
    THEN (incr > 0 /\ SdsLen(s) + incr < Limit[SDS_TYPE_5]) \/ (incr < 0 /\ SdsLen(s) >= -incr)
    ELSE (incr >= 0 /\ SdsAvail(s) >= incr) \/ (incr < 0 /\ SdsLen(s) >= -incr)

-----------------------------------------------------------------------------
(* sdstrim: strchr also finds the NUL that ends cset. *)
SdsTrim(s, cset) ==
    LET n == SdsLen(s)
        InSet(c) == c \in cset \cup {NUL}
        sp == Min({i \in 1..n + 1 : i = n + 1 \/ ~ InSet(s.bytes[i])})
        ep == IF sp > n THEN n ELSE Max({i \in sp..n : i = sp \/ ~ InSet(s.bytes[i])})
        len == IF sp > ep THEN 0 ELSE ep - sp + 1
    IN  SdsSetLen(Written(s, 0, SubSeq(s.bytes, sp, sp + len - 1), TRUE), len)

SdsRange(s, start, end) ==
    LET n == SdsLen(s)
        At(i) == IF i < 0 THEN Max({n + i, 0}) ELSE i
        Between(a, b) == IF a > b THEN 0 ELSE b - a + 1
        a == At(start)
        len == IF a >= n THEN 0 ELSE Between(a, IF At(end) >= n THEN n - 1 ELSE At(end))
    IN  IF n = 0 THEN s ELSE SdsSetLen(Written(s, 0, SubSeq(s.bytes, a + 1, a + len), TRUE), len)

SdsMapChars(s, from, to) ==
    LET New(c) == IF \E i \in DOMAIN from : from[i] = c
                  THEN to[Min({i \in DOMAIN from : from[i] = c})] ELSE c
    IN  [s EXCEPT !.bytes = [i \in DOMAIN @ |-> IF i <= SdsLen(s) THEN New(@[i]) ELSE @[i]]]

(* sdsll2str: digits are produced backwards, then turned round. *)
RECURSIVE Backwards(_)
Backwards(v) == <<48 + (v % 10)>> \o (IF v \div 10 = 0 THEN <<>> ELSE Backwards(v \div 10))
SdsLl2Str(value) ==
    LET digits == Backwards(IF value < 0 THEN -value ELSE value)
    IN  Reverse(digits \o (IF value < 0 THEN <<45>> ELSE <<>>))

(* sdscatfmt: a format is a sequence of plain characters and of directives with
   their arguments.  A plain character, %% and what is unknown need one byte,
   which has been made sure of. *)
Plain(c) == [kind |-> "char", arg |-> <<c>>]
Str(t) == [kind |-> "s", arg |-> t]
Num(n) == [kind |-> "i", arg |-> SdsLl2Str(n)]

CatFmtStep(s, item) ==
    LET one == IF SdsAvail(s) = 0 THEN SdsMakeRoomFor(s, 1) ELSE s
        room == IF item.kind # "char" /\ SdsAvail(one) < Len(item.arg)
                THEN SdsMakeRoomFor(one, Len(item.arg)) ELSE one
    IN  SdsIncLen(Written(room, SdsLen(s), item.arg, FALSE), Len(item.arg))
SdsCatFmt(s, fmt) ==
    LET all == FoldLeft(CatFmtStep, s, fmt)
    IN  Written(all, SdsLen(all), <<>>, TRUE)

-----------------------------------------------------------------------------
(* sdssplitlen.  The array of tokens has five slots to begin with. *)
RECURSIVE SplitFrom(_, _, _, _, _)
SplitFrom(t, sep, j, start, v) ==
    LET slots == IF v.slots < Len(v.tokens) + 2 THEN 2 * v.slots ELSE v.slots
        token == SubSeq(t, start + 1, j)
    IN  IF j >= Len(t) - (Len(sep) - 1)
        THEN [v EXCEPT !.tokens = Append(@, SubSeq(t, start + 1, Len(t)))]
        ELSE IF SubSeq(t, j + 1, j + Len(sep)) = sep
        THEN SplitFrom(t, sep, j + Len(sep), j + Len(sep), [tokens |-> Append(v.tokens, token), slots |-> slots])
        ELSE SplitFrom(t, sep, j + 1, start, [v EXCEPT !.slots = slots])
SdsSplitLen(t, sep) ==
    IF t = <<>> THEN [tokens |-> <<>>, slots |-> 5]
    ELSE SplitFrom(t, sep, 0, 0, [tokens |-> <<>>, slots |-> 5])

SdsJoin(argv, sep) ==
    FoldLeft(SdsCatLen, SdsNewLen(<<>>),
             [j \in 1..2 * Len(argv) - 1 |-> IF j % 2 = 1 THEN argv[(j + 1) \div 2] ELSE sep])

(* sdscatrepr: what is appended for a character. *)
HexDigit(n) == IF n < 10 THEN 48 + n ELSE 87 + n
Escapes == <<<<10, 110>>, <<13, 114>>, <<9, 116>>, <<7, 97>>, <<8, 98>>>>
EscapedChar(c) ==
    IF c \in {92, 34} THEN <<92, c>>
    ELSE IF \E i \in DOMAIN Escapes : Escapes[i][1] = c
    THEN <<92, (CHOOSE e \in Range(Escapes) : e[1] = c)[2]>>
    ELSE IF IsPrint(c) THEN <<c>> ELSE <<92, 120, HexDigit(c \div 16), HexDigit(c % 16)>>
SdsCatRepr(s, p) ==
    FoldLeft(SdsCatLen, s, <<<<34>>>> \o [i \in DOMAIN p |-> EscapedChar(p[i])] \o <<<<34>>>>)

(* sdssplitargs: the arguments of a line, NULL when its quotes are wrong. *)
IsHexDigit(c) == c \in 48..57 \cup 97..102 \cup 65..70
HexDigitToInt(c) == IF c \in 48..57 THEN c - 48 ELSE IF c \in 97..102 THEN c - 87 ELSE c - 55
Unescaped(c) ==
    IF \E i \in DOMAIN Escapes : Escapes[i][2] = c
    THEN (CHOOSE e \in Range(Escapes) : e[2] = c)[1] ELSE c
NULL == <<<<-1>>>>

RECURSIVE ArgFrom(_, _, _, _, _)
ArgFrom(line, p, quote, current, vector) ==
    LET At(i) == IF i \in DOMAIN line THEN line[i] ELSE NUL
        More(n, c) == ArgFrom(line, p + n, quote, Append(current, c), vector)
        Done(i) == [next |-> i, vector |-> Append(vector, current)]
        Err == [next |-> p, vector |-> NULL]
        Close == IF At(p + 1) # NUL /\ ~ IsSpace(At(p + 1)) THEN Err ELSE Done(p + 1)
    IN  CASE quote = 34 /\ At(p) = 92 /\ At(p + 1) = 120 /\ IsHexDigit(At(p + 2)) /\ IsHexDigit(At(p + 3)) ->
                 More(4, 16 * HexDigitToInt(At(p + 2)) + HexDigitToInt(At(p + 3)))
          [] quote = 34 /\ At(p) = 92 /\ At(p + 1) # NUL
               /\ ~ (At(p + 1) = 120 /\ IsHexDigit(At(p + 2)) /\ IsHexDigit(At(p + 3))) ->
                 More(2, Unescaped(At(p + 1)))
          [] quote = 39 /\ At(p) = 92 /\ At(p + 1) = 39 -> More(2, 39)
          [] quote # NUL /\ At(p) = quote -> Close
          [] quote # NUL /\ At(p) = NUL -> Err
          [] quote = NUL /\ At(p) \in {32, 10, 13, 9} -> Done(p + 1)
          [] quote = NUL /\ At(p) = NUL -> Done(p)
          [] quote = NUL /\ At(p) \in {34, 39} -> ArgFrom(line, p + 1, At(p), current, vector)
          [] OTHER -> More(1, At(p))

RECURSIVE ArgsFrom(_, _, _)
ArgsFrom(line, p, vector) ==
    LET first == Min({i \in p..Len(line) + 1 : i = Len(line) + 1 \/ ~ IsSpace(line[i])})
        arg == ArgFrom(line, first, NUL, <<>>, vector)
    IN  IF first = Len(line) + 1 THEN vector
        ELSE IF arg.vector = NULL THEN NULL ELSE ArgsFrom(line, arg.next, arg.vector)
SdsSplitArgs(line) == ArgsFrom(SubSeq(line, 1, Strlen(line)), 1, <<>>)

-----------------------------------------------------------------------------
SdsInit == \E t \in Texts \cup {<<>>} : str = SdsNewLen(t) /\ text = t

Becomes(s, t) == Len(t) <= MaxLen /\ str' = s /\ text' = t

(* What a range and a trim should leave, by the positions that stay. *)
Kept(t, keep) == SubSeq(t, Min(keep), Max(keep))
Stays(t, start, end) ==
    LET From(i) == IF i < 0 THEN Max({Len(t) + i, 0}) ELSE i
    IN  {i \in DOMAIN t : From(start) < i /\ i <= From(end) + 1}

Cat == \E t \in Texts : Becomes(SdsCatLen(str, t), text \o t)
Cpy == \E t \in Texts : Becomes(SdsCpyLen(str, t), t)
ReadInto ==
    \E t \in Texts :
        LET room == SdsMakeRoomFor(str, Len(t))
            read == Written(room, SdsLen(str), t, FALSE)
        IN  IncrAllowed(read, Len(t)) /\ Becomes(SdsIncrLen(read, Len(t)), text \o t)
CutBack ==
    \E n \in 1..SdsLen(str) : Becomes(SdsIncrLen(str, -n), SubSeq(text, 1, Len(text) - n))
GrowZero == \E n \in 0..MaxLen :
                Becomes(SdsGrowZero(str, n), text \o [i \in 1..n - Len(text) |-> NUL])
FreeSpace == Becomes(SdsRemoveFreeSpace(str), text)
MakeRoom == \E n \in 0..MaxLen : Becomes(SdsMakeRoomFor(str, n), text)
Clear == Becomes(SdsClear(str), <<>>)
UpdateLen == Becomes(SdsUpdateLen(str), SubSeq(text, 1, Strlen(text)))
Trim == \E cset \in Csets :
            LET keep == {i \in DOMAIN text : text[i] \notin cset \cup {NUL}}
            IN  Becomes(SdsTrim(str, cset), IF keep = {} THEN <<>> ELSE Kept(text, keep))
CutOut == \E start, end \in Offsets :
              LET keep == Stays(text, start, end)
              IN  Becomes(SdsRange(str, start, end), IF keep = {} THEN <<>> ELSE Kept(text, keep))
MapChars == \E c, d \in {text[i] : i \in DOMAIN text} :
                Becomes(SdsMapChars(str, <<c>>, <<d>>), [i \in DOMAIN text |-> IF text[i] = c THEN d ELSE text[i]])
CatFmt == \E t \in Texts, n \in Numbers :
              Becomes(SdsCatFmt(str, <<Plain(36), Num(n), Str(t)>>), text \o <<36>> \o SdsLl2Str(n) \o t)
Repr == LET quoted == SdsCatRepr(SdsNewLen(<<>>), text)
        IN  Becomes(quoted, Stored(quoted))

SdsNext ==
    \/ Cat \/ Cpy \/ ReadInto \/ CutBack \/ GrowZero \/ FreeSpace \/ MakeRoom \/ Clear
    \/ UpdateLen \/ Trim \/ CutOut \/ MapChars \/ CatFmt \/ Repr

SdsSpec == SdsInit /\ [][SdsNext]_<<str, text>>

-----------------------------------------------------------------------------
(* The header tells the truth about the block: the length and the room fit
   their fields, nothing is written past the block, and the string ends with a
   NUL.  (sdsReqType, sdsMakeRoomFor, sdsRemoveFreeSpace) *)
SdsSound ==
    /\ SdsLen(str) = Len(str.bytes) /\ SdsLen(str) <= SdsAlloc(str)
    /\ SdsAlloc(str) = str.block \/ (str.type = SDS_TYPE_5 /\ SdsAlloc(str) <= str.block)
    /\ str.terminated /\ ~ str.overrun

(* Whatever is appended, copied, cut, trimmed or moved between headers, the
   string holds what it should. *)
TextExact == Stored(str) = text

(* A string that is split and joined again is the same, no token holds the
   separator, and there is a slot for every token.  (sdssplitlen, sdsjoinsds) *)
SplitJoins ==
    \A sep \in Texts \ {<<>>} :
        LET v == SdsSplitLen(text, sep)
        IN  /\ Stored(SdsJoin(v.tokens, sep)) = text
            /\ Len(v.tokens) <= v.slots
            /\ \A i \in DOMAIN v.tokens : \A k \in 0..Len(v.tokens[i]) - Len(sep) :
                   SubSeq(v.tokens[i], k + 1, k + Len(sep)) # sep

(* What sdscatrepr makes of a string is one argument for sdssplitargs, and is
   that string: quotes, backslashes, NULs and control characters included. *)
ReprParses == SdsSplitArgs(Stored(SdsCatRepr(SdsNewLen(<<>>), text))) = <<text>>
=============================================================================
