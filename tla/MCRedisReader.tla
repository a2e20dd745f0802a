--------------------------- MODULE MCRedisReader ----------------------------
(* Replies and commands with which RedisReader is checked. *)
EXTENDS RedisReader

(* A reply: its text and its nodes by path. *)
Leaf(type, value, text) == [text |-> text, nodes |-> (<<>> :> Node(type, value))]
BulkReply(s) == Leaf("string", s, Bulk(s))
NumReply(n, numeral) == Leaf("integer", n, Flat(<<":", numeral, "\r\n">>))
StatusReply(s) == Leaf("status", s, Flat(<<"+", s, "\r\n">>))
ErrReply(s) == Leaf("error", s, Flat(<<"-", s, "\r\n">>))
Nil == Leaf("nil", 0, "$-1\r\n")
NilArray == Leaf("nil", 0, "*-1\r\n")
Arr(els) ==
    LET paths == {<<>>} \cup UNION {{<<i - 1>> \o p : p \in DOMAIN els[i].nodes} : i \in DOMAIN els}
    IN  [text |-> Flat(<<"*", ToString(Len(els)), "\r\n">> \o [i \in DOMAIN els |-> els[i].text]),
         nodes |-> [p \in paths |-> IF p = <<>> THEN Node("array", Len(els))
                                    ELSE els[p[1] + 1].nodes[Tail(p)]]]

Nested(n) == LET arr[i \in 0..n] == IF i = 0 THEN NumReply(7, "7") ELSE Arr(<<arr[i - 1]>>) IN arr[n]

SimpleReplies == {BulkReply(""), BulkReply("ab"), BulkReply("a\r\nb"), NumReply(0, "0"), NumReply(-12, "-12"), StatusReply("OK"),
           StatusReply(""), ErrReply("ERR x"), Nil, NilArray, Arr(<<>>)}
NumberReplies == {NumReply(127, "127"), NumReply(-128, "-128"), NumReply(-1, "-1"), NumReply(100, "100")}
ArrayReplies == {Arr(<<a, b>>) : a, b \in {BulkReply("k"), Nil, Arr(<<>>), NilArray, Arr(<<NumReply(3, "3"), BulkReply("")>>)}}
             \cup {Nested(7), Nested(8), Arr(<<Arr(<<Nil, Arr(<<BulkReply("x")>>)>>), StatusReply("s")>>)}

Stream(els, bad, error) ==
    [text |-> Flat([i \in DOMAIN els |-> els[i].text] \o <<bad>>),
     replies |-> [i \in DOMAIN els |-> els[i].nodes],
     ends |-> [i \in DOMAIN els |-> FoldLeft(LAMBDA n, e : n + Len(e.text), 0, SubSeq(els, 1, i))],
     error |-> error,
     totlen |-> FoldLeft(LAMBDA n, e : n + Len(e.text), Len(bad), els)]

(* What is not a reply, and the error it gives. *)
Deep == FoldLeft(LAMBDA a, b : a \o b, "", [i \in 1..9 |-> "*1\r\n"])
MalformedReplies ==
    {<<"x", "Protocol error">>, <<":128\r\n", "Bad integer value">>, <<":-129\r\n", "Bad integer value">>,
     <<":256\r\n", "Bad integer value">>, <<":2550\r\n", "Bad integer value">>, <<":01\r\n", "Bad integer value">>,
     <<":\r\n", "Bad integer value">>, <<":-\r\n", "Bad integer value">>, <<":-0\r\n", "Bad integer value">>,
     <<":1 \r\n", "Bad integer value">>, <<"$x\r\n", "Bad bulk string length">>,
     <<"$-2\r\n", "Bulk string length out of range">>, <<"*x\r\n", "Bad multi-bulk length">>,
     <<"*-2\r\n", "Multi-bulk length out of range">>, <<"*101\r\n", "Multi-bulk length out of range">>,
     <<"*2\r\n+a\r\n?", "Protocol error">>, <<Deep \o "+a\r\n", "">>, <<"*1\r\n" \o Deep, "nested">>}

(* Commands, and the arguments the server must read. *)
Formatted(argv, c) ==
    [Stream(<<Arr([i \in DOMAIN argv |-> BulkReply(argv[i])])>>, "", "")
        EXCEPT !.text = c.text, !.totlen = c.totlen]
Sent(format, args, argv) == Formatted(argv, FormatCommand(format, args))
Commands ==
    {Sent("GET %s", <<"k">>, <<"GET", "k">>),
     Sent("GET %s", <<"two words">>, <<"GET", "two words">>),
     Sent("GET %s", <<"">>, <<"GET", "">>),
     Sent("  SET  %s %b ", <<"a\r\nb", "0123456789">>, <<"SET", "a\r\nb", "0123456789">>),
     Sent("SETEX %s %d %s", <<"t", "86400", "u">>, <<"SETEX", "t", "86400", "u">>),
     Sent("HINCRBY %s %s %ld", <<"h", "f", "-3">>, <<"HINCRBY", "h", "f", "-3">>),
     Sent("zlexcount %s [%s [%s", <<"z", "m", "m">>, <<"zlexcount", "z", "[m", "[m">>),
     Sent("ZADD %s %-08.3lld 100%%%s %", <<"z", "7", "m">>, <<"ZADD", "z", "7", "100%m", "%">>),
     Sent("A B C D E F G H I J %hhu", <<"1">>, <<"A", "B", "C", "D", "E", "F", "G", "H", "I", "J", "1">>),
     Sent("X %0000000000000d", <<"1">>, <<"X", "000000000000d">>)}

MCReaderInputs ==
    {Stream(<<a>>, "", "") : a \in SimpleReplies \cup NumberReplies \cup ArrayReplies}
      \cup {Stream(<<a, b>>, "", "") : a, b \in SimpleReplies}
      \cup {Stream(<<StatusReply("OK")>>, bad[1], bad[2]) : bad \in {m \in MalformedReplies : m[2] # ""}}
      \cup Commands
=============================================================================
