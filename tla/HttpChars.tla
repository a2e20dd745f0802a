----------------------------- MODULE HttpChars ------------------------------
(* Characters, character classes and the words http_parser.cc looks for.  The
   backquote, which a TLA+ string cannot hold, is left out of the classes. *)
EXTENDS Naturals, Sequences

(* The i-th character of a text, counted from 1. *)
At(text, i) == SubSeq(text, i, i)
CharsOf(text) == {At(text, i) : i \in 1..Len(text)}
Position(text, ch) == CHOOSE i \in 1..Len(text) : At(text, i) = ch

CR == "\r"
LF == "\n"
Lowers == "abcdefghijklmnopqrstuvwxyz"
Uppers == "ABCDEFGHIJKLMNOPQRSTUVWXYZ"
Alpha == CharsOf(Lowers) \cup CharsOf(Uppers)
Digits == CharsOf("0123456789")
Value(ch) == Position("0123456789", ch) - 1
Marks == CharsOf("-_.!~*'()")
UserinfoChars == Alpha \cup Digits \cup Marks \cup CharsOf("%;:&=+$,")
HostChars == Alpha \cup Digits \cup {".", "-"}

(* Hexadecimal digits, and what unhex[] makes of them. *)
HexDigits == "0123456789abcdefABCDEF"
Unhex(ch) == LET i == Position(HexDigits, ch) - 1 IN IF i > 15 THEN i - 6 ELSE i

(* tokens[]: 0 for separators and controls, otherwise lower case. *)
Tokens == Alpha \cup Digits \cup CharsOf("!#$%&'*+-.^_|~")
Lower == [ch \in Alpha |-> IF ch \in CharsOf(Uppers) THEN At(Lowers, Position(Uppers, ch)) ELSE ch]
LowerCase(ch) == IF ch \in Alpha THEN Lower[ch] ELSE ch

(* normal_url_char[]: everything printable but '#' and '?'. *)
UrlChars == Alpha \cup Digits \cup CharsOf("!\"$%&'()*+,-./:;<=>@[\\]^_{|}~")

-----------------------------------------------------------------------------
(* HTTP_METHOD_MAP; MSEARCH is spelled as method_strings[] has it. *)
Methods == {"DELETE", "GET", "HEAD", "POST", "PUT", "CONNECT", "OPTIONS", "TRACE", "COPY",
            "LOCK", "MKCOL", "MOVE", "PROPFIND", "PROPPATCH", "SEARCH", "UNLOCK", "REPORT",
            "MKACTIVITY", "CHECKOUT", "MERGE", "MSEARCH", "NOTIFY", "SUBSCRIBE",
            "UNSUBSCRIBE", "PATCH", "PURGE"}
MethodString == [m \in Methods |-> IF m = "MSEARCH" THEN "M - SEARCH" ELSE m]

(* The method a first letter stands for until a later letter says otherwise. *)
FirstGuess == [C |-> "CONNECT", D |-> "DELETE", G |-> "GET", H |-> "HEAD", L |-> "LOCK",
               M |-> "MKCOL", N |-> "NOTIFY", O |-> "OPTIONS", P |-> "POST", R |-> "REPORT",
               S |-> "SUBSCRIBE", T |-> "TRACE", U |-> "UNLOCK"]

Guesses == {<<"CONNECT", 1, "H", "CHECKOUT">>, <<"CONNECT", 2, "P", "COPY">>,
            <<"MKCOL", 1, "O", "MOVE">>, <<"MKCOL", 1, "E", "MERGE">>,
            <<"MKCOL", 1, "-", "MSEARCH">>, <<"MKCOL", 2, "A", "MKACTIVITY">>,
            <<"SUBSCRIBE", 1, "E", "SEARCH">>, <<"POST", 1, "R", "PROPFIND">>,
            <<"POST", 1, "U", "PUT">>, <<"POST", 1, "A", "PATCH">>, <<"PUT", 2, "R", "PURGE">>,
            <<"UNLOCK", 2, "S", "UNSUBSCRIBE">>, <<"PROPFIND", 4, "P", "PROPPATCH">>}
BetterGuess == [g \in {SubSeq(h, 1, 3) : h \in Guesses} |->
                   (CHOOSE h \in Guesses : SubSeq(h, 1, 3) = g)[4]]

-----------------------------------------------------------------------------
(* The header names and values that matter, by the header_state that compares
   with them, and the state when all of the word has been seen. *)
Word == [h_matching_connection |-> "connection",
         h_matching_proxy_connection |-> "proxy-connection",
         h_matching_content_length |-> "content-length",
         h_matching_transfer_encoding |-> "transfer-encoding",
         h_matching_upgrade |-> "upgrade",
         h_matching_transfer_encoding_chunked |-> "chunked",
         h_matching_connection_keep_alive |-> "keep-alive",
         h_matching_connection_close |-> "close"]

Matched == [h_matching_connection |-> "h_connection",
            h_matching_proxy_connection |-> "h_connection",
            h_matching_content_length |-> "h_content_length",
            h_matching_transfer_encoding |-> "h_transfer_encoding",
            h_matching_upgrade |-> "h_upgrade",
            h_matching_transfer_encoding_chunked |-> "h_transfer_encoding_chunked",
            h_matching_connection_keep_alive |-> "h_connection_keep_alive",
            h_matching_connection_close |-> "h_connection_close"]

=============================================================================
