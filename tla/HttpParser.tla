----------------------------- MODULE HttpParser -----------------------------
(***************************************************************************)
(* http_parser.cc: the incremental HTTP parser below CHttpParserWrapper,   *)
(* in strict mode, with callbacks that all return 0.                       *)
(*                                                                         *)
(* Text is a string, one character per byte.  A parser is the record       *)
(* http_parser; Execute(parser, data) is one call of http_parser_execute.  *)
(* While it runs, a call is a record of the parser and the locals of the   *)
(* function: data, p, the marks, the callbacks made so far and done, the   *)
(* early return.  One operator per state handles the byte at p.            *)
(***************************************************************************)
EXTENDS Naturals, Sequences, SequencesExt, FiniteSets, HttpChars

CONSTANTS
    Inputs,         \* what is parsed: records [type, text, means]
    Segments,       \* lengths of the pieces in which the text may arrive
    MaxHeaderSize,  \* HTTP_MAX_HEADER_SIZE
    ULLONG_MAX      \* the largest content_length; means "none"

VARIABLES
    input,          \* the text being parsed
    consumed,       \* how much of it has been given to the parser
    parser,         \* http_parser
    events,         \* the callbacks so far, data callbacks in a row joined
    leftover,       \* marks still set when the last call ran out of data
    closed          \* the caller is done: an error, an upgrade or the end

vars == <<input, consumed, parser, events, leftover, closed>>

DataCallbacks == {"header_field", "header_value", "url", "body"}

BodyStates == {"s_chunk_data", "s_chunk_data_almost_done", "s_chunk_data_done",
               "s_body_identity", "s_body_identity_eof", "s_message_done"}

(* http_parser_init. *)
New(type) ==
    [type |-> type,
     state |-> CASE type = "HTTP_REQUEST" -> "s_start_req"
                 [] type = "HTTP_RESPONSE" -> "s_start_res"
                 [] type = "HTTP_BOTH" -> "s_start_req_or_res",
     header_state |-> "h_general", index |-> 0, nread |-> 0, content_length |-> 0,
     flags |-> {}, method |-> "DELETE", http_major |-> 0, http_minor |-> 0,
     status_code |-> 0, http_errno |-> "OK", upgrade |-> FALSE]

-----------------------------------------------------------------------------
(* Helpers on a call. *)
Goto(call, s) == [call EXCEPT !.parser.state = s]
Fail(call, e) == [call EXCEPT !.parser.http_errno = e]
Header(call, h) == [call EXCEPT !.parser.header_state = h]

(* MARK, CALLBACK_NOTIFY and CALLBACK_DATA (the data end before position end). *)
Mark(call, f) == IF call.marks[f] = 0 THEN [call EXCEPT !.marks[f] = call.p] ELSE call
Notify(call, f) == [call EXCEPT !.events = Append(@, <<f, "">>)]
Data(call, f, end) ==
    IF call.marks[f] = 0 THEN call
    ELSE [call EXCEPT !.events = Append(@, <<f, SubSeq(call.data, call.marks[f], end - 1)>>),
                      !.marks[f] = 0]

StartState(call) == IF call.parser.type = "HTTP_REQUEST" THEN "s_start_req" ELSE "s_start_res"

(* http_message_needs_eof, http_should_keep_alive and NEW_MESSAGE. *)
NeedsEof(pr) ==
    /\ pr.type # "HTTP_REQUEST"
    /\ pr.status_code \div 100 # 1 /\ pr.status_code \notin {204, 304}
    /\ pr.flags \cap {"F_SKIPBODY", "F_CHUNKED"} = {}
    /\ pr.content_length = ULLONG_MAX

ShouldKeepAlive(pr) ==
    /\ IF pr.http_major > 0 /\ pr.http_minor > 0 THEN "F_CONNECTION_CLOSE" \notin pr.flags
       ELSE "F_CONNECTION_KEEP_ALIVE" \in pr.flags
    /\ ~ NeedsEof(pr)

MessageComplete(call) ==
    Notify(Goto(call, IF ShouldKeepAlive(call.parser) THEN StartState(call) ELSE "s_dead"),
           "message_complete")

-----------------------------------------------------------------------------
(* parse_url_char: the next state of a URL. *)
UrlChar(s, ch) ==
    LET server == CASE ch = "/" -> "s_req_path"
                    [] ch = "?" -> "s_req_query_string_start"
                    [] ch = "@" -> "s_req_server_with_at"
                    [] ch \in UserinfoChars \cup {"[", "]"} -> "s_req_server"
                    [] OTHER -> "s_dead"
    IN  CASE s = "s_req_spaces_before_url" /\ ch \in {"/", "*"} -> "s_req_path"
          [] s \in {"s_req_spaces_before_url", "s_req_schema"} /\ ch \in Alpha -> "s_req_schema"
          [] s = "s_req_schema" /\ ch = ":" -> "s_req_schema_slash"
          [] s = "s_req_schema_slash" /\ ch = "/" -> "s_req_schema_slash_slash"
          [] s = "s_req_schema_slash_slash" /\ ch = "/" -> "s_req_server_start"
          [] s = "s_req_server_with_at" /\ ch # "@" -> server
          [] s \in {"s_req_server_start", "s_req_server"} -> server
          [] s = "s_req_path" /\ ch \in UrlChars -> s
          [] s \in {"s_req_query_string_start", "s_req_query_string"}
               /\ ch \in UrlChars \cup {"?"} -> "s_req_query_string"
          [] s = "s_req_path" /\ ch = "?" -> "s_req_query_string_start"
          [] s \in {"s_req_path", "s_req_query_string_start", "s_req_query_string"}
               /\ ch = "#" -> "s_req_fragment_start"
          [] s = "s_req_fragment_start" /\ ch = "#" -> s
          [] s = "s_req_fragment_start" /\ ch \in UrlChars \cup {"?"} -> "s_req_fragment"
          [] s = "s_req_fragment" /\ ch \in UrlChars \cup {"?", "#"} -> s
          [] OTHER -> "s_dead"

UrlOrFail(call, s) == IF s = "s_dead" THEN Fail(call, "INVALID_URL") ELSE Goto(call, s)

InUrl == {"s_req_schema", "s_req_schema_slash", "s_req_schema_slash_slash",
          "s_req_server_start", "s_req_server", "s_req_server_with_at", "s_req_path",
          "s_req_query_string_start", "s_req_query_string", "s_req_fragment_start",
          "s_req_fragment"}

(* Where a URL cannot end. *)
UrlBegun == {"s_req_schema", "s_req_schema_slash", "s_req_schema_slash_slash",
             "s_req_server_start"}

-----------------------------------------------------------------------------
(* The first line of a request. *)
Reset(call) == [call EXCEPT !.parser.flags = {}, !.parser.content_length = ULLONG_MAX]

StartReq(call, ch) ==
    CASE ch \in {CR, LF} -> call
      [] ch \in DOMAIN FirstGuess ->
           Notify([Goto(Reset(call), "s_req_method")
                     EXCEPT !.parser.method = FirstGuess[ch], !.parser.index = 1],
                  "message_begin")
      [] OTHER -> Fail(Reset(call), "INVALID_METHOD")

(* The method is guessed from its first letter and corrected on the way. *)
ReqMethod(call, ch) ==
    LET pr == call.parser
        name == MethodString[pr.method]
        next == [call EXCEPT !.parser.index = @ + 1]
        better == <<pr.method, pr.index, ch>>
    IN  CASE ch = " " /\ pr.index = Len(name) -> Goto(next, "s_req_spaces_before_url")
          [] pr.index < Len(name) /\ ch = At(name, pr.index + 1) -> next
          [] better \in DOMAIN BetterGuess -> [next EXCEPT !.parser.method = BetterGuess[better]]
          [] OTHER -> Fail(call, "INVALID_METHOD")

BeforeUrl(call, ch) ==
    IF ch = " " THEN call
    ELSE UrlOrFail(Mark(call, "url"),
                   UrlChar(IF call.parser.method = "CONNECT" THEN "s_req_server_start"
                           ELSE "s_req_spaces_before_url", ch))

Url(call, ch) ==
    LET s == call.parser.state
        old == [call EXCEPT !.parser.http_major = 0, !.parser.http_minor = 9]
    IN  CASE ch \in {" ", CR, LF} /\ s \in UrlBegun -> Fail(call, "INVALID_URL")
          [] ch = " " -> Data(Goto(call, "s_req_http_start"), "url", call.p)
          [] ch = CR -> Data(Goto(old, "s_req_line_almost_done"), "url", call.p)
          [] ch = LF -> Data(Goto(old, "s_header_field_start"), "url", call.p)
          [] OTHER -> UrlOrFail(call, UrlChar(s, ch))

ReqHttpStart(call, ch) ==
    CASE ch = "H" -> Goto(call, "s_req_http_H")
      [] ch = " " -> call
      [] OTHER -> Fail(call, "INVALID_CONSTANT")

(* The letters of "HTTP/", in requests and responses. *)
Literal == [s_res_H |-> <<"T", "s_res_HT">>, s_res_HT |-> <<"T", "s_res_HTT">>,
            s_res_HTT |-> <<"P", "s_res_HTTP">>,
            s_res_HTTP |-> <<"/", "s_res_first_http_major">>,
            s_req_http_H |-> <<"T", "s_req_http_HT">>, s_req_http_HT |-> <<"T", "s_req_http_HTT">>,
            s_req_http_HTT |-> <<"P", "s_req_http_HTTP">>,
            s_req_http_HTTP |-> <<"/", "s_req_first_http_major">>]

Constant(call, ch) ==
    LET expected == Literal[call.parser.state]
    IN  IF ch = expected[1] THEN Goto(call, expected[2]) ELSE Fail(call, "STRICT")

FirstDigit(call, ch, f, s, e) ==
    IF ch \in Digits THEN [Goto(call, s) EXCEPT !.parser[f] = Value(ch)] ELSE Fail(call, e)

(* One more digit of a number of at most three. *)
NextDigit(call, ch, f, e) ==
    LET v == call.parser[f] * 10 + Value(ch)
    IN  IF ch \notin Digits THEN Fail(call, e)
        ELSE IF v > 999 THEN Fail([call EXCEPT !.parser[f] = v], e)
        ELSE [call EXCEPT !.parser[f] = v]

ReqVersionStates == {"s_req_first_http_major", "s_req_http_major", "s_req_first_http_minor",
                     "s_req_http_minor"}

ReqVersion(call, ch) ==
    LET s == call.parser.state
    IN  CASE s = "s_req_first_http_major" ->
               IF ch = "0" THEN Fail(call, "INVALID_VERSION")
               ELSE FirstDigit(call, ch, "http_major", "s_req_http_major", "INVALID_VERSION")
          [] s = "s_req_http_major" /\ ch = "." -> Goto(call, "s_req_first_http_minor")
          [] s = "s_req_http_major" -> NextDigit(call, ch, "http_major", "INVALID_VERSION")
          [] s = "s_req_first_http_minor" ->
               FirstDigit(call, ch, "http_minor", "s_req_http_minor", "INVALID_VERSION")
          [] s = "s_req_http_minor" /\ ch = CR -> Goto(call, "s_req_line_almost_done")
          [] s = "s_req_http_minor" /\ ch = LF -> Goto(call, "s_header_field_start")
          [] s = "s_req_http_minor" -> NextDigit(call, ch, "http_minor", "INVALID_VERSION")

ReqLineAlmostDone(call, ch) ==
    IF ch = LF THEN Goto(call, "s_header_field_start") ELSE Fail(call, "LF_EXPECTED")

-----------------------------------------------------------------------------
(* The first line of a response. *)
StartReqOrRes(call, ch) ==
    CASE ch \in {CR, LF} -> call
      [] ch = "H" -> Notify(Goto(Reset(call), "s_res_or_resp_H"), "message_begin")
      [] OTHER -> StartReq([call EXCEPT !.parser.type = "HTTP_REQUEST"], ch)

ResOrRespH(call, ch) ==
    CASE ch = "T" -> [Goto(call, "s_res_HT") EXCEPT !.parser.type = "HTTP_RESPONSE"]
      [] ch = "E" -> [Goto(call, "s_req_method") EXCEPT !.parser.type = "HTTP_REQUEST",
                                                        !.parser.method = "HEAD",
                                                        !.parser.index = 2]
      [] OTHER -> Fail(call, "INVALID_CONSTANT")

(* A line end before the response also announces a message. *)
StartRes(call, ch) ==
    CASE ch = "H" -> Notify(Goto(Reset(call), "s_res_H"), "message_begin")
      [] ch \in {CR, LF} -> Notify(Reset(call), "message_begin")
      [] OTHER -> Fail(Reset(call), "INVALID_CONSTANT")

ResVersionStates == {"s_res_first_http_major", "s_res_http_major", "s_res_first_http_minor",
                     "s_res_http_minor"}

ResVersion(call, ch) ==
    LET s == call.parser.state
    IN  CASE s = "s_res_first_http_major" ->
               FirstDigit(call, ch, "http_major", "s_res_http_major", "INVALID_VERSION")
          [] s = "s_res_http_major" /\ ch = "." -> Goto(call, "s_res_first_http_minor")
          [] s = "s_res_http_major" -> NextDigit(call, ch, "http_major", "INVALID_VERSION")
          [] s = "s_res_first_http_minor" ->
               FirstDigit(call, ch, "http_minor", "s_res_http_minor", "INVALID_VERSION")
          [] s = "s_res_http_minor" /\ ch = " " -> Goto(call, "s_res_first_status_code")
          [] s = "s_res_http_minor" -> NextDigit(call, ch, "http_minor", "INVALID_VERSION")

ResStatusStates == {"s_res_first_status_code", "s_res_status_code", "s_res_status",
                    "s_res_line_almost_done"}

ResStatus(call, ch) ==
    LET s == call.parser.state
    IN  CASE s = "s_res_first_status_code" /\ ch = " " -> call
          [] s = "s_res_first_status_code" ->
               FirstDigit(call, ch, "status_code", "s_res_status_code", "INVALID_STATUS")
          [] s = "s_res_status_code" /\ ch = " " -> Goto(call, "s_res_status")
          [] s \in {"s_res_status_code", "s_res_status"} /\ ch = CR ->
               Goto(call, "s_res_line_almost_done")
          [] s \in {"s_res_status_code", "s_res_status"} /\ ch = LF ->
               Goto(call, "s_header_field_start")
          [] s = "s_res_status_code" -> NextDigit(call, ch, "status_code", "INVALID_STATUS")
          [] s = "s_res_status" -> call
          [] s = "s_res_line_almost_done" ->
               IF ch = LF THEN Notify(Goto(call, "s_header_field_start"), "status_complete")
               ELSE Fail(call, "STRICT")

-----------------------------------------------------------------------------
(* Header fields.  header_state follows the letters of the names that matter;
   a complete name or value followed by anything is an ordinary one. *)
AddFlag(call, f) == [call EXCEPT !.parser.flags = @ \cup {f}]

(* One more letter of a word, letters counted from 0 by index. *)
Match(call, ch) ==
    LET h == call.parser.header_state
        i == call.parser.index + 1
        next == [call EXCEPT !.parser.index = i]
    IN  CASE i >= Len(Word[h]) \/ ch # At(Word[h], i + 1) -> Header(next, "h_general")
          [] i = Len(Word[h]) - 1 -> Header(next, Matched[h])
          [] OTHER -> next

FieldLetter(call, ch) ==
    LET h == call.parser.header_state
        next == [call EXCEPT !.parser.index = @ + 1]
    IN  CASE h = "h_C" -> Header(next, IF ch = "o" THEN "h_CO" ELSE "h_general")
          [] h = "h_CO" -> Header(next, IF ch = "n" THEN "h_CON" ELSE "h_general")
          [] h = "h_CON" -> Header(next, CASE ch = "n" -> "h_matching_connection"
                                           [] ch = "t" -> "h_matching_content_length"
                                           [] OTHER -> "h_general")
          [] h \in DOMAIN Word -> Match(call, ch)
          [] OTHER -> Header(call, "h_general")

HeaderField(call, ch) ==
    CASE ch \in Tokens -> FieldLetter(call, LowerCase(ch))
      [] ch = ":" -> Data(Goto(call, "s_header_value_start"), "header_field", call.p)
      [] ch = CR -> Data(Goto(call, "s_header_almost_done"), "header_field", call.p)
      [] ch = LF -> Data(Goto(call, "s_header_field_start"), "header_field", call.p)
      [] OTHER -> Fail(call, "INVALID_HEADER_TOKEN")

(* The first letter of a value; a folded value starts again. *)
HeaderValueStart(call, ch) ==
    LET marked == [Mark(Goto(call, "s_header_value"), "header_value") EXCEPT !.parser.index = 0]
        h == call.parser.header_state
        c == LowerCase(ch)
    IN  CASE ch \in {" ", "\t"} -> call
          [] ch = CR -> Data(Header(Goto(marked, "s_header_almost_done"), "h_general"),
                             "header_value", call.p)
          [] ch = LF -> Data(Goto(marked, "s_header_field_start"), "header_value", call.p)
          [] OTHER ->
               CASE h = "h_upgrade" -> Header(AddFlag(marked, "F_UPGRADE"), "h_general")
                 [] h = "h_transfer_encoding" /\ c = "c" ->
                      Header(marked, "h_matching_transfer_encoding_chunked")
                 [] h = "h_content_length" /\ ch \in Digits ->
                      [marked EXCEPT !.parser.content_length = Value(ch)]
                 [] h = "h_content_length" -> Fail(marked, "INVALID_CONTENT_LENGTH")
                 [] h = "h_connection" /\ c = "k" ->
                      Header(marked, "h_matching_connection_keep_alive")
                 [] h = "h_connection" /\ c = "c" ->
                      Header(marked, "h_matching_connection_close")
                 [] OTHER -> Header(marked, "h_general")

(* One more digit of a length, in unsigned arithmetic. *)
LengthDigit(call, base, digit) ==
    LET length == call.parser.content_length
        t == (length * base + digit) % (ULLONG_MAX + 1)
    IN  IF t < length \/ t = ULLONG_MAX THEN Fail(call, "INVALID_CONTENT_LENGTH")
        ELSE [call EXCEPT !.parser.content_length = t]

HeaderAlmostDone(call, ch) ==
    LET next == Goto(call, "s_header_value_lws")
        h == call.parser.header_state
    IN  CASE ch # LF -> Fail(call, "STRICT")
          [] h = "h_connection_keep_alive" -> AddFlag(next, "F_CONNECTION_KEEP_ALIVE")
          [] h = "h_connection_close" -> AddFlag(next, "F_CONNECTION_CLOSE")
          [] h = "h_transfer_encoding_chunked" -> AddFlag(next, "F_CHUNKED")
          [] OTHER -> next

HeaderValue(call, ch) ==
    LET h == call.parser.header_state
        ended == Data(Goto(call, "s_header_almost_done"), "header_value", call.p)
    IN  CASE ch = CR -> ended
          [] ch = LF -> HeaderAlmostDone(ended, ch)
          [] h = "h_content_length" /\ ch = " " -> call
          [] h = "h_content_length" /\ ch \in Digits -> LengthDigit(call, 10, Value(ch))
          [] h = "h_content_length" -> Fail(call, "INVALID_CONTENT_LENGTH")
          [] h \in DOMAIN Word -> Match(call, LowerCase(ch))
          [] h \in {"h_transfer_encoding_chunked", "h_connection_keep_alive",
                    "h_connection_close"} /\ ch = " " -> call
          [] h \in {"h_connection", "h_transfer_encoding"} -> call
          [] OTHER -> Header(call, "h_general")

-----------------------------------------------------------------------------
(* The end of the headers, and how the body is framed. *)
HeadersDone(call, ch) ==
    LET pr == call.parser
        next == [call EXCEPT !.parser.nread = 0]
    IN  CASE pr.upgrade -> [MessageComplete(next) EXCEPT !.done = TRUE]
          [] "F_SKIPBODY" \in pr.flags -> MessageComplete(next)
          [] "F_CHUNKED" \in pr.flags -> Goto(next, "s_chunk_size_start")
          [] pr.content_length = 0 -> MessageComplete(next)
          [] pr.content_length # ULLONG_MAX -> Goto(next, "s_body_identity")
          [] NeedsEof(pr) -> Goto(next, "s_body_identity_eof")
          [] OTHER -> MessageComplete(next)

(* The headers of a message, or the trailers of a chunked one. *)
HeadersAlmostDone(call, ch) ==
    LET pr == call.parser
        upgrade == "F_UPGRADE" \in pr.flags \/ pr.method = "CONNECT"
    IN  CASE ch # LF -> Fail(call, "STRICT")
          [] "F_TRAILING" \in pr.flags -> MessageComplete(call)
          [] OTHER -> HeadersDone(Notify([Goto(call, "s_headers_done")
                                            EXCEPT !.parser.upgrade = upgrade],
                                         "headers_complete"), ch)

HeaderFieldStart(call, ch) ==
    LET first == [Mark(Goto(call, "s_header_field"), "header_field") EXCEPT !.parser.index = 0]
    IN  CASE ch = CR -> Goto(call, "s_headers_almost_done")
          [] ch = LF -> HeadersAlmostDone(Goto(call, "s_headers_almost_done"), ch)
          [] ch \notin Tokens -> Fail(call, "INVALID_HEADER_TOKEN")
          [] OTHER -> Header(first, CASE ch \in {"c", "C"} -> "h_C"
                                      [] ch \in {"p", "P"} -> "h_matching_proxy_connection"
                                      [] ch \in {"t", "T"} -> "h_matching_transfer_encoding"
                                      [] ch \in {"u", "U"} -> "h_matching_upgrade"
                                      [] OTHER -> "h_general")

HeaderValueLws(call, ch) ==
    IF ch \in {" ", "\t"} THEN Goto(call, "s_header_value_start")
    ELSE HeaderFieldStart(Goto(call, "s_header_field_start"), ch)

-----------------------------------------------------------------------------
(* Bodies.  A body is taken as far as the data go, in one step. *)
MinOf(a, b) == IF a < b THEN a ELSE b

TakeBody(call) ==
    LET to_read == MinOf(call.parser.content_length, Len(call.data) - call.p + 1)
    IN  [Mark(call, "body") EXCEPT !.parser.content_length = @ - to_read,
                                   !.p = @ + to_read - 1]

BodyIdentity(call) ==
    LET taken == TakeBody(call)
    IN  IF taken.parser.content_length = 0
        THEN MessageComplete(Data(taken, "body", taken.p + 1))
        ELSE taken

BodyIdentityEof(call) == [Mark(call, "body") EXCEPT !.p = Len(call.data)]

ChunkSizeStart(call, ch) ==
    IF ch \in CharsOf(HexDigits)
    THEN [Goto(call, "s_chunk_size") EXCEPT !.parser.content_length = Unhex(ch)]
    ELSE Fail(call, "INVALID_CHUNK_SIZE")

ChunkSize(call, ch) ==
    CASE ch = CR -> Goto(call, "s_chunk_size_almost_done")
      [] ch \in CharsOf(HexDigits) -> LengthDigit(call, 16, Unhex(ch))
      [] ch \in {";", " "} -> Goto(call, "s_chunk_parameters")
      [] OTHER -> Fail(call, "INVALID_CHUNK_SIZE")

ChunkSizeAlmostDone(call, ch) ==
    LET next == [call EXCEPT !.parser.nread = 0]
    IN  CASE ch # LF -> Fail(call, "STRICT")
          [] call.parser.content_length = 0 ->
               Goto(AddFlag(next, "F_TRAILING"), "s_header_field_start")
          [] OTHER -> Goto(next, "s_chunk_data")

ChunkData(call) ==
    LET taken == TakeBody(call)
    IN  IF taken.parser.content_length = 0 THEN Goto(taken, "s_chunk_data_almost_done")
        ELSE taken

ChunkDataAlmostDone(call, ch) ==
    IF ch = CR THEN Data(Goto(call, "s_chunk_data_done"), "body", call.p)
    ELSE Fail(call, "STRICT")

ChunkDataDone(call, ch) ==
    IF ch = LF THEN [Goto(call, "s_chunk_size_start") EXCEPT !.parser.nread = 0]
    ELSE Fail(call, "STRICT")

-----------------------------------------------------------------------------
(* The byte at p: count it while in the headers, then by state. *)
InState(call, ch) ==
    LET s == call.parser.state
    IN  CASE s = "s_dead" -> IF ch \in {CR, LF} THEN call ELSE Fail(call, "CLOSED_CONNECTION")
          [] s = "s_start_req" -> StartReq(call, ch)
          [] s = "s_start_req_or_res" -> StartReqOrRes(call, ch)
          [] s = "s_start_res" -> StartRes(call, ch)
          [] s = "s_res_or_resp_H" -> ResOrRespH(call, ch)
          [] s \in DOMAIN Literal -> Constant(call, ch)
          [] s = "s_req_method" -> ReqMethod(call, ch)
          [] s = "s_req_spaces_before_url" -> BeforeUrl(call, ch)
          [] s \in InUrl -> Url(call, ch)
          [] s = "s_req_http_start" -> ReqHttpStart(call, ch)
          [] s \in ReqVersionStates -> ReqVersion(call, ch)
          [] s = "s_req_line_almost_done" -> ReqLineAlmostDone(call, ch)
          [] s \in ResVersionStates -> ResVersion(call, ch)
          [] s \in ResStatusStates -> ResStatus(call, ch)
          [] s = "s_header_field_start" -> HeaderFieldStart(call, ch)
          [] s = "s_header_field" -> HeaderField(call, ch)
          [] s = "s_header_value_start" -> HeaderValueStart(call, ch)
          [] s = "s_header_value" -> HeaderValue(call, ch)
          [] s = "s_header_almost_done" -> HeaderAlmostDone(call, ch)
          [] s = "s_header_value_lws" -> HeaderValueLws(call, ch)
          [] s = "s_headers_almost_done" -> HeadersAlmostDone(call, ch)
          [] s = "s_body_identity" -> BodyIdentity(call)
          [] s = "s_body_identity_eof" -> BodyIdentityEof(call)
          [] s = "s_chunk_size_start" -> ChunkSizeStart(call, ch)
          [] s = "s_chunk_size" -> ChunkSize(call, ch)
          [] s = "s_chunk_parameters" ->
               IF ch = CR THEN Goto(call, "s_chunk_size_almost_done") ELSE call
          [] s = "s_chunk_size_almost_done" -> ChunkSizeAlmostDone(call, ch)
          [] s = "s_chunk_data" -> ChunkData(call)
          [] s = "s_chunk_data_almost_done" -> ChunkDataAlmostDone(call, ch)
          [] s = "s_chunk_data_done" -> ChunkDataDone(call, ch)

ExecuteByte(call) ==
    LET counted == IF call.parser.state \in BodyStates THEN call
                   ELSE [call EXCEPT !.parser.nread = @ + 1]
    IN  IF counted.parser.nread > MaxHeaderSize THEN Fail(counted, "HEADER_OVERFLOW")
        ELSE InState(counted, At(call.data, call.p))

\* Mutant: a header that goes on from the last call has no mark.
BeginUnmarked(pr, data) ==
    [parser |-> pr, data |-> data, p |-> 0, events |-> <<>>, done |-> FALSE, left |-> 0,
     marks |-> [header_field |-> 0, header_value |-> 0,
                url |-> IF pr.state \in InUrl THEN 1 ELSE 0, body |-> 0]]

(* The start of a call: data in the middle of a field continue it. *)
Begin(pr, data) ==
    [parser |-> pr, data |-> data, p |-> 0, events |-> <<>>, done |-> FALSE, left |-> 0,
     marks |-> [header_field |-> IF pr.state = "s_header_field" THEN 1 ELSE 0,
                header_value |-> IF pr.state = "s_header_value" THEN 1 ELSE 0,
                url |-> IF pr.state \in InUrl THEN 1 ELSE 0, body |-> 0]]

(* Its end: what is still marked is handed over. *)
Finish(call) ==
    LET end == Len(call.data) + 1
        marked == {f \in DataCallbacks : call.marks[f] # 0}
    IN  Data(Data(Data(Data([call EXCEPT !.left = Cardinality(marked)],
                            "header_field", end), "header_value", end), "url", end), "body", end)

Stopped(call) == call.done \/ call.parser.http_errno # "OK"

(* The bytes of data, sixteen at a time: each unless the call is past it. *)
Sixteen(call, from, to) ==
    LET after[i \in from..to] ==
            IF i = from THEN call
            ELSE LET c == after[i - 1]
                 IN  IF Stopped(c) \/ c.p >= i THEN c ELSE ExecuteByte([c EXCEPT !.p = i])
    IN  IF Stopped(call) \/ call.p >= to THEN call ELSE after[to]

Scan(pr, data) ==
    LET last == Len(data) \div 16
        after[k \in 0..last] ==
            IF k = 0 THEN Begin(pr, data)
            ELSE LET c == after[k - 1] IN Sixteen(c, 16 * (k - 1), 16 * k)
    IN  Sixteen(after[last], 16 * last, Len(data))

Ended(call) == IF Stopped(call) THEN call ELSE Finish(call)
Execute(pr, data) == IF pr.http_errno # "OK" THEN Begin(pr, data) ELSE Ended(Scan(pr, data))

(* http_parser_execute with no data: the end of the connection. *)
ExecuteEof(pr) ==
    CASE pr.state = "s_body_identity_eof" -> Notify(Begin(pr, ""), "message_complete")
      [] pr.state \in {"s_dead", "s_start_req_or_res", "s_start_res", "s_start_req"} ->
           Begin(pr, "")
      [] OTHER -> Fail(Begin(pr, ""), "INVALID_EOF_STATE")

-----------------------------------------------------------------------------
(* The caller.  It hands over the text in pieces, then reports the end. *)
Joined(sofar, more) ==
    LET Step(seq, e) == IF seq # <<>> /\ seq[Len(seq)][1] = e[1] /\ e[1] \in DataCallbacks
                        THEN [seq EXCEPT ![Len(seq)][2] = @ \o e[2]]
                        ELSE Append(seq, e)
    IN  FoldLeft(Step, sofar, more)

Init ==
    /\ input \in Inputs
    /\ consumed = 0
    /\ parser = New(input.type)
    /\ events = <<>>
    /\ leftover = 0
    /\ closed = FALSE

Piece(n) == SubSeq(input.text, consumed + 1, MinOf(consumed + n, Len(input.text)))

Returned(call) ==
    /\ parser' = call.parser
    /\ events' = Joined(events, call.events)
    /\ consumed' = consumed + (IF Stopped(call) THEN call.p ELSE Len(call.data))
    /\ leftover' = call.left
    /\ closed' = Stopped(call)
    /\ UNCHANGED input

Feed(n) == ~ closed /\ consumed < Len(input.text) /\ Returned(Execute(parser, Piece(n)))

End ==
    LET call == ExecuteEof(parser)
    IN  /\ ~ closed /\ consumed = Len(input.text)
        /\ parser' = call.parser
        /\ events' = Joined(events, call.events)
        /\ closed' = TRUE
        /\ UNCHANGED <<input, consumed, leftover>>

Next == (\E n \in Segments : Feed(n)) \/ End
Spec == Init /\ [][Next]_vars

=============================================================================
