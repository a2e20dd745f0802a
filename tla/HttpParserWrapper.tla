-------------------------- MODULE HttpParserWrapper --------------------------
(***************************************************************************)
(* CHttpParserWrapper, which OnRead calls on all the bytes a connection    *)
(* has received so far, and http_parser_parse_url.  The properties of the  *)
(* parser and of its two users.                                            *)
(***************************************************************************)
EXTENDS HttpParser

-----------------------------------------------------------------------------
(* The headers OnHeaderField looks for.  A name is recognised by its start. *)
Wanted == {"referer", "x-forwarded-for", "user-agent", "content-type", "content-length", "host"}
MAX_REFERER_LEN == 32

StartsWith(text, word) ==
    /\ Len(text) >= Len(word)
    /\ \A i \in 1..Len(word) : LowerCase(At(text, i)) = At(word, i)

(* atoi: the digits at the start. *)
Atoi(text) ==
    LET digits == {n \in 0..Len(text) : \A i \in 1..n : At(text, i) \in Digits}
        length == CHOOSE n \in digits : \A k \in digits : k <= n
        value[i \in 0..length] == IF i = 0 THEN 0 ELSE value[i - 1] * 10 + Value(At(text, i))
    IN  value[length]

Cleared == [url |-> "", body |-> "", read_all |-> FALSE,
            value |-> [h \in Wanted |-> ""], reading |-> {}]

(* HasRead...: a header whose value is not empty (a length that is not 0). *)
HasRead(w, h) == IF h = "content-length" THEN Atoi(w.value[h]) # 0 ELSE w.value[h] # ""

OnHeaderField(w, text) ==
    [w EXCEPT !.reading = @ \cup {h \in Wanted : ~ HasRead(w, h) /\ StartsWith(text, h)}]

OnHeaderValue(w, text) ==
    LET taken(h) == CASE h = "referer" ->
                           w.value[h] \o SubSeq(text, 1, MinOf(Len(text), MAX_REFERER_LEN))
                      [] h = "content-length" -> text
                      [] OTHER -> w.value[h] \o text
    IN  [w EXCEPT !.value = [h \in Wanted |-> IF h \in w.reading THEN taken(h) ELSE @[h]],
                  !.reading = {}]

Callback(w, e) ==
    CASE e[1] = "url" -> [w EXCEPT !.url = @ \o e[2]]
      [] e[1] = "header_field" -> OnHeaderField(w, e[2])
      [] e[1] = "header_value" -> OnHeaderValue(w, e[2])
      [] e[1] = "body" -> [w EXCEPT !.body = @ \o e[2]]
      [] e[1] = "message_complete" -> [w EXCEPT !.read_all = TRUE]
      [] OTHER -> w

(* ParseHttpContent: everything is parsed again from the first byte. *)
ParseHttpContent(text) ==
    FoldLeft(Callback, Cleared, IF text = "" THEN <<>>
                                ELSE Execute(New("HTTP_REQUEST"), text).events)

-----------------------------------------------------------------------------

(* http_parse_host_char. *)
HostChar(s, ch) ==
    CASE s \in {"userinfo", "userinfo_start"} /\ ch = "@" -> "host_start"
      [] s \in {"userinfo", "userinfo_start"} /\ ch \in UserinfoChars -> "userinfo"
      [] s = "host_start" /\ ch = "[" -> "v6_start"
      [] s \in {"host_start", "host"} /\ ch \in HostChars -> "host"
      [] s \in {"host", "v6_end"} /\ ch = ":" -> "port_start"
      [] s = "v6" /\ ch = "]" -> "v6_end"
      [] s \in {"v6", "v6_start"} /\ ch \in CharsOf(HexDigits) \cup {":", "."} -> "v6"
      [] s \in {"port", "port_start"} /\ ch \in Digits -> "port"
      [] OTHER -> "dead"

Fields == {"schema", "host", "port", "path", "query", "fragment", "userinfo"}
HostField == [host |-> "host", v6 |-> "host", port |-> "port", userinfo |-> "userinfo"]
UrlField == [s_req_schema |-> "schema", s_req_server |-> "host",
             s_req_server_with_at |-> "host", s_req_path |-> "path",
             s_req_query_string |-> "query", s_req_fragment |-> "fragment"]

(* The fields of a text: step is its automaton, field tells to which field the
   byte that led to a state belongs. *)
Split(text, first, Step(_, _), field) ==
    LET at[i \in 0..Len(text)] ==
            IF i = 0 THEN [state |-> first, last |-> "", ok |-> TRUE,
                           of |-> [f \in Fields |-> ""]]
            ELSE LET u == at[i - 1]
                     ch == At(text, i)
                     s == Step(u.state, ch)
                 IN  IF ~ u.ok \/ s \in {"dead", "s_dead"} THEN [u EXCEPT !.ok = FALSE]
                     ELSE IF s \notin DOMAIN field THEN [u EXCEPT !.state = s]
                     ELSE [state |-> s, last |-> field[s], ok |-> TRUE,
                           of |-> [u.of EXCEPT ![field[s]] =
                                      IF u.last = field[s] THEN @ \o ch ELSE ch]]
    IN  at[Len(text)]

(* http_parse_host: user information, host and port of the host field. *)
ParseHost(u, foundAt) ==
    LET h == Split(u.of.host, IF foundAt THEN "userinfo_start" ELSE "host_start",
                   HostChar, HostField)
    IN  [of |-> [u.of EXCEPT !.host = h.of.host, !.port = h.of.port,
                             !.userinfo = h.of.userinfo],
         ok |-> h.ok /\ h.state \in {"host", "v6_end", "port"}]

(* http_parser_parse_url, with a result structure that the caller has zeroed. *)
ParseUrl(text, isConnect) ==
    LET u == Split(text, IF isConnect THEN "s_req_server_start" ELSE "s_req_spaces_before_url",
                   UrlChar, UrlField)
        foundAt == "@" \in CharsOf(u.of.host)
        h == IF u.of.schema # "" \/ u.of.host # "" THEN ParseHost(u, foundAt) ELSE u
        set == {f \in Fields : h.of[f] # ""}
        valid == /\ u.ok /\ h.ok
                 /\ isConnect => set = {"host", "port"}
                 /\ Atoi(h.of.port) <= 65535
    IN  [ok |-> valid, of |-> h.of]

-----------------------------------------------------------------------------
(* Properties. *)

(* Type correctness. *)
TypeOK ==
    /\ input \in Inputs
    /\ consumed \in 0..Len(input.text)
    /\ parser.index \in Nat /\ parser.nread \in 0..(MaxHeaderSize + 1)
    /\ parser.content_length \in 0..ULLONG_MAX
    /\ closed \in BOOLEAN

(* What http_parser.cc asserts, in a build in which the assertions do nothing: at
   most one mark is left at the end of a call, the lengths and flags are those the
   body states rely on, and a value is read only after its first letter is. *)
Asserts ==
    /\ leftover <= 1
    /\ parser.http_errno = "OK" =>
         /\ parser.state = "s_chunk_size_start" => parser.nread = 0
         /\ parser.state \in {"s_chunk_size_start", "s_chunk_size", "s_chunk_parameters",
                              "s_chunk_size_almost_done", "s_chunk_data",
                              "s_chunk_data_almost_done", "s_chunk_data_done"} =>
              "F_CHUNKED" \in parser.flags
         /\ parser.state \in {"s_body_identity", "s_chunk_data"} =>
              parser.content_length \notin {0, ULLONG_MAX}
         /\ parser.state = "s_chunk_data_almost_done" => parser.content_length = 0
         /\ parser.state = "s_header_value" =>
              parser.header_state \notin {"h_connection", "h_transfer_encoding"}

(* How the bytes are cut into pieces makes no difference: the parser is where one
   call with all of them would have put it and, unless it failed, has reported the
   same.  OnRead depends on it, since it parses the same bytes again and again. *)
PiecesInvisible ==
    consumed > 0 =>
        LET whole == Execute(New(input.type), SubSeq(input.text, 1, consumed))
        IN  (closed => Stopped(whole)) =>
                /\ parser = whole.parser
                /\ parser.http_errno = "OK" => events = Joined(<<>>, whole.events)

(* A well-formed text is reported as what it means, a malformed one is refused for
   the reason the caller may print. *)
Understood ==
    closed => /\ parser.http_errno = input.errno
              /\ input.errno = "OK" => events = input.means

(* A message is reported complete with its last byte: not before all of its body is
   there and, since the peer waits for the answer, not one byte later. *)
CompleteOnTime ==
    input.errno = "OK" /\ ~ closed =>
        Cardinality({i \in DOMAIN events : events[i][1] = "message_complete"})
            = Cardinality({k \in DOMAIN input.ends : input.ends[k] <= consumed})

(* What OnRead sees of a single request: it is complete exactly when all of it has
   been received, and then has its URL, its body and its headers. *)
WrapperSees ==
    input.type = "HTTP_REQUEST" /\ input.errno = "OK" /\ Len(input.ends) = 1 =>
        LET w == ParseHttpContent(SubSeq(input.text, 1, consumed))
        IN  /\ w.read_all <=> consumed >= input.ends[1]
            /\ w.read_all => /\ w.url = input.url /\ w.body = input.body
                             /\ \A h \in DOMAIN input.wanted : w.value[h] = input.wanted[h]

(* Parsing the URL of a request finds the parts it was put together from. *)
UrlParts ==
    closed /\ input.parts # <<>> =>
        ParseUrl(input.url, parser.method = "CONNECT") = [ok |-> TRUE, of |-> input.parts]

=============================================================================
