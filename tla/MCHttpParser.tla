---------------------------- MODULE MCHttpParser ----------------------------
(* The texts with which HttpParser is checked: well-formed ones are written from
   what they mean, malformed ones come with the error they must give. *)
EXTENDS HttpParserWrapper

CRLF == "\r\n"
Glue(s) == FoldLeft(LAMBDA a, b : a \o b, "", s)

(* URLs by their parts. *)
NoParts == [f \in Fields |-> ""]
Abs(host, rest) == [NoParts EXCEPT !.schema = "http", !.host = host, !.path = rest]
Url1 == [NoParts EXCEPT !.path = "/api/login"]
Urls == {Url1, [NoParts EXCEPT !.path = "*"], [Url1 EXCEPT !.query = "cmd=a?b"],
         [Url1 EXCEPT !.fragment = "f?#"], [Url1 EXCEPT !.query = "q", !.fragment = "f"],
         Abs("fd.com", ""), Abs("fd.com", "/p"), [Abs("h", "/") EXCEPT !.port = "8081"],
         [Abs("h", "/") EXCEPT !.userinfo = "u:p"],
         [Abs("::1", "/") EXCEPT !.port = "65535", !.userinfo = "u"]}
HostText(u) == IF ":" \in CharsOf(u.host) THEN Glue(<<"[", u.host, "]">>) ELSE u.host
Opt(before, text, after) == IF text = "" THEN "" ELSE Glue(<<before, text, after>>)
UrlText(u) ==
    Glue(<<Opt("", u.schema, "://"), Opt("", u.userinfo, "@"), HostText(u), Opt(":", u.port, ""),
           u.path, Opt("?", u.query, ""), Opt("#", u.fragment, "")>>)

(* Headers: name, text of the value, value. *)
H(name, text, value) == [name |-> name, text |-> text, value |-> value]
Host == H("Host", " h:1", "h:1")
Headers == {<<>>, <<Host>>, <<H("host", "h", "h"), H("User-Agent", "\t a b", "a b")>>,
            <<H("X", "", ""), H("Cont", " a\r\n b", "ab"), H("Proxy-connect", " c", "c")>>,
            <<H("Transfer-Encodingx", " chunked", "chunked"), H("Upgraded", " x", "x")>>,
            <<H("Connection", " keep-alive ", "keep-alive "), H("Content-Len", " x", "x")>>,
            <<H("Connection", " closed", "closed"), H("Transfer-Encoding", " gzip", "gzip")>>,
            <<H("Proxy-Connection", " keep-alives", "keep-alives"), H("CONNECTIONs", " k", "k")>>}
HeaderText(h, eol) == Glue(<<h.name, ":", h.text, eol>>)
HeaderEvents(h) == <<<<"header_field", h.name>>, <<"header_value", h.value>>>>

(* How a body is framed. *)
NoBody == [headers |-> <<>>, text |-> "", body |-> "", trailers |-> <<>>]
Length(n, body) == [NoBody EXCEPT !.headers = <<H("Content-Length", n, body[1])>>,
                                  !.text = body[2], !.body = body[2]]
Chunked == <<H("Transfer-Encoding", " Chunked", "Chunked")>>
Frames == {NoBody, Length("0", <<"0", "">>), Length(" 3", <<"3", "abc">>),
           Length(" 12 ", <<"12 ", "GET / HTTP\r\n">>),
           [NoBody EXCEPT !.headers = Chunked, !.text = "0\r\n\r\n"],
           [NoBody EXCEPT !.headers = Chunked, !.body = "ab\r\ncdefghijklmn",
                          !.text = "4\r\nab\r\n\r\n0c;x=y\r\ncdefghijklmn\r\n0\r\nT: v\r\n\r\n",
                          !.trailers = <<H("T", " v", "v")>>]}

Message(first, lead, headers, frame, eol) ==
    LET all == headers \o frame.headers
    IN  [text |-> Glue(<<first, Glue([i \in DOMAIN all |-> HeaderText(all[i], eol)]), eol,
                         frame.text>>),
         events |-> lead \o FlattenSeq([i \in DOMAIN all |-> HeaderEvents(all[i])])
                      \o <<<<"headers_complete", "">>>>
                      \o (IF frame.body = "" THEN <<>> ELSE <<<<"body", frame.body>>>>)
                      \o FlattenSeq([i \in DOMAIN frame.trailers |->
                                       HeaderEvents(frame.trailers[i])])
                      \o <<<<"message_complete", "">>>>]

Request(method, parts, headers, frame, eol) ==
    LET url == UrlText(parts)
    IN  Message(Glue(<<method, " ", url, " HTTP/1.1", eol>>),
                <<<<"message_begin", "">>, <<"url", url>>>>, headers, frame, eol)
           @@ [url |-> url, body |-> frame.body, parts |-> parts, wanted |-> <<>>]

Response(first, headers, frame) ==
    Message(first \o CRLF, <<<<"message_begin", "">>, <<"status_complete", "">>>>,
            headers, frame, CRLF) @@ [url |-> "", body |-> "", parts |-> <<>>, wanted |-> <<>>]

Input(type, first, more, ends) ==
    [type |-> type, errno |-> "OK", text |-> first.text \o more.text, ends |-> ends,
     means |-> first.events \o more.events, url |-> first.url, body |-> first.body,
     parts |-> first.parts, wanted |-> first.wanted]
Nothing == [text |-> "", events |-> <<>>]
Single(type, m) == Input(type, m, Nothing, <<Len(m.text)>>)
Twice(type, a, b) == Input(type, a, b, <<Len(a.text), Len(a.text) + Len(b.text)>>)

Post == Request("POST", Url1, <<Host>>, Length(" 3", <<"3", "abc">>), CRLF)
ConnectTo == [NoParts EXCEPT !.host = "h", !.port = "80"]
Simple(method) ==
    Request(method, IF method = "CONNECT" THEN ConnectTo ELSE Url1, <<>>, NoBody, CRLF)
Closing == Request("GET", Url1, <<H("Connection", " Close", "Close")>>, NoBody, "\n")
WantsHeaders ==
    [Request("POST", Url1,
             <<H("Host", " h", "h"), H("HOST", " i", "i"), H("Content-Type", "", ""),
               H("Referers", " 12345678901234567890123456789012345", "12345678901234567890123456789012345"),
               H("Content-Type", " t", "t"), H("X-Forwarded-For", " f", "f")>>,
             Length(" 3", <<"3", "abc">>), CRLF)
       EXCEPT !.wanted = [h \in Wanted |->
                  CASE h = "host" -> "h" [] h = "content-type" -> "t"
                    [] h = "referer" -> "12345678901234567890123456789012"
                    [] h = "x-forwarded-for" -> "f" [] h = "content-length" -> "3"
                    [] OTHER -> ""]]

Requests ==
    {Single("HTTP_REQUEST", Simple(m)) : m \in Methods \ {"MSEARCH"}}
    \cup {Single("HTTP_REQUEST", Request("GET", u, <<>>, NoBody, CRLF)) : u \in Urls}
    \cup {Single("HTTP_REQUEST", Request("PUT", Url1, h, f, CRLF)) : h \in Headers, f \in Frames}
    \cup {Single("HTTP_REQUEST", Request("PUT", Url1, h, NoBody, "\n")) : h \in Headers}
    \cup {Single("HTTP_REQUEST", WantsHeaders), Single("HTTP_REQUEST", Closing),
          Twice("HTTP_REQUEST", Post, Post), Twice("HTTP_REQUEST", Simple("GET"), Closing),
          Single("HTTP_BOTH", Simple("HEAD")), Single("HTTP_BOTH", Post)}

UntilEof == [NoBody EXCEPT !.text = "ab", !.body = "ab"]
Responses ==
    {Single("HTTP_RESPONSE", Response("HTTP/1.1 204 No Content", <<Host>>, NoBody)),
     Single("HTTP_RESPONSE", Response("HTTP/1.1 304", <<>>, NoBody)),
     Single("HTTP_BOTH", Response("HTTP/1.1 200 OK", <<>>, Length(" 3", <<"3", "abc">>))),
     Input("HTTP_RESPONSE", Response("HTTP/1.0 200 OK", <<>>, UntilEof), Nothing, <<>>),
     Twice("HTTP_RESPONSE", Response("HTTP/1.1 100 Continue", <<>>, NoBody),
           Response("HTTP/1.1 200 OK", <<>>, Length("0", <<"0", "">>)))}

Bad(type, text, errno) ==
    [type |-> type, text |-> text, errno |-> errno, means |-> <<>>, ends |-> <<>>, url |-> "",
     body |-> "", parts |-> <<>>, wanted |-> <<>>]
Line == "GET / HTTP/1.1\r\n"
Malformed ==
    {Bad("HTTP_REQUEST", c[1], c[2]) :
       c \in {<<"get /", "INVALID_METHOD">>, <<"GEX /", "INVALID_METHOD">>,
              <<"GETS /", "INVALID_METHOD">>, <<"M-SEARCH * HTTP/1.1", "INVALID_METHOD">>,
              <<"GET x y", "INVALID_URL">>, <<"GET http:// H", "INVALID_URL">>,
              <<"GET http://a@@b/", "INVALID_URL">>, <<"GET / X", "INVALID_CONSTANT">>,
              <<"GET / HTTZ", "STRICT">>, <<"GET / HTTP/0", "INVALID_VERSION">>,
              <<"GET / HTTP/1.x", "INVALID_VERSION">>, <<"GET / HTTP/1000.1", "INVALID_VERSION">>,
              <<"GET / HTTP/1.1\r ", "LF_EXPECTED">>, <<"GET /\r\n", "INVALID_EOF_STATE">>,
              <<Line \o "A B: c", "INVALID_HEADER_TOKEN">>, <<Line \o "\r ", "STRICT">>,
              <<Line \o " A: c", "INVALID_HEADER_TOKEN">>, <<Line \o "A: b\r ", "STRICT">>,
              <<Line \o "Content-Length: x", "INVALID_CONTENT_LENGTH">>,
              <<Line \o "Content-Length: 1x", "INVALID_CONTENT_LENGTH">>,
              <<Line \o "Content-Length: 65535\r\n", "INVALID_CONTENT_LENGTH">>,
              <<Line \o "Content-Length: 65536\r\n", "INVALID_CONTENT_LENGTH">>,
              <<Line \o "Host\r\nA: " \o Glue([i \in 1..20 |-> "0123456789"]), "HEADER_OVERFLOW">>,
              <<Line \o "Transfer-Encoding: chunked\r\n\r\nx", "INVALID_CHUNK_SIZE">>,
              <<Line \o "Transfer-Encoding: chunked\r\n\r\n1x", "INVALID_CHUNK_SIZE">>,
              <<Line \o "Transfer-Encoding: chunked\r\n\r\n1\rx", "STRICT">>,
              <<Line \o "Transfer-Encoding: chunked\r\n\r\n1\r\naxx", "STRICT">>,
              <<Line \o "Transfer-Encoding: chunked\r\n\r\n1\r\na\rx", "STRICT">>,
              <<Line \o "Content-Length: 9\r\n\r\nabc", "INVALID_EOF_STATE">>,
              <<Closing.text \o "\r\nG", "CLOSED_CONNECTION">>}}
    \cup {Bad("HTTP_RESPONSE", c[1], c[2]) :
       c \in {<<"\r\nHTTP/x", "INVALID_VERSION">>, <<"X", "INVALID_CONSTANT">>,
              <<"HTTP/1.y", "INVALID_VERSION">>, <<"HTTP/1.1 x", "INVALID_STATUS">>,
              <<"HTTP/1.1 2000", "INVALID_STATUS">>, <<"HTTP/1.1 200 OK\rx", "STRICT">>,
              <<"HTTP/1.1 200\n", "INVALID_EOF_STATE">>}}
    \cup {Bad("HTTP_BOTH", "\r\nHX", "INVALID_CONSTANT")}

MCInputs == Requests \cup Responses \cup Malformed
MCSegments == {1, 2, 5, 17, 1000}
=============================================================================
