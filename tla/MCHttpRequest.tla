---------------------------- MODULE MCHttpRequest ----------------------------
EXTENDS HttpRequest, HttpMessages, HttpUrl

P(k, text) == <<[k |-> k, text |-> text]>>
Line(method, url) == P("method", method) \o P("gap", " ") \o P("url", url)
Version == P("gap", " HTTP/1.1\r\n")
Query(key, value) == P("qfield", key) \o P("gap", "=") \o P("qvalue", value)
Header(name, value) == P("hfield", name) \o P("gap", ": ") \o P("hvalue", value) \o P("gap", "\r\n")
Blank == P("gap", "\r\n")

Request(parts) == [parts |-> parts, ends |-> Len(parts)]
Followed(parts, more) == [parts |-> parts \o P("gap", more), ends |-> Len(parts)]
NoRequest(text) == [parts |-> Line("GET", "/a") \o P("gap", text), ends |-> 0]

Plain == {
    Request(Line("POST", "/checkuser") \o Version \o Header("A", "bc") \o Header("E", "")
            \o Header("Content-Length", "10") \o Blank \o P("body", "{uid:'abc}")),
    Request(Line("GET", "/contact") \o P("gap", "?") \o Query("k", "v") \o P("gap", "&") \o Query("l", "")
            \o P("gap", "#f") \o Version \o Header("A", "b") \o Blank),
    Request(Line("GET", "/checkuser") \o P("gap", "?k HTTP/1.0\r\n") \o Header("A", "bc") \o Blank),
    Request(Line("HEAD", "/checkuser") \o Version \o Header("A", "b") \o Blank),
    Request(Line("HEAD", "/nowhere") \o Version \o Blank),
    Request(Line("POST", "/checkuser") \o P("gap", "\r\n") \o Blank)}

Chunked == {
    Request(Line("PUT", "/c") \o Version \o Header("Transfer-Encoding", "chunked") \o Blank
            \o P("gap", "3\r\n") \o P("body", "abc") \o P("gap", "\r\n1;q\r\n") \o P("body", "d")
            \o P("gap", "\r\n0\r\n") \o Header("T", "u") \o Blank)}

Connections == {
    Followed(Line("GET", "/contact") \o Version \o Header("Connection", "x, close") \o Blank, "GET"),
    Followed(Line("POST", "/a") \o P("gap", " HTTP/1.0\nConnection: keep-alive\nContent-Length:1\n\n") \o P("body", "x"), "\r\nP"),
    Followed(Line("GET", "/a") \o Version \o Header("Connection", "Upgrade") \o Header("Upgrade", "h2c") \o Blank, "+"),
    Followed(Line("CONNECT", "h:1") \o Version \o Blank, "+")}

Refused == {
    NoRequest("\f HTTP/1.1\r\n\r\n"),
    NoRequest(" HTTP/1000.1\r\n\r\n"),
    NoRequest(" HTTP/1.1\r\nContent-Length: 9999\r\n\r\n"),
    NoRequest(" HTTP/1.1\r\nA: b\r\nTransfer-Encoding: chunked\r\nContent-Length: 2\r\n\r\n"),
    NoRequest(" HTTP/1.1\r\nContent-Length: 2\r\nContent-Length: 2\r\n\r\nab"),
    NoRequest(" HTTP/1.1\r\nThe-Header: is-too-long-for-the-parser-and-refused-once-it-is-read\r\n\r\n"),
    NoRequest(" HTTP/1.1\r\nTransfer-Encoding: chunked\r\n\r\n1\r\nab")}

NoPart == [parts |-> <<>>, ends |-> 0]
MCRequests == {NoPart} \union Plain \union Chunked \union Connections \union Refused
MCRouteTable == {<<"POST", "/checkuser">>, <<"GET", "/contact">>}

-----------------------------------------------------------------------------
(* The streams of HttpMessages. *)
Ends == P("end", "")
Reason(version, code, text) == P("gap", "HTTP/" \o version \o " " \o code \o " ") \o P("status", text) \o P("gap", "\r\n")
Length(n) == P("gap", "Content-Length: " \o n \o "\r\n\r\n")

Of(type, parts) == [type |-> type, parts |-> parts, closes |-> FALSE]
Responses(parts) == Of("HTTP_RESPONSE", parts)
UntilClosed(parts) == [Responses(parts) EXCEPT !.closes = TRUE]

NoMessage == Of("HTTP_REQUEST", <<>>)
MCStreams == {NoMessage,
    Responses(Reason("1.1", "200", "OK") \o Length("3") \o P("body", "a\r\n") \o Ends
              \o Reason("1.1", "404", "Not Found") \o Length("0") \o Ends),
    UntilClosed(Reason("1.1", "200", "OK") \o Blank \o P("body", "HTTP/1.1")),
    UntilClosed(P("gap", "HTTP/1.0 500\nA: b\n\n") \o P("body", "x\n")),
    UntilClosed(P("gap", "HTTP/1.1  299 \r\n\r\n")),
    Responses(Reason("1.1", "100", "Continue") \o Blank \o Ends \o Reason("1.1", "204", "No") \o Blank \o Ends
              \o Reason("1.1", "304", "Not") \o Blank \o Ends),
    Responses(Reason("1.1", "200", "") \o P("gap", "Transfer-Encoding: chunked\r\n\r\n2\r\n") \o P("body", "ab")
              \o P("gap", "\r\n1\r\n") \o P("body", "\n") \o P("gap", "\r\n0\r\n\r\n") \o Ends
              \o P("gap", "HTTP/1.1 204\r\n\r\n") \o Ends),
    Responses(Reason("1.1", "200", "OK") \o P("gap", "Connection: close\r\n") \o Length("1") \o P("body", "x") \o Ends
              \o P("gap", "\r\nH")),
    Responses(P("gap", "HTTP/01.2 1000")), Responses(P("gap", "HTTP/1.1000 ")), Responses(P("gap", "HTTP/1.1 2x")),
    Responses(P("gap", "HTTP/1.1\r\n")), Responses(P("gap", "HTTQ")),
    Of("HTTP_REQUEST", P("gap", "\r\nHEAD /a HTTP/1.1\r\n\r\n") \o Ends \o P("gap", "GET / HTTP/1.1\r\n\r\n") \o Ends),
    Of("HTTP_REQUEST", P("gap", "POST /a HTTP/1.1\r\n") \o Length("2") \o P("body", "HT") \o Ends
              \o P("gap", "HEAD / HTTP/1.0\r\n\r\n") \o Ends \o P("gap", "H")),
    Of("HTTP_REQUEST", P("gap", "HEXD /"))}

-----------------------------------------------------------------------------
(* The urls of HttpUrl. *)
MCSymbols == {"a", "1", ".", ":", "/", "?", "#", "@", "[", "]", "a://"}

\* The parts a url may have, each with the text in front of it and behind it.
Schemas == {"http", "A"}
Userinfos == {"", "u", "u:p"}
Hosts == {"h", "h-1.x", "::1", "1::f%e1"}
Ports == {<<"", 0>>, <<"0", 0>>, <<"080", 80>>, <<"65535", 65535>>}
Paths == {"", "/", "/a*"}
Queries == {"", "q=1&?"}
Fragments == {"", "f#?"}

Around(before, text, behind) == IF text = "" THEN "" ELSE before \o text \o behind
Field(uf, text) == IF text = "" THEN <<>> ELSE uf :> text
HostText(host) == IF ":" \in CharsOf(host) THEN "[" \o host \o "]" ELSE host

Accepted(text, is_connect, fields, port) ==
    [text |-> text, is_connect |-> is_connect, accepted |-> TRUE, fields |-> fields, port |-> port]
Absolute ==
    {Accepted(s \o "://" \o Around("", u, "@") \o HostText(h) \o Around(":", p[1], "") \o path \o Around("?", q, "")
                \o (IF path \o q = "" THEN "" ELSE Around("#", f, "")), FALSE,
              Field("UF_SCHEMA", s) @@ Field("UF_USERINFO", u) @@ Field("UF_HOST", h) @@ Field("UF_PORT", p[1])
                @@ Field("UF_PATH", path) @@ Field("UF_QUERY", q)
                @@ (IF path \o q = "" THEN <<>> ELSE Field("UF_FRAGMENT", f)), p[2]) :
        s \in Schemas, u \in Userinfos, h \in Hosts, p \in Ports, path \in Paths, q \in Queries, f \in Fragments}
Relative ==
    {Accepted(path \o Around("?", q, "") \o Around("#", f, ""), FALSE,
              Field("UF_PATH", path) @@ Field("UF_QUERY", q) @@ Field("UF_FRAGMENT", f), 0) :
        path \in Paths \ {""}, q \in Queries, f \in Fragments}
Connected ==
    {Accepted(HostText(h) \o ":" \o p[1], TRUE, Field("UF_HOST", h) @@ Field("UF_PORT", p[1]), p[2]) :
        h \in Hosts, p \in {q \in Ports : q[1] # ""}}

Refuses(text, is_connect) ==
    [text |-> text, is_connect |-> is_connect, accepted |-> FALSE, fields |-> <<>>, port |-> 0]
RefusedUrls ==
    {Refuses(text, FALSE) : text \in {"http", "http:/h", "http://", "http:///a", "http://u@", "http://h:", "http://h:x",
        "http://h:65536", "http://u@v@h", "http://[]", "http://[::1", "http://[g]", "http://[1%]", "http://[1]a",
        "http://h_1", "1://h", "/a b", "/a\f", "http://h:4294967376"}}
    \union {Refuses(text, TRUE) : text \in {"", "h", "u@h:1", "h:1/a", "http://h:1", ":1", "h:70000"}}

MCUrls == Absolute \union Relative \union Connected \union RefusedUrls

-----------------------------------------------------------------------------
(* The parser reads a request for the server, or a stream, or a url.       *)
Reading == <<sent # NoPart, stream # NoMessage, ~(meant = NoUrl /\ symbols = MaxSymbols)>>
MCInit ==
    /\ Init /\ StreamInit
    /\ UrlInit \/ (buf = "" /\ symbols = MaxSymbols /\ meant = NoUrl)
    /\ Cardinality({i \in 1..3 : Reading[i]}) = 1

MCNext == \/ OnRead /\ UNCHANGED <<streamVars, urlVars>>
          \/ Process /\ UNCHANGED <<streamVars, urlVars>>
          \/ Recv /\ stream # NoMessage /\ UNCHANGED <<vars, urlVars>>
          \/ AddSymbol /\ UNCHANGED <<vars, streamVars>>

MCSpec == MCInit /\ [][MCNext]_<<vars, streamVars, urlVars>>
==============================================================================
