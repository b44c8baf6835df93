---------------------------- MODULE HttpRequest ----------------------------
(***************************************************************************)
(* A request as HttpServer sees it: buffers of any size arrive from the    *)
(* socket, HttpParser calls back with pieces of the url, the queries, the  *)
(* headers and the body, HttpRequest keeps what the callbacks bring, and   *)
(* Routes answers the finished request.                                    *)
(***************************************************************************)
EXTENDS HttpParser, FiniteSetsExt, TLC

CONSTANTS
    Requests,   \* records [parts, ends]: the parts of what a client sends, and
                \* the part that ends the message, 0 when it is no request
    RouteTable, \* pairs <<method, url>> that have a handler
    MaxCuts     \* cuts between the buffers of a request

ASSUME CutsAreBounded == MaxCuts \in Nat

\* What can become of a request, besides the route <<method, url>> that answers it.
NoAnswer == <<>>
Ok == <<"200">>
NotFound == <<"404">>

VARIABLES
    sent,      \* the request the client sends
    data,      \* where the next buffer starts
    parser,    \* the parser of the request
    req,       \* the fields of HttpRequest
    answer,    \* what Routes made of the request
    cuts       \* the positions at which a new buffer started
vars == <<sent, data, parser, req, answer, cuts>>

\* The parts of a request, one after the other.
RECURSIVE TextOfParts(_)
TextOfParts(parts) == IF parts = <<>> THEN "" ELSE Head(parts).text \o TextOfParts(Tail(parts))
TextOf == [r \in Requests |-> TextOfParts(r.parts)]
Text == TextOf[sent]

Init ==
    /\ sent \in Requests
    /\ data = 1
    /\ parser = NewParser
    /\ req = [finished |-> FALSE, method |-> "", tempkey |-> "", tempval |-> "", url |-> "",
              fragment |-> "", body |-> "", headers |-> <<>>, queries |-> <<>>]
    /\ answer = NoAnswer
    /\ cuts = {}

-----------------------------------------------------------------------------
(* The callbacks of HttpRequestBase, as functions on its fields.           *)

OnUrl(r, text) == [r EXCEPT !.url = text]
OnFragment(r, text) == [r EXCEPT !.fragment = text]
OnBody(r, text) == [r EXCEPT !.body = text]

OnHeaderField(r, text) == [r EXCEPT !.tempkey = text]
OnQueryField(r, text) == [r EXCEPT !.tempkey = text]

\* A value stored before it is assigned to tempval_.
OnHeaderValueLate(r, text) ==
    [r EXCEPT !.tempval = text, !.headers = (r.tempkey :> r.tempval) @@ @]
OnHeaderValue(r, text) ==
    [r EXCEPT !.tempval = text, !.headers = (r.tempkey :> text) @@ @]
OnQueryValue(r, text) ==
    [r EXCEPT !.tempval = text, !.queries = (r.tempkey :> text) @@ @]

OnHeadersComplete(r, method) == [r EXCEPT !.method = method]

OnMessageComplete(r) == [r EXCEPT !.finished = TRUE]

Callback(r, kind, text, method) ==
    CASE kind = "url" -> OnUrl(r, text)
      [] kind = "query_field" -> OnQueryField(r, text)
      [] kind = "query_value" -> OnQueryValue(r, text)
      [] kind = "fragment" -> OnFragment(r, text)
      [] kind = "header_field" -> OnHeaderField(r, text)
      [] kind = "header_value" -> OnHeaderValue(r, text)
      [] kind = "body" -> OnBody(r, text)
      [] kind = "headers_complete" -> OnHeadersComplete(r, method)
      [] kind = "message_complete" -> OnMessageComplete(r)
      [] kind = "message_begin" -> r

RECURSIVE Callbacks(_, _, _, _)
Callbacks(r, calls, text, method) ==
    IF calls = <<>> THEN r
    ELSE LET c == Head(calls)
         IN  Callbacks(Callback(r, c[1], SubSeq(text, c[2], c[3] - 1), method), Tail(calls), text, method)

-----------------------------------------------------------------------------

Running == parser.http_errno \notin {"assertion", "marks"}

\* OnRead: the next n characters come in one buffer.
AppendBuffer(n) ==
    LET x == Execute(parser, Text, data, n)
    IN  /\ parser' = ParserOf(x)
        /\ req' = Callbacks(req, x.calls, Text, x.method)

OnRead ==
    \E n \in 1..(Len(Text) + 1 - data) :
        /\ ~req.finished /\ Running
        /\ data + n <= Len(Text) => Cardinality(cuts) < MaxCuts
        /\ AppendBuffer(n)
        /\ data' = data + n
        /\ cuts' = IF data + n <= Len(Text) THEN cuts \union {data + n} ELSE cuts
        /\ UNCHANGED <<sent, answer>>

\* A HEAD request is looked up like any other.
RouteOfKey(method, url) ==
    IF <<method, url>> \in RouteTable THEN <<method, url>> ELSE NotFound
RouteOf(method, url) ==
    IF method = "HEAD"
    THEN IF \E key \in RouteTable : key[2] = url THEN Ok ELSE NotFound
    ELSE IF <<method, url>> \in RouteTable THEN <<method, url>> ELSE NotFound

\* OnRead has pushed the task for the finished request and a worker runs it.
Process ==
    /\ req.finished /\ Running
    /\ answer = NoAnswer
    /\ answer' = RouteOf(req.method, req.url)
    /\ UNCHANGED <<sent, data, parser, req, cuts>>

Next == OnRead \/ Process

Spec == Init /\ [][Next]_vars

-----------------------------------------------------------------------------
(* Properties.                                                             *)

Parts == sent.parts

\* Where a part starts, and the position behind it.
RECURSIVE StartOf(_, _)
StartOf(parts, i) == IF i = 1 THEN 1 ELSE StartOf(parts, i - 1) + Len(parts[i - 1].text)
From(i) == StartOf(Parts, i)
Behind(i) == From(i) + Len(Parts[i].text)

PartsOf(kind) == {i \in DOMAIN Parts : Parts[i].k = kind}
Message == {i \in DOMAIN Parts : i <= sent.ends}

Uncut(a, z) == \A c \in cuts : c <= a \/ z < c

\* The name that belongs to the value in part v.
NameOf(v, kind) == Max({i \in PartsOf(kind) : i < v})

PairIntact(v, kind, table) ==
    LET n == NameOf(v, kind) IN
    Uncut(From(n), Behind(v)) =>
        /\ Parts[n].text \in DOMAIN table
        /\ table[Parts[n].text] = Parts[v].text

\* A name and its value that arrive in one buffer are stored as they were
\* sent, wherever else the request is cut: neither a name without a value in
\* the url, nor a half-read header, nor the tempkey_ that queries and headers
\* share can spoil them.
PairsSurviveCuts ==
    Running =>
        /\ \A v \in PartsOf("hvalue") \intersect Message :
              Behind(v) + 2 < data => PairIntact(v, "hfield", req.headers)
        /\ \A v \in PartsOf("qvalue") \intersect Message :
              Behind(v) < data => PairIntact(v, "qfield", req.queries)

UrlPart == Min(PartsOf("url"))
MethodPart == Parts[Min(PartsOf("method"))].text

\* A request whose url was not cut is answered by the handler registered for
\* its method and url, a HEAD by any handler of the url, and the handler finds
\* the body it was sent, unless the body was cut or sent in chunks: then it
\* finds the last piece.
HandledAsSent ==
    answer # NoAnswer /\ sent.ends = Len(Parts) =>
        LET url == Parts[UrlPart].text
            body == PartsOf("body")
        IN  /\ Uncut(From(UrlPart), Behind(UrlPart)) =>
                  answer = CASE MethodPart = "HEAD" /\ (\E m \in {"GET", "POST"} : <<m, url>> \in RouteTable) -> Ok
                             [] <<MethodPart, url>> \in RouteTable -> <<MethodPart, url>>
                             [] OTHER -> NotFound
            /\ body # {} =>
                  LET last == Max(body)
                      piece == Max({From(last)} \union {c \in cuts : c < Behind(last)})
                  IN  req.body = SubSeq(Text, piece, Behind(last) - 1)

\* However a request is cut, it is finished when the last character of its
\* message has been read, and not before: the end of the headers, the
\* Content-Length, the chunks and the trailers say where that is.  What is no
\* request is never finished.
FinishedAtTheEnd ==
    Running => (req.finished <=> sent.ends > 0 /\ data >= Behind(sent.ends))

\* The parse of the first n characters of a request in one buffer.
Whole == [r \in Requests |-> [n \in 0..Len(TextOf[r]) |-> ParserOf(Execute(NewParser, TextOf[r], 1, n))]]

\* Where the buffers are cut does not matter to the parser's verdict: its
\* state, what it has understood of the headers and its error are those of the
\* same characters read in one buffer.  Only the count of the header's
\* characters may differ: every one has been counted while the headers of the
\* first message are read, and a cut costs at most one more, so the limit on the
\* header's size cannot be passed by sending it in pieces.
CutsDoNotMatter ==
    LET whole == Whole[sent][data - 1]
        counting == parser.http_errno = "HPE_OK" /\ ~req.finished
                    /\ "F_CHUNKED" \notin parser.flags /\ parser.state \notin BodyStates
    IN  /\ Running /\ whole.http_errno # "marks" /\ parser.http_errno # "HPE_HEADER_OVERFLOW" =>
              \A f \in DOMAIN NewParser \ {"nread"} : parser[f] = whole[f]
        /\ counting => parser.nread - (data - 1) \in 0..Cardinality(cuts)

\* When a buffer is used up, which can be after any of its characters, at most
\* one mark is set, as the comment and the assertion before the last callbacks
\* of http_parser_execute say.
AtMostOneMark == parser.http_errno # "marks"
=============================================================================
