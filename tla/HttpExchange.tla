---------------------------- MODULE HttpExchange ----------------------------
(***************************************************************************)
(* An answer of the HTTP server as text, and the side of the client: its   *)
(* session, its request, and what its callbacks make of the answer.        *)
(* libcurl is external: it sends what its options say and takes an answer  *)
(* whose body has the length that is announced; one that is cut short is a *)
(* failed transfer.                                                        *)
(***************************************************************************)
EXTENDS Config

CRLF == <<13, 10>>
(* The keys of a std::map in their order.                                  *)
RECURSIVE Ordered(_)
Ordered(keys) ==
    IF keys = {} THEN <<>>
    ELSE LET first == CHOOSE k \in keys : \A j \in keys \ {k} : Before(k, j)
         IN <<first>> \o Ordered(keys \ {first})

-----------------------------------------------------------------------------
(* HttpResponse.  The table has more, the program answers with these two.  *)
HTTP_RESP_STATUS_TABLE == 200 :> Str("OK") @@ 404 :> Str("Not Found")
http_status_desc(code) == HTTP_RESP_STATUS_TABLE[code]

SetHeader(resp, name, value) == [resp EXCEPT !.headers_ = Put(@, Str(name), Str(value))]
NewResponse ==
    SetHeader(SetHeader(SetHeader([status_code_ |-> 404, headers_ |-> Empty, content_ |-> <<>>],
                                  "Connection", "close"), "Content-Type", "text/plain"), "Server", "xauth/1.0")
SetContent(resp, content) == [resp EXCEPT !.content_ = content]

Line(name, value) == name \o <<Ch(":")>> \o value \o CRLF
RECURSIVE Lines(_, _)
Lines(headers, names) ==
    IF names = <<>> THEN <<>> ELSE Line(names[1], headers[names[1]]) \o Lines(headers, Tail(names))
(* The length is that of the content, the text ends at its first zero.     *)
Message(resp) ==
    Str("HTTP/1.1 ") \o Decimal(resp.status_code_) \o Str(" ") \o http_status_desc(resp.status_code_) \o CRLF
    \o Lines(resp.headers_, Ordered(DOMAIN resp.headers_))
    \o Line(Str("Content-Length"), Decimal(Len(resp.content_))) \o CRLF \o CString(resp.content_)

-----------------------------------------------------------------------------
(* StringVector and StringMultiMap.  A rest that is shorter than the       *)
(* separator is dropped.  A multimap is a sequence of pairs in the order   *)
(* of the keys, equal keys in the order of their insertion.                *)
RECURSIVE Split(_, _)
Split(s, sp) ==
    LET fpos == Find(s, 1, sp)
    IN IF Len(s) < Len(sp) THEN <<>> ELSE IF fpos = 0 THEN <<s>>
       ELSE <<SubSeq(s, 1, fpos - 1)>> \o Split(From(s, fpos + Len(sp)), sp)

AppendPair(map, key, value) ==
    LET n == Cardinality({i \in DOMAIN map : ~Before(key, map[i][1])})
    IN IF key = <<>> THEN map ELSE SubSeq(map, 1, n) \o <<<<key, value>>>> \o From(map, n + 1)
RECURSIVE AppendLines(_, _, _)
AppendLines(map, lines, assign_key) ==
    LET fpos == Find(lines[1], 1, assign_key)
        more == AppendPair(map, SubSeq(lines[1], 1, fpos - 1), From(lines[1], fpos + Len(assign_key)))
    IN IF lines = <<>> THEN map ELSE AppendLines(IF fpos = 0 THEN map ELSE more, Tail(lines), assign_key)
SplitPairs(values, sp, assign_key) == AppendLines(<<>>, Split(values, sp), assign_key)
FindKey(map, key) ==
    LET hits == {i \in DOMAIN map : map[i][1] = key}
    IN IF hits = {} \/ key = <<>> THEN <<>> ELSE map[CHOOSE i \in hits : \A j \in hits : i <= j][2]
(* Of a map that is not empty: its first pair is read before its end is    *)
(* looked for.                                                             *)
RECURSIVE ToText(_, _, _)
ToText(map, sp, assign_key) ==
    LET first == map[1][1] \o assign_key \o map[1][2]
    IN IF Len(map) = 1 THEN first ELSE first \o sp \o ToText(Tail(map), sp, assign_key)
TripLeft(str, ch) == From(str, FirstNotIn(str, 1, {ch}))

-----------------------------------------------------------------------------
(* The session of a request.                                               *)
HttpCreateSession(method) ==
    [method_ |-> method, timeout_ |-> 30, post_data_ |-> <<>>, request_headers_ |-> <<>>]
(* Line by line; one without a ':' is no header.                           *)
RECURSIVE HttpSetHeader(_, _)
HttpSetHeader(session, header) ==
    LET end  == Find(header, 1, CRLF)
        line == IF end = 0 THEN header ELSE SubSeq(header, 1, end - 1)
        set  == IF Ch(":") \in {line[i] : i \in DOMAIN line} THEN [session EXCEPT !.request_headers_ = Append(@, line)]
                ELSE session
    IN IF header = <<>> THEN session ELSE IF end = 0 THEN set ELSE HttpSetHeader(set, From(header, end + 2))
HttpSetPostData(session, data) == [session EXCEPT !.post_data_ = data]

(* HttpOpen up to the transfer: the request libcurl sends.                 *)
HttpOpen(session, url) ==
    [method |-> session.method_, url |-> url, headers |-> session.request_headers_, body |-> session.post_data_]
HttpGet(url, headers) == HttpOpen(HttpSetHeader(HttpCreateSession("GET"), headers), url)
HttpPost(url, headers, data) ==
    HttpOpen(HttpSetPostData(HttpSetHeader(HttpCreateSession("POST"), headers), data), url)

(* The answer: its status, its header and its content, which come in       *)
(* pieces and are copied one behind the other.                             *)
RECURSIVE MemoryCopyCallback(_, _)
MemoryCopyCallback(buf, pieces) ==
    IF pieces = <<>> THEN buf ELSE MemoryCopyCallback(buf \o pieces[1], Tail(pieces))
Blank == CRLF \o CRLF
Pieces(text) == LET half == Len(text) \div 2 IN <<SubSeq(text, 1, half), From(text, half + 1)>>
Failed == [ok |-> FALSE]
Transferred(head, content) ==
    LET size == Atoll(FindKey(SplitPairs(head, CRLF, Str(":")), Str("Content-Length")))
    IN IF Len(content) < size THEN Failed
       ELSE [ok |-> TRUE, status_code |-> Atoll(From(head, 10)),
             headers |-> MemoryCopyCallback(<<>>, Pieces(head)),
             content |-> MemoryCopyCallback(<<>>, Pieces(SubSeq(content, 1, size)))]
curl_easy_perform(text) ==
    LET end == Find(text, 1, Blank)
    IN IF end = 0 THEN Failed ELSE Transferred(SubSeq(text, 1, end + 3), From(text, end + 4))

(* HttpWrapper: the headers of a request, and a response.                  *)
HttpRespHandler(answer) ==
    [status_code_ |-> answer.status_code, body_ |-> answer.content,
     headers_ |-> SplitPairs(answer.headers, CRLF, Str(":"))]
header(response, key) == TripLeft(FindKey(response.headers_, key), Ch(" "))
Post(headers, url, data) == HttpPost(url, ToText(headers, CRLF, Str(":")), data)
=============================================================================
