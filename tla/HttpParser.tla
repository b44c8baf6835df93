----------------------------- MODULE HttpParser -----------------------------
(***************************************************************************)
(* http_parser_execute in strict mode: what one call does with one buffer  *)
(* for a parser of requests, of responses or of both.  A text is a string  *)
(* and a character a string of length one.  Every case of the switch is an *)
(* operator on the execution x, a record of the parser's fields and of the *)
(* call's locals; REEXECUTE applies the operator of the next state to the  *)
(* same character.  The callbacks return 0, as the program's do.           *)
(*                                                                         *)
(* The texts hold no backquote, and none of the characters @ [ \ ] ^ _ in  *)
(* a header's value: lowering matters for letters and the tab only.        *)
(***************************************************************************)
EXTENDS Naturals, Sequences, FiniteSets, TLC

CONSTANTS
    ULLONG_MAX,            \* the largest content length, 2^64 - 1 in the code
    HTTP_MAX_HEADER_SIZE   \* characters a header may have

CharAt(text, i) == IF i \in 1..Len(text) THEN SubSeq(text, i, i) ELSE ""
CharsOf(text) == {CharAt(text, i) : i \in 1..Len(text)}

CR == "\r"
LF == "\n"
UpperCase == "ABCDEFGHIJKLMNOPQRSTUVWXYZ"
LowerCase == "abcdefghijklmnopqrstuvwxyz"
DigitText == "0123456789"
HexText == "0123456789abcdef"

\* The character for which ch stands, where a table of two texts says so.
Pairing(from, to) == [c \in CharsOf(from) |-> CharAt(to, CHOOSE i \in 1..Len(from) : CharAt(from, i) = c)]
Lowering == Pairing(UpperCase \o "\t", LowerCase \o ")")
LOWER(ch) == IF ch \in DOMAIN Lowering THEN Lowering[ch] ELSE ch

Digits == CharsOf(DigitText)
Alphas == CharsOf(UpperCase) \union CharsOf(LowerCase)
Tokens == Alphas \union Digits \union CharsOf("!#$%&'*+-.^_|~")
Letters == [c \in CharsOf(UpperCase) |-> Lowering[c]]
TOKEN(ch) == IF ch \notin Tokens THEN "" ELSE IF ch \in DOMAIN Letters THEN Letters[ch] ELSE ch

NumberOf(ch, text) == (CHOOSE i \in 1..Len(text) : CharAt(text, i) = ch) - 1
UnhexTable == [c \in CharsOf(HexText \o "ABCDEF") |-> NumberOf(LOWER(c), HexText)]
DigitValue == [c \in Digits |-> NumberOf(c, DigitText)]

UrlChars == Alphas \union Digits \union CharsOf("!\"$%&'()*+,-./:;<=>@[\\]^_{|}~")
UserinfoChars == Alphas \union Digits \union CharsOf("-_.!~*'()%;:&=+$,")
IsHeaderChar(ch) == ch # "\f"

-----------------------------------------------------------------------------
(* The execution.                                                          *)

Kinds == {"url", "query_field", "query_value", "fragment", "header_field", "header_value", "body", "status"}
NoMarks == [k \in Kinds |-> 0]

\* http_parser_init
StartStates == [HTTP_REQUEST |-> "s_start_req", HTTP_RESPONSE |-> "s_start_res", HTTP_BOTH |-> "s_start_req_or_res"]
ParserFor(type) ==
    [type |-> type, state |-> StartStates[type], header_state |-> "h_general", index |-> 0, flags |-> {},
     content_length |-> 0, nread |-> 0, method |-> "", status_code |-> 0, http_major |-> 0, http_minor |-> 0,
     upgrade |-> FALSE, http_errno |-> "HPE_OK"]
NewParser == ParserFor("HTTP_REQUEST")

UPDATE_STATE(x, s) == [x EXCEPT !.state = s]
SET_ERRNO(x, e) == [x EXCEPT !.http_errno = e, !.returned = TRUE]
RETURN(x) == [x EXCEPT !.returned = TRUE]
MARK(x, k) == IF x.mark[k] = 0 THEN [x EXCEPT !.mark[k] = x.p] ELSE x

CALLBACK_NOTIFY(x, k) == [x EXCEPT !.calls = Append(@, <<k, 0, 0>>)]

\* The callback for what stands from the mark up to the position end.
CALLBACK_DATA(x, k, end) ==
    IF x.mark[k] = 0 THEN x
    ELSE [x EXCEPT !.calls = Append(@, <<k, x.mark[k], end>>), !.mark[k] = 0]

COUNT_HEADER_SIZE(x, n) ==
    IF x.nread + n > HTTP_MAX_HEADER_SIZE
    THEN SET_ERRNO([x EXCEPT !.nread = @ + n], "HPE_HEADER_OVERFLOW")
    ELSE [x EXCEPT !.nread = @ + n]

\* A failed assertion ends the process; the one about the marks has a name of its own.
Aborts(x) == SET_ERRNO(x, "assertion")

STRICT_CHECK(x, holds, next) == IF holds THEN UPDATE_STATE(x, next) ELSE SET_ERRNO(x, "HPE_STRICT")

-----------------------------------------------------------------------------
(* The request line.                                                       *)

FirstMethod ==
    [A |-> "ACL", B |-> "BIND", C |-> "CONNECT", D |-> "DELETE", G |-> "GET", H |-> "HEAD",
     L |-> "LOCK", M |-> "MKCOL", N |-> "NOTIFY", O |-> "OPTIONS", P |-> "POST", R |-> "REPORT",
     S |-> "SUBSCRIBE", T |-> "TRACE", U |-> "UNLOCK"]

\* Where the characters turn out to be those of another method.
OtherMethods ==
    {<<"POST", 1, "U", "PUT">>, <<"POST", 1, "A", "PATCH">>, <<"CONNECT", 1, "H", "CHECKOUT">>,
     <<"CONNECT", 2, "P", "COPY">>, <<"MKCOL", 1, "O", "MOVE">>, <<"MKCOL", 1, "E", "MERGE">>,
     <<"MKCOL", 2, "A", "MKACTIVITY">>, <<"MKCOL", 3, "A", "MKCALENDAR">>, <<"SUBSCRIBE", 1, "E", "SEARCH">>,
     <<"REPORT", 2, "B", "REBIND">>, <<"POST", 1, "R", "PROPFIND">>, <<"PROPFIND", 4, "P", "PROPPATCH">>,
     <<"PUT", 2, "R", "PURGE">>, <<"LOCK", 1, "I", "LINK">>, <<"UNLOCK", 2, "S", "UNSUBSCRIBE">>,
     <<"UNLOCK", 2, "B", "UNBIND">>, <<"UNLOCK", 3, "I", "UNLINK">>, <<"MKCOL", 1, "-", "M-SEARCH">>}

s_dead(x, ch) == IF ch \in {CR, LF} THEN x ELSE SET_ERRNO(x, "HPE_CLOSED_CONNECTION")

s_start_req(x, ch) ==
    IF ch \in {CR, LF} THEN x
    ELSE IF ch \notin DOMAIN FirstMethod THEN SET_ERRNO(x, "HPE_INVALID_METHOD")
    ELSE CALLBACK_NOTIFY(
            [x EXCEPT !.flags = {}, !.content_length = ULLONG_MAX, !.method = FirstMethod[ch],
                      !.index = 1, !.state = "s_req_method"], "message_begin")

s_req_method(x, ch) ==
    LET found == {m \in OtherMethods : m[1] = x.method /\ m[2] = x.index /\ m[3] = ch}
        y == [x EXCEPT !.index = @ + 1]
    IN  IF ch = " " /\ x.index = Len(x.method) THEN UPDATE_STATE(y, "s_req_spaces_before_url")
        ELSE IF ch = CharAt(x.method, x.index + 1) THEN y
        ELSE IF found # {} THEN [y EXCEPT !.method = (CHOOSE m \in found : TRUE)[4]]
        ELSE SET_ERRNO(x, "HPE_INVALID_METHOD")

\* parse_url_char
ServerStates == {"s_req_server_start", "s_req_server", "s_req_server_with_at"}
QueryStates == {"s_req_query_string_start", "s_req_query_string"}
ValueStates == {"s_req_query_value_start", "s_req_query_value"}
FragmentStates == {"s_req_fragment_start", "s_req_fragment"}

ParseUrlChar(s, ch) ==
    CASE ch \in {" ", CR, LF, "\t", "\f"} -> "s_dead"
      [] s = "s_req_spaces_before_url" /\ ch \in {"/", "*"} -> "s_req_path"
      [] s \in {"s_req_spaces_before_url", "s_req_schema"} /\ ch \in Alphas -> "s_req_schema"
      [] s = "s_req_schema" /\ ch = ":" -> "s_req_schema_slash"
      [] s = "s_req_schema_slash" /\ ch = "/" -> "s_req_schema_slash_slash"
      [] s = "s_req_schema_slash_slash" /\ ch = "/" -> "s_req_server_start"
      [] s \in ServerStates /\ ch = "/" -> "s_req_path"
      [] s \in ServerStates /\ ch = "?" -> "s_req_query_string_start"
      [] s \in ServerStates /\ ch = "@" ->
            IF s = "s_req_server_with_at" THEN "s_dead" ELSE "s_req_server_with_at"
      [] s \in ServerStates /\ ch \in UserinfoChars \union {"[", "]"} -> "s_req_server"
      [] s = "s_req_path" /\ ch \in UrlChars -> s
      [] s = "s_req_path" /\ ch = "?" -> "s_req_query_string_start"
      [] s \in QueryStates /\ ch \in UrlChars \union {"?"} -> "s_req_query_string"
      [] s \in ValueStates /\ ch = "&" -> "s_req_query_string"
      [] s \in ValueStates /\ ch \in UrlChars -> "s_req_query_value"
      [] s \in {"s_req_path"} \union QueryStates \union ValueStates /\ ch = "#" -> "s_req_fragment_start"
      [] s = "s_req_fragment_start" /\ ch = "#" -> s
      [] s \in FragmentStates /\ ch \in UrlChars \union {"?", "#"} -> "s_req_fragment"
      [] OTHER -> "s_dead"

UrlChar(x, ch) ==
    LET s == ParseUrlChar(x.state, ch)
    IN  IF s = "s_dead" THEN SET_ERRNO(UPDATE_STATE(x, s), "HPE_INVALID_URL") ELSE UPDATE_STATE(x, s)

\* The url of CONNECT taken for one like any other.
s_req_spaces_before_any_url(x, ch) == IF ch = " " THEN x ELSE UrlChar(MARK(x, "url"), ch)
s_req_spaces_before_url(x, ch) ==
    LET y == MARK(x, "url")
    IN  IF ch = " " THEN x
        ELSE IF x.method = "CONNECT" THEN UrlChar(UPDATE_STATE(y, "s_req_server_start"), ch)
        ELSE UrlChar(y, ch)

s_req_schema(x, ch) ==
    IF ch \in {" ", CR, LF} THEN SET_ERRNO(x, "HPE_INVALID_URL") ELSE UrlChar(x, ch)

s_req_path(x, ch) ==
    LET ends(s) == CALLBACK_DATA(UPDATE_STATE(x, s), "url", x.p)
        old(y) == [y EXCEPT !.http_major = 0, !.http_minor = 9]
    IN  CASE ch = " " -> ends("s_req_http_start")
          [] ch = CR -> old(ends("s_req_line_almost_done"))
          [] ch = LF -> old(ends("s_header_field_start"))
          [] ch = "?" -> ends("s_req_query_string_start")
          [] OTHER -> UrlChar(x, ch)

\* The space or # that ends a query without a value has no callback: the mark stays.
s_req_query_string(x, ch) ==
    LET y == MARK(x, "query_field")
    IN  CASE ch = " " -> UPDATE_STATE(y, "s_req_http_start")
          [] ch = "=" -> CALLBACK_DATA(UPDATE_STATE(y, "s_req_query_value_start"), "query_field", x.p)
          [] ch = "#" -> UPDATE_STATE(y, "s_req_fragment_start")
          [] OTHER -> UrlChar(y, ch)

s_req_query_value(x, ch) ==
    LET y == MARK(x, "query_value")
        ends(s) == CALLBACK_DATA(UPDATE_STATE(y, s), "query_value", x.p)
    IN  CASE ch = " " -> ends("s_req_http_start")
          [] ch = "&" -> ends("s_req_query_string_start")
          [] ch = "#" -> ends("s_req_fragment_start")
          [] OTHER -> UrlChar(y, ch)

s_req_fragment(x, ch) ==
    LET y == MARK(x, "fragment")
    IN  IF ch = " " THEN CALLBACK_DATA(UPDATE_STATE(y, "s_req_http_start"), "fragment", x.p)
        ELSE UrlChar(y, ch)

s_req_http_start(x, ch) ==
    CASE ch = "H" -> UPDATE_STATE(x, "s_req_http_H")
      [] ch = " " -> x
      [] OTHER -> SET_ERRNO(x, "HPE_INVALID_CONSTANT")

s_req_http_H(x, ch) == STRICT_CHECK(x, ch = "T", "s_req_http_HT")
s_req_http_HT(x, ch) == STRICT_CHECK(x, ch = "T", "s_req_http_HTT")
s_req_http_HTT(x, ch) == STRICT_CHECK(x, ch = "P", "s_req_http_HTTP")
s_req_http_HTTP(x, ch) == STRICT_CHECK(x, ch = "/", "s_req_first_http_major")

BadVersion(x) == SET_ERRNO(x, "HPE_INVALID_VERSION")

s_req_first_http_major(x, ch) ==
    IF ch \in Digits \ {"0"} THEN UPDATE_STATE([x EXCEPT !.http_major = DigitValue[ch]], "s_req_http_major")
    ELSE BadVersion(x)

s_req_http_major(x, ch) ==
    IF ch = "." THEN UPDATE_STATE(x, "s_req_first_http_minor")
    ELSE IF ch \notin Digits \/ x.http_major * 10 + DigitValue[ch] > 999 THEN BadVersion(x)
    ELSE [x EXCEPT !.http_major = @ * 10 + DigitValue[ch]]

s_req_first_http_minor(x, ch) ==
    IF ch \in Digits THEN UPDATE_STATE([x EXCEPT !.http_minor = DigitValue[ch]], "s_req_http_minor")
    ELSE BadVersion(x)

s_req_http_minor(x, ch) ==
    CASE ch = CR -> UPDATE_STATE(x, "s_req_line_almost_done")
      [] ch = LF -> UPDATE_STATE(x, "s_header_field_start")
      [] ch \notin Digits -> BadVersion(x)
      [] OTHER -> IF x.http_minor * 10 + DigitValue[ch] > 999 THEN BadVersion(x)
                  ELSE [x EXCEPT !.http_minor = @ * 10 + DigitValue[ch]]

s_req_line_almost_done(x, ch) ==
    IF ch = LF THEN UPDATE_STATE(x, "s_header_field_start") ELSE SET_ERRNO(x, "HPE_LF_EXPECTED")

-----------------------------------------------------------------------------
(* The status line of a response, and the first line of what may be either.*)

Anew(x, s) == [x EXCEPT !.flags = {}, !.content_length = ULLONG_MAX, !.state = s]

s_start_req_or_res(x, ch) ==
    CASE ch \in {CR, LF} -> x
      [] ch = "H" -> CALLBACK_NOTIFY(Anew(x, "s_res_or_resp_H"), "message_begin")
      [] OTHER -> s_start_req([Anew(x, "s_start_req") EXCEPT !.type = "HTTP_REQUEST"], ch)

\* A HEAD of which the E is read again.
s_res_or_resp_H_again(x, ch) ==
    CASE ch = "T" -> UPDATE_STATE([x EXCEPT !.type = "HTTP_RESPONSE"], "s_res_HT")
      [] ch = "E" -> UPDATE_STATE([x EXCEPT !.type = "HTTP_REQUEST", !.method = "HEAD", !.index = 1], "s_req_method")
      [] OTHER -> SET_ERRNO(x, "HPE_INVALID_CONSTANT")
s_res_or_resp_H(x, ch) ==
    CASE ch = "T" -> UPDATE_STATE([x EXCEPT !.type = "HTTP_RESPONSE"], "s_res_HT")
      [] ch = "E" -> UPDATE_STATE([x EXCEPT !.type = "HTTP_REQUEST", !.method = "HEAD", !.index = 2], "s_req_method")
      [] OTHER -> SET_ERRNO(x, "HPE_INVALID_CONSTANT")

\* The end of a line before a response is called back as a beginning, too.
s_start_res(x, ch) ==
    IF ch \notin {"H", CR, LF} THEN SET_ERRNO(Anew(x, x.state), "HPE_INVALID_CONSTANT")
    ELSE CALLBACK_NOTIFY(Anew(x, IF ch = "H" THEN "s_res_H" ELSE x.state), "message_begin")

s_res_H(x, ch) == STRICT_CHECK(x, ch = "T", "s_res_HT")
s_res_HT(x, ch) == STRICT_CHECK(x, ch = "T", "s_res_HTT")
s_res_HTT(x, ch) == STRICT_CHECK(x, ch = "P", "s_res_HTTP")
s_res_HTTP(x, ch) == STRICT_CHECK(x, ch = "/", "s_res_first_http_major")

s_res_first_http_major(x, ch) ==
    IF ch \in Digits THEN UPDATE_STATE([x EXCEPT !.http_major = DigitValue[ch]], "s_res_http_major")
    ELSE BadVersion(x)

s_res_http_major(x, ch) ==
    IF ch = "." THEN UPDATE_STATE(x, "s_res_first_http_minor") ELSE s_req_http_major(x, ch)

s_res_first_http_minor(x, ch) ==
    IF ch \in Digits THEN UPDATE_STATE([x EXCEPT !.http_minor = DigitValue[ch]], "s_res_http_minor")
    ELSE BadVersion(x)

s_res_http_minor(x, ch) ==
    CASE ch = " " -> UPDATE_STATE(x, "s_res_first_status_code")
      [] ch \in {CR, LF} -> BadVersion(x)
      [] OTHER -> s_req_http_minor(x, ch)

LineEnd == (CR :> "s_res_line_almost_done") @@ (LF :> "s_header_field_start")
BadStatus(x) == SET_ERRNO(x, "HPE_INVALID_STATUS")

s_res_first_status_code(x, ch) ==
    CASE ch \in Digits -> UPDATE_STATE([x EXCEPT !.status_code = DigitValue[ch]], "s_res_status_code")
      [] ch = " " -> x
      [] OTHER -> BadStatus(x)

s_res_status_code(x, ch) ==
    LET code == x.status_code * 10 + DigitValue[ch]
    IN  CASE ch = " " -> UPDATE_STATE(x, "s_res_status_start")
          [] ch \in DOMAIN LineEnd -> UPDATE_STATE(x, LineEnd[ch])
          [] ch \notin Digits -> BadStatus(x)
          [] OTHER -> IF code > 999 THEN BadStatus([x EXCEPT !.status_code = code]) ELSE [x EXCEPT !.status_code = code]

s_res_status_start(x, ch) ==
    IF ch \in DOMAIN LineEnd THEN UPDATE_STATE(x, LineEnd[ch])
    ELSE [MARK(x, "status") EXCEPT !.state = "s_res_status", !.index = 0]

s_res_status(x, ch) ==
    IF ch \in DOMAIN LineEnd THEN CALLBACK_DATA(UPDATE_STATE(x, LineEnd[ch]), "status", x.p) ELSE x

s_res_line_almost_done(x, ch) == STRICT_CHECK(x, ch = LF, "s_header_field_start")

-----------------------------------------------------------------------------
(* The body.  What the code reads with one advance of p is read here one   *)
(* character at a time.                                                    *)

\* http_message_needs_eof and http_should_keep_alive.  The first form forgets the
\* responses that have no body.
MessageNeedsEofAnyway(x) ==
    x.type # "HTTP_REQUEST" /\ "F_CHUNKED" \notin x.flags /\ x.content_length = ULLONG_MAX
MessageNeedsEof(x) ==
    /\ x.type # "HTTP_REQUEST"
    /\ x.status_code \div 100 # 1 /\ x.status_code \notin {204, 304}
    /\ "F_CHUNKED" \notin x.flags /\ x.content_length = ULLONG_MAX

ShouldKeepAlive(x) ==
    /\ IF x.http_major > 0 /\ x.http_minor > 0
       THEN "F_CONNECTION_CLOSE" \notin x.flags
       ELSE "F_CONNECTION_KEEP_ALIVE" \in x.flags
    /\ ~MessageNeedsEof(x)

\* A type that is not HTTP_REQUEST starts with a response: it has been found by then.
StartState(x) == IF x.type = "HTTP_REQUEST" THEN "s_start_req" ELSE "s_start_res"
MessageComplete(x) ==
    CALLBACK_NOTIFY(UPDATE_STATE(x, IF ShouldKeepAlive(x) THEN StartState(x) ELSE "s_dead"),
                    "message_complete")

s_message_done(x) == IF x.upgrade THEN RETURN(MessageComplete(x)) ELSE MessageComplete(x)

s_headers_done(x) ==
    LET y == [x EXCEPT !.nread = 0]
        length == y.content_length
        hasBody == "F_CHUNKED" \in y.flags \/ length \notin {0, ULLONG_MAX}
    IN  IF y.upgrade /\ (y.method = "CONNECT" \/ ~hasBody) THEN RETURN(MessageComplete(y))
        ELSE IF "F_CHUNKED" \in y.flags THEN UPDATE_STATE(y, "s_chunk_size_start")
        ELSE IF hasBody THEN UPDATE_STATE(y, "s_body_identity")
        ELSE IF MessageNeedsEof(y) THEN UPDATE_STATE(y, "s_body_identity_eof")
        ELSE MessageComplete(y)

s_headers_almost_done(x, ch) ==
    LET upgrade == {"F_UPGRADE", "F_CONNECTION_UPGRADE"} \subseteq x.flags \/ x.method = "CONNECT"
    IN  IF ch # LF THEN SET_ERRNO(x, "HPE_STRICT")
        ELSE IF "F_TRAILING" \in x.flags THEN s_message_done(x)
        ELSE IF {"F_CHUNKED", "F_CONTENTLENGTH"} \subseteq x.flags
        THEN SET_ERRNO(x, "HPE_UNEXPECTED_CONTENT_LENGTH")
        ELSE s_headers_done(CALLBACK_NOTIFY([x EXCEPT !.upgrade = upgrade], "headers_complete"))

s_body_identity(x, ch) ==
    LET y == [MARK(x, "body") EXCEPT !.content_length = @ - 1]
    IN  IF x.content_length \in {0, ULLONG_MAX} THEN Aborts(x)
        ELSE IF y.content_length = 0 THEN s_message_done(CALLBACK_DATA(y, "body", y.p + 1))
        ELSE y

s_body_identity_eof(x, ch) == MARK(x, "body")

s_chunk_size_start(x, ch) ==
    IF x.nread # 1 \/ "F_CHUNKED" \notin x.flags THEN Aborts(x)
    ELSE IF ch \notin DOMAIN UnhexTable THEN SET_ERRNO(x, "HPE_INVALID_CHUNK_SIZE")
    ELSE UPDATE_STATE([x EXCEPT !.content_length = UnhexTable[ch]], "s_chunk_size")

s_chunk_size(x, ch) ==
    IF "F_CHUNKED" \notin x.flags THEN Aborts(x)
    ELSE CASE ch = CR -> UPDATE_STATE(x, "s_chunk_size_almost_done")
           [] ch \in {";", " "} -> UPDATE_STATE(x, "s_chunk_parameters")
           [] ch \in DOMAIN UnhexTable ->
                IF (ULLONG_MAX - 16) \div 16 < x.content_length
                THEN SET_ERRNO(x, "HPE_INVALID_CONTENT_LENGTH")
                ELSE [x EXCEPT !.content_length = @ * 16 + UnhexTable[ch]]
           [] OTHER -> SET_ERRNO(x, "HPE_INVALID_CHUNK_SIZE")

s_chunk_parameters(x, ch) == IF ch = CR THEN UPDATE_STATE(x, "s_chunk_size_almost_done") ELSE x

\* The chunk of size 0 is followed by the trailing headers.
s_chunk_size_almost_done(x, ch) ==
    LET y == [x EXCEPT !.nread = 0]
    IN  IF ch # LF THEN SET_ERRNO(x, "HPE_STRICT")
        ELSE IF x.content_length # 0 THEN UPDATE_STATE(y, "s_chunk_data")
        ELSE UPDATE_STATE([y EXCEPT !.flags = @ \union {"F_TRAILING"}], "s_header_field_start")

s_chunk_data(x, ch) ==
    LET y == [MARK(x, "body") EXCEPT !.content_length = @ - 1]
    IN  IF x.content_length \in {0, ULLONG_MAX} THEN Aborts(x)
        ELSE IF y.content_length = 0 THEN UPDATE_STATE(y, "s_chunk_data_almost_done")
        ELSE y

s_chunk_data_almost_done(x, ch) ==
    IF ch # CR THEN SET_ERRNO(x, "HPE_STRICT")
    ELSE CALLBACK_DATA(UPDATE_STATE(x, "s_chunk_data_done"), "body", x.p)

s_chunk_data_done(x, ch) == STRICT_CHECK([x EXCEPT !.nread = 0], ch = LF, "s_chunk_size_start")

-----------------------------------------------------------------------------
(* The headers.                                                            *)

\* The names the parser knows: the state that matches one, and what it then is.
FieldWord ==
    [h_matching_connection |-> <<"connection", "h_connection">>,
     h_matching_proxy_connection |-> <<"proxy-connection", "h_connection">>,
     h_matching_content_length |-> <<"content-length", "h_content_length">>,
     h_matching_transfer_encoding |-> <<"transfer-encoding", "h_transfer_encoding">>,
     h_matching_upgrade |-> <<"upgrade", "h_upgrade">>]

FieldPrefix ==
    {<<"h_C", "o", "h_CO">>, <<"h_CO", "n", "h_CON">>,
     <<"h_CON", "n", "h_matching_connection">>, <<"h_CON", "t", "h_matching_content_length">>}

FirstOfField ==
    [c |-> "h_C", p |-> "h_matching_proxy_connection", t |-> "h_matching_transfer_encoding",
     u |-> "h_matching_upgrade"]

\* Matching the next character of a word.
MatchWord(x, c, word, matched, failed) ==
    [x EXCEPT !.index = @ + 1,
              !.header_state = IF c # CharAt(word, x.index + 2) THEN failed
                               ELSE IF x.index + 2 = Len(word) THEN matched
                               ELSE @]

s_header_field_start(x, ch) ==
    LET c == TOKEN(ch)
    IN  CASE ch = CR -> UPDATE_STATE(x, "s_headers_almost_done")
          [] ch = LF -> s_headers_almost_done(x, ch)
          [] c = "" -> SET_ERRNO(x, "HPE_INVALID_HEADER_TOKEN")
          [] OTHER ->
                [MARK(x, "header_field") EXCEPT
                    !.index = 0, !.state = "s_header_field",
                    !.header_state = IF c \in DOMAIN FirstOfField THEN FirstOfField[c] ELSE "h_general"]

MatchField(x, c) ==
    LET hs == x.header_state
        longer == {t \in FieldPrefix : t[1] = hs /\ t[2] = c}
    IN  CASE hs \in DOMAIN FieldWord -> MatchWord(x, c, FieldWord[hs][1], FieldWord[hs][2], "h_general")
          [] hs \in {"h_C", "h_CO", "h_CON"} ->
                [x EXCEPT !.index = @ + 1,
                          !.header_state = IF longer = {} THEN "h_general"
                                           ELSE (CHOOSE t \in longer : TRUE)[3]]
          [] OTHER -> [x EXCEPT !.header_state = "h_general"]

\* The loops over a name and over a value count what they passed at their end.
Enter(x) == IF x.start = 0 THEN [x EXCEPT !.start = x.p] ELSE x
\* A loop that counts nothing, and one that starts to match again.
LeaveUncounted(x) == [x EXCEPT !.start = 0, !.skips = FALSE]
LeaveMatchingAgain(x) == COUNT_HEADER_SIZE([x EXCEPT !.start = 0, !.skips = FALSE, !.index = 0], x.p - x.start)
Leave(x) == COUNT_HEADER_SIZE([x EXCEPT !.start = 0, !.skips = FALSE], x.p - x.start)

s_header_field(x, ch) ==
    LET y == Enter(x)
        z == Leave(y)
    IN  IF TOKEN(ch) # "" THEN MatchField(y, TOKEN(ch))
        ELSE IF z.returned THEN z
        ELSE IF ch = ":" THEN CALLBACK_DATA(UPDATE_STATE(z, "s_header_value_discard_ws"), "header_field", x.p)
        ELSE SET_ERRNO(z, "HPE_INVALID_HEADER_TOKEN")

\* What the first letter of a value of Connection may begin.
FirstOfToken ==
    [k |-> "h_matching_connection_keep_alive", c |-> "h_matching_connection_close",
     u |-> "h_matching_connection_upgrade"]
TokenFrom(c, otherwise) == IF c \in DOMAIN FirstOfToken THEN FirstOfToken[c] ELSE otherwise

s_header_value_start(x, ch) ==
    LET c == LOWER(ch)
        y == [MARK(x, "header_value") EXCEPT !.state = "s_header_value", !.index = 0]
    IN  CASE x.header_state = "h_upgrade" ->
                [y EXCEPT !.flags = @ \union {"F_UPGRADE"}, !.header_state = "h_general"]
          [] x.header_state = "h_transfer_encoding" ->
                [y EXCEPT !.header_state = IF c = "c" THEN "h_matching_transfer_encoding_chunked"
                                           ELSE "h_general"]
          [] x.header_state = "h_content_length" ->
                IF ch \notin Digits THEN SET_ERRNO(y, "HPE_INVALID_CONTENT_LENGTH")
                ELSE IF "F_CONTENTLENGTH" \in x.flags THEN SET_ERRNO(y, "HPE_UNEXPECTED_CONTENT_LENGTH")
                ELSE [y EXCEPT !.flags = @ \union {"F_CONTENTLENGTH"}, !.content_length = DigitValue[ch]]
          [] x.header_state = "h_connection" ->
                [y EXCEPT !.header_state = TokenFrom(c, "h_matching_connection_token")]
          [] x.header_state = "h_matching_connection_token_start" -> y
          [] OTHER -> [y EXCEPT !.header_state = "h_general"]

s_header_value_discard_ws(x, ch) ==
    CASE ch \in {" ", "\t"} -> x
      [] ch = CR -> UPDATE_STATE(x, "s_header_value_discard_ws_almost_done")
      [] ch = LF -> UPDATE_STATE(x, "s_header_value_discard_lws")
      [] OTHER -> s_header_value_start(x, ch)

ValueWord ==
    [h_matching_transfer_encoding_chunked |-> <<"chunked", "h_transfer_encoding_chunked", "h_general">>,
     h_matching_connection_keep_alive |-> <<"keep-alive", "h_connection_keep_alive", "h_matching_connection_token">>,
     h_matching_connection_close |-> <<"close", "h_connection_close", "h_matching_connection_token">>,
     h_matching_connection_upgrade |-> <<"upgrade", "h_connection_upgrade", "h_matching_connection_token">>]

\* The flag that a value which has been matched stands for.
ConnectionFlag ==
    [h_connection_keep_alive |-> "F_CONNECTION_KEEP_ALIVE", h_connection_close |-> "F_CONNECTION_CLOSE",
     h_connection_upgrade |-> "F_CONNECTION_UPGRADE"]
HeaderFlag == [h \in DOMAIN ConnectionFlag \union {"h_transfer_encoding_chunked"} |->
    IF h \in DOMAIN ConnectionFlag THEN ConnectionFlag[h] ELSE "F_CHUNKED"]
FinishHeader(x) ==
    IF x.header_state \in DOMAIN HeaderFlag
    THEN [x EXCEPT !.flags = @ \union {HeaderFlag[x.header_state]}] ELSE x

\* A length read in base 8.
ContentLengthOctal(x, ch) == IF ch \notin Digits THEN x ELSE [x EXCEPT !.content_length = @ * 8 + DigitValue[ch]]
ContentLengthDigit(x, ch) ==
    IF ch = " " THEN x
    ELSE IF ch \notin Digits \/ (ULLONG_MAX - 10) \div 10 < x.content_length
    THEN SET_ERRNO(x, "HPE_INVALID_CONTENT_LENGTH")
    ELSE [x EXCEPT !.content_length = @ * 10 + DigitValue[ch]]

\* A character of a value.  In a value that means nothing to the parser it
\* skips to the end of the line.
MatchValue(x, ch) ==
    LET hs == x.header_state
        c == LOWER(ch)
    IN  CASE hs = "h_general" -> [x EXCEPT !.skips = TRUE]
          [] hs = "h_content_length" -> ContentLengthDigit(x, ch)
          [] hs \in DOMAIN ValueWord ->
                MatchWord(x, c, ValueWord[hs][1], ValueWord[hs][2], ValueWord[hs][3])
          [] hs = "h_matching_connection_token_start" ->
                [x EXCEPT !.header_state = TokenFrom(c,
                    IF TOKEN(c) # "" THEN "h_matching_connection_token"
                    ELSE IF c = " " THEN @ ELSE "h_general")]
          [] hs = "h_matching_connection_token" ->
                IF ch = "," THEN [x EXCEPT !.header_state = "h_matching_connection_token_start", !.index = 0]
                ELSE x
          [] hs = "h_transfer_encoding_chunked" ->
                IF ch = " " THEN x ELSE [x EXCEPT !.header_state = "h_general"]
          [] hs \in DOMAIN ConnectionFlag ->
                IF ch = "," THEN [FinishHeader(x) EXCEPT
                                    !.header_state = "h_matching_connection_token_start", !.index = 0]
                ELSE IF ch = " " THEN x
                ELSE [x EXCEPT !.header_state = "h_matching_connection_token"]

s_header_almost_done(x, ch) ==
    IF ch = LF THEN UPDATE_STATE(x, "s_header_value_lws") ELSE SET_ERRNO(x, "HPE_LF_EXPECTED")

s_header_value(x, ch) ==
    LET y == Enter(x)
        ends(z) == CALLBACK_DATA(UPDATE_STATE(z, "s_header_almost_done"), "header_value", x.p)
    IN  CASE ch = CR -> Leave(ends(y))
          [] ch = LF -> IF Leave(y).returned THEN Leave(y) ELSE s_header_almost_done(ends(Leave(y)), ch)
          [] ~IsHeaderChar(ch) /\ ~y.skips -> SET_ERRNO(y, "HPE_INVALID_HEADER_TOKEN")
          [] OTHER -> MatchValue(y, ch)

s_header_value_lws(x, ch) ==
    IF ch \in {" ", "\t"} THEN s_header_value_start(x, ch)
    ELSE s_header_field_start(UPDATE_STATE(FinishHeader(x), "s_header_field_start"), ch)

s_header_value_discard_ws_almost_done(x, ch) == STRICT_CHECK(x, ch = LF, "s_header_value_discard_lws")

\* A value that is empty.
s_header_value_discard_lws(x, ch) ==
    IF ch \in {" ", "\t"} THEN UPDATE_STATE(x, "s_header_value_discard_ws")
    ELSE s_header_field_start(
            CALLBACK_DATA(UPDATE_STATE(MARK(FinishHeader(x), "header_value"), "s_header_field_start"),
                          "header_value", x.p), ch)

-----------------------------------------------------------------------------
(* One call of http_parser_execute.                                        *)

\* States beyond s_headers_done, whose characters are not counted.
BodyStates == {"s_chunk_data", "s_chunk_data_almost_done", "s_chunk_data_done", "s_body_identity",
               "s_body_identity_eof"}

Case(x, ch) ==
    CASE x.state = "s_dead" -> s_dead(x, ch)
      [] x.state = "s_start_req" -> s_start_req(x, ch)
      [] x.state = "s_req_method" -> s_req_method(x, ch)
      [] x.state = "s_req_spaces_before_url" -> s_req_spaces_before_url(x, ch)
      [] x.state \in {"s_req_schema", "s_req_schema_slash", "s_req_schema_slash_slash",
                      "s_req_server_start"} -> s_req_schema(x, ch)
      [] x.state \in {"s_req_server", "s_req_server_with_at", "s_req_path"} -> s_req_path(x, ch)
      [] x.state \in QueryStates -> s_req_query_string(x, ch)
      [] x.state \in ValueStates -> s_req_query_value(x, ch)
      [] x.state \in FragmentStates -> s_req_fragment(x, ch)
      [] x.state = "s_req_http_start" -> s_req_http_start(x, ch)
      [] x.state = "s_req_http_H" -> s_req_http_H(x, ch)
      [] x.state = "s_req_http_HT" -> s_req_http_HT(x, ch)
      [] x.state = "s_req_http_HTT" -> s_req_http_HTT(x, ch)
      [] x.state = "s_req_http_HTTP" -> s_req_http_HTTP(x, ch)
      [] x.state = "s_req_first_http_major" -> s_req_first_http_major(x, ch)
      [] x.state = "s_req_http_major" -> s_req_http_major(x, ch)
      [] x.state = "s_req_first_http_minor" -> s_req_first_http_minor(x, ch)
      [] x.state = "s_req_http_minor" -> s_req_http_minor(x, ch)
      [] x.state = "s_req_line_almost_done" -> s_req_line_almost_done(x, ch)
      [] x.state = "s_start_req_or_res" -> s_start_req_or_res(x, ch)
      [] x.state = "s_res_or_resp_H" -> s_res_or_resp_H(x, ch)
      [] x.state = "s_start_res" -> s_start_res(x, ch)
      [] x.state = "s_res_H" -> s_res_H(x, ch)
      [] x.state = "s_res_HT" -> s_res_HT(x, ch)
      [] x.state = "s_res_HTT" -> s_res_HTT(x, ch)
      [] x.state = "s_res_HTTP" -> s_res_HTTP(x, ch)
      [] x.state = "s_res_first_http_major" -> s_res_first_http_major(x, ch)
      [] x.state = "s_res_http_major" -> s_res_http_major(x, ch)
      [] x.state = "s_res_first_http_minor" -> s_res_first_http_minor(x, ch)
      [] x.state = "s_res_http_minor" -> s_res_http_minor(x, ch)
      [] x.state = "s_res_first_status_code" -> s_res_first_status_code(x, ch)
      [] x.state = "s_res_status_code" -> s_res_status_code(x, ch)
      [] x.state = "s_res_status_start" -> s_res_status_start(x, ch)
      [] x.state = "s_res_status" -> s_res_status(x, ch)
      [] x.state = "s_res_line_almost_done" -> s_res_line_almost_done(x, ch)
      [] x.state = "s_header_field_start" -> s_header_field_start(x, ch)
      [] x.state = "s_header_field" -> s_header_field(x, ch)
      [] x.state = "s_header_value_discard_ws" -> s_header_value_discard_ws(x, ch)
      [] x.state = "s_header_value_discard_ws_almost_done" -> s_header_value_discard_ws_almost_done(x, ch)
      [] x.state = "s_header_value_discard_lws" -> s_header_value_discard_lws(x, ch)
      [] x.state = "s_header_value" -> s_header_value(x, ch)
      [] x.state = "s_header_almost_done" -> s_header_almost_done(x, ch)
      [] x.state = "s_header_value_lws" -> s_header_value_lws(x, ch)
      [] x.state = "s_headers_almost_done" -> s_headers_almost_done(x, ch)
      [] x.state = "s_body_identity" -> s_body_identity(x, ch)
      [] x.state = "s_body_identity_eof" -> s_body_identity_eof(x, ch)
      [] x.state = "s_chunk_size_start" -> s_chunk_size_start(x, ch)
      [] x.state = "s_chunk_size" -> s_chunk_size(x, ch)
      [] x.state = "s_chunk_parameters" -> s_chunk_parameters(x, ch)
      [] x.state = "s_chunk_size_almost_done" -> s_chunk_size_almost_done(x, ch)
      [] x.state = "s_chunk_data" -> s_chunk_data(x, ch)
      [] x.state = "s_chunk_data_almost_done" -> s_chunk_data_almost_done(x, ch)
      [] x.state = "s_chunk_data_done" -> s_chunk_data_done(x, ch)

\* The element a buffer starts in, unless it is forgotten.
MarksForgotten(state, data) == NoMarks
MarksAtStart(state, data) ==
    LET kind == CASE state = "s_header_field" -> {"header_field"}
                  [] state = "s_header_value" -> {"header_value"}
                  [] state \in {"s_req_path", "s_req_schema", "s_req_schema_slash",
                               "s_req_schema_slash_slash"} \union ServerStates -> {"url"}
                  [] state \in QueryStates -> {"query_field"}
                  [] state \in ValueStates -> {"query_value"}
                  [] state \in FragmentStates -> {"fragment"}
                  [] state = "s_res_status" -> {"status"}
                  [] OTHER -> {}
    IN  [k \in Kinds |-> IF k \in kind THEN data ELSE 0]

Begin(parser, data) ==
    [p |-> data, mark |-> MarksAtStart(parser.state, data), calls |-> <<>>,
     returned |-> parser.http_errno # "HPE_OK", start |-> 0, skips |-> FALSE] @@ parser

\* One turn of the loop over the buffer.
Turn(x, ch) ==
    LET counted == IF x.state \in BodyStates \/ x.start # 0 THEN x ELSE COUNT_HEADER_SIZE(x, 1)
        y == IF counted.returned THEN counted ELSE Case(counted, ch)
    IN  IF y.returned THEN y ELSE [y EXCEPT !.p = @ + 1]

RECURSIVE Loop(_, _, _)
Loop(x, text, last) ==
    IF x.returned \/ x.p > last THEN x ELSE Loop(Turn(x, CharAt(text, x.p)), text, last)

\* The callbacks for the marks left at the end of the buffer, in their order.
LastKinds == <<"header_field", "header_value", "url", "body", "status", "query_field", "query_value", "fragment">>
MarksSet(x) == {k \in Kinds : x.mark[k] # 0}
Flush(x) ==
    LET left == SelectSeq(LastKinds, LAMBDA k : k \in MarksSet(x))
    IN  [x EXCEPT !.calls = @ \o [i \in 1..Len(left) |-> <<left[i], x.mark[left[i]], x.p>>],
                  !.mark = NoMarks]

\* The end of the buffer.  A loop over a name or a value is left with it, and
\* the assertion before the last callbacks may fail.
AtBufferEnd(x) ==
    LET y == IF x.start = 0 THEN x ELSE Leave(x)
    IN  IF x.returned THEN x
        ELSE IF y.returned THEN y
        ELSE IF Cardinality(MarksSet(y)) > 1 THEN SET_ERRNO(y, "marks")
        ELSE Flush(y)

\* A buffer of length 0 stands for the end of the stream.
AtEof(x) ==
    CASE x.state = "s_body_identity_eof" -> CALLBACK_NOTIFY(x, "message_complete")
      [] x.state \in {"s_dead", "s_start_req_or_res", "s_start_res", "s_start_req"} -> x
      [] OTHER -> SET_ERRNO(x, "HPE_INVALID_EOF_STATE")

Execute(parser, text, data, len) ==
    IF len = 0 /\ parser.http_errno = "HPE_OK" THEN AtEof(Begin(parser, data))
    ELSE AtBufferEnd(Loop(Begin(parser, data), text, data + len - 1))

\* What the parser keeps from one call to the next.
ParserOf(x) == [f \in DOMAIN NewParser |-> x[f]]
=============================================================================
