------------------------------ MODULE HttpUrl ------------------------------
(***************************************************************************)
(* http_parser_parse_url: the parts of a url, found with the transitions   *)
(* (ParseUrlChar) by which http_parser_execute checks the url of a request.*)
(* A field is the position of its first character and its length; those    *)
(* that are set are the domain of a url's fields.                          *)
(*                                                                         *)
(* The url is the first characters of a buffer that may hold more.  Who    *)
(* calls is external.                                                      *)
(***************************************************************************)
EXTENDS HttpParser, SequencesExt

CONSTANTS
    ULONG_MAX,             \* the limit of strtoul
    Symbols, MaxSymbols,   \* what buffers are made of, and of how many
    Urls                   \* records [text, is_connect, accepted, fields, port]: a url,
                           \* whether it has an answer, and the texts of its fields

ASSUME SymbolsAreBounded == MaxSymbols \in Nat
ASSUME PortsAreBelowTheLimit == ULONG_MAX \in Nat /\ ULONG_MAX > 65535

VARIABLES
    buf,       \* what the buffer holds
    symbols,   \* of how many symbols it is made
    meant      \* the url that was composed, or none
urlVars == <<buf, symbols, meant>>

NoUrl == <<>>
UrlInit == \/ buf = "" /\ symbols = 0 /\ meant = NoUrl
           \/ \E url \in Urls : buf = url.text /\ symbols = MaxSymbols /\ meant = url

\* The caller puts one more symbol into the buffer.
AddSymbol ==
    /\ symbols < MaxSymbols /\ symbols' = symbols + 1
    /\ \E symbol \in Symbols : buf' = buf \o symbol
    /\ UNCHANGED meant

-----------------------------------------------------------------------------
(* The fields.                                                             *)
Set(fields, uf, p) == (uf :> [off |-> p, len |-> 0]) @@ fields
Longer(fields, uf) == [fields EXCEPT ![uf].len = @ + 1]
FieldText(text, field) == SubSeq(text, field.off, field.off + field.len - 1)

-----------------------------------------------------------------------------
(* http_parse_host.                                                        *)
HexDigits == CharsOf(HexText \o "ABCDEF")
HostChars == Alphas \union Digits \union {".", "-"}
ZoneChars == Alphas \union Digits \union {"%", ".", "-", "_", "~"}

http_parse_host_char(s, ch) ==
    CASE s \in {"userinfo_start", "userinfo"} /\ ch = "@" -> "host_start"
      [] s \in {"userinfo_start", "userinfo"} /\ ch \in UserinfoChars -> "userinfo"
      [] s = "host_start" /\ ch = "[" -> "host_v6_start"
      [] s \in {"host_start", "host"} /\ ch \in HostChars -> "host"
      [] s \in {"host", "host_v6_end"} /\ ch = ":" -> "host_port_start"
      [] s \in {"host_v6", "host_v6_zone"} /\ ch = "]" -> "host_v6_end"
      [] s \in {"host_v6_start", "host_v6"} /\ ch \in HexDigits \union {":", "."} -> "host_v6"
      [] s = "host_v6" /\ ch = "%" -> "host_v6_zone_start"
      [] s \in {"host_v6_zone_start", "host_v6_zone"} /\ ch \in ZoneChars -> "host_v6_zone"
      [] s \in {"host_port_start", "host_port"} /\ ch \in Digits -> "host_port"
      [] OTHER -> "dead"

\* The field that a state belongs to.
HostField ==
    ("host" :> "UF_HOST") @@ ("host_v6" :> "UF_HOST") @@ ("host_v6_zone_start" :> "UF_HOST")
    @@ ("host_v6_zone" :> "UF_HOST") @@ ("host_port" :> "UF_PORT") @@ ("userinfo" :> "UF_USERINFO")
\* Those whose first character begins it.
HostFieldStarts == {"host", "host_v6", "host_port", "userinfo"}

HostChar(h, text, p) ==
    LET s == http_parse_host_char(h.s, CharAt(text, p))
        entered == CASE s = h.s \/ s \notin HostFieldStarts -> h.fields
                     [] HostField[s] = "UF_HOST" -> [h.fields EXCEPT !["UF_HOST"].off = p]
                     [] OTHER -> Set(h.fields, HostField[s], p)
    IN  [s |-> IF h.s = "dead" THEN "dead" ELSE s,
         fields |-> IF s \in DOMAIN HostField THEN Longer(entered, HostField[s]) ELSE h.fields]

\* The host is counted anew; KeepsLength leaves it the length it had with
\* everything around it.
KeepsLength(field) == field
HasNoLength(field) == [field EXCEPT !.len = 0]

http_parse_host(text, fields, found_at) ==
    LET host == fields["UF_HOST"]
        start == [s |-> IF found_at THEN "userinfo_start" ELSE "host_start",
                  fields |-> [fields EXCEPT !["UF_HOST"] = HasNoLength(host)]]
        h == FoldLeft(LAMBDA acc, p : HostChar(acc, text, p), start, [i \in 1..host.len |-> host.off + i - 1])
    IN  [accepted |-> h.s \in {"host", "host_v6_end", "host_port"}, fields |-> h.fields]

-----------------------------------------------------------------------------
(* http_parser_parse_url.                                                  *)
UrlField ==
    ("s_req_schema" :> "UF_SCHEMA") @@ ("s_req_server" :> "UF_HOST") @@ ("s_req_server_with_at" :> "UF_HOST")
    @@ ("s_req_path" :> "UF_PATH") @@ ("s_req_query_string" :> "UF_QUERY") @@ ("s_req_fragment" :> "UF_FRAGMENT")

\* One character.  The states that have no field are those of delimiters.
Scan(u, text, p) ==
    LET s == IF u.s = "s_dead" THEN u.s ELSE ParseUrlChar(u.s, CharAt(text, p))
        uf == UrlField[s]
    IN  IF s \notin DOMAIN UrlField THEN [u EXCEPT !.s = s]
        ELSE [s |-> s, uf |-> uf, found_at |-> u.found_at \/ s = "s_req_server_with_at",
              fields |-> Longer(IF uf = u.uf THEN u.fields ELSE Set(u.fields, uf, p), uf)]

\* strtoul reads as long as there are digits in the buffer, and stays at its limit.
RECURSIVE strtoul(_, _, _)
strtoul(text, p, value) ==
    IF p > Len(text) \/ CharAt(text, p) \notin Digits THEN value
    ELSE strtoul(text, p + 1, Min({ULONG_MAX, value * 10 + DigitValue[CharAt(text, p)]}))

\* The number has 16 bits.
FitsAnything(port) == TRUE
FitsPort(port) == port <= 65535

Refusal == [accepted |-> FALSE, fields |-> <<>>, port |-> 0]
http_parser_parse_url(text, buflen, is_connect) ==
    LET start == [s |-> IF is_connect THEN "s_req_server_start" ELSE "s_req_spaces_before_url",
                  uf |-> "UF_MAX", found_at |-> FALSE, fields |-> <<>>]
        u == FoldLeft(LAMBDA acc, p : Scan(acc, text, p), start, [i \in 1..buflen |-> i])
        set == DOMAIN u.fields
        host == IF "UF_HOST" \in set THEN http_parse_host(text, u.fields, u.found_at)
                ELSE [accepted |-> "UF_SCHEMA" \notin set, fields |-> u.fields]
        port == IF "UF_PORT" \in DOMAIN host.fields THEN strtoul(text, host.fields["UF_PORT"].off, 0) ELSE 0
    IN  IF \/ u.s = "s_dead" \/ ~host.accepted
           \/ is_connect /\ DOMAIN host.fields # {"UF_HOST", "UF_PORT"}
           \/ ~FitsPort(port)
        THEN Refusal
        ELSE [accepted |-> TRUE, fields |-> host.fields, port |-> port]

-----------------------------------------------------------------------------
(* Properties.                                                             *)
Parsed(is_connect) == http_parser_parse_url(buf, Len(buf), is_connect)

\* The url that was composed is taken apart into its fields, with its port's
\* number, and one that is none is refused.
FieldsAsMeant(u) ==
    /\ u.accepted = meant.accepted
    /\ u.accepted => /\ u.port = meant.port
                     /\ DOMAIN u.fields = DOMAIN meant.fields
                     /\ \A f \in DOMAIN u.fields : FieldText(buf, u.fields[f]) = meant.fields[f]

\* The fields share no character, and all that they leave out are delimiters.
FieldsLieApart(fields) ==
    LET At(f) == fields[f].off..(fields[f].off + fields[f].len - 1)
    IN  /\ \A f \in DOMAIN fields : At(f) # {} /\ At(f) \subseteq 1..Len(buf)
        /\ \A f, g \in DOMAIN fields : f # g => At(f) \intersect At(g) = {}
        /\ \A p \in 1..Len(buf) \ UNION {At(f) : f \in DOMAIN fields} : CharAt(buf, p) \in CharsOf(":/?#@[]")

\* The parser of requests, too, takes the buffer for a url.
ServerAgrees(is_connect) ==
    LET text == (IF is_connect THEN "CONNECT " ELSE "GET ") \o buf \o " HTTP/1.1\r\n\r\n"
    IN  Execute(NewParser, text, 1, Len(text)).http_errno = "HPE_OK"

\* A url that was put together from its fields is taken apart into them, and
\* what is no url is refused.  Whatever the buffer holds, the fields of an
\* accepted url lie apart in it, and http_parser_execute accepts it as well: the
\* two differ in what they make of the same transitions only where a query has
\* a '=', which the symbols do not.
UrlsTakenApart ==
    \A is_connect \in BOOLEAN : \E u \in {Parsed(is_connect)} :
        /\ meant # NoUrl /\ is_connect = meant.is_connect => FieldsAsMeant(u)
        /\ u.accepted /\ buf # "" => FieldsLieApart(u.fields) /\ ServerAgrees(is_connect)
=============================================================================
