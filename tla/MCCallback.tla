----------------------------- MODULE MCCallback -----------------------------
(***************************************************************************)
(* Callback for TLC: configuration files that are read, and for two of     *)
(* them the requests that come then.                                       *)
(***************************************************************************)
EXTENDS Callback

CONSTANTS MaxPieces, w1, w2

MCWorkers == {w1, w2}

(* -- configuration files: lines as strings, then in bytes ----------------- *)
Section(name) == [is |-> "section", text |-> "[" \o name \o "]", name |-> name, value |-> ""]
Property(text, name, value) == [is |-> "property", text |-> text, name |-> name, value |-> value]
Setting(name, value) == Property(name \o "=" \o value, name, value)
Nothing(text) == [is |-> "nothing", text |-> text, name |-> "", value |-> ""]

Top == <<Nothing("; port=1"), Property(" port = 80 \r", "port", "80"), Nothing(" \t=")>>
(* Names of data sources, and the connection their writers want.           *)
Sources == <<<<"pg://u:p@h:5/d", "user=u password=p dbname=d host=h port=5 ">>,
             <<"postgres://h/d?user=u&password=p", "user=u password=p dbname=d host=h ">>,
             <<"postgresql://u:p@/?port=6&dbname=d&=x", "user=u password=p dbname=d port=6 ">>,
             <<"pg://u:p@h:5/e?host=g&user=v", "user=u password=p dbname=e host=h port=5 ">>,
             <<"pg://u@h/d", "closed">>, <<"pg://u:p@h:5", "closed">>,
             <<"oracle://u:p@h/d", "none">>, <<"u:p@h/d", "none">>>>
WantedOf(conninfo) == IF conninfo \in {"closed", "none"} THEN [is |-> conninfo] ELSE PQconnectdb(Str(conninfo))
MaxSizes == <<"3", "-1", "4", "2", "100", "5", "3", "2">>
DsnLines(n) ==
    <<Section("DSN"), Setting("1_name", "db"), Section("db"), Property("dsn = " \o Sources[n][1], "dsn", Sources[n][1]),
      Setting("max_size", MaxSizes[n])>>
    \o IF n = 1 THEN <<>> ELSE <<Setting("init_size", "2")>>
CorpLines(first, second) ==
    <<Section("CorpInfo"), Setting("1_name", first), Setting("1_corpid", "c1"), Setting("2_name", second), Setting("2_corpid", "c2")>>
App(n, name, id, token, key) ==
    LET N == ToString(n)
    IN <<Property(" " \o N \o "_name\t= " \o name, N \o "_name", name), Setting(N \o "_appid", id),
         Setting(N \o "_secret", "s" \o N), Setting(N \o "_callback_token", token), Nothing(""),
         Setting(N \o "_callback_aeskey", key)>>
Key1 == "abcdefghijklmnopqrstuvwxyz0123456789ABCDEFG"
Key2 == "ABCDEFGHIJKLMNOPQRSTUVWXYZ+/cdefghijklmnopq"
MainLines(second) ==
    <<Section("Main")>> \o App(1, "notify", "10", "t1", Key1) \o App(2, second, "20", "t2", Key2)
    \o App(3, "external_contact", "30", "", "")
File(db, second, app) ==
    Top \o (IF db = 0 THEN <<>> ELSE DsnLines(db)) \o CorpLines("Main", second) \o MainLines(app)
Usual == Top \o CorpLines("Main", "") \o MainLines("contact")
Arguments == <<[args |-> <<>>, file |-> "./xauth.conf"], [args |-> <<"-daemon", "--config=b">>, file |-> "b"],
               [args |-> <<"config=b", "-config=">>, file |-> "./xauth.conf"]>>
TrustLines ==
    <<Setting("mosq_trust_prefix", "x"), Setting("mosq_trust_username", "u"), Setting("listen", ""), Section("mosq_trust_prefix"),
      Setting("mosq_trust_password", "p")>>
(* A plugin: the files that are there, and the other nodes with their host *)
(* and port.                                                               *)
Names(node) == <<Nothing("; of a node"), Setting("nodename", node)>>
Urls == <<Setting("checkuser", "h/u"), Setting("checkacl", "h/a"), Setting("api-join", "h/j")>>
FileSets == <<<<<<>>, <<>>, Names("n:2") \o Urls>>, <<Names("n:1") \o Urls, <<>>, Names("n:2")>>,
              <<Names("n:1"), Urls, <<Section("other")>> \o Names("x")>>,
              <<Names("n:2") \o <<Section("other")>>, Urls \o <<Section("")>>, <<Setting("nodename", "m")>>>>>>
NodeSets == <<{}, {<<"a", "a", 1883>>, <<"n:10", "n", 10>>, <<"n:2", "n", 2>>},
              {<<"m", "m", 1883>>, <<"a:b:1", "a:b:1", 1883>>, <<"n:1", "n", 1>>}>>

(* What a scenario is made from, with strings, and what it is.             *)
Strings(program, args, file, files, nodes) ==
    [program |-> program, args |-> args, file |-> file, files |-> files, nodes |-> nodes]
Xauth(a, lines) == Strings("xauth", a.args, a.file, <<<<"./xauth.conf", lines>>, <<"b", TrustLines>>>>, {})
Plugin(f, n, given) ==
    LET program == IF n = 0 THEN "auth" ELSE "cluster"
        base == "mosquitto_" \o program \o "_plugin.conf"
        key == program \o "_config_file"
    IN Strings(program \o " plugin",
               <<<<"other", "c">>>> \o IF given THEN <<<<key, "b">>, <<key, "c">>>> ELSE <<>>, IF given THEN "c" ELSE "",
               <<<<"/etc/" \o base, FileSets[f][1]>>, <<"/usr/local/etc/" \o base, FileSets[f][2]>>,
                 <<"c", FileSets[f][3]>>>>, IF n = 0 THEN {} ELSE NodeSets[n])
InBytes(t) == [t EXCEPT !.text = Str(@), !.name = Str(@), !.value = Str(@)]
ArgInBytes(program, arg) == IF program \in {"xauth", "service"} THEN Str(arg) ELSE <<Str(arg[1]), Str(arg[2])>>
Scenario(s) ==
    [program |-> s.program, file |-> Str(s.file),
     args |-> Tuple([i \in DOMAIN s.args |-> ArgInBytes(s.program, s.args[i])]),
     files |-> [name \in {Str(s.files[i][1]) : i \in DOMAIN s.files} |->
                   LET f == s.files[CHOOSE i \in DOMAIN s.files : Str(s.files[i][1]) = name][2]
                   IN Tuple([i \in DOMAIN f |-> InBytes(f[i])])],
     sources |-> [name \in {Str(Sources[i][1]) : i \in DOMAIN Sources} |->
                     WantedOf(Sources[CHOOSE i \in DOMAIN Sources : Str(Sources[i][1]) = name][2])],
     nodes |-> {[name |-> Str(n[1]), host |-> Str(n[2]), port |-> n[3]] : n \in s.nodes}]

UsualName == <<0, 0, "", "usual">>
BareName == <<0, 0, "", "bare">>
ServiceName == <<0, 0, "", "service">>
GivenStrings ==
    (UsualName :> Xauth(Arguments[1], Usual)) @@ (BareName :> Xauth(Arguments[1], Top))
    @@ (ServiceName :> [Xauth(Arguments[2], <<>>) EXCEPT !.program = "service"])
    @@ [p \in (1..4) \X (0..3) \X {"given", "none"} \X {"plugin"} |-> Plugin(p[1], p[2], p[3] = "given")]
    @@ [f \in (1..3) \X (0..8) \X {"Main", "Side", ""} \X {"contact", "notify"} |->
            Xauth(Arguments[f[1]], File(f[2], f[3], f[4]))]
GivenScenarios == [name \in DOMAIN GivenStrings |-> Scenario(GivenStrings[name])]

(* -- texts ------------------------------------------------------------------ *)
Piece(is, name, value, text) == [is |-> is, name |-> Str(name), value |-> Str(value), text |-> Str(text)]
Open(name) == Piece("open", name, "", "<" \o name \o ">")
Close(name) == Piece("close", name, "", "</" \o name \o ">")
Element(name, value) == <<Open(name), Piece("text", "", value, value), Close(name)>>
Field_(name, value) ==
    <<Open(name), [is |-> "cdata", name |-> <<>>, value |-> value, text |-> <<>>], Close(name)>>

Scraps == <<Piece("open", "a", "", "<a>"), Piece("close", "a", "", "</a >"),
            Piece("open", "b", "", "<b k='1' l=\"2\">"), Piece("close", "b", "", "</b>"),
            Piece("closed", "a", "", "< a k = '/>'/>"), Piece("cdata", "", "</a>", "<![CDATA[</a>]]>"),
            Piece("declaration", "", "xml", "<?xml?>"), Piece("unknown", "", "d", "<!d>"),
            Piece("comment", "", "c", " <!--c-->"), Piece("text", "", "x<y", "x&lt;&#x79;")>>
(* Two texts are one text, and the blank before a comment ends a text; the *)
(* longest ones begin with an element.                                     *)
Garbage ==
    {s \in UNION {[1..n -> 1..10] : n \in 0..MaxPieces} :
        /\ \A i \in 1..(Len(s) - 1) : s[i] = 10 => s[i + 1] \notin {9, 10}
        /\ Len(s) = MaxPieces => s[1] \in {1, 3}}

(* -- requests: a description, and the request it stands for --------------- *)
Keys(token, key, id) == [m_sToken |-> token, m_sEncodingAESKey |-> key, m_sReceiveId |-> id]
ContactKeys == Keys("t2", Key2, "c1")
NotifyKeys == Keys("t1", Key1, "c1")

(* A message about a user; forged names what does not fit the signature.   *)
Sent(url, keys, event, user, forged, heeded) ==
    [is |-> "message", url |-> url, keys |-> keys, event |-> event, user |-> user,
     forged |-> forged, heeded |-> heeded]
Contact(event, user, heeded) == Sent("/wxwork/contact", ContactKeys, event, user, "", heeded)
Added == "add_external_contact"
Deleted == "del_external_contact"
AddedBy(url, keys, forged) == Sent(url, keys, Added, "u", forged, FALSE)
Unheeded ==
    {Contact("del_follow_user", "u", FALSE), Contact("text", "u", FALSE), Contact("cut", "u", FALSE),
     Contact("add_user", "u", FALSE),
     AddedBy("/wxwork/message", NotifyKeys, ""), AddedBy("/wxwork/contact", NotifyKeys, ""),
     AddedBy("/wxwork/contact", Keys("t2", Key2, "c2"), ""), AddedBy("/wxwork/contact", Keys("t2", Key1, "c1"), ""),
     AddedBy("/wxwork/contact", ContactKeys, "signature"), AddedBy("/wxwork/contact", ContactKeys, "nonce")}
Echo(url, keys, text, forged, given) ==
    [is |-> "echo", url |-> url, keys |-> keys, text |-> text, forged |-> forged, given |-> given]
Echoes == {Echo("/wxwork/contact", ContactKeys, "123", "", TRUE), Echo("/wxwork/message", NotifyKeys, "4567", "", TRUE),
           Echo("/wxwork/contact", NotifyKeys, "123", "", FALSE),
           Echo("/wxwork/message", Keys("t1", Key1, "c"), "12", "", FALSE),
           Echo("/wxwork/contact", ContactKeys, "123", "signature", FALSE)}
Told(user, text) == [is |-> "told", user |-> user, text |-> text]
ToldWith(body) == [is |-> "told with", body |-> body]
Asked(corp, app) == [is |-> "asked", corp |-> corp, app |-> app]
Other(method, url) == [is |-> "other", method |-> method, url |-> url]

(* "bare" is a start without corps.                                        *)
GivenArrivals ==
    (UsualName :>
            <<Unheeded \cup {[is |-> "rubbish", pieces |-> g] : g \in Garbage} \cup Echoes
               \cup {Contact(Added, "u", TRUE), Contact(Deleted, "u", TRUE), Told("v", "hi"), ToldWith("nothing"),
                     ToldWith("array"), Asked("Main", "notify"), Asked("M", "notify"), Asked("", "notify"),
                     Other("GET", "/xauth/token"), Other("HEAD", "/wxwork/notify"), Other("GET", "/wxwork/notify")},
               {Contact(Deleted, "w", TRUE), Told("u", "ho")}>>)
    @@ (BareName :> <<Unheeded \cup {Contact(Added, "u", FALSE), Told("v", "hi")}>>)
    @@ [n \in DOMAIN GivenStrings |-> <<>>]

(* The codecs undo themselves, but for a last block of four bytes in       *)
(* base32, which is decoded with a zero behind it (base32.cpp:75).         *)
Samples == UNION {[1..n -> {0, 1, 127, 255}] : n \in 0..5}
ASSUME CodecsUndoThemselves ==
    \A text \in Samples :
        /\ Base64Decrypt(Base64Encrypt(text)) = text
        /\ Base32Decrypt(Base32Encrypt(text)) = IF Len(text) = 4 THEN Append(text, 0) ELSE text
        /\ HexStr2Bytes(Bytes2HexStr(text)) = text
        /\ UrlDecode(UrlEncode(text)) = text

(* Character references: a second mark is where the digits begin, their    *)
(* weights wrap, and what is none stays as it is (tinyxml2.cpp:456).       *)
References ==
    "&#x41;" :> "A" @@ "&#65;" :> "A" @@ "&#x1x41;" :> "A" @@ "&#1#65;" :> "A" @@ "&#x100000041;" :> "A"
    @@ "&#x200041;" :> "" @@ "&#4294967361;" :> "" @@ "&#x;" :> "" @@ "&#1x41;" :> "&#1x41;" @@ "&#x41" :> "&#x41"
    @@ "&#00000000000000000000000000000000065;" :> "A" @@ "&#100000000000000000000000000000000;" :> ""
ASSUME ReferencesRead ==
    \A text \in DOMAIN References : GetStr(StrPair(Str(text), {ENTITIES})) = Str(References[text])

Rand == <<7, 135>> \o Str("0123456789abcdefgh")
Stamp == Str("1500000000")
Nonce == Str("n")
Texts(keys) == [k \in DOMAIN keys |-> Str(keys[k])]
Cipher(c, text) ==
    EncodeBase64(AES_CBCEncrypt(GenNeedEncryptData(c, Rand, text), GenAesKeyFromEncodingKey(c.m_sEncodingAESKey).out).out).out
Sign(c, cipher) == ComputeSignature(c.m_sToken, Stamp, Nonce, cipher).out
(* A forged signature is a cut one.                                        *)
Query(forged, signature) ==
    [msg_signature |-> IF forged = "signature" THEN SubSeq(signature, 1, 39) ELSE signature, timestamp |-> Stamp,
     nonce |-> IF forged = "nonce" THEN Str("m") ELSE Nonce]

Answer(status, text, type) == [status |-> status, content |-> Str(text), type |-> Str(type)]
Bare(key, query_) == [key |-> key, query |-> [k \in DOMAIN query_ |-> UrlEncode(query_[k])], pieces |-> <<>>, text |-> <<>>, json |-> Json!nullValue,
                      message |-> <<>>, wants |-> <<>>, answers |-> {Answer(200, "", "text/plain")}]
With(r, more) == more @@ r
Answers(texts, type) == [answers |-> {Answer(200, t, type) : t \in texts}]

Tells(d) ==
    IF d.event = "cut" THEN <<Open("xml")>> \o Element("MsgType", "event")
    ELSE <<Open("xml")>> \o Element("MsgType", IF d.event = "text" THEN "text" ELSE "event")
         \o Element("Event", IF d.event = "add_user" THEN "change_contact" ELSE "change_external_contact")
         \o Element("ChangeType", d.event)
         \o Element("UserID", d.user) \o Element("ExternalUserID", "e") \o <<Close("xml")>>
Action(event) == IF event = Added THEN "New External Contact: " ELSE "Del External Contact: "
(* What is posted is what EncryptMsg writes.                               *)
Signed(d, says, text, cipher, sign) ==
    With(Bare(Key("POST", d.url), Query(d.forged, sign)),
         [pieces |-> <<Open("xml")>> \o Field_("Encrypt", cipher) \o Field_("MsgSignature", sign)
                     \o Field_("TimeStamp", Stamp) \o Field_("Nonce", Nonce) \o <<Close("xml")>>,
          text |-> text, message |-> says,
          wants |-> IF ~d.heeded THEN <<>>
                    ELSE <<[to |-> Str(d.user), texts |-> {Str(Action(d.event)), Str(Action(d.event) \o "W")}]>>])
Encrypted(d, c, says, plain, cipher) ==
    Signed(d, says, EncryptMsg(c, Rand, plain, Stamp, Nonce).out, cipher, Sign(c, cipher))
Written(d, c, says, plain) == Encrypted(d, c, says, plain, Cipher(c, plain))
Message(d) == Written(d, Texts(d.keys), Tells(d), TextOf(Tells(d)))
Rubbish(pieces) ==
    With(Bare(Key("POST", "/wxwork/contact"), Query("", Str("00"))),
         [pieces |-> pieces, text |-> TextOf(pieces)])
Verification(d) ==
    LET Asking(cipher) ==
            With(Bare(Key("GET", d.url), With(Query(d.forged, Sign(Texts(d.keys), cipher)), [echostr |-> cipher])),
                 Answers({IF d.given THEN d.text ELSE ""}, "text/plain"))
    IN Asking(Cipher(Texts(d.keys), Str(d.text)))

Object(name, value) == Json!ObjectValue(Str(name) :> value)
String(text) == Json!StringValue(Str(text))
Notice(json, wants) ==
    With(Bare(Key("POST", "/wxwork/notify"), Query("", <<>>)), [json |-> json, wants |-> wants])
ToldTo(d) ==
    Notice(Json!ObjectValue((Str("touser") :> String(d.user)) @@ (Str("content") :> String(d.text))),
           <<[to |-> Str(d.user), texts |-> {Str(d.text)}]>>)
(* A body that cannot be parsed still is a message, to nobody.             *)
NoticeWith(body) == IF body = "array" THEN Notice(Json!emptyArray, <<>>)
                    ELSE Notice(Json!nullValue, <<[to |-> <<>>, texts |-> {<<>>}]>>)
TokenOf(d) ==
    With(Bare(Key("GET", "/wxwork/access_token"), [corp |-> Str(d.corp), app |-> Str(d.app)]),
         IF d.corp = "" THEN Answers({""}, "text/plain")
         ELSE Answers({"{\"access_token\":\"\"}"}
                      \cup IF d.corp = "Main" THEN {"{\"access_token\":\"T\"}"} ELSE {}, "application/json"))
Named(name) == Object("external_contact", Object("name", name))
Elsewhere_(d) ==
    With(Bare(Key(d.method, d.url), With(Query("", <<>>), [corp |-> Str("Main"), app |-> Str("notify")])),
         IF d.url = "/xauth/token"
         THEN Answers({"", "[]", "{\"external_contact\":{\"name\":\"W\"}}", "{\"external_contact\":{\"name\":1}}"},
                      "text/plain")
         ELSE [answers |-> {Answer(IF d.method = "HEAD" THEN 200 ELSE 404, "", "text/plain")}])

MCRequest(d) ==
    CASE d.is = "message"   -> Message(d)
      [] d.is = "rubbish"   -> Rubbish(Tuple([i \in 1..Len(d.pieces) |-> Scraps[d.pieces[i]]]))
      [] d.is = "echo"      -> Verification(d)
      [] d.is = "told"      -> ToldTo(d)
      [] d.is = "told with" -> NoticeWith(d.body)
      [] d.is = "asked"     -> TokenOf(d)
      [] d.is = "other"     -> Elsewhere_(d)

GivenResponses == {Json!nullValue, Named(String("W")), Named(Json!IntValue(1)), Json!emptyArray}
(* TLC computes a definition once, but not one it substitutes.             *)
MCScenarios == GivenScenarios
MCArrivals == GivenArrivals
MCResponses == GivenResponses
MCTokens == {<<>>, Str("T")}
=============================================================================
