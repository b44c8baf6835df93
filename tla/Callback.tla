------------------------------ MODULE Callback ------------------------------
(***************************************************************************)
(* The routes of xauth, from a request to its answer and to the tasks it   *)
(* starts, on top of the configuration (StartUp), the XML documents, the   *)
(* encryption of WeChat Work and the tasks (WxApi).  A worker of the HTTP  *)
(* server shares nothing with another one but the queue of the tasks, so   *)
(* one request is handled at a time.                                       *)
(*                                                                         *)
(* Who sends requests is external.  A request is a record: key (method and *)
(* url), query (a function from names to values), pieces and text (its     *)
(* body as markup), json (what the JSON reader makes of its body), and     *)
(* what its sender means by it: message (the pieces of the encrypted       *)
(* message), answers (the responses he may get) and wants (the messages    *)
(* that are to be sent: a user and the texts he may get).  It has what its *)
(* route reads from the query: the look-up of a missing one is undefined   *)
(* (http_request.cpp:264).                                                 *)
(***************************************************************************)
EXTENDS WXBizMsgCrypt, XmlDocument, WxApi

CONSTANTS Arrivals,      (* for every scenario, for the first, second...   *)
                         (* request the descriptions it may have            *)
          Request(_)     (* the request of a description                    *)

VARIABLES handled,       (* what was wanted by the requests that were       *)
                         (* answered, and the answers                       *)
          req,           (* the request that is handled, if stage is not    *)
                         (* "idle"                                          *)
          stage,         (* the function that handles it                    *)
          message,       (* the decrypted message                           *)
          resp           (* the response so far                             *)

routeVars == <<handled, req, stage, message, resp>>
vars == <<bootVars, xmlVars, taskVars, routeVars>>

NoResponse == Http!NewResponse
Init == /\ StartUpInit /\ XmlInit /\ TasksInit
        /\ handled = <<>> /\ req = <<>> /\ stage = "idle" /\ message = <<>> /\ resp = NoResponse

-----------------------------------------------------------------------------
(* XAuthRoutes: the functions that handle the requests.                    *)
Key(method, url) == <<method, url>>
Main_ == Str("Main")
RouteOf(class, app) == [class |-> class, corp |-> Main_, app |-> Str(app)]
Register(rkey, route) == Put(Empty, rkey, route)
route_table_ ==
    Register(Key("GET", "/xauth/token"), RouteOf("RouteNewToken", "")) @@
    Register(Key("GET", "/wxwork/message"), RouteOf("RouteCallbackVerify", "notify")) @@
    Register(Key("POST", "/wxwork/message"), RouteOf("RouteWxWorkMessageHandler", "notify")) @@
    Register(Key("POST", "/wxwork/notify"), RouteOf("RouteNotify", "notify")) @@
    Register(Key("GET", "/wxwork/contact"), RouteOf("RouteCallbackVerify", "contact")) @@
    Register(Key("POST", "/wxwork/contact"), RouteOf("RouteContactHandler", "contact")) @@
    Register(Key("GET", "/wxwork/access_token"), RouteOf("RouteWxWorkAccessToken", ""))
Route == route_table_[req.key]

query(name) == UrlDecode(req.query[name])
Known(corp) == corp \in DOMAIN corps

SetStatus(code) == [NoResponse EXCEPT !.status_code_ = code]
RespondsWith(response) == stage' = "respond" /\ resp' = response /\ UNCHANGED <<handled, req, message>>
Responds(content) == RespondsWith(Http!SetContent(SetStatus(200), content))
Elsewhere == UNCHANGED <<bootVars, xmlVars, taskVars>>

(* A request comes and its route is looked up.  HEAD is answered for every *)
(* url that has one.                                                       *)
Unrouted(key) == SetStatus(IF key[1] = "HEAD" /\ \E k \in DOMAIN route_table_ : k[2] = key[2] THEN 200 ELSE 404)
Process ==
    /\ stage = "idle" /\ boot.at = "serving" /\ pc = "idle" /\ Len(handled) < Len(Arrivals[scenario])
    /\ \E description \in Arrivals[scenario][Len(handled) + 1] : req' = Request(description)
    /\ stage' = IF req'.key \in DOMAIN route_table_ THEN route_table_[req'.key].class ELSE "respond"
    /\ resp' = IF req'.key \in DOMAIN route_table_ THEN NoResponse ELSE Unrouted(req'.key)
    /\ UNCHANGED <<handled, message>> /\ Elsewhere

(* A response goes out once the documents are gone; what an HttpWrapper    *)
(* makes of it.                                                            *)
Read(response) == [status |-> response.status_code_, content |-> response.body_,
                   type |-> Http!header(response, Str("Content-Type"))]
Respond ==
    /\ stage = "respond" /\ pc = "idle"
    /\ handled' = Append(handled, [wants |-> req.wants, answers |-> req.answers,
                                   resp |-> Read(Http!HttpRespHandler(Http!curl_easy_perform(Http!Message(resp))))])
    /\ stage' = "idle" /\ req' = <<>> /\ message' = <<>> /\ resp' = NoResponse /\ Elsewhere

(* RouteCallback::Process: a corp that is unknown has empty keys.          *)
Crypt == IF Known(Route.corp)
         THEN [m_sToken |-> GetAppParam(corps[Route.corp], Route.app, Str("callback_token")),
               m_sEncodingAESKey |-> GetAppParam(corps[Route.corp], Route.app, Str("callback_aeskey")),
               m_sReceiveId |-> corps[Route.corp].corp_id_]
         ELSE [m_sToken |-> <<>>, m_sEncodingAESKey |-> <<>>, m_sReceiveId |-> <<>>]

Verify ==
    LET result == VerifyURL(Crypt, query("msg_signature"), query("timestamp"), query("nonce"), query("echostr"))
    IN stage = "RouteCallbackVerify" /\ Responds(IF result.ret = "OK" THEN result.out ELSE <<>>) /\ Elsewhere

(* RouteCallbackHandler::OnMessage: DecryptMsg parses the body and reads   *)
(* its field, then the message is parsed and read.                         *)
Callbacks == {"RouteContactHandler", "RouteWxWorkMessageHandler"}
ParseBody ==
    /\ stage \in Callbacks /\ Parse(req.pieces, req.text)
    /\ stage' = "DecryptMsg" /\ UNCHANGED <<handled, req, message, resp, bootVars, taskVars>>
OnMessage ==
    LET result == DecryptMsg(Crypt, query("msg_signature"), query("timestamp"), query("nonce"), parser.doc)
    IN /\ stage = "DecryptMsg" /\ pc = "parsed"
       /\ IF result.ret = "OK"
          THEN stage' = "XmlReader" /\ message' = result.out /\ UNCHANGED <<handled, req, resp>>
          ELSE Responds(<<>>)
       /\ Elsewhere
ParseMessage ==
    /\ stage = "XmlReader" /\ Parse(req.message, message)
    /\ stage' = "HandleMessage" /\ UNCHANGED <<handled, req, message, resp, bootVars, taskVars>>

(* The tables of handlers: for a field of the message, the values that are *)
(* known and the tasks that follow.                                        *)
Text(field) == LET v == GetField(parser.doc, Str(field)) IN IF v[1] THEN v[2] ELSE <<>>
Dispatch(field, handlers) ==
    LET known == {v \in DOMAIN handlers : GetField(parser.doc, Str(field)) = <<TRUE, Str(v)>>}
    IN IF known = {} THEN <<>> ELSE handlers[CHOOSE v \in known : TRUE]
Notify(action) == <<ExternalContactNotify(Str(action), Route.corp, Route.app, Text("UserID"), Text("ExternalUserID"))>>
change_external_contact ==
    "add_external_contact" :> Notify("New External Contact: ") @@
    "del_external_contact" :> Notify("Del External Contact: ") @@ "del_follow_user" :> <<>>
OnChangeExternalContact == Dispatch("ChangeType", change_external_contact)
change_contact == "add_user" :> <<>> @@ "update_user" :> <<>> @@ "delete_user" :> <<>>
OnChangeContact == Dispatch("ChangeType", change_contact)
OnChangeExternalChat == <<>>
OnEvent == Dispatch("Event", "change_contact" :> OnChangeContact @@
                             "change_external_contact" :> OnChangeExternalContact @@
                             "change_external_chat" :> OnChangeExternalChat)
ContactMessage == Dispatch("MsgType", "event" :> OnEvent)
(* RouteWxWorkMessageHandler: five handlers that log a field.              *)
OnRecv == [type \in {"text", "image", "voice", "video", "location"} |-> <<>>]
WorkMessage == Dispatch("MsgType", OnRecv)
HandleMessage ==
    /\ stage = "HandleMessage" /\ pc = "parsed"
    /\ tasks' = tasks \o IF Route.class = "RouteContactHandler" THEN ContactMessage ELSE WorkMessage
    /\ Responds(<<>>) /\ UNCHANGED <<bootVars, xmlVars, runs, posted, alive>>

(* RouteNotify: nobody looks whether the body could be parsed, nor whether *)
(* there is such a corp.                                                   *)
OnNotify ==
    /\ stage = "RouteNotify"
    /\ IF ~Known(Main_) \/ GetThrows(req.json, "touser")
       THEN alive' = FALSE /\ UNCHANGED <<tasks, routeVars>>
       ELSE /\ Execute(TextMessage(Main_, Route.app, Field(req.json, "touser"), Field(req.json, "content")))
            /\ Responds(<<>>) /\ UNCHANGED alive
    /\ UNCHANGED <<bootVars, xmlVars, runs, posted>>

(* app::GetAccessToken                                                     *)
TokensFor(corp, app) == IF Known(corp) THEN AccessTokens(corp, app) ELSE {<<>>}
(* WxUserInfo: WeChat's answer about a user is kept whatever it is, and it *)
(* is looked into.                                                         *)
UserInfo(response) ==
    [ok |-> ~GetThrows(response, "UserId"),
     raw_content_ |-> IF Json!isNull(response) THEN <<>> ELSE Json!Write(response, FALSE)]
OnNewToken ==
    /\ stage = "RouteNewToken"
    /\ \E response \in Responses :
          IF UserInfo(response).ok THEN Responds(UserInfo(response).raw_content_) /\ UNCHANGED alive
          ELSE alive' = FALSE /\ UNCHANGED routeVars
    /\ UNCHANGED <<bootVars, xmlVars, tasks, runs, posted>>
OnAccessToken ==
    /\ stage = "RouteWxWorkAccessToken"
    /\ IF query("corp") = <<>> \/ query("app") = <<>> THEN Responds(<<>>)
       ELSE \E token \in TokensFor(query("corp"), query("app")) :
               RespondsWith(Http!SetContent(
                   Http!SetHeader(SetStatus(200), "Content-Type", "application/json"),
                   Json!Write(SetString(Json!emptyObject, "access_token", token), FALSE)))
    /\ Elsewhere

RouteNext == alive /\ (\/ Process \/ Respond \/ Verify \/ ParseBody \/ OnMessage \/ ParseMessage
                       \/ HandleMessage \/ OnNotify \/ OnNewToken \/ OnAccessToken)

(* A document is read where it is parsed and destroyed behind its use.     *)
ReadDocument == stage \in {"DecryptMsg", "HandleMessage"} /\ ReadOn
DropDocument == stage \in {"XmlReader", "respond"} /\ (Destroy \/ Construct)

Next == \/ (StartUpNext \/ PluginsNext) /\ UNCHANGED <<xmlVars, taskVars, routeVars>>
        \/ TasksNext /\ UNCHANGED <<bootVars, xmlVars, routeVars>>
        \/ alive /\ (ReadDocument \/ DropDocument) /\ UNCHANGED <<bootVars, taskVars, routeVars>>
        \/ RouteNext
Spec == Init /\ [][Next]_vars

-----------------------------------------------------------------------------
(* What was wanted by the requests that have been dealt with, and what is  *)
(* on its way or sent.                                                     *)
Wanted == Joined([i \in 1..Len(handled) |-> handled[i].wants])
          \o (IF stage = "respond" THEN req.wants ELSE <<>>)
Sending(task) == IF task.is = "AsyncPostTask"
                 THEN [to |-> Field(task.message, "touser"), text |-> Field(task.message, "text.content")]
                 ELSE [to |-> task.userid, text |-> task.action]
Places == [tasks |-> tasks, posted |-> posted] @@ [w \in {v \in Workers : runs[v] /= Free} |-> <<runs[w].task>>]
Spots == {<<place, i>> : place \in DOMAIN Places, i \in 1..(Len(tasks) + Len(posted) + 1)}
Carried == {spot \in Spots : spot[2] <= Len(Places[spot[1]])}
Fits(spot, want) ==
    LET s == Sending(Places[spot[1]][spot[2]]) IN s.to = want.to /\ s.text \in want.texts

(* SentAsMeant: an authentic event of a contact, and nothing else, leads   *)
(* to one message to its user, which is in one place from the moment the   *)
(* request is dealt with: in the queue, with a worker, or sent off.  No    *)
(* other body and no failure of WeChat adds, loses or repeats one          *)
(* (route_contact_notify.cpp:154, wx_work_api.cpp:98), but for the look-up *)
(* that throws: it ends the process, and the message is never sent off but *)
(* counts as still with its worker.                                        *)
SentAsMeant ==
    /\ Cardinality(Carried) = Len(Wanted)
    /\ \A i \in 1..Len(Wanted) :
          Cardinality({s \in Carried : Fits(s, Wanted[i])}) = Cardinality({j \in 1..Len(Wanted) : Wanted[j] = Wanted[i]})

(* AnsweredAsMeant: the echo of a verification is given away to whoever    *)
(* signed it with the keys of the application, and to nobody else; every   *)
(* other request has the answer its sender can expect.                     *)
AnsweredAsMeant == \A i \in 1..Len(handled) : handled[i].resp \in handled[i].answers
=============================================================================
