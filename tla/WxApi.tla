------------------------------- MODULE WxApi -------------------------------
(***************************************************************************)
(* Calls to WeChat Work that nobody waits for: the tasks of xauth, their   *)
(* queue and their workers.  The server of WeChat is external: it answers  *)
(* with one of Responses (what the JSON reader makes of the content; null  *)
(* for no or a useless answer).  An access token is one of Tokens, empty   *)
(* if none can be had (see TokenCache).                                    *)
(***************************************************************************)
EXTENDS Plugins

CONSTANTS Workers, Responses, Tokens

VARIABLES tasks,         (* the queue of async::worker_thread_pool          *)
          runs,          (* what a worker is running: a task and where it   *)
                         (* is in it, or idle                               *)
          posted,        (* the messages that were sent off                 *)
          alive          (* no exception has ended the process              *)
taskVars == <<tasks, runs, posted, alive>>

Free == [at |-> "free"]
TasksInit == tasks = <<>> /\ runs = [w \in Workers |-> Free] /\ posted = <<>> /\ alive = TRUE

ExternalContactNotify(action, corp, app, userid, external_userid) ==
    [is |-> "ExternalContactNotify", action |-> action, corp |-> corp, app |-> app,
     userid |-> userid, external_userid |-> external_userid]
(* async::Execute: a task for whoever of the workers is free.              *)
Execute(task) == tasks' = Append(tasks, task)
AsyncPostTask(message) == [is |-> "AsyncPostTask", message |-> message]

(* CorpInfo::GetAccessToken: nothing for an application that is unknown.   *)
AccessTokens(corp, app) == IF app \in DOMAIN corps[corp].apps_ THEN Tokens ELSE {<<>>}

(* JsonDocument::Get: a field that is no string is empty.  A document that *)
(* is no object throws, and nobody catches it.                             *)
Field(doc, key) == LET v == Json!GetString(doc, Str(key))
                   IN IF v = {} THEN <<>> ELSE Json!asString(CHOOSE x \in v : TRUE)
GetThrows(doc, key) == \E v \in Json!GetString(doc, Str(key)) : Json!Throws(v)

(* SendAppTextMessage: the task that sends a text to a user, with whatever *)
(* token there is.                                                         *)
TextMessage(corp, app, touser, content) ==
    LET d1 == SetString(SetString(Json!emptyObject, "touser", touser), "msgtype", Str("text"))
        d2 == Json!SetAt(d1, Str("agentid"), Json!IntValue(AppId(corps[corp], app)))
    IN AsyncPostTask(SetString(d2, "text.content", content))

-----------------------------------------------------------------------------
Take(w) ==
    /\ runs[w] = Free /\ tasks /= <<>>
    /\ runs' = [runs EXCEPT ![w] = [at |-> "run", task |-> Head(tasks)]]
    /\ tasks' = Tail(tasks) /\ UNCHANGED <<posted, alive>>

Runs(w, is, at) == runs[w].at = at /\ runs[w].task.is = is

(* GetExternalContact: no token, no call.                                  *)
AskForName(w) ==
    /\ Runs(w, "ExternalContactNotify", "run")
    /\ \E token \in AccessTokens(runs[w].task.corp, Str("external_contact")) :
       \E response \in IF token = <<>> THEN {Json!nullValue} ELSE Responses :
          IF GetThrows(response, "external_contact.name") THEN alive' = FALSE /\ UNCHANGED runs
          ELSE /\ runs' = [runs EXCEPT ![w] = [at |-> "send", task |-> @.task,
                                               wechat |-> Field(response, "external_contact.name")]]
               /\ UNCHANGED alive
    /\ UNCHANGED <<tasks, posted>>

(* Only where there is a name.                                             *)
SendNameOnceKnown(w) ==
    LET t == runs[w].task
    IN /\ Runs(w, "ExternalContactNotify", "send")
       /\ tasks' = IF runs[w].wechat = <<>> THEN tasks
                   ELSE Append(tasks, TextMessage(t.corp, Str("notify"), t.userid, t.action \o runs[w].wechat))
       /\ runs' = [runs EXCEPT ![w] = Free] /\ UNCHANGED <<posted, alive>>

(* The message goes to the user through the application "notify", whatever *)
(* the application of the event.                                           *)
SendName(w) ==
    LET t == runs[w].task
    IN /\ Runs(w, "ExternalContactNotify", "send")
       /\ Execute(TextMessage(t.corp, Str("notify"), t.userid, t.action \o runs[w].wechat))
       /\ runs' = [runs EXCEPT ![w] = Free] /\ UNCHANGED <<posted, alive>>

(* Whether WeChat takes it or not is logged, and nothing else.             *)
Post(w) ==
    /\ Runs(w, "AsyncPostTask", "run")
    /\ posted' = Append(posted, runs[w].task)
    /\ runs' = [runs EXCEPT ![w] = Free] /\ UNCHANGED <<tasks, alive>>

TasksNext == alive /\ \E w \in Workers : Take(w) \/ AskForName(w) \/ SendName(w) \/ Post(w)
=============================================================================
