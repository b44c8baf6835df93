----------------------------- MODULE AuthCheck -----------------------------
(***************************************************************************)
(* One question of a broker from end to end: mosquitto calls the plugin,   *)
(* the plugin posts to the service, a worker of the service answers, and   *)
(* the plugin tells mosquitto whether the client may connect or publish.   *)
(* The transfer may fail on the way there or back, the request may arrive  *)
(* in pieces (see HttpRequest), and the service may stop and come back     *)
(* with another configuration.                                             *)
(***************************************************************************)
EXTENDS Integers, FiniteSets

CONSTANTS
    Nodes,         \* brokers; each asks one question at a time
    Credentials,   \* pairs of a user name and a password
    Policies,      \* configurations of the service
    Configs,       \* configurations of the plugin
    NoConfig, NoCheck, NoOne,
    MaxChecks,     \* bound on the questions asked
    MaxRestarts    \* bound on the restarts of the service

Whats == {"checkuser", "checkacl"}
Urls == Whats \union {"", "elsewhere"}

ASSUME BoundsAssumption == MaxChecks \in Nat /\ MaxRestarts \in Nat
ASSUME ConfigsAssumption ==
    /\ \A c \in Configs : c \in [Whats -> Urls]
    /\ NoConfig \notin Configs
ASSUME PoliciesAssumption ==
    \A pol \in Policies : /\ pol.trust \in Credentials \union {NoOne}
                          /\ pol.prefixed \subseteq Credentials
ASSUME NoOneAssumption == NoOne \notin Credentials

Failed == -1
NoError == 0
Defer == 1

VARIABLES
    conf,      \* the urls a plugin has loaded
    check,     \* the question a broker waits for
    stage,     \* where the exchange for it is
    response,  \* HttpWrapper's response_: status code and the code in the body
    reply,     \* the answer of the service, not yet received
    policy,    \* the configuration the service has loaded
    up,        \* the service runs
    verdict,   \* what mosquitto was told last
    inForce,   \* the policies in force since the question was asked
    asked, restarts
vars == <<conf, check, stage, response, reply, policy, up, verdict, inForce, asked, restarts>>
serviceVars == <<policy, up, restarts>>

\* What the plugin is asked: to check a user or an access, of a client whose id
\* starts with mosqcluster or not.
Checks == [what : Whats, proxy : BOOLEAN, cred : Credentials]
ASSUME NoCheckAssumption == NoCheck \notin Checks

Silent == -2  \* stands for a body without an integer "code"
Responses == [status : {0, 200, 404}, code : {0, -1, Silent}]
NoReply == [status |-> 0, code |-> Silent]

Init ==
    /\ conf = [n \in Nodes |-> NoConfig]
    /\ check = [n \in Nodes |-> NoCheck]
    /\ stage = [n \in Nodes |-> "idle"]
    /\ response = [n \in Nodes |-> NoReply]
    /\ reply = [n \in Nodes |-> NoReply]
    /\ policy \in Policies
    /\ up = TRUE
    /\ verdict = [n \in Nodes |-> "none"]
    /\ inForce = [n \in Nodes |-> {}]
    /\ asked = 0 /\ restarts = 0

-----------------------------------------------------------------------------
(* The plugin.                                                             *)

\* The configuration is read once; a reload only remembers the file's name.
PluginInit(n) ==
    /\ conf[n] = NoConfig
    /\ \E c \in Configs : conf' = [conf EXCEPT ![n] = c]
    /\ UNCHANGED <<check, stage, response, reply, verdict, inForce, asked, serviceVars>>

\* The hooks of mosquitto succeed for NoError and for Defer.
Success(error) == error >= 0

Tell(n, error) ==
    verdict' = [verdict EXCEPT ![n] = IF Success(error) THEN "accepted" ELSE "denied"]

\* The checks that end before anything is sent: no url is configured, or the
\* client is a monitor of the cluster.
AnswerLocally(n) ==
    /\ conf[n] # NoConfig /\ stage[n] = "idle" /\ asked < MaxChecks
    /\ \E c \in Checks :
          \/ conf[n][c.what] = "" /\ Tell(n, Defer)
          \/ conf[n][c.what] # "" /\ c.proxy /\ Tell(n, NoError)
    /\ asked' = asked + 1
    /\ UNCHANGED <<conf, check, stage, response, reply, inForce, serviceVars>>

\* CheckUser or CheckAcl calls HttpPost.  The status code of a new response is
\* not initialised, its body is empty.
Ask(n) ==
    /\ conf[n] # NoConfig /\ stage[n] = "idle" /\ asked < MaxChecks
    /\ \E c \in Checks :
          /\ conf[n][c.what] # "" /\ ~c.proxy
          /\ check' = [check EXCEPT ![n] = c]
    /\ \E garbage \in {0, 200} :
          response' = [response EXCEPT ![n] = [status |-> garbage, code |-> Silent]]
    /\ stage' = [stage EXCEPT ![n] = "sending"]
    /\ verdict' = [verdict EXCEPT ![n] = "none"]
    /\ inForce' = [inForce EXCEPT ![n] = IF up THEN {policy} ELSE {}]
    /\ asked' = asked + 1
    /\ UNCHANGED <<conf, reply, serviceVars>>

\* A transfer without CURLOPT_TIMEOUT.
FailsWithoutTimeout(n) == stage[n] = "sending"
MayFail(n) == stage[n] \in {"sending", "arrived", "replied"}

\* curl_easy_perform fails, at the latest when the timeout has passed: the
\* callback is not called and the response stays as it was.
TransferFails(n) ==
    /\ MayFail(n)
    /\ stage' = [stage EXCEPT ![n] = "done"]
    /\ reply' = [reply EXCEPT ![n] = NoReply]
    /\ UNCHANGED <<conf, check, response, verdict, inForce, asked, serviceVars>>

\* curl_easy_perform succeeds and HttpRespHandler stores the answer.
HttpRespHandler(n) ==
    /\ stage[n] = "replied"
    /\ response' = [response EXCEPT ![n] = reply[n]]
    /\ reply' = [reply EXCEPT ![n] = NoReply]
    /\ stage' = [stage EXCEPT ![n] = "done"]
    /\ UNCHANGED <<conf, check, verdict, inForce, asked, serviceVars>>

\* A body without a code leaves the variable as it was initialised, to zero.
CodeWithDefault(r) == r.code # -1
CodeIsZero(r) == r.code = 0

ErrorOf(r) == IF r.status = 200 /\ CodeIsZero(r) THEN NoError ELSE Failed

CheckIsOver(n) == check' = [check EXCEPT ![n] = NoCheck]

\* Post returns, the body is parsed and mosquitto has its answer; the wrapper
\* goes out of scope.
Conclude(n) ==
    /\ stage[n] = "done"
    /\ Tell(n, ErrorOf(response[n]))
    /\ stage' = [stage EXCEPT ![n] = "idle"]
    /\ CheckIsOver(n)
    /\ response' = [response EXCEPT ![n] = NoReply]
    /\ inForce' = [inForce EXCEPT ![n] = {}]
    /\ UNCHANGED <<conf, reply, asked, serviceVars>>

-----------------------------------------------------------------------------
(* The service.                                                            *)

\* MosquittoContextManager::CheckUser: the trusted user, or a name that starts
\* with the trusted prefix.
CheckUser(pol, cred) == cred = pol.trust \/ cred \in pol.prefixed

\* MosquittoContextManager::CheckAcl.
CheckAcl == TRUE

\* The route for url answers the question c; "read" says whether the body was
\* read completely.  A route that misses one of its fields does not grant.
GrantedBy(url, c, read) ==
    /\ read /\ url = c.what
    /\ IF url = "checkuser" THEN CheckUser(policy, c.cred) ELSE CheckAcl

Reply(url, c, read) ==
    [status |-> 200, code |-> IF GrantedBy(url, c, read) THEN 0 ELSE -1]

NotFound == [status |-> 404, code |-> Silent]

\* The request has been read by the service.
Arrive(n) ==
    /\ stage[n] = "sending" /\ up
    /\ stage' = [stage EXCEPT ![n] = "arrived"]
    /\ UNCHANGED <<conf, check, response, reply, verdict, inForce, asked, serviceVars>>

\* A worker runs the route.  Of a url or a body that arrived in pieces it has
\* the last piece only.
Serve(n) ==
    /\ stage[n] = "arrived" /\ up
    /\ \E urlRead, bodyRead \in BOOLEAN :
          reply' = [reply EXCEPT ![n] =
              IF urlRead /\ conf[n][check[n].what] \in Whats
              THEN Reply(conf[n][check[n].what], check[n], bodyRead)
              ELSE NotFound]
    /\ stage' = [stage EXCEPT ![n] = "replied"]
    /\ UNCHANGED <<conf, check, response, verdict, inForce, asked, serviceVars>>

\* The service ends; the requests it has not answered fail.
ServiceStops ==
    /\ up
    /\ up' = FALSE
    /\ stage' = [n \in Nodes |-> IF stage[n] = "arrived" THEN "done" ELSE stage[n]]
    /\ UNCHANGED <<conf, check, response, reply, policy, verdict, inForce, asked, restarts>>

\* The service is started again, perhaps with another configuration.
ServiceStarts ==
    /\ ~up /\ restarts < MaxRestarts
    /\ up' = TRUE
    /\ policy' \in Policies
    /\ restarts' = restarts + 1
    /\ inForce' = [n \in Nodes |-> IF stage[n] = "idle" THEN {} ELSE inForce[n] \union {policy'}]
    /\ UNCHANGED <<conf, check, stage, response, reply, verdict, asked>>

-----------------------------------------------------------------------------
Exchange(n) == TransferFails(n) \/ HttpRespHandler(n) \/ Conclude(n)

Next ==
    \/ \E n \in Nodes : \/ PluginInit(n) \/ AnswerLocally(n) \/ Ask(n) \/ Exchange(n)
                        \/ Arrive(n) \/ Serve(n)
    \/ ServiceStops \/ ServiceStarts

Spec == Init /\ [][Next]_vars

\* The broker's thread is inside HttpPost, which returns after at most thirty
\* seconds; nothing is assumed of the service.
FairSpec == Spec /\ \A n \in Nodes : WF_vars(Exchange(n))

-----------------------------------------------------------------------------
(* Properties.                                                             *)

\* Types, and a broker waits exactly while it has a question.
TypeOK ==
    /\ conf \in [Nodes -> Configs \union {NoConfig}]
    /\ check \in [Nodes -> Checks \union {NoCheck}]
    /\ stage \in [Nodes -> {"idle", "sending", "arrived", "replied", "done"}]
    /\ response \in [Nodes -> Responses] /\ reply \in [Nodes -> Responses]
    /\ policy \in Policies /\ up \in BOOLEAN
    /\ verdict \in [Nodes -> {"none", "accepted", "denied"}]
    /\ inForce \in [Nodes -> SUBSET Policies]
    /\ asked \in 0..MaxChecks /\ restarts \in 0..MaxRestarts
    /\ \A n \in Nodes : check[n] = NoCheck <=> stage[n] = "idle"

\* The question of n went to its own route, and a configuration in force since
\* it was asked grants it.
Granted(n) ==
    /\ conf[n][check[n].what] = check[n].what
    /\ check[n].what = "checkuser" =>
          \E pol \in inForce[n] : CheckUser(pol, check[n].cred)

\* The plugin fails closed: when it is about to accept a client it had to ask
\* about, the service has read the whole question, at the right route, and a
\* configuration in force since the question was asked grants it.  A failed
\* transfer, a lost answer, a request cut in two or a status code that was
\* never written cannot lead there.
AcceptedByPolicy ==
    \A n \in Nodes :
        (stage[n] = "done" /\ Success(ErrorOf(response[n]))) => Granted(n)

\* A plugin asks only with the urls it has loaded.
Configured ==
    \A n \in Nodes : stage[n] # "idle" => conf[n] # NoConfig

\* While a question is open, the configuration the service runs with counts
\* among those in force.
PolicyNoted ==
    \A n \in Nodes : stage[n] # "idle" /\ up => policy \in inForce[n]

\* A zero code is in a response only after the service has granted the
\* question it answers, and an earlier answer is never left over.
CodesAreEarned ==
    \A n \in Nodes :
        /\ reply[n].code = 0 => stage[n] = "replied" /\ Granted(n)
        /\ response[n].code = 0 => stage[n] = "done" /\ Granted(n)

\* The inductive invariant behind AcceptedByPolicy.
IInv == TypeOK /\ Configured /\ PolicyNoted /\ CodesAreEarned

\* A broker is never stuck in a check, even if the service never answers.
EveryCheckEnds ==
    \A n \in Nodes : stage[n] # "idle" ~> stage[n] = "idle"
=============================================================================
