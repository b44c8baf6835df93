--------------------------- MODULE AuthCheckProofs ---------------------------
(***************************************************************************)
(* For any brokers, users and configurations, and however often questions  *)
(* are asked and the service is restarted: the plugin accepts nobody whom  *)
(* no configuration in force grants.                                       *)
(***************************************************************************)
EXTENDS AuthCheck, TLAPS

\* A grant does not end while its question is open.
LEMMA GrantedKept ==
    ASSUME NEW n \in Nodes, Granted(n),
           conf'[n] = conf[n], check'[n] = check[n], inForce[n] \subseteq inForce'[n]
    PROVE  Granted(n)'
  BY DEF Granted

\* A response that lets the client in has a zero code.
LEMMA SuccessMeansZero ==
    ASSUME NEW r \in Responses, Success(ErrorOf(r))
    PROVE  r.code = 0
  BY DEF Success, ErrorOf, CodeIsZero, Failed, NoError

\* What a worker answers with a zero code, it has granted.
LEMMA ZeroIsGranted ==
    ASSUME TypeOK, Configured, PolicyNoted,
           NEW n \in Nodes, stage[n] = "arrived", up,
           NEW urlRead \in BOOLEAN, NEW bodyRead \in BOOLEAN,
           urlRead /\ conf[n][check[n].what] \in Whats,
           Reply(conf[n][check[n].what], check[n], bodyRead).code = 0
    PROVE  Granted(n)
<1>1. GrantedBy(conf[n][check[n].what], check[n], bodyRead)
  BY DEF Reply
<1>2. policy \in inForce[n]
  BY DEF PolicyNoted
<1>3. QED
  BY <1>1, <1>2 DEF GrantedBy, Granted

-----------------------------------------------------------------------------
LEMMA InitIInv == Init => IInv
  BY BoundsAssumption DEF Init, IInv, TypeOK, Configured, PolicyNoted, CodesAreEarned,
     NoReply, Responses, Silent

\* The steps of the plugin before a question is sent.
LEMMA AskSteps ==
    ASSUME IInv, NEW n \in Nodes, PluginInit(n) \/ AnswerLocally(n) \/ Ask(n)
    PROVE  IInv'
<1> USE ConfigsAssumption, BoundsAssumption, NoCheckAssumption
    DEF IInv, Configured, PolicyNoted, CodesAreEarned, serviceVars
<1>1. CASE PluginInit(n)
  <2>1. TypeOK'
    BY <1>1 DEF PluginInit, TypeOK
  <2>2. \A m \in Nodes : stage[m] # "idle" => conf'[m] = conf[m]
    BY <1>1 DEF PluginInit, TypeOK
  <2>3. \A m \in Nodes : stage[m] # "idle" /\ Granted(m) => Granted(m)'
    BY <1>1, <2>2, GrantedKept DEF PluginInit
  <2>4. QED
    BY <1>1, <2>1, <2>2, <2>3 DEF PluginInit, TypeOK
<1>2. CASE AnswerLocally(n)
  <2>1. \E error \in {Defer, NoError} : Tell(n, error)
    BY <1>2, Zenon DEF AnswerLocally
  <2>2. /\ asked < MaxChecks /\ asked' = asked + 1
        /\ UNCHANGED <<conf, check, stage, response, reply, inForce, policy, up, restarts>>
    BY <1>2, Zenon DEF AnswerLocally
  <2>3. verdict' \in [Nodes -> {"none", "accepted", "denied"}]
    BY <2>1 DEF Tell, TypeOK
  <2>4. TypeOK'
    BY <2>2, <2>3 DEF TypeOK
  <2>5. \A m \in Nodes : Granted(m) => Granted(m)'
    BY <2>2, GrantedKept
  <2>6. QED
    BY <2>2, <2>4, <2>5
<1>3. CASE Ask(n)
  <2>1. \E c \in Checks : check' = [check EXCEPT ![n] = c]
    BY <1>3, Zenon DEF Ask
  <2>2. \E garbage \in {0, 200} :
          response' = [response EXCEPT ![n] = [status |-> garbage, code |-> Silent]]
    BY <1>3, Zenon DEF Ask
  <2>3. /\ conf[n] # NoConfig /\ stage[n] = "idle" /\ asked < MaxChecks
        /\ stage' = [stage EXCEPT ![n] = "sending"]
        /\ verdict' = [verdict EXCEPT ![n] = "none"]
        /\ inForce' = [inForce EXCEPT ![n] = IF up THEN {policy} ELSE {}]
        /\ asked' = asked + 1
        /\ UNCHANGED <<conf, reply, policy, up, restarts>>
    BY <1>3, Zenon DEF Ask
  <2>4. TypeOK'
    BY <2>1, <2>2, <2>3 DEF TypeOK, Responses, Silent
  <2>5. \A m \in Nodes \ {n} : /\ stage'[m] = stage[m] /\ response'[m] = response[m]
                               /\ check'[m] = check[m] /\ inForce'[m] = inForce[m]
    BY <2>1, <2>2, <2>3 DEF TypeOK
  <2>6. \A m \in Nodes \ {n} : Granted(m) => Granted(m)'
    BY <2>3, <2>5, GrantedKept
  <2>7. /\ stage'[n] = "sending" /\ conf'[n] # NoConfig
        /\ response'[n].code # 0 /\ reply'[n].code # 0
        /\ up' => policy' \in inForce'[n]
    BY <2>2, <2>3 DEF TypeOK, Silent
  <2>8. QED
    BY <2>3, <2>4, <2>5, <2>6, <2>7
<1>4. QED
  BY <1>1, <1>2, <1>3

\* The steps of the exchange for an open question.
LEMMA ExchangeSteps ==
    ASSUME IInv, NEW n \in Nodes, Exchange(n) \/ Arrive(n) \/ Serve(n)
    PROVE  IInv'
<1> USE DEF IInv, Configured, PolicyNoted, CodesAreEarned, serviceVars
<1>1. CASE TransferFails(n)
  <2>1. TypeOK'
    BY <1>1 DEF TransferFails, MayFail, TypeOK, NoReply, Responses, Silent
  <2>2. \A m \in Nodes : Granted(m) => Granted(m)'
    BY <1>1, GrantedKept DEF TransferFails
  <2>3. QED
    BY <1>1, <2>1, <2>2 DEF TransferFails, MayFail, TypeOK, NoReply, Silent
<1>2. CASE HttpRespHandler(n)
  <2>1. TypeOK'
    BY <1>2 DEF HttpRespHandler, TypeOK, NoReply, Responses, Silent
  <2>2. \A m \in Nodes : Granted(m) => Granted(m)'
    BY <1>2, GrantedKept DEF HttpRespHandler
  <2>3. QED
    BY <1>2, <2>1, <2>2 DEF HttpRespHandler, TypeOK, NoReply, Silent
<1>3. CASE Conclude(n)
  <2>1. TypeOK'
    BY <1>3 DEF Conclude, Tell, CheckIsOver, TypeOK, NoReply, Responses, Silent
  <2>2. \A m \in Nodes \ {n} : Granted(m) => Granted(m)'
    BY <1>3, GrantedKept DEF Conclude, CheckIsOver, TypeOK
  <2>3. QED
    BY <1>3, <2>1, <2>2 DEF Conclude, TypeOK, NoReply, Silent
<1>4. CASE Arrive(n)
  <2>1. TypeOK'
    BY <1>4 DEF Arrive, TypeOK
  <2>2. \A m \in Nodes : Granted(m) => Granted(m)'
    BY <1>4, GrantedKept DEF Arrive
  <2>3. QED
    BY <1>4, <2>1, <2>2 DEF Arrive, TypeOK
<1>5. CASE Serve(n)
  <2>1. PICK urlRead \in BOOLEAN, bodyRead \in BOOLEAN :
          reply' = [reply EXCEPT ![n] =
              IF urlRead /\ conf[n][check[n].what] \in Whats
              THEN Reply(conf[n][check[n].what], check[n], bodyRead)
              ELSE NotFound]
    BY <1>5 DEF Serve
  <2>2. reply'[n] \in Responses
    BY <2>1 DEF TypeOK, Reply, NotFound, Responses, Silent
  <2>3. TypeOK'
    BY <1>5, <2>1, <2>2 DEF Serve, TypeOK
  <2>4. \A m \in Nodes : Granted(m) => Granted(m)'
    BY <1>5, GrantedKept DEF Serve
  <2>5. reply'[n].code = 0 => Granted(n)
    <3>1. SUFFICES ASSUME reply'[n].code = 0 PROVE Granted(n)
      OBVIOUS
    <3>2. NotFound.code # 0
      BY DEF NotFound, Silent
    <3>3. /\ urlRead /\ conf[n][check[n].what] \in Whats
          /\ Reply(conf[n][check[n].what], check[n], bodyRead).code = 0
      BY <2>1, <3>1, <3>2 DEF TypeOK
    <3>4. QED
      BY <1>5, <3>3, ZeroIsGranted DEF Serve
  <2>6. QED
    BY <1>5, <2>1, <2>3, <2>4, <2>5 DEF Serve, TypeOK
<1>6. QED
  BY <1>1, <1>2, <1>3, <1>4, <1>5 DEF Exchange

\* The service ends and comes back.
LEMMA ServiceSteps ==
    ASSUME IInv, ServiceStops \/ ServiceStarts
    PROVE  IInv'
<1> USE BoundsAssumption DEF IInv, Configured, PolicyNoted, CodesAreEarned
<1>1. CASE ServiceStops
  <2>1. TypeOK'
    BY <1>1 DEF ServiceStops, TypeOK
  <2>2. \A m \in Nodes : Granted(m) => Granted(m)'
    BY <1>1, GrantedKept DEF ServiceStops
  <2>3. QED
    BY <1>1, <2>1, <2>2 DEF ServiceStops
<1>2. CASE ServiceStarts
  <2>1. TypeOK'
    BY <1>2 DEF ServiceStarts, TypeOK
  <2>2. \A m \in Nodes : stage[m] # "idle" =>
          inForce[m] \subseteq inForce'[m] /\ policy' \in inForce'[m]
    BY <1>2 DEF ServiceStarts
  <2>3. \A m \in Nodes : stage[m] # "idle" /\ Granted(m) => Granted(m)'
    BY <1>2, <2>2, GrantedKept DEF ServiceStarts
  <2>4. QED
    BY <1>2, <2>1, <2>2, <2>3 DEF ServiceStarts
<1>3. QED
  BY <1>1, <1>2

LEMMA NextIInv == IInv /\ [Next]_vars => IInv'
<1>1. SUFFICES ASSUME IInv, [Next]_vars PROVE IInv'
  OBVIOUS
<1>2. CASE UNCHANGED vars
  BY <1>1, <1>2 DEF vars, IInv, TypeOK, Configured, PolicyNoted, CodesAreEarned, Granted
<1>3. CASE Next
  BY <1>1, <1>3, AskSteps, ExchangeSteps, ServiceSteps DEF Next
<1>4. QED
  BY <1>1, <1>2, <1>3

\* The inductive invariant holds in every behaviour of plugins and service.
THEOREM Invariance == Spec => []IInv
  BY InitIInv, NextIInv, PTL DEF Spec

\* The state of plugins, transfers and service is well typed, and a broker waits
\* exactly while it has a question.
THEOREM TypeCorrect == Spec => []TypeOK
<1>1. IInv => TypeOK
  BY DEF IInv
<1>2. QED
  BY <1>1, Invariance, PTL

\* CheckUser and CheckAcl fail closed: no client is let in unless a
\* configuration in force since the question was asked grants it.
THEOREM FailsClosed == Spec => []AcceptedByPolicy
<1>1. IInv => AcceptedByPolicy
  BY SuccessMeansZero DEF IInv, TypeOK, CodesAreEarned, AcceptedByPolicy
<1>2. QED
  BY <1>1, Invariance, PTL

-----------------------------------------------------------------------------
(* What mosquitto is told.                                                 *)

\* While a question is open, the answer to the one before it is forgotten.
OpenIsSilent ==
    \A n \in Nodes : stage[n] # "idle" => verdict[n] = "none"

\* A client whose question was sent is accepted by no step but the one that ends
\* the exchange, and by that one only if the service has granted it.
Earned ==
    \A n \in Nodes :
        stage[n] # "idle" /\ verdict'[n] = "accepted" => stage[n] = "done" /\ Granted(n)
AcceptedWhenGranted == [][Earned]_vars

LEMMA SilentStep ==
    ASSUME IInv, OpenIsSilent, [Next]_vars
    PROVE  OpenIsSilent' /\ Earned
<1> USE DEF OpenIsSilent, Earned
<1>0. /\ stage \in [Nodes -> {"idle", "sending", "arrived", "replied", "done"}]
      /\ verdict \in [Nodes -> {"none", "accepted", "denied"}]
  BY DEF IInv, TypeOK
<1>1. ASSUME NEW n \in Nodes, Ask(n) PROVE OpenIsSilent' /\ Earned
  <2>1. /\ stage[n] = "idle"
        /\ stage' = [stage EXCEPT ![n] = "sending"]
        /\ verdict' = [verdict EXCEPT ![n] = "none"]
    BY <1>1, Zenon DEF Ask
  <2> QED BY <1>0, <2>1
<1>2. ASSUME NEW n \in Nodes, AnswerLocally(n) PROVE OpenIsSilent' /\ Earned
  <2>1. stage[n] = "idle" /\ UNCHANGED stage
    BY <1>2, Zenon DEF AnswerLocally
  <2>2. \E error \in {Defer, NoError} : Tell(n, error)
    BY <1>2 DEF AnswerLocally
  <2>3. \A m \in Nodes \ {n} : verdict'[m] = verdict[m]
    BY <1>0, <2>2 DEF Tell
  <2> QED BY <1>0, <2>1, <2>3
<1>3. ASSUME NEW n \in Nodes, Conclude(n) PROVE OpenIsSilent' /\ Earned
  <2>1. /\ stage[n] = "done"
        /\ stage' = [stage EXCEPT ![n] = "idle"]
        /\ verdict' = [verdict EXCEPT ![n] = IF Success(ErrorOf(response[n]))
                                              THEN "accepted" ELSE "denied"]
    BY <1>3 DEF Conclude, Tell
  <2>2. verdict'[n] = "accepted" => Success(ErrorOf(response[n]))
    BY <1>0, <2>1
  <2>3. Success(ErrorOf(response[n])) => Granted(n)
    BY <2>1, SuccessMeansZero DEF IInv, TypeOK, CodesAreEarned
  <2>4. \A m \in Nodes \ {n} : verdict'[m] = verdict[m] /\ stage'[m] = stage[m]
    BY <1>0, <2>1
  <2> QED BY <1>0, <2>1, <2>2, <2>3, <2>4
\* The other steps tell mosquitto nothing and open no question.
<1>4. ASSUME UNCHANGED verdict,
             \A n \in Nodes : stage'[n] # "idle" => stage[n] # "idle"
      PROVE  OpenIsSilent' /\ Earned
  BY <1>4
<1>5. ASSUME NEW n \in Nodes, \/ PluginInit(n) \/ TransferFails(n) \/ HttpRespHandler(n)
                              \/ Arrive(n) \/ Serve(n)
      PROVE  OpenIsSilent' /\ Earned
  <2>1. UNCHANGED verdict
    BY <1>5, Zenon DEF PluginInit, TransferFails, HttpRespHandler, Arrive, Serve
  <2>2. \/ UNCHANGED stage
        \/ stage[n] # "idle" /\ \E s \in {"arrived", "replied", "done"} :
                                   stage' = [stage EXCEPT ![n] = s]
    BY <1>5 DEF PluginInit, TransferFails, MayFail, HttpRespHandler, Arrive, Serve
  <2>3. \A m \in Nodes : stage'[m] # "idle" => stage[m] # "idle"
    BY <1>0, <2>2
  <2> QED BY <1>4, <2>1, <2>3
<1>6. CASE ServiceStops \/ ServiceStarts \/ UNCHANGED vars
  <2>1. UNCHANGED verdict /\ \A m \in Nodes : stage'[m] # "idle" => stage[m] # "idle"
    BY <1>0, <1>6 DEF ServiceStops, ServiceStarts, vars
  <2> QED BY <1>4, <2>1
<1> QED BY <1>1, <1>2, <1>3, <1>5, <1>6 DEF Next, Exchange

\* No step of plugin, transfer or service lets a client in while its question is
\* open, and the one that ends the exchange does so only on a granted answer: an
\* earlier verdict is not repeated for a later question (CheckUser and CheckAcl,
\* mosquitto_plugin.cpp).
THEOREM AnswersAreEarned == Spec => AcceptedWhenGranted
<1>1. Init => OpenIsSilent
  BY DEF Init, OpenIsSilent
<1>2. IInv /\ OpenIsSilent /\ [Next]_vars => OpenIsSilent' /\ [Earned]_vars
  BY SilentStep
<1>3. QED
  BY <1>1, <1>2, Invariance, PTL DEF Spec, AcceptedWhenGranted
=============================================================================
