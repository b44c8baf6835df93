------------------------------ MODULE MosqClient -----------------------------
(***************************************************************************)
(* MosqClient (mosquitto_cluster_plugin/mosq_client.cpp) with the callbacks *)
(* of MosqClusterMonitor: one MQTT connection to one peer broker, driven by *)
(* two threads.  SubscribeLoop connects, runs mosquitto_loop and, in it, the *)
(* callbacks; PublishLoop runs the commands other threads have queued.  Both *)
(* and Stop share the unprotected word state_.                             *)
(*                                                                         *)
(* commands_ is the TaskQueue, used here as the atomic FIFO queue that      *)
(* TaskQueueProofs shows it to be.  libmosquitto and the broker are         *)
(* external: link is the connection as they see it.                         *)
(***************************************************************************)
EXTENDS Naturals, Sequences

CONSTANTS DelayBase, DelayMax,  \* the arguments of mosqdelay
          MaxConnect,           \* bound: successful connection attempts
          MaxPublish            \* bound: messages MosqProxyPass publishes

ASSUME DelayAssumption == /\ DelayBase \in Nat \ {0}
                          /\ DelayMax \in Nat
                          /\ DelayBase <= DelayMax
ASSUME BoundsAssumption == MaxConnect \in Nat /\ MaxPublish \in Nat

VARIABLES state,        \* state_
          main,         \* the thread that calls Start and Stop
          sub,          \* where SubscribeLoop is
          pub,          \* where PublishLoop is
          delay,        \* mosqdelay::delay_
          count,        \* mosqdelay::count_
          link,         \* external: "down", "wait" (no CONNACK yet), "up"
          subscribed,   \* external: the broker holds the join subscription
          commands,     \* commands_
          command,      \* <<c>> while PublishLoop runs command c
          command_id,   \* command_id_
          drawn,        \* drawn[t]: the number that thread t has drawn and
                        \* not yet queued with its command, or 0
          connects, publishes,    \* counters of the bounded events
          ran           \* history: the commands run, in order

subVars == <<sub, delay, count>>
pubVars == <<pub, command, ran>>
netVars == <<link, subscribed, connects>>
cmdVars == <<commands, command_id, drawn>>
vars == <<state, main, subVars, pubVars, netVars, cmdVars, publishes>>

States == {"Stopped", "Running", "Reconnecting", "Stopping"}
Kinds == {"subscribe", "announce", "forward"}

\* The threads that give the client commands: the broker's, in MosqProxyPass, and
\* SubscribeLoop, in on_connect.
Callers == {"broker", "SubscribeLoop"}

Init == /\ state = "Stopped"
        /\ main = "new"
        /\ sub = "none"
        /\ pub = "none"
        /\ delay = DelayBase
        /\ count = 0
        /\ link = "down"
        /\ subscribed = FALSE
        /\ commands = <<>>
        /\ command = <<>>
        /\ command_id = 0
        /\ drawn = [t \in Callers |-> 0]
        /\ connects = 0
        /\ publishes = 0
        /\ ran = <<>>

------------------------------------------------------------------------------
\* Publish, Subscribe and Unsubscribe: next_command_id, one atomic addition, and
\* then Push.  No lock holds the two together, so another thread may draw the
\* next number and queue it first.
next_command_id(t) ==
    /\ drawn[t] = 0
    /\ command_id' = command_id + 1
    /\ drawn' = [drawn EXCEPT ![t] = command_id + 1]
    /\ UNCHANGED commands

Push(t, kind) ==
    /\ drawn[t] # 0
    /\ commands' = Append(commands, [id |-> drawn[t], by |-> t, kind |-> kind])
    /\ drawn' = [drawn EXCEPT ![t] = 0]
    /\ UNCHANGED command_id

\* MosqProxyPass publishes through this client.
ForwardNumber ==
    /\ main # "new"
    /\ main # "stopped"
    /\ publishes < MaxPublish
    /\ publishes' = publishes + 1
    /\ next_command_id("broker")
    /\ UNCHANGED <<state, main, subVars, pubVars, netVars>>

ForwardPush ==
    /\ Push("broker", "forward")
    /\ UNCHANGED <<state, main, subVars, pubVars, netVars, publishes>>

------------------------------------------------------------------------------
\* Start and Stop

Start ==
    /\ main = "new"
    /\ main' = "started"
    /\ sub' = "test"
    /\ pub' = "test"
    /\ UNCHANGED <<state, delay, count, command, ran, netVars, cmdVars,
                   publishes>>

Stop ==
    /\ main = "started"
    /\ state' = "Stopping"
    /\ main' = "joinPublish"
    /\ UNCHANGED <<subVars, pubVars, netVars, cmdVars, publishes>>

JoinPublish ==
    /\ main = "joinPublish"
    /\ pub = "end"
    /\ main' = "joinSubscribe"
    /\ UNCHANGED <<state, subVars, pubVars, netVars, cmdVars, publishes>>

JoinSubscribe ==
    /\ main = "joinSubscribe"
    /\ sub = "end"
    /\ state' = "Stopped"
    /\ link' = "down"
    /\ main' = "stopped"
    /\ UNCHANGED <<subVars, pubVars, subscribed, connects, cmdVars, publishes>>

------------------------------------------------------------------------------
\* SubscribeLoop

SubTest ==
    /\ sub = "test"
    /\ sub' = IF state # "Stopping" THEN "connect" ELSE "end"
    /\ UNCHANGED <<state, main, delay, count, pubVars, netVars, cmdVars,
                   publishes>>

\* mosquitto_connect until it has succeeded once, mosquitto_reconnect later
\* (the local reconnect tells which; to the client they do the same).  Both drop
\* the old connection; a clean session begins without subscriptions.
ConnectSucceeds ==
    /\ sub = "connect"
    /\ connects < MaxConnect
    /\ connects' = connects + 1
    /\ link' = "wait"
    /\ subscribed' = FALSE
    /\ sub' = "running"
    /\ UNCHANGED <<state, main, delay, count, pubVars, cmdVars, publishes>>

ConnectFails ==
    /\ sub = "connect"
    /\ link' = "down"
    /\ subscribed' = FALSE
    /\ sub' = "sleep"
    /\ UNCHANGED <<state, main, delay, count, connects, pubVars, cmdVars,
                   publishes>>

SetRunning ==
    /\ sub = "running"
    /\ state' = "Running"
    /\ sub' = "loop"
    /\ UNCHANGED <<main, delay, count, pubVars, netVars, cmdVars, publishes>>

\* What a callback of MosqClient does that MosqClusterMonitor does not override.
EmptyCallback == UNCHANGED <<state, main, delay, count, pubVars, cmdVars, publishes>>

\* The callbacks libmosquitto is given, mosq_on_connect and so on, call the
\* virtual functions of the client.  Of those the monitor overrides, on_connect
\* runs as steps of its own; what on_message does is in Cluster.
Callbacks == {"on_connect", "on_disconnect", "on_publish", "on_message", "on_subscribe",
              "on_unsubscribe", "on_log"}
Dispatch(callback) ==
    /\ sub' = IF callback = "on_connect" THEN "onConnect" ELSE "loopTest"
    /\ EmptyCallback

\* mosquitto_loop returns MOSQ_ERR_SUCCESS, whatever else it reads or sends.
LoopIdle ==
    /\ sub = "loop"
    /\ link # "down"
    /\ \E callback \in Callbacks \ {"on_connect"} : Dispatch(callback)
    /\ UNCHANGED netVars

\* mosquitto_loop reads CONNACK 0 and calls on_connect(0).
LoopConnack ==
    /\ sub = "loop"
    /\ link = "wait"
    /\ link' = "up"
    /\ Dispatch("on_connect")
    /\ UNCHANGED <<subscribed, connects>>

\* on_connect subscribes and then announces the node.
OnConnectNumber ==
    /\ sub \in {"onConnect", "onConnect2"}
    /\ next_command_id("SubscribeLoop")
    /\ UNCHANGED <<state, main, subVars, pubVars, netVars, publishes>>

\* on_connect that relies on the broker to remember the subscription.
OnConnectSubscribeOnce ==
    /\ sub = "onConnect"
    /\ IF connects = 1 THEN Push("SubscribeLoop", "subscribe") ELSE UNCHANGED cmdVars
    /\ sub' = "onConnect2"
    /\ UNCHANGED <<state, main, delay, count, pubVars, netVars, publishes>>

OnConnectSubscribe ==
    /\ sub = "onConnect"
    /\ Push("SubscribeLoop", "subscribe")
    /\ sub' = "onConnect2"
    /\ UNCHANGED <<state, main, delay, count, pubVars, netVars, publishes>>

OnConnectAnnounce ==
    /\ sub = "onConnect2"
    /\ Push("SubscribeLoop", "announce")
    /\ sub' = "loopTest"
    /\ UNCHANGED <<state, main, delay, count, pubVars, netVars, publishes>>

\* mosquitto_loop finds the connection gone and returns an error.
LoopError ==
    /\ sub = "loop"
    /\ link = "down"
    /\ sub' = "reconnecting"
    /\ UNCHANGED <<state, main, delay, count, pubVars, netVars, cmdVars,
                   publishes>>

LoopTest ==
    /\ sub = "loopTest"
    /\ sub' = IF state # "Stopping" THEN "loop" ELSE "reconnecting"
    /\ UNCHANGED <<state, main, delay, count, pubVars, netVars, cmdVars,
                   publishes>>

SetReconnecting ==
    /\ sub = "reconnecting"
    /\ state' = "Reconnecting"
    /\ sub' = "sleep"
    /\ UNCHANGED <<main, delay, count, pubVars, netVars, cmdVars, publishes>>

\* mosqdelay::get(): what it returns next.
NextDelay(d, n) ==
    IF d < DelayMax
    THEN IF d * (n + 1) * (n + 1) > DelayMax THEN DelayMax ELSE d * (n + 1) * (n + 1)
    ELSE DelayMax

Sleep ==
    /\ sub = "sleep"
    /\ delay' = NextDelay(delay, count)
    /\ count' = IF delay < DelayMax THEN count + 1 ELSE count
    /\ sub' = "test"
    /\ UNCHANGED <<state, main, pubVars, netVars, cmdVars, publishes>>

\* External: the connection ends, because of the network, a CONNACK that
\* refuses it (on_connect ignores rc # 0), the peer broker going away, or a
\* second session with the same client id.
LinkLost ==
    /\ link # "down"
    /\ link' = "down"
    /\ subscribed' = FALSE
    /\ UNCHANGED <<state, main, subVars, pubVars, connects, cmdVars, publishes>>

------------------------------------------------------------------------------
\* PublishLoop

\* The loop of PublishLoop without its condition.
PubTestNothing ==
    /\ pub = "test"
    /\ pub' = "testRunning"
    /\ UNCHANGED <<state, main, subVars, command, ran, netVars, cmdVars, publishes>>

PubTest ==
    /\ pub = "test"
    /\ pub' = IF state # "Stopping" THEN "testRunning" ELSE "end"
    /\ UNCHANGED <<state, main, subVars, command, ran, netVars, cmdVars, publishes>>

\* Not Running: sleep(1) and test again.
PubTestRunning ==
    /\ pub = "testRunning"
    /\ pub' = IF state # "Running" THEN "test" ELSE "get"
    /\ UNCHANGED <<state, main, subVars, command, ran, netVars, cmdVars, publishes>>

\* commands_.Get(command) blocks while the queue is empty ...
PubGet ==
    /\ pub = "get"
    /\ commands # <<>>
    /\ command' = <<Head(commands)>>
    /\ commands' = Tail(commands)
    /\ pub' = "run"
    /\ UNCHANGED <<state, main, subVars, ran, netVars, command_id, drawn, publishes>>

\* ... or returns false after a wake-up for nothing.
PubGetFalse ==
    /\ pub = "get"
    /\ commands = <<>>
    /\ pub' = "test"
    /\ UNCHANGED <<state, main, subVars, command, ran, netVars, cmdVars, publishes>>

\* The queue after command was run; a retrying client would put it back when
\* libmosquitto rejects it.
RequeueFailed == IF link = "down" THEN Append(commands, command[1]) ELSE commands
DropFailed == commands

\* The local pointer after delete.
DeletedCommand == <<>>

\* command->Run().  Without a connection libmosquitto answers
\* MOSQ_ERR_NO_CONN; whatever the answer, the command is deleted.
PubRun ==
    /\ pub = "run"
    /\ subscribed' = (subscribed \/ (link # "down" /\ command[1].kind = "subscribe"))
    /\ ran' = Append(ran, command[1])
    /\ commands' = DropFailed
    /\ command' = DeletedCommand
    /\ pub' = "test"
    /\ UNCHANGED <<state, main, subVars, link, connects, command_id, drawn, publishes>>

------------------------------------------------------------------------------
SubscribeLoop == \/ SubTest \/ ConnectSucceeds \/ ConnectFails \/ SetRunning
                 \/ LoopIdle \/ LoopConnack
                 \/ OnConnectNumber \/ OnConnectSubscribe \/ OnConnectAnnounce
                 \/ LoopError \/ LoopTest \/ SetReconnecting \/ Sleep

PublishLoop == PubTest \/ PubTestRunning \/ PubGet \/ PubGetFalse \/ PubRun

Next == \/ Start \/ Stop \/ JoinPublish \/ JoinSubscribe
        \/ SubscribeLoop \/ PublishLoop \/ ForwardNumber \/ ForwardPush \/ LinkLost

Spec == Init /\ [][Next]_vars

\* Both threads keep running and a call of libmosquitto returns.  Nothing is
\* owed by the thread of the broker, the network, the caller of Stop, or the scheduler of
\* wake-ups for nothing (PubGetFalse).
Fairness == /\ WF_vars(SubscribeLoop)
            /\ WF_vars(PubTest \/ PubTestRunning \/ PubGet \/ PubRun)
            /\ WF_vars(JoinPublish \/ JoinSubscribe)

FairSpec == Spec /\ Fairness

------------------------------------------------------------------------------
Commands == [id : Nat, by : Callers, kind : Kinds]

TypeOK ==
    /\ state \in States
    /\ main \in {"new", "started", "joinPublish", "joinSubscribe", "stopped"}
    /\ sub \in {"none", "test", "connect", "running", "loop", "onConnect", "onConnect2",
                "loopTest", "reconnecting", "sleep", "end"}
    /\ pub \in {"none", "test", "testRunning", "get", "run", "end"}
    /\ delay \in Nat
    /\ count \in Nat
    /\ link \in {"down", "wait", "up"}
    /\ subscribed \in BOOLEAN
    /\ commands \in Seq(Commands)
    /\ command \in Seq(Commands) /\ Len(command) = (IF pub = "run" THEN 1 ELSE 0)
    /\ command_id \in Nat
    /\ drawn \in [Callers -> Nat]
    /\ connects \in 0..MaxConnect
    /\ publishes \in 0..MaxPublish
    /\ ran \in Seq(Commands)

\* What PublishLoop has run, runs and will run.
Handed == ran \o command \o commands

(* No command is lost or run twice, whatever connects, disconnects and failures
   happen in between: each number given stands for one command, which has been
   run, is at hand, waits, or is just being queued.  The commands of one thread
   are run in the order it gave them; those of two threads may overtake each
   other between the drawing of the number and the queue. *)
EachThreadInOrder ==
    LET queued  == {Handed[k].id : k \in 1..Len(Handed)}
        drawing == {drawn[t] : t \in Callers} \ {0}
    IN  /\ queued \cup drawing = 1..command_id
        /\ queued \cap drawing = {}
        /\ \A k, l \in 1..Len(Handed) :
              k < l => /\ Handed[k].id # Handed[l].id
                       /\ Handed[k].by = Handed[l].by => Handed[k].id < Handed[l].id

(* The join subscription survives reconnects.  The session is clean, the
   subscribe command is dropped if the connection ends before PublishLoop runs
   it, and state_ is read before Get blocks; still, on a connection that stays
   up the broker ends up with the subscription. *)
SubscriptionIsRestored ==
    <>[](link = "up" /\ main = "started") => []<>subscribed

(* A Stop that finds the client between connections, with PublishLoop not
   parked in Get and the broker out of reach from then on, is heard by both
   threads and returns. *)
StopHeardWhileOffline ==
    /\ main = "joinPublish"
    /\ connects = MaxConnect
    /\ state = "Stopping"
    /\ sub \in {"test", "connect", "sleep"}
    /\ pub # "get"
    ~> main = "stopped"
==============================================================================
