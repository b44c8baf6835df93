------------------------------- MODULE Cluster -------------------------------
(***************************************************************************)
(* The cluster that mosquitto_cluster_plugin builds out of brokers, as     *)
(* ClusterPluginContext, MosqClusterMonitor and the join route of the      *)
(* authentication service build it together.                               *)
(*                                                                         *)
(* Each broker loads the plugin, which posts its name to the service, gets *)
(* the names known there, and starts one monitor (a MosqClient) per peer.  *)
(* A monitor connected to a peer subscribes there to the join topic,       *)
(* announces its own node on it, and forwards to the peer what ordinary    *)
(* clients publish at home.                                                *)
(*                                                                         *)
(* The brokers' session handling is external: a session belongs to a       *)
(* client id, and a second connection with that id takes it over.  A       *)
(* monitor is reduced to what MosqClient shows of it: connects, a FIFO of  *)
(* commands each run once, and the loss of those run without a connection. *)
(***************************************************************************)
EXTENDS Naturals, Sequences, FiniteSets

CONSTANTS Nodes,        \* node names, each the address of one broker
          Configured,   \* the nodes whose configuration has api-join
          Messages,     \* what ordinary clients publish, each once
          QoS0,         \* the messages they publish with QoS 0
          Limits        \* the bounds a behaviour may have: started, the nodes
                        \* that are started; published, the messages that are
                        \* published; the connections the monitors make; the
                        \* crashes of brokers; the restarts of the service

ASSUME ConfiguredAssumption == Configured \subseteq Nodes
ASSUME QoSAssumption == QoS0 \subseteq Messages
ASSUME LimitsAssumption ==
    Limits \subseteq [started : SUBSET Nodes, published : SUBSET Messages,
                      connects : Nat, crashes : Nat, restarts : Nat]

VARIABLES
    limits,         \* the bounds of this behaviour
    \* the plugin context of each broker
    phase,          \* where mosquitto_auth_plugin_init is; "up" once it returned
    todo,           \* names of the join reply not yet handled
    cluster_nodes,  \* the list cluster_nodes_: names in order
    \* the monitors
    running,        \* pairs <<i, j>> whose PublishLoop has seen Running
    cmds,           \* cmds[i][j]: commands_ of i's client for j
    kept,           \* external: what the libraries keep, QoS 1 or 2, to send
                    \* it when there is a connection; of a monitor's
                    \* announcements, which are all alike, one stands for all
    unacked,        \* external: what they have sent on the present connection
                    \* and the peer has not acknowledged
    \* the service
    registry,       \* the keys of mosquitto_instances_
    epoch,          \* how often the service has been started
    \* the brokers
    sessions,       \* external: records [broker, cid, node]
    subs,           \* external: the sessions subscribed to the join topic
    got,            \* got[b][m]: how often m was published at broker b
    \* histories and counters of the bounded events
    joinedIn,       \* joinedIn[i]: the epoch that registered i, 0 if none
    answered,       \* answered[i]: the names in the reply i received
    home,           \* home[m]: the broker m was published at; {} before that
    reach,          \* reach[m]: the peers of that broker when m was published
    connects, crashes

pluginVars  == <<limits, phase, todo, cluster_nodes>>
heldVars    == <<kept, unacked>>
monitorVars == <<running, cmds, heldVars>>
serviceVars == <<registry, epoch>>
brokerVars  == <<sessions, subs, got>>
messageVars == <<home, reach>>
historyVars == <<joinedIn, answered, messageVars>>
vars == <<pluginVars, monitorVars, serviceVars, brokerVars, historyVars,
          connects, crashes>>

Names(list) == {list[k] : k \in 1..Len(list)}
Peers(i) == Names(cluster_nodes[i])

NoCommands == [j \in Nodes |-> <<>>]

Init == /\ limits \in Limits
        /\ phase = [i \in Nodes |-> "down"]
        /\ todo = [i \in Nodes |-> {}]
        /\ cluster_nodes = [i \in Nodes |-> <<>>]
        /\ running = {}
        /\ cmds = [i \in Nodes |-> NoCommands]
        /\ kept = {}
        /\ unacked = {}
        /\ registry = {}
        /\ epoch = 1
        /\ sessions = {}
        /\ subs = {}
        /\ got = [b \in Nodes |-> [m \in Messages |-> 0]]
        /\ joinedIn = [i \in Nodes |-> 0]
        /\ answered = [i \in Nodes |-> {}]
        /\ home = [m \in Messages |-> {}]
        /\ reach = [m \in Messages |-> {}]
        /\ connects = 0
        /\ crashes = 0

------------------------------------------------------------------------------
\* The service: RouteInitialize::Process

\* MosquittoContextManager::Initialize(node)
ServiceRegister(i) ==
    /\ phase[i] = "joining"
    /\ registry' = registry \cup {i}
    /\ joinedIn' = [joinedIn EXCEPT ![i] = epoch]
    /\ phase' = [phase EXCEPT ![i] = "registered"]
    /\ UNCHANGED <<limits, todo, cluster_nodes, monitorVars, epoch, brokerVars, answered,
                   messageVars, connects, crashes>>

\* NodeNames(nodes): every name registered, or only those of running brokers.
RunningNodeNames == {j \in registry : phase[j] = "up"}
NodeNames == registry

\* The reply reaches the plugin with code 0.
ServiceReply(i) ==
    /\ phase[i] = "registered"
    /\ joinedIn[i] = epoch
    /\ todo' = [todo EXCEPT ![i] = NodeNames]
    /\ answered' = [answered EXCEPT ![i] = NodeNames]
    /\ phase' = [phase EXCEPT ![i] = "adding"]
    /\ UNCHANGED <<limits, cluster_nodes, monitorVars, serviceVars, brokerVars, joinedIn,
                   messageVars, connects, crashes>>

\* The service keeps its nodes in memory only; open requests die with it.
ServiceRestart ==
    /\ epoch <= limits.restarts
    /\ epoch' = epoch + 1
    /\ registry' = {}
    /\ UNCHANGED <<pluginVars, monitorVars, brokerVars, historyVars, connects, crashes>>

------------------------------------------------------------------------------
\* The plugin in broker i: mosquitto_auth_plugin_init calls Initialize

\* Read the configuration and post the name.  Without api-join the post fails.
Initialize(i) ==
    /\ phase[i] = "down"
    /\ i \in limits.started
    /\ phase' = [phase EXCEPT ![i] = IF i \in Configured THEN "joining" ELSE "up"]
    /\ UNCHANGED <<limits, todo, cluster_nodes, monitorVars, serviceVars, brokerVars, historyVars,
                   connects, crashes>>

\* No answer, no 200, or no code 0, before or after the registration: the
\* broker comes up without peers.
JoinFails(i) ==
    /\ phase[i] \in {"joining", "registered"}
    /\ phase' = [phase EXCEPT ![i] = "up"]
    /\ joinedIn' = [joinedIn EXCEPT ![i] = 0]
    /\ UNCHANGED <<limits, todo, cluster_nodes, monitorVars, serviceVars, brokerVars, answered,
                   messageVars, connects, crashes>>

\* MaintainProxyInstances(name), one critical section of lock_: a name that
\* is not in the list gets a client, which is started, and joins the tail.
MaintainProxyInstances(list, name) ==
    IF name \in Names(list) THEN list ELSE Append(list, name)

\* The loop without its test for the node's own name.
AddEveryName(i) ==
    /\ phase[i] = "adding"
    /\ \E name \in todo[i] :
          /\ todo' = [todo EXCEPT ![i] = @ \ {name}]
          /\ cluster_nodes' = [cluster_nodes EXCEPT ![i] = MaintainProxyInstances(@, name)]
    /\ UNCHANGED <<limits, phase, monitorVars, serviceVars, brokerVars, historyVars, connects,
                   crashes>>

\* One turn of the loop in MaintainProxyInstances(nodes).
AddPeer(i) ==
    /\ phase[i] = "adding"
    /\ \E name \in todo[i] :
          /\ todo' = [todo EXCEPT ![i] = @ \ {name}]
          /\ cluster_nodes' =
                IF name = i THEN cluster_nodes
                ELSE [cluster_nodes EXCEPT ![i] = MaintainProxyInstances(@, name)]
    /\ UNCHANGED <<limits, phase, monitorVars, serviceVars, brokerVars, historyVars, connects,
                   crashes>>

InitializeReturns(i) ==
    /\ phase[i] = "adding"
    /\ todo[i] = {}
    /\ phase' = [phase EXCEPT ![i] = "up"]
    /\ UNCHANGED <<limits, todo, cluster_nodes, monitorVars, serviceVars, brokerVars, historyVars,
                   connects, crashes>>

\* External: what the libraries have sent on connections that end is kept for
\* the next ones, since the peers have not acknowledged it.
KeepUnacked(ended) ==
    /\ kept' = kept \cup ended
    /\ unacked' = unacked \ ended

\* The broker process ends, with everything the plugin holds, and its
\* connections in both directions; it may be started again.
Crash(i) ==
    /\ phase[i] # "down"
    /\ crashes < limits.crashes
    /\ crashes' = crashes + 1
    /\ phase' = [phase EXCEPT ![i] = "down"]
    /\ todo' = [todo EXCEPT ![i] = {}]
    /\ cluster_nodes' = [cluster_nodes EXCEPT ![i] = <<>>]
    /\ running' = {p \in running : p[1] # i}
    /\ kept' = {h \in kept : h.node # i} \cup {h \in unacked : h.node # i /\ h.broker = i}
    /\ unacked' = {h \in unacked : h.node # i /\ h.broker # i}
    /\ cmds' = [cmds EXCEPT ![i] = NoCommands]
    /\ sessions' = {s \in sessions : s.broker # i /\ s.node # i}
    /\ subs' = {s \in subs : s.broker # i /\ s.node # i}
    /\ joinedIn' = [joinedIn EXCEPT ![i] = 0]
    /\ answered' = [answered EXCEPT ![i] = {}]
    /\ UNCHANGED <<limits, serviceVars, got, messageVars, connects>>

------------------------------------------------------------------------------
\* The monitors

\* A client id that tells the monitors of different nodes apart.
ClientIdOfPair(i, j) == <<"mosqcluster", i, j>>

\* "mosqcluster/" and the hash of the peer's name.
ClientId(i, j) == <<"mosqcluster", j>>

OrdinaryClient == <<"client">>

\* clientid.find("mosqcluster") == 0, and the test left out.
NobodyIsProxy(cid) == FALSE
IsProxyClient(cid) == cid[1] = "mosqcluster"

Session(i, j) == [broker |-> j, cid |-> ClientId(i, j), node |-> i]

\* i's monitor connects to broker j, which ends the session that holds the
\* same client id; on_connect queues the subscription and the announcement.
Connect(i, j) ==
    /\ j \in Peers(i)
    /\ phase[j] = "up"
    /\ Session(i, j) \notin sessions
    /\ connects < limits.connects
    /\ connects' = connects + 1
    /\ LET stays(s) == ~(s.broker = j /\ s.cid = ClientId(i, j))
       IN  /\ sessions' = {s \in sessions : stays(s)} \cup {Session(i, j)}
           /\ subs' = {s \in subs : stays(s)}
    /\ KeepUnacked({h \in unacked : h.broker = j /\ ClientId(h.node, j) = ClientId(i, j)})
    /\ running' = running \cup {<<i, j>>}
    /\ cmds' = [cmds EXCEPT ![i][j] = @ \o <<[kind |-> "subscribe", body |-> i],
                                             [kind |-> "announce", body |-> i]>>]
    /\ UNCHANGED <<pluginVars, serviceVars, got, historyVars, crashes>>

\* The connection between i's monitor and broker j breaks.
LinkLost(i, j) ==
    /\ Session(i, j) \in sessions
    /\ sessions' = sessions \ {Session(i, j)}
    /\ subs' = subs \ {Session(i, j)}
    /\ KeepUnacked({h \in unacked : h.node = i /\ h.broker = j})
    /\ UNCHANGED <<pluginVars, running, cmds, serviceVars, got, historyVars, connects,
                   crashes>>

\* Broker b delivers the announcement of name to every subscriber of the join
\* topic, and on_message passes it to MaintainProxyInstances unless it is the
\* subscriber's own.
DeliverAnnouncement(b, name) ==
    cluster_nodes' =
        [r \in Nodes |->
            IF r # name /\ \E s \in subs : s.broker = b /\ s.node = r
            THEN MaintainProxyInstances(cluster_nodes[r], name)
            ELSE cluster_nodes[r]]

\* mosquitto_auth_acl_check with MOSQ_ACL_WRITE, and MosqProxyPass: what an
\* ordinary client writes is queued for every peer.
MosqProxyPass(queues, b, cid, m) ==
    IF b \notin Configured \/ IsProxyClient(cid) THEN queues
    ELSE [queues EXCEPT ![b] = [j \in Nodes |->
            IF j \in Peers(b) THEN Append(@[j], [kind |-> "forward", body |-> m])
            ELSE @[j]]]

Popped(i, j) == [cmds EXCEPT ![i][j] = Tail(@)]

NextCommand(i, j, kind) ==
    /\ <<i, j>> \in running
    /\ cmds[i][j] # <<>>
    /\ Head(cmds[i][j]).kind = kind

\* External: mosquitto_subscribe, which needs a connection.
SubscribeAt(i, j) == IF Session(i, j) \in sessions THEN subs \cup {Session(i, j)} ELSE subs

RunSubscribe(i, j) ==
    /\ NextCommand(i, j, "subscribe")
    /\ cmds' = Popped(i, j)
    /\ subs' = SubscribeAt(i, j)
    /\ UNCHANGED <<pluginVars, running, heldVars, serviceVars, sessions, got, historyVars,
                   connects, crashes>>

Announcement(i) == [kind |-> "announce", body |-> i]
Forward(m) == [kind |-> "forward", body |-> m]

Connected(i, j) == Session(i, j) \in sessions
Held(i, j, command) == [node |-> i, broker |-> j, command |-> command]

\* External: libmosquitto sends a QoS 1 or 2 message if there is a connection;
\* in any case it has the message until it is acknowledged.
Hold(i, j, command) ==
    IF Connected(i, j)
    THEN unacked' = unacked \cup {Held(i, j, command)} /\ UNCHANGED kept
    ELSE kept' = kept \cup {Held(i, j, command)} /\ UNCHANGED unacked

\* The announcement has QoS 1.
RunAnnounce(i, j) ==
    /\ NextCommand(i, j, "announce")
    /\ cmds' = Popped(i, j)
    /\ Hold(i, j, Announcement(i))
    /\ IF Connected(i, j) THEN DeliverAnnouncement(j, i) ELSE UNCHANGED cluster_nodes
    /\ UNCHANGED <<limits, phase, todo, running, serviceVars, brokerVars, historyVars, connects,
                   crashes>>

\* Broker j publishes m, which i's monitor has sent, after its own plugin has
\* looked at it; queues are the commands then.
PeerPublishes(i, j, m, queues) ==
    /\ got' = [got EXCEPT ![j][m] = @ + 1]
    /\ cmds' = MosqProxyPass(queues, j, ClientId(i, j), m)

\* A forward has the QoS its message was published with.  With QoS 0 it is lost
\* where there is no connection.
RunForward(i, j) ==
    /\ NextCommand(i, j, "forward")
    /\ LET m == Head(cmds[i][j]).body
       IN  /\ IF Connected(i, j)
              THEN PeerPublishes(i, j, m, Popped(i, j))
              ELSE cmds' = Popped(i, j) /\ UNCHANGED got
           /\ IF m \in QoS0 THEN UNCHANGED heldVars ELSE Hold(i, j, Forward(m))
    /\ UNCHANGED <<pluginVars, running, serviceVars, sessions, subs, historyVars,
                   connects, crashes>>

\* External: on a new connection libmosquitto sends what it has kept, also what
\* the peer had published before the old one ended: the session was clean, so
\* the peer does not know it again.
Resend(i, j, h) ==
    /\ h \in kept
    /\ h.node = i /\ h.broker = j
    /\ Connected(i, j)
    /\ kept' = kept \ {h}
    /\ unacked' = unacked \cup {h}
    /\ IF h.command.kind = "announce"
       THEN DeliverAnnouncement(j, i) /\ UNCHANGED <<got, cmds>>
       ELSE PeerPublishes(i, j, h.command.body, cmds) /\ UNCHANGED cluster_nodes
    /\ UNCHANGED <<limits, phase, todo, running, serviceVars, sessions, subs, historyVars,
                   connects, crashes>>

\* External: PUBACK or PUBREC reaches the monitor.
Acknowledge(i, j, h) ==
    /\ h \in unacked
    /\ h.node = i /\ h.broker = j
    /\ unacked' = unacked \ {h}
    /\ UNCHANGED <<pluginVars, running, cmds, kept, serviceVars, brokerVars, historyVars,
                   connects, crashes>>

\* An ordinary client publishes m at broker b.
ClientPublish(b, m) ==
    /\ phase[b] = "up"
    /\ m \in limits.published
    /\ home[m] = {}
    /\ home' = [home EXCEPT ![m] = {b}]
    /\ reach' = [reach EXCEPT ![m] = Peers(b)]
    /\ got' = [got EXCEPT ![b][m] = @ + 1]
    /\ cmds' = MosqProxyPass(cmds, b, OrdinaryClient, m)
    /\ UNCHANGED <<pluginVars, running, heldVars, serviceVars, sessions, subs, joinedIn,
                   answered, connects, crashes>>

------------------------------------------------------------------------------
Plugin(i) == \/ Initialize(i) \/ ServiceRegister(i) \/ ServiceReply(i) \/ JoinFails(i)
             \/ AddPeer(i) \/ InitializeReturns(i) \/ Crash(i)

Monitor(i, j) == \/ Connect(i, j) \/ LinkLost(i, j) \/ RunSubscribe(i, j)
                 \/ RunAnnounce(i, j) \/ RunForward(i, j)
                 \/ \E h \in kept : Resend(i, j, h)
                 \/ \E h \in unacked : Acknowledge(i, j, h)

Next == \/ \E i \in Nodes : Plugin(i)
        \/ \E i, j \in Nodes : Monitor(i, j)
        \/ \E b \in Nodes, m \in Messages : ClientPublish(b, m)
        \/ ServiceRestart

Spec == Init /\ [][Next]_vars

------------------------------------------------------------------------------
HeldCommands == [kind : {"announce"}, body : Nodes] \cup [kind : {"forward"}, body : Messages]
CommandSet == [kind : {"subscribe"}, body : Nodes] \cup HeldCommands
HeldSet == [node : Nodes, broker : Nodes, command : HeldCommands]

TypeOK ==
    /\ phase \in [Nodes -> {"down", "joining", "registered", "adding", "up"}]
    /\ todo \in [Nodes -> SUBSET Nodes]
    /\ cluster_nodes \in [Nodes -> Seq(Nodes)]
    /\ running \subseteq Nodes \X Nodes
    /\ cmds \in [Nodes -> [Nodes -> Seq(CommandSet)]]
    /\ kept \subseteq HeldSet /\ unacked \subseteq HeldSet
    /\ registry \subseteq Nodes
    /\ limits \in Limits
    /\ epoch \in 1..(limits.restarts + 1)
    /\ sessions \subseteq {Session(p[1], p[2]) : p \in Nodes \X Nodes}
    /\ subs \subseteq sessions
    /\ got \in [Nodes -> [Messages -> Nat]]
    /\ joinedIn \in [Nodes -> 0..epoch]
    /\ answered \in [Nodes -> SUBSET Nodes]
    /\ home \in [Messages -> SUBSET Nodes]
    /\ reach \in [Messages -> SUBSET Nodes]
    /\ connects \in 0..limits.connects
    /\ crashes \in 0..limits.crashes

(* A node has at most one client per peer and none for itself, although the
   list is filled by the join reply and by the callbacks of running monitors. *)
OneClientPerPeer ==
    \A i \in Nodes :
        /\ i \notin Peers(i)
        /\ \A k, l \in 1..Len(cluster_nodes[i]) :
              cluster_nodes[i][k] = cluster_nodes[i][l] => k = l

(* Of two nodes that joined the same incarnation of the service, however their
   requests interleave, at least one has a client for the other. *)
PeersMeet ==
    \A i, j \in Nodes :
        /\ i # j
        /\ phase[i] = "up" /\ phase[j] = "up"
        /\ joinedIn[i] # 0 /\ joinedIn[i] = joinedIn[j]
        => j \in Peers(i) \/ i \in Peers(j)

(* All monitors at one broker share a client id, so they take the session from
   each other and an announcement finds no subscriber but its sender: a node
   learns of peers from the reply to its own join request alone. *)
PeersComeFromReply == \A i \in Nodes : Peers(i) \subseteq answered[i]

(* A forwarded message is not forwarded again, even when two nodes forward to
   each other: it is published at its own broker, there once, and at the peers
   of that broker.  With QoS 0 a peer publishes it once or never; with QoS 1 or
   2 perhaps again on every new connection of the monitor. *)
ForwardedToPeers ==
    \A b \in Nodes, m \in Messages :
        /\ got[b][m] > 0 => b \in home[m] \cup reach[m]
        /\ b \in home[m] => got[b][m] = 1
        /\ m \in QoS0 => got[b][m] <= 1

(* Seen by the clients, forwarding is a multicast: who may get a message is
   settled by the peers its broker has when it is published, its own broker has
   it once, a peer has a QoS 0 message at most once, and no peer learned of or
   lost later, nor any connection that breaks, changes that. *)
Group == INSTANCE Multicast WITH Once <- QoS0
ForwardingIsMulticast == Group!Spec
==============================================================================
