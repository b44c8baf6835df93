---------------------------- MODULE ClusterProofs ----------------------------
(***************************************************************************)
(* For every set of nodes, whichever of them join, fail and are started    *)
(* again: who has a client for whom, from where it learned of it, and how  *)
(* often a message is published where.                                     *)
(***************************************************************************)
EXTENDS Cluster, SequenceTheorems, TLAPS

AllSessions == {Session(p[1], p[2]) : p \in Nodes \X Nodes}

\* The monitors at a broker share their client id.
OneSessionPerBroker == \A s, t \in sessions : s.broker = t.broker => s = t

\* The list is filled from the reply, behind the reply, and not before.
ListFromReply ==
    \A i \in Nodes :
        /\ todo[i] \subseteq answered[i]
        /\ Peers(i) \subseteq answered[i]
        /\ phase[i] # "adding" => todo[i] = {}
        /\ phase[i] \in {"down", "joining", "registered"} => cluster_nodes[i] = <<>>

\* Whoever has registered with the running service is known to it; of two whose
\* requests it has answered, one was in the answer to the other; and an answer is
\* in the list as far as the loop has come.
Replied(i) == phase[i] \in {"adding", "up"} /\ joinedIn[i] # 0
Registered ==
    \A i \in Nodes :
        /\ phase[i] \in {"down", "joining"} => joinedIn[i] = 0
        /\ joinedIn[i] = epoch => i \in registry
LaterReplyHasTheOther ==
    \A i, j \in Nodes :
        i # j /\ Replied(i) /\ Replied(j) /\ joinedIn[i] = joinedIn[j]
        => j \in answered[i] \/ i \in answered[j]
ReplyIsAdded ==
    \A i \in Nodes : Replied(i) => answered[i] \ {i} \subseteq todo[i] \cup Peers(i)

\* A message waits for a broker at most once, in one queue, and with QoS 0 not for
\* one that has published it; what a library holds is no QoS 0 message.  Either is
\* for a peer of the message's broker, never for that broker itself.
Unpublished ==
    \A m \in Messages : home[m] = {} =>
        /\ reach[m] = {}
        /\ \A i, j \in Nodes : got[j][m] = 0 /\ \A k \in 1..Len(cmds[i][j]) : cmds[i][j][k] # Forward(m)
WaitsOnce ==
    \A m \in Messages, j \in Nodes, i1, i2 \in Nodes :
        \A k1 \in 1..Len(cmds[i1][j]), k2 \in 1..Len(cmds[i2][j]) :
            cmds[i1][j][k1] = Forward(m) /\ cmds[i2][j][k2] = Forward(m) => i1 = i2 /\ k1 = k2
WaitsForPeer ==
    \A m \in Messages, i, j \in Nodes : \A k \in 1..Len(cmds[i][j]) :
        cmds[i][j][k] = Forward(m) => j \in reach[m] /\ (m \in QoS0 => got[j][m] = 0)
HeldForPeer ==
    \A m \in Messages : \A h \in kept \cup unacked :
        h.command = Forward(m) => m \notin QoS0 /\ h.broker \in reach[m]
HomeApart == \A m \in Messages : \A b \in home[m] : b \notin reach[m]

PeersInv == OneClientPerPeer /\ OneSessionPerBroker /\ ListFromReply
JoinInv == Registered /\ LaterReplyHasTheOther /\ ReplyIsAdded
WaitInv == Unpublished /\ WaitsOnce /\ WaitsForPeer /\ HomeApart /\ ForwardedToPeers
ForwardInv == WaitInv /\ HeldForPeer

IInv == TypeOK /\ PeersInv /\ JoinInv /\ ForwardInv

------------------------------------------------------------------------------
\* Helpers.

LEMMA SessionFields ==
    ASSUME NEW i \in Nodes, NEW j \in Nodes
    PROVE  /\ Session(i, j) \in AllSessions
           /\ Session(i, j).broker = j
           /\ Session(i, j).node = i
           /\ Session(i, j).cid = ClientId(i, j)
<1>1. <<i, j>> \in Nodes \X Nodes /\ <<i, j>>[1] = i /\ <<i, j>>[2] = j
  OBVIOUS
<1>2. Session(i, j) \in AllSessions
  BY <1>1 DEF AllSessions
<1> QED BY <1>2 DEF Session

LEMMA SessionOf ==
    ASSUME NEW s \in AllSessions
    PROVE  /\ s.broker \in Nodes /\ s.node \in Nodes
           /\ s = Session(s.node, s.broker)
           /\ s.cid = ClientId(s.node, s.broker)
<1>1. PICK p \in Nodes \X Nodes : s = Session(p[1], p[2])
  BY DEF AllSessions
<1>2. p[1] \in Nodes /\ p[2] \in Nodes
  BY <1>1
<1> QED BY <1>1, <1>2, SessionFields

\* A name that is there stays alone; a new one joins the tail.
LEMMA Maintained ==
    ASSUME NEW list \in Seq(Nodes), NEW name \in Nodes,
           \A k, l \in 1..Len(list) : list[k] = list[l] => k = l
    PROVE  LET new == MaintainProxyInstances(list, name)
           IN  /\ new \in Seq(Nodes)
               /\ Names(new) = Names(list) \cup {name}
               /\ \A k, l \in 1..Len(new) : new[k] = new[l] => k = l
<1>1. CASE name \in Names(list)
  BY <1>1 DEF MaintainProxyInstances
<1>2. CASE name \notin Names(list)
  <2> DEFINE new == Append(list, name)
  <2>1. MaintainProxyInstances(list, name) = new
    BY <1>2 DEF MaintainProxyInstances
  <2>2. /\ new \in Seq(Nodes) /\ Len(new) = Len(list) + 1 /\ Len(list) \in Nat
        /\ new[Len(list) + 1] = name
        /\ \A k \in 1..Len(list) : new[k] = list[k]
    BY AppendProperties, LenProperties
  <2> HIDE DEF new
  <2>3. \A k \in 1..Len(new) : k \in 1..Len(list) \/ k = Len(list) + 1
    BY <2>2
  <2>4. \A k \in 1..Len(list) : list[k] # name
    BY <1>2 DEF Names
  <2>5. \A k, l \in 1..Len(new) : new[k] = new[l] => k = l
    BY <2>2, <2>3, <2>4
  <2>6. Names(new) \subseteq Names(list) \cup {name}
    BY <2>2, <2>3 DEF Names
  <2>7. Names(list) \subseteq Names(new) /\ name \in Names(new)
    <3>1. 1..Len(list) \subseteq 1..Len(new) /\ Len(list) + 1 \in 1..Len(new)
      BY <2>2
    <3> QED BY <2>2, <3>1 DEF Names
  <2> QED BY <2>1, <2>2, <2>5, <2>6, <2>7
<1> QED BY <1>1, <1>2

\* All monitors at a broker have one client id, so the only session there is the
\* sender's own, and its announcement adds nobody to any list.
LEMMA AnnouncementReachesNobody ==
    ASSUME TypeOK, OneSessionPerBroker, NEW i \in Nodes, NEW j \in Nodes,
           Session(i, j) \in sessions, DeliverAnnouncement(j, i)
    PROVE  cluster_nodes' = cluster_nodes
<1>1. ASSUME NEW r \in Nodes, r # i, NEW s \in subs, s.broker = j, s.node = r
      PROVE  FALSE
  <2>1. s \in sessions
    BY DEF TypeOK
  <2>2. s = Session(i, j)
    BY <1>1, <2>1, SessionFields DEF OneSessionPerBroker
  <2> QED BY <1>1, <2>2, SessionFields
<1>2. cluster_nodes' = [r \in Nodes |-> cluster_nodes[r]]
  BY <1>1 DEF DeliverAnnouncement
<1> QED BY <1>2 DEF TypeOK

LEMMA NoCommandsType == NoCommands \in [Nodes -> Seq(CommandSet)]
  BY DEF NoCommands

\* The first command of a queue, and the queue without it.
LEMMA PoppedQueue ==
    ASSUME TypeOK, NEW i \in Nodes, NEW j \in Nodes, cmds[i][j] # <<>>
    PROVE  /\ Popped(i, j) \in [Nodes -> [Nodes -> Seq(CommandSet)]]
           /\ \A a, b \in Nodes : a # i \/ b # j => Popped(i, j)[a][b] = cmds[a][b]
           /\ Len(cmds[i][j]) \in Nat /\ Len(cmds[i][j]) > 0
           /\ Len(Popped(i, j)[i][j]) = Len(cmds[i][j]) - 1
           /\ \A k \in 1..Len(Popped(i, j)[i][j]) : Popped(i, j)[i][j][k] = cmds[i][j][k + 1]
           /\ Head(cmds[i][j]) = cmds[i][j][1]
           /\ Head(cmds[i][j]) \in CommandSet
<1> DEFINE q == cmds[i][j]
<1>1. q \in Seq(CommandSet) /\ cmds[i] \in [Nodes -> Seq(CommandSet)]
      /\ cmds \in [Nodes -> [Nodes -> Seq(CommandSet)]]
  BY DEF TypeOK
<1>2. /\ Head(q) \in CommandSet /\ Head(q) = q[1]
      /\ Tail(q) \in Seq(CommandSet) /\ Len(Tail(q)) = Len(q) - 1
      /\ Len(q) \in Nat /\ Len(q) > 0
      /\ \A k \in 1..Len(Tail(q)) : Tail(q)[k] = q[k + 1]
  BY <1>1, HeadTailProperties, LenProperties, EmptySeq
<1> HIDE DEF q
<1>3. Popped(i, j) = [cmds EXCEPT ![i][j] = Tail(q)]
  BY DEF Popped, q
<1>4. Popped(i, j)[i][j] = Tail(q)
  BY <1>1, <1>3
<1>5. Popped(i, j) \in [Nodes -> [Nodes -> Seq(CommandSet)]]
  BY <1>1, <1>2, <1>3
<1>6. \A a, b \in Nodes : a # i \/ b # j => Popped(i, j)[a][b] = cmds[a][b]
  BY <1>1, <1>3
<1> QED BY <1>2, <1>4, <1>5, <1>6 DEF q

------------------------------------------------------------------------------
\* TypeOK and PeersInv.

LEMMA InitIInv == Init => IInv
<1> SUFFICES ASSUME Init PROVE IInv
  OBVIOUS
<1> USE DEF Init
<1>1. limits \in Limits /\ limits.connects \in Nat /\ limits.crashes \in Nat /\ limits.restarts \in Nat
  BY LimitsAssumption
<1>2. /\ cmds \in [Nodes -> [Nodes -> Seq(CommandSet)]]
      /\ \A i, j \in Nodes : cmds[i][j] = <<>> /\ Len(cmds[i][j]) = 0
  BY NoCommandsType DEF NoCommands
<1>3. cluster_nodes \in [Nodes -> Seq(Nodes)] /\ \A i \in Nodes : Len(cluster_nodes[i]) = 0
  OBVIOUS
<1>4. TypeOK
  BY <1>1, <1>2, <1>3 DEF TypeOK
<1>5. \A i \in Nodes : Peers(i) = {}
  BY <1>3 DEF Peers, Names
<1>6. PeersInv
  BY <1>3, <1>5 DEF PeersInv, OneClientPerPeer, OneSessionPerBroker, ListFromReply
<1>7. JoinInv
  BY DEF JoinInv, Registered, LaterReplyHasTheOther, ReplyIsAdded, Replied
<1>8. ForwardInv
  BY <1>2 DEF ForwardInv, WaitInv, Unpublished, WaitsOnce, WaitsForPeer, HeldForPeer, HomeApart,
              ForwardedToPeers
<1> QED BY <1>4, <1>6, <1>7, <1>8 DEF IInv

LEMMA LimitsType ==
    ASSUME TypeOK
    PROVE  limits.connects \in Nat /\ limits.crashes \in Nat /\ limits.restarts \in Nat
  BY LimitsAssumption DEF TypeOK

LEMMA PluginTypeAndPeers ==
    ASSUME TypeOK, PeersInv, NEW i \in Nodes, Plugin(i)
    PROVE  TypeOK' /\ PeersInv'
<1> USE DEF pluginVars, heldVars, monitorVars, serviceVars, brokerVars, messageVars, historyVars
<1>0. limits.connects \in Nat /\ limits.crashes \in Nat /\ limits.restarts \in Nat
  BY LimitsType
<1>1. CASE Initialize(i)
  <2>1. TypeOK'
    BY <1>1 DEF Initialize, TypeOK
  <2>2. PeersInv'
    BY <1>1 DEF Initialize, TypeOK, PeersInv, OneClientPerPeer, OneSessionPerBroker, ListFromReply, Peers
  <2> QED BY <2>1, <2>2
<1>2. CASE ServiceRegister(i)
  <2>1. TypeOK'
    <3>1. joinedIn' \in [Nodes -> 0..epoch] /\ epoch' = epoch
      BY <1>0, <1>2 DEF ServiceRegister, TypeOK
    <3> QED BY <1>2, <3>1 DEF ServiceRegister, TypeOK
  <2>2. PeersInv'
    BY <1>2 DEF ServiceRegister, TypeOK, PeersInv, OneClientPerPeer, OneSessionPerBroker, ListFromReply, Peers
  <2> QED BY <2>1, <2>2
<1>3. CASE ServiceReply(i)
  <2>1. TypeOK'
    BY <1>0, <1>3 DEF ServiceReply, NodeNames, TypeOK
  <2>2. Peers(i) = {} /\ \A k \in Nodes : Peers(k)' = Peers(k)
    <3>1. Len(cluster_nodes[i]) = 0
      BY <1>3 DEF ServiceReply, PeersInv, ListFromReply
    <3> QED BY <1>3, <3>1 DEF ServiceReply, Peers, Names
  <2>3. ListFromReply'
    BY <1>3, <2>2 DEF ServiceReply, NodeNames, TypeOK, PeersInv, ListFromReply
  <2> QED BY <1>3, <2>1, <2>2, <2>3 DEF ServiceReply, PeersInv, OneClientPerPeer, OneSessionPerBroker
<1>4. CASE JoinFails(i)
  <2>1. TypeOK'
    <3>1. joinedIn' \in [Nodes -> 0..epoch] /\ epoch' = epoch
      BY <1>0, <1>4 DEF JoinFails, TypeOK
    <3> QED BY <1>4, <3>1 DEF JoinFails, TypeOK
  <2>2. PeersInv'
    BY <1>4 DEF JoinFails, TypeOK, PeersInv, OneClientPerPeer, OneSessionPerBroker, ListFromReply, Peers
  <2> QED BY <2>1, <2>2
<1>5. CASE AddPeer(i)
  <2>1. PICK name \in todo[i] :
            /\ todo' = [todo EXCEPT ![i] = @ \ {name}]
            /\ cluster_nodes' =
                  IF name = i THEN cluster_nodes
                  ELSE [cluster_nodes EXCEPT ![i] = MaintainProxyInstances(@, name)]
    BY <1>5 DEF AddPeer
  <2>2. name \in Nodes /\ todo[i] \subseteq Nodes
    BY DEF TypeOK
  <2>3. \A k \in Nodes : /\ cluster_nodes'[k] \in Seq(Nodes)
                         /\ Peers(k)' \subseteq Peers(k) \cup (IF k = i THEN {name} \ {i} ELSE {})
                         /\ \A m, n \in 1..Len(cluster_nodes'[k]) :
                               cluster_nodes'[k][m] = cluster_nodes'[k][n] => m = n
    <3>1. CASE name = i
      BY <2>1, <3>1 DEF TypeOK, PeersInv, OneClientPerPeer, Peers
    <3>2. CASE name # i
      <4> DEFINE new == MaintainProxyInstances(cluster_nodes[i], name)
      <4>1. /\ new \in Seq(Nodes)
            /\ Names(new) = Names(cluster_nodes[i]) \cup {name}
            /\ \A k, l \in 1..Len(new) : new[k] = new[l] => k = l
        BY <2>2, Maintained DEF TypeOK, PeersInv, OneClientPerPeer
      <4>2. /\ cluster_nodes'[i] = new
            /\ \A k \in Nodes : k # i => cluster_nodes'[k] = cluster_nodes[k]
        BY <2>1, <3>2 DEF TypeOK
      <4> HIDE DEF new
      <4>3. Peers(i)' = Peers(i) \cup {name}
        BY <4>1, <4>2 DEF Peers
      <4>4. \A k \in Nodes : k # i => Peers(k)' = Peers(k) /\ cluster_nodes[k] \in Seq(Nodes)
        BY <4>2 DEF Peers, TypeOK
      <4> QED BY <3>2, <4>1, <4>2, <4>3, <4>4 DEF PeersInv, OneClientPerPeer
    <3> QED BY <3>1, <3>2
  <2>4. cluster_nodes' \in [Nodes -> Seq(Nodes)]
    <3>1. \E f : cluster_nodes' = [cluster_nodes EXCEPT ![i] = f]
      BY <2>1 DEF TypeOK
    <3> QED BY <2>3, <3>1 DEF TypeOK
  <2>5. TypeOK'
    BY <1>5, <2>1, <2>2, <2>4 DEF AddPeer, TypeOK
  <2>6. OneClientPerPeer'
    BY <2>3 DEF PeersInv, OneClientPerPeer
  <2>7. ListFromReply'
    <3> SUFFICES ASSUME NEW k \in Nodes
                 PROVE  /\ todo'[k] \subseteq answered'[k]
                        /\ Peers(k)' \subseteq answered'[k]
                        /\ phase'[k] # "adding" => todo'[k] = {}
                        /\ phase'[k] \in {"down", "joining", "registered"} => cluster_nodes'[k] = <<>>
      BY DEF ListFromReply
    <3>1. phase[i] = "adding" /\ UNCHANGED <<phase, answered>>
      BY <1>5 DEF AddPeer
    <3>2. k # i => cluster_nodes'[k] = cluster_nodes[k] /\ todo'[k] = todo[k]
      BY <2>1 DEF TypeOK
    <3>3. todo'[i] = todo[i] \ {name} /\ name \in todo[i]
      BY <2>1 DEF TypeOK
    <3> QED BY <2>3, <3>1, <3>2, <3>3 DEF PeersInv, ListFromReply
  <2> QED BY <1>5, <2>5, <2>6, <2>7 DEF AddPeer, PeersInv, OneSessionPerBroker
<1>6. CASE InitializeReturns(i)
  <2>1. TypeOK'
    BY <1>6 DEF InitializeReturns, TypeOK
  <2>2. PeersInv'
    BY <1>6 DEF InitializeReturns, TypeOK, PeersInv, OneClientPerPeer, OneSessionPerBroker, ListFromReply, Peers
  <2> QED BY <2>1, <2>2
<1>7. CASE Crash(i)
  <2>1. cmds' \in [Nodes -> [Nodes -> Seq(CommandSet)]]
    BY <1>7, NoCommandsType DEF Crash, TypeOK
  <2>2. cluster_nodes' \in [Nodes -> Seq(Nodes)] /\ cluster_nodes'[i] = <<>>
        /\ \A k \in Nodes : k # i => cluster_nodes'[k] = cluster_nodes[k]
    BY <1>7 DEF Crash, TypeOK
  <2>3. sessions' \subseteq sessions /\ subs' \subseteq sessions'
    BY <1>7 DEF Crash, TypeOK
  <2>4. TypeOK'
    <3>1. /\ phase' \in [Nodes -> {"down", "joining", "registered", "adding", "up"}]
          /\ todo' \in [Nodes -> SUBSET Nodes] /\ answered' \in [Nodes -> SUBSET Nodes]
          /\ joinedIn' \in [Nodes -> 0..epoch] /\ crashes' \in 0..limits.crashes
      BY <1>0, <1>7 DEF Crash, TypeOK
    <3>2. running' \subseteq Nodes \X Nodes /\ kept' \subseteq HeldSet /\ unacked' \subseteq HeldSet
      BY <1>7 DEF Crash, TypeOK
    <3> QED BY <1>7, <2>1, <2>2, <2>3, <3>1, <3>2 DEF Crash, TypeOK
  <2>5. Peers(i)' = {} /\ Len(cluster_nodes'[i]) = 0
    BY <2>2 DEF Peers, Names
  <2>6. \A k \in Nodes : k # i => Peers(k)' = Peers(k)
    BY <2>2 DEF Peers
  <2>7. OneClientPerPeer'
    <3> SUFFICES ASSUME NEW k \in Nodes
                 PROVE  /\ k \notin Peers(k)'
                        /\ \A m, n \in 1..Len(cluster_nodes'[k]) :
                              cluster_nodes'[k][m] = cluster_nodes'[k][n] => m = n
      BY DEF OneClientPerPeer
    <3>1. CASE k = i
      BY <2>5, <3>1
    <3>2. CASE k # i
      BY <2>2, <2>6, <3>2 DEF PeersInv, OneClientPerPeer
    <3> QED BY <3>1, <3>2
  <2>8. ListFromReply'
    BY <1>7, <2>2, <2>5, <2>6 DEF Crash, TypeOK, PeersInv, ListFromReply
  <2>9. OneSessionPerBroker'
    BY <2>3 DEF PeersInv, OneSessionPerBroker
  <2> QED BY <2>4, <2>7, <2>8, <2>9 DEF PeersInv
<1> QED BY <1>1, <1>2, <1>3, <1>4, <1>5, <1>6, <1>7 DEF Plugin

\* What an ordinary client writes is queued for the peers of its broker; what a
\* monitor writes is not passed on.
LEMMA ProxyMonitor ==
    ASSUME NEW queues, NEW b, NEW i, NEW j, NEW m
    PROVE  MosqProxyPass(queues, b, ClientId(i, j), m) = queues
<1>1. IsProxyClient(ClientId(i, j))
  BY DEF IsProxyClient, ClientId
<1> QED BY <1>1 DEF MosqProxyPass

LEMMA ProxyClient ==
    ASSUME TypeOK, NEW b \in Nodes, NEW m \in Messages
    PROVE  LET queues == MosqProxyPass(cmds, b, OrdinaryClient, m)
           IN  /\ queues \in [Nodes -> [Nodes -> Seq(CommandSet)]]
               /\ \A i, j \in Nodes :
                     \/ queues[i][j] = cmds[i][j]
                     \/ i = b /\ j \in Peers(b) /\ queues[i][j] = Append(cmds[i][j], Forward(m))
<1> DEFINE queues == MosqProxyPass(cmds, b, OrdinaryClient, m)
           of == [j \in Nodes |-> IF j \in Peers(b) THEN Append(cmds[b][j], Forward(m)) ELSE cmds[b][j]]
<1>1. CASE b \notin Configured
  BY <1>1 DEF MosqProxyPass, TypeOK
<1>2. CASE b \in Configured
  <2>1. ~IsProxyClient(OrdinaryClient)
    BY DEF IsProxyClient, OrdinaryClient
  <2>2. queues = [cmds EXCEPT ![b] = of]
    BY <1>2, <2>1 DEF MosqProxyPass, Forward
  <2>3. Forward(m) \in CommandSet
    BY DEF Forward, CommandSet, HeldCommands
  <2>4. \A j \in Nodes : Append(cmds[b][j], Forward(m)) \in Seq(CommandSet)
    BY <2>3, AppendProperties DEF TypeOK
  <2>5. of \in [Nodes -> Seq(CommandSet)]
    BY <2>4 DEF TypeOK
  <2>6. \A j \in Nodes : \/ of[j] = cmds[b][j]
                         \/ j \in Peers(b) /\ of[j] = Append(cmds[b][j], Forward(m))
    OBVIOUS
  <2> HIDE DEF of, queues
  <2>7. queues \in [Nodes -> [Nodes -> Seq(CommandSet)]]
    BY <2>2, <2>5 DEF TypeOK
  <2>8. queues[b] = of /\ \A i \in Nodes : i # b => queues[i] = cmds[i]
    BY <2>2 DEF TypeOK
  <2>9. \A i, j \in Nodes :
            \/ queues[i][j] = cmds[i][j]
            \/ i = b /\ j \in Peers(b) /\ queues[i][j] = Append(cmds[i][j], Forward(m))
    BY <2>6, <2>8
  <2> QED BY <2>7, <2>9 DEF queues
<1> QED BY <1>1, <1>2

\* The two commands of on_connect.
Hello(i) == <<[kind |-> "subscribe", body |-> i], [kind |-> "announce", body |-> i]>>

LEMMA HelloQueued ==
    ASSUME TypeOK, NEW i \in Nodes, NEW j \in Nodes,
           cmds' = [cmds EXCEPT ![i][j] = @ \o Hello(i)]
    PROVE  /\ cmds' \in [Nodes -> [Nodes -> Seq(CommandSet)]]
           /\ \A a, b \in Nodes : a # i \/ b # j => cmds'[a][b] = cmds[a][b]
           /\ Len(cmds[i][j]) \in Nat
           /\ Len(cmds'[i][j]) = Len(cmds[i][j]) + 2
           /\ \A k \in 1..Len(cmds[i][j]) : cmds'[i][j][k] = cmds[i][j][k]
           /\ \A k \in (Len(cmds[i][j]) + 1)..Len(cmds'[i][j]) : cmds'[i][j][k].kind # "forward"
<1> DEFINE q == cmds[i][j]
           h == Hello(i)
<1>1. /\ h \in Seq(CommandSet) /\ Len(h) = 2
      /\ h[1].kind # "forward" /\ h[2].kind # "forward"
  BY DEF Hello, CommandSet, HeldCommands
<1>2. q \in Seq(CommandSet) /\ Len(q) \in Nat
  BY LenProperties DEF TypeOK
<1> HIDE DEF h, q
<1>3. /\ q \o h \in Seq(CommandSet)
      /\ Len(q \o h) = Len(q) + 2
      /\ \A k \in 1..Len(q \o h) : (q \o h)[k] = IF k <= Len(q) THEN q[k] ELSE h[k - Len(q)]
  <2>1. Len(q \o h) = Len(q) + Len(h)
    BY <1>1, <1>2, ConcatProperties
  <2>2. Len(q \o h) = Len(q) + 2
    BY <1>1, <2>1
  <2> QED BY <1>1, <1>2, <2>2, ConcatProperties
<1>4. /\ cmds'[i][j] = q \o h
      /\ cmds' \in [Nodes -> [Nodes -> Seq(CommandSet)]]
      /\ \A a, b \in Nodes : a # i \/ b # j => cmds'[a][b] = cmds[a][b]
  BY <1>3 DEF TypeOK, q, h
<1>5. \A k \in 1..Len(q) : (q \o h)[k] = q[k]
  BY <1>2, <1>3
<1>6. \A k \in (Len(q) + 1)..Len(q \o h) : (q \o h)[k].kind # "forward"
  <2> SUFFICES ASSUME NEW k \in (Len(q) + 1)..Len(q \o h) PROVE (q \o h)[k].kind # "forward"
    OBVIOUS
  <2>1. k \in 1..Len(q \o h) /\ ~(k <= Len(q)) /\ k - Len(q) \in {1, 2}
    BY <1>2, <1>3
  <2> QED BY <1>1, <1>3, <2>1
<1> QED BY <1>2, <1>3, <1>4, <1>5, <1>6 DEF q

\* What libmosquitto takes over it holds, and nothing else.
LEMMA HoldHolds ==
    ASSUME TypeOK, NEW i \in Nodes, NEW j \in Nodes, NEW c \in HeldCommands, Hold(i, j, c)
    PROVE  /\ kept' \subseteq HeldSet /\ unacked' \subseteq HeldSet
           /\ kept' \cup unacked' \subseteq kept \cup unacked \cup {Held(i, j, c)}
<1>1. Held(i, j, c) \in HeldSet
  BY DEF Held, HeldSet
<1> QED BY <1>1 DEF Hold, TypeOK

\* The monitors change no list.
LEMMA MonitorType ==
    ASSUME TypeOK, PeersInv, NEW i \in Nodes, NEW j \in Nodes, Monitor(i, j)
    PROVE  /\ TypeOK' /\ PeersInv'
           /\ UNCHANGED <<pluginVars, serviceVars, historyVars>>
<1> USE DEF pluginVars, heldVars, monitorVars, serviceVars, brokerVars, messageVars, historyVars
<1>0. limits.connects \in Nat /\ limits.crashes \in Nat /\ limits.restarts \in Nat
  BY LimitsType
<1>a. ASSUME UNCHANGED <<pluginVars, answered>>, OneSessionPerBroker'
      PROVE  PeersInv'
  BY <1>a DEF PeersInv, OneClientPerPeer, ListFromReply, Peers
<1>b. ASSUME UNCHANGED sessions PROVE OneSessionPerBroker'
  BY <1>b DEF PeersInv, OneSessionPerBroker
<1>c. Session(i, j) \in AllSessions /\ sessions \subseteq AllSessions
  BY SessionFields DEF TypeOK, AllSessions
<1>1. CASE Connect(i, j)
  <2>1. cmds' \in [Nodes -> [Nodes -> Seq(CommandSet)]]
    BY <1>1, HelloQueued DEF Connect, Hello
  <2>2. running' \subseteq Nodes \X Nodes /\ connects' \in 0..limits.connects
    <3>0. /\ running' = running \cup {<<i, j>>}
          /\ connects' = connects + 1 /\ connects < limits.connects
      BY <1>1 DEF Connect
    <3>1. running' \subseteq Nodes \X Nodes
      BY <3>0 DEF TypeOK
    <3>2. connects' \in 0..limits.connects
      BY <1>0, <3>0 DEF TypeOK
    <3> QED BY <3>1, <3>2
  <2>3. sessions' \subseteq AllSessions /\ subs' \subseteq sessions'
    BY <1>1, <1>c DEF Connect, TypeOK
  <2>4. TypeOK'
    BY <1>1, <2>1, <2>2, <2>3 DEF Connect, KeepUnacked, TypeOK, AllSessions
  <2>5. ASSUME NEW s \in sessions', s.broker = j PROVE s = Session(i, j)
    <3>1. CASE s \in sessions /\ ~(s.broker = j /\ s.cid = ClientId(i, j))
      <4>1. s.cid = ClientId(s.node, s.broker)
        BY <1>c, <3>1, SessionOf
      <4> QED BY <2>5, <3>1, <4>1 DEF ClientId
    <3> QED BY <1>1, <3>1 DEF Connect
  <2>6. \A s \in sessions' : s.broker # j => s \in sessions
    BY <1>1, SessionFields DEF Connect
  <2>7. OneSessionPerBroker'
    BY <2>5, <2>6 DEF PeersInv, OneSessionPerBroker
  <2> QED BY <1>1, <1>a, <2>4, <2>7 DEF Connect
<1>2. CASE LinkLost(i, j)
  <2>1. TypeOK'
    BY <1>2 DEF LinkLost, KeepUnacked, TypeOK
  <2>2. OneSessionPerBroker'
    BY <1>2 DEF LinkLost, PeersInv, OneSessionPerBroker
  <2> QED BY <1>2, <1>a, <2>1, <2>2 DEF LinkLost
<1>3. CASE RunSubscribe(i, j)
  <2>1. cmds' \in [Nodes -> [Nodes -> Seq(CommandSet)]]
    BY <1>3, PoppedQueue DEF RunSubscribe, NextCommand
  <2>2. TypeOK'
    BY <1>3, <2>1 DEF RunSubscribe, SubscribeAt, TypeOK
  <2> QED BY <1>3, <1>a, <1>b, <2>2 DEF RunSubscribe
<1>4. CASE RunAnnounce(i, j)
  <2>1. cmds' \in [Nodes -> [Nodes -> Seq(CommandSet)]]
    BY <1>4, PoppedQueue DEF RunAnnounce, NextCommand
  <2>2. cluster_nodes' = cluster_nodes
    BY <1>4, AnnouncementReachesNobody DEF RunAnnounce, Connected, PeersInv
  <2>3. kept' \subseteq HeldSet /\ unacked' \subseteq HeldSet
    <3>1. Announcement(i) \in HeldCommands
      BY DEF Announcement, HeldCommands
    <3> QED BY <1>4, <3>1, HoldHolds DEF RunAnnounce
  <2>4. TypeOK'
    BY <1>4, <2>1, <2>2, <2>3 DEF RunAnnounce, TypeOK
  <2> QED BY <1>4, <1>a, <1>b, <2>2, <2>4 DEF RunAnnounce
<1>5. ASSUME NEW h \in kept, Resend(i, j, h)
      PROVE  /\ TypeOK' /\ PeersInv'
             /\ UNCHANGED <<pluginVars, serviceVars, historyVars>>
  <2>1. h \in HeldSet /\ h.command \in HeldCommands
    BY DEF TypeOK, HeldSet
  <2>2. cluster_nodes' = cluster_nodes
    BY <1>5, AnnouncementReachesNobody DEF Resend, Connected, PeersInv
  <2>3. got' \in [Nodes -> [Messages -> Nat]] /\ cmds' = cmds
    <3>1. CASE h.command.kind = "announce"
      BY <1>5, <3>1 DEF Resend, TypeOK
    <3>2. CASE h.command.kind # "announce"
      <4>1. h.command.body \in Messages
        BY <2>1, <3>2 DEF HeldCommands
      <4>2. /\ got' = [got EXCEPT ![j][h.command.body] = @ + 1]
            /\ cmds' = cmds
        BY <1>5, <3>2, ProxyMonitor DEF Resend, PeerPublishes
      <4>3. got[j][h.command.body] + 1 \in Nat
        BY <4>1 DEF TypeOK
      <4> QED BY <4>1, <4>2, <4>3 DEF TypeOK
    <3> QED BY <3>1, <3>2
  <2>4. kept' \subseteq HeldSet /\ unacked' \subseteq HeldSet
    BY <1>5, <2>1 DEF Resend, TypeOK
  <2>5. TypeOK'
    BY <1>5, <2>2, <2>3, <2>4 DEF Resend, TypeOK
  <2> QED BY <1>5, <1>a, <1>b, <2>2, <2>5 DEF Resend
<1>7. ASSUME NEW h \in unacked, Acknowledge(i, j, h)
      PROVE  /\ TypeOK' /\ PeersInv'
             /\ UNCHANGED <<pluginVars, serviceVars, historyVars>>
  <2>1. TypeOK'
    BY <1>7 DEF Acknowledge, TypeOK
  <2> QED BY <1>7, <1>a, <1>b, <2>1 DEF Acknowledge
<1>6. CASE RunForward(i, j)
  <2> DEFINE m == Head(cmds[i][j]).body
  <2>1. /\ Popped(i, j) \in [Nodes -> [Nodes -> Seq(CommandSet)]]
        /\ Head(cmds[i][j]) \in CommandSet /\ Head(cmds[i][j]).kind = "forward"
    BY <1>6, PoppedQueue DEF RunForward, NextCommand
  <2>2. m \in Messages
    BY <2>1 DEF CommandSet, HeldCommands
  <2>3. cmds' = Popped(i, j) /\ (got' = got \/ got' = [got EXCEPT ![j][m] = @ + 1])
    BY <1>6, ProxyMonitor DEF RunForward, PeerPublishes
  <2> HIDE DEF m
  <2>4. got' \in [Nodes -> [Messages -> Nat]]
    <3>1. got \in [Nodes -> [Messages -> Nat]] /\ got[j][m] + 1 \in Nat
      BY <2>2 DEF TypeOK
    <3> QED BY <2>2, <2>3, <3>1
  <2>5. kept' \subseteq HeldSet /\ unacked' \subseteq HeldSet
    <3>1. Forward(m) \in HeldCommands
      BY <2>2 DEF Forward, HeldCommands
    <3>2. UNCHANGED <<kept, unacked>> \/ Hold(i, j, Forward(m))
      BY <1>6 DEF RunForward, m
    <3> QED BY <3>1, <3>2, HoldHolds DEF TypeOK
  <2>6. TypeOK'
    BY <1>6, <2>1, <2>3, <2>4, <2>5 DEF RunForward, TypeOK
  <2> QED BY <1>6, <1>a, <1>b, <2>6 DEF RunForward
<1> QED BY <1>1, <1>2, <1>3, <1>4, <1>5, <1>6, <1>7 DEF Monitor

LEMMA OtherType ==
    ASSUME TypeOK, PeersInv,
           ServiceRestart \/ \E b \in Nodes, m \in Messages : ClientPublish(b, m)
    PROVE  TypeOK' /\ PeersInv'
<1> USE DEF pluginVars, heldVars, monitorVars, serviceVars, brokerVars, messageVars, historyVars
<1>1. CASE ServiceRestart
  <2>1. epoch' \in 1..(limits.restarts + 1) /\ joinedIn' \in [Nodes -> 0..epoch']
    <3>1. \A i \in Nodes : joinedIn[i] \in 0..(epoch + 1)
      BY LimitsType DEF TypeOK
    <3> QED BY <1>1, <3>1, LimitsType DEF ServiceRestart, TypeOK
  <2>2. TypeOK'
    BY <1>1, <2>1 DEF ServiceRestart, TypeOK
  <2>3. PeersInv'
    BY <1>1 DEF ServiceRestart, PeersInv, OneClientPerPeer, OneSessionPerBroker, ListFromReply, Peers
  <2> QED BY <2>2, <2>3
<1>2. ASSUME NEW b \in Nodes, NEW m \in Messages, ClientPublish(b, m)
      PROVE  TypeOK' /\ PeersInv'
  <2>1. cmds' \in [Nodes -> [Nodes -> Seq(CommandSet)]]
    BY <1>2, ProxyClient DEF ClientPublish
  <2>2. Peers(b) \subseteq Nodes
    <3>1. cluster_nodes[b] \in Seq(Nodes)
      BY DEF TypeOK
    <3> QED BY <3>1, ElementOfSeq DEF Peers, Names
  <2>3. /\ home' \in [Messages -> SUBSET Nodes] /\ reach' \in [Messages -> SUBSET Nodes]
        /\ got' \in [Nodes -> [Messages -> Nat]]
    BY <1>2, <2>2 DEF ClientPublish, TypeOK
  <2>4. TypeOK'
    BY <1>2, <2>1, <2>3 DEF ClientPublish, TypeOK
  <2>5. PeersInv'
    BY <1>2 DEF ClientPublish, PeersInv, OneClientPerPeer, OneSessionPerBroker, ListFromReply, Peers
  <2> QED BY <2>4, <2>5
<1> QED BY <1>1, <1>2

------------------------------------------------------------------------------
\* JoinInv.

LEMMA PluginJoin ==
    ASSUME TypeOK, PeersInv, JoinInv, NEW i \in Nodes, Plugin(i)
    PROVE  JoinInv'
<1> USE DEF pluginVars, heldVars, monitorVars, serviceVars, brokerVars, messageVars, historyVars
<1>0. /\ epoch \in Nat /\ epoch > 0
      /\ \A k \in Nodes : joinedIn[k] \in Nat
  BY LimitsType DEF TypeOK
<1>1. CASE Initialize(i)
  <2>1. joinedIn[i] = 0 /\ UNCHANGED <<joinedIn, epoch, registry, answered, todo, cluster_nodes>>
    BY <1>1 DEF Initialize, JoinInv, Registered
  <2>2. \A k \in Nodes : k # i => phase'[k] = phase[k]
    BY <1>1 DEF Initialize, TypeOK
  <2> QED BY <2>1, <2>2 DEF JoinInv, Registered, LaterReplyHasTheOther, ReplyIsAdded, Replied, Peers
<1>2. CASE ServiceRegister(i)
  <2>1. /\ phase'[i] = "registered" /\ registry' = registry \cup {i}
        /\ \A k \in Nodes : k # i => phase'[k] = phase[k] /\ joinedIn'[k] = joinedIn[k]
        /\ UNCHANGED <<epoch, answered, todo, cluster_nodes>>
    BY <1>2 DEF ServiceRegister, TypeOK
  <2> QED BY <2>1 DEF JoinInv, Registered, LaterReplyHasTheOther, ReplyIsAdded, Replied, Peers
<1>3. CASE ServiceReply(i)
  <2>1. /\ phase[i] = "registered" /\ phase'[i] = "adding" /\ joinedIn[i] = epoch
        /\ answered'[i] = registry /\ todo'[i] = registry
        /\ \A k \in Nodes : k # i => phase'[k] = phase[k] /\ answered'[k] = answered[k] /\ todo'[k] = todo[k]
        /\ UNCHANGED <<joinedIn, epoch, registry, cluster_nodes>>
    BY <1>3 DEF ServiceReply, NodeNames, TypeOK
  <2>2. Registered'
    BY <2>1 DEF JoinInv, Registered
  <2>3. ReplyIsAdded'
    BY <2>1 DEF JoinInv, ReplyIsAdded, Replied, Peers
  <2>4. \A k \in Nodes : k # i /\ joinedIn[k] = joinedIn[i] => k \in answered'[i]
    BY <2>1 DEF JoinInv, Registered
  <2>5. LaterReplyHasTheOther'
    BY <2>1, <2>4 DEF JoinInv, LaterReplyHasTheOther, Replied
  <2> QED BY <2>2, <2>3, <2>5 DEF JoinInv
<1>4. CASE JoinFails(i)
  <2>1. /\ joinedIn'[i] = 0
        /\ \A k \in Nodes : k # i => phase'[k] = phase[k] /\ joinedIn'[k] = joinedIn[k]
        /\ UNCHANGED <<registry, epoch, answered, todo, cluster_nodes>>
    BY <1>4 DEF JoinFails, TypeOK
  <2> QED BY <1>0, <2>1 DEF JoinInv, Registered, LaterReplyHasTheOther, ReplyIsAdded, Replied, Peers
<1>5. CASE AddPeer(i)
  <2>1. PICK name \in todo[i] :
            /\ todo' = [todo EXCEPT ![i] = @ \ {name}]
            /\ cluster_nodes' =
                  IF name = i THEN cluster_nodes
                  ELSE [cluster_nodes EXCEPT ![i] = MaintainProxyInstances(@, name)]
    BY <1>5 DEF AddPeer
  <2>2. name \in Nodes
    BY DEF TypeOK
  <2>3. /\ todo'[i] = todo[i] \ {name}
        /\ \A k \in Nodes : k # i => todo'[k] = todo[k] /\ cluster_nodes'[k] = cluster_nodes[k]
    BY <2>1 DEF TypeOK
  <2>4. Peers(i) \cup ({name} \ {i}) \subseteq Peers(i)'
    <3>1. CASE name = i
      BY <2>1, <3>1 DEF Peers
    <3>2. CASE name # i
      <4>1. cluster_nodes'[i] = MaintainProxyInstances(cluster_nodes[i], name)
        BY <2>1, <3>2 DEF TypeOK
      <4>2. Names(MaintainProxyInstances(cluster_nodes[i], name)) = Names(cluster_nodes[i]) \cup {name}
        BY <2>2, Maintained DEF TypeOK, PeersInv, OneClientPerPeer
      <4> QED BY <4>1, <4>2 DEF Peers
    <3> QED BY <3>1, <3>2
  <2>5. UNCHANGED <<phase, joinedIn, epoch, registry, answered>>
    BY <1>5 DEF AddPeer
  <2>6. ReplyIsAdded'
    BY <2>3, <2>4, <2>5 DEF JoinInv, ReplyIsAdded, Replied, Peers
  <2> QED BY <2>5, <2>6 DEF JoinInv, Registered, LaterReplyHasTheOther, Replied
<1>6. CASE InitializeReturns(i)
  <2>1. /\ phase[i] = "adding" /\ phase'[i] = "up"
        /\ \A k \in Nodes : k # i => phase'[k] = phase[k]
        /\ UNCHANGED <<joinedIn, epoch, registry, answered, todo, cluster_nodes>>
    BY <1>6 DEF InitializeReturns, TypeOK
  <2> QED BY <2>1 DEF JoinInv, Registered, LaterReplyHasTheOther, ReplyIsAdded, Replied, Peers
<1>7. CASE Crash(i)
  <2>1. /\ joinedIn'[i] = 0 /\ phase'[i] = "down"
        /\ \A k \in Nodes : k # i => /\ phase'[k] = phase[k] /\ joinedIn'[k] = joinedIn[k]
                                     /\ answered'[k] = answered[k] /\ todo'[k] = todo[k]
                                     /\ cluster_nodes'[k] = cluster_nodes[k]
        /\ UNCHANGED <<registry, epoch>>
    BY <1>7 DEF Crash, TypeOK
  <2> QED BY <1>0, <2>1 DEF JoinInv, Registered, LaterReplyHasTheOther, ReplyIsAdded, Replied, Peers
<1> QED BY <1>1, <1>2, <1>3, <1>4, <1>5, <1>6, <1>7 DEF Plugin

\* A restart of the service forgets who had registered, but also leaves nobody
\* registered with the service that runs now.
LEMMA RestartJoin ==
    ASSUME TypeOK, JoinInv, ServiceRestart
    PROVE  JoinInv'
<1>1. /\ epoch' = epoch + 1 /\ epoch \in Nat
      /\ \A i \in Nodes : joinedIn[i] \in Nat /\ joinedIn[i] <= epoch
      /\ UNCHANGED <<phase, joinedIn, answered, todo, cluster_nodes>>
  BY LimitsType DEF TypeOK, ServiceRestart, pluginVars, historyVars
<1>2. \A i \in Nodes : joinedIn'[i] # epoch'
  BY <1>1
<1> QED BY <1>1, <1>2 DEF JoinInv, Registered, LaterReplyHasTheOther, ReplyIsAdded, Replied, Peers

LEMMA OtherJoin ==
    ASSUME JoinInv, UNCHANGED <<phase, joinedIn, epoch, registry, answered, todo, cluster_nodes>>
    PROVE  JoinInv'
  BY DEF JoinInv, Registered, LaterReplyHasTheOther, ReplyIsAdded, Replied, Peers

------------------------------------------------------------------------------
\* ForwardInv.

\* A step after which no message waits that did not wait before, and which
\* publishes nothing.
LEMMA NothingMoreWaits ==
    ASSUME TypeOK, WaitInv, UNCHANGED <<got, home, reach>>,
           NEW i \in Nodes, NEW j \in Nodes, NEW n \in 0..1,
           \A a, b \in Nodes : a # i \/ b # j => cmds'[a][b] = cmds[a][b],
           \A k \in 1..Len(cmds'[i][j]) :
              \/ cmds'[i][j][k].kind # "forward"
              \/ k + n \in 1..Len(cmds[i][j]) /\ cmds'[i][j][k] = cmds[i][j][k + n]
    PROVE  WaitInv'
<1> DEFINE of(a, b) == IF a = i /\ b = j THEN n ELSE 0
<1>1. \A m \in Messages : Forward(m).kind = "forward"
  BY DEF Forward
<1>2. \A a, b \in Nodes, m \in Messages : \A k \in 1..Len(cmds'[a][b]) :
          cmds'[a][b][k] = Forward(m) =>
             k + of(a, b) \in 1..Len(cmds[a][b]) /\ cmds[a][b][k + of(a, b)] = Forward(m)
  <2> SUFFICES ASSUME NEW a \in Nodes, NEW b \in Nodes, NEW m \in Messages,
                      NEW k \in 1..Len(cmds'[a][b]), cmds'[a][b][k] = Forward(m)
               PROVE  k + of(a, b) \in 1..Len(cmds[a][b]) /\ cmds[a][b][k + of(a, b)] = Forward(m)
    OBVIOUS
  <2>1. CASE a = i /\ b = j
    BY <1>1, <2>1
  <2>2. CASE a # i \/ b # j
    <3>1. of(a, b) = 0 /\ k + 0 = k /\ cmds'[a][b] = cmds[a][b]
      BY <2>2
    <3> QED BY <3>1
  <2> QED BY <2>1, <2>2
<1>3. \A a, b \in Nodes : of(a, b) \in Int
  OBVIOUS
<1> HIDE DEF of
<1>4. Unpublished'
  <2> SUFFICES ASSUME NEW m \in Messages, home[m] = {}, NEW a \in Nodes, NEW b \in Nodes
               PROVE  /\ reach[m] = {}
                      /\ got[b][m] = 0
                      /\ \A k \in 1..Len(cmds'[a][b]) : cmds'[a][b][k] # Forward(m)
    BY DEF Unpublished
  <2>1. /\ reach[m] = {} /\ got[b][m] = 0
        /\ \A k \in 1..Len(cmds[a][b]) : cmds[a][b][k] # Forward(m)
    BY DEF WaitInv, Unpublished
  <2> QED BY <1>2, <2>1
<1>5. WaitsOnce'
  <2> SUFFICES ASSUME NEW m \in Messages, NEW b \in Nodes, NEW a1 \in Nodes, NEW a2 \in Nodes,
                      NEW k1 \in 1..Len(cmds'[a1][b]), NEW k2 \in 1..Len(cmds'[a2][b]),
                      cmds'[a1][b][k1] = Forward(m), cmds'[a2][b][k2] = Forward(m)
               PROVE  a1 = a2 /\ k1 = k2
    BY DEF WaitsOnce
  <2>1. a1 = a2 /\ k1 + of(a1, b) = k2 + of(a2, b)
    <3>1. /\ k1 + of(a1, b) \in 1..Len(cmds[a1][b]) /\ cmds[a1][b][k1 + of(a1, b)] = Forward(m)
          /\ k2 + of(a2, b) \in 1..Len(cmds[a2][b]) /\ cmds[a2][b][k2 + of(a2, b)] = Forward(m)
      BY <1>2
    <3> QED BY <3>1 DEF WaitInv, WaitsOnce
  <2> QED BY <1>3, <2>1
<1>6. WaitsForPeer'
  <2> SUFFICES ASSUME NEW m \in Messages, NEW a \in Nodes, NEW b \in Nodes,
                      NEW k \in 1..Len(cmds'[a][b]), cmds'[a][b][k] = Forward(m)
               PROVE  b \in reach[m] /\ (m \in QoS0 => got[b][m] = 0)
    BY DEF WaitsForPeer
  <2>1. k + of(a, b) \in 1..Len(cmds[a][b]) /\ cmds[a][b][k + of(a, b)] = Forward(m)
    BY <1>2
  <2> QED BY <2>1 DEF WaitInv, WaitsForPeer
<1> QED BY <1>4, <1>5, <1>6 DEF WaitInv, HomeApart, ForwardedToPeers

LEMMA SameQueues ==
    ASSUME WaitInv, UNCHANGED <<got, home, reach, cmds>>
    PROVE  WaitInv'
  BY DEF WaitInv, Unpublished, WaitsOnce, WaitsForPeer, HomeApart, ForwardedToPeers

\* What the libraries hold between them does not grow, or by a message that is
\* not QoS 0, held for a peer.
LEMMA NothingMoreHeld ==
    ASSUME HeldForPeer, UNCHANGED reach, kept' \cup unacked' \subseteq kept \cup unacked
    PROVE  HeldForPeer'
  BY DEF HeldForPeer

LEMMA ForwardHeld ==
    ASSUME TypeOK, HeldForPeer, UNCHANGED reach, NEW i \in Nodes, NEW j \in Nodes,
           NEW c \in HeldCommands, Hold(i, j, c),
           \A m \in Messages : c = Forward(m) => m \notin QoS0 /\ j \in reach[m]
    PROVE  HeldForPeer'
<1>1. kept' \cup unacked' \subseteq kept \cup unacked \cup {Held(i, j, c)}
  BY HoldHolds
<1>2. Held(i, j, c).command = c /\ Held(i, j, c).broker = j
  BY DEF Held
<1> QED BY <1>1, <1>2 DEF HeldForPeer

\* What waited in the queues of a broker that crashes is lost.
LEMMA CrashForward ==
    ASSUME TypeOK, ForwardInv, NEW i \in Nodes, Crash(i)
    PROVE  ForwardInv'
<1>1. /\ \A b \in Nodes : Len(cmds'[i][b]) = 0
      /\ \A a, b \in Nodes : a # i => cmds'[a][b] = cmds[a][b]
      /\ UNCHANGED <<got, home, reach>>
  BY DEF Crash, TypeOK, NoCommands, messageVars
<1>2. \A a, b \in Nodes, m \in Messages : \A k \in 1..Len(cmds'[a][b]) :
          cmds'[a][b][k] = Forward(m) => cmds'[a][b] = cmds[a][b]
  BY <1>1
<1>3. Unpublished'
  <2> SUFFICES ASSUME NEW m \in Messages, home[m] = {}, NEW a \in Nodes, NEW b \in Nodes
               PROVE  /\ reach[m] = {}
                      /\ got[b][m] = 0
                      /\ \A k \in 1..Len(cmds'[a][b]) : cmds'[a][b][k] # Forward(m)
    BY <1>1 DEF Unpublished
  <2>1. /\ reach[m] = {} /\ got[b][m] = 0
        /\ \A k \in 1..Len(cmds[a][b]) : cmds[a][b][k] # Forward(m)
    BY DEF ForwardInv, WaitInv, Unpublished
  <2> QED BY <1>2, <2>1
<1>4. WaitsOnce'
  <2> SUFFICES ASSUME NEW m \in Messages, NEW b \in Nodes, NEW a1 \in Nodes, NEW a2 \in Nodes,
                      NEW k1 \in 1..Len(cmds'[a1][b]), NEW k2 \in 1..Len(cmds'[a2][b]),
                      cmds'[a1][b][k1] = Forward(m), cmds'[a2][b][k2] = Forward(m)
               PROVE  a1 = a2 /\ k1 = k2
    BY DEF WaitsOnce
  <2>1. cmds'[a1][b] = cmds[a1][b] /\ cmds'[a2][b] = cmds[a2][b]
    BY <1>2
  <2> QED BY <2>1 DEF ForwardInv, WaitInv, WaitsOnce
<1>5. WaitsForPeer'
  <2> SUFFICES ASSUME NEW m \in Messages, NEW a \in Nodes, NEW b \in Nodes,
                      NEW k \in 1..Len(cmds'[a][b]), cmds'[a][b][k] = Forward(m)
               PROVE  b \in reach[m] /\ (m \in QoS0 => got[b][m] = 0)
    BY <1>1 DEF WaitsForPeer
  <2>1. cmds'[a][b] = cmds[a][b]
    BY <1>2
  <2> QED BY <2>1 DEF ForwardInv, WaitInv, WaitsForPeer
<1>6. HeldForPeer'
  <2>1. kept' \cup unacked' \subseteq kept \cup unacked
    BY DEF Crash
  <2> QED BY <1>1, <2>1, NothingMoreHeld DEF ForwardInv
<1> QED BY <1>1, <1>3, <1>4, <1>5, <1>6 DEF ForwardInv, WaitInv, HomeApart, ForwardedToPeers

\* A peer of a message's broker publishes it.
LEMMA PeerGets ==
    ASSUME TypeOK, WaitInv, NEW j \in Nodes, NEW m \in Messages,
           j \in reach[m], m \in QoS0 => got[j][m] = 0,
           got' = [got EXCEPT ![j][m] = @ + 1], UNCHANGED messageVars
    PROVE  /\ home[m] # {} /\ ForwardedToPeers'
           /\ \A b \in Nodes, l \in Messages : b # j \/ l # m => got'[b][l] = got[b][l]
<1>1. home[m] # {} /\ j \notin home[m]
  BY DEF WaitInv, Unpublished, HomeApart
<1>2. got \in [Nodes -> [Messages -> Nat]] /\ got[j] \in [Messages -> Nat] /\ got[j][m] \in Nat
  BY DEF TypeOK
<1>3. /\ got'[j][m] = got[j][m] + 1
      /\ \A b \in Nodes, l \in Messages : b # j \/ l # m => got'[b][l] = got[b][l]
  BY <1>2
<1>4. home' = home /\ reach' = reach
  BY DEF messageVars
<1>5. ForwardedToPeers'
  <2> SUFFICES ASSUME NEW b \in Nodes, NEW l \in Messages
               PROVE  /\ got'[b][l] > 0 => b \in home[l] \cup reach[l]
                      /\ b \in home[l] => got'[b][l] = 1
                      /\ l \in QoS0 => got'[b][l] <= 1
    BY <1>4 DEF ForwardedToPeers
  <2>1. CASE b = j /\ l = m
    BY <1>1, <1>2, <1>3, <2>1
  <2>2. CASE b # j \/ l # m
    BY <1>3, <2>2 DEF WaitInv, ForwardedToPeers
  <2> QED BY <2>1, <2>2
<1> QED BY <1>1, <1>3, <1>5

\* A QoS 0 message that is published at the broker it waited for waits there no
\* more: it stood in one queue, once.
LEMMA RunForwardForward ==
    ASSUME TypeOK, ForwardInv, NEW i \in Nodes, NEW j \in Nodes, RunForward(i, j)
    PROVE  ForwardInv'
<1> DEFINE q == cmds[i][j]
           m == Head(q).body
<1>1. /\ cmds' = Popped(i, j) /\ UNCHANGED messageVars /\ UNCHANGED <<home, reach>>
      /\ (got' = got \/ got' = [got EXCEPT ![j][m] = @ + 1])
      /\ q # <<>> /\ Head(q).kind = "forward"
      /\ IF m \in QoS0 THEN UNCHANGED heldVars ELSE Hold(i, j, Forward(m))
  BY ProxyMonitor DEF RunForward, NextCommand, PeerPublishes, historyVars, messageVars
<1>2. /\ \A a, b \in Nodes : a # i \/ b # j => cmds'[a][b] = cmds[a][b]
      /\ Len(q) \in Nat /\ Len(q) > 0
      /\ Len(cmds'[i][j]) = Len(q) - 1
      /\ \A k \in 1..Len(cmds'[i][j]) : cmds'[i][j][k] = q[k + 1]
      /\ Head(q) = q[1] /\ Head(q) \in CommandSet
  BY <1>1, PoppedQueue
<1>3. m \in Messages /\ q[1] = Forward(m) /\ 1 \in 1..Len(q)
  BY <1>1, <1>2 DEF CommandSet, HeldCommands, Forward
<1> DEFINE of(a, b) == IF a = i /\ b = j THEN 1 ELSE 0
<1>4. \A a, b \in Nodes : \A k \in 1..Len(cmds'[a][b]) :
          k + of(a, b) \in 1..Len(cmds[a][b]) /\ cmds'[a][b][k] = cmds[a][b][k + of(a, b)]
  <2> SUFFICES ASSUME NEW a \in Nodes, NEW b \in Nodes, NEW k \in 1..Len(cmds'[a][b])
               PROVE  k + of(a, b) \in 1..Len(cmds[a][b]) /\ cmds'[a][b][k] = cmds[a][b][k + of(a, b)]
    OBVIOUS
  <2>1. CASE a = i /\ b = j
    BY <1>2, <2>1
  <2>2. CASE a # i \/ b # j
    <3>1. of(a, b) = 0 /\ k + 0 = k /\ cmds'[a][b] = cmds[a][b]
      BY <1>2, <2>2
    <3> QED BY <3>1
  <2> QED BY <2>1, <2>2
<1>5. /\ \A a, b \in Nodes : of(a, b) \in Int
      /\ of(i, j) = 1
      /\ \A a \in Nodes : a # i => of(a, j) = 0
  OBVIOUS
<1>6. \A a \in Nodes : \A k \in 1..Len(cmds'[a][j]) : cmds'[a][j][k] # Forward(m)
  <2> SUFFICES ASSUME NEW a \in Nodes, NEW k \in 1..Len(cmds'[a][j]), cmds'[a][j][k] = Forward(m)
               PROVE  FALSE
    OBVIOUS
  <2>1. k + of(a, j) \in 1..Len(cmds[a][j]) /\ cmds[a][j][k + of(a, j)] = Forward(m)
    BY <1>4
  <2>2. a = i /\ k + of(a, j) = 1
    BY <1>3, <2>1 DEF ForwardInv, WaitInv, WaitsOnce
  <2> QED BY <1>5, <2>2
<1>7. j \in reach[m] /\ (m \in QoS0 => got[j][m] = 0)
  BY <1>3 DEF ForwardInv, WaitInv, WaitsForPeer
<1>8. /\ home[m] # {} /\ ForwardedToPeers'
      /\ \A b \in Nodes, l \in Messages : b # j \/ l # m => got'[b][l] = got[b][l]
  <2> HIDE DEF m, q
  <2>1. CASE got' = got
    <3>1. home[m] # {}
      BY <1>3, <1>7 DEF ForwardInv, WaitInv, Unpublished
    <3> QED BY <1>1, <2>1, <3>1 DEF ForwardInv, WaitInv, ForwardedToPeers
  <2>2. CASE got' = [got EXCEPT ![j][m] = @ + 1]
    BY <1>1, <1>3, <1>7, <2>2, PeerGets DEF ForwardInv
  <2> QED BY <1>1, <2>1, <2>2
<1> HIDE DEF of, m, q
<1>9. Unpublished'
  <2> SUFFICES ASSUME NEW l \in Messages, home[l] = {}, NEW a \in Nodes, NEW b \in Nodes
               PROVE  /\ reach[l] = {} /\ got'[b][l] = 0
                      /\ \A k \in 1..Len(cmds'[a][b]) : cmds'[a][b][k] # Forward(l)
    BY <1>1 DEF Unpublished
  <2>1. /\ reach[l] = {} /\ got[b][l] = 0 /\ l # m
        /\ \A k \in 1..Len(cmds[a][b]) : cmds[a][b][k] # Forward(l)
    BY <1>8 DEF ForwardInv, WaitInv, Unpublished
  <2>2. \A k \in 1..Len(cmds'[a][b]) : cmds'[a][b][k] # Forward(l)
    <3> SUFFICES ASSUME NEW k \in 1..Len(cmds'[a][b]), cmds'[a][b][k] = Forward(l)
                 PROVE  FALSE
      OBVIOUS
    <3>1. k + of(a, b) \in 1..Len(cmds[a][b]) /\ cmds[a][b][k + of(a, b)] = Forward(l)
      BY <1>4
    <3> QED BY <2>1, <3>1
  <2> QED BY <1>8, <2>1, <2>2
<1>10. WaitsOnce'
  <2> SUFFICES ASSUME NEW l \in Messages, NEW b \in Nodes, NEW a1 \in Nodes, NEW a2 \in Nodes,
                      NEW k1 \in 1..Len(cmds'[a1][b]), NEW k2 \in 1..Len(cmds'[a2][b]),
                      cmds'[a1][b][k1] = Forward(l), cmds'[a2][b][k2] = Forward(l)
               PROVE  a1 = a2 /\ k1 = k2
    BY DEF WaitsOnce
  <2>1. /\ k1 + of(a1, b) \in 1..Len(cmds[a1][b]) /\ cmds[a1][b][k1 + of(a1, b)] = Forward(l)
        /\ k2 + of(a2, b) \in 1..Len(cmds[a2][b]) /\ cmds[a2][b][k2 + of(a2, b)] = Forward(l)
    BY <1>4
  <2>2. a1 = a2 /\ k1 + of(a1, b) = k2 + of(a2, b)
    BY <2>1 DEF ForwardInv, WaitInv, WaitsOnce
  <2> QED BY <1>5, <2>2
<1>11. WaitsForPeer'
  <2> SUFFICES ASSUME NEW l \in Messages, NEW a \in Nodes, NEW b \in Nodes,
                      NEW k \in 1..Len(cmds'[a][b]), cmds'[a][b][k] = Forward(l)
               PROVE  b \in reach[l] /\ (l \in QoS0 => got'[b][l] = 0)
    BY <1>1 DEF WaitsForPeer
  <2>1. k + of(a, b) \in 1..Len(cmds[a][b]) /\ cmds[a][b][k + of(a, b)] = Forward(l)
    BY <1>4
  <2>2. b \in reach[l] /\ (l \in QoS0 => got[b][l] = 0)
    BY <2>1 DEF ForwardInv, WaitInv, WaitsForPeer
  <2>3. b # j \/ l # m
    BY <1>6
  <2> QED BY <1>8, <2>2, <2>3
<1>12. HeldForPeer'
  <2>1. CASE m \in QoS0
    BY <1>1, <2>1, NothingMoreHeld DEF ForwardInv, heldVars
  <2>2. CASE m \notin QoS0
    <3>1. /\ Forward(m) \in HeldCommands
          /\ \A l \in Messages : Forward(m) = Forward(l) => l = m
      BY <1>3 DEF Forward, HeldCommands
    <3> QED BY <1>1, <1>7, <2>2, <3>1, ForwardHeld DEF ForwardInv
  <2> QED BY <2>1, <2>2
<1> QED BY <1>1, <1>8, <1>9, <1>10, <1>11, <1>12 DEF ForwardInv, WaitInv, HomeApart

\* What a library sends on a new connection is no QoS 0 message.
LEMMA ResendForward ==
    ASSUME TypeOK, ForwardInv, NEW i \in Nodes, NEW j \in Nodes, NEW h \in kept, Resend(i, j, h)
    PROVE  ForwardInv'
<1>1. /\ UNCHANGED messageVars /\ UNCHANGED <<home, reach>>
      /\ kept' \cup unacked' \subseteq kept \cup unacked
  BY DEF Resend, historyVars, messageVars
<1>2. HeldForPeer'
  BY <1>1, NothingMoreHeld DEF ForwardInv
<1>3. CASE h.command.kind = "announce"
  <2>1. UNCHANGED <<got, home, reach, cmds>>
    BY <1>1, <1>3 DEF Resend
  <2> QED BY <1>2, <2>1, SameQueues DEF ForwardInv
<1>4. CASE h.command.kind # "announce"
  <2> DEFINE m == h.command.body
  <2>1. m \in Messages /\ h.command = Forward(m)
    BY <1>4 DEF TypeOK, HeldSet, HeldCommands, Forward
  <2>2. m \notin QoS0 /\ j \in reach[m]
    BY <2>1 DEF ForwardInv, HeldForPeer, Resend
  <2>3. got' = [got EXCEPT ![j][m] = @ + 1] /\ cmds' = cmds
    BY <1>4, ProxyMonitor DEF Resend, PeerPublishes
  <2> HIDE DEF m
  <2>4. /\ home[m] # {} /\ ForwardedToPeers'
        /\ \A b \in Nodes, l \in Messages : b # j \/ l # m => got'[b][l] = got[b][l]
    BY <1>1, <2>1, <2>2, <2>3, PeerGets DEF ForwardInv
  <2>5. Unpublished' /\ WaitsForPeer'
    BY <1>1, <2>2, <2>3, <2>4 DEF ForwardInv, WaitInv, Unpublished, WaitsForPeer
  <2> QED BY <1>1, <1>2, <2>3, <2>4, <2>5 DEF ForwardInv, WaitInv, WaitsOnce, HomeApart
<1> QED BY <1>3, <1>4

\* A message that is published was waiting nowhere; now it waits once for every
\* peer of its broker, which is none of them.
LEMMA ClientPublishForward ==
    ASSUME TypeOK, OneClientPerPeer, ForwardInv,
           NEW b \in Nodes, NEW m \in Messages, ClientPublish(b, m)
    PROVE  ForwardInv'
<1>1. /\ home[m] = {} /\ home' = [home EXCEPT ![m] = {b}]
      /\ reach' = [reach EXCEPT ![m] = Peers(b)]
      /\ UNCHANGED <<kept, unacked>>
      /\ got' = [got EXCEPT ![b][m] = @ + 1]
      /\ cmds' = MosqProxyPass(cmds, b, OrdinaryClient, m)
  BY DEF ClientPublish, heldVars
<1>2. /\ reach[m] = {} /\ \A j \in Nodes : got[j][m] = 0
      /\ \A i, j \in Nodes : \A k \in 1..Len(cmds[i][j]) : cmds[i][j][k] # Forward(m)
  BY <1>1 DEF ForwardInv, WaitInv, Unpublished
<1>3. \A l \in Messages : Forward(l) = Forward(m) => l = m
  BY DEF Forward
<1>4. b \notin Peers(b)
  BY DEF OneClientPerPeer
<1>5. ASSUME NEW l \in Messages, NEW i \in Nodes, NEW j \in Nodes,
             NEW k \in 1..Len(cmds'[i][j]), cmds'[i][j][k] = Forward(l)
      PROVE  \/ k \in 1..Len(cmds[i][j]) /\ cmds[i][j][k] = Forward(l) /\ l # m
             \/ l = m /\ i = b /\ j \in Peers(b) /\ k = Len(cmds[i][j]) + 1
  <2>1. CASE cmds'[i][j] = cmds[i][j]
    BY <1>2, <1>5, <2>1
  <2>2. CASE i = b /\ j \in Peers(b) /\ cmds'[i][j] = Append(cmds[i][j], Forward(m))
    <3>0. Forward(m) \in CommandSet
      BY DEF Forward, CommandSet, HeldCommands
    <3>1. cmds[i][j] \in Seq(CommandSet) /\ Forward(m) \in CommandSet
      BY <3>0 DEF TypeOK
    <3>2. /\ Len(cmds[i][j]) \in Nat /\ Len(cmds'[i][j]) = Len(cmds[i][j]) + 1
          /\ cmds'[i][j][Len(cmds[i][j]) + 1] = Forward(m)
          /\ \A n \in 1..Len(cmds[i][j]) : cmds'[i][j][n] = cmds[i][j][n]
      BY <2>2, <3>1, AppendProperties, LenProperties
    <3>3. k \in 1..Len(cmds[i][j]) \/ k = Len(cmds[i][j]) + 1
      BY <3>2
    <3> QED BY <1>2, <1>3, <1>5, <2>2, <3>2, <3>3
  <2>3. \/ cmds'[i][j] = cmds[i][j]
        \/ i = b /\ j \in Peers(b) /\ cmds'[i][j] = Append(cmds[i][j], Forward(m))
    <3> DEFINE queues == MosqProxyPass(cmds, b, OrdinaryClient, m)
    <3>1. \/ queues[i][j] = cmds[i][j]
          \/ i = b /\ j \in Peers(b) /\ queues[i][j] = Append(cmds[i][j], Forward(m))
      BY ProxyClient
    <3> HIDE DEF queues
    <3>2. cmds' = queues
      BY <1>1 DEF queues
    <3> QED BY <3>1, <3>2
  <2> QED BY <2>1, <2>2, <2>3
<1>6. /\ home'[m] = {b} /\ reach'[m] = Peers(b) /\ got'[b][m] = 1
      /\ \A l \in Messages : l # m => home'[l] = home[l] /\ reach'[l] = reach[l]
      /\ \A j \in Nodes, l \in Messages : j # b \/ l # m => got'[j][l] = got[j][l]
  <2>1. got \in [Nodes -> [Messages -> Nat]] /\ got[b] \in [Messages -> Nat] /\ got[b][m] = 0
    BY <1>2 DEF TypeOK
  <2> QED BY <1>1, <2>1 DEF TypeOK
<1>7. Unpublished'
  <2> SUFFICES ASSUME NEW l \in Messages, home'[l] = {}, NEW i \in Nodes, NEW j \in Nodes
               PROVE  /\ reach'[l] = {} /\ got'[j][l] = 0
                      /\ \A k \in 1..Len(cmds'[i][j]) : cmds'[i][j][k] # Forward(l)
    BY DEF Unpublished
  <2>1. l # m
    BY <1>6
  <2>2. /\ reach[l] = {} /\ got[j][l] = 0
        /\ \A k \in 1..Len(cmds[i][j]) : cmds[i][j][k] # Forward(l)
    BY <1>6, <2>1 DEF ForwardInv, WaitInv, Unpublished
  <2>3. reach'[l] = {} /\ got'[j][l] = 0
    BY <1>6, <2>1, <2>2
  <2> QED BY <1>5, <2>1, <2>2, <2>3
<1>8. WaitsOnce'
  <2> SUFFICES ASSUME NEW l \in Messages, NEW j \in Nodes, NEW i1 \in Nodes, NEW i2 \in Nodes,
                      NEW k1 \in 1..Len(cmds'[i1][j]), NEW k2 \in 1..Len(cmds'[i2][j]),
                      cmds'[i1][j][k1] = Forward(l), cmds'[i2][j][k2] = Forward(l)
               PROVE  i1 = i2 /\ k1 = k2
    BY DEF WaitsOnce
  <2>1. CASE l = m
    <3>1. i1 = b /\ k1 = Len(cmds[i1][j]) + 1
      BY <1>5, <2>1
    <3>2. i2 = b /\ k2 = Len(cmds[i2][j]) + 1
      BY <1>5, <2>1
    <3> QED BY <3>1, <3>2
  <2>2. CASE l # m
    <3>1. k1 \in 1..Len(cmds[i1][j]) /\ cmds[i1][j][k1] = Forward(l)
      BY <1>5, <2>2
    <3>2. k2 \in 1..Len(cmds[i2][j]) /\ cmds[i2][j][k2] = Forward(l)
      BY <1>5, <2>2
    <3> QED BY <3>1, <3>2 DEF ForwardInv, WaitInv, WaitsOnce
  <2> QED BY <2>1, <2>2
<1>9. WaitsForPeer'
  <2> SUFFICES ASSUME NEW l \in Messages, NEW i \in Nodes, NEW j \in Nodes,
                      NEW k \in 1..Len(cmds'[i][j]), cmds'[i][j][k] = Forward(l)
               PROVE  j \in reach'[l] /\ (l \in QoS0 => got'[j][l] = 0)
    BY DEF WaitsForPeer
  <2>1. CASE l = m
    <3>1. j \in Peers(b)
      BY <1>5, <2>1
    <3> QED BY <1>2, <1>4, <1>6, <2>1, <3>1
  <2>2. CASE l # m
    <3>1. k \in 1..Len(cmds[i][j]) /\ cmds[i][j][k] = Forward(l)
      BY <1>5, <2>2
    <3> QED BY <1>6, <2>2, <3>1 DEF ForwardInv, WaitInv, WaitsForPeer
  <2> QED BY <2>1, <2>2
<1>10. HomeApart' /\ ForwardedToPeers'
  <2> SUFFICES ASSUME NEW j \in Nodes, NEW l \in Messages
               PROVE  /\ \A c \in home'[l] : c \notin reach'[l]
                      /\ got'[j][l] > 0 => j \in home'[l] \cup reach'[l]
                      /\ j \in home'[l] => got'[j][l] = 1
                      /\ l \in QoS0 => got'[j][l] <= 1
    BY DEF HomeApart, ForwardedToPeers
  <2>1. CASE l = m
    BY <1>2, <1>4, <1>6, <2>1
  <2>2. CASE l # m
    BY <1>6, <2>2 DEF ForwardInv, WaitInv, HomeApart, ForwardedToPeers
  <2> QED BY <2>1, <2>2
<1>11. HeldForPeer'
  <2> SUFFICES ASSUME NEW l \in Messages, NEW h \in kept \cup unacked, h.command = Forward(l)
               PROVE  l \notin QoS0 /\ h.broker \in reach'[l]
    BY <1>1 DEF HeldForPeer
  <2>1. l \notin QoS0 /\ h.broker \in reach[l]
    BY DEF ForwardInv, HeldForPeer
  <2> QED BY <1>2, <1>6, <2>1
<1> QED BY <1>7, <1>8, <1>9, <1>10, <1>11 DEF ForwardInv, WaitInv

LEMMA MonitorForward ==
    ASSUME TypeOK, ForwardInv, NEW i \in Nodes, NEW j \in Nodes, Monitor(i, j)
    PROVE  ForwardInv'
<1> USE DEF pluginVars, heldVars, monitorVars, serviceVars, brokerVars, messageVars, historyVars
<1>1. CASE Connect(i, j)
  <2>1. /\ cmds' = [cmds EXCEPT ![i][j] = @ \o Hello(i)]
        /\ UNCHANGED <<got, home, reach>>
        /\ kept' \cup unacked' \subseteq kept \cup unacked
    BY <1>1 DEF Connect, KeepUnacked, Hello
  <2>2. /\ \A a, b \in Nodes : a # i \/ b # j => cmds'[a][b] = cmds[a][b]
        /\ Len(cmds[i][j]) \in Nat
        /\ Len(cmds'[i][j]) = Len(cmds[i][j]) + 2
        /\ \A k \in 1..Len(cmds[i][j]) : cmds'[i][j][k] = cmds[i][j][k]
        /\ \A k \in (Len(cmds[i][j]) + 1)..Len(cmds'[i][j]) : cmds'[i][j][k].kind # "forward"
    BY <2>1, HelloQueued
  <2>3. \A k \in 1..Len(cmds'[i][j]) :
            \/ cmds'[i][j][k].kind # "forward"
            \/ k + 0 \in 1..Len(cmds[i][j]) /\ cmds'[i][j][k] = cmds[i][j][k + 0]
    <3> SUFFICES ASSUME NEW k \in 1..Len(cmds'[i][j]), k \notin (Len(cmds[i][j]) + 1)..Len(cmds'[i][j])
                 PROVE  k + 0 \in 1..Len(cmds[i][j]) /\ cmds'[i][j][k] = cmds[i][j][k + 0]
      BY <2>2
    <3>1. k + 0 = k /\ k \in 1..Len(cmds[i][j])
      BY <2>2
    <3> QED BY <2>2, <3>1
  <2>4. 0 \in 0..1
    OBVIOUS
  <2>5. WaitInv'
    BY <2>1, <2>2, <2>3, <2>4, NothingMoreWaits DEF ForwardInv
  <2> QED BY <2>1, <2>5, NothingMoreHeld DEF ForwardInv
<1>2. CASE LinkLost(i, j) \/ \E h \in unacked : Acknowledge(i, j, h)
  <2>1. UNCHANGED <<got, home, reach, cmds>> /\ kept' \cup unacked' \subseteq kept \cup unacked
    BY <1>2 DEF LinkLost, KeepUnacked, Acknowledge
  <2> QED BY <2>1, SameQueues, NothingMoreHeld DEF ForwardInv
<1>3. CASE RunSubscribe(i, j) \/ RunAnnounce(i, j)
  <2>1. cmds' = Popped(i, j) /\ cmds[i][j] # <<>> /\ UNCHANGED <<got, home, reach>>
    BY <1>3 DEF RunSubscribe, RunAnnounce, NextCommand
  <2>2. /\ \A a, b \in Nodes : a # i \/ b # j => cmds'[a][b] = cmds[a][b]
        /\ Len(cmds[i][j]) \in Nat
        /\ Len(cmds'[i][j]) = Len(cmds[i][j]) - 1
        /\ \A k \in 1..Len(cmds'[i][j]) : cmds'[i][j][k] = cmds[i][j][k + 1]
    <3>1. /\ \A a, b \in Nodes : a # i \/ b # j => Popped(i, j)[a][b] = cmds[a][b]
          /\ Len(cmds[i][j]) \in Nat
          /\ Len(Popped(i, j)[i][j]) = Len(cmds[i][j]) - 1
          /\ \A k \in 1..Len(Popped(i, j)[i][j]) : Popped(i, j)[i][j][k] = cmds[i][j][k + 1]
      BY <2>1, PoppedQueue
    <3> QED BY <2>1, <3>1
  <2>3. \A k \in 1..Len(cmds'[i][j]) : k + 1 \in 1..Len(cmds[i][j])
    BY <2>2
  <2>4. 1 \in 0..1
    OBVIOUS
  <2>5. WaitInv'
    BY <2>1, <2>2, <2>3, <2>4, NothingMoreWaits DEF ForwardInv
  <2>6. HeldForPeer'
    <3>1. CASE RunSubscribe(i, j)
      BY <3>1, NothingMoreHeld DEF RunSubscribe, ForwardInv
    <3>2. CASE RunAnnounce(i, j)
      <4>1. /\ Announcement(i) \in HeldCommands
            /\ \A m \in Messages : Announcement(i) # Forward(m)
        BY DEF Announcement, Forward, HeldCommands
      <4> QED BY <2>1, <3>2, <4>1, ForwardHeld DEF RunAnnounce, ForwardInv
    <3> QED BY <1>3, <3>1, <3>2
  <2> QED BY <2>5, <2>6 DEF ForwardInv
<1>4. CASE RunForward(i, j)
  BY <1>4, RunForwardForward
<1>5. CASE \E h \in kept : Resend(i, j, h)
  BY <1>5, ResendForward
<1> QED BY <1>1, <1>2, <1>3, <1>4, <1>5 DEF Monitor

------------------------------------------------------------------------------
\* IInv holds in every reachable state of the brokers, their plugins and the
\* service (cluster_plugin_context.cpp, mosquitto_context_manager.cpp).
THEOREM Invariance == Spec => []IInv
<1>1. ASSUME IInv, [Next]_vars PROVE IInv'
  <2> USE DEF pluginVars, heldVars, monitorVars, serviceVars, brokerVars, messageVars, historyVars
  <2>0. TypeOK /\ PeersInv /\ JoinInv /\ ForwardInv /\ OneClientPerPeer
    BY <1>1 DEF IInv, PeersInv
  <2>1. ASSUME NEW i \in Nodes, Plugin(i) PROVE IInv'
    <3>1. TypeOK' /\ PeersInv'
      BY <2>0, <2>1, PluginTypeAndPeers
    <3>2. JoinInv'
      BY <2>0, <2>1, PluginJoin
    <3>3. ForwardInv'
      <4>1. CASE Crash(i)
        BY <2>0, <4>1, CrashForward
      <4>2. CASE ~Crash(i)
        <5>1. UNCHANGED <<got, home, reach, cmds, kept, unacked>>
          BY <2>1, <4>2 DEF Plugin, Initialize, ServiceRegister, ServiceReply, JoinFails, AddPeer,
                            InitializeReturns
        <5> QED BY <2>0, <5>1, SameQueues, NothingMoreHeld DEF ForwardInv
      <4> QED BY <4>1, <4>2
    <3> QED BY <3>1, <3>2, <3>3 DEF IInv
  <2>2. ASSUME NEW i \in Nodes, NEW j \in Nodes, Monitor(i, j) PROVE IInv'
    <3>1. TypeOK' /\ PeersInv' /\ UNCHANGED <<pluginVars, serviceVars, historyVars>>
      BY <2>0, <2>2, MonitorType
    <3>2. JoinInv'
      BY <2>0, <3>1, OtherJoin
    <3>3. ForwardInv'
      BY <2>0, <2>2, MonitorForward
    <3> QED BY <3>1, <3>2, <3>3 DEF IInv
  <2>3. ASSUME NEW b \in Nodes, NEW m \in Messages, ClientPublish(b, m) PROVE IInv'
    <3>1. TypeOK' /\ PeersInv'
      BY <2>0, <2>3, OtherType
    <3>2. JoinInv'
      BY <2>0, <2>3, OtherJoin DEF ClientPublish
    <3>3. ForwardInv'
      BY <2>0, <2>3, ClientPublishForward
    <3> QED BY <3>1, <3>2, <3>3 DEF IInv
  <2>4. CASE ServiceRestart
    <3>1. TypeOK' /\ PeersInv'
      BY <2>0, <2>4, OtherType
    <3>2. JoinInv' /\ ForwardInv'
      BY <2>0, <2>4, RestartJoin, SameQueues, NothingMoreHeld DEF ServiceRestart, ForwardInv
    <3> QED BY <3>1, <3>2 DEF IInv
  <2>5. CASE UNCHANGED vars
    <3>1. TypeOK'
      BY <2>0, <2>5 DEF vars, TypeOK
    <3>2. PeersInv'
      BY <2>0, <2>5 DEF vars, PeersInv, OneClientPerPeer, OneSessionPerBroker, ListFromReply, Peers
    <3>3. JoinInv' /\ ForwardInv'
      BY <2>0, <2>5, OtherJoin, SameQueues, NothingMoreHeld DEF vars, ForwardInv
    <3> QED BY <3>1, <3>2, <3>3 DEF IInv
  <2> QED BY <1>1, <2>1, <2>2, <2>3, <2>4, <2>5 DEF Next
<1> QED BY <1>1, InitIInv, PTL DEF Spec

\* The state of brokers, plugins, monitors and service is always well typed
\* (cluster_plugin_context.cpp, mosq_cluster_monitor.cpp).
THEOREM TypeCorrect == Spec => []TypeOK
  BY Invariance, PTL DEF IInv

\* Neither the reply nor the callbacks of the monitors give a node two clients for
\* one peer or a client for itself (MaintainProxyInstances,
\* cluster_plugin_context.cpp).
THEOREM OneClient == Spec => []OneClientPerPeer
  BY Invariance, PTL DEF IInv, PeersInv

\* Whatever the monitors announce, only the answer to the join request fills the
\* list: they share a client id at every broker (mosq_cluster_monitor.cpp).
THEOREM OnlyTheReply == Spec => []PeersComeFromReply
<1>1. IInv => PeersComeFromReply
  BY DEF IInv, PeersInv, ListFromReply, PeersComeFromReply
<1> QED BY <1>1, Invariance, PTL

\* Two nodes the same run of the service has answered know each other, at least
\* one the other, however their requests and a restart of the service interleave
\* (route_initialize.cpp, mosquitto_context_manager.cpp).
THEOREM JoinedPeersMeet == Spec => []PeersMeet
<1>1. IInv => PeersMeet
  <2> SUFFICES ASSUME IInv, NEW i \in Nodes, NEW j \in Nodes, i # j,
                      phase[i] = "up", phase[j] = "up",
                      joinedIn[i] # 0, joinedIn[i] = joinedIn[j]
               PROVE  j \in Peers(i) \/ i \in Peers(j)
    BY DEF PeersMeet
  <2>1. j \in answered[i] \/ i \in answered[j]
    BY DEF IInv, JoinInv, LaterReplyHasTheOther, Replied
  <2>2. todo[i] = {} /\ todo[j] = {}
    BY DEF IInv, PeersInv, ListFromReply
  <2> QED BY <2>1, <2>2 DEF IInv, JoinInv, ReplyIsAdded, Replied
<1> QED BY <1>1, Invariance, PTL

\* A message is published at the broker of its client, there once, and at that
\* broker's peers and nowhere else, although the peers could forward what they
\* publish; a peer publishes a QoS 0 message at most once, any other perhaps again
\* on a new connection (mosquitto_auth_acl_check and MosqProxyPass, which passes
\* the QoS on).
THEOREM PublishedAtPeers == Spec => []ForwardedToPeers
  BY Invariance, PTL DEF IInv, ForwardInv, WaitInv

------------------------------------------------------------------------------
\* Publishing and forwarding, step by step, are the steps of the multicast.

\* What is at the head of a queue is for a broker of the message's group, which
\* does not have it if it is a QoS 0 message.
LEMMA ForwardDelivers ==
    ASSUME TypeOK, ForwardInv, NEW i \in Nodes, NEW j \in Nodes, RunForward(i, j)
    PROVE  [Group!Next]_<<home, reach, got>>
<1> DEFINE q == cmds[i][j]
           m == Head(q).body
<1>1. /\ UNCHANGED <<home, reach>>
      /\ (got' = got \/ got' = [got EXCEPT ![j][m] = @ + 1])
      /\ q # <<>> /\ Head(q).kind = "forward"
  BY DEF RunForward, NextCommand, PeerPublishes, historyVars, messageVars
<1>2. Len(q) \in Nat /\ Len(q) > 0 /\ Head(q) = q[1] /\ Head(q) \in CommandSet
  BY <1>1, PoppedQueue
<1>3. m \in Messages /\ q[1] = Forward(m) /\ 1 \in 1..Len(q)
  BY <1>1, <1>2 DEF CommandSet, HeldCommands, Forward
<1>4. j \in reach[m] /\ (m \in QoS0 => got[j][m] = 0)
  BY <1>3 DEF ForwardInv, WaitInv, WaitsForPeer
<1> HIDE DEF m, q
<1>5. CASE got' = got
  BY <1>1, <1>5
<1>6. CASE got' = [got EXCEPT ![j][m] = @ + 1]
  <2>1. Group!Deliver(j, m)
    BY <1>1, <1>4, <1>6 DEF Group!Deliver, Group!Gets
  <2> QED BY <1>3, <2>1 DEF Group!Next
<1> QED BY <1>1, <1>5, <1>6

\* What a library has kept is for such a broker too, and is no QoS 0 message.
LEMMA ResendDelivers ==
    ASSUME TypeOK, ForwardInv, NEW i \in Nodes, NEW j \in Nodes, NEW h \in kept, Resend(i, j, h)
    PROVE  [Group!Next]_<<home, reach, got>>
<1>1. UNCHANGED <<home, reach>>
  BY DEF Resend, historyVars, messageVars
<1>2. CASE h.command.kind = "announce"
  BY <1>1, <1>2 DEF Resend
<1>3. CASE h.command.kind # "announce"
  <2> DEFINE m == h.command.body
  <2>1. m \in Messages /\ h.command = Forward(m)
    BY <1>3 DEF TypeOK, HeldSet, HeldCommands, Forward
  <2>2. m \notin QoS0 /\ j \in reach[m]
    BY <2>1 DEF ForwardInv, HeldForPeer, Resend
  <2>3. got' = [got EXCEPT ![j][m] = @ + 1]
    BY <1>3 DEF Resend, PeerPublishes
  <2> HIDE DEF m
  <2>4. Group!Deliver(j, m)
    BY <1>1, <2>2, <2>3 DEF Group!Deliver, Group!Gets
  <2> QED BY <2>1, <2>4 DEF Group!Next
<1> QED BY <1>2, <1>3

LEMMA PublishIsPublish ==
    ASSUME TypeOK, OneClientPerPeer, ForwardInv,
           NEW b \in Nodes, NEW m \in Messages, ClientPublish(b, m)
    PROVE  Group!Publish(b, m)
<1>1. /\ home[m] = {} /\ home' = [home EXCEPT ![m] = {b}]
      /\ reach' = [reach EXCEPT ![m] = Peers(b)]
      /\ got' = [got EXCEPT ![b][m] = @ + 1]
  BY DEF ClientPublish
<1>2. got[b][m] = 0
  BY <1>1 DEF ForwardInv, WaitInv, Unpublished
<1>3. Peers(b) \in SUBSET (Nodes \ {b})
  <2>1. cluster_nodes[b] \in Seq(Nodes)
    BY DEF TypeOK
  <2>2. \A k \in 1..Len(cluster_nodes[b]) : cluster_nodes[b][k] \in Nodes
    BY <2>1, ElementOfSeq
  <2> QED BY <2>2 DEF Peers, Names, OneClientPerPeer
<1> QED BY <1>1, <1>2, <1>3 DEF Group!Publish, Group!Gets

\* The queues of the monitors, what the libraries keep, the test for proxy clients
\* in the ACL hook and the loss of QoS 0 messages that meet no connection make a
\* multicast to a group nobody changes, which delivers at most once where QoS 0
\* asks for it (mosquitto_auth_acl_check, MosqProxyPass).
THEOREM MulticastRefined == Spec => ForwardingIsMulticast
<1>1. Init => Group!Init
  BY DEF Init, Group!Init
<1>2. ASSUME IInv, [Next]_vars PROVE [Group!Next]_<<home, reach, got>>
  <2> USE DEF pluginVars, heldVars, monitorVars, serviceVars, brokerVars, messageVars, historyVars
  <2>1. TypeOK /\ ForwardInv /\ OneClientPerPeer
    BY <1>2 DEF IInv, PeersInv
  <2>2. ASSUME NEW i \in Nodes, Plugin(i) PROVE UNCHANGED <<home, reach, got>>
    BY <2>2 DEF Plugin, Initialize, ServiceRegister, ServiceReply, JoinFails, AddPeer,
                InitializeReturns, Crash
  <2>3. ASSUME NEW i \in Nodes, NEW j \in Nodes, Monitor(i, j),
               ~RunForward(i, j), ~ \E h \in kept : Resend(i, j, h)
        PROVE  UNCHANGED <<home, reach, got>>
    BY <2>3 DEF Monitor, Connect, LinkLost, RunSubscribe, RunAnnounce, Acknowledge
  <2>4. ASSUME NEW i \in Nodes, NEW j \in Nodes, RunForward(i, j)
        PROVE  [Group!Next]_<<home, reach, got>>
    BY <2>1, <2>4, ForwardDelivers
  <2>5. ASSUME NEW i \in Nodes, NEW j \in Nodes, NEW h \in kept, Resend(i, j, h)
        PROVE  [Group!Next]_<<home, reach, got>>
    BY <2>1, <2>5, ResendDelivers
  <2>6. ASSUME NEW b \in Nodes, NEW m \in Messages, ClientPublish(b, m)
        PROVE  Group!Next
    BY <2>1, <2>6, PublishIsPublish DEF Group!Next
  <2>7. CASE ServiceRestart \/ UNCHANGED vars
    BY <2>7 DEF ServiceRestart, vars
  <2> QED BY <1>2, <2>2, <2>3, <2>4, <2>5, <2>6, <2>7 DEF Next
<1>3. IInv /\ [Next]_vars => [Group!Next]_(Group!vars)
  BY <1>2 DEF Group!vars
<1> QED BY <1>1, <1>3, Invariance, PTL DEF Spec, ForwardingIsMulticast, Group!Spec
=============================================================================
