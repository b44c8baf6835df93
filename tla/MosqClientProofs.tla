-------------------------- MODULE MosqClientProofs ---------------------------
(***************************************************************************)
(* For every bound on the delays, the connections and the messages: which  *)
(* of the numbers it has given to its commands the client of a peer has    *)
(* run, is running, has queued or is queuing, and in which order.          *)
(***************************************************************************)
EXTENDS MosqClient, SequenceTheorems, TLAPS

\* A number that was given is in one place: a thread has drawn it or a command
\* that was handed over has it.
Numbered ==
    /\ \A k \in 1..Len(Handed) : Handed[k].id \in 1..command_id
    /\ \A t \in Callers : drawn[t] <= command_id
    /\ \A n \in 1..command_id : \/ \E t \in Callers : drawn[t] = n
                               \/ \E k \in 1..Len(Handed) : Handed[k].id = n
InThreadOrder ==
    \A k, l \in 1..Len(Handed) :
        k < l => /\ Handed[k].id # Handed[l].id
                 /\ Handed[k].by = Handed[l].by => Handed[k].id < Handed[l].id

\* A drawn number is nobody else's, and the thread that has it has handed over only
\* smaller ones.
DrawnApart ==
    \A t \in Callers : drawn[t] # 0 =>
        /\ \A u \in Callers : drawn[u] = drawn[t] => u = t
        /\ \A k \in 1..Len(Handed) : /\ Handed[k].id # drawn[t]
                                     /\ Handed[k].by = t => Handed[k].id < drawn[t]

NumbersInv == Numbered /\ InThreadOrder /\ DrawnApart

\* Before Start there is no PublishLoop, so no command is in hand.
NotStarted == main = "new" => pub = "none"

IInv == TypeOK /\ NotStarted /\ NumbersInv

------------------------------------------------------------------------------
LEMMA NumbersAreEnough ==
    ASSUME TypeOK, NumbersInv
    PROVE  EachThreadInOrder
<1> DEFINE queued  == {Handed[k].id : k \in 1..Len(Handed)}
           drawing == {drawn[t] : t \in Callers} \ {0}
<1>1. \A t \in Callers : drawn[t] \in Nat
  BY DEF TypeOK
<1>2. queued \cup drawing \subseteq 1..command_id
  BY <1>1 DEF NumbersInv, Numbered, TypeOK
<1>3. 1..command_id \subseteq queued \cup drawing
  BY DEF NumbersInv, Numbered
<1>4. queued \cap drawing = {}
  BY DEF NumbersInv, DrawnApart
<1> QED BY <1>2, <1>3, <1>4 DEF EachThreadInOrder, NumbersInv, InThreadOrder

LEMMA HandedType == TypeOK => Handed \in Seq(Commands) /\ Len(Handed) \in Nat
<1> SUFFICES ASSUME TypeOK PROVE Handed \in Seq(Commands)
  BY LenProperties
<1>1. ran \o command \in Seq(Commands) /\ commands \in Seq(Commands)
  BY ConcatProperties DEF TypeOK
<1> QED BY <1>1, ConcatProperties DEF Handed

------------------------------------------------------------------------------
LEMMA InitIInv == Init => IInv
<1> SUFFICES ASSUME Init PROVE IInv
  OBVIOUS
<1>1. /\ commands = <<>> /\ command = <<>> /\ ran = <<>>
      /\ commands \in Seq(Commands) /\ Len(commands) = 0
      /\ command \in Seq(Commands) /\ Len(command) = 0
      /\ ran \in Seq(Commands)
      /\ command_id = 0 /\ drawn \in [Callers -> Nat]
      /\ \A t \in Callers : drawn[t] = 0
  BY DEF Init
<1>2. /\ delay \in Nat /\ connects \in 0..MaxConnect /\ publishes \in 0..MaxPublish
      /\ pub = "none"
  BY DelayAssumption, BoundsAssumption DEF Init
<1>3. /\ state \in States /\ subscribed \in BOOLEAN /\ count \in Nat
      /\ main = "new" /\ sub = "none" /\ link = "down"
  BY DEF Init, States
<1>4. TypeOK
  BY <1>1, <1>2, <1>3 DEF TypeOK
<1>5. Len(Handed) = 0
  <2>1. Handed = <<>>
    BY <1>1, ConcatEmptySeq DEF Handed
  <2> QED BY <2>1
<1>6. NumbersInv
  BY <1>1, <1>5 DEF NumbersInv, Numbered, InThreadOrder, DrawnApart
<1> QED BY <1>2, <1>4, <1>6 DEF IInv, NotStarted

\* What hands over no command and draws no number leaves the numbers alone.
LEMMA SameNumbers ==
    ASSUME NumbersInv, Handed' = Handed, UNCHANGED <<command_id, drawn>>
    PROVE  NumbersInv'
  BY DEF NumbersInv, Numbered, InThreadOrder, DrawnApart

LEMMA OtherSteps ==
    ASSUME IInv, UNCHANGED <<ran, command, commands, command_id, drawn>>
    PROVE  NumbersInv'
<1>1. Handed' = Handed
  BY DEF Handed
<1> QED BY <1>1, SameNumbers DEF IInv

\* A number that is drawn is larger than all others.
LEMMA DrawStep ==
    ASSUME IInv, NEW t \in Callers, next_command_id(t), UNCHANGED <<ran, command>>
    PROVE  /\ command_id' \in Nat /\ drawn' \in [Callers -> Nat] /\ commands' = commands
           /\ NumbersInv'
<1>1. /\ command_id \in Nat /\ drawn \in [Callers -> Nat]
      /\ drawn[t] = 0 /\ command_id' = command_id + 1 /\ commands' = commands
      /\ drawn'[t] = command_id + 1 /\ drawn' \in [Callers -> Nat]
      /\ \A u \in Callers : u # t => drawn'[u] = drawn[u]
  BY DEF next_command_id, IInv, TypeOK
<1>2. Handed' = Handed
  BY <1>1 DEF Handed
<1>3. \A k \in 1..Len(Handed) : Handed[k].id \in Nat /\ Handed[k].id <= command_id /\ Handed[k].id >= 1
  BY <1>1 DEF IInv, NumbersInv, Numbered
<1>4. Numbered'
  <2> SUFFICES ASSUME NEW n \in 1..(command_id + 1)
               PROVE  \/ \E u \in Callers : drawn'[u] = n
                      \/ \E k \in 1..Len(Handed) : Handed[k].id = n
    <3>1. \A k \in 1..Len(Handed) : Handed[k].id \in 1..(command_id + 1)
      BY <1>1, <1>3
    <3>2. \A u \in Callers : drawn'[u] <= command_id + 1
      BY <1>1 DEF IInv, NumbersInv, Numbered
    <3> QED BY <1>1, <1>2, <3>1, <3>2 DEF Numbered
  <2>1. CASE n = command_id + 1
    BY <1>1, <2>1
  <2>2. CASE n # command_id + 1
    <3>1. n \in 1..command_id /\ n # 0
      BY <1>1, <2>2
    <3>2. CASE \E u \in Callers : drawn[u] = n
      BY <1>1, <3>1, <3>2
    <3> QED BY <3>1, <3>2 DEF IInv, NumbersInv, Numbered
  <2> QED BY <2>1, <2>2
<1>5. InThreadOrder'
  BY <1>2 DEF IInv, NumbersInv, InThreadOrder
<1>6. DrawnApart'
  <2> SUFFICES ASSUME NEW u \in Callers, drawn'[u] # 0
               PROVE  /\ \A v \in Callers : drawn'[v] = drawn'[u] => v = u
                      /\ \A k \in 1..Len(Handed) :
                            /\ Handed[k].id # drawn'[u]
                            /\ Handed[k].by = u => Handed[k].id < drawn'[u]
    BY <1>2 DEF DrawnApart
  <2>1. \A v \in Callers : drawn[v] \in Nat /\ drawn[v] <= command_id
    BY <1>1 DEF IInv, NumbersInv, Numbered
  <2>2. CASE u = t
    BY <1>1, <1>3, <2>1, <2>2
  <2>3. CASE u # t
    BY <1>1, <2>1, <2>3 DEF IInv, NumbersInv, DrawnApart
  <2> QED BY <2>2, <2>3
<1> QED BY <1>1, <1>4, <1>5, <1>6 DEF NumbersInv

\* A command is queued: it stands behind all others, of which those of its thread
\* have smaller numbers.
LEMMA PushStep ==
    ASSUME IInv, NEW t \in Callers, NEW kind \in Kinds, Push(t, kind),
           UNCHANGED <<ran, command>>
    PROVE  /\ command_id' = command_id /\ drawn' \in [Callers -> Nat]
           /\ commands' \in Seq(Commands)
           /\ NumbersInv'
<1> DEFINE c == [id |-> drawn[t], by |-> t, kind |-> kind]
<1>1. /\ command_id \in Nat /\ drawn \in [Callers -> Nat]
      /\ drawn[t] # 0 /\ command_id' = command_id /\ commands' = Append(commands, c)
      /\ drawn'[t] = 0 /\ drawn' \in [Callers -> Nat]
      /\ \A u \in Callers : u # t => drawn'[u] = drawn[u]
  BY DEF Push, IInv, TypeOK
<1>2. c \in Commands /\ c.id = drawn[t] /\ c.by = t
  BY <1>1 DEF Commands
<1> HIDE DEF c
<1>3. /\ Handed \in Seq(Commands) /\ Len(Handed) \in Nat
      /\ ran \o command \in Seq(Commands) /\ commands \in Seq(Commands)
  BY HandedType, ConcatProperties DEF IInv, TypeOK
<1>4. commands' \in Seq(Commands) /\ Handed' = Append(Handed, c)
  <2> DEFINE before == ran \o command
  <2>1. before \in Seq(Commands)
    BY <1>3
  <2>2. Handed' = before \o Append(commands, c) /\ Handed = before \o commands
    BY <1>1 DEF Handed
  <2> HIDE DEF before
  <2>3. Append(commands, c) = commands \o <<c>> /\ Append(Handed, c) = Handed \o <<c>>
    BY <1>2, <1>3, AppendIsConcat
  <2>4. <<c>> \in Seq(Commands)
    BY <1>2
  <2>5. (before \o commands) \o <<c>> = before \o (commands \o <<c>>)
    BY <1>3, <2>1, <2>4, ConcatAssociative
  <2>6. Append(commands, c) \in Seq(Commands)
    BY <1>2, <1>3, AppendProperties
  <2> QED BY <1>1, <2>2, <2>3, <2>5, <2>6
<1>5. /\ Len(Handed') = Len(Handed) + 1 /\ Handed'[Len(Handed) + 1] = c
      /\ \A k \in 1..Len(Handed) : Handed'[k] = Handed[k]
      /\ \A k \in 1..Len(Handed') : k \in 1..Len(Handed) \/ k = Len(Handed) + 1
  <2>1. /\ Len(Append(Handed, c)) = Len(Handed) + 1 /\ Append(Handed, c)[Len(Handed) + 1] = c
        /\ \A k \in 1..Len(Handed) : Append(Handed, c)[k] = Handed[k]
    BY <1>2, <1>3, AppendProperties
  <2> QED BY <1>3, <1>4, <2>1
<1>6. /\ \A k \in 1..Len(Handed) : /\ Handed[k].id \in 1..command_id /\ Handed[k].id # drawn[t]
                                   /\ Handed[k].by = t => Handed[k].id < drawn[t]
      /\ drawn[t] \in 1..command_id
  BY <1>1 DEF IInv, NumbersInv, Numbered, DrawnApart
<1>7. Numbered'
  <2>1. \A k \in 1..Len(Handed') : Handed'[k].id \in 1..command_id
    BY <1>2, <1>5, <1>6
  <2>2. \A u \in Callers : drawn'[u] <= command_id
    BY <1>1 DEF IInv, NumbersInv, Numbered
  <2>3. ASSUME NEW n \in 1..command_id
        PROVE  \/ \E u \in Callers : drawn'[u] = n
               \/ \E k \in 1..Len(Handed') : Handed'[k].id = n
    <3>1. CASE n = drawn[t]
      <4>1. Len(Handed) + 1 \in 1..Len(Handed')
        BY <1>3, <1>5
      <4> QED BY <1>2, <1>5, <3>1, <4>1
    <3>2. CASE n # drawn[t] /\ \E u \in Callers : drawn[u] = n
      BY <1>1, <3>2
    <3>3. CASE \E k \in 1..Len(Handed) : Handed[k].id = n
      <4>1. PICK k \in 1..Len(Handed) : Handed[k].id = n
        BY <3>3
      <4>2. k \in 1..Len(Handed') /\ Handed'[k].id = n
        BY <1>3, <1>5, <4>1
      <4> QED BY <4>2
    <3> QED BY <3>1, <3>2, <3>3 DEF IInv, NumbersInv, Numbered
  <2> QED BY <1>1, <2>1, <2>2, <2>3 DEF Numbered
<1>8. InThreadOrder'
  <2> SUFFICES ASSUME NEW k \in 1..Len(Handed'), NEW l \in 1..Len(Handed'), k < l
               PROVE  /\ Handed'[k].id # Handed'[l].id
                      /\ Handed'[k].by = Handed'[l].by => Handed'[k].id < Handed'[l].id
    BY DEF InThreadOrder
  <2>1. k \in 1..Len(Handed)
    BY <1>3, <1>5
  <2>2. CASE l = Len(Handed) + 1
    BY <1>2, <1>5, <1>6, <2>1, <2>2
  <2>3. CASE l \in 1..Len(Handed)
    BY <1>5, <2>1, <2>3 DEF IInv, NumbersInv, InThreadOrder
  <2> QED BY <1>5, <2>2, <2>3
<1>9. DrawnApart'
  <2> SUFFICES ASSUME NEW u \in Callers, drawn'[u] # 0
               PROVE  /\ \A v \in Callers : drawn'[v] = drawn'[u] => v = u
                      /\ \A k \in 1..Len(Handed') :
                            /\ Handed'[k].id # drawn'[u]
                            /\ Handed'[k].by = u => Handed'[k].id < drawn'[u]
    BY DEF DrawnApart
  <2>1. u # t /\ drawn'[u] = drawn[u] /\ drawn[u] # drawn[t]
    BY <1>1 DEF IInv, NumbersInv, DrawnApart
  <2>2. \A v \in Callers : drawn'[v] = drawn'[u] => v = u
    BY <1>1, <2>1 DEF IInv, NumbersInv, DrawnApart
  <2>3. ASSUME NEW k \in 1..Len(Handed')
        PROVE  /\ Handed'[k].id # drawn'[u]
               /\ Handed'[k].by = u => Handed'[k].id < drawn'[u]
    <3>1. CASE k = Len(Handed) + 1
      BY <1>2, <1>5, <2>1, <3>1
    <3>2. CASE k \in 1..Len(Handed)
      BY <1>5, <2>1, <3>2 DEF IInv, NumbersInv, DrawnApart
    <3> QED BY <1>5, <3>1, <3>2
  <2> QED BY <2>2, <2>3
<1> QED BY <1>1, <1>4, <1>7, <1>8, <1>9 DEF NumbersInv

LEMMA NextDelayType ==
    ASSUME NEW d \in Nat, NEW n \in Nat
    PROVE  NextDelay(d, n) \in Nat
<1>1. d * (n + 1) \in Nat /\ n + 1 \in Nat
  OBVIOUS
<1>2. d * (n + 1) * (n + 1) \in Nat
  BY <1>1
<1> QED BY <1>2, DelayAssumption DEF NextDelay

LEMMA MainSteps ==
    ASSUME IInv, Start \/ Stop \/ JoinPublish \/ JoinSubscribe \/ LinkLost
           \/ ForwardNumber \/ ForwardPush
    PROVE  IInv'
<1> USE DEF vars, subVars, pubVars, netVars, cmdVars, States
<1>1. CASE Start
  <2>1. (TypeOK /\ NotStarted)'
    BY <1>1 DEF Start, IInv, TypeOK, NotStarted
  <2> QED BY <1>1, <2>1, OtherSteps DEF Start, IInv
<1>2. CASE Stop
  <2>1. (TypeOK /\ NotStarted)'
    BY <1>2 DEF Stop, IInv, TypeOK, NotStarted
  <2> QED BY <1>2, <2>1, OtherSteps DEF Stop, IInv
<1>3. CASE JoinPublish
  <2>1. (TypeOK /\ NotStarted)'
    BY <1>3 DEF JoinPublish, IInv, TypeOK, NotStarted
  <2> QED BY <1>3, <2>1, OtherSteps DEF JoinPublish, IInv
<1>4. CASE JoinSubscribe
  <2>1. (TypeOK /\ NotStarted)'
    BY <1>4 DEF JoinSubscribe, IInv, TypeOK, NotStarted
  <2> QED BY <1>4, <2>1, OtherSteps DEF JoinSubscribe, IInv
<1>5. CASE LinkLost
  <2>1. (TypeOK /\ NotStarted)'
    BY <1>5 DEF LinkLost, IInv, TypeOK, NotStarted
  <2> QED BY <1>5, <2>1, OtherSteps DEF LinkLost, IInv
<1>6. CASE ForwardNumber
  <2>1. command_id' \in Nat /\ drawn' \in [Callers -> Nat] /\ commands' = commands /\ NumbersInv'
    BY <1>6, DrawStep DEF ForwardNumber, Callers
  <2>2. publishes' \in 0..MaxPublish
    BY <1>6, BoundsAssumption DEF ForwardNumber, IInv, TypeOK, NotStarted
  <2>3. (TypeOK /\ NotStarted)'
    BY <1>6, <2>1, <2>2 DEF ForwardNumber, IInv, TypeOK, NotStarted
  <2> QED BY <2>1, <2>3 DEF IInv
<1>7. CASE ForwardPush
  <2>1. /\ command_id' = command_id /\ drawn' \in [Callers -> Nat]
        /\ commands' \in Seq(Commands) /\ NumbersInv'
    BY <1>7, PushStep DEF ForwardPush, Callers, Kinds
  <2>2. (TypeOK /\ NotStarted)'
    BY <1>7, <2>1 DEF ForwardPush, IInv, TypeOK, NotStarted
  <2> QED BY <2>1, <2>2 DEF IInv
<1> QED BY <1>1, <1>2, <1>3, <1>4, <1>5, <1>6, <1>7

LEMMA SubscribeLoopSteps ==
    ASSUME IInv, SubscribeLoop
    PROVE  IInv'
<1> USE DEF subVars, pubVars, netVars, cmdVars, States
<1>1. CASE OnConnectSubscribe
  <2>1. /\ command_id' = command_id /\ drawn' \in [Callers -> Nat]
        /\ commands' \in Seq(Commands) /\ NumbersInv'
    BY <1>1, PushStep DEF OnConnectSubscribe, Callers, Kinds
  <2>2. (TypeOK /\ NotStarted)'
    BY <1>1, <2>1 DEF OnConnectSubscribe, IInv, TypeOK, NotStarted
  <2> QED BY <2>1, <2>2 DEF IInv
<1>2. CASE OnConnectAnnounce
  <2>1. /\ command_id' = command_id /\ drawn' \in [Callers -> Nat]
        /\ commands' \in Seq(Commands) /\ NumbersInv'
    BY <1>2, PushStep DEF OnConnectAnnounce, Callers, Kinds
  <2>2. (TypeOK /\ NotStarted)'
    BY <1>2, <2>1 DEF OnConnectAnnounce, IInv, TypeOK, NotStarted
  <2> QED BY <2>1, <2>2 DEF IInv
<1>3. CASE Sleep
  <2>1. delay' \in Nat /\ count' \in Nat
    BY <1>3, NextDelayType DEF Sleep, IInv, TypeOK, NotStarted
  <2>2. (TypeOK /\ NotStarted)'
    BY <1>3, <2>1 DEF Sleep, IInv, TypeOK, NotStarted
  <2> QED BY <1>3, <2>2, OtherSteps DEF Sleep, IInv
<1>4. CASE ConnectSucceeds
  <2>1. connects' \in 0..MaxConnect
    BY <1>4, BoundsAssumption DEF ConnectSucceeds, IInv, TypeOK, NotStarted
  <2>2. (TypeOK /\ NotStarted)'
    BY <1>4, <2>1 DEF ConnectSucceeds, IInv, TypeOK, NotStarted
  <2> QED BY <1>4, <2>2, OtherSteps DEF ConnectSucceeds, IInv
<1>5. CASE LoopIdle \/ LoopConnack
  <2>1. (TypeOK /\ NotStarted)'
    BY <1>5 DEF LoopIdle, LoopConnack, Dispatch, EmptyCallback, Callbacks, IInv, TypeOK, NotStarted
  <2> QED BY <1>5, <2>1, OtherSteps DEF LoopIdle, LoopConnack, Dispatch, EmptyCallback, IInv
<1>6. CASE SubTest \/ ConnectFails \/ SetRunning \/ LoopError \/ LoopTest \/ SetReconnecting
  <2> USE DEF SubTest, ConnectFails, SetRunning, LoopError, LoopTest, SetReconnecting
  <2>1. (TypeOK /\ NotStarted)'
    BY <1>6 DEF IInv, TypeOK, NotStarted
  <2> QED BY <1>6, <2>1, OtherSteps DEF IInv
<1>7. CASE OnConnectNumber
  <2>1. command_id' \in Nat /\ drawn' \in [Callers -> Nat] /\ commands' = commands /\ NumbersInv'
    BY <1>7, DrawStep DEF OnConnectNumber, Callers
  <2>2. (TypeOK /\ NotStarted)'
    BY <1>7, <2>1 DEF OnConnectNumber, IInv, TypeOK, NotStarted
  <2> QED BY <2>1, <2>2 DEF IInv
<1> QED BY <1>1, <1>2, <1>3, <1>4, <1>5, <1>6, <1>7 DEF SubscribeLoop

\* The command at the head of the queue becomes the one at hand, and that one the
\* last that was run: nothing is handed over or leaves its place.
LEMMA HeadInHand ==
    ASSUME TypeOK, PubGet
    PROVE  /\ Handed' = Handed
           /\ command' \in Seq(Commands) /\ Len(command') = 1 /\ commands' \in Seq(Commands)
<1>1. /\ commands # <<>> /\ command' = <<Head(commands)>> /\ commands' = Tail(commands)
      /\ ran' = ran /\ pub # "run"
  BY DEF PubGet
<1>2. commands \in Seq(Commands) /\ command \in Seq(Commands) /\ ran \in Seq(Commands)
  BY DEF TypeOK
<1>3. command = <<>>
  <2>1. Len(command) = 0
    BY <1>1 DEF TypeOK
  <2> QED BY <1>2, <2>1, EmptySeq
<1>4. /\ Head(commands) \in Commands /\ Tail(commands) \in Seq(Commands)
      /\ <<Head(commands)>> \in Seq(Commands)
  BY <1>1, <1>2, HeadTailProperties
<1>5. <<Head(commands)>> \o Tail(commands) = commands
  <2> DEFINE h == <<Head(commands)>>
             q == Tail(commands)
  <2>1. /\ Len(h) = 1 /\ h[1] = commands[1] /\ h \in Seq(Commands)
        /\ q \in Seq(Commands) /\ Len(q) = Len(commands) - 1 /\ Len(commands) \in Nat
        /\ \A k \in 1..Len(q) : q[k] = commands[k + 1]
    BY <1>1, <1>2, <1>4, HeadTailProperties, LenProperties
  <2>2. h \in Seq(Commands) /\ q \in Seq(Commands)
    BY <2>1
  <2> HIDE DEF h, q
  <2>3. /\ h \o q \in Seq(Commands) /\ Len(h \o q) = Len(h) + Len(q)
        /\ \A k \in 1..Len(h \o q) : (h \o q)[k] = IF k <= Len(h) THEN h[k] ELSE q[k - Len(h)]
    BY ONLY <2>2, ConcatProperties
  <2>4. ASSUME NEW k \in 1..Len(commands) PROVE (h \o q)[k] = commands[k]
    <3>1. CASE k = 1
      BY <2>1, <2>3, <3>1
    <3>2. CASE k # 1
      <4>1. k - 1 \in 1..Len(q) /\ (k - 1) + 1 = k
        BY <2>1, <3>2
      <4> QED BY <2>1, <2>3, <3>2, <4>1
    <3> QED BY <3>1, <3>2
  <2>5. h \o q = commands
    BY <1>2, <2>1, <2>3, <2>4, SeqEqual
  <2> QED BY <2>5 DEF h, q
<1>6. (ran \o <<Head(commands)>>) \o Tail(commands) = ran \o (<<Head(commands)>> \o Tail(commands))
  BY <1>2, <1>4, ConcatAssociative
<1>7. ran \o command = ran
  BY <1>2, <1>3, ConcatEmptySeq
<1> QED BY <1>1, <1>4, <1>5, <1>6, <1>7 DEF Handed

LEMMA HandToRan ==
    ASSUME TypeOK, PubRun
    PROVE  Handed' = Handed /\ ran' \in Seq(Commands) /\ UNCHANGED <<commands, command_id, drawn>>
<1>1. /\ ran' = Append(ran, command[1]) /\ command' = <<>> /\ pub = "run"
      /\ UNCHANGED <<commands, command_id, drawn>>
  BY DEF PubRun, DropFailed, DeletedCommand
<1>2. command \in Seq(Commands) /\ ran \in Seq(Commands) /\ Len(command) = 1
  BY <1>1 DEF TypeOK
<1>3. command[1] \in Commands /\ <<command[1]>> \in Seq(Commands)
  <2>1. 1 \in 1..Len(command)
    BY <1>2
  <2>2. command[1] \in Commands
    BY <1>2, <2>1, ElementOfSeq
  <2> QED BY <2>2
<1>4. command = <<command[1]>>
  BY <1>2, <1>3, SeqEqual
<1>5. ran' \in Seq(Commands) /\ ran' = ran \o <<command[1]>>
  BY <1>1, <1>2, <1>3, AppendProperties, AppendIsConcat
<1>6. ran' \o <<>> = ran'
  BY <1>5, ConcatEmptySeq
<1>7. Handed' = (ran' \o <<>>) \o commands
  BY <1>1 DEF Handed
<1>8. ran' = ran \o command
  BY <1>4, <1>5
<1>9. Handed' = Handed
  BY <1>6, <1>7, <1>8 DEF Handed
<1> QED BY <1>1, <1>5, <1>9

LEMMA PublishLoopSteps ==
    ASSUME IInv, PublishLoop
    PROVE  IInv'
<1> USE DEF subVars, pubVars, netVars, cmdVars, States
<1>1. CASE PubTest \/ PubTestRunning \/ PubGetFalse
  <2> USE DEF PubTest, PubTestRunning, PubGetFalse
  <2>1. (TypeOK /\ NotStarted)'
    BY <1>1 DEF IInv, TypeOK, NotStarted
  <2> QED BY <1>1, <2>1, OtherSteps DEF IInv
<1>2. CASE PubGet
  <2>1. /\ Handed' = Handed
        /\ command' \in Seq(Commands) /\ Len(command') = 1 /\ commands' \in Seq(Commands)
    BY <1>2, HeadInHand DEF IInv
  <2>2. UNCHANGED <<command_id, drawn>>
    BY <1>2 DEF PubGet
  <2>3. (TypeOK /\ NotStarted)'
    BY <1>2, <2>1 DEF PubGet, IInv, TypeOK, NotStarted
  <2> QED BY <2>1, <2>2, <2>3, SameNumbers DEF IInv
<1>3. CASE PubRun
  <2>1. Handed' = Handed /\ ran' \in Seq(Commands) /\ UNCHANGED <<commands, command_id, drawn>>
    BY <1>3, HandToRan DEF IInv
  <2>2. command' \in Seq(Commands) /\ Len(command') = 0
    BY <1>3 DEF PubRun, DeletedCommand
  <2>3. (TypeOK /\ NotStarted)'
    BY <1>3, <2>1, <2>2 DEF PubRun, IInv, TypeOK, NotStarted
  <2> QED BY <2>1, <2>3, SameNumbers DEF IInv
<1> QED BY <1>1, <1>2, <1>3 DEF PublishLoop

\* IInv holds in every reachable state of a client and its two threads
\* (mosq_client.cpp).
THEOREM Invariance == Spec => []IInv
<1>1. ASSUME IInv, [Next]_vars PROVE IInv'
  <2>1. CASE UNCHANGED vars
    <3>1. (TypeOK /\ NotStarted)'
      BY <1>1, <2>1 DEF vars, subVars, pubVars, netVars, cmdVars, IInv, TypeOK, NotStarted
    <3> QED BY <1>1, <2>1, <3>1, OtherSteps DEF vars, subVars, pubVars, netVars, cmdVars, IInv
  <2> QED BY <1>1, <2>1, MainSteps, SubscribeLoopSteps, PublishLoopSteps DEF Next
<1> QED BY <1>1, InitIInv, PTL DEF Spec

\* The delays never leave the numbers, one command at most is in hand, and the
\* counters keep to their bounds (mosq_client.cpp).
THEOREM TypeCorrect == Spec => []TypeOK
  BY Invariance, PTL DEF IInv

\* Every command is run once, and those of one thread in the order of its calls,
\* whatever the network and Stop do in between and however the two threads that
\* queue commands interleave (MosqClient::Publish and PublishLoop, mosq_client.cpp).
THEOREM CommandsInThreadOrder == Spec => []EachThreadInOrder
<1>1. IInv => EachThreadInOrder
  BY NumbersAreEnough DEF IInv
<1> QED BY <1>1, Invariance, PTL

------------------------------------------------------------------------------
\* What a client that was stopped is, and the order in which Start and Stop
\* begin and end its threads.

Threads ==
    /\ main = "new" => sub = "none" /\ pub = "none"
    /\ main \in {"joinSubscribe", "stopped"} => pub = "end"
    /\ main = "stopped" => sub = "end"

\* When Stop has returned both threads have ended, the connection is closed and
\* the client can be deleted; only what was never run is still queued.
StoppedIsQuiet ==
    main = "stopped" => /\ sub = "end" /\ pub = "end"
                        /\ link = "down"
                        /\ state = "Stopped"
                        /\ command = <<>>

QuietInv == Threads /\ StoppedIsQuiet

LEMMA QuietStep ==
    ASSUME IInv, QuietInv, [Next]_vars
    PROVE  QuietInv'
<1> USE DEF QuietInv, Threads, StoppedIsQuiet, subVars, pubVars, netVars, cmdVars
<1>1. CASE UNCHANGED vars
  BY <1>1 DEF vars
<1>2. CASE Start \/ Stop \/ JoinPublish
  BY <1>2 DEF Start, Stop, JoinPublish
<1>3. CASE JoinSubscribe
  <2>1. command = <<>>
    <3>1. pub = "end" /\ command \in Seq(Commands) /\ Len(command) = 0
      BY <1>3 DEF JoinSubscribe, IInv, TypeOK
    <3> QED BY <3>1, EmptySeq
  <2> QED BY <1>3, <2>1 DEF JoinSubscribe
<1>4. CASE ForwardNumber \/ ForwardPush \/ LinkLost
  BY <1>4 DEF ForwardNumber, ForwardPush, LinkLost
\* A thread that takes a step has begun and has not ended.
<1>5. CASE SubscribeLoop
  <2>1. sub \notin {"none", "end"} /\ UNCHANGED <<main, pub, command>>
    BY <1>5 DEF SubscribeLoop, SubTest, ConnectSucceeds, ConnectFails, SetRunning, LoopIdle,
                LoopConnack, Dispatch, EmptyCallback, OnConnectNumber, OnConnectSubscribe,
                OnConnectAnnounce, LoopError, LoopTest, SetReconnecting, Sleep
  <2> QED BY <2>1
<1>6. CASE PublishLoop
  <2>1. pub \notin {"none", "end"} /\ UNCHANGED <<main, sub>>
    BY <1>6 DEF PublishLoop, PubTest, PubTestRunning, PubGet, PubGetFalse, PubRun
  <2> QED BY <2>1
<1> QED BY <1>1, <1>2, <1>3, <1>4, <1>5, <1>6 DEF Next

\* Stop sets state_ and joins both threads before it disconnects: nothing of the
\* client runs, and its connection is not used, once Stop has returned
\* (MosqClient::Stop, mosq_client.cpp).
THEOREM StopLeavesNothingRunning == Spec => []StoppedIsQuiet
<1>1. Init => QuietInv
  BY DEF Init, QuietInv, Threads, StoppedIsQuiet
<1>2. IInv /\ QuietInv /\ [Next]_vars => QuietInv'
  BY QuietStep
<1>3. QuietInv => StoppedIsQuiet
  BY DEF QuietInv
<1> QED BY <1>1, <1>2, <1>3, Invariance, PTL DEF Spec

------------------------------------------------------------------------------
\* mosqdelay::get never returns less than before and never more than its limit.

LEMMA NextDelayGrows ==
    ASSUME NEW d \in Nat, d >= 1, d <= DelayMax, NEW n \in Nat
    PROVE  NextDelay(d, n) >= d /\ NextDelay(d, n) <= DelayMax
<1> DEFINE m == n + 1
           e == d * m
<1>1. m \in Nat /\ m >= 1 /\ DelayMax \in Nat
  BY DelayAssumption
<1>2. \A a, b \in Nat : b >= 1 => a * b \in Nat /\ a * b >= a
  <2> SUFFICES ASSUME NEW a \in Nat, NEW b \in Nat, b >= 1
               PROVE  a * b \in Nat /\ a * b >= a
    OBVIOUS
  <2>1. a * b = a + a * (b - 1) /\ b - 1 \in Nat
    OBVIOUS
  <2>2. a * (b - 1) \in Nat
    BY <2>1
  <2> QED BY <2>1, <2>2
<1>3. e \in Nat /\ e >= d
  BY <1>1, <1>2
<1>4. NextDelay(d, n) = IF d < DelayMax THEN IF e * m > DelayMax THEN DelayMax ELSE e * m
                                        ELSE DelayMax
  BY DEF NextDelay
<1> HIDE DEF m, e
<1>5. e * m \in Nat /\ e * m >= e
  BY <1>1, <1>2, <1>3
<1> DEFINE f == e * m
<1>6. f \in Nat /\ f >= e
  BY <1>5
<1> HIDE DEF f
<1>7. NextDelay(d, n) = IF d < DelayMax THEN IF f > DelayMax THEN DelayMax ELSE f ELSE DelayMax
  BY <1>4 DEF f
<1> QED BY <1>1, <1>3, <1>6, <1>7

DelayWithinBounds == DelayBase <= delay /\ delay <= DelayMax

\* No connection that succeeds shortens the pause before the next attempt.
DelayNeverShrinks == [][delay <= delay']_vars

LEMMA DelayStep ==
    ASSUME IInv, DelayWithinBounds, [Next]_vars
    PROVE  DelayWithinBounds' /\ delay <= delay'
<1>1. /\ DelayBase \in Nat /\ DelayBase >= 1 /\ DelayMax \in Nat
      /\ delay \in Nat /\ count \in Nat
  BY DelayAssumption DEF IInv, TypeOK
<1>2. CASE Sleep
  <2>1. delay' = NextDelay(delay, count)
    BY <1>2 DEF Sleep
  <2>2. delay >= 1 /\ delay <= DelayMax
    BY <1>1 DEF DelayWithinBounds
  <2>3. NextDelay(delay, count) >= delay /\ NextDelay(delay, count) <= DelayMax
    BY <1>1, <2>2, NextDelayGrows
  <2>4. NextDelay(delay, count) \in Nat
    BY <1>1, NextDelayType
  <2> QED BY <1>1, <2>1, <2>3, <2>4 DEF DelayWithinBounds
<1>3. CASE UNCHANGED delay
  BY <1>1, <1>3 DEF DelayWithinBounds
<1>4. Sleep \/ UNCHANGED delay
  BY DEF Next, vars, subVars, Start, Stop, JoinPublish, JoinSubscribe, ForwardNumber, ForwardPush,
         LinkLost,
         SubscribeLoop, SubTest, ConnectSucceeds, ConnectFails, SetRunning, LoopIdle,
         LoopConnack, Dispatch, EmptyCallback, OnConnectNumber, OnConnectSubscribe,
         OnConnectAnnounce, LoopError, LoopTest, SetReconnecting,
         PublishLoop, PubTest, PubTestRunning, PubGet, PubGetFalse, PubRun
<1> QED BY <1>2, <1>3, <1>4

\* The pause before a connection attempt lies between the two arguments of
\* mosqdelay and never becomes shorter again: nothing resets delay_ or count_
\* after a connection that worked (mosqdelay::get, mosq_client.cpp).
THEOREM DelaysGrow == Spec => []DelayWithinBounds /\ DelayNeverShrinks
<1>1. Init => DelayWithinBounds
  BY DelayAssumption DEF Init, DelayWithinBounds
<1>2. IInv /\ DelayWithinBounds /\ [Next]_vars => DelayWithinBounds' /\ delay <= delay'
  BY DelayStep
<1>3. IInv /\ DelayWithinBounds /\ [Next]_vars => [delay <= delay']_vars
  BY <1>2
<1> QED BY <1>1, <1>2, <1>3, Invariance, PTL DEF Spec, DelayNeverShrinks

------------------------------------------------------------------------------
\* The client asks of commands_ no more than the queue's contract gives: what
\* its threads do to it is Put, Take and Return of the atomic queue.

InHand == [c \in {"PublishLoop"} |-> command]

Queue == INSTANCE FifoQueue WITH Consumers <- {"PublishLoop"}, Values <- Commands,
                                 NoTask <- "NULL", items <- commands, outcome <- InHand

LEMMA PushMapped ==
    ASSUME IInv, NEW t \in Callers, NEW kind \in Kinds, Push(t, kind), UNCHANGED command
    PROVE  Queue!Put
<1> DEFINE c == [id |-> drawn[t], by |-> t, kind |-> kind]
<1>1. c \in Commands
  BY DEF IInv, TypeOK, Commands
<1>2. commands' = Append(commands, c)
  BY DEF Push
<1>3. InHand' = InHand
  BY DEF InHand
<1> HIDE DEF c
<1> QED BY <1>1, <1>2, <1>3 DEF Queue!Put

LEMMA PubGetMapped ==
    ASSUME IInv, PubGet
    PROVE  Queue!Take("PublishLoop")
<1>1. command = <<>>
  <2>1. pub # "run" /\ command \in Seq(Commands) /\ Len(command) = 0
    BY DEF PubGet, IInv, TypeOK
  <2> QED BY <2>1, EmptySeq
<1>2. InHand["PublishLoop"] = <<>>
  BY <1>1 DEF InHand
<1>3. InHand' = [InHand EXCEPT !["PublishLoop"] = <<Head(commands)>>]
  BY DEF InHand, PubGet
<1>4. commands # <<>> /\ commands' = Tail(commands)
  BY DEF PubGet
<1> QED BY <1>2, <1>3, <1>4 DEF Queue!Take

LEMMA PubRunMapped ==
    ASSUME IInv, PubRun
    PROVE  Queue!Return("PublishLoop")
<1>1. command # <<>>
  <2>1. pub = "run" /\ Len(command) = 1
    BY DEF PubRun, IInv, TypeOK
  <2>2. Len(<<>>) = 0
    OBVIOUS
  <2> QED BY <2>1, <2>2
<1>2. InHand["PublishLoop"] # <<>>
  BY <1>1 DEF InHand
<1>3. InHand' = [InHand EXCEPT !["PublishLoop"] = <<>>] /\ UNCHANGED commands
  BY DEF InHand, PubRun, DeletedCommand, DropFailed
<1> QED BY <1>2, <1>3 DEF Queue!Return

\* commands_ may be taken for the atomic queue: the calls the client makes of it
\* are calls of that queue, by the one consumer PublishLoop, and no command
\* enters or leaves it in another way (MosqClient, mosq_client.cpp).
THEOREM UsesAtomicQueue == Spec => Queue!Spec
<1>1. Init => Queue!Init
  BY DEF Init, Queue!Init, InHand
<1>2. ASSUME IInv, [Next]_vars PROVE [Queue!Next]_<<commands, InHand>>
  <2>1. CASE ForwardPush \/ OnConnectSubscribe \/ OnConnectAnnounce
    <3>1. \E t \in Callers, kind \in Kinds : Push(t, kind)
      BY <2>1 DEF ForwardPush, OnConnectSubscribe, OnConnectAnnounce, Callers, Kinds
    <3>2. UNCHANGED command
      BY <2>1 DEF ForwardPush, OnConnectSubscribe, OnConnectAnnounce, pubVars
    <3>3. Queue!Put
      BY <1>2, <3>1, <3>2, PushMapped
    <3> QED BY <3>3 DEF Queue!Next
  <2>2. CASE PubGet
    BY <1>2, <2>2, PubGetMapped DEF Queue!Next
  <2>3. CASE PubRun
    BY <1>2, <2>3, PubRunMapped DEF Queue!Next
  <2>4. CASE UNCHANGED <<commands, command>>
    BY <2>4 DEF InHand
  <2>5. \/ ForwardPush \/ OnConnectSubscribe \/ OnConnectAnnounce
        \/ PubGet \/ PubRun \/ UNCHANGED <<commands, command>>
    BY <1>2
       DEF Next, vars, subVars, pubVars, cmdVars, Start, Stop, JoinPublish, JoinSubscribe,
           ForwardNumber, OnConnectNumber, next_command_id, LinkLost, SubscribeLoop,
           SubTest, ConnectSucceeds, ConnectFails, SetRunning, LoopIdle, LoopConnack, Dispatch, EmptyCallback, LoopError, LoopTest,
           SetReconnecting, Sleep, PublishLoop, PubTest, PubTestRunning, PubGetFalse
  <2> QED BY <2>1, <2>2, <2>3, <2>4, <2>5
<1>3. IInv /\ [Next]_vars => [Queue!Next]_(Queue!vars)
  BY <1>2 DEF Queue!vars
<1> QED BY <1>1, <1>3, Invariance, PTL DEF Spec, Queue!Spec

=============================================================================
