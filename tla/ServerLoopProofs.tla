-------------------------- MODULE ServerLoopProofs ---------------------------
(***************************************************************************)
(* For every number of clients, of pieces of a request and of slots: the   *)
(* slots of ServerLoopMain are counted right, an open socket has one       *)
(* owner, and no arrival is overlooked.                                    *)
(***************************************************************************)
EXTENDS ServerLoop, FiniteSetTheorems, TLAPS

Occupied == {k \in 1..MaxAccept : slots[k] # NoConn}

\* The turn of the client cur.
InTurn == loop \in {"recv", "after"}

\* A client has one slot at most.  The loop owns every client in a slot, but for
\* the one whose socket it has just handed over and will remove.
SlotsInv ==
    /\ accept_size = Cardinality(Occupied)
    /\ \A k, l \in 1..MaxAccept : slots[k] # NoConn /\ slots[k] = slots[l] => k = l
    /\ \A c \in mine : \E k \in 1..MaxAccept : slots[k] = c
    /\ \A k \in 1..MaxAccept :
          slots[k] # NoConn => slots[k] \in mine \/ (InTurn /\ slots[k] = cur /\ remove)
    /\ InTurn => cur \in Conns /\ \E k \in 1..MaxAccept : slots[k] = cur

\* Events not handled yet are of clients the loop still owns: only the client
\* of the current event can have been given away.
EventsInv ==
    /\ events \cap Conns \subseteq mine
    /\ loop \in {"create", "start", "test", "wait", "exit"} => events = {}
    /\ InTurn => cur \notin events

\* A socket is handed over with the last piece of its request.
RequestInv ==
    \A c \in Conns :
        /\ toSend[c] + inbox[c] + parsed[c] = Chunks
        /\ conn[c] \in {"new", "pending"} => parsed[c] = 0
        /\ handed[c] > 0 => parsed[c] = Chunks

\* While someone is in the backlog whom no accept loop that was cut short has left
\* there, the event is still to come, or to be handled, or its accept loop is
\* running.
BacklogInv ==
    (\E c \in Conns : conn[c] = "pending") /\ ~edge /\ ~cut
    => loop = "accept" \/ Listener \in events

IInv == TypeOK /\ SlotsInv /\ EventsInv /\ RequestInv /\ SocketHasOneOwner /\ BacklogInv

------------------------------------------------------------------------------
\* Counting the slots.

LEMMA SlotsFinite ==
    ASSUME NEW S, S \subseteq 1..MaxAccept
    PROVE  IsFiniteSet(S) /\ Cardinality(S) \in 0..MaxAccept
<1>1. MaxAccept \in Nat /\ 1 \in Int
  BY SizeAssumption
<1>2. IsFiniteSet(1..MaxAccept) /\ Cardinality(1..MaxAccept) = MaxAccept
  BY <1>1, FS_Interval, SizeAssumption
<1>3. IsFiniteSet(S) /\ Cardinality(S) <= MaxAccept
  BY <1>2, FS_Subset
<1> QED BY <1>3, FS_CardinalityType

\* As long as the count is below the limit, the scan finds a free slot.
LEMMA FreeSlotFound ==
    ASSUME TypeOK, accept_size = Cardinality(Occupied), accept_size < MaxAccept
    PROVE  FreeSlots # {}
<1> SUFFICES ASSUME FreeSlots = {} PROVE FALSE
  OBVIOUS
<1>1. MaxAccept \in Nat /\ accept_size \in Nat
  BY SizeAssumption DEF TypeOK
<1>2. 1..(accept_size + 1) \subseteq Occupied
  BY <1>1 DEF FreeSlots, Occupied
<1>3. Cardinality(1..(accept_size + 1)) = accept_size + 1
  <2>1. 1 \in Int /\ accept_size + 1 \in Int /\ ~(1 > accept_size + 1)
    BY <1>1
  <2>2. Cardinality(1..(accept_size + 1)) = (accept_size + 1) - 1 + 1
    BY <2>1, FS_Interval
  <2> QED BY <1>1, <2>2
<1>4. IsFiniteSet(Occupied)
  BY SlotsFinite DEF Occupied
<1>5. Cardinality(1..(accept_size + 1)) <= Cardinality(Occupied)
  BY <1>2, <1>4, FS_Subset
<1> QED BY <1>1, <1>3, <1>5

LEMMA InitIInv == Init => IInv
<1> SUFFICES ASSUME Init PROVE IInv
  OBVIOUS
<1>1. Occupied = {} /\ Cardinality(Occupied) = 0
  BY FS_EmptySet DEF Init, Occupied
<1>2. TypeOK
  <2>1. /\ edge \in BOOLEAN /\ stop \in BOOLEAN /\ remove \in BOOLEAN /\ cut \in BOOLEAN
        /\ accept_size \in 0..MaxAccept /\ slots \in [1..MaxAccept -> Conns \cup {NoConn}]
    <3>1. 0 \in 0..MaxAccept
      BY SizeAssumption
    <3> QED BY <3>1 DEF Init
  <2>2. /\ toSend \in [Conns -> 0..Chunks] /\ inbox \in [Conns -> 0..Chunks]
        /\ parsed \in [Conns -> 0..Chunks]
    <3>1. Chunks \in 0..Chunks /\ 0 \in 0..Chunks
      BY SizeAssumption
    <3> QED BY <3>1 DEF Init
  <2> QED BY <2>1, <2>2 DEF Init, TypeOK
<1>3. SlotsInv /\ EventsInv /\ BacklogInv
  BY <1>1, ConnAssumption DEF Init, SlotsInv, EventsInv, BacklogInv, InTurn
<1>4. RequestInv /\ SocketHasOneOwner
  BY SizeAssumption DEF Init, RequestInv, SocketHasOneOwner
<1> QED BY <1>2, <1>3, <1>4 DEF IInv

------------------------------------------------------------------------------
\* The clients, the clock and the pool.

LEMMA ClientSteps ==
    ASSUME IInv, NEW c \in Conns,
           ClientConnect(c) \/ ClientSend(c) \/ ClientShutdown(c) \/ ReadTimeoutPasses(c)
    PROVE  IInv'
<1> USE DEF kernelVars, loopVars, IInv
<1>1. CASE ClientConnect(c)
  <2> USE DEF ClientConnect
  <2>1. TypeOK'
    BY <1>1 DEF TypeOK
  <2>2. SlotsInv' /\ EventsInv'
    BY <1>1 DEF SlotsInv, EventsInv, InTurn, Occupied
  <2>3. /\ conn[c] = "new" /\ conn'[c] = "pending"
        /\ \A d \in Conns : d # c => conn'[d] = conn[d]
    BY <1>1 DEF TypeOK
  <2>4. RequestInv' /\ SocketHasOneOwner'
    BY <1>1, <2>3 DEF RequestInv, SocketHasOneOwner
  <2>5. BacklogInv'
    BY <1>1 DEF BacklogInv
  <2> QED BY <2>1, <2>2, <2>4, <2>5
<1>2. CASE ClientSend(c)
  <2> USE DEF ClientSend
  <2>1. /\ toSend[c] \in Nat /\ inbox[c] \in Nat /\ parsed[c] \in Nat /\ Chunks \in Nat
        /\ toSend[c] > 0 /\ toSend[c] + inbox[c] + parsed[c] = Chunks
    BY <1>2, SizeAssumption DEF TypeOK, RequestInv
  <2>2. /\ toSend'[c] = toSend[c] - 1 /\ inbox'[c] = inbox[c] + 1
        /\ \A d \in Conns : d # c => toSend'[d] = toSend[d] /\ inbox'[d] = inbox[d]
    BY <1>2 DEF TypeOK
  <2>3. TypeOK'
    <3>1. toSend[c] - 1 \in 0..Chunks /\ inbox[c] + 1 \in 0..Chunks
      BY <2>1
    <3> QED BY <1>2, <3>1 DEF TypeOK
  <2>4. SlotsInv' /\ EventsInv' /\ SocketHasOneOwner' /\ BacklogInv'
    BY <1>2 DEF SlotsInv, EventsInv, InTurn, Occupied, SocketHasOneOwner, BacklogInv
  <2>5. RequestInv'
    <3>1. toSend'[c] + inbox'[c] + parsed'[c] = Chunks
      BY <1>2, <2>1, <2>2
    <3> QED BY <1>2, <2>2, <3>1 DEF RequestInv
  <2> QED BY <2>3, <2>4, <2>5
<1>3. CASE ClientShutdown(c)
  <2> USE DEF ClientShutdown
  <2>1. TypeOK'
    BY <1>3 DEF TypeOK
  <2>2. SlotsInv' /\ EventsInv' /\ SocketHasOneOwner' /\ BacklogInv' /\ RequestInv'
    BY <1>3 DEF SlotsInv, EventsInv, InTurn, Occupied, SocketHasOneOwner, BacklogInv, RequestInv
  <2> QED BY <2>1, <2>2
<1>4. CASE ReadTimeoutPasses(c)
  <2> USE DEF ReadTimeoutPasses
  <2>1. TypeOK'
    BY <1>4 DEF TypeOK
  <2>2. SlotsInv' /\ EventsInv' /\ SocketHasOneOwner' /\ BacklogInv' /\ RequestInv'
    BY <1>4 DEF SlotsInv, EventsInv, InTurn, Occupied, SocketHasOneOwner, BacklogInv, RequestInv
  <2> QED BY <2>1, <2>2
<1> QED BY <1>1, <1>2, <1>3, <1>4

\* A worker closes what it was given, which the loop no longer owns.
LEMMA PoolSteps ==
    ASSUME IInv, NEW c \in Conns, PoolCloses(c)
    PROVE  IInv'
<1> USE DEF kernelVars, loopVars, IInv, PoolCloses
<1>1. /\ handed[c] \in Nat /\ handed[c] > 0 /\ closes[c] \in Nat
      /\ handed[c] + (IF c \in mine THEN 1 ELSE 0) = IF conn[c] = "open" THEN 1 ELSE 0
      /\ closes[c] = IF conn[c] = "closed" THEN 1 ELSE 0
  BY DEF TypeOK, SocketHasOneOwner
<1>2. handed[c] = 1 /\ c \notin mine /\ conn[c] = "open" /\ closes[c] = 0
  BY <1>1
<1>3. /\ handed'[c] = 0 /\ conn'[c] = "closed" /\ closes'[c] = 1
      /\ \A d \in Conns : d # c => /\ handed'[d] = handed[d] /\ conn'[d] = conn[d]
                                   /\ closes'[d] = closes[d]
  BY <1>2 DEF TypeOK
<1>4. TypeOK'
  <2>1. handed[c] - 1 \in Nat /\ closes[c] + 1 \in Nat
    BY <1>1
  <2> QED BY <2>1 DEF TypeOK
<1>5. SlotsInv' /\ EventsInv'
  BY DEF SlotsInv, EventsInv, InTurn, Occupied
<1>6. RequestInv' /\ BacklogInv'
  BY <1>3 DEF RequestInv, BacklogInv
<1>7. SocketHasOneOwner'
  BY <1>2, <1>3 DEF SocketHasOneOwner
<1> QED BY <1>4, <1>5, <1>6, <1>7

------------------------------------------------------------------------------
\* The steps of the loop that change neither a socket nor a slot.

LEMMA QuietSteps ==
    ASSUME IInv, \/ CreateServerSocket \/ StartServer \/ LoopTest \/ EpollTimeout \/ EventsDone
                 \/ AcceptEvent \/ AcceptNoMore \/ StopServer
    PROVE  IInv'
<1> USE DEF kernelVars, IInv
<1>1. CASE CreateServerSocket \/ StartServer \/ LoopTest \/ EpollTimeout \/ EventsDone
  <2> USE DEF CreateServerSocket, StartServer, LoopTest, EpollTimeout, EventsDone
  <2>1. TypeOK'
    BY <1>1 DEF TypeOK
  <2>2. SlotsInv'
    BY <1>1 DEF SlotsInv, InTurn, Occupied
  <2>3. EventsInv' /\ BacklogInv'
    BY <1>1 DEF EventsInv, BacklogInv, InTurn
  <2>4. RequestInv' /\ SocketHasOneOwner'
    BY <1>1 DEF RequestInv, SocketHasOneOwner
  <2> QED BY <2>1, <2>2, <2>3, <2>4
<1>2. CASE AcceptEvent
  <2> USE DEF AcceptEvent
  <2>1. TypeOK'
    BY <1>2 DEF TypeOK
  <2>2. SlotsInv' /\ RequestInv' /\ SocketHasOneOwner'
    BY <1>2 DEF SlotsInv, InTurn, Occupied, RequestInv, SocketHasOneOwner
  <2>3. EventsInv' /\ BacklogInv'
    BY <1>2 DEF EventsInv, BacklogInv, InTurn
  <2> QED BY <2>1, <2>2, <2>3
<1>3. CASE AcceptNoMore
  <2> USE DEF AcceptNoMore
  <2>1. TypeOK'
    BY <1>3 DEF TypeOK
  <2>2. SlotsInv' /\ RequestInv' /\ SocketHasOneOwner'
    BY <1>3 DEF SlotsInv, InTurn, Occupied, RequestInv, SocketHasOneOwner
  <2>3. EventsInv' /\ BacklogInv'
    BY <1>3 DEF EventsInv, BacklogInv, InTurn
  <2> QED BY <2>1, <2>2, <2>3
<1>4. CASE StopServer
  <2> USE DEF StopServer
  <2>1. TypeOK'
    BY <1>4 DEF TypeOK
  <2>2. SlotsInv' /\ RequestInv' /\ SocketHasOneOwner' /\ EventsInv' /\ BacklogInv'
    BY <1>4 DEF SlotsInv, InTurn, Occupied, RequestInv, SocketHasOneOwner, EventsInv, BacklogInv
  <2> QED BY <2>1, <2>2
<1> QED BY <1>1, <1>2, <1>3, <1>4

LEMMA EpollWaitStep ==
    ASSUME IInv, EpollWait
    PROVE  IInv'
<1> USE DEF IInv, EpollWait
<1>1. TypeOK'
  BY DEF TypeOK
<1>2. SlotsInv' /\ RequestInv' /\ SocketHasOneOwner'
  BY DEF SlotsInv, InTurn, Occupied, RequestInv, SocketHasOneOwner
<1>3. EventsInv'
  BY ConnAssumption DEF EventsInv, InTurn
<1>4. BacklogInv'
  <2>1. edge => Listener \in events'
    OBVIOUS
  <2>2. events = {}
    BY DEF EventsInv
  <2> QED BY <2>1, <2>2 DEF BacklogInv, TypeOK
<1> QED BY <1>1, <1>2, <1>3, <1>4

LEMMA ReadEventStep ==
    ASSUME IInv, NEW c \in Conns, ReadEvent(c)
    PROVE  IInv'
<1> USE DEF IInv, ReadEvent, kernelVars
<1>1. TypeOK'
  BY DEF TypeOK
<1>2. c \in mine /\ c # Listener
  BY ConnAssumption DEF EventsInv
<1>3. SlotsInv'
  BY <1>2 DEF SlotsInv, InTurn, Occupied
<1>4. EventsInv' /\ BacklogInv'
  BY <1>2 DEF EventsInv, BacklogInv, InTurn
<1>5. RequestInv' /\ SocketHasOneOwner'
  BY DEF RequestInv, SocketHasOneOwner
<1> QED BY <1>1, <1>3, <1>4, <1>5

LEMMA RecvEndsStep ==
    ASSUME IInv, RecvEnds
    PROVE  IInv'
<1> USE DEF IInv, RecvEnds, kernelVars
<1>1. TypeOK'
  BY Zenon DEF TypeOK
<1>2. SlotsInv' /\ EventsInv' /\ BacklogInv'
  BY DEF SlotsInv, InTurn, Occupied, EventsInv, BacklogInv
<1>3. RequestInv' /\ SocketHasOneOwner'
  BY DEF RequestInv, SocketHasOneOwner
<1> QED BY <1>1, <1>2, <1>3

------------------------------------------------------------------------------
\* The steps that accept, hand over and close.

LEMMA AcceptStep ==
    ASSUME IInv, NEW c \in Conns, Accept(c)
    PROVE  IInv'
<1> USE DEF IInv
<1>1. PICK k \in FreeSlots : slots' = [slots EXCEPT ![k] = c]
  BY DEF Accept
<1>2. /\ k \in 1..MaxAccept /\ slots[k] = NoConn
      /\ accept_size \in Nat /\ accept_size < MaxAccept /\ accept_size' = accept_size + 1
      /\ c # NoConn
  BY <1>1, SizeAssumption, ConnAssumption DEF Accept, FreeSlots, TypeOK
<1>3. /\ slots'[k] = c
      /\ \A l \in 1..MaxAccept : l # k => slots'[l] = slots[l]
  BY <1>1, <1>2 DEF TypeOK
<1>4. /\ conn[c] = "pending" /\ conn'[c] = "open" /\ parsed'[c] = 0
      /\ \A d \in Conns : d # c => conn'[d] = conn[d] /\ parsed'[d] = parsed[d]
      /\ mine' = mine \cup {c} /\ loop = "accept" /\ loop' = "accept"
      /\ UNCHANGED <<toSend, inbox, fin, edge, stop, events, hups, cur, remove,
                     handed, closes, stale, cut, listen_socket>>
  BY DEF Accept, OnAccept, AcceptAgain, TypeOK
<1>5. c \notin mine /\ handed[c] = 0 /\ closes[c] = 0
  BY <1>4 DEF SocketHasOneOwner, TypeOK
<1>6. \A l \in 1..MaxAccept : slots[l] # c
  BY <1>2, <1>4, <1>5 DEF SlotsInv, InTurn
<1>7. accept_size' = Cardinality(Occupied')
  <2>1. Occupied' = Occupied \cup {k} /\ k \notin Occupied
    BY <1>2, <1>3 DEF Occupied
  <2>2. IsFiniteSet(Occupied)
    BY SlotsFinite DEF Occupied
  <2>3. Cardinality(Occupied \cup {k}) = Cardinality(Occupied) + 1
    BY <2>1, <2>2, FS_AddElement
  <2> QED BY <1>2, <2>1, <2>3 DEF SlotsInv
<1>8. TypeOK'
  <2>1. /\ conn' \in [Conns -> {"new", "pending", "open", "closed", "aborted"}]
        /\ parsed' \in [Conns -> 0..Chunks]
    BY SizeAssumption DEF Accept, OnAccept, TypeOK
  <2>2. slots' \in [1..MaxAccept -> Conns \cup {NoConn}] /\ accept_size' \in 0..MaxAccept
    BY <1>1, <1>2, SizeAssumption DEF TypeOK
  <2> QED BY <1>4, <2>1, <2>2 DEF TypeOK
<1>9. SlotsInv'
  <2>1. \A l, n \in 1..MaxAccept : slots'[l] # NoConn /\ slots'[l] = slots'[n] => l = n
    BY <1>2, <1>3, <1>6 DEF SlotsInv
  <2>2. \A d \in mine' : \E l \in 1..MaxAccept : slots'[l] = d
    <3> SUFFICES ASSUME NEW d \in mine' PROVE \E l \in 1..MaxAccept : slots'[l] = d
      OBVIOUS
    <3>1. CASE d = c
      BY <1>2, <1>3, <3>1
    <3>2. CASE d # c
      <4>1. PICK l \in 1..MaxAccept : slots[l] = d
        BY <1>4, <3>2 DEF SlotsInv
      <4>2. l # k
        BY <1>2, <4>1, ConnAssumption, <1>4, <3>2 DEF TypeOK
      <4> QED BY <1>3, <4>1, <4>2
    <3> QED BY <3>1, <3>2
  <2>3. \A l \in 1..MaxAccept : slots'[l] # NoConn => slots'[l] \in mine'
    BY <1>3, <1>4 DEF SlotsInv, InTurn
  <2>4. ~InTurn'
    BY <1>4 DEF InTurn
  <2> QED BY <1>7, <2>1, <2>2, <2>3, <2>4 DEF SlotsInv
<1>10. EventsInv' /\ BacklogInv'
  BY <1>4 DEF EventsInv, BacklogInv, InTurn
<1>11. RequestInv'
  <2> SUFFICES ASSUME NEW d \in Conns
               PROVE  /\ toSend'[d] + inbox'[d] + parsed'[d] = Chunks
                      /\ conn'[d] \in {"new", "pending"} => parsed'[d] = 0
                      /\ handed'[d] > 0 => parsed'[d] = Chunks
    BY DEF RequestInv
  <2>1. parsed'[d] = parsed[d]
    BY <1>4 DEF RequestInv
  <2> QED BY <1>4, <2>1 DEF RequestInv
<1>12. SocketHasOneOwner'
  BY <1>4, <1>5 DEF SocketHasOneOwner
<1> QED BY <1>8, <1>9, <1>10, <1>11, <1>12

LEMMA AcceptOverLimitStep ==
    ASSUME IInv, NEW c \in Conns, AcceptOverLimit(c)
    PROVE  IInv'
<1> USE DEF IInv, AcceptOverLimit
<1>1. /\ conn[c] = "pending" /\ conn'[c] = "closed" /\ closes'[c] = closes[c] + 1
      /\ \A d \in Conns : d # c => conn'[d] = conn[d] /\ closes'[d] = closes[d]
  BY DEF TypeOK
<1>2. c \notin mine /\ handed[c] = 0 /\ closes[c] = 0
  BY <1>1 DEF SocketHasOneOwner, TypeOK
<1>3. TypeOK'
  <2>1. closes[c] + 1 \in Nat
    BY <1>2
  <2> QED BY <2>1 DEF TypeOK
<1>4. SlotsInv' /\ EventsInv'
  BY DEF SlotsInv, EventsInv, InTurn, Occupied
<1>5. RequestInv' /\ BacklogInv'
  BY <1>1, <1>2 DEF RequestInv, BacklogInv
<1>6. SocketHasOneOwner'
  BY <1>1, <1>2 DEF SocketHasOneOwner
<1> QED BY <1>3, <1>4, <1>5, <1>6

\* A failing accept takes at most a pending connection and hands out nothing.
LEMMA FailingAccept ==
    ASSUME conn \in [Conns -> {"new", "pending", "open", "closed", "aborted"}], AcceptFails
    PROVE  \A c \in Conns : conn'[c] = conn[c] \/ (conn[c] = "pending" /\ conn'[c] = "aborted")
<1>1. CASE UNCHANGED conn
  BY <1>1
<1>2. CASE \E c \in Conns : conn[c] = "pending" /\ conn' = [conn EXCEPT ![c] = "aborted"]
  BY <1>2
<1> QED BY <1>1, <1>2 DEF AcceptFails

\* A connection that accept takes and drops was nobody's, and the loop is cut short.
LEMMA AcceptFailsStep ==
    ASSUME IInv, AcceptFails
    PROVE  IInv'
<1> USE DEF IInv
<1>1. conn' \in [Conns -> {"new", "pending", "open", "closed", "aborted"}]
  BY DEF AcceptFails, TypeOK
<1>2. \A c \in Conns : conn'[c] = conn[c] \/ (conn[c] = "pending" /\ conn'[c] = "aborted")
  BY FailingAccept DEF TypeOK
<1>3. TypeOK'
  BY <1>1 DEF AcceptFails, TypeOK
<1>4. SlotsInv' /\ EventsInv' /\ BacklogInv'
  BY DEF AcceptFails, SlotsInv, EventsInv, BacklogInv, InTurn, Occupied
<1>5. RequestInv' /\ SocketHasOneOwner'
  BY <1>2 DEF AcceptFails, RequestInv, SocketHasOneOwner
<1> QED BY <1>3, <1>4, <1>5

\* What recv reads completes a request only of a socket the loop still owns.
LEMMA RecvDataStep ==
    ASSUME IInv, RecvData
    PROVE  IInv'
<1> USE DEF IInv
<1>1. cur \in Conns /\ InTurn /\ loop = "recv"
  BY DEF RecvData, SlotsInv, InTurn
<1>2. /\ conn[cur] = "open" /\ inbox[cur] \in Nat /\ inbox[cur] > 0
      /\ toSend[cur] \in Nat /\ parsed[cur] \in Nat /\ Chunks \in Nat
      /\ toSend[cur] + inbox[cur] + parsed[cur] = Chunks
  BY <1>1, SizeAssumption DEF RecvData, TypeOK, RequestInv
<1>3. cur \in mine /\ handed[cur] = 0
  <2>1. handed[cur] \in Nat /\ ~(handed[cur] > 0)
    BY <1>1, <1>2 DEF TypeOK, RequestInv
  <2>2. handed[cur] + (IF cur \in mine THEN 1 ELSE 0) = 1
    BY <1>1, <1>2 DEF SocketHasOneOwner
  <2> QED BY <2>1, <2>2
<1>4. /\ inbox'[cur] = inbox[cur] - 1 /\ parsed'[cur] = parsed[cur] + 1
      /\ \A d \in Conns : d # cur => inbox'[d] = inbox[d] /\ parsed'[d] = parsed[d]
      /\ UNCHANGED <<conn, toSend, fin, edge, stop, loop, events, hups, cur, slots,
                     accept_size, closes, stale, cut, listen_socket>>
  BY <1>1 DEF RecvData, Received, TypeOK
<1>5. /\ inbox' \in [Conns -> 0..Chunks] /\ parsed' \in [Conns -> 0..Chunks]
  <2>1. inbox[cur] - 1 \in 0..Chunks /\ parsed[cur] + 1 \in 0..Chunks
    BY <1>2
  <2> QED BY <1>1, <2>1 DEF RecvData, Received, TypeOK
<1>6. \/ /\ parsed[cur] + 1 = Chunks
         /\ handed' = [handed EXCEPT ![cur] = @ + 1] /\ mine' = mine \ {cur} /\ remove' = TRUE
      \/ /\ parsed[cur] + 1 # Chunks
         /\ UNCHANGED <<handed, mine, remove>>
  BY DEF RecvData, ForgetsDescriptor
<1>7. TypeOK'
  <2>1. handed[cur] + 1 \in Nat
    BY <1>3
  <2>2. handed' \in [Conns -> Nat]
    BY <1>1, <1>6, <2>1 DEF TypeOK
  <2>3. mine' \subseteq Conns /\ remove' \in BOOLEAN
    BY <1>6 DEF TypeOK
  <2> QED BY <1>4, <1>5, <2>2, <2>3 DEF TypeOK
<1>8. SlotsInv'
  BY <1>1, <1>4, <1>6 DEF SlotsInv, InTurn, Occupied
<1>9. EventsInv' /\ BacklogInv'
  BY <1>1, <1>4, <1>6 DEF EventsInv, BacklogInv, InTurn
<1>10. /\ handed'[cur] = IF parsed[cur] + 1 = Chunks THEN 1 ELSE 0
       /\ \A d \in Conns : d # cur => handed'[d] = handed[d]
       /\ cur \in mine' <=> parsed[cur] + 1 # Chunks
       /\ \A d \in Conns : d # cur => (d \in mine' <=> d \in mine)
  BY <1>1, <1>3, <1>6 DEF TypeOK
<1>11. RequestInv'
  <2> SUFFICES ASSUME NEW d \in Conns
               PROVE  /\ toSend'[d] + inbox'[d] + parsed'[d] = Chunks
                      /\ conn'[d] \in {"new", "pending"} => parsed'[d] = 0
                      /\ handed'[d] > 0 => parsed'[d] = Chunks
    BY DEF RequestInv
  <2>1. CASE d = cur
    BY <1>2, <1>4, <1>10, <2>1
  <2>2. CASE d # cur
    BY <1>4, <1>10, <2>2 DEF RequestInv
  <2> QED BY <2>1, <2>2
<1>12. SocketHasOneOwner'
  <2> SUFFICES ASSUME NEW d \in Conns
               PROVE  /\ handed'[d] + (IF d \in mine' THEN 1 ELSE 0) = IF conn'[d] = "open" THEN 1 ELSE 0
                      /\ closes'[d] = IF conn'[d] = "closed" THEN 1 ELSE 0
    BY DEF SocketHasOneOwner
  <2>1. CASE d = cur
    BY <1>2, <1>4, <1>10, <2>1 DEF SocketHasOneOwner
  <2>2. CASE d # cur
    BY <1>4, <1>10, <2>2 DEF SocketHasOneOwner
  <2> QED BY <2>1, <2>2
<1> QED BY <1>7, <1>8, <1>9, <1>11, <1>12

LEMMA AfterEventStep ==
    ASSUME IInv, AfterEvent
    PROVE  IInv'
<1> USE DEF IInv
<1>1. /\ cur \in Conns /\ InTurn /\ loop = "after" /\ loop' = "events" /\ cur' = NoConn
      /\ cur # NoConn /\ cur \notin events
      /\ UNCHANGED <<toSend, inbox, fin, edge, stop, events, hups, remove, parsed,
                     handed, stale, cut, listen_socket>>
  BY ConnAssumption DEF AfterEvent, SlotsInv, EventsInv, InTurn
<1>2. PICK k \in 1..MaxAccept : slots[k] = cur /\ SlotOf(cur) = k
  BY <1>1 DEF SlotsInv, SlotOf
<1>3. \A l \in 1..MaxAccept : slots[l] = cur => l = k
  BY <1>1, <1>2 DEF SlotsInv
<1>4. ~InTurn'
  BY <1>1 DEF InTurn
\* The client stays, which is the loop's.
<1>5. CASE ~(cur \in hups \/ remove)
  <2>1. UNCHANGED <<slots, accept_size, mine, conn, closes>> /\ ~remove
    BY <1>5 DEF AfterEvent
  <2>2. TypeOK'
    BY <1>1, <2>1 DEF TypeOK
  <2>3. SlotsInv'
    BY <1>4, <2>1 DEF SlotsInv, Occupied
  <2>4. EventsInv' /\ BacklogInv'
    BY <1>1, <1>4, <2>1 DEF EventsInv, BacklogInv
  <2>5. RequestInv' /\ SocketHasOneOwner'
    BY <1>1, <2>1 DEF RequestInv, SocketHasOneOwner
  <2> QED BY <2>2, <2>3, <2>4, <2>5
<1>6. CASE cur \in hups \/ remove
  <2>1. /\ slots' = [slots EXCEPT ![k] = NoConn]
        /\ accept_size' = accept_size - 1
        /\ mine' = mine \ {cur}
        /\ \/ /\ cur \in mine
              /\ conn' = [conn EXCEPT ![cur] = "closed"]
              /\ closes' = [closes EXCEPT ![cur] = @ + 1]
           \/ cur \notin mine /\ UNCHANGED <<conn, closes>>
    BY <1>2, <1>6 DEF AfterEvent
  <2>2. /\ slots'[k] = NoConn
        /\ \A l \in 1..MaxAccept : l # k => slots'[l] = slots[l]
    BY <2>1 DEF TypeOK
  <2>3. accept_size' = Cardinality(Occupied') /\ accept_size' \in 0..MaxAccept
    <3>1. Occupied' = Occupied \ {k} /\ k \in Occupied
      BY <1>1, <1>2, <2>2 DEF Occupied
    <3>2. IsFiniteSet(Occupied) /\ Cardinality(Occupied') \in 0..MaxAccept
      BY <3>1, SlotsFinite DEF Occupied
    <3>3. Cardinality(Occupied \ {k}) = Cardinality(Occupied) - 1
      BY <3>1, <3>2, FS_RemoveElement
    <3> QED BY <2>1, <3>1, <3>2, <3>3 DEF SlotsInv
  <2>4. TypeOK'
    <3>1. conn' \in [Conns -> {"new", "pending", "open", "closed", "aborted"}]
      BY <1>1, <2>1 DEF TypeOK
    <3>2. closes' \in [Conns -> Nat]
      <4>1. closes[cur] + 1 \in Nat
        BY <1>1 DEF TypeOK
      <4> QED BY <2>1, <4>1 DEF TypeOK
    <3>3. slots' \in [1..MaxAccept -> Conns \cup {NoConn}] /\ mine' \subseteq Conns
      BY <2>1 DEF TypeOK
    <3> QED BY <1>1, <2>3, <3>1, <3>2, <3>3 DEF TypeOK
  <2>5. SlotsInv'
    <3>1. \A l, n \in 1..MaxAccept : slots'[l] # NoConn /\ slots'[l] = slots'[n] => l = n
      BY <2>2 DEF SlotsInv
    <3>2. \A d \in mine' : \E l \in 1..MaxAccept : slots'[l] = d
      <4> SUFFICES ASSUME NEW d \in mine' PROVE \E l \in 1..MaxAccept : slots'[l] = d
        OBVIOUS
      <4>1. PICK l \in 1..MaxAccept : slots[l] = d
        BY <2>1 DEF SlotsInv
      <4>2. l # k
        BY <1>2, <2>1, <4>1
      <4> QED BY <2>2, <4>1, <4>2
    <3>3. \A l \in 1..MaxAccept : slots'[l] # NoConn => slots'[l] \in mine'
      <4> SUFFICES ASSUME NEW l \in 1..MaxAccept, slots'[l] # NoConn PROVE slots'[l] \in mine'
        OBVIOUS
      <4>1. l # k /\ slots'[l] = slots[l]
        BY <2>2
      <4>2. slots[l] # cur
        BY <1>3, <4>1
      <4> QED BY <2>1, <4>1, <4>2 DEF SlotsInv
    <3> QED BY <1>4, <2>3, <3>1, <3>2, <3>3 DEF SlotsInv
  <2>6. \A d \in Conns : conn'[d] \in {conn[d], "closed"}
    BY <1>1, <2>1 DEF TypeOK
  <2>7. EventsInv' /\ BacklogInv' /\ RequestInv'
    <3>1. EventsInv'
      BY <1>1, <1>4, <2>1 DEF EventsInv
    <3>2. BacklogInv'
      BY <1>1, <2>6 DEF BacklogInv
    <3>3. RequestInv'
      BY <1>1, <2>6 DEF RequestInv
    <3> QED BY <3>1, <3>2, <3>3
  <2>8. SocketHasOneOwner'
    <3> SUFFICES ASSUME NEW d \in Conns
                 PROVE  /\ handed'[d] + (IF d \in mine' THEN 1 ELSE 0) = IF conn'[d] = "open" THEN 1 ELSE 0
                        /\ closes'[d] = IF conn'[d] = "closed" THEN 1 ELSE 0
      BY DEF SocketHasOneOwner
    <3>1. /\ handed[d] \in Nat /\ closes[d] \in Nat /\ handed'[d] = handed[d]
          /\ handed[d] + (IF d \in mine THEN 1 ELSE 0) = IF conn[d] = "open" THEN 1 ELSE 0
          /\ closes[d] = IF conn[d] = "closed" THEN 1 ELSE 0
      BY <1>1 DEF TypeOK, SocketHasOneOwner
    <3>2. CASE d # cur
      <4>1. conn'[d] = conn[d] /\ closes'[d] = closes[d] /\ (d \in mine' <=> d \in mine)
        BY <2>1, <3>2 DEF TypeOK
      <4> QED BY <3>1, <4>1
    <3>3. CASE d = cur /\ cur \in mine
      <4>1. conn[d] = "open" /\ handed[d] = 0 /\ closes[d] = 0
        BY <3>1, <3>3
      <4>2. conn'[d] = "closed" /\ closes'[d] = 1 /\ d \notin mine'
        BY <2>1, <3>3, <4>1 DEF TypeOK
      <4> QED BY <3>1, <4>1, <4>2
    <3>4. CASE d = cur /\ cur \notin mine
      <4>1. conn'[d] = conn[d] /\ closes'[d] = closes[d] /\ d \notin mine'
        BY <2>1, <3>4
      <4> QED BY <3>1, <3>4, <4>1
    <3> QED BY <3>2, <3>3, <3>4
  <2> QED BY <2>4, <2>5, <2>7, <2>8
<1> QED BY <1>5, <1>6

\* In epoll_wait every client in a slot is the loop's, so what the sweep closes
\* is its own.
LEMMA SweepStep ==
    ASSUME IInv, Sweep
    PROVE  IInv'
<1> USE DEF IInv
<1> DEFINE due == {k \in 1..accept_size : slots[k] # NoConn /\ slots[k] \in stale}
           dropped == {slots[k] : k \in due}
<1>1. /\ loop = "wait" /\ loop' = "test"
      /\ slots' = [k \in 1..MaxAccept |-> IF k \in due THEN NoConn ELSE slots[k]]
      /\ accept_size' = accept_size - Cardinality(due)
      /\ conn' = [c \in Conns |-> IF c \in dropped THEN "closed" ELSE conn[c]]
      /\ closes' = [c \in Conns |-> closes[c] + IF c \in dropped THEN 1 ELSE 0]
      /\ mine' = mine \ dropped
      /\ stale' = stale \ dropped
      /\ UNCHANGED <<toSend, inbox, fin, edge, stop, events, hups, cur, remove,
                     parsed, handed, cut, listen_socket>>
  BY DEF Sweep, ActiveSize
<1>2. due \subseteq Occupied
  BY SizeAssumption DEF Occupied, TypeOK
<1>3. dropped \subseteq mine /\ \A k \in 1..MaxAccept : slots[k] \in dropped => k \in due
  <2>1. \A k \in 1..MaxAccept : slots[k] # NoConn => slots[k] \in mine
    BY <1>1 DEF SlotsInv, InTurn
  <2>2. \A k \in due : k \in 1..MaxAccept /\ slots[k] # NoConn
    BY <1>2 DEF Occupied
  <2>3. \A k \in 1..MaxAccept, l \in due : slots[k] = slots[l] => k = l
    BY <2>2 DEF SlotsInv
  <2> QED BY <2>1, <2>2, <2>3
<1>4. accept_size' = Cardinality(Occupied') /\ accept_size' \in 0..MaxAccept
  <2>1. Occupied' = Occupied \ due
    BY <1>1, <1>2 DEF Occupied
  <2>2. IsFiniteSet(Occupied) /\ Cardinality(Occupied') \in 0..MaxAccept
    BY SlotsFinite, <2>1 DEF Occupied
  <2>3. Occupied \cap due = due
    BY <1>2
  <2>4. Cardinality(Occupied \ due) = Cardinality(Occupied) - Cardinality(Occupied \cap due)
    BY <2>2, FS_Difference
  <2> HIDE DEF due
  <2> QED BY <1>1, <2>1, <2>2, <2>3, <2>4 DEF SlotsInv
<1> HIDE DEF due, dropped
<1>5. /\ \A k \in 1..MaxAccept : slots'[k] = IF k \in due THEN NoConn ELSE slots[k]
      /\ \A c \in Conns : /\ conn'[c] = IF c \in dropped THEN "closed" ELSE conn[c]
                          /\ closes'[c] = closes[c] + IF c \in dropped THEN 1 ELSE 0
  BY <1>1
<1>6. TypeOK'
  <2>1. \A c \in Conns : closes'[c] \in Nat
    <3> SUFFICES ASSUME NEW c \in Conns PROVE closes'[c] \in Nat
      OBVIOUS
    <3>1. closes[c] \in Nat /\ closes[c] + 1 \in Nat /\ closes[c] + 0 \in Nat
      BY DEF TypeOK
    <3> QED BY <1>5, <3>1
  <2>2. closes' \in [Conns -> Nat]
    BY <1>1, <2>1
  <2>3. /\ conn' \in [Conns -> {"new", "pending", "open", "closed", "aborted"}]
        /\ slots' \in [1..MaxAccept -> Conns \cup {NoConn}]
        /\ mine' \subseteq Conns /\ stale' \subseteq Conns
    BY <1>1 DEF TypeOK
  <2> QED BY <1>1, <1>4, <2>2, <2>3 DEF TypeOK
<1>7. SlotsInv'
  <2>1. \A l, n \in 1..MaxAccept : slots'[l] # NoConn /\ slots'[l] = slots'[n] => l = n
    BY <1>5 DEF SlotsInv
  <2>2. \A d \in mine' : \E l \in 1..MaxAccept : slots'[l] = d
    <3> SUFFICES ASSUME NEW d \in mine' PROVE \E l \in 1..MaxAccept : slots'[l] = d
      OBVIOUS
    <3>1. PICK l \in 1..MaxAccept : slots[l] = d
      BY <1>1 DEF SlotsInv
    <3>2. l \notin due
      BY <1>1, <3>1 DEF dropped
    <3> QED BY <1>5, <3>1, <3>2
  <2>3. \A l \in 1..MaxAccept : slots'[l] # NoConn => slots'[l] \in mine'
    BY <1>1, <1>3, <1>5 DEF SlotsInv, InTurn
  <2>4. ~InTurn'
    BY <1>1 DEF InTurn
  <2> QED BY <1>4, <2>1, <2>2, <2>3, <2>4 DEF SlotsInv
<1>8. EventsInv' /\ BacklogInv'
  BY <1>1, <1>5 DEF EventsInv, BacklogInv, InTurn
<1>9. RequestInv'
  BY <1>1, <1>5 DEF RequestInv
<1>10. SocketHasOneOwner'
  <2> SUFFICES ASSUME NEW d \in Conns
               PROVE  /\ handed'[d] + (IF d \in mine' THEN 1 ELSE 0) = IF conn'[d] = "open" THEN 1 ELSE 0
                      /\ closes'[d] = IF conn'[d] = "closed" THEN 1 ELSE 0
    BY DEF SocketHasOneOwner
  <2>1. /\ handed[d] \in Nat /\ closes[d] \in Nat /\ handed'[d] = handed[d]
        /\ handed[d] + (IF d \in mine THEN 1 ELSE 0) = IF conn[d] = "open" THEN 1 ELSE 0
        /\ closes[d] = IF conn[d] = "closed" THEN 1 ELSE 0
    BY <1>1 DEF TypeOK, SocketHasOneOwner
  <2>2. CASE d \in dropped
    BY <1>1, <1>3, <1>5, <2>1, <2>2
  <2>3. CASE d \notin dropped
    BY <1>1, <1>5, <2>1, <2>3
  <2> QED BY <2>2, <2>3
<1> QED BY <1>6, <1>7, <1>8, <1>9, <1>10

------------------------------------------------------------------------------
\* IInv holds in every reachable state of ServerLoopMain and the pool's sockets
\* (server.cpp).
THEOREM Invariance == Spec => []IInv
<1>1. ASSUME IInv, [Next]_vars PROVE IInv'
  <2>1. CASE UNCHANGED vars
    BY <1>1, <2>1 DEF vars, kernelVars, loopVars, IInv, TypeOK, SlotsInv, InTurn, Occupied, EventsInv,
                      RequestInv, SocketHasOneOwner, BacklogInv
  <2>2. ASSUME NEW c \in Conns, Environment(c) PROVE IInv'
    BY <1>1, <2>2, ClientSteps, PoolSteps DEF Environment
  <2>3. CASE ServerLoopMain
    BY <1>1, <2>3, QuietSteps, EpollWaitStep, AcceptStep, AcceptOverLimitStep, AcceptFailsStep, ReadEventStep, RecvDataStep,
       RecvEndsStep, AfterEventStep, SweepStep DEF ServerLoopMain
  <2>4. CASE StopServer
    BY <1>1, <2>4, QuietSteps
  <2> QED BY <1>1, <2>1, <2>2, <2>3, <2>4 DEF Next
<1> QED BY <1>1, InitIInv, PTL DEF Spec

\* The table of slots, the events and the sockets of the loop are always well
\* typed (server.cpp).
THEOREM TypeCorrect == Spec => []TypeOK
  BY Invariance, PTL DEF IInv

\* accept_size is the number of the slots that are taken, so below the limit the
\* scan finds a place, and the loop has every socket it owns in a slot
\* (ServerLoopMain, server.cpp).
THEOREM SlotsCounted == Spec => []SlotAccounting
<1>1. IInv => SlotAccounting
  <2> SUFFICES ASSUME IInv PROVE SlotAccounting
    OBVIOUS
  <2>1. accept_size < MaxAccept => FreeSlots # {}
    BY FreeSlotFound DEF IInv, SlotsInv
  <2> QED BY <2>1 DEF IInv, SlotsInv, Occupied, SlotAccounting
<1> QED BY <1>1, Invariance, PTL

\* An open socket belongs to the loop or to the pool and to nobody twice, and it
\* is closed once, by its owner (client->fd_ = -1 in server.cpp).
THEOREM OneOwner == Spec => []SocketHasOneOwner
  BY Invariance, PTL DEF IInv

\* One edge-triggered event is enough for everybody who is waiting, unless the
\* limit or an accept that failed ended the last loop over accept (server.cpp).
THEOREM NobodyForgotten == Spec => []BacklogNotForgotten
<1>1. IInv => BacklogNotForgotten
  BY DEF IInv, EventsInv, BacklogInv, BacklogNotForgotten
<1> QED BY <1>1, Invariance, PTL

------------------------------------------------------------------------------
\* The loop's side of Handover.  IInv tells the owner of a connection by its
\* socket and by mine.
OwnerByState ==
    [c \in Conns |-> IF conn[c] \in {"new", "pending", "aborted"} THEN "client"
                     ELSE IF conn[c] = "closed" THEN "nobody"
                     ELSE IF c \in mine THEN "loop" ELSE "pool"]

OwnerKnown == Owner = OwnerByState

LEMMA OwnerIsKnown == IInv => OwnerKnown
<1> SUFFICES ASSUME IInv, NEW c \in Conns
             PROVE  Owner[c] = OwnerByState[c]
  BY Zenon DEF OwnerKnown, Owner, OwnerByState
<1>1. /\ conn[c] \in {"new", "pending", "open", "closed", "aborted"}
      /\ handed[c] \in Nat /\ closes[c] \in Nat
      /\ handed[c] + (IF c \in mine THEN 1 ELSE 0) = IF conn[c] = "open" THEN 1 ELSE 0
      /\ closes[c] = IF conn[c] = "closed" THEN 1 ELSE 0
  BY DEF IInv, TypeOK, SocketHasOneOwner
<1> QED BY <1>1 DEF Owner, OwnerByState

\* Whom the loop owns, and of whom it gives away a socket.
LEMMA LoopOwns ==
    ASSUME IInv, NEW c \in Conns
    PROVE  /\ c \in mine => conn[c] = "open"
           /\ handed[c] > 0 => conn[c] = "open" /\ c \notin mine
           /\ conn[c] = "open" /\ parsed[c] # Chunks => c \in mine
<1>1. /\ handed[c] \in Nat
      /\ handed[c] + (IF c \in mine THEN 1 ELSE 0) = IF conn[c] = "open" THEN 1 ELSE 0
      /\ handed[c] > 0 => parsed[c] = Chunks
  BY DEF IInv, TypeOK, SocketHasOneOwner, RequestInv
<1> QED BY <1>1

\* A step that leaves the sockets and mine alone is none of Handover.
LEMMA NothingPassed ==
    ASSUME OwnerKnown, OwnerKnown', UNCHANGED <<conn, mine, closes>>
    PROVE  UNCHANGED <<Owner, closes>>
  BY DEF OwnerKnown, OwnerByState

LEMMA EnvironmentMapped ==
    ASSUME IInv, OwnerKnown, OwnerKnown', NEW c \in Conns, Environment(c)
    PROVE  [Life!Next]_<<Owner, closes>>
<1> USE DEF OwnerKnown, OwnerByState
<1>1. CASE ClientConnect(c)
  <2>1. conn \in [Conns -> {"new", "pending", "open", "closed", "aborted"}]
    BY DEF IInv, TypeOK
  <2>2. OwnerByState' = OwnerByState /\ closes' = closes
    BY <1>1, <2>1 DEF ClientConnect, loopVars
  <2> QED BY <2>2
<1>2. CASE ClientSend(c) \/ ClientShutdown(c) \/ ReadTimeoutPasses(c)
  BY <1>2, NothingPassed
  DEF ClientSend, ClientShutdown, ReadTimeoutPasses, loopVars, kernelVars
<1>3. CASE PoolCloses(c)
  <2>1. /\ conn[c] = "open" /\ c \notin mine
        /\ conn' = [conn EXCEPT ![c] = "closed"]
        /\ closes' = [closes EXCEPT ![c] = @ + 1]
        /\ mine' = mine
        /\ conn \in [Conns -> {"new", "pending", "open", "closed", "aborted"}]
        /\ closes \in [Conns -> Nat]
    BY <1>3, LoopOwns DEF PoolCloses, loopVars, IInv, TypeOK
  <2>2. Owner[c] = "pool"
    BY <2>1
  <2>3. Owner' = [d \in Conns |-> IF d \in {c} THEN "nobody" ELSE Owner[d]]
    BY <2>1
  <2>4. closes' = [d \in Conns |-> IF d \in {c} THEN closes[d] + 1 ELSE closes[d]]
    BY <2>1
  <2>5. Life!PoolCloses(c)
    BY <2>2, <2>3, <2>4 DEF Life!PoolCloses, Life!Close
  <2> QED BY <2>5 DEF Life!Next
<1> QED BY <1>1, <1>2, <1>3 DEF Environment

\* The sockets in cs are closed, and they are the client's or the loop's.
LEMMA ClosedByLoop ==
    ASSUME IInv, OwnerKnown, OwnerKnown', NEW cs \in SUBSET Conns,
           \A c \in cs : conn[c] \in {"new", "pending"} \/ c \in mine,
           conn' = [c \in Conns |-> IF c \in cs THEN "closed" ELSE conn[c]],
           closes' = [c \in Conns |-> IF c \in cs THEN closes[c] + 1 ELSE closes[c]],
           mine' = mine \ cs
    PROVE  [Life!Next]_<<Owner, closes>>
<1>1. \A c \in cs : Owner[c] \in {"client", "loop"}
  BY LoopOwns DEF OwnerKnown, OwnerByState
<1>2. Owner' = [c \in Conns |-> IF c \in cs THEN "nobody" ELSE Owner[c]]
  BY DEF OwnerKnown, OwnerByState
<1>3. Life!LoopCloses(cs)
  BY <1>1, <1>2 DEF Life!LoopCloses, Life!Close
<1> QED BY <1>3 DEF Life!Next

LEMMA AcceptMapped ==
    ASSUME IInv, OwnerKnown, OwnerKnown', NEW c \in Conns, Accept(c) \/ AcceptOverLimit(c)
    PROVE  [Life!Next]_<<Owner, closes>>
<1>1. /\ conn \in [Conns -> {"new", "pending", "open", "closed", "aborted"}]
      /\ closes \in [Conns -> Nat]
      /\ conn[c] = "pending" /\ c \notin mine
  BY LoopOwns DEF IInv, TypeOK, Accept, AcceptOverLimit
<1>2. CASE Accept(c)
  <2>1. /\ conn' = [conn EXCEPT ![c] = "open"] /\ mine' = mine \cup {c}
        /\ closes' = closes
    BY <1>2 DEF Accept
  <2>2. Owner[c] = "client" /\ Owner' = [Owner EXCEPT ![c] = "loop"]
    BY <1>1, <2>1 DEF OwnerKnown, OwnerByState
  <2>3. Life!Accept(c)
    BY <2>1, <2>2 DEF Life!Accept, Life!Pass
  <2> QED BY <2>3 DEF Life!Next
<1>3. CASE AcceptOverLimit(c)
  <2> DEFINE cs == {c}
  <2>1. /\ cs \in SUBSET Conns
        /\ \A d \in cs : conn[d] \in {"new", "pending"} \/ d \in mine
        /\ conn' = [d \in Conns |-> IF d \in cs THEN "closed" ELSE conn[d]]
        /\ closes' = [d \in Conns |-> IF d \in cs THEN closes[d] + 1 ELSE closes[d]]
        /\ mine' = mine \ cs
    BY <1>1, <1>3 DEF AcceptOverLimit
  <2> QED BY <2>1, ClosedByLoop
<1> QED BY <1>2, <1>3

LEMMA AcceptFailsMapped ==
    ASSUME IInv, OwnerKnown, OwnerKnown', AcceptFails
    PROVE  UNCHANGED <<Owner, closes>>
<1>1. /\ mine' = mine /\ closes' = closes
      /\ \A c \in Conns : conn'[c] = conn[c] \/ (conn[c] = "pending" /\ conn'[c] = "aborted")
  BY FailingAccept DEF AcceptFails, IInv, TypeOK
<1>2. OwnerByState' = OwnerByState
  BY <1>1 DEF OwnerByState
<1> QED BY <1>1, <1>2 DEF OwnerKnown

LEMMA RecvDataMapped ==
    ASSUME IInv, OwnerKnown, OwnerKnown', RecvData
    PROVE  [Life!Next]_<<Owner, closes>>
<1>1. /\ loop = "recv" /\ conn[cur] = "open" /\ cur \in Conns
      /\ conn' = conn /\ closes' = closes
      /\ parsed \in [Conns -> 0..Chunks] /\ Chunks \in Nat
  BY SizeAssumption DEF RecvData, IInv, TypeOK, SlotsInv, InTurn
<1>2. CASE parsed[cur] + 1 = Chunks
  <2>1. cur \in mine /\ mine' = mine \ {cur}
    BY <1>1, <1>2, LoopOwns DEF RecvData, ForgetsDescriptor
  <2>2. Owner[cur] = "loop" /\ Owner' = [Owner EXCEPT ![cur] = "pool"]
    BY <1>1, <2>1 DEF OwnerKnown, OwnerByState
  <2>3. Life!HandOver(cur)
    BY <1>1, <2>2 DEF Life!HandOver, Life!Pass
  <2> QED BY <1>1, <2>3 DEF Life!Next
<1>3. CASE parsed[cur] + 1 # Chunks
  BY <1>1, <1>3, NothingPassed DEF RecvData
<1> QED BY <1>2, <1>3

LEMMA AfterEventMapped ==
    ASSUME IInv, OwnerKnown, OwnerKnown', AfterEvent
    PROVE  [Life!Next]_<<Owner, closes>>
<1>1. /\ conn \in [Conns -> {"new", "pending", "open", "closed", "aborted"}]
      /\ closes \in [Conns -> Nat] /\ cur \in Conns /\ mine \subseteq Conns
  BY DEF AfterEvent, IInv, TypeOK, SlotsInv, InTurn
<1>2. CASE (cur \in hups \/ remove) /\ cur \in mine
  <2> DEFINE cs == {cur}
  <2>1. /\ cs \in SUBSET Conns
        /\ \A d \in cs : conn[d] \in {"new", "pending"} \/ d \in mine
        /\ conn' = [d \in Conns |-> IF d \in cs THEN "closed" ELSE conn[d]]
        /\ closes' = [d \in Conns |-> IF d \in cs THEN closes[d] + 1 ELSE closes[d]]
        /\ mine' = mine \ cs
    BY <1>1, <1>2 DEF AfterEvent
  <2> QED BY <2>1, ClosedByLoop
<1>3. CASE ~((cur \in hups \/ remove) /\ cur \in mine)
  <2>1. UNCHANGED <<conn, mine, closes>>
    BY <1>3 DEF AfterEvent
  <2> QED BY <2>1, NothingPassed
<1> QED BY <1>2, <1>3

LEMMA SweepMapped ==
    ASSUME IInv, OwnerKnown, OwnerKnown', Sweep
    PROVE  [Life!Next]_<<Owner, closes>>
<1> DEFINE due == {k \in 1..accept_size : slots[k] # NoConn /\ slots[k] \in stale}
           dropped == {slots[k] : k \in due}
<1>1. /\ loop = "wait"
      /\ conn' = [c \in Conns |-> IF c \in dropped THEN "closed" ELSE conn[c]]
      /\ closes' = [c \in Conns |-> closes[c] + IF c \in dropped THEN 1 ELSE 0]
      /\ mine' = mine \ dropped
  BY DEF Sweep
<1>2. due \subseteq 1..MaxAccept
  BY SizeAssumption DEF IInv, TypeOK
<1>3. \A k \in due : slots[k] \in mine
  BY <1>1, <1>2 DEF IInv, SlotsInv, InTurn
<1>4. dropped \subseteq mine /\ dropped \in SUBSET Conns
  BY <1>3 DEF IInv, TypeOK
<1> HIDE DEF due, dropped
<1>5. closes' = [c \in Conns |-> IF c \in dropped THEN closes[c] + 1 ELSE closes[c]]
  BY <1>1 DEF IInv, TypeOK
<1> QED BY <1>1, <1>4, <1>5, ClosedByLoop

(* ServerLoopMain, whatever the clients do and however late a worker closes,
   keeps its side of what server.cpp and http_server.cpp promise each other:
   it closes what it has accepted and not given away, gives a socket away once
   and never closes it after that. *)
THEOREM LoopKeepsItsSide == Spec => LoopSide
<1>1. Init => Life!Init
  BY DEF Init, Life!Init, Owner
<1>2. IInv /\ OwnerKnown /\ OwnerKnown' /\ [Next]_vars => [Life!Next]_<<Owner, closes>>
  <2> SUFFICES ASSUME IInv, OwnerKnown, OwnerKnown', [Next]_vars
               PROVE  [Life!Next]_<<Owner, closes>>
    OBVIOUS
  <2>1. ASSUME NEW c \in Conns, Environment(c) PROVE [Life!Next]_<<Owner, closes>>
    BY <2>1, EnvironmentMapped
  <2>2. ASSUME NEW c \in Conns, Accept(c) \/ AcceptOverLimit(c)
        PROVE  [Life!Next]_<<Owner, closes>>
    BY <2>2, AcceptMapped
  <2>3. CASE RecvData \/ AfterEvent \/ Sweep
    BY <2>3, RecvDataMapped, AfterEventMapped, SweepMapped
  <2>4. ASSUME UNCHANGED <<conn, mine, closes>> PROVE [Life!Next]_<<Owner, closes>>
    BY <2>4, NothingPassed
  <2>5. CASE \/ CreateServerSocket \/ StartServer \/ LoopTest \/ EpollTimeout \/ EpollWait
             \/ EventsDone \/ AcceptEvent \/ AcceptNoMore \/ RecvEnds \/ StopServer
             \/ \E c \in Conns : ReadEvent(c)
    BY <2>4, <2>5 DEF CreateServerSocket, StartServer, LoopTest, EpollTimeout, EpollWait,
       EventsDone, AcceptEvent, AcceptNoMore, RecvEnds, StopServer, ReadEvent, kernelVars
  <2>6. CASE UNCHANGED vars
    BY <2>4, <2>6 DEF vars, kernelVars, loopVars
  <2>7. CASE AcceptFails
    BY <2>7, AcceptFailsMapped
  <2> QED BY <2>1, <2>2, <2>3, <2>5, <2>6, <2>7 DEF Next, ServerLoopMain
<1>3. IInv /\ OwnerKnown /\ OwnerKnown' /\ [Next]_vars => [Life!Next]_(Life!vars)
  BY <1>2 DEF Life!vars
<1> QED BY <1>1, <1>3, OwnerIsKnown, Invariance, PTL DEF Spec, LoopSide, Life!Spec

------------------------------------------------------------------------------
\* What the contract is worth: whoever keeps to Handover closes no connection
\* twice, whatever else happens.

ClosedByOwner ==
    /\ Owner \in [Conns -> {"client", "loop", "pool", "nobody"}]
    /\ closes \in [Conns -> {0, 1}]
    /\ \A c \in Conns : closes[c] = 1 <=> Owner[c] = "nobody"

LEMMA ContractStep ==
    ASSUME ClosedByOwner, [Life!Next]_(Life!vars)
    PROVE  ClosedByOwner'
<1> USE DEF ClosedByOwner
<1>1. ASSUME NEW c \in Conns, Life!Accept(c) \/ Life!HandOver(c) PROVE ClosedByOwner'
  <2>1. PICK from \in {"client", "loop"}, to \in {"loop", "pool"} : Life!Pass(c, from, to)
    BY <1>1 DEF Life!Accept, Life!HandOver
  <2> QED BY <2>1 DEF Life!Pass
<1>2. ASSUME NEW cs \in SUBSET Conns,
             NEW holders \in SUBSET {"client", "loop", "pool"}, Life!Close(cs, holders)
      PROVE  ClosedByOwner'
  <2>1. /\ \A c \in cs : Owner[c] \in holders
        /\ Owner' = [c \in Conns |-> IF c \in cs THEN "nobody" ELSE Owner[c]]
        /\ closes' = [c \in Conns |-> IF c \in cs THEN closes[c] + 1 ELSE closes[c]]
    BY <1>2 DEF Life!Close
  <2>2. \A c \in cs : closes[c] = 0
    BY <2>1
  <2>3. ASSUME NEW c \in Conns
        PROVE  /\ Owner'[c] \in {"client", "loop", "pool", "nobody"}
               /\ closes'[c] \in {0, 1}
               /\ closes'[c] = 1 <=> Owner'[c] = "nobody"
    BY <2>1, <2>2
  <2> HIDE DEF Owner
  <2> QED BY <2>1, <2>3
<1>3. ASSUME NEW cs \in SUBSET Conns, Life!LoopCloses(cs) PROVE ClosedByOwner'
  BY <1>2, <1>3 DEF Life!LoopCloses
<1>4. ASSUME NEW c \in Conns, Life!PoolCloses(c) PROVE ClosedByOwner'
  BY <1>2, <1>4 DEF Life!PoolCloses
<1>5. CASE UNCHANGED Life!vars
  BY <1>5 DEF Life!vars
<1> QED BY <1>1, <1>3, <1>4, <1>5 DEF Life!Next

\* The contract alone, without the loop behind it, makes a connection end with
\* exactly one close, after which it has no owner any more (server.cpp and
\* http_server.cpp, as Handover relates them).
THEOREM ContractClosesOnce == LoopSide => []ClosedByOwner
<1>1. Life!Init => ClosedByOwner
  BY DEF Life!Init, ClosedByOwner
<1> QED BY <1>1, ContractStep, PTL DEF LoopSide, Life!Spec
==============================================================================
