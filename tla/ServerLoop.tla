----------------------------- MODULE ServerLoop ------------------------------
(***************************************************************************)
(* ServerLoopMain (server/server.cpp) with the callbacks HttpServer gives  *)
(* it: one thread accepts connections into the slots of accept_queue,      *)
(* reads requests, and hands a complete request with its socket to the     *)
(* pool, whose workers answer and close the socket (module HttpTasks).     *)
(*                                                                         *)
(* Sockets, epoll and the clients are external.  A client sends one        *)
(* request, which recv sees in Chunks pieces, and then waits for the       *)
(* answer, as the plugins do (Connection: Close).  Descriptor numbers are  *)
(* not reused in the model.                                                *)
(***************************************************************************)
EXTENDS Naturals, FiniteSets

CONSTANTS Conns,      \* client connections
          NoConn,     \* NULL
          Listener,   \* the listening socket
          Chunks,     \* pieces in which recv sees a request
          MaxAccept   \* max_accept_size

ASSUME ConnAssumption == NoConn \notin Conns /\ Listener \notin Conns
ASSUME SizeAssumption == Chunks \in Nat \ {0} /\ MaxAccept \in Nat \ {0}

VARIABLES
    \* external: the kernel and the clients
    conn,          \* "new", "pending" in the backlog, "open", "closed" by the server;
                   \* "aborted" if accept took it from the backlog and failed
    toSend,        \* pieces of the request the client has still to send
    inbox,         \* pieces in the receive buffer
    fin,           \* clients that have shut their side down
    edge,          \* the edge-triggered event of the listening socket
    \* ServerLoopMain
    listen_socket, \* Listener, or NoConn when there is none
    stop,          \* ctx->stop_, never initialised
    loop,          \* "create", "start", "test", "wait", "events", "accept", "recv", "after", "exit"
    events, hups,  \* what epoll_wait returned and is not handled yet; the
                   \* clients for which it reported EPOLLRDHUP
    cur,           \* the client of the current event
    remove,        \* the local remove
    slots,         \* accept_queue; slot k is accept_queue[k - 1]
    accept_size,   \* the local accept_size
    mine,          \* clients whose context has fd_ > 0
    stale,         \* clients whose read_timeout_ has passed
    parsed,        \* pieces appended to the HttpRequest
    \* the pool
    handed,        \* external: sockets handed over and not yet closed, a bag
    \* histories
    closes,        \* how often close() was called for a connection
    cut            \* the last accept loop was left by the limit or a failing
                   \* accept, not by an empty backlog

kernelVars == <<conn, toSend, inbox, fin, edge>>
loopVars == <<stop, loop, events, hups, cur, remove, slots, accept_size, mine, parsed, stale>>
vars == <<kernelVars, loopVars, listen_socket, handed, closes, cut>>

Init == /\ conn = [c \in Conns |-> "new"]
        /\ toSend = [c \in Conns |-> Chunks]
        /\ inbox = [c \in Conns |-> 0]
        /\ fin = {}
        /\ edge = FALSE
        /\ listen_socket = NoConn
        /\ stop = FALSE
        /\ loop = "create"
        /\ events = {}
        /\ hups = {}
        /\ cur = NoConn
        /\ remove = FALSE
        /\ slots = [k \in 1..MaxAccept |-> NoConn]
        /\ accept_size = 0
        /\ mine = {}
        /\ stale = {}
        /\ parsed = [c \in Conns |-> 0]
        /\ handed = [c \in Conns |-> 0]
        /\ closes = [c \in Conns |-> 0]
        /\ cut = FALSE

------------------------------------------------------------------------------
\* External: the clients, the clock and the pool

ClientConnect(c) ==
    /\ conn[c] = "new"
    /\ listen_socket = Listener
    /\ conn' = [conn EXCEPT ![c] = "pending"]
    /\ edge' = TRUE
    /\ UNCHANGED <<toSend, inbox, fin, loopVars, handed, closes, cut, listen_socket>>

ClientSend(c) ==
    /\ conn[c] \in {"pending", "open"}
    /\ c \notin fin
    /\ toSend[c] > 0
    /\ toSend' = [toSend EXCEPT ![c] = @ - 1]
    /\ inbox' = [inbox EXCEPT ![c] = @ + 1]
    /\ UNCHANGED <<conn, fin, edge, loopVars, handed, closes, cut, listen_socket>>

ClientShutdown(c) ==
    /\ conn[c] \in {"pending", "open"}
    /\ c \notin fin
    /\ fin' = fin \cup {c}
    /\ UNCHANGED <<conn, toSend, inbox, edge, loopVars, handed, closes, cut, listen_socket>>

ReadTimeoutPasses(c) ==
    /\ c \in mine \ stale
    /\ stale' = stale \cup {c}
    /\ UNCHANGED <<kernelVars, stop, loop, events, hups, cur, remove, slots, accept_size,
                   mine, parsed, handed, closes, cut, listen_socket>>

\* A worker of the pool is done with a socket it was given.
PoolCloses(c) ==
    /\ handed[c] > 0
    /\ handed' = [handed EXCEPT ![c] = @ - 1]
    /\ conn' = [conn EXCEPT ![c] = "closed"]
    /\ closes' = [closes EXCEPT ![c] = @ + 1]
    /\ UNCHANGED <<toSend, inbox, fin, edge, loopVars, cut, listen_socket>>

------------------------------------------------------------------------------
\* ServerLoopMain: the listening socket

\* socket, bind or listen may fail; nobody looks at the -1 that comes of it, and
\* the loop runs without a listening socket.
CreateServerSocket ==
    /\ loop = "create"
    /\ listen_socket' \in {Listener, NoConn}
    /\ loop' = "start"
    /\ UNCHANGED <<kernelVars, stop, events, hups, cur, remove, slots, accept_size,
                   mine, parsed, handed, closes, stale, cut>>

\* The context comes from malloc and its stop_ is whatever was there.
StartServer ==
    /\ loop = "start"
    /\ stop' \in BOOLEAN
    /\ loop' = "test"
    /\ UNCHANGED <<kernelVars, events, hups, cur, remove, slots, accept_size,
                   mine, parsed, handed, closes, stale, cut, listen_socket>>

\* while (!ctx->stop_)
LoopTest ==
    /\ loop = "test"
    /\ loop' = IF stop THEN "exit" ELSE "wait"
    /\ UNCHANGED <<kernelVars, stop, events, hups, cur, remove, slots, accept_size,
                   mine, parsed, handed, closes, stale, cut, listen_socket>>

\* epoll_wait gives up after a second: count is 0 and nothing happens.
EpollTimeout ==
    /\ loop = "wait"
    /\ loop' = "test"
    /\ UNCHANGED <<kernelVars, stop, events, hups, cur, remove, slots, accept_size,
                   mine, parsed, handed, closes, stale, cut, listen_socket>>

\* epoll_wait gives every socket that is ready; the listening socket is
\* edge-triggered, the others are level-triggered.
EpollWait ==
    /\ loop = "wait"
    /\ events' = {c \in mine : inbox[c] > 0 \/ c \in fin}
                 \cup (IF edge THEN {Listener} ELSE {})
    /\ events' # {}
    /\ hups' = fin \cap mine
    /\ edge' = FALSE
    /\ loop' = "events"
    /\ UNCHANGED <<conn, toSend, inbox, fin, stop, cur, remove, slots, accept_size,
                   mine, parsed, handed, closes, stale, cut, listen_socket>>

EventsDone ==
    /\ loop = "events"
    /\ events = {}
    /\ loop' = "test"
    /\ UNCHANGED <<kernelVars, stop, events, hups, cur, remove, slots, accept_size,
                   mine, parsed, handed, closes, stale, cut, listen_socket>>

AcceptEvent ==
    /\ loop = "events"
    /\ Listener \in events
    /\ events' = events \ {Listener}
    /\ loop' = "accept"
    /\ UNCHANGED <<kernelVars, stop, hups, cur, remove, slots, accept_size, mine,
                   parsed, handed, closes, stale, cut, listen_socket>>

\* The scan of the first accept_size entries (counting the new one) for NULL.
FreeSlots == {k \in 1..(accept_size + 1) : slots[k] = NoConn}

\* continue: accept until there is nothing left.  A break would be enough only
\* if the listening socket were level-triggered.
AcceptOnce == "events"
AcceptAgain == "accept"

\* A new request, of which nothing was read.
OnAccept(c) == [parsed EXCEPT ![c] = 0]

Accept(c) ==
    /\ loop = "accept"
    /\ conn[c] = "pending"
    /\ accept_size < MaxAccept
    /\ accept_size' = accept_size + 1
    /\ \E k \in FreeSlots : /\ \A l \in FreeSlots : k <= l
                            /\ slots' = [slots EXCEPT ![k] = c]
    /\ conn' = [conn EXCEPT ![c] = "open"]
    /\ mine' = mine \cup {c}
    /\ parsed' = OnAccept(c)
    /\ loop' = AcceptAgain
    /\ UNCHANGED <<toSend, inbox, fin, edge, stop, events, hups, cur, remove,
                   handed, closes, stale, cut, listen_socket>>

\* Over the limit: the connection is closed and the loop over accept is left.
AcceptOverLimit(c) ==
    /\ loop = "accept"
    /\ conn[c] = "pending"
    /\ accept_size = MaxAccept
    /\ conn' = [conn EXCEPT ![c] = "closed"]
    /\ closes' = [closes EXCEPT ![c] = @ + 1]
    /\ cut' = TRUE
    /\ loop' = "events"
    /\ UNCHANGED <<toSend, inbox, fin, edge, stop, events, hups, cur, remove, slots,
                   accept_size, mine, parsed, handed, stale, listen_socket>>

\* Nobody asks why accept has failed.  Without descriptors or memory, or
\* interrupted, it takes nothing; a connection that was reset it takes and drops.
\* Either leaves the loop, whatever waits in the backlog.
AcceptFails ==
    /\ loop = "accept"
    /\ \/ UNCHANGED conn
       \/ \E c \in Conns : conn[c] = "pending" /\ conn' = [conn EXCEPT ![c] = "aborted"]
    /\ cut' = TRUE
    /\ loop' = "events"
    /\ UNCHANGED <<toSend, inbox, fin, edge, stop, events, hups, cur, remove, slots,
                   accept_size, mine, parsed, handed, closes, stale, listen_socket>>

\* EAGAIN: the backlog is empty.
AcceptNoMore ==
    /\ loop = "accept"
    /\ \A c \in Conns : conn[c] # "pending"
    /\ cut' = FALSE
    /\ loop' = "events"
    /\ UNCHANGED <<kernelVars, stop, events, hups, cur, remove, slots, accept_size,
                   mine, parsed, handed, closes, stale, listen_socket>>

------------------------------------------------------------------------------
\* ServerLoopMain: a client socket

ReadEvent(c) ==
    /\ loop = "events"
    /\ c \in events
    /\ events' = events \ {c}
    /\ cur' = c
    /\ remove' = FALSE
    /\ stale' = stale \ {c}
    /\ loop' = "recv"
    /\ UNCHANGED <<kernelVars, stop, hups, slots, accept_size, mine, parsed, handed,
                   closes, cut, listen_socket>>

\* client->fd_ = -1, and the hand-over without it.
KeepsDescriptor(c) == mine
ForgetsDescriptor(c) == mine \ {c}

\* External: what recv leaves in the buffer.
Received(c) == [inbox EXCEPT ![c] = @ - 1]

\* recv gives data; OnRead appends it and, when the request is complete,
\* pushes its HttpTask and returns -1: the loop forgets the descriptor.
RecvData ==
    /\ loop = "recv"
    /\ conn[cur] = "open"
    /\ inbox[cur] > 0
    /\ inbox' = Received(cur)
    /\ parsed' = [parsed EXCEPT ![cur] = @ + 1]
    /\ IF parsed[cur] + 1 = Chunks
       THEN /\ handed' = [handed EXCEPT ![cur] = @ + 1]
            /\ mine' = ForgetsDescriptor(cur)
            /\ remove' = TRUE
       ELSE UNCHANGED <<handed, mine, remove>>
    /\ UNCHANGED <<conn, toSend, fin, edge, stop, loop, events, hups, cur, slots,
                   accept_size, closes, stale, cut, listen_socket>>

\* recv gives 0, EAGAIN, or EBADF when a worker has closed the socket already.
RecvEnds ==
    /\ loop = "recv"
    /\ conn[cur] = "closed" \/ inbox[cur] = 0
    /\ remove' = (remove \/ conn[cur] = "closed" \/ cur \in fin)
    /\ loop' = "after"
    /\ UNCHANGED <<kernelVars, stop, events, hups, cur, slots, accept_size, mine,
                   parsed, handed, closes, stale, cut, listen_socket>>

SlotOf(c) == CHOOSE k \in 1..MaxAccept : slots[k] = c

\* The rest of the turn: release the slot, close what is still ours.
AfterEvent ==
    /\ loop = "after"
    /\ loop' = "events"
    /\ cur' = NoConn
    /\ IF cur \in hups \/ remove
       THEN /\ slots' = [slots EXCEPT ![SlotOf(cur)] = NoConn]
            /\ accept_size' = accept_size - 1
            /\ mine' = mine \ {cur}
            /\ IF cur \in mine
               THEN /\ conn' = [conn EXCEPT ![cur] = "closed"]
                    /\ closes' = [closes EXCEPT ![cur] = @ + 1]
               ELSE UNCHANGED <<conn, closes>>
       ELSE UNCHANGED <<slots, accept_size, mine, conn, closes>>
    /\ UNCHANGED <<toSend, inbox, fin, edge, stop, events, hups, remove, parsed,
                   handed, stale, cut, listen_socket>>

\* accept_size = active_size after the sweep, and the assignment left out.
SizeBeforeSweep(due) == accept_size
ActiveSize(due) == accept_size - Cardinality(due)

\* epoll_wait is interrupted (count < 0): the first accept_size slots are
\* searched for clients that have timed out.
Sweep ==
    /\ loop = "wait"
    /\ LET due == {k \in 1..accept_size : slots[k] # NoConn /\ slots[k] \in stale}
           dropped == {slots[k] : k \in due}
       IN  /\ due # {}
           /\ slots' = [k \in 1..MaxAccept |-> IF k \in due THEN NoConn ELSE slots[k]]
           /\ accept_size' = ActiveSize(due)
           /\ conn' = [c \in Conns |-> IF c \in dropped THEN "closed" ELSE conn[c]]
           /\ closes' = [c \in Conns |-> closes[c] + IF c \in dropped THEN 1 ELSE 0]
           /\ mine' = mine \ dropped
           /\ stale' = stale \ dropped
    /\ loop' = "test"
    /\ UNCHANGED <<toSend, inbox, fin, edge, stop, events, hups, cur, remove,
                   parsed, handed, cut, listen_socket>>

\* It sets stop_; stat_ is SrvStopped from the start, so it does not wait.
StopServer ==
    /\ ~stop
    /\ loop \notin {"create", "start"}
    /\ stop' = TRUE
    /\ UNCHANGED <<kernelVars, loop, events, hups, cur, remove, slots, accept_size,
                   mine, parsed, handed, closes, stale, cut, listen_socket>>

------------------------------------------------------------------------------
Environment(c) == \/ ClientConnect(c) \/ ClientSend(c) \/ ClientShutdown(c)
                  \/ ReadTimeoutPasses(c) \/ PoolCloses(c)

ServerLoopMain == \/ CreateServerSocket \/ StartServer
                  \/ LoopTest \/ EpollTimeout \/ EpollWait \/ EventsDone
                  \/ AcceptEvent \/ AcceptFails \/ AcceptNoMore
                  \/ \E c \in Conns : Accept(c) \/ AcceptOverLimit(c) \/ ReadEvent(c)
                  \/ RecvData \/ RecvEnds \/ AfterEvent \/ Sweep

Next == \/ \E c \in Conns : Environment(c)
        \/ ServerLoopMain
        \/ StopServer

Spec == Init /\ [][Next]_vars

------------------------------------------------------------------------------
TypeOK ==
    /\ conn \in [Conns -> {"new", "pending", "open", "closed", "aborted"}]
    /\ toSend \in [Conns -> 0..Chunks]
    /\ inbox \in [Conns -> 0..Chunks]
    /\ fin \subseteq Conns
    /\ edge \in BOOLEAN /\ stop \in BOOLEAN /\ remove \in BOOLEAN /\ cut \in BOOLEAN
    /\ listen_socket \in {Listener, NoConn}
    /\ loop \in {"create", "start", "test", "wait", "events", "accept", "recv", "after", "exit"}
    /\ events \subseteq Conns \cup {Listener}
    /\ hups \subseteq Conns
    /\ cur \in Conns \cup {NoConn}
    /\ slots \in [1..MaxAccept -> Conns \cup {NoConn}]
    /\ accept_size \in 0..MaxAccept
    /\ mine \subseteq Conns /\ stale \subseteq Conns
    /\ parsed \in [Conns -> 0..Chunks]
    /\ handed \in [Conns -> Nat]
    /\ closes \in [Conns -> Nat]

(* accept_size counts the occupied slots exactly, through accepts, hand-overs,
   shutdowns, the limit and the sweep, so that the scan of the first
   accept_size entries always finds the new client a place. *)
SlotAccounting ==
    /\ accept_size = Cardinality({k \in 1..MaxAccept : slots[k] # NoConn})
    /\ accept_size < MaxAccept => FreeSlots # {}
    /\ \A c \in mine : \E k \in 1..MaxAccept : slots[k] = c

(* An open socket has one owner, the loop or the pool, also while the loop goes
   on with recv after it has handed the socket over and a worker closes it
   meanwhile.  It is closed by that owner, once, and by nobody after that. *)
SocketHasOneOwner ==
    \A c \in Conns :
        /\ handed[c] + (IF c \in mine THEN 1 ELSE 0) = IF conn[c] = "open" THEN 1 ELSE 0
        /\ closes[c] = IF conn[c] = "closed" THEN 1 ELSE 0

\* Who has a connection: the pool as long as it holds the descriptor, even while
\* the loop is still in the turn in which it gave it away.
Owner == [c \in Conns |-> IF handed[c] > 0 THEN "pool"
                          ELSE IF c \in mine THEN "loop"
                          ELSE IF closes[c] > 0 THEN "nobody" ELSE "client"]

Life == INSTANCE Handover WITH owner <- Owner

(* The loop keeps its side of Handover: it closes what it has accepted and not
   given away and nothing else, and a socket it gives away it gives away once and
   never closes, although it goes on reading from it in the same turn. *)
LoopSide == Life!Spec

(* The event of the listening socket comes once per arrival and is consumed
   before accept is called.  It leaves no connection in the backlog, unless the
   limit or a failing accept has ended the last accept loop early; the next
   arrival then makes up for it. *)
BacklogNotForgotten ==
    loop \in {"test", "wait"} /\ ~edge /\ (\E c \in Conns : conn[c] = "pending") => cut
==============================================================================
