------------------------------ MODULE HttpTasks ------------------------------
(***************************************************************************)
(* What the pool does with a complete request (server/http_server.cpp):    *)
(* HttpTask answers it, SendResponse and NextTask send the answer piece by *)
(* piece, re-queuing the rest, and one of them closes the socket.          *)
(*                                                                         *)
(* The pool's queue is the atomic queue of FifoQueue; send, errno and the  *)
(* clock are external.  A response is Length units.                        *)
(***************************************************************************)
EXTENDS Naturals, Sequences, FiniteSets

CONSTANTS Conns,      \* connections, one request each
          NoConn,
          Workers,    \* threads of the pool
          Length      \* units in which send takes a response

ASSUME ConnAssumption == NoConn \notin Conns
ASSUME LengthAssumption == Length \in Nat \ {0}

VARIABLES conn,       \* "reading" by the server loop, "open", "closed"
          tasks,      \* queued HttpTask and NextTask objects
          wpc, task,  \* where each worker is, and with what
          again,      \* again[w]: errno of thread w is EAGAIN
          expired,    \* connections whose 15 seconds for the answer are over
          closes,     \* history: how often close() was called
          out,        \* history: the units the client receives, up to a resend
          resent,     \* history: answers queued again after a full send
          failed      \* history: answers given up, by an error or by expiry

vars == <<conn, tasks, wpc, task, again, expired, closes, out, resent, failed>>

NoTask == [kind |-> "none", conn |-> NoConn, left |-> <<>>]
Content == [k \in 1..Length |-> k]

Init == /\ conn = [c \in Conns |-> "reading"]
        /\ tasks = <<>>
        /\ wpc = [w \in Workers |-> "idle"]
        /\ task = [w \in Workers |-> NoTask]
        /\ again = [w \in Workers |-> FALSE]
        /\ expired = {}
        /\ closes = [c \in Conns |-> 0]
        /\ out = [c \in Conns |-> <<>>]
        /\ resent = {}
        /\ failed = {}

\* OnRead in the server loop: the request is complete.
OnRead(c) ==
    /\ conn[c] = "reading"
    /\ conn' = [conn EXCEPT ![c] = "open"]
    /\ tasks' = Append(tasks, [kind |-> "http", conn |-> c, left |-> <<>>])
    /\ UNCHANGED <<wpc, task, again, expired, closes, out, resent, failed>>

\* The deadline that the first SendResponse for c has set, 15 seconds later,
\* and handed on to the NextTask that continues it.
HasDeadline(c) == \/ \E k \in 1..Len(tasks) : tasks[k].kind = "next" /\ tasks[k].conn = c
                  \/ \E w \in Workers : task[w].kind = "next" /\ task[w].conn = c

ExpiryPasses(c) ==
    /\ HasDeadline(c)
    /\ c \notin expired
    /\ expired' = expired \cup {c}
    /\ UNCHANGED <<conn, tasks, wpc, task, again, closes, out, resent, failed>>

------------------------------------------------------------------------------
\* The workers

TakeTask(w) ==
    /\ wpc[w] = "idle"
    /\ tasks # <<>>
    /\ task' = [task EXCEPT ![w] = Head(tasks)]
    /\ tasks' = Tail(tasks)
    /\ wpc' = [wpc EXCEPT ![w] = IF Head(tasks).kind = "http" THEN "process" ELSE "send"]
    /\ UNCHANGED <<conn, again, expired, closes, out, resent, failed>>

\* HttpTask::Run: routes_->Process, after which errno is anything.  An answer
\* is sent when it gives 0; otherwise the socket is closed.
Process(w) ==
    /\ wpc[w] = "process"
    /\ \E e \in BOOLEAN : again' = [again EXCEPT ![w] = e]
    /\ \/ /\ wpc' = [wpc EXCEPT ![w] = "send"]
          /\ task' = [task EXCEPT ![w].left = Content]
          /\ UNCHANGED failed
       \/ /\ wpc' = [wpc EXCEPT ![w] = "close"]
          /\ failed' = failed \cup {task[w].conn}
          /\ UNCHANGED task
    /\ UNCHANGED <<conn, tasks, expired, closes, out, resent>>

\* Run() without the return after Owner()->Push(nxt): it goes on to close(sock).
RequeueAndClose(w, rest) ==
    /\ tasks' = Append(tasks, [kind |-> "next", conn |-> task[w].conn, left |-> rest])
    /\ wpc' = [wpc EXCEPT ![w] = "close"]

\* Owner()->Push(nxt); return;
Requeue(w, rest) ==
    /\ tasks' = Append(tasks, [kind |-> "next", conn |-> task[w].conn, left |-> rest])
    /\ wpc' = [wpc EXCEPT ![w] = "finish"]

\* now > expires_in, which a fresh deadline for every task would never be.
NeverOver(w) == FALSE
TimeIsOver(w) == task[w].kind = "next" /\ task[w].conn \in expired

\* The return without close(sock).
SendExpiredUnclosed(w) ==
    /\ wpc[w] = "send"
    /\ TimeIsOver(w)
    /\ wpc' = [wpc EXCEPT ![w] = "finish"]
    /\ failed' = failed \cup {task[w].conn}
    /\ UNCHANGED <<conn, tasks, task, again, expired, closes, out, resent>>

\* SendResponse of a NextTask whose time is over.
SendExpired(w) ==
    /\ wpc[w] = "send"
    /\ TimeIsOver(w)
    /\ wpc' = [wpc EXCEPT ![w] = "close"]
    /\ failed' = failed \cup {task[w].conn}
    /\ UNCHANGED <<conn, tasks, task, again, expired, closes, out, resent>>

MayStillSend(w) ==
    /\ wpc[w] = "send"
    /\ ~TimeIsOver(w)

\* buffer.substr(len), and the whole buffer instead of it.
RestFromStart(left, n) == IF n = Len(left) THEN <<>> ELSE left
Rest(left, n) == SubSeq(left, n + 1, Len(left))

\* send takes n units: the rest is queued, or everything is out.  After a full
\* send errno is what an earlier call left in it, and EAGAIN queues it all again.
SendTakes(w) ==
    /\ MayStillSend(w)
    /\ \E n \in 1..Len(task[w].left) :
          LET c == task[w].conn
              left == task[w].left
              rest == Rest(left, n)
          IN  /\ out' = IF c \in resent THEN out
                        ELSE [out EXCEPT ![c] = @ \o SubSeq(left, 1, n)]
              /\ IF rest # <<>>
                 THEN Requeue(w, rest) /\ UNCHANGED resent
                 ELSE IF again[w]
                 THEN Requeue(w, left) /\ resent' = resent \cup {c}
                 ELSE /\ wpc' = [wpc EXCEPT ![w] = "close"]
                      /\ UNCHANGED <<tasks, resent>>
    /\ UNCHANGED <<conn, task, again, expired, closes, failed>>

\* send fails with EAGAIN: the content is queued again.
SendWouldBlock(w) ==
    /\ MayStillSend(w)
    /\ again' = [again EXCEPT ![w] = TRUE]
    /\ Requeue(w, task[w].left)
    /\ UNCHANGED <<conn, task, expired, closes, out, resent, failed>>

\* send fails with another error: the answer is given up.
SendFails(w) ==
    /\ MayStillSend(w)
    /\ again' = [again EXCEPT ![w] = FALSE]
    /\ wpc' = [wpc EXCEPT ![w] = "close"]
    /\ failed' = failed \cup {task[w].conn}
    /\ UNCHANGED <<conn, tasks, task, expired, closes, out, resent>>

\* close(sock), when no task was queued to go on.
CloseSocket(w) ==
    /\ wpc[w] = "close"
    /\ conn' = [conn EXCEPT ![task[w].conn] = "closed"]
    /\ closes' = [closes EXCEPT ![task[w].conn] = @ + 1]
    /\ wpc' = [wpc EXCEPT ![w] = "finish"]
    /\ UNCHANGED <<tasks, task, again, expired, out, resent, failed>>

\* task->Finish() deletes the task.
DeletedTask(w) == NoTask

FinishTask(w) ==
    /\ wpc[w] = "finish"
    /\ wpc' = [wpc EXCEPT ![w] = "idle"]
    /\ task' = [task EXCEPT ![w] = DeletedTask(w)]
    /\ UNCHANGED <<conn, tasks, again, expired, closes, out, resent, failed>>

------------------------------------------------------------------------------
Worker(w) == \/ TakeTask(w) \/ Process(w) \/ SendExpired(w) \/ SendTakes(w)
             \/ SendWouldBlock(w) \/ SendFails(w) \/ CloseSocket(w) \/ FinishTask(w)

Next == \/ \E c \in Conns : OnRead(c) \/ ExpiryPasses(c)
        \/ \E w \in Workers : Worker(w)

Spec == Init /\ [][Next]_vars

\* The workers run and time passes; nothing is assumed of the clients or of
\* what send answers.
Fairness == /\ \A w \in Workers : WF_vars(Worker(w))
            /\ \A c \in Conns : WF_vars(ExpiryPasses(c))

FairSpec == Spec /\ Fairness

------------------------------------------------------------------------------
Task == [kind : {"none", "http", "next"}, conn : Conns \cup {NoConn},
         left : Seq(1..Length)]

TypeOK ==
    /\ conn \in [Conns -> {"reading", "open", "closed"}]
    /\ tasks \in Seq(Task)
    /\ wpc \in [Workers -> {"idle", "process", "send", "close", "finish"}]
    /\ task \in [Workers -> Task]
    /\ \A w \in Workers : task[w] = NoTask <=> wpc[w] = "idle"
    /\ again \in [Workers -> BOOLEAN]
    /\ expired \subseteq Conns
    /\ closes \in [Conns -> Nat]
    /\ out \in [Conns -> Seq(1..Length)]
    /\ resent \subseteq Conns /\ failed \subseteq Conns

Owners(c) == Cardinality({k \in 1..Len(tasks) : tasks[k].conn = c})
             + Cardinality({w \in Workers : /\ task[w].conn = c
                                            /\ wpc[w] \in {"process", "send", "close"}})

(* A request handed to the pool belongs to one queued task or to one worker
   until its socket is closed, once, and to nobody after that. *)
OneTaskPerSocket ==
    \A c \in Conns : /\ Owners(c) = IF conn[c] = "open" THEN 1 ELSE 0
                     /\ closes[c] = IF conn[c] = "closed" THEN 1 ELSE 0

\* Who has a connection, told by where its tasks are.
InPool(c) == \/ \E k \in 1..Len(tasks) : tasks[k].conn = c
             \/ \E w \in Workers : /\ task[w].conn = c
                                   /\ wpc[w] \in {"process", "send", "close"}
Owner == [c \in Conns |-> IF InPool(c) THEN "pool"
                          ELSE IF closes[c] > 0 THEN "nobody" ELSE "loop"]

Life == INSTANCE Handover WITH owner <- Owner

(* The pool keeps its side of Handover: no task or worker lets go of a socket
   except by passing it to the one that continues or by closing it, and none
   touches it again after that. *)
PoolSide == Life!Spec

(* The client receives a prefix of the answer, in order, across short sends and
   changes of worker, and all of it if no error and no expiry ended it.  This
   leaves out the answers that a stale EAGAIN has queued again in full. *)
AnswerIsIntact ==
    \A c \in Conns \ resent :
        /\ out[c] = SubSeq(Content, 1, Len(out[c]))
        /\ conn[c] = "closed" /\ c \notin failed => out[c] = Content

(* A request handed to the pool is over after finitely many sends: its socket
   is closed however often send would block or a stale errno queues it again. *)
HandedOverIsClosed == \A c \in Conns : conn[c] = "open" ~> conn[c] = "closed"
==============================================================================
