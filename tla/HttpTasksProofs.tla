--------------------------- MODULE HttpTasksProofs ---------------------------
(***************************************************************************)
(* For any number of connections and workers and any length of an answer:  *)
(* a request handed to the pool has one owner until its socket is closed,  *)
(* once, and its client receives the answer in order.                      *)
(***************************************************************************)
EXTENDS HttpTasks, SequenceTheorems, FiniteSetTheorems, TLAPS

Busy(w) == wpc[w] \in {"process", "send", "close"}

\* A task is for a connection, and a worker out of the loop's head has one.
TasksInv ==
    /\ \A k \in 1..Len(tasks) : tasks[k].kind # "none" /\ tasks[k].conn \in Conns
    /\ \A w \in Workers : wpc[w] # "idle" => task[w].kind # "none" /\ task[w].conn \in Conns

\* OneTaskPerSocket owner by owner.
OwnersInv ==
    /\ \A k \in 1..Len(tasks) : conn[tasks[k].conn] = "open"
    /\ \A w \in Workers : Busy(w) => conn[task[w].conn] = "open"
    /\ \A k, l \in 1..Len(tasks) : tasks[k].conn = tasks[l].conn => k = l
    /\ \A v, w \in Workers : Busy(v) /\ Busy(w) /\ task[v].conn = task[w].conn => v = w
    /\ \A k \in 1..Len(tasks), w \in Workers : Busy(w) => tasks[k].conn # task[w].conn
    /\ \A c \in Conns : conn[c] = "open" =>
          \/ \E k \in 1..Len(tasks) : tasks[k].conn = c
          \/ \E w \in Workers : Busy(w) /\ task[w].conn = c

ClosesInv == \A c \in Conns : closes[c] = IF conn[c] = "closed" THEN 1 ELSE 0

\* left is the answer without what the client of c has received.
Remains(c, left) ==
    /\ Len(out[c]) + Len(left) = Length
    /\ \A k \in 1..Len(left) : left[k] = Len(out[c]) + k

Settled(c) == c \in failed \/ Len(out[c]) = Length

\* What is out of the answer of c, by where c is.
Sent(c) ==
    /\ Len(out[c]) <= Length
    /\ \A k \in 1..Len(out[c]) : out[c][k] = k
    /\ conn[c] = "reading" => Len(out[c]) = 0
    /\ conn[c] = "closed" => Settled(c)
    /\ \A k \in 1..Len(tasks) : tasks[k].conn = c =>
          /\ tasks[k].kind = "http" => Len(out[c]) = 0
          /\ tasks[k].kind = "next" => Remains(c, tasks[k].left)
    /\ \A w \in Workers : task[w].conn = c =>
          /\ wpc[w] = "process" => Len(out[c]) = 0
          /\ wpc[w] = "send" => Remains(c, task[w].left)
          /\ wpc[w] = "close" => Settled(c)

SentInv == \A c \in Conns \ resent : Sent(c)

IInv == TypeOK /\ TasksInv /\ OwnersInv /\ ClosesInv /\ SentInv

------------------------------------------------------------------------------
LEMMA Cleared == NoTask \in Task /\ NoTask.kind = "none"
<1>1. <<>> \in Seq(1..Length)
  BY EmptySeq
<1> QED BY <1>1 DEF NoTask, Task

LEMMA InitIInv == Init => IInv
<1> SUFFICES ASSUME Init PROVE IInv
  OBVIOUS
<1>1. /\ tasks \in Seq(Task) /\ Len(tasks) = 0
      /\ \A c \in Conns : out[c] \in Seq(1..Length) /\ Len(out[c]) = 0
      /\ out \in [Conns -> Seq(1..Length)]
  BY EmptySeq DEF Init
<1>2. \A w \in Workers : task[w] = NoTask /\ wpc[w] = "idle"
  BY DEF Init
<1>3. task \in [Workers -> Task]
  BY Cleared DEF Init
<1>4. /\ conn \in [Conns -> {"reading", "open", "closed"}]
      /\ wpc \in [Workers -> {"idle", "process", "send", "close", "finish"}]
      /\ closes \in [Conns -> Nat]
      /\ expired \subseteq Conns /\ resent \subseteq Conns /\ failed \subseteq Conns
  BY DEF Init
<1>5. again \in [Workers -> BOOLEAN]
  BY DEF Init
<1>6. TypeOK
  BY <1>1, <1>2, <1>3, <1>4, <1>5 DEF TypeOK
<1>7. TasksInv /\ OwnersInv
  BY <1>1, <1>2 DEF Init, TasksInv, OwnersInv, Busy
<1>8. ClosesInv
  BY DEF Init, ClosesInv
<1>9. SentInv
  BY <1>1, <1>2, LengthAssumption DEF Init, SentInv, Sent, Busy
<1> QED BY <1>6, <1>7, <1>8, <1>9 DEF IInv

\* A task put at the end of the queue.
LEMMA Enqueued ==
    ASSUME tasks \in Seq(Task), NEW t \in Task, tasks' = Append(tasks, t)
    PROVE  /\ tasks' \in Seq(Task)
           /\ Len(tasks) \in Nat
           /\ Len(tasks') = Len(tasks) + 1
           /\ \A k \in 1..Len(tasks) : k \in 1..Len(tasks') /\ tasks'[k] = tasks[k]
           /\ Len(tasks') \in 1..Len(tasks') /\ tasks'[Len(tasks')] = t
           /\ \A k \in 1..Len(tasks') : k \in 1..Len(tasks) \/ k = Len(tasks')
<1>1. Len(tasks) \in Nat
  BY LenProperties
<1> QED BY <1>1, AppendProperties

\* The first task taken from the queue.
LEMMA Dequeued ==
    ASSUME tasks \in Seq(Task), tasks # <<>>, tasks' = Tail(tasks)
    PROVE  /\ tasks' \in Seq(Task)
           /\ Len(tasks) \in Nat
           /\ Len(tasks') = Len(tasks) - 1
           /\ \A k \in 1..Len(tasks') : k + 1 \in 2..Len(tasks) /\ tasks'[k] = tasks[k + 1]
           /\ 1 \in 1..Len(tasks) /\ Head(tasks) = tasks[1] /\ Head(tasks) \in Task
           /\ \A k \in 1..Len(tasks) : k = 1 \/ (k - 1 \in 1..Len(tasks') /\ tasks'[k - 1] = tasks[k])
<1>1. Len(tasks) \in Nat /\ Len(tasks) # 0
  BY LenProperties, EmptySeq
<1>2. /\ Head(tasks) \in Task
      /\ Tail(tasks) \in Seq(Task)
      /\ Len(Tail(tasks)) = Len(tasks) - 1
      /\ \A k \in 1..Len(Tail(tasks)) : Tail(tasks)[k] = tasks[k + 1]
  BY HeadTailProperties
<1>3. Head(tasks) = tasks[1]
  OBVIOUS
<1> QED BY <1>1, <1>2, <1>3

\* What IInv says of a worker with a task.
LEMMA WorkersTask ==
    ASSUME IInv, NEW w \in Workers, wpc[w] # "idle"
    PROVE  /\ task[w] \in Task /\ task[w] # NoTask
           /\ task[w].kind \in {"http", "next"}
           /\ task[w].conn \in Conns
           /\ task[w].left \in Seq(1..Length)
           /\ Len(task[w].left) \in Nat
           /\ out[task[w].conn] \in Seq(1..Length)
           /\ Len(out[task[w].conn]) \in Nat
<1>1. task[w] \in Task /\ task[w].kind # "none" /\ task[w].conn \in Conns
  BY DEF IInv, TypeOK, TasksInv
<1>2. task[w].left \in Seq(1..Length) /\ out[task[w].conn] \in Seq(1..Length)
  BY <1>1 DEF IInv, TypeOK, Task
<1> QED BY <1>1, <1>2, Cleared, LenProperties DEF Task

------------------------------------------------------------------------------
\* The server loop and the clock.
LEMMA LoopSteps ==
    ASSUME IInv, NEW c \in Conns, OnRead(c) \/ ExpiryPasses(c)
    PROVE  IInv'
<1>1. CASE OnRead(c)
  <2> DEFINE t == [kind |-> "http", conn |-> c, left |-> <<>>]
  <2>1. t \in Task /\ t.kind = "http" /\ t.conn = c
    <3>1. <<>> \in Seq(1..Length)
      BY EmptySeq
    <3> QED BY <3>1 DEF Task
  <2>2. /\ conn[c] = "reading" /\ conn' = [conn EXCEPT ![c] = "open"]
        /\ tasks' = Append(tasks, t) /\ tasks \in Seq(Task)
        /\ UNCHANGED <<wpc, task, again, expired, closes, out, resent, failed>>
    BY <1>1 DEF OnRead, IInv, TypeOK
  <2> HIDE DEF t
  <2>3. /\ tasks' \in Seq(Task)
        /\ Len(tasks) \in Nat
        /\ Len(tasks') = Len(tasks) + 1
        /\ \A k \in 1..Len(tasks) : k \in 1..Len(tasks') /\ tasks'[k] = tasks[k]
        /\ Len(tasks') \in 1..Len(tasks') /\ tasks'[Len(tasks')] = t
        /\ \A k \in 1..Len(tasks') : k \in 1..Len(tasks) \/ k = Len(tasks')
    BY <2>1, <2>2, Enqueued
  <2>4. TypeOK'
    BY <2>2, <2>3 DEF IInv, TypeOK
  <2>5. TasksInv'
    BY <2>1, <2>2, <2>3 DEF IInv, TasksInv
  <2>6. OwnersInv'
    <3>1. /\ \A k \in 1..Len(tasks) : tasks[k].conn # c
          /\ \A w \in Workers : Busy(w) => task[w].conn # c
      BY <2>2 DEF IInv, OwnersInv
    <3>2. /\ \A w \in Workers : Busy(w)' <=> Busy(w)
          /\ \A d \in Conns : conn'[d] = IF d = c THEN "open" ELSE conn[d]
          /\ task' = task
      BY <2>2 DEF IInv, TypeOK, Busy
    <3>3. /\ \A k \in 1..Len(tasks') : conn'[tasks'[k].conn] = "open"
          /\ \A k, l \in 1..Len(tasks') : tasks'[k].conn = tasks'[l].conn => k = l
      BY <2>1, <2>3, <3>1, <3>2 DEF IInv, OwnersInv, TasksInv
    <3>4. /\ \A w \in Workers : Busy(w)' => conn'[task'[w].conn] = "open"
          /\ \A v, w \in Workers : Busy(v)' /\ Busy(w)' /\ task'[v].conn = task'[w].conn => v = w
      BY <3>1, <3>2 DEF IInv, OwnersInv, TasksInv, Busy
    <3>5. \A k \in 1..Len(tasks'), w \in Workers : Busy(w)' => tasks'[k].conn # task'[w].conn
      BY <2>1, <2>3, <3>1, <3>2 DEF IInv, OwnersInv
    <3>6. ASSUME NEW d \in Conns, conn'[d] = "open"
          PROVE  \/ \E k \in 1..Len(tasks') : tasks'[k].conn = d
                 \/ \E w \in Workers : Busy(w)' /\ task'[w].conn = d
      <4>1. CASE d = c
        BY <2>1, <2>3, <4>1
      <4>2. CASE d # c
        BY <2>3, <3>2, <3>6, <4>2 DEF IInv, OwnersInv
      <4> QED BY <4>1, <4>2
    <3> QED BY <3>3, <3>4, <3>5, <3>6 DEF OwnersInv
  <2>7. ClosesInv'
    BY <2>2 DEF IInv, TypeOK, ClosesInv
  <2>8. SentInv'
    <3> SUFFICES ASSUME NEW d \in Conns \ resent PROVE Sent(d)'
      BY <2>2 DEF SentInv
    <3>1. Sent(d)
      BY DEF IInv, SentInv
    <3>2. /\ \A left : Remains(d, left)' <=> Remains(d, left)
          /\ Settled(d)' <=> Settled(d)
          /\ out' = out /\ task' = task /\ wpc' = wpc
          /\ conn'[d] = IF d = c THEN "open" ELSE conn[d]
      BY <2>2 DEF Remains, Settled, IInv, TypeOK
    <3>3. \A k \in 1..Len(tasks') : tasks'[k].conn = d =>
            /\ tasks'[k].kind = "http" => Len(out[d]) = 0
            /\ tasks'[k].kind = "next" => Remains(d, tasks'[k].left)
      BY <2>1, <2>2, <2>3, <3>1 DEF Sent
    <3> QED BY <3>1, <3>2, <3>3 DEF Sent
  <2> QED BY <2>4, <2>5, <2>6, <2>7, <2>8 DEF IInv
<1>2. CASE ExpiryPasses(c)
  <2>1. /\ UNCHANGED <<conn, tasks, wpc, task, again, closes, out, resent, failed>>
        /\ expired' \subseteq Conns
    BY <1>2 DEF ExpiryPasses, IInv, TypeOK
  <2>2. TypeOK'
    BY <2>1 DEF IInv, TypeOK
  <2>3. TasksInv' /\ OwnersInv' /\ ClosesInv'
    BY <2>1 DEF IInv, TasksInv, OwnersInv, ClosesInv, Busy
  <2>4. SentInv'
    <3>1. /\ \A d : Sent(d) => Sent(d)'
          /\ resent' = resent
      BY <2>1 DEF Sent, Remains, Settled
    <3> QED BY <3>1 DEF IInv, SentInv
  <2> QED BY <2>2, <2>3, <2>4 DEF IInv
<1> QED BY <1>1, <1>2

LEMMA TakeTaskStep ==
    ASSUME IInv, NEW w \in Workers, TakeTask(w)
    PROVE  IInv'
<1> DEFINE t == Head(tasks)
<1>1. /\ wpc[w] = "idle" /\ tasks # <<>> /\ tasks \in Seq(Task)
      /\ task' = [task EXCEPT ![w] = t]
      /\ tasks' = Tail(tasks)
      /\ wpc' = [wpc EXCEPT ![w] = IF t.kind = "http" THEN "process" ELSE "send"]
      /\ UNCHANGED <<conn, again, expired, closes, out, resent, failed>>
  BY DEF TakeTask, IInv, TypeOK
<1>2. /\ tasks' \in Seq(Task)
      /\ Len(tasks) \in Nat
      /\ Len(tasks') = Len(tasks) - 1
      /\ \A k \in 1..Len(tasks') : k + 1 \in 2..Len(tasks) /\ tasks'[k] = tasks[k + 1]
      /\ 1 \in 1..Len(tasks) /\ t = tasks[1] /\ t \in Task
      /\ \A k \in 1..Len(tasks) : k = 1 \/ (k - 1 \in 1..Len(tasks') /\ tasks'[k - 1] = tasks[k])
  BY <1>1, Dequeued
<1> HIDE DEF t
<1>3. t.kind \in {"http", "next"} /\ t.conn \in Conns /\ t # NoTask
  BY <1>2, Cleared DEF IInv, TasksInv, Task
<1>4. TypeOK'
  BY <1>1, <1>2, <1>3 DEF IInv, TypeOK
<1>5. TasksInv'
  BY <1>1, <1>2, <1>3 DEF IInv, TypeOK, TasksInv
<1>6. OwnersInv'
  <2>1. /\ \A k \in 1..Len(tasks') : conn'[tasks'[k].conn] = "open"
        /\ \A k, l \in 1..Len(tasks') : tasks'[k].conn = tasks'[l].conn => k = l
    BY <1>1, <1>2 DEF IInv, OwnersInv
  <2>2. /\ conn[t.conn] = "open"
        /\ \A k \in 1..Len(tasks') : tasks'[k].conn # t.conn
        /\ \A v \in Workers : Busy(v) => task[v].conn # t.conn
    BY <1>2 DEF IInv, OwnersInv
  <2>3. /\ \A v \in Workers \ {w} : task'[v] = task[v] /\ (Busy(v)' <=> Busy(v))
        /\ task'[w] = t /\ Busy(w)' /\ ~Busy(w)
    BY <1>1 DEF IInv, TypeOK, Busy
  <2>4. \A v \in Workers : Busy(v)' => conn'[task'[v].conn] = "open"
    BY <1>1, <2>2, <2>3 DEF IInv, OwnersInv
  <2>5. \A v, u \in Workers : Busy(v)' /\ Busy(u)' /\ task'[v].conn = task'[u].conn => v = u
    BY <2>2, <2>3 DEF IInv, OwnersInv
  <2>6. \A k \in 1..Len(tasks'), v \in Workers : Busy(v)' => tasks'[k].conn # task'[v].conn
    BY <1>2, <2>2, <2>3 DEF IInv, OwnersInv
  <2>7. ASSUME NEW c \in Conns, conn[c] = "open"
        PROVE  \/ \E k \in 1..Len(tasks') : tasks'[k].conn = c
               \/ \E v \in Workers : Busy(v)' /\ task'[v].conn = c
    <3>1. CASE \E k \in 1..Len(tasks) : tasks[k].conn = c
      BY <1>2, <2>3, <3>1
    <3>2. CASE \E v \in Workers : Busy(v) /\ task[v].conn = c
      BY <2>3, <3>2
    <3> QED BY <2>7, <3>1, <3>2 DEF IInv, OwnersInv
  <2> QED BY <1>1, <2>1, <2>4, <2>5, <2>6, <2>7 DEF OwnersInv
<1>7. ClosesInv'
  BY <1>1 DEF IInv, ClosesInv
<1>8. SentInv'
  <2> SUFFICES ASSUME NEW c \in Conns \ resent PROVE Sent(c)'
    BY <1>1 DEF SentInv
  <2>1. Sent(c)
    BY DEF IInv, SentInv
  <2>2. /\ \A left : Remains(c, left)' <=> Remains(c, left)
        /\ Settled(c)' <=> Settled(c)
        /\ out' = out /\ conn' = conn
    BY <1>1 DEF Remains, Settled
  <2>3. \A k \in 1..Len(tasks') : tasks'[k].conn = c =>
          /\ tasks'[k].kind = "http" => Len(out[c]) = 0
          /\ tasks'[k].kind = "next" => Remains(c, tasks'[k].left)
    BY <1>2, <2>1 DEF Sent
  <2>4. t.conn = c =>
          /\ t.kind = "http" => Len(out[c]) = 0
          /\ t.kind = "next" => Remains(c, t.left)
    BY <1>2, <2>1 DEF Sent
  <2>5. \A v \in Workers : task'[v].conn = c =>
          /\ wpc'[v] = "process" => Len(out[c]) = 0
          /\ wpc'[v] = "send" => Remains(c, task'[v].left)
          /\ wpc'[v] = "close" => Settled(c)
    <3> SUFFICES ASSUME NEW v \in Workers, task'[v].conn = c
                 PROVE  /\ wpc'[v] = "process" => Len(out[c]) = 0
                        /\ wpc'[v] = "send" => Remains(c, task'[v].left)
                        /\ wpc'[v] = "close" => Settled(c)
      OBVIOUS
    <3>1. CASE v = w
      BY <1>1, <1>3, <2>4, <3>1 DEF IInv, TypeOK
    <3>2. CASE v # w
      BY <1>1, <2>1, <3>2 DEF IInv, TypeOK, Sent
    <3> QED BY <3>1, <3>2
  <2> QED BY <2>1, <2>2, <2>3, <2>5 DEF Sent
<1> QED BY <1>4, <1>5, <1>6, <1>7, <1>8 DEF IInv

------------------------------------------------------------------------------
\* A worker goes on with its connection and leaves the queue alone.
LEMMA KeepsItsTask ==
    ASSUME IInv, NEW w \in Workers, Busy(w),
           NEW l \in {"send", "close"}, wpc' = [wpc EXCEPT ![w] = l],
           task' \in [Workers -> Task],
           \A v \in Workers \ {w} : task'[v] = task[v],
           task'[w].conn = task[w].conn, task'[w].kind = task[w].kind,
           UNCHANGED <<conn, tasks, closes>>
    PROVE  TasksInv' /\ OwnersInv' /\ ClosesInv'
<1>1. /\ \A v \in Workers : Busy(v)' <=> Busy(v)
      /\ \A v \in Workers : task'[v].conn = task[v].conn /\ task'[v].kind = task[v].kind
      /\ \A v \in Workers : wpc'[v] # "idle" => wpc[v] # "idle"
      /\ UNCHANGED <<conn, tasks, closes>>
  BY DEF IInv, TypeOK, Busy
<1>2. TasksInv'
  BY <1>1 DEF IInv, TasksInv
<1>3. OwnersInv'
  BY <1>1 DEF IInv, OwnersInv
<1>4. ClosesInv'
  BY <1>1 DEF IInv, ClosesInv
<1> QED BY <1>2, <1>3, <1>4

\* A worker queues the task that continues its own: the connection has the
\* queued task as its owner.
LEMMA HandsItOn ==
    ASSUME IInv, NEW w \in Workers, wpc[w] = "send",
           NEW left \in Seq(1..Length), Requeue(w, left),
           UNCHANGED <<conn, task, closes>>
    PROVE  /\ tasks' \in Seq(Task)
           /\ wpc' \in [Workers -> {"idle", "process", "send", "close", "finish"}]
           /\ \A k \in 1..Len(tasks') :
                 \/ k \in 1..Len(tasks) /\ tasks'[k] = tasks[k]
                 \/ tasks'[k] = [kind |-> "next", conn |-> task[w].conn, left |-> left]
           /\ TasksInv' /\ OwnersInv' /\ ClosesInv'
<1> DEFINE t == [kind |-> "next", conn |-> task[w].conn, left |-> left]
<1>1. t \in Task /\ t.kind = "next" /\ t.conn = task[w].conn /\ task[w].conn \in Conns
  BY WorkersTask DEF Task
<1>2. /\ tasks \in Seq(Task) /\ tasks' = Append(tasks, t)
      /\ wpc' = [wpc EXCEPT ![w] = "finish"]
      /\ conn' = conn /\ task' = task /\ closes' = closes
  BY DEF Requeue, IInv, TypeOK
<1>3. \A k \in 1..Len(tasks') : tasks'[k] = t => tasks'[k] = [kind |-> "next", conn |-> task[w].conn, left |-> left]
  OBVIOUS
<1> HIDE DEF t
<1>4. /\ tasks' \in Seq(Task)
      /\ Len(tasks) \in Nat
      /\ Len(tasks') = Len(tasks) + 1
      /\ \A k \in 1..Len(tasks) : k \in 1..Len(tasks') /\ tasks'[k] = tasks[k]
      /\ Len(tasks') \in 1..Len(tasks') /\ tasks'[Len(tasks')] = t
      /\ \A k \in 1..Len(tasks') : k \in 1..Len(tasks) \/ k = Len(tasks')
  BY <1>1, <1>2, Enqueued
<1>5. /\ \A v \in Workers : Busy(v)' <=> Busy(v) /\ v # w
      /\ Busy(w)
      /\ \A v \in Workers : wpc'[v] # "idle" => wpc[v] # "idle"
  BY <1>2 DEF IInv, TypeOK, Busy
<1>6. TasksInv'
  BY <1>1, <1>2, <1>4, <1>5 DEF IInv, TasksInv
<1>7. OwnersInv'
  <2>1. /\ conn[task[w].conn] = "open"
        /\ \A k \in 1..Len(tasks) : tasks[k].conn # task[w].conn
        /\ \A v \in Workers : Busy(v) /\ v # w => task[v].conn # task[w].conn
    BY <1>5 DEF IInv, OwnersInv
  <2>2. /\ \A k \in 1..Len(tasks') : conn'[tasks'[k].conn] = "open"
        /\ \A k, l \in 1..Len(tasks') : tasks'[k].conn = tasks'[l].conn => k = l
    BY <1>1, <1>2, <1>4, <2>1 DEF IInv, OwnersInv
  <2>3. /\ \A v \in Workers : Busy(v)' => conn'[task'[v].conn] = "open"
        /\ \A v, u \in Workers : Busy(v)' /\ Busy(u)' /\ task'[v].conn = task'[u].conn => v = u
    BY <1>2, <1>5 DEF IInv, OwnersInv
  <2>4. \A k \in 1..Len(tasks'), v \in Workers : Busy(v)' => tasks'[k].conn # task'[v].conn
    BY <1>1, <1>2, <1>4, <1>5, <2>1 DEF IInv, OwnersInv
  <2>5. ASSUME NEW d \in Conns, conn'[d] = "open"
        PROVE  \/ \E k \in 1..Len(tasks') : tasks'[k].conn = d
               \/ \E v \in Workers : Busy(v)' /\ task'[v].conn = d
    <3>1. CASE d = task[w].conn
      BY <1>1, <1>4, <3>1
    <3>2. CASE d # task[w].conn
      BY <1>2, <1>4, <1>5, <2>5, <3>2 DEF IInv, OwnersInv
    <3> QED BY <3>1, <3>2
  <2> QED BY <2>2, <2>3, <2>4, <2>5 DEF OwnersInv
<1>8. ClosesInv'
  BY <1>2 DEF IInv, ClosesInv
<1>9. wpc' \in [Workers -> {"idle", "process", "send", "close", "finish"}]
  BY <1>2 DEF IInv, TypeOK
<1> QED BY <1>3, <1>4, <1>6, <1>7, <1>8, <1>9

\* What a worker does about its own connection leaves the others alone.
LEMMA OthersUntouched ==
    ASSUME IInv, NEW w \in Workers,
           \A v \in Workers \ {w} : wpc'[v] = wpc[v] /\ task'[v] = task[v],
           task'[w].conn \in {task[w].conn, NoConn},
           \A k \in 1..Len(tasks') : \/ tasks'[k].conn = task[w].conn
                                     \/ k \in 1..Len(tasks) /\ tasks'[k] = tasks[k],
           resent \subseteq resent', failed \subseteq failed',
           NEW d \in Conns \ resent', d # task[w].conn,
           out'[d] = out[d], conn'[d] = conn[d]
    PROVE  Sent(d)'
<1>1. Sent(d)
  BY DEF IInv, SentInv
<1>2. d # NoConn
  BY ConnAssumption
<1>3. /\ \A k \in 1..Len(tasks') : Remains(d, tasks'[k].left) => Remains(d, tasks[k].left)'
      /\ \A v \in Workers : Remains(d, task'[v].left) => Remains(d, task[v].left)'
      /\ Settled(d) => Settled(d)'
  BY DEF Remains, Settled
<1>4. \A k \in 1..Len(tasks') : tasks'[k].conn = d =>
        /\ tasks'[k].kind = "http" => Len(out'[d]) = 0
        /\ tasks'[k].kind = "next" => Remains(d, tasks[k].left)'
  BY <1>1, <1>3 DEF Sent
<1>5. \A v \in Workers : task'[v].conn = d =>
        /\ wpc'[v] = "process" => Len(out'[d]) = 0
        /\ wpc'[v] = "send" => Remains(d, task[v].left)'
        /\ wpc'[v] = "close" => Settled(d)'
  BY <1>1, <1>2, <1>3 DEF Sent
<1> QED BY <1>1, <1>3, <1>4, <1>5 DEF Sent

\* The worker that owns a connection is the only one to say what of its answer
\* is out.
LEMMA OwnConnection ==
    ASSUME IInv, NEW w \in Workers, Busy(w)
    PROVE  /\ conn[task[w].conn] = "open"
           /\ \A k \in 1..Len(tasks) : tasks[k].conn # task[w].conn
           /\ \A v \in Workers \ {w} : task[v].conn = task[w].conn => ~Busy(v)
  BY DEF IInv, OwnersInv

LEMMA OwnerSettles ==
    ASSUME IInv, NEW w \in Workers, Busy(w),
           NEW c \in Conns \ resent', c = task[w].conn,
           \A v \in Workers \ {w} : wpc'[v] = wpc[v] /\ task'[v] = task[v],
           Len(out'[c]) <= Length,
           \A k \in 1..Len(out'[c]) : out'[c][k] = k,
           conn'[c] \in {"open", "closed"},
           conn'[c] = "closed" => Settled(c)',
           \A k \in 1..Len(tasks') : tasks'[k].conn = c =>
               tasks'[k].kind = "next" /\ Remains(c, tasks[k].left)',
           wpc'[w] # "process",
           wpc'[w] = "send" => Remains(c, task[w].left)',
           wpc'[w] = "close" => Settled(c)'
    PROVE  Sent(c)'
<1>1. \A v \in Workers \ {w} : task[v].conn = c => ~Busy(v)
  BY OwnConnection
<1>2. \A v \in Workers : task'[v].conn = c =>
        /\ wpc'[v] = "process" => Len(out'[c]) = 0
        /\ wpc'[v] = "send" => Remains(c, task[v].left)'
        /\ wpc'[v] = "close" => Settled(c)'
  <2> SUFFICES ASSUME NEW v \in Workers, task'[v].conn = c
               PROVE  /\ wpc'[v] = "process" => Len(out'[c]) = 0
                      /\ wpc'[v] = "send" => Remains(c, task[v].left)'
                      /\ wpc'[v] = "close" => Settled(c)'
    OBVIOUS
  <2>1. CASE v = w
    BY <2>1
  <2>2. CASE v # w
    <3>1. wpc'[v] \notin {"process", "send", "close"}
      BY <1>1, <2>2 DEF Busy
    <3> QED BY <3>1
  <2> QED BY <2>1, <2>2
<1>3. \A k \in 1..Len(tasks') : tasks'[k].conn = c =>
        /\ tasks'[k].kind = "http" => Len(out'[c]) = 0
        /\ tasks'[k].kind = "next" => Remains(c, tasks[k].left)'
  OBVIOUS
<1>4. conn'[c] # "reading"
  OBVIOUS
<1> QED BY <1>2, <1>3, <1>4 DEF Sent

------------------------------------------------------------------------------
LEMMA ProcessStep ==
    ASSUME IInv, NEW w \in Workers, Process(w)
    PROVE  IInv'
<1> DEFINE c == task[w].conn
<1>1. /\ wpc[w] = "process" /\ Busy(w) /\ wpc[w] # "idle"
      /\ \E e \in BOOLEAN : again' = [again EXCEPT ![w] = e]
      /\ UNCHANGED <<conn, tasks, expired, closes, out, resent>>
  BY DEF Process, Busy
<1>2. /\ task[w] \in Task /\ task[w] # NoTask /\ task[w].kind # "none"
      /\ c \in Conns
      /\ task[w].left \in Seq(1..Length)
      /\ out[c] \in Seq(1..Length)
      /\ Len(out[c]) \in Nat
  BY <1>1, WorkersTask
<1>3. /\ Content \in Seq(1..Length) /\ Len(Content) = Length
      /\ \A k \in 1..Length : Content[k] = k
  BY LengthAssumption DEF Content
<1>4. again' \in [Workers -> BOOLEAN]
  BY <1>1 DEF IInv, TypeOK
<1>5. \E l \in {"send", "close"} :
        /\ wpc' = [wpc EXCEPT ![w] = l]
        /\ l = "send" => task' = [task EXCEPT ![w].left = Content] /\ failed' = failed
        /\ l = "close" => task' = task /\ failed' = failed \cup {c}
  BY DEF Process
<1>6. PICK l \in {"send", "close"} :
        /\ wpc' = [wpc EXCEPT ![w] = l]
        /\ l = "send" => task' = [task EXCEPT ![w].left = Content] /\ failed' = failed
        /\ l = "close" => task' = task /\ failed' = failed \cup {c}
  BY <1>5
<1>7. /\ task' \in [Workers -> Task]
      /\ \A v \in Workers \ {w} : task'[v] = task[v] /\ wpc'[v] = wpc[v]
      /\ task'[w].conn = c /\ task'[w].kind = task[w].kind
      /\ l = "send" => task'[w].left = Content
      /\ wpc'[w] = l
      /\ wpc' \in [Workers -> {"idle", "process", "send", "close", "finish"}]
      /\ failed' \subseteq Conns /\ failed \subseteq failed'
  <2>1. /\ task \in [Workers -> Task]
        /\ wpc \in [Workers -> {"idle", "process", "send", "close", "finish"}]
        /\ failed \subseteq Conns
    BY DEF IInv, TypeOK
  <2>2. /\ wpc'[w] = l /\ \A v \in Workers \ {w} : wpc'[v] = wpc[v]
        /\ wpc' \in [Workers -> {"idle", "process", "send", "close", "finish"}]
        /\ failed' \subseteq Conns /\ failed \subseteq failed'
    BY <1>2, <1>6, <2>1
  <2>3. [task[w] EXCEPT !.left = Content] \in Task
    BY <1>2, <1>3 DEF Task
  <2>4. /\ task' \in [Workers -> Task]
        /\ \A v \in Workers \ {w} : task'[v] = task[v]
        /\ task'[w] = IF l = "send" THEN [task[w] EXCEPT !.left = Content] ELSE task[w]
    BY <1>6, <2>1, <2>3
  <2>5. /\ [task[w] EXCEPT !.left = Content].conn = c
        /\ [task[w] EXCEPT !.left = Content].kind = task[w].kind
        /\ [task[w] EXCEPT !.left = Content].left = Content
    BY <1>2 DEF Task
  <2> QED BY <2>2, <2>4, <2>5
<1>8. TypeOK'
  <2>1. \A v \in Workers : task'[v] = NoTask <=> wpc'[v] = "idle"
    BY <1>2, <1>6, <1>7, Cleared DEF IInv, TypeOK
  <2> QED BY <1>1, <1>4, <1>7, <2>1 DEF IInv, TypeOK
<1>9. TasksInv' /\ OwnersInv' /\ ClosesInv'
  BY <1>1, <1>6, <1>7, KeepsItsTask
<1>10. SentInv'
  <2> SUFFICES ASSUME NEW d \in Conns \ resent' PROVE Sent(d)'
    BY DEF SentInv
  <2>1. CASE d = c
    <3>1. Sent(d) /\ Len(out[d]) = 0 /\ conn[d] = "open"
      BY <1>1, <1>2, <2>1, OwnConnection DEF IInv, SentInv, Sent
    <3>2. l = "send" => Remains(d, task[w].left)'
      BY <1>1, <1>3, <1>7, <3>1 DEF Remains
    <3>3. l = "close" => Settled(d)'
      BY <1>6, <2>1 DEF Settled
    <3>4. \A k \in 1..Len(tasks') : tasks'[k].conn # d
      BY <1>1, <2>1, OwnConnection
    <3>5. Len(out'[d]) <= Length /\ \A k \in 1..Len(out'[d]) : out'[d][k] = k
      BY <1>1, <3>1 DEF Sent
    <3>6. conn'[d] = "open"
      BY <1>1, <3>1
    <3> QED BY <1>1, <1>7, <2>1, <3>2, <3>3, <3>4, <3>5, <3>6, OwnerSettles
  <2>2. CASE d # c
    BY <1>1, <1>7, <2>2, OthersUntouched
  <2> QED BY <2>1, <2>2
<1> QED BY <1>8, <1>9, <1>10 DEF IInv

\* A worker gives the answer up: it has expired, or send has failed.
LEMMA GiveUpSteps ==
    ASSUME IInv, NEW w \in Workers, SendExpired(w) \/ SendFails(w)
    PROVE  IInv'
<1> DEFINE c == task[w].conn
<1>1. /\ wpc[w] = "send" /\ Busy(w) /\ wpc[w] # "idle"
      /\ wpc' = [wpc EXCEPT ![w] = "close"]
      /\ failed' = failed \cup {c}
      /\ again' = again \/ again' = [again EXCEPT ![w] = FALSE]
      /\ UNCHANGED <<conn, tasks, task, expired, closes, out, resent>>
  BY DEF SendExpired, SendFails, MayStillSend, Busy
<1>2. c \in Conns
  BY <1>1, WorkersTask
<1>3. again' \in [Workers -> BOOLEAN]
  BY <1>1 DEF IInv, TypeOK
<1>4. TypeOK'
  BY <1>1, <1>2, <1>3 DEF IInv, TypeOK
<1>5. TasksInv' /\ OwnersInv' /\ ClosesInv'
  BY <1>1, KeepsItsTask DEF IInv, TypeOK
<1>6. SentInv'
  <2> SUFFICES ASSUME NEW d \in Conns \ resent' PROVE Sent(d)'
    BY DEF SentInv
  <2>1. \A v \in Workers \ {w} : wpc'[v] = wpc[v] /\ task'[v] = task[v]
    BY <1>1 DEF IInv, TypeOK
  <2>2. wpc'[w] = "close"
    BY <1>1 DEF IInv, TypeOK
  <2>3. CASE d = c
    <3>1. Sent(d) /\ conn[d] = "open"
      BY <1>1, <2>3, OwnConnection DEF IInv, SentInv
    <3>2. Settled(d)'
      BY <1>1, <2>3 DEF Settled
    <3>3. \A k \in 1..Len(tasks') : tasks'[k].conn # d
      BY <1>1, <2>3, OwnConnection
    <3>4. Len(out'[d]) <= Length /\ \A k \in 1..Len(out'[d]) : out'[d][k] = k
      BY <1>1, <3>1 DEF Sent
    <3>5. conn'[d] = "open"
      BY <1>1, <3>1
    <3> QED BY <1>1, <2>1, <2>2, <2>3, <3>2, <3>3, <3>4, <3>5, OwnerSettles
  <2>4. CASE d # c
    BY <1>1, <2>1, <2>4, OthersUntouched
  <2> QED BY <2>3, <2>4
<1> QED BY <1>4, <1>5, <1>6 DEF IInv

\* Both parts of an answer that send has cut in two are what they were.
LEMMA CutInTwo ==
    ASSUME NEW left \in Seq(1..Length), NEW n \in 1..Len(left)
    PROVE  /\ SubSeq(left, 1, n) \in Seq(1..Length) /\ Len(SubSeq(left, 1, n)) = n
           /\ \A k \in 1..n : SubSeq(left, 1, n)[k] = left[k]
           /\ Rest(left, n) \in Seq(1..Length) /\ Len(Rest(left, n)) = Len(left) - n
           /\ \A k \in 1..Len(Rest(left, n)) : Rest(left, n)[k] = left[n + k]
           /\ n \in Nat /\ Len(left) \in Nat /\ n <= Len(left)
<1>1. Len(left) \in Nat /\ n \in Nat /\ n >= 1 /\ n <= Len(left)
  BY LenProperties
<1>2. \A k \in 1..Len(left) : left[k] \in 1..Length
  BY ElementOfSeq
<1>3. /\ SubSeq(left, 1, n) \in Seq(1..Length)
      /\ Len(SubSeq(left, 1, n)) = IF 1 <= n THEN n - 1 + 1 ELSE 0
      /\ \A k \in 1..(n - 1 + 1) : SubSeq(left, 1, n)[k] = left[1 + k - 1]
  <2>1. \A k \in 1..n : left[k] \in 1..Length
    BY <1>1, <1>2
  <2> QED BY <1>1, <2>1, SubSeqProperties
<1>4. /\ SubSeq(left, n + 1, Len(left)) \in Seq(1..Length)
      /\ Len(SubSeq(left, n + 1, Len(left))) =
            IF n + 1 <= Len(left) THEN Len(left) - (n + 1) + 1 ELSE 0
      /\ \A k \in 1..(Len(left) - (n + 1) + 1) :
            SubSeq(left, n + 1, Len(left))[k] = left[(n + 1) + k - 1]
  <2>1. \A k \in (n + 1)..Len(left) : left[k] \in 1..Length
    BY <1>1, <1>2
  <2> QED BY <1>1, <2>1, SubSeqProperties
<1> QED BY <1>1, <1>3, <1>4 DEF Rest

\* o is the beginning of the answer and left the rest of it.
Cut(o, left) ==
    /\ Len(o) + Len(left) = Length
    /\ \A k \in 1..Len(o) : o[k] = k
    /\ \A k \in 1..Len(left) : left[k] = Len(o) + k

\* send takes n units of what remains.
LEMMA SendsOn ==
    ASSUME NEW o \in Seq(1..Length), NEW left \in Seq(1..Length), NEW n \in 1..Len(left),
           Cut(o, left)
    PROVE  Cut(o \o SubSeq(left, 1, n), Rest(left, n))
<1> DEFINE t == SubSeq(left, 1, n)
           sent == o \o t
           r == Rest(left, n)
<1>1. /\ t \in Seq(1..Length) /\ Len(t) = n
      /\ \A k \in 1..n : t[k] = left[k]
      /\ Len(r) = Len(left) - n
      /\ \A k \in 1..Len(r) : r[k] = left[n + k]
      /\ n \in Nat /\ Len(left) \in Nat /\ n <= Len(left)
      /\ Len(o) \in Nat
  BY CutInTwo, LenProperties
<1>2. sent = o \o t /\ Len(o) + Len(left) = Length
  BY DEF Cut
<1> HIDE DEF t, r, sent
<1>3. /\ sent \in Seq(1..Length)
      /\ Len(sent) = Len(o) + Len(t)
      /\ \A k \in 1..Len(o) + Len(t) : sent[k] = IF k <= Len(o) THEN o[k] ELSE t[k - Len(o)]
  <2>1. t \in Seq(1..Length) /\ o \in Seq(1..Length)
    BY <1>1
  <2>2. /\ o \o t \in Seq(1..Length)
        /\ Len(o \o t) = Len(o) + Len(t)
        /\ \A k \in 1..Len(o) + Len(t) : (o \o t)[k] = IF k <= Len(o) THEN o[k] ELSE t[k - Len(o)]
    BY <2>1, ConcatProperties
  <2> QED BY <1>2, <2>2
<1>4. Len(sent) = Len(o) + n /\ Len(sent) + Len(r) = Length
  BY <1>1, <1>2, <1>3
<1>5. ASSUME NEW k \in 1..Len(sent) PROVE sent[k] = k
  <2>1. CASE k <= Len(o)
    <3>1. k \in 1..Len(o) /\ k \in 1..Len(o) + Len(t)
      BY <1>1, <2>1
    <3> QED BY <1>3, <2>1, <3>1 DEF Cut
  <2>2. CASE k > Len(o)
    <3>1. /\ k - Len(o) \in 1..n /\ k - Len(o) \in 1..Len(left)
          /\ k \in 1..Len(o) + Len(t) /\ ~(k <= Len(o))
      BY <1>1, <1>4, <2>2
    <3>2. sent[k] = left[k - Len(o)]
      BY <1>1, <1>3, <3>1
    <3>3. left[k - Len(o)] = Len(o) + (k - Len(o))
      BY <3>1 DEF Cut
    <3> QED BY <1>1, <3>2, <3>3
  <2> QED BY <1>1, <2>1, <2>2
<1>6. ASSUME NEW k \in 1..Len(r) PROVE r[k] = Len(sent) + k
  <2>1. n + k \in 1..Len(left) /\ r[k] = left[n + k]
    BY <1>1
  <2>2. left[n + k] = Len(o) + (n + k)
    BY <2>1 DEF Cut
  <2> QED BY <1>1, <1>4, <2>1, <2>2
<1> QED BY <1>4, <1>5, <1>6 DEF r, sent, t, Cut

\* send takes some units or none, and the rest is queued again.
LEMMA SendSteps ==
    ASSUME IInv, NEW w \in Workers, SendTakes(w) \/ SendWouldBlock(w)
    PROVE  IInv'
<1> DEFINE c == task[w].conn
           left == task[w].left
<1>1. wpc[w] = "send" /\ Busy(w) /\ wpc[w] # "idle"
  BY DEF SendTakes, SendWouldBlock, MayStillSend, Busy
<1>2. /\ task[w] \in Task /\ task[w] # NoTask /\ c \in Conns
      /\ left \in Seq(1..Length) /\ Len(left) \in Nat
      /\ out[c] \in Seq(1..Length) /\ Len(out[c]) \in Nat
  BY <1>1, WorkersTask
<1>3. UNCHANGED <<conn, task, expired, closes, failed>>
  BY DEF SendTakes, SendWouldBlock
<1>4. again' \in [Workers -> BOOLEAN]
  <2>1. again' = again \/ again' = [again EXCEPT ![w] = TRUE]
    BY DEF SendTakes, SendWouldBlock
  <2> QED BY <2>1 DEF IInv, TypeOK
<1>5. c \notin resent =>
        /\ Len(out[c]) <= Length
        /\ \A k \in 1..Len(out[c]) : out[c][k] = k
        /\ Remains(c, left)
        /\ conn[c] = "open"
  BY <1>1, <1>2, OwnConnection DEF IInv, SentInv, Sent
<1>6. /\ \A k \in 1..Len(tasks) : tasks[k].conn # c
      /\ conn[c] = "open"
  BY <1>1, OwnConnection
<1>7. ASSUME NEW rest \in Seq(1..Length), Requeue(w, rest),
             out' \in [Conns -> Seq(1..Length)],
             \A d \in Conns \ {c} : out'[d] = out[d],
             resent \subseteq resent', resent' \subseteq Conns,
             c \notin resent' => /\ Len(out'[c]) + Len(rest) = Length
                                 /\ Len(out'[c]) <= Length
                                 /\ \A k \in 1..Len(rest) : rest[k] = Len(out'[c]) + k
                                 /\ \A k \in 1..Len(out'[c]) : out'[c][k] = k
      PROVE  IInv'
  <2>1. /\ tasks' \in Seq(Task)
        /\ wpc' \in [Workers -> {"idle", "process", "send", "close", "finish"}]
        /\ \A k \in 1..Len(tasks') :
              \/ k \in 1..Len(tasks) /\ tasks'[k] = tasks[k]
              \/ tasks'[k] = [kind |-> "next", conn |-> c, left |-> rest]
        /\ TasksInv' /\ OwnersInv' /\ ClosesInv'
    BY <1>1, <1>3, <1>7, HandsItOn
  <2>2. /\ \A v \in Workers \ {w} : wpc'[v] = wpc[v]
        /\ wpc'[w] = "finish"
        /\ task' = task
    BY <1>3, <1>7 DEF Requeue, IInv, TypeOK
  <2>3. TypeOK'
    BY <1>1, <1>2, <1>3, <1>4, <1>7, <2>1, <2>2 DEF IInv, TypeOK
  <2>4. ASSUME NEW d \in Conns \ resent' PROVE Sent(d)'
    <3>1. CASE d = c
      <4>1. ASSUME NEW k \in 1..Len(tasks'), tasks'[k].conn = d
            PROVE  tasks'[k].kind = "next" /\ Remains(d, tasks[k].left)'
        <5>1. tasks'[k] = [kind |-> "next", conn |-> c, left |-> rest]
          BY <1>6, <2>1, <3>1, <4>1
        <5>2. tasks'[k].kind = "next" /\ tasks'[k].left = rest
          BY <5>1
        <5> QED BY <1>7, <3>1, <5>2 DEF Remains
      <4>2. Len(out'[d]) <= Length /\ \A k \in 1..Len(out'[d]) : out'[d][k] = k
        BY <1>7, <3>1
      <4>3. conn'[d] = "open"
        BY <1>3, <1>6, <3>1
      <4> QED BY <1>1, <2>2, <3>1, <4>1, <4>2, <4>3, OwnerSettles
    <3>2. CASE d # c
      <4>1. \A k \in 1..Len(tasks') : \/ tasks'[k].conn = task[w].conn
                                      \/ k \in 1..Len(tasks) /\ tasks'[k] = tasks[k]
        BY <2>1
      <4>2. out'[d] = out[d] /\ conn'[d] = conn[d] /\ failed' = failed
        BY <1>3, <1>7, <3>2
      <4> QED BY <1>7, <2>2, <3>2, <4>1, <4>2, OthersUntouched
    <3> QED BY <3>1, <3>2
  <2> QED BY <2>1, <2>3, <2>4 DEF IInv, SentInv
<1>8. CASE SendWouldBlock(w)
  <2>1. Requeue(w, left) /\ out' = out /\ resent' = resent
    BY <1>8 DEF SendWouldBlock
  <2>2. /\ out' \in [Conns -> Seq(1..Length)]
        /\ resent' \subseteq Conns
    BY <2>1 DEF IInv, TypeOK
  <2>3. c \notin resent' => /\ Len(out'[c]) + Len(left) = Length
                            /\ Len(out'[c]) <= Length
                            /\ \A k \in 1..Len(left) : left[k] = Len(out'[c]) + k
                            /\ \A k \in 1..Len(out'[c]) : out'[c][k] = k
    BY <1>5, <2>1 DEF Remains
  <2> QED BY <1>2, <1>7, <2>1, <2>2, <2>3
<1>9. CASE SendTakes(w)
  <2>1. PICK n \in 1..Len(left) :
          /\ out' = IF c \in resent THEN out
                    ELSE [out EXCEPT ![c] = @ \o SubSeq(left, 1, n)]
          /\ IF Rest(left, n) # <<>>
             THEN Requeue(w, Rest(left, n)) /\ UNCHANGED resent
             ELSE IF again[w]
             THEN Requeue(w, left) /\ resent' = resent \cup {c}
             ELSE /\ wpc' = [wpc EXCEPT ![w] = "close"]
                  /\ UNCHANGED <<tasks, resent>>
    BY <1>9 DEF SendTakes
  <2> DEFINE sent == out[c] \o SubSeq(left, 1, n)
             rest == Rest(left, n)
  <2>2. /\ SubSeq(left, 1, n) \in Seq(1..Length)
        /\ rest \in Seq(1..Length) /\ Len(rest) \in Nat
    BY <1>2, CutInTwo, LenProperties
  <2>3. sent \in Seq(1..Length)
    BY <1>2, <2>2, ConcatProperties
  <2>4. c \notin resent =>
          /\ Len(sent) <= Length
          /\ \A k \in 1..Len(sent) : sent[k] = k
          /\ Len(sent) + Len(rest) = Length
          /\ \A k \in 1..Len(rest) : rest[k] = Len(sent) + k
    <3> SUFFICES ASSUME c \notin resent
                 PROVE  /\ Len(sent) <= Length
                        /\ \A k \in 1..Len(sent) : sent[k] = k
                        /\ Len(sent) + Len(rest) = Length
                        /\ \A k \in 1..Len(rest) : rest[k] = Len(sent) + k
      OBVIOUS
    <3>1. /\ Len(out[c]) + Len(left) = Length
          /\ \A k \in 1..Len(out[c]) : out[c][k] = k
          /\ \A k \in 1..Len(left) : left[k] = Len(out[c]) + k
      BY <1>5 DEF Remains
    <3>2. out[c] \in Seq(1..Length) /\ left \in Seq(1..Length) /\ n \in 1..Len(left)
      BY <1>2
    <3>3. sent = out[c] \o SubSeq(left, 1, n) /\ rest = Rest(left, n)
      OBVIOUS
    <3> HIDE DEF c, left, sent, rest
    <3>4. Cut(out[c], left)
      BY <3>1 DEF Cut
    <3>5. Cut(sent, rest)
      BY <3>2, <3>3, <3>4, SendsOn
    <3>6. sent \in Seq(1..Length) /\ Len(sent) \in Nat
      BY <2>3, LenProperties
    <3> QED BY <2>2, <3>5, <3>6, LengthAssumption DEF Cut
  <2>5. /\ out \in [Conns -> Seq(1..Length)]
        /\ out' = IF c \in resent THEN out ELSE [out EXCEPT ![c] = sent]
    BY <2>1 DEF IInv, TypeOK
  <2>6. /\ rest # <<>> => Requeue(w, rest) /\ resent' = resent
        /\ rest = <<>> /\ again[w] => Requeue(w, left) /\ resent' = resent \cup {c}
        /\ rest = <<>> /\ ~again[w] =>
              wpc' = [wpc EXCEPT ![w] = "close"] /\ tasks' = tasks /\ resent' = resent
    BY <2>1
  <2> HIDE DEF sent, rest
  <2>7. /\ out' \in [Conns -> Seq(1..Length)]
        /\ \A d \in Conns \ {c} : out'[d] = out[d]
        /\ c \notin resent => out'[c] = sent
    BY <1>2, <2>3, <2>5
  <2>8. resent \subseteq Conns
    BY DEF IInv, TypeOK
  <2>9. CASE rest # <<>>
    BY <1>7, <2>2, <2>4, <2>6, <2>7, <2>8, <2>9
  <2>10. CASE rest = <<>> /\ again[w]
    BY <1>2, <1>7, <2>6, <2>7, <2>8, <2>10
  <2>11. CASE rest = <<>> /\ ~again[w]
    <3>1. /\ wpc' = [wpc EXCEPT ![w] = "close"] /\ tasks' = tasks /\ resent' = resent
          /\ Len(rest) = 0
      BY <2>6, <2>11, EmptySeq
    <3>2. TypeOK'
      BY <1>1, <1>2, <1>3, <1>4, <2>7, <3>1 DEF IInv, TypeOK
    <3>3. TasksInv' /\ OwnersInv' /\ ClosesInv'
      BY <1>1, <1>3, <3>1, KeepsItsTask DEF IInv, TypeOK
    <3>4. ASSUME NEW d \in Conns \ resent' PROVE Sent(d)'
      <4>1. /\ \A v \in Workers \ {w} : wpc'[v] = wpc[v] /\ task'[v] = task[v]
            /\ wpc'[w] = "close" /\ task' = task
        BY <1>3, <3>1 DEF IInv, TypeOK
      <4>2. CASE d = c
        <5>1. /\ Len(out'[d]) <= Length
              /\ \A k \in 1..Len(out'[d]) : out'[d][k] = k
              /\ Len(out'[d]) + 0 = Length
          BY <2>4, <2>7, <3>1, <4>2
        <5>2. Settled(d)'
          BY <1>2, <2>3, <2>7, <3>1, <4>2, <5>1, LenProperties DEF Settled
        <5>3. \A k \in 1..Len(tasks') : tasks'[k].conn # d
          BY <1>6, <3>1, <4>2
        <5>4. conn'[d] = "open"
          BY <1>3, <1>6, <4>2
        <5> QED BY <1>1, <4>1, <4>2, <5>1, <5>2, <5>3, <5>4, OwnerSettles
      <4>3. CASE d # c
        BY <1>3, <2>7, <3>1, <4>1, <4>3, OthersUntouched
      <4> QED BY <4>2, <4>3
    <3> QED BY <3>2, <3>3, <3>4 DEF IInv, SentInv
  <2> QED BY <2>9, <2>10, <2>11
<1> QED BY <1>8, <1>9

LEMMA CloseSocketStep ==
    ASSUME IInv, NEW w \in Workers, CloseSocket(w)
    PROVE  IInv'
<1> DEFINE c == task[w].conn
<1>1. /\ wpc[w] = "close" /\ Busy(w) /\ wpc[w] # "idle"
      /\ conn' = [conn EXCEPT ![c] = "closed"]
      /\ closes' = [closes EXCEPT ![c] = @ + 1]
      /\ wpc' = [wpc EXCEPT ![w] = "finish"]
      /\ UNCHANGED <<tasks, task, again, expired, out, resent, failed>>
  BY DEF CloseSocket, Busy
<1>2. c \in Conns
  BY <1>1, WorkersTask
<1>3. /\ \A k \in 1..Len(tasks) : tasks[k].conn # c
      /\ \A v \in Workers \ {w} : task[v].conn = c => ~Busy(v)
      /\ conn[c] = "open"
  BY <1>1, OwnConnection
<1>4. /\ \A d \in Conns : conn'[d] = IF d = c THEN "closed" ELSE conn[d]
      /\ \A v \in Workers \ {w} : wpc'[v] = wpc[v] /\ task'[v] = task[v]
      /\ wpc'[w] = "finish"
      /\ \A v \in Workers : Busy(v)' <=> Busy(v) /\ v # w
      /\ tasks' = tasks /\ task' = task
  BY <1>1 DEF IInv, TypeOK, Busy
<1>5. closes[c] = 0
  BY <1>2, <1>3 DEF IInv, ClosesInv
<1>6. TypeOK'
  BY <1>1, <1>2 DEF IInv, TypeOK
<1>7. TasksInv'
  BY <1>1, <1>4 DEF IInv, TypeOK, TasksInv
<1>8. OwnersInv'
  <2>1. /\ \A k \in 1..Len(tasks') : conn'[tasks'[k].conn] = "open"
        /\ \A k, l \in 1..Len(tasks') : tasks'[k].conn = tasks'[l].conn => k = l
    BY <1>3, <1>4 DEF IInv, TasksInv, OwnersInv
  <2>2. \A v \in Workers : Busy(v)' => conn'[task'[v].conn] = "open"
    <3> SUFFICES ASSUME NEW v \in Workers, Busy(v), v # w
                 PROVE  conn'[task[v].conn] = "open"
      BY <1>4
    <3>1. task[v].conn # c /\ task[v].conn \in Conns /\ conn[task[v].conn] = "open"
      BY <1>3 DEF IInv, TasksInv, OwnersInv, Busy
    <3> QED BY <1>4, <3>1
  <2>3. \A v, u \in Workers : Busy(v)' /\ Busy(u)' /\ task'[v].conn = task'[u].conn => v = u
    BY <1>4 DEF IInv, OwnersInv
  <2>4. \A k \in 1..Len(tasks'), v \in Workers : Busy(v)' => tasks'[k].conn # task'[v].conn
    BY <1>4 DEF IInv, OwnersInv
  <2>5. ASSUME NEW d \in Conns, conn'[d] = "open"
        PROVE  \/ \E k \in 1..Len(tasks') : tasks'[k].conn = d
               \/ \E v \in Workers : Busy(v)' /\ task'[v].conn = d
    <3>1. d # c /\ conn[d] = "open"
      BY <1>4, <2>5
    <3> QED BY <1>4, <3>1 DEF IInv, OwnersInv
  <2> QED BY <2>1, <2>2, <2>3, <2>4, <2>5 DEF OwnersInv
<1>9. ClosesInv'
  BY <1>1, <1>2, <1>3, <1>5 DEF IInv, TypeOK, ClosesInv
<1>10. ASSUME NEW d \in Conns \ resent' PROVE Sent(d)'
  <2>1. CASE d = c
    <3>1. Sent(d)
      BY <1>1 DEF IInv, SentInv
    <3>2. /\ Len(out'[d]) <= Length /\ \A k \in 1..Len(out'[d]) : out'[d][k] = k
          /\ Settled(d)'
          /\ conn'[d] = "closed"
      BY <1>1, <1>4, <2>1, <3>1 DEF Sent, Settled
    <3>3. \A k \in 1..Len(tasks') : tasks'[k].conn # d
      BY <1>3, <1>4, <2>1
    <3> QED BY <1>1, <1>4, <2>1, <3>2, <3>3, OwnerSettles
  <2>2. CASE d # c
    BY <1>1, <1>4, <2>2, OthersUntouched
  <2> QED BY <2>1, <2>2
<1> QED BY <1>6, <1>7, <1>8, <1>9, <1>10 DEF IInv, SentInv

LEMMA FinishTaskStep ==
    ASSUME IInv, NEW w \in Workers, FinishTask(w)
    PROVE  IInv'
<1>1. /\ wpc[w] = "finish"
      /\ wpc' = [wpc EXCEPT ![w] = "idle"]
      /\ task' = [task EXCEPT ![w] = NoTask]
      /\ UNCHANGED <<conn, tasks, again, expired, closes, out, resent, failed>>
  BY DEF FinishTask, DeletedTask
<1>2. /\ \A v \in Workers \ {w} : wpc'[v] = wpc[v] /\ task'[v] = task[v]
      /\ wpc'[w] = "idle" /\ task'[w] = NoTask /\ task'[w].conn = NoConn
      /\ \A v \in Workers : Busy(v)' <=> Busy(v)
      /\ \A v \in Workers : Busy(v) => v # w /\ task'[v] = task[v]
      /\ tasks' = tasks /\ conn' = conn
  BY <1>1 DEF IInv, TypeOK, Busy, NoTask
<1>3. TypeOK'
  <2>1. task' \in [Workers -> Task]
    BY <1>1, Cleared DEF IInv, TypeOK
  <2>2. \A v \in Workers : task'[v] = NoTask <=> wpc'[v] = "idle"
    BY <1>2 DEF IInv, TypeOK
  <2> QED BY <1>1, <2>1, <2>2 DEF IInv, TypeOK
<1>4. TasksInv'
  BY <1>2 DEF IInv, TasksInv
<1>5. OwnersInv'
  BY <1>2 DEF IInv, OwnersInv
<1>6. ClosesInv'
  BY <1>1 DEF IInv, ClosesInv
<1>7. ASSUME NEW d \in Conns \ resent' PROVE Sent(d)'
  <2>1. /\ Sent(d) /\ d # NoConn
        /\ \A k \in 1..Len(tasks') : Remains(d, tasks'[k].left) => Remains(d, tasks[k].left)'
        /\ \A v \in Workers : Remains(d, task'[v].left) => Remains(d, task[v].left)'
        /\ Settled(d) => Settled(d)'
    BY <1>1, ConnAssumption DEF IInv, SentInv, Remains, Settled
  <2>2. \A v \in Workers : task'[v].conn = d =>
          /\ wpc'[v] = "process" => Len(out'[d]) = 0
          /\ wpc'[v] = "send" => Remains(d, task[v].left)'
          /\ wpc'[v] = "close" => Settled(d)'
    BY <1>1, <1>2, <2>1 DEF Sent
  <2>3. \A k \in 1..Len(tasks') : tasks'[k].conn = d =>
          /\ tasks'[k].kind = "http" => Len(out'[d]) = 0
          /\ tasks'[k].kind = "next" => Remains(d, tasks[k].left)'
    BY <1>1, <1>2, <2>1 DEF Sent
  <2> QED BY <1>1, <2>1, <2>2, <2>3 DEF Sent
<1> QED BY <1>3, <1>4, <1>5, <1>6, <1>7 DEF IInv, SentInv

------------------------------------------------------------------------------
\* One owner for an open connection and none for another, counted.
LEMMA OneOwnerCounts == IInv => OneTaskPerSocket
<1> SUFFICES ASSUME IInv, NEW c \in Conns
             PROVE  /\ Owners(c) = IF conn[c] = "open" THEN 1 ELSE 0
                    /\ closes[c] = IF conn[c] = "closed" THEN 1 ELSE 0
  BY DEF OneTaskPerSocket
<1> DEFINE queued == {k \in 1..Len(tasks) : tasks[k].conn = c}
           working == {w \in Workers : /\ task[w].conn = c
                                       /\ wpc[w] \in {"process", "send", "close"}}
<1>1. Owners(c) = Cardinality(queued) + Cardinality(working)
  BY DEF Owners
<1>2. closes[c] = IF conn[c] = "closed" THEN 1 ELSE 0
  BY DEF IInv, ClosesInv
<1>3. CASE conn[c] # "open"
  <2>1. queued = {} /\ working = {}
    BY <1>3 DEF IInv, OwnersInv, Busy
  <2>2. Cardinality(queued) = 0 /\ Cardinality(working) = 0
    BY <2>1, FS_EmptySet
  <2> QED BY <1>1, <1>2, <1>3, <2>2
<1>4. CASE conn[c] = "open"
  <2>1. CASE \E k \in 1..Len(tasks) : tasks[k].conn = c
    <3>1. PICK k \in 1..Len(tasks) : tasks[k].conn = c
      BY <2>1
    <3>2. queued = {k} /\ working = {}
      BY <3>1 DEF IInv, OwnersInv, Busy
    <3>3. Cardinality(queued) = 1 /\ Cardinality(working) = 0
      BY <3>2, FS_EmptySet, FS_Singleton
    <3> QED BY <1>1, <1>2, <1>4, <3>3
  <2>2. CASE \E w \in Workers : Busy(w) /\ task[w].conn = c
    <3>1. PICK w \in Workers : Busy(w) /\ task[w].conn = c
      BY <2>2
    <3>2. queued = {}
      BY <3>1 DEF IInv, OwnersInv
    <3>3. working = {w}
      BY <3>1 DEF IInv, OwnersInv, Busy
    <3>4. Cardinality(queued) = 0 /\ Cardinality(working) = 1
      BY <3>2, <3>3, FS_EmptySet, FS_Singleton
    <3> QED BY <1>1, <1>2, <1>4, <3>4
  <2> QED BY <1>4, <2>1, <2>2 DEF IInv, OwnersInv
<1> QED BY <1>3, <1>4

LEMMA WhatIsOutIsIntact == IInv => AnswerIsIntact
<1> SUFFICES ASSUME IInv, NEW c \in Conns \ resent
             PROVE  /\ out[c] = SubSeq(Content, 1, Len(out[c]))
                    /\ conn[c] = "closed" /\ c \notin failed => out[c] = Content
  BY DEF AnswerIsIntact
<1>1. /\ out[c] \in Seq(1..Length) /\ Len(out[c]) \in Nat
      /\ Len(out[c]) <= Length
      /\ \A k \in 1..Len(out[c]) : out[c][k] = k
      /\ conn[c] = "closed" => Settled(c)
  BY LenProperties DEF IInv, TypeOK, SentInv, Sent
<1>2. /\ Content \in Seq(1..Length) /\ Len(Content) = Length
      /\ \A k \in 1..Length : Content[k] = k
      /\ Length \in Nat
  BY LengthAssumption DEF Content
<1> DEFINE first == SubSeq(Content, 1, Len(out[c]))
<1>3. /\ first \in Seq(1..Length) /\ Len(first) = Len(out[c])
      /\ \A k \in 1..Len(out[c]) : first[k] = k
  <2>1. \A k \in 1..Len(out[c]) : Content[k] \in 1..Length /\ Content[k] = k
    BY <1>1, <1>2
  <2>2. /\ first \in Seq(1..Length)
        /\ Len(first) = IF 1 <= Len(out[c]) THEN Len(out[c]) - 1 + 1 ELSE 0
        /\ \A k \in 1..(Len(out[c]) - 1 + 1) : first[k] = Content[1 + k - 1]
    BY <1>1, <2>1, SubSeqProperties
  <2> QED BY <1>1, <2>1, <2>2
<1> HIDE DEF first
<1>4. out[c] = first
  BY <1>1, <1>3, SeqEqual
<1>5. ASSUME Len(out[c]) = Length PROVE out[c] = Content
  BY <1>1, <1>2, <1>5, SeqEqual
<1> QED BY <1>1, <1>4, <1>5 DEF first, Settled

------------------------------------------------------------------------------
(* IInv holds in every reachable state of the tasks and workers of
   server/http_server.cpp. *)
THEOREM Invariance == Spec => []IInv
<1>1. IInv /\ [Next]_vars => IInv'
  <2> SUFFICES ASSUME IInv, [Next]_vars PROVE IInv'
    OBVIOUS
  <2>1. ASSUME NEW c \in Conns, OnRead(c) \/ ExpiryPasses(c) PROVE IInv'
    BY <2>1, LoopSteps
  <2>2. ASSUME NEW w \in Workers, Worker(w) PROVE IInv'
    BY <2>2, TakeTaskStep, ProcessStep, GiveUpSteps, SendSteps, CloseSocketStep,
       FinishTaskStep DEF Worker
  <2>3. CASE UNCHANGED vars
    <3>1. /\ TypeOK' /\ TasksInv' /\ OwnersInv' /\ ClosesInv'
      BY <2>3 DEF vars, IInv, TypeOK, TasksInv, OwnersInv, ClosesInv, Busy
    <3>2. /\ \A d : Sent(d) => Sent(d)'
          /\ resent' = resent
      BY <2>3 DEF vars, Sent, Remains, Settled
    <3> QED BY <3>1, <3>2 DEF IInv, SentInv
  <2> QED BY <2>1, <2>2, <2>3 DEF Next
<1> QED BY InitIInv, <1>1, PTL DEF Spec

(* The state of the tasks and workers is always well typed: a worker of the
   pool is idle exactly when it has no HttpTask and no NextTask. *)
THEOREM TypeCorrect == Spec => []TypeOK
<1>1. IInv => TypeOK
  BY DEF IInv
<1> QED BY Invariance, <1>1, PTL

(* For any number of connections and workers a request handed over by OnRead
   belongs to one task or worker, until its socket is closed, exactly once. *)
THEOREM OneTask == Spec => []OneTaskPerSocket
  BY Invariance, OneOwnerCounts, PTL

(* For an answer of any length, cut by send in any way and continued by any
   NextTask, the client receives its units in order, and all of them unless
   the answer was given up.  Answers that a stale EAGAIN queues again are
   left out. *)
THEOREM AnswerArrivesIntact == Spec => []AnswerIsIntact
  BY Invariance, WhatIsOutIsIntact, PTL

------------------------------------------------------------------------------
\* The pool's side of Handover.  IInv tells the owner of a connection by its
\* socket alone.
OwnerKnown ==
    Owner = [c \in Conns |-> CASE conn[c] = "reading" -> "loop"
                               [] conn[c] = "open" -> "pool"
                               [] conn[c] = "closed" -> "nobody"]

LEMMA OwnerIsKnown == IInv => OwnerKnown
<1> SUFFICES ASSUME IInv, NEW c \in Conns
             PROVE  Owner[c] = CASE conn[c] = "reading" -> "loop"
                                 [] conn[c] = "open" -> "pool"
                                 [] conn[c] = "closed" -> "nobody"
  BY Zenon DEF OwnerKnown, Owner
<1>1. conn[c] \in {"reading", "open", "closed"}
  BY DEF IInv, TypeOK
<1>2. InPool(c) <=> conn[c] = "open"
  BY DEF IInv, OwnersInv, InPool, Busy
<1>3. closes[c] = IF conn[c] = "closed" THEN 1 ELSE 0
  BY DEF IInv, ClosesInv
<1> QED BY <1>1, <1>2, <1>3 DEF Owner

LEMMA HandedOver ==
    ASSUME IInv, OwnerKnown, OwnerKnown', NEW c \in Conns, OnRead(c)
    PROVE  Life!HandOver(c)
<1>1. /\ conn \in [Conns -> {"reading", "open", "closed"}]
      /\ conn[c] = "reading" /\ conn' = [conn EXCEPT ![c] = "open"]
      /\ closes' = closes
  BY DEF IInv, TypeOK, OnRead
<1>2. Owner[c] = "loop" /\ Owner' = [Owner EXCEPT ![c] = "pool"]
  BY <1>1 DEF OwnerKnown
<1> QED BY <1>1, <1>2 DEF Life!HandOver, Life!Pass

LEMMA ClosedByWorker ==
    ASSUME IInv, OwnerKnown, OwnerKnown', NEW w \in Workers, CloseSocket(w)
    PROVE  Life!PoolCloses(task[w].conn)
<1> DEFINE c == task[w].conn
<1>1. /\ c \in Conns /\ conn[c] = "open"
      /\ conn' = [conn EXCEPT ![c] = "closed"]
      /\ closes' = [closes EXCEPT ![c] = @ + 1]
      /\ conn \in [Conns -> {"reading", "open", "closed"}]
      /\ closes \in [Conns -> Nat]
  BY DEF IInv, TypeOK, TasksInv, OwnersInv, Busy, CloseSocket
<1> HIDE DEF c
<1>2. /\ \A d \in {c} : Owner[d] \in {"pool"}
      /\ Owner' = [d \in Conns |-> IF d \in {c} THEN "nobody" ELSE Owner[d]]
  BY <1>1 DEF OwnerKnown
<1>3. closes' = [d \in Conns |-> IF d \in {c} THEN closes[d] + 1 ELSE closes[d]]
  BY <1>1
<1>4. Life!PoolCloses(c)
  BY <1>2, <1>3 DEF Life!PoolCloses, Life!Close
<1> QED BY <1>4 DEF c

(* HttpTask, NextTask and the workers keep their side of what server.cpp and
   http_server.cpp promise each other: they let go of a socket only by passing
   it on or by closing it, and never touch it again after that. *)
THEOREM PoolKeepsItsSide == Spec => PoolSide
<1>1. Init => Life!Init
  <2> SUFFICES ASSUME Init PROVE Life!Init
    OBVIOUS
  <2>1. IInv
    BY InitIInv
  <2>2. OwnerKnown
    BY <2>1, OwnerIsKnown
  <2> QED BY <2>2 DEF Init, OwnerKnown, Life!Init
<1>2. IInv /\ OwnerKnown /\ OwnerKnown' /\ [Next]_vars => [Life!Next]_<<Owner, closes>>
  <2> SUFFICES ASSUME IInv, OwnerKnown, OwnerKnown', [Next]_vars
               PROVE  [Life!Next]_<<Owner, closes>>
    OBVIOUS
  <2>1. ASSUME UNCHANGED <<conn, closes>> PROVE [Life!Next]_<<Owner, closes>>
    BY <2>1 DEF OwnerKnown
  <2>2. ASSUME NEW c \in Conns, OnRead(c) \/ ExpiryPasses(c)
        PROVE  [Life!Next]_<<Owner, closes>>
    BY <2>1, <2>2, HandedOver DEF ExpiryPasses, Life!Next
  <2>3. ASSUME NEW w \in Workers, CloseSocket(w) PROVE [Life!Next]_<<Owner, closes>>
    <3>1. task[w].conn \in Conns
      BY <2>3 DEF IInv, TasksInv, CloseSocket
    <3> QED BY <2>3, <3>1, ClosedByWorker DEF Life!Next
  <2>4. ASSUME NEW w \in Workers,
               \/ TakeTask(w) \/ Process(w) \/ SendExpired(w) \/ SendTakes(w)
               \/ SendWouldBlock(w) \/ SendFails(w) \/ FinishTask(w)
        PROVE  [Life!Next]_<<Owner, closes>>
    BY <2>1, <2>4 DEF TakeTask, Process, SendExpired, SendTakes, SendWouldBlock,
       SendFails, FinishTask
  <2>5. CASE UNCHANGED vars
    BY <2>1, <2>5 DEF vars
  <2> QED BY <2>2, <2>3, <2>4, <2>5 DEF Next, Worker
<1>3. IInv /\ OwnerKnown /\ OwnerKnown' /\ [Next]_vars => [Life!Next]_(Life!vars)
  BY <1>2 DEF Life!vars
<1> QED BY <1>1, <1>3, OwnerIsKnown, Invariance, PTL DEF Spec, PoolSide, Life!Spec

------------------------------------------------------------------------------
\* The queue of the pool as its users see it: a worker has the task it took, as
\* it was queued, until Finish.
AsQueued(t) == IF t.kind = "http" THEN [t EXCEPT !.left = <<>>] ELSE t
InHand == [w \in Workers |-> IF wpc[w] = "idle" THEN <<>> ELSE <<AsQueued(task[w])>>]

Queue == INSTANCE FifoQueue WITH Consumers <- Workers, Values <- Task,
                                 items <- tasks, outcome <- InHand

\* An HttpTask is queued without an answer, and only an HttpTask is processed.
HttpInv ==
    /\ \A k \in 1..Len(tasks) : tasks[k] = AsQueued(tasks[k])
    /\ \A w \in Workers : wpc[w] = "process" => task[w].kind = "http"

LEMMA InitHttp == Init => HttpInv
<1> SUFFICES ASSUME Init PROVE HttpInv
  OBVIOUS
<1>1. Len(tasks) = 0
  BY EmptySeq DEF Init
<1> QED BY <1>1 DEF Init, HttpInv

\* A task is put behind the others by a thread that keeps the task it has.
LEMMA PutStep ==
    ASSUME IInv, HttpInv, NEW t \in Task, t = AsQueued(t),
           tasks' = Append(tasks, t), task' = task,
           \A w \in Workers : /\ wpc'[w] = "idle" <=> wpc[w] = "idle"
                              /\ wpc'[w] = "process" => wpc[w] = "process"
    PROVE  HttpInv' /\ Queue!Put
<1>1. /\ Len(tasks) \in Nat
      /\ \A k \in 1..Len(tasks) : tasks'[k] = tasks[k]
      /\ tasks'[Len(tasks')] = t
      /\ \A k \in 1..Len(tasks') : k \in 1..Len(tasks) \/ k = Len(tasks')
  BY Enqueued DEF IInv, TypeOK
<1>2. HttpInv'
  BY <1>1 DEF HttpInv, AsQueued
<1>3. InHand' = InHand
  BY DEF InHand, AsQueued
<1> QED BY <1>2, <1>3 DEF Queue!Put

\* A worker goes on with the task it has.
LEMMA KeepStep ==
    ASSUME IInv, HttpInv, tasks' = tasks, task' = task,
           \A w \in Workers : /\ wpc'[w] = "idle" <=> wpc[w] = "idle"
                              /\ wpc'[w] = "process" => wpc[w] = "process"
    PROVE  HttpInv' /\ UNCHANGED <<tasks, InHand>>
<1>1. HttpInv'
  BY DEF HttpInv, AsQueued
<1>2. InHand' = InHand
  BY DEF InHand, AsQueued
<1> QED BY <1>1, <1>2

LEMMA TakeMapped ==
    ASSUME IInv, HttpInv, NEW w \in Workers, TakeTask(w)
    PROVE  HttpInv' /\ Queue!Take(w)
<1> DEFINE t == Head(tasks)
<1>1. /\ wpc[w] = "idle" /\ tasks # <<>> /\ tasks' = Tail(tasks)
      /\ task' = [task EXCEPT ![w] = t]
      /\ wpc' = [wpc EXCEPT ![w] = IF t.kind = "http" THEN "process" ELSE "send"]
      /\ tasks \in Seq(Task) /\ task \in [Workers -> Task]
      /\ wpc \in [Workers -> {"idle", "process", "send", "close", "finish"}]
  BY DEF TakeTask, IInv, TypeOK
<1>2. /\ \A k \in 1..Len(tasks') : k + 1 \in 1..Len(tasks) /\ tasks'[k] = tasks[k + 1]
      /\ 1 \in 1..Len(tasks) /\ t = tasks[1]
  BY <1>1, Dequeued
<1>3. t = AsQueued(t)
  BY <1>2 DEF HttpInv
<1> HIDE DEF t
<1>4. HttpInv'
  BY <1>1, <1>2 DEF HttpInv, AsQueued
<1>5. InHand[w] = <<>>
  BY <1>1 DEF InHand
<1>6. InHand' = [InHand EXCEPT ![w] = <<t>>]
  <2>1. ASSUME NEW v \in Workers PROVE InHand'[v] = [InHand EXCEPT ![w] = <<t>>][v]
    BY <1>1, <1>3 DEF InHand
  <2> QED BY <2>1, Zenon DEF InHand
<1> QED BY <1>1, <1>4, <1>5, <1>6 DEF Queue!Take, t

LEMMA ReturnMapped ==
    ASSUME IInv, HttpInv, NEW w \in Workers, FinishTask(w)
    PROVE  HttpInv' /\ Queue!Return(w)
<1>1. /\ wpc[w] = "finish" /\ tasks' = tasks
      /\ wpc' = [wpc EXCEPT ![w] = "idle"]
      /\ task' = [task EXCEPT ![w] = NoTask]
      /\ task \in [Workers -> Task]
      /\ wpc \in [Workers -> {"idle", "process", "send", "close", "finish"}]
  BY DEF FinishTask, DeletedTask, IInv, TypeOK
<1>2. HttpInv'
  BY <1>1 DEF HttpInv, AsQueued
<1>3. InHand[w] # <<>>
  BY <1>1 DEF InHand
<1>4. InHand' = [InHand EXCEPT ![w] = <<>>]
  <2>1. ASSUME NEW v \in Workers PROVE InHand'[v] = [InHand EXCEPT ![w] = <<>>][v]
    BY <1>1 DEF InHand, AsQueued
  <2> QED BY <2>1, Zenon DEF InHand
<1> QED BY <1>1, <1>2, <1>3, <1>4 DEF Queue!Return

\* HttpTask::Run fills in the answer, which was not queued with the task.
LEMMA ProcessMapped ==
    ASSUME IInv, HttpInv, NEW w \in Workers, Process(w)
    PROVE  HttpInv' /\ UNCHANGED <<tasks, InHand>>
<1>1. /\ wpc[w] = "process" /\ tasks' = tasks
      /\ \E l \in {"send", "close"} : wpc' = [wpc EXCEPT ![w] = l]
      /\ task' = task \/ task' = [task EXCEPT ![w].left = Content]
      /\ task \in [Workers -> Task]
      /\ wpc \in [Workers -> {"idle", "process", "send", "close", "finish"}]
  BY DEF Process, IInv, TypeOK
<1>2. task[w].kind = "http"
  BY <1>1 DEF HttpInv
<1>3. \A v \in Workers : /\ v # w => task'[v] = task[v]
                         /\ wpc'[v] = "idle" <=> wpc[v] = "idle"
                         /\ wpc'[v] = "process" => wpc[v] = "process"
                         /\ task'[v].kind = task[v].kind
  BY <1>1 DEF Task
<1>4. HttpInv'
  BY <1>1, <1>3 DEF HttpInv, AsQueued
<1>5. AsQueued(task[w])' = AsQueued(task[w])
  <2>1. task[w] = [kind |-> "http", conn |-> task[w].conn, left |-> task[w].left]
    BY <1>1, <1>2 DEF Task
  <2>2. AsQueued(task[w]) = [kind |-> "http", conn |-> task[w].conn, left |-> <<>>]
    BY <1>2, <2>1 DEF AsQueued
  <2>3. task' = [task EXCEPT ![w].left = Content] =>
           task'[w] = [kind |-> "http", conn |-> task[w].conn, left |-> Content]
    BY <1>1, <2>1
  <2>4. AsQueued([kind |-> "http", conn |-> task[w].conn, left |-> Content])
           = [kind |-> "http", conn |-> task[w].conn, left |-> <<>>]
    BY DEF AsQueued
  <2> QED BY <1>1, <2>2, <2>3, <2>4 DEF AsQueued
<1>6. InHand' = InHand
  <2>1. ASSUME NEW v \in Workers PROVE InHand'[v] = InHand[v]
    BY <1>3, <1>5 DEF InHand, AsQueued
  <2> QED BY <2>1, Zenon DEF InHand
<1> QED BY <1>1, <1>4, <1>6

\* What SendResponse does with the queue: one NextTask at most.
LEMMA SendMapped ==
    ASSUME IInv, HttpInv, NEW w \in Workers,
           SendTakes(w) \/ SendWouldBlock(w) \/ SendFails(w) \/ SendExpired(w)
    PROVE  HttpInv' /\ (Queue!Put \/ UNCHANGED <<tasks, InHand>>)
<1>1. /\ wpc[w] = "send" /\ task' = task
      /\ wpc \in [Workers -> {"idle", "process", "send", "close", "finish"}]
      /\ task[w].conn \in Conns /\ task[w].left \in Seq(1..Length)
  BY WorkersTask
  DEF SendTakes, SendWouldBlock, SendFails, SendExpired, MayStillSend, IInv, TypeOK
<1>2. ASSUME NEW l \in {"close", "finish"}, wpc' = [wpc EXCEPT ![w] = l]
      PROVE  \A v \in Workers : /\ wpc'[v] = "idle" <=> wpc[v] = "idle"
                                /\ wpc'[v] = "process" => wpc[v] = "process"
  BY <1>1, <1>2
<1>3. ASSUME NEW rest \in Seq(1..Length), Requeue(w, rest) PROVE HttpInv' /\ Queue!Put
  <2> DEFINE t == [kind |-> "next", conn |-> task[w].conn, left |-> rest]
  <2>1. t \in Task /\ t = AsQueued(t)
    BY <1>1 DEF Task, AsQueued
  <2>2. tasks' = Append(tasks, t) /\ wpc' = [wpc EXCEPT ![w] = "finish"]
    BY <1>3 DEF Requeue
  <2> HIDE DEF t
  <2> QED BY <1>1, <1>2, <2>1, <2>2, PutStep
<1>4. ASSUME wpc' = [wpc EXCEPT ![w] = "close"], tasks' = tasks
      PROVE  HttpInv' /\ UNCHANGED <<tasks, InHand>>
  BY <1>1, <1>2, <1>4, KeepStep
<1>5. CASE SendFails(w) \/ SendExpired(w)
  BY <1>4, <1>5 DEF SendFails, SendExpired
<1>6. CASE SendWouldBlock(w)
  BY <1>1, <1>3, <1>6 DEF SendWouldBlock
<1>7. CASE SendTakes(w)
  <2>1. PICK n \in 1..Len(task[w].left) :
          \/ Requeue(w, Rest(task[w].left, n))
          \/ Requeue(w, task[w].left)
          \/ wpc' = [wpc EXCEPT ![w] = "close"] /\ tasks' = tasks
    BY <1>7 DEF SendTakes
  <2>2. Rest(task[w].left, n) \in Seq(1..Length)
    BY <1>1, CutInTwo
  <2> QED BY <1>1, <1>3, <1>4, <2>1, <2>2
<1> QED BY <1>5, <1>6, <1>7

(* The server's tasks go through the pool's queue as FifoQueue promises it:
   each is taken by one worker, oldest first, and given back with Finish.  A
   worker queues at most the task that continues its own (Owner()->Push). *)
THEOREM UsesAtomicQueue == Spec => Queue!Spec
<1>1. Init => Queue!Init
  BY DEF Init, Queue!Init, InHand
<1>2. IInv /\ HttpInv /\ [Next]_vars => HttpInv' /\ [Queue!Next]_<<tasks, InHand>>
  <2> SUFFICES ASSUME IInv, HttpInv, [Next]_vars
               PROVE  HttpInv' /\ [Queue!Next]_<<tasks, InHand>>
    OBVIOUS
  <2>1. ASSUME NEW c \in Conns, OnRead(c) PROVE HttpInv' /\ [Queue!Next]_<<tasks, InHand>>
    <3> DEFINE t == [kind |-> "http", conn |-> c, left |-> <<>>]
    <3>1. t \in Task /\ t = AsQueued(t)
      BY EmptySeq DEF Task, AsQueued
    <3>2. tasks' = Append(tasks, t) /\ task' = task /\ wpc' = wpc
      BY <2>1 DEF OnRead
    <3> HIDE DEF t
    <3>3. HttpInv' /\ Queue!Put
      BY <3>1, <3>2, PutStep
    <3> QED BY <3>3 DEF Queue!Next
  <2>2. ASSUME NEW w \in Workers, Worker(w) PROVE HttpInv' /\ [Queue!Next]_<<tasks, InHand>>
    <3>1. CASE TakeTask(w) \/ FinishTask(w)
      BY <3>1, TakeMapped, ReturnMapped DEF Queue!Next
    <3>2. CASE Process(w)
      BY <3>2, ProcessMapped
    <3>3. CASE SendTakes(w) \/ SendWouldBlock(w) \/ SendFails(w) \/ SendExpired(w)
      BY <3>3, SendMapped DEF Queue!Next
    <3>4. CASE CloseSocket(w)
      <4>1. /\ tasks' = tasks /\ task' = task
            /\ wpc[w] = "close" /\ wpc' = [wpc EXCEPT ![w] = "finish"]
            /\ wpc \in [Workers -> {"idle", "process", "send", "close", "finish"}]
        BY <3>4 DEF CloseSocket, IInv, TypeOK
      <4> QED BY <4>1, KeepStep
    <3> QED BY <2>2, <3>1, <3>2, <3>3, <3>4 DEF Worker
  <2>3. CASE UNCHANGED <<tasks, task, wpc>>
    BY <2>3, KeepStep
  <2>4. CASE UNCHANGED vars \/ \E c \in Conns : ExpiryPasses(c)
    BY <2>3, <2>4 DEF vars, ExpiryPasses
  <2> QED BY <2>1, <2>2, <2>4 DEF Next
<1>3. <<tasks, InHand>> = Queue!vars
  BY DEF Queue!vars
<1>4. IInv /\ HttpInv /\ [Next]_vars => HttpInv' /\ [Queue!Next]_(Queue!vars)
  BY <1>2, <1>3 DEF Queue!vars
<1> QED BY <1>1, <1>4, InitHttp, Invariance, PTL DEF Spec, Queue!Spec
==============================================================================
