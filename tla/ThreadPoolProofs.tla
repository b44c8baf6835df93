--------------------------- MODULE ThreadPoolProofs --------------------------
(***************************************************************************)
(* For any number of clients, workers and tasks: the pool uses its queue   *)
(* as TaskQueue describes it, so that what is proved there holds here, and *)
(* no task runs twice.                                                     *)
(***************************************************************************)
EXTENDS ThreadPool, SequenceTheorems, TLAPS

\* The theorems about the queue, read for the queue of the pool.
QProofs == INSTANCE TaskQueueProofs WITH Producers <- Clients \cup Workers,
                                         Consumers <- Workers,
                                         Values <- Tasks,
                                         MaxPush <- MaxTasks + MaxMore

(* The pool, its clients and its workers push to and take from qlist_ by the
   steps of TaskQueue and nothing else (thread_pool.cpp). *)
THEOREM UsesTheQueue == Spec => Q!Spec
<1>1. Init => Q!Init
  BY DEF Init
<1>2. [Next]_vars => [Q!Next]_(Q!vars)
  BY DEF Next, vars, queueVars, Q!vars, Q!Next, ClientPush, Create, Stop, TestStop,
         GetTask, SpuriousWake, RunTask, PushMore, Finish, ThreadMain
<1> QED BY <1>1, <1>2, PTL DEF Spec, Q!Spec

\* Q and QProofs are two instances of the same module.
LEMMA SameQueue ==
    /\ Q!Init => QProofs!Init
    /\ [Q!Next]_(Q!vars) => [QProofs!Next]_(QProofs!vars)
    /\ QProofs!IInv => Q!IInv
<1>1. Q!Init => QProofs!Init
  BY DEF Q!Init, QProofs!Init, Q!Threads, QProofs!Threads
<1>2. QProofs!IInv => Q!IInv
  BY DEF Q!IInv, QProofs!IInv, Q!TypeOK, QProofs!TypeOK, Q!Threads, QProofs!Threads,
         Q!PushLabels, QProofs!PushLabels, Q!GetLabels, QProofs!GetLabels,
         Q!MutualExclusion, QProofs!MutualExclusion, Q!Holding, QProofs!Holding,
         Q!ArgsKnown, QProofs!ArgsKnown, Q!FrontIsStable, QProofs!FrontIsStable,
         Q!NoLostWakeup, QProofs!NoLostWakeup, Q!FifoDelivery, QProofs!FifoDelivery
<1>3. [Q!Next]_(Q!vars) => [QProofs!Next]_(QProofs!vars)
  <2>1. ASSUME NEW p \in Clients \cup Workers, Q!Push(p) PROVE QProofs!Push(p)
    BY <2>1 DEF Q!Push, Q!PushAcquire, Q!PushEnqueue, Q!PushRelease, Q!PushBroadcast,
       QProofs!Push, QProofs!PushAcquire, QProofs!PushEnqueue, QProofs!PushRelease,
       QProofs!PushBroadcast, Q!Acquire, QProofs!Acquire, Q!Release, QProofs!Release,
       Q!Goto, QProofs!Goto, Q!BroadcastWakes, QProofs!BroadcastWakes, Q!Parked, QProofs!Parked,
       Q!Threads, QProofs!Threads
  <2>2. ASSUME NEW c \in Workers, Q!Get(c) PROVE QProofs!Get(c)
    BY <2>2 DEF Q!Get, Q!GetAcquire, Q!CheckNonEmpty, Q!Park, Q!WaitFails, Q!Relock,
       Q!FrontEmpty, Q!ReadFront, Q!Pop, Q!GetRelease,
       QProofs!Get, QProofs!GetAcquire, QProofs!CheckNonEmpty, QProofs!Park,
       QProofs!WaitFails, QProofs!Relock, QProofs!FrontEmpty, QProofs!ReadFront,
       QProofs!Pop, QProofs!GetRelease,
       Q!Acquire, QProofs!Acquire, Q!Release, QProofs!Release, Q!Goto, QProofs!Goto
  <2>3. ASSUME NEW c \in Workers, Q!SpuriousWake(c) PROVE QProofs!SpuriousWake(c)
    BY <2>3 DEF Q!SpuriousWake, QProofs!SpuriousWake, Q!Goto, QProofs!Goto
  <2>4. Q!vars = QProofs!vars /\ (Q!vars)' = (QProofs!vars)'
    BY DEF Q!vars, QProofs!vars
  <2> QED BY <2>1, <2>2, <2>3, <2>4 DEF Q!Next, QProofs!Next
<1> QED BY <1>1, <1>2, <1>3

(* Everything that is proved of task_queue_posix.h holds of qlist_, the queue of
   the pool: no wake-up of a worker is lost, and tasks come in order. *)
THEOREM QueueInvariant == Spec => []Q!IInv
<1>1. /\ NoTask \notin Tasks
      /\ NoThread \notin (Clients \cup Workers) \cup Workers
      /\ MaxTasks + MaxMore \in Nat
  BY NoTaskAssumption, NoThreadAssumption, BoundsAssumption
<1>2. QProofs!Spec => []QProofs!IInv
  BY <1>1, QProofs!Invariance
<1> QED BY <1>2, UsesTheQueue, SameQueue, PTL DEF Q!Spec, QProofs!Spec

------------------------------------------------------------------------------
PoolTypeOK == /\ stop \in BOOLEAN
              /\ wpc \in [Workers -> {"none", "test", "get", "run", "push", "finish", "end"}]
              /\ submitted \in 0..MaxTasks
              /\ continued \in 0..MaxMore
              /\ ran \in Seq(Tasks)

\* A worker is inside Get and Push only where ThreadMain calls them, and runs
\* what Get has handed it.
PlacesInv ==
    \A w \in Workers :
        /\ wpc[w] # "get" => pc[w] \notin Q!GetLabels
        /\ wpc[w] # "push" => pc[w] \notin Q!PushLabels
        /\ wpc[w] = "run" => value[w] # NoTask

\* A Task object is pushed once.
PushedInv ==
    /\ \A k, l \in 1..Len(pushed) : pushed[k] = pushed[l] => k = l
    /\ \A u \in Clients \cup Workers : pc[u] = "push" =>
          \A k \in 1..Len(pushed) : pushed[k] # arg[u]

\* w has taken a task out of the queue and has not run it yet.
Carries(w) == value[w] # NoTask /\ (pc[w] = "returning" \/ wpc[w] = "run")

\* What was taken was run, once, or is with one worker.
RunInv ==
    /\ \A k, l \in 1..Len(ran) : ran[k] = ran[l] => k = l
    /\ \A k \in 1..Len(ran) : \E l \in 1..Len(taken) : ran[k] = taken[l]
    /\ \A w \in Workers : Carries(w) =>
          /\ \E l \in 1..Len(taken) : value[w] = taken[l]
          /\ \A k \in 1..Len(ran) : ran[k] # value[w]
    /\ \A v, w \in Workers : Carries(v) /\ Carries(w) /\ value[v] = value[w] => v = w

PoolInv == PoolTypeOK /\ PlacesInv /\ PushedInv /\ RunInv

------------------------------------------------------------------------------
LEMMA InitPool == Init => PoolInv
<1> SUFFICES ASSUME Init PROVE PoolInv
  OBVIOUS
<1>1. /\ ran \in Seq(Tasks) /\ Len(ran) = 0 /\ Len(pushed) = 0
      /\ \A u \in Clients \cup Workers : pc[u] = "idle"
      /\ \A w \in Workers : wpc[w] = "none"
      /\ \A w \in Workers : value[w] = NoTask
  BY EmptySeq DEF Init, Q!Init, Q!Threads
<1>2. PoolTypeOK
  <2>1. /\ wpc \in [Workers -> {"none", "test", "get", "run", "push", "finish", "end"}]
        /\ submitted \in 0..MaxTasks /\ continued \in 0..MaxMore
    BY BoundsAssumption DEF Init
  <2>2. stop \in BOOLEAN
    BY DEF Init
  <2> QED BY <1>1, <2>1, <2>2 DEF PoolTypeOK
<1>3. PlacesInv
  BY <1>1 DEF PlacesInv, Q!GetLabels, Q!PushLabels
<1>4. PushedInv /\ RunInv
  BY <1>1 DEF PushedInv, RunInv, Carries
<1> QED BY <1>2, <1>3, <1>4 DEF PoolInv

\* What Q!IInv says of the state.
LEMMA QueueTypes ==
    ASSUME Q!IInv
    PROVE  /\ queue \in Seq(Tasks) /\ pushed \in Seq(Tasks) /\ taken \in Seq(Tasks)
           /\ Len(queue) \in Nat /\ Len(pushed) \in Nat /\ Len(taken) \in Nat
           /\ pc \in [Clients \cup Workers -> {"idle"} \cup Q!PushLabels \cup Q!GetLabels]
           /\ arg \in [Clients \cup Workers -> Tasks \cup {NoTask}]
           /\ value \in [Workers -> Tasks \cup {NoTask}]
<1>1. /\ queue \in Seq(Tasks) /\ pushed \in Seq(Tasks) /\ taken \in Seq(Tasks)
      /\ pc \in [Clients \cup Workers -> {"idle"} \cup Q!PushLabels \cup Q!GetLabels]
      /\ arg \in [Clients \cup Workers -> Tasks \cup {NoTask}]
      /\ value \in [Workers -> Tasks \cup {NoTask}]
  <2>1. (Clients \cup Workers) \cup Workers = Clients \cup Workers
    OBVIOUS
  <2> QED BY <2>1 DEF Q!IInv, Q!TypeOK, Q!Threads
<1> QED BY <1>1, LenProperties

\* What was taken and what is queued, within what was pushed.
LEMMA TakenArePushed ==
    ASSUME Q!IInv
    PROVE  /\ Len(taken) <= Len(pushed)
           /\ \A k \in 1..Len(taken) : k \in 1..Len(pushed) /\ taken[k] = pushed[k]
           /\ queue # <<>> => /\ Len(taken) + 1 \in 1..Len(pushed)
                              /\ Head(queue) = pushed[Len(taken) + 1]
<1>1. taken \o queue = pushed
  BY DEF Q!IInv, Q!FifoDelivery
<1>2. /\ queue \in Seq(Tasks) /\ taken \in Seq(Tasks)
      /\ Len(queue) \in Nat /\ Len(taken) \in Nat
  BY QueueTypes
<1>3. /\ Len(pushed) = Len(taken) + Len(queue)
      /\ \A k \in 1..Len(taken) + Len(queue) :
            pushed[k] = IF k <= Len(taken) THEN taken[k] ELSE queue[k - Len(taken)]
  <2>1. /\ Len(taken \o queue) = Len(taken) + Len(queue)
        /\ \A k \in 1..Len(taken) + Len(queue) :
              (taken \o queue)[k] = IF k <= Len(taken) THEN taken[k] ELSE queue[k - Len(taken)]
    BY <1>2, ConcatProperties
  <2> QED BY <1>1, <2>1
<1>4. queue # <<>> => Len(queue) > 0 /\ Head(queue) = queue[1]
  BY <1>2, EmptySeq
<1>5. Len(taken) <= Len(pushed)
  BY <1>2, <1>3
<1>6. ASSUME NEW k \in 1..Len(taken) PROVE k \in 1..Len(pushed) /\ taken[k] = pushed[k]
  <2>1. k \in 1..Len(taken) + Len(queue) /\ k <= Len(taken)
    BY <1>2
  <2> QED BY <1>3, <2>1
<1>7. ASSUME queue # <<>>
      PROVE  /\ Len(taken) + 1 \in 1..Len(pushed)
             /\ Head(queue) = pushed[Len(taken) + 1]
  <2>1. /\ Len(taken) + 1 \in 1..Len(taken) + Len(queue)
        /\ ~(Len(taken) + 1 <= Len(taken))
        /\ (Len(taken) + 1) - Len(taken) = 1
    BY <1>2, <1>4, <1>7
  <2> QED BY <1>3, <1>4, <1>7, <2>1
<1> QED BY <1>5, <1>6, <1>7

------------------------------------------------------------------------------
\* A step of Push(p) of a task object that is not in use: it is pushed once.
LEMMA PushedStep ==
    ASSUME Q!IInv, PushedInv, NEW p \in Clients \cup Workers, Q!Push(p),
           pc[p] = "idle" => arg'[p] \notin UsedTasks
    PROVE  PushedInv'
<1>1. /\ pushed \in Seq(Tasks) /\ Len(pushed) \in Nat
      /\ pc \in [Clients \cup Workers -> {"idle"} \cup Q!PushLabels \cup Q!GetLabels]
      /\ arg \in [Clients \cup Workers -> Tasks \cup {NoTask}]
  BY QueueTypes
<1>2. CASE Q!PushAcquire(p)
  <2>1. /\ pushed' = pushed /\ pc[p] = "idle"
        /\ \A u \in Clients \cup Workers : u # p => pc'[u] = pc[u] /\ arg'[u] = arg[u]
    BY <1>1, <1>2 DEF Q!PushAcquire, Q!Goto
  <2>2. \A k \in 1..Len(pushed) : pushed[k] # arg'[p]
    BY <2>1 DEF UsedTasks
  <2> QED BY <2>1, <2>2 DEF PushedInv
<1>3. CASE Q!PushEnqueue(p)
  <2>1. /\ pc[p] = "push" /\ pushed' = Append(pushed, arg[p]) /\ arg' = arg
        /\ \A u \in Clients \cup Workers : u # p => pc'[u] = pc[u]
        /\ pc'[p] = "pushed"
    BY <1>1, <1>3 DEF Q!PushEnqueue, Q!Goto
  <2>2. arg[p] \in Tasks
    BY <2>1 DEF Q!IInv, Q!ArgsKnown
  <2>3. /\ Len(pushed') = Len(pushed) + 1
        /\ \A k \in 1..Len(pushed) : pushed'[k] = pushed[k]
        /\ pushed'[Len(pushed) + 1] = arg[p]
    BY <1>1, <2>1, <2>2, AppendProperties
  <2>4. \A u \in Clients \cup Workers : pc'[u] # "push"
    BY <2>1 DEF Q!IInv, Q!MutualExclusion, Q!Holding, Q!Threads
  <2>5. \A k \in 1..Len(pushed) : pushed[k] # arg[p]
    BY <2>1 DEF PushedInv
  <2>6. \A k \in 1..Len(pushed') : k \in 1..Len(pushed) \/ k = Len(pushed) + 1
    BY <1>1, <2>3
  <2>7. \A k, l \in 1..Len(pushed') : pushed'[k] = pushed'[l] => k = l
    BY <2>3, <2>5, <2>6 DEF PushedInv
  <2> QED BY <2>4, <2>7 DEF PushedInv
<1>4. CASE Q!PushRelease(p)
  <2>1. pushed' = pushed /\ arg' = arg /\ \A u \in Clients \cup Workers : pc'[u] = "push" => pc[u] = "push"
    BY <1>1, <1>4 DEF Q!PushRelease, Q!Goto
  <2> QED BY <2>1 DEF PushedInv
<1>5. CASE Q!PushBroadcast(p)
  <2>1. pushed' = pushed /\ arg' = arg /\ \A u \in Clients \cup Workers : pc'[u] = "push" => pc[u] = "push"
    BY <1>1, <1>5 DEF Q!PushBroadcast, Q!Threads
  <2> QED BY <2>1 DEF PushedInv
<1> QED BY <1>2, <1>3, <1>4, <1>5 DEF Q!Push

\* Where a step of Push(p) leaves the threads.
LEMMA PushMoves ==
    ASSUME Q!IInv, NEW p \in Clients \cup Workers, Q!Push(p)
    PROVE  /\ value' = value /\ taken' = taken
           /\ pc[p] \in {"idle"} \cup Q!PushLabels
           /\ pc'[p] \in {"idle"} \cup Q!PushLabels
           /\ pc[p] = "broadcast" => pc'[p] = "idle"
           /\ \A u \in Clients \cup Workers : u # p =>
                 \/ pc'[u] = pc[u]
                 \/ u \in Workers /\ pc[u] = "waiting" /\ pc'[u] = "woken"
<1>1. pc \in [Clients \cup Workers -> {"idle"} \cup Q!PushLabels \cup Q!GetLabels]
  BY QueueTypes
<1>2. CASE Q!PushAcquire(p)
  BY <1>1, <1>2 DEF Q!PushAcquire, Q!Goto, Q!PushLabels
<1>3. CASE Q!PushEnqueue(p)
  BY <1>1, <1>3 DEF Q!PushEnqueue, Q!Goto, Q!PushLabels
<1>4. CASE Q!PushRelease(p)
  BY <1>1, <1>4 DEF Q!PushRelease, Q!Goto, Q!PushLabels
<1>5. CASE Q!PushBroadcast(p)
  BY <1>1, <1>5 DEF Q!PushBroadcast, Q!BroadcastWakes, Q!Parked, Q!Threads, Q!PushLabels
<1> QED BY <1>2, <1>3, <1>4, <1>5 DEF Q!Push

\* A step after which every worker carries what it carried.
LEMMA NothingTaken ==
    ASSUME RunInv, UNCHANGED <<ran, taken>>,
           \A w \in Workers : Carries(w)' => Carries(w) /\ value'[w] = value[w]
    PROVE  RunInv'
  BY DEF RunInv

------------------------------------------------------------------------------
LEMMA ClientSteps ==
    ASSUME Q!IInv, PoolInv, NEW p \in Clients, ClientPush(p)
    PROVE  PoolInv'
<1>1. /\ Q!Push(p) /\ p \in Clients \cup Workers /\ p \notin Workers
      /\ pc[p] = "idle" => arg'[p] \notin UsedTasks
      /\ UNCHANGED <<stop, wpc, continued, ran>>
      /\ submitted' = submitted \/ (submitted < MaxTasks /\ submitted' = submitted + 1)
  BY ClientsAssumption DEF ClientPush
<1>2. /\ value' = value /\ taken' = taken
      /\ \A w \in Workers : pc'[w] = pc[w] \/ (pc[w] = "waiting" /\ pc'[w] = "woken")
  BY <1>1, PushMoves
<1>3. PoolTypeOK'
  BY <1>1, BoundsAssumption DEF PoolInv, PoolTypeOK
<1>4. PlacesInv'
  BY <1>1, <1>2 DEF PoolInv, PlacesInv, Q!GetLabels, Q!PushLabels
<1>5. PushedInv'
  BY <1>1, PushedStep DEF PoolInv
<1>6. \A w \in Workers : Carries(w)' => Carries(w) /\ value'[w] = value[w]
  BY <1>1, <1>2 DEF Carries
<1>7. RunInv'
  BY <1>1, <1>2, <1>6, NothingTaken DEF PoolInv
<1> QED BY <1>3, <1>4, <1>5, <1>7 DEF PoolInv

LEMMA PushMoreStep ==
    ASSUME Q!IInv, PoolInv, NEW w \in Workers, PushMore(w)
    PROVE  PoolInv'
<1>1. /\ wpc[w] = "push" /\ Q!Push(w) /\ w \in Clients \cup Workers
      /\ pc[w] = "idle" => arg'[w] \notin UsedTasks
      /\ wpc' = [wpc EXCEPT ![w] = IF pc[w] = "broadcast" THEN "finish" ELSE "push"]
      /\ UNCHANGED <<stop, submitted, continued, ran>>
  BY DEF PushMore
<1>2. /\ value' = value /\ taken' = taken
      /\ pc[w] \in {"idle"} \cup Q!PushLabels
      /\ pc'[w] \in {"idle"} \cup Q!PushLabels
      /\ pc[w] = "broadcast" => pc'[w] = "idle"
      /\ \A u \in Workers : u # w => pc'[u] = pc[u] \/ (pc[u] = "waiting" /\ pc'[u] = "woken")
  BY <1>1, PushMoves
<1>3. /\ PoolTypeOK'
      /\ wpc'[w] = IF pc[w] = "broadcast" THEN "finish" ELSE "push"
      /\ \A u \in Workers : u # w => wpc'[u] = wpc[u]
  BY <1>1 DEF PoolInv, PoolTypeOK
<1>4. PlacesInv'
  BY <1>1, <1>2, <1>3 DEF PoolInv, PlacesInv, Q!GetLabels, Q!PushLabels
<1>5. PushedInv'
  BY <1>1, PushedStep DEF PoolInv
<1>6. \A u \in Workers : Carries(u)' => Carries(u) /\ value'[u] = value[u]
  BY <1>1, <1>2, <1>3 DEF Carries, Q!PushLabels
<1>7. RunInv'
  BY <1>1, <1>2, <1>6, NothingTaken DEF PoolInv
<1> QED BY <1>3, <1>4, <1>5, <1>7 DEF PoolInv

\* Steps of ThreadMain outside the queue that take nothing.
LEMMA LoopSteps ==
    ASSUME Q!IInv, PoolInv, NEW w \in Workers, Create(w) \/ TestStop(w) \/ Finish(w)
    PROVE  PoolInv'
<1>1. /\ wpc[w] \in {"none", "test", "finish"}
      /\ \E l \in {"test", "get", "end"} : wpc' = [wpc EXCEPT ![w] = l]
      /\ UNCHANGED <<queueVars, stop, submitted, continued, ran>>
  BY DEF Create, TestStop, Finish
<1>2. UNCHANGED <<pc, arg, value, pushed, taken>>
  BY <1>1 DEF queueVars
<1>3. /\ PoolTypeOK'
      /\ wpc'[w] \in {"test", "get", "end"}
      /\ \A u \in Workers : u # w => wpc'[u] = wpc[u]
  BY <1>1 DEF PoolInv, PoolTypeOK
<1>4. PlacesInv'
  BY <1>1, <1>2, <1>3 DEF PoolInv, PlacesInv
<1>5. PushedInv'
  BY <1>2 DEF PoolInv, PushedInv
<1>6. \A u \in Workers : Carries(u)' => Carries(u) /\ value'[u] = value[u]
  BY <1>2, <1>3 DEF Carries
<1>7. RunInv'
  BY <1>1, <1>2, <1>6, NothingTaken DEF PoolInv
<1> QED BY <1>3, <1>4, <1>5, <1>7 DEF PoolInv

\* Running the task in hand ends its being carried.
LEMMA RunTaskStep ==
    ASSUME Q!IInv, PoolInv, NEW w \in Workers, RunTask(w)
    PROVE  PoolInv'
<1>1. /\ wpc[w] = "run"
      /\ ran' = Append(ran, value[w])
      /\ \E l \in {"finish", "push"} : wpc' = [wpc EXCEPT ![w] = l]
      /\ continued' = continued \/ (continued < MaxMore /\ continued' = continued + 1)
      /\ UNCHANGED <<queueVars, stop, submitted>>
  BY DEF RunTask
<1>2. UNCHANGED <<pc, arg, value, pushed, taken>>
  BY <1>1 DEF queueVars
<1>3. /\ value[w] \in Tasks /\ value[w] # NoTask /\ Carries(w)
      /\ pc[w] \notin Q!GetLabels
  BY <1>1, QueueTypes DEF PoolInv, PlacesInv, Carries
<1>4. /\ ran \in Seq(Tasks) /\ Len(ran) \in Nat
      /\ ran' \in Seq(Tasks)
      /\ Len(ran') = Len(ran) + 1
      /\ \A k \in 1..Len(ran) : ran'[k] = ran[k]
      /\ ran'[Len(ran) + 1] = value[w]
      /\ \A k \in 1..Len(ran') : k \in 1..Len(ran) \/ k = Len(ran) + 1
  <2>1. ran \in Seq(Tasks) /\ Len(ran) \in Nat
    BY LenProperties DEF PoolInv, PoolTypeOK
  <2> QED BY <1>1, <1>3, <2>1, AppendProperties
<1>5. /\ wpc'[w] \in {"finish", "push"}
      /\ \A u \in Workers : u # w => wpc'[u] = wpc[u]
      /\ wpc' \in [Workers -> {"none", "test", "get", "run", "push", "finish", "end"}]
  BY <1>1 DEF PoolInv, PoolTypeOK
<1>6. PoolTypeOK'
  BY <1>1, <1>4, <1>5, BoundsAssumption DEF PoolInv, PoolTypeOK
<1>7. PlacesInv'
  BY <1>1, <1>2, <1>5 DEF PoolInv, PlacesInv
<1>8. PushedInv'
  BY <1>2 DEF PoolInv, PushedInv
<1>9. RunInv'
  <2>1. \A u \in Workers : Carries(u)' => u # w /\ Carries(u)
    BY <1>2, <1>3, <1>5 DEF Carries, Q!GetLabels
  <2>2. /\ \E l \in 1..Len(taken) : value[w] = taken[l]
        /\ \A k \in 1..Len(ran) : ran[k] # value[w]
        /\ \A u \in Workers : Carries(u) /\ u # w => value[u] # value[w]
    BY <1>3 DEF PoolInv, RunInv
  <2>3. \A k, l \in 1..Len(ran') : ran'[k] = ran'[l] => k = l
    BY <1>4, <2>2 DEF PoolInv, RunInv
  <2>4. \A k \in 1..Len(ran') : \E l \in 1..Len(taken) : ran'[k] = taken[l]
    BY <1>4, <2>2 DEF PoolInv, RunInv
  <2>5. \A u \in Workers : Carries(u)' => \A k \in 1..Len(ran') : ran'[k] # value[u]
    BY <1>4, <2>1, <2>2 DEF PoolInv, RunInv
  <2> QED BY <1>2, <2>1, <2>3, <2>4, <2>5 DEF PoolInv, RunInv
<1> QED BY <1>6, <1>7, <1>8, <1>9 DEF PoolInv

------------------------------------------------------------------------------
\* Where a step of Get(w) other than pop() leaves w: with a task in hand only
\* if it had it.
LEMMA GetMoves ==
    ASSUME Q!IInv, NEW w \in Workers, Q!Get(w) \/ Q!SpuriousWake(w), ~Q!Pop(w)
    PROVE  /\ taken' = taken /\ pushed' = pushed /\ arg' = arg
           /\ pc[w] \in {"idle"} \cup Q!GetLabels
           /\ pc'[w] \in {"idle"} \cup Q!GetLabels
           /\ \A u \in Clients \cup Workers : u # w => pc'[u] = pc[u]
           /\ \A u \in Workers : u # w => value'[u] = value[u]
           /\ pc[w] = "returning" => pc'[w] = "idle" /\ value'[w] = value[w]
           /\ pc'[w] = "returning" => value'[w] = NoTask
<1>1. /\ pc \in [Clients \cup Workers -> {"idle"} \cup Q!PushLabels \cup Q!GetLabels]
      /\ value \in [Workers -> Tasks \cup {NoTask}]
      /\ pc[w] \in {"check", "waiting", "woken", "front"} => value[w] = NoTask
  BY QueueTypes DEF Q!IInv, Q!FrontIsStable
<1> USE DEF Q!Goto, Q!GetLabels
<1>2. CASE Q!GetAcquire(w)
  BY <1>1, <1>2 DEF Q!GetAcquire
<1>3. CASE Q!CheckNonEmpty(w) \/ Q!Park(w) \/ Q!SpuriousWake(w) \/ Q!Relock(w)
  BY <1>1, <1>3 DEF Q!CheckNonEmpty, Q!Park, Q!SpuriousWake, Q!Relock
<1>4. CASE Q!WaitFails(w) \/ Q!FrontEmpty(w)
  BY <1>1, <1>4 DEF Q!WaitFails, Q!FrontEmpty
<1>5. CASE Q!ReadFront(w)
  BY <1>1, <1>5 DEF Q!ReadFront
<1>6. CASE Q!GetRelease(w)
  BY <1>1, <1>6 DEF Q!GetRelease
<1> QED BY <1>2, <1>3, <1>4, <1>5, <1>6 DEF Q!Get

\* pop() hands out a task that was not handed out before.
LEMMA PopStep ==
    ASSUME Q!IInv, PoolInv, NEW w \in Workers, Q!Pop(w), wpc[w] = "get", wpc' = wpc,
           ran' = ran
    PROVE  PlacesInv' /\ PushedInv' /\ RunInv'
<1>1. /\ pc[w] = "pop" /\ pc' = [pc EXCEPT ![w] = "returning"]
      /\ taken' = Append(taken, value[w])
      /\ UNCHANGED <<arg, value, pushed>>
  BY DEF Q!Pop, Q!Goto
<1>2. queue # <<>> /\ value[w] = Head(queue)
  BY <1>1 DEF Q!IInv, Q!FrontIsStable
<1>3. /\ Len(taken) \in Nat /\ taken \in Seq(Tasks) /\ pushed \in Seq(Tasks)
      /\ Len(pushed) \in Nat
      /\ \A k \in 1..Len(taken) : k \in 1..Len(pushed) /\ taken[k] = pushed[k]
      /\ Len(taken) + 1 \in 1..Len(pushed) /\ value[w] = pushed[Len(taken) + 1]
      /\ pc \in [Clients \cup Workers -> {"idle"} \cup Q!PushLabels \cup Q!GetLabels]
  BY <1>2, QueueTypes, TakenArePushed
<1>4. value[w] \in Tasks
  BY <1>3, ElementOfSeq
<1>5. /\ Len(taken') = Len(taken) + 1
      /\ \A k \in 1..Len(taken) : k \in 1..Len(taken') /\ taken'[k] = taken[k]
      /\ Len(taken) + 1 \in 1..Len(taken') /\ taken'[Len(taken) + 1] = value[w]
  BY <1>1, <1>3, <1>4, AppendProperties
<1>6. \A k \in 1..Len(taken) : taken[k] # value[w]
  <2> SUFFICES ASSUME NEW k \in 1..Len(taken), taken[k] = value[w] PROVE FALSE
    OBVIOUS
  <2>1. k = Len(taken) + 1
    BY <1>3 DEF PoolInv, PushedInv
  <2> QED BY <1>3, <2>1
<1>7. /\ \A u \in Clients \cup Workers : u # w => pc'[u] = pc[u]
      /\ pc'[w] = "returning"
  BY <1>1, <1>3
<1>8. PlacesInv'
  BY <1>1, <1>7 DEF PoolInv, PlacesInv, Q!GetLabels, Q!PushLabels
<1>9. PushedInv'
  BY <1>1, <1>7 DEF PoolInv, PushedInv
<1>10. \A u \in Workers : Carries(u)' /\ u # w => Carries(u)
  BY <1>1, <1>7 DEF Carries
<1>11. RunInv'
  <2>1. \A k \in 1..Len(ran) : \E l \in 1..Len(taken') : ran[k] = taken'[l]
    BY <1>5 DEF PoolInv, RunInv
  <2>2. \A k \in 1..Len(ran) : ran[k] # value[w]
    BY <1>6 DEF PoolInv, RunInv
  <2>3. \A u \in Workers : Carries(u) => value[u] # value[w]
    BY <1>6 DEF PoolInv, RunInv
  <2>4. ASSUME NEW u \in Workers, Carries(u)'
        PROVE  /\ \E l \in 1..Len(taken') : value[u] = taken'[l]
               /\ \A k \in 1..Len(ran) : ran[k] # value[u]
    <3>1. CASE u = w
      BY <1>5, <2>2, <3>1
    <3>2. CASE u # w
      BY <1>5, <1>10, <2>4, <3>2 DEF PoolInv, RunInv
    <3> QED BY <3>1, <3>2
  <2>5. \A u, v \in Workers : Carries(u)' /\ Carries(v)' /\ value[u] = value[v] => u = v
    BY <1>10, <2>3 DEF PoolInv, RunInv
  <2>6. \A k, l \in 1..Len(ran) : ran[k] = ran[l] => k = l
    BY DEF PoolInv, RunInv
  <2> QED BY <1>1, <2>1, <2>4, <2>5, <2>6 DEF RunInv
<1> QED BY <1>8, <1>9, <1>11

LEMMA GetTaskStep ==
    ASSUME Q!IInv, PoolInv, NEW w \in Workers, GetTask(w)
    PROVE  PoolInv'
<1>1. /\ wpc[w] = "get" /\ Q!Get(w)
      /\ wpc' = [wpc EXCEPT ![w] = IF pc[w] = "returning" THEN AfterGet(w) ELSE "get"]
      /\ UNCHANGED <<stop, submitted, continued, ran>>
      /\ wpc \in [Workers -> {"none", "test", "get", "run", "push", "finish", "end"}]
  BY DEF GetTask, PoolInv, PoolTypeOK
<1>2. /\ wpc'[w] = IF pc[w] = "returning" THEN AfterGet(w) ELSE "get"
      /\ \A u \in Workers : u # w => wpc'[u] = wpc[u]
  BY <1>1
<1>3. PoolTypeOK'
  BY <1>1 DEF PoolInv, PoolTypeOK, AfterGet
<1>4. CASE Q!Pop(w)
  <2>1. wpc' = wpc
    BY <1>1, <1>4 DEF Q!Pop
  <2> QED BY <1>1, <1>3, <1>4, <2>1, PopStep DEF PoolInv
<1>5. CASE ~Q!Pop(w)
  <2>1. /\ taken' = taken /\ pushed' = pushed /\ arg' = arg
        /\ pc[w] \in {"idle"} \cup Q!GetLabels
        /\ pc'[w] \in {"idle"} \cup Q!GetLabels
        /\ \A u \in Clients \cup Workers : u # w => pc'[u] = pc[u]
        /\ \A u \in Workers : u # w => value'[u] = value[u]
        /\ pc[w] = "returning" => pc'[w] = "idle" /\ value'[w] = value[w]
        /\ pc'[w] = "returning" => value'[w] = NoTask
    BY <1>1, <1>5, GetMoves
  <2>2. PlacesInv'
    BY <1>2, <2>1 DEF PoolInv, PlacesInv, AfterGet, Q!GetLabels, Q!PushLabels
  <2>3. PushedInv'
    <3>1. \A u \in Clients \cup Workers : pc'[u] = "push" => pc[u] = "push"
      BY <2>1 DEF Q!GetLabels
    <3> QED BY <2>1, <3>1 DEF PoolInv, PushedInv
  <2>4. \A u \in Workers : Carries(u)' => Carries(u) /\ value'[u] = value[u]
    BY <1>2, <2>1 DEF Carries, AfterGet
  <2>5. RunInv'
    BY <1>1, <2>1, <2>4, NothingTaken DEF PoolInv
  <2> QED BY <1>3, <2>2, <2>3, <2>5 DEF PoolInv
<1> QED BY <1>4, <1>5

LEMMA SpuriousWakeStep ==
    ASSUME Q!IInv, PoolInv, NEW w \in Workers, SpuriousWake(w)
    PROVE  PoolInv'
<1>1. /\ Q!SpuriousWake(w) /\ pc[w] = "waiting" /\ pc' = [pc EXCEPT ![w] = "woken"]
      /\ UNCHANGED <<arg, value, pushed, taken, stop, wpc, submitted, continued, ran>>
  BY DEF SpuriousWake, Q!SpuriousWake, Q!Goto
<1>2. /\ pc'[w] = "woken"
      /\ \A u \in Clients \cup Workers : u # w => pc'[u] = pc[u]
  BY <1>1, QueueTypes
<1>3. PoolTypeOK'
  BY <1>1 DEF PoolInv, PoolTypeOK
<1>4. PlacesInv'
  BY <1>1, <1>2 DEF PoolInv, PlacesInv, Q!GetLabels, Q!PushLabels
<1>5. PushedInv'
  BY <1>1, <1>2 DEF PoolInv, PushedInv
<1>6. \A u \in Workers : Carries(u)' => Carries(u) /\ value'[u] = value[u]
  BY <1>1, <1>2 DEF Carries
<1>7. RunInv'
  BY <1>1, <1>6, NothingTaken DEF PoolInv
<1> QED BY <1>3, <1>4, <1>5, <1>7 DEF PoolInv

------------------------------------------------------------------------------
\* No task that ran is carried again, and what ran was pushed.
LEMMA RanOnce == Q!IInv /\ PoolInv => TaskRunsOnce
  BY TakenArePushed DEF PoolInv, RunInv, TaskRunsOnce

(* What IInv of the queue and PoolInv say holds in every reachable state of
   helper/thread_pool.cpp. *)
THEOREM Invariance == Spec => [](Q!IInv /\ PoolInv)
<1>1. Q!IInv /\ PoolInv /\ [Next]_vars => PoolInv'
  <2> SUFFICES ASSUME Q!IInv, PoolInv, [Next]_vars PROVE PoolInv'
    OBVIOUS
  <2>1. ASSUME NEW p \in Clients, ClientPush(p) PROVE PoolInv'
    BY <2>1, ClientSteps
  <2>2. ASSUME NEW w \in Workers, Create(w) \/ ThreadMain(w) \/ SpuriousWake(w)
        PROVE  PoolInv'
    BY <2>2, LoopSteps, GetTaskStep, RunTaskStep, PushMoreStep, SpuriousWakeStep
    DEF ThreadMain
  <2>3. ASSUME UNCHANGED <<queueVars, wpc, submitted, continued, ran>>, stop' \in BOOLEAN
        PROVE  PoolInv'
    <3>1. UNCHANGED <<pc, arg, value, pushed, taken, wpc, submitted, continued, ran>>
      BY <2>3 DEF queueVars
    <3>2. PoolTypeOK' /\ PlacesInv' /\ PushedInv'
      BY <2>3, <3>1 DEF PoolInv, PoolTypeOK, PlacesInv, PushedInv
    <3>3. RunInv'
      BY <3>1 DEF PoolInv, RunInv, Carries
    <3> QED BY <3>2, <3>3 DEF PoolInv
  <2>4. CASE Stop
    BY <2>3, <2>4 DEF Stop
  <2>5. CASE UNCHANGED vars
    BY <2>3, <2>5 DEF vars, PoolInv, PoolTypeOK
  <2> QED BY <2>1, <2>2, <2>4, <2>5 DEF Next
<1> QED BY InitPool, <1>1, QueueInvariant, PTL DEF Spec

(* The state of the pool and of its queue is always well typed. *)
THEOREM TypeCorrect == Spec => []TypeOK
<1>1. Q!IInv /\ PoolInv => TypeOK
  BY DEF Q!IInv, PoolInv, PoolTypeOK, TypeOK
<1> QED BY Invariance, <1>1, PTL

(* For any number of clients and workers, wherever Stop meets them: ThreadMain
   runs no task twice and none that was not pushed. *)
THEOREM RunsOnce == Spec => []TaskRunsOnce
  BY Invariance, RanOnce, PTL

------------------------------------------------------------------------------
\* The other half of TaskRunsOnce: what was pushed is not lost on its way.

\* What was taken was run or is with a worker.
Kept ==
    \A l \in 1..Len(taken) :
        \/ \E k \in 1..Len(ran) : ran[k] = taken[l]
        \/ \E w \in Workers : Carries(w) /\ value[w] = taken[l]

\* A task that was pushed was run, is with a worker or is still queued.
NoTaskLost ==
    \A l \in 1..Len(pushed) :
        \/ \E k \in 1..Len(ran) : ran[k] = pushed[l]
        \/ \E w \in Workers : Carries(w) /\ value[w] = pushed[l]
        \/ \E k \in 1..Len(queue) : queue[k] = pushed[l]

\* A worker that has ended is not inside the queue, does not hold its mutex and
\* takes no task with it.
EndsEmptyHanded ==
    \A w \in Workers : wpc[w] = "end" => pc[w] = "idle" /\ owner # w /\ ~Carries(w)

\* A step after which every worker that carried a task still carries it.
LEMMA NothingDropped ==
    ASSUME Kept, UNCHANGED <<ran, taken>>,
           \A w \in Workers : Carries(w) => Carries(w)' /\ value'[w] = value[w]
    PROVE  Kept'
  BY DEF Kept

LEMMA KeptByRun ==
    ASSUME Q!IInv, PoolInv, Kept, NEW w \in Workers, RunTask(w)
    PROVE  Kept'
<1>1. /\ ran' = Append(ran, value[w]) /\ wpc[w] = "run"
      /\ \E l \in {"finish", "push"} : wpc' = [wpc EXCEPT ![w] = l]
      /\ UNCHANGED <<pc, value, taken>>
  BY DEF RunTask, queueVars
<1>2. value[w] \in Tasks
  BY <1>1, QueueTypes DEF PoolInv, PlacesInv
<1>3. /\ ran \in Seq(Tasks) /\ Len(ran) \in Nat
      /\ Len(ran') = Len(ran) + 1
      /\ \A k \in 1..Len(ran) : ran'[k] = ran[k]
      /\ ran'[Len(ran) + 1] = value[w]
  <2>1. ran \in Seq(Tasks) /\ Len(ran) \in Nat
    BY LenProperties DEF PoolInv, PoolTypeOK
  <2> QED BY <1>1, <1>2, <2>1, AppendProperties
<1>4. /\ Len(ran) + 1 \in 1..Len(ran')
      /\ \A k \in 1..Len(ran) : k \in 1..Len(ran')
  BY <1>3
<1>5. \A u \in Workers : u # w /\ Carries(u) => Carries(u)'
  BY <1>1 DEF PoolInv, PoolTypeOK, Carries
<1> SUFFICES ASSUME NEW l \in 1..Len(taken)
             PROVE  \/ \E k \in 1..Len(ran') : ran'[k] = taken[l]
                    \/ \E u \in Workers : Carries(u)' /\ value[u] = taken[l]
  BY <1>1 DEF Kept
<1>6. CASE \E k \in 1..Len(ran) : ran[k] = taken[l]
  BY <1>3, <1>4, <1>6
<1>7. CASE value[w] = taken[l]
  BY <1>3, <1>4, <1>7
<1>8. CASE \E u \in Workers : u # w /\ Carries(u) /\ value[u] = taken[l]
  BY <1>5, <1>8
<1> QED BY <1>6, <1>7, <1>8 DEF Kept

LEMMA KeptByPop ==
    ASSUME Q!IInv, Kept, NEW w \in Workers, Q!Pop(w), wpc' = wpc, ran' = ran
    PROVE  Kept'
<1>1. /\ pc[w] = "pop" /\ pc' = [pc EXCEPT ![w] = "returning"]
      /\ taken' = Append(taken, value[w]) /\ value' = value
  BY DEF Q!Pop, Q!Goto
<1>2. queue # <<>> /\ value[w] = Head(queue)
  BY <1>1 DEF Q!IInv, Q!FrontIsStable
<1>3. /\ taken \in Seq(Tasks) /\ Len(taken) \in Nat
      /\ value[w] \in Tasks /\ value[w] # NoTask
      /\ pc \in [Clients \cup Workers -> {"idle"} \cup Q!PushLabels \cup Q!GetLabels]
  <2>1. queue \in Seq(Tasks) /\ value[w] \in Tasks
    BY <1>2, QueueTypes, HeadTailProperties
  <2> QED BY <2>1, QueueTypes, NoTaskAssumption
<1>4. /\ Len(taken') = Len(taken) + 1
      /\ \A k \in 1..Len(taken) : taken'[k] = taken[k]
      /\ taken'[Len(taken) + 1] = value[w]
  BY <1>1, <1>3, AppendProperties
<1>5. \A u \in Workers : Carries(u) => Carries(u)'
  BY <1>1, <1>3 DEF Carries
<1>6. Carries(w)'
  BY <1>1, <1>3 DEF Carries
<1> SUFFICES ASSUME NEW l \in 1..Len(taken')
             PROVE  \/ \E k \in 1..Len(ran) : ran[k] = taken'[l]
                    \/ \E u \in Workers : Carries(u)' /\ value[u] = taken'[l]
  BY <1>1 DEF Kept
<1>7. CASE l = Len(taken) + 1
  BY <1>4, <1>6, <1>7
<1>8. CASE l \in 1..Len(taken)
  BY <1>4, <1>5, <1>8 DEF Kept
<1> QED BY <1>3, <1>4, <1>7, <1>8

LEMMA KeptByGet ==
    ASSUME Q!IInv, PoolInv, Kept, NEW w \in Workers, GetTask(w)
    PROVE  Kept'
<1>1. /\ wpc[w] = "get" /\ Q!Get(w) /\ ran' = ran
      /\ wpc' = [wpc EXCEPT ![w] = IF pc[w] = "returning" THEN AfterGet(w) ELSE "get"]
      /\ wpc \in [Workers -> {"none", "test", "get", "run", "push", "finish", "end"}]
  BY DEF GetTask, PoolInv, PoolTypeOK
<1>2. CASE Q!Pop(w)
  <2>1. wpc' = wpc
    BY <1>1, <1>2 DEF Q!Pop
  <2> QED BY <1>1, <1>2, <2>1, KeptByPop
<1>3. CASE ~Q!Pop(w)
  <2>1. /\ taken' = taken
        /\ \A u \in Workers : u # w => pc'[u] = pc[u] /\ value'[u] = value[u]
        /\ pc[w] = "returning" => value'[w] = value[w]
    BY <1>1, <1>3, GetMoves
  <2>2. Carries(w) => pc[w] = "returning" /\ value[w] # NoTask
    BY <1>1 DEF Carries
  <2>3. Carries(w) => Carries(w)' /\ value'[w] = value[w]
    BY <1>1, <2>1, <2>2 DEF Carries, AfterGet
  <2>4. \A u \in Workers : u # w /\ Carries(u) => Carries(u)' /\ value'[u] = value[u]
    BY <1>1, <2>1 DEF Carries
  <2> QED BY <1>1, <2>1, <2>3, <2>4, NothingDropped
<1> QED BY <1>2, <1>3

\* Pushing and the loop of ThreadMain move no task.
LEMMA KeptByOthers ==
    ASSUME Q!IInv, PoolInv, Kept,
           \/ \E p \in Clients : ClientPush(p)
           \/ \E w \in Workers : \/ Create(w) \/ TestStop(w) \/ Finish(w)
                                  \/ PushMore(w) \/ SpuriousWake(w)
           \/ Stop
           \/ UNCHANGED vars
    PROVE  Kept'
<1>0. wpc \in [Workers -> {"none", "test", "get", "run", "push", "finish", "end"}]
  BY DEF PoolInv, PoolTypeOK
<1>1. ASSUME NEW p \in Clients, ClientPush(p) PROVE Kept'
  <2>1. /\ Q!Push(p) /\ p \in Clients \cup Workers /\ UNCHANGED <<wpc, ran>> /\ p \notin Workers
    BY <1>1, ClientsAssumption DEF ClientPush
  <2>2. /\ value' = value /\ taken' = taken
        /\ \A w \in Workers : pc'[w] = pc[w] \/ (pc[w] = "waiting" /\ pc'[w] = "woken")
    BY <2>1, PushMoves
  <2> QED BY <2>1, <2>2, NothingDropped DEF Carries
<1>2. ASSUME NEW w \in Workers, PushMore(w) PROVE Kept'
  <2>1. /\ Q!Push(w) /\ w \in Clients \cup Workers /\ wpc[w] = "push" /\ ran' = ran
        /\ \A u \in Workers : u # w => wpc'[u] = wpc[u]
    BY <1>0, <1>2 DEF PushMore
  <2>2. /\ value' = value /\ taken' = taken
        /\ pc[w] \in {"idle"} \cup Q!PushLabels
        /\ \A u \in Workers : u # w => pc'[u] = pc[u] \/ (pc[u] = "waiting" /\ pc'[u] = "woken")
    BY <2>1, PushMoves
  <2>3. ~Carries(w)
    BY <2>1, <2>2 DEF Carries, Q!PushLabels
  <2> QED BY <2>1, <2>2, <2>3, NothingDropped DEF Carries
<1>3. ASSUME NEW w \in Workers, Create(w) \/ TestStop(w) \/ Finish(w) PROVE Kept'
  <2>1. /\ wpc[w] \in {"none", "test", "finish"}
        /\ \A u \in Workers : u # w => wpc'[u] = wpc[u]
        /\ UNCHANGED <<pc, value, taken, ran>>
    BY <1>0, <1>3 DEF Create, TestStop, Finish, queueVars
  <2>2. \A u \in Workers : Carries(u) => Carries(u)' /\ value'[u] = value[u]
    BY <2>1 DEF Carries
  <2> QED BY <2>1, <2>2, NothingDropped
<1>4. ASSUME NEW w \in Workers, SpuriousWake(w) PROVE Kept'
  <2>1. /\ pc[w] = "waiting" /\ \A u \in Workers : u # w => pc'[u] = pc[u]
        /\ UNCHANGED <<value, taken, ran, wpc>>
    BY <1>4, QueueTypes DEF SpuriousWake, Q!SpuriousWake, Q!Goto
  <2>2. \A u \in Workers : Carries(u) => Carries(u)' /\ value'[u] = value[u]
    BY <2>1 DEF Carries
  <2> QED BY <2>1, <2>2, NothingDropped
<1>5. CASE Stop \/ UNCHANGED vars
  BY <1>5, NothingDropped DEF Stop, vars, queueVars, Carries
<1> QED BY <1>1, <1>2, <1>3, <1>4, <1>5

\* What is behind the taken ones among the pushed is queued.
LEMMA KeptIsEnough == Q!IInv /\ Kept => NoTaskLost
<1> SUFFICES ASSUME Q!IInv, Kept, NEW l \in 1..Len(pushed)
             PROVE  \/ \E k \in 1..Len(ran) : ran[k] = pushed[l]
                    \/ \E w \in Workers : Carries(w) /\ value[w] = pushed[l]
                    \/ \E k \in 1..Len(queue) : queue[k] = pushed[l]
  BY DEF NoTaskLost
<1>1. /\ queue \in Seq(Tasks) /\ taken \in Seq(Tasks)
      /\ Len(queue) \in Nat /\ Len(taken) \in Nat
      /\ taken \o queue = pushed
  BY QueueTypes DEF Q!IInv, Q!FifoDelivery
<1>2. /\ Len(pushed) = Len(taken) + Len(queue)
      /\ \A k \in 1..Len(pushed) :
            pushed[k] = IF k <= Len(taken) THEN taken[k] ELSE queue[k - Len(taken)]
  <2>1. /\ Len(taken \o queue) = Len(taken) + Len(queue)
        /\ \A k \in 1..Len(taken) + Len(queue) :
              (taken \o queue)[k] = IF k <= Len(taken) THEN taken[k] ELSE queue[k - Len(taken)]
    BY <1>1, ConcatProperties
  <2> QED BY <1>1, <2>1
<1>3. CASE l <= Len(taken)
  <2>1. l \in 1..Len(taken) /\ pushed[l] = taken[l]
    BY <1>1, <1>2, <1>3
  <2> QED BY <2>1 DEF Kept
<1>4. CASE ~(l <= Len(taken))
  <2>1. l - Len(taken) \in 1..Len(queue) /\ pushed[l] = queue[l - Len(taken)]
    BY <1>1, <1>2, <1>4
  <2> QED BY <2>1
<1> QED BY <1>3, <1>4

(* Whatever Stop interrupts, a task that Push has accepted is run, with a worker
   that will run it before it looks at stop_ again, or left in the queue: the
   pool drops none (ThreadPool::ThreadMain, thread_pool.cpp). *)
THEOREM NoneLost == Spec => []NoTaskLost
<1>1. Init => Kept
  BY EmptySeq DEF Init, Q!Init, Kept
<1>2. Q!IInv /\ PoolInv /\ Kept /\ [Next]_vars => Kept'
  BY KeptByRun, KeptByGet, KeptByOthers DEF Next, ThreadMain
<1> QED BY <1>1, <1>2, Invariance, KeptIsEnough, PTL DEF Spec

(* stop_ ends no worker inside the queue, with its mutex or with a task that
   was taken and not run: a worker reads it between two tasks only
   (ThreadPool::ThreadMain, thread_pool.cpp). *)
THEOREM WorkersEndEmptyHanded == Spec => []EndsEmptyHanded
<1>1. ASSUME Q!IInv, PoolInv PROVE EndsEmptyHanded
  <2> SUFFICES ASSUME NEW w \in Workers, wpc[w] = "end"
               PROVE  pc[w] = "idle" /\ owner # w /\ ~Carries(w)
    BY DEF EndsEmptyHanded
  <2>1. pc[w] = "idle"
    BY <1>1, QueueTypes DEF PoolInv, PlacesInv
  <2>2. owner # w
    BY <1>1, <2>1 DEF Q!IInv, Q!MutualExclusion, Q!Holding, Q!Threads
  <2> QED BY <2>1, <2>2 DEF Carries
<1> QED BY <1>1, Invariance, PTL

(* qlist_ is linearizable in the pool as well: a worker that pushes a
   continuation inside Run is a producer of the queue it consumes, and the pool
   still sees the atomic queue (thread_pool.cpp, task_queue_posix.h). *)
THEOREM PoolQueueIsAtomic == Spec => QProofs!Linearizable
<1>1. /\ NoTask \notin Tasks
      /\ NoThread \notin (Clients \cup Workers) \cup Workers
      /\ MaxTasks + MaxMore \in Nat
  BY NoTaskAssumption, NoThreadAssumption, BoundsAssumption
<1>2. QProofs!Spec => QProofs!Linearizable
  BY <1>1, QProofs!ImplementsFifo
<1> QED BY <1>2, UsesTheQueue, SameQueue, PTL DEF Q!Spec, QProofs!Spec
==============================================================================
