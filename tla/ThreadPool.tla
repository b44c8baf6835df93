----------------------------- MODULE ThreadPool ------------------------------
(***************************************************************************)
(* ThreadPool (helper/thread_pool.cpp): workers that take tasks from a      *)
(* TaskQueue, run and finish them, and stop when they see stop_.  The queue *)
(* is the detailed one, step by step, so that a worker can be anywhere in   *)
(* Get when Stop is called.  Running a task may push its continuation       *)
(* (Owner()->Push in http_server.cpp), which makes the worker a producer.   *)
(***************************************************************************)
EXTENDS Naturals, Sequences

CONSTANTS Clients,     \* the threads outside the pool that push tasks
          Workers,     \* the threads of the pool
          Tasks,       \* Task objects, each pushed once
          NoTask, NoThread,
          MaxTasks,    \* bound: tasks pushed by clients
          MaxMore      \* bound: continuations pushed by workers

ASSUME NoTaskAssumption == NoTask \notin Tasks
ASSUME NoThreadAssumption == NoThread \notin Clients \cup Workers
ASSUME ClientsAssumption == Clients \cap Workers = {}
ASSUME BoundsAssumption == MaxTasks \in Nat /\ MaxMore \in Nat

VARIABLES queue, owner, pc, arg, value, pushed, taken,   \* of TaskQueue
          stop,        \* stop_
          wpc,         \* where each worker is in ThreadMain
          submitted, continued,   \* counters of the bounded events
          ran          \* history: the tasks run, in order

Q == INSTANCE TaskQueue WITH Producers <- Clients \cup Workers,
                             Consumers <- Workers,
                             Values <- Tasks,
                             MaxPush <- MaxTasks + MaxMore

queueVars == <<queue, owner, pc, arg, value, pushed, taken>>
vars == <<queueVars, stop, wpc, submitted, continued, ran>>

Init == /\ Q!Init
        /\ stop = FALSE
        /\ wpc = [w \in Workers |-> "none"]
        /\ submitted = 0
        /\ continued = 0
        /\ ran = <<>>

\* Task objects that exist or have existed: the next one is another.
UsedTasks == {pushed[k] : k \in 1..Len(pushed)} \cup {arg[u] : u \in DOMAIN arg}

\* Push(task) by a thread outside the pool; the first step builds the task.
ClientPush(p) ==
    /\ \/ /\ pc[p] = "idle"
          /\ submitted < MaxTasks
          /\ submitted' = submitted + 1
          /\ Q!Push(p)
          /\ arg'[p] \notin UsedTasks
       \/ /\ pc[p] # "idle"
          /\ Q!Push(p)
          /\ UNCHANGED submitted
    /\ UNCHANGED <<stop, wpc, continued, ran>>

\* One turn of Create(size), which has set stop_ to false: a thread starts.
\* Nobody stops the pool before Create has returned.
Create(w) ==
    /\ wpc[w] = "none"
    /\ wpc' = [wpc EXCEPT ![w] = "test"]
    /\ UNCHANGED <<queueVars, stop, submitted, continued, ran>>

Stop ==
    /\ ~stop
    /\ \A w \in Workers : wpc[w] # "none"
    /\ stop' = TRUE
    /\ UNCHANGED <<queueVars, wpc, submitted, continued, ran>>

\* while (!stop_)
TestStop(w) ==
    /\ wpc[w] = "test"
    /\ wpc' = [wpc EXCEPT ![w] = IF stop THEN "end" ELSE "get"]
    /\ UNCHANGED <<queueVars, stop, submitted, continued, ran>>

\* if (qlist_.Get(task))
AfterGet(w) == IF value[w] = NoTask THEN "test" ELSE "run"

\* A step of qlist_.Get(task); its last one tells whether there is a task.
GetTask(w) ==
    /\ wpc[w] = "get"
    /\ Q!Get(w)
    /\ wpc' = [wpc EXCEPT ![w] = IF pc[w] = "returning" THEN AfterGet(w) ELSE "get"]
    /\ UNCHANGED <<stop, submitted, continued, ran>>

\* POSIX again, seen from the pool.
SpuriousWake(w) ==
    /\ Q!SpuriousWake(w)
    /\ UNCHANGED <<stop, wpc, submitted, continued, ran>>

\* task->Run()
RunTask(w) ==
    /\ wpc[w] = "run"
    /\ ran' = Append(ran, value[w])
    /\ \/ /\ wpc' = [wpc EXCEPT ![w] = "finish"]
          /\ UNCHANGED continued
       \/ /\ continued < MaxMore
          /\ continued' = continued + 1
          /\ wpc' = [wpc EXCEPT ![w] = "push"]
    /\ UNCHANGED <<queueVars, stop, submitted>>

\* A step of Owner()->Push(nxt) inside Run().
PushMore(w) ==
    /\ wpc[w] = "push"
    /\ Q!Push(w)
    /\ pc[w] = "idle" => arg'[w] \notin UsedTasks
    /\ wpc' = [wpc EXCEPT ![w] = IF pc[w] = "broadcast" THEN "finish" ELSE "push"]
    /\ UNCHANGED <<stop, submitted, continued, ran>>

\* The worker ends with its task.
FinishAndExit(w) ==
    /\ wpc[w] = "finish"
    /\ wpc' = [wpc EXCEPT ![w] = "end"]
    /\ UNCHANGED <<queueVars, stop, submitted, continued, ran>>

\* task->Finish()
Finish(w) ==
    /\ wpc[w] = "finish"
    /\ wpc' = [wpc EXCEPT ![w] = "test"]
    /\ UNCHANGED <<queueVars, stop, submitted, continued, ran>>

ThreadMain(w) == \/ TestStop(w) \/ GetTask(w) \/ RunTask(w) \/ PushMore(w) \/ Finish(w)

Next == \/ \E p \in Clients : ClientPush(p)
        \/ \E w \in Workers : Create(w) \/ ThreadMain(w) \/ SpuriousWake(w)
        \/ Stop

Spec == Init /\ [][Next]_vars

\* The threads keep running; nobody has to push, to stop the pool, or to wake
\* a worker for nothing.
Fairness == /\ \A p \in Clients : WF_vars(pc[p] # "idle" /\ ClientPush(p))
            /\ \A w \in Workers : WF_vars(Create(w)) /\ WF_vars(ThreadMain(w))

FairSpec == Spec /\ Fairness

------------------------------------------------------------------------------
TypeOK == /\ Q!TypeOK
          /\ stop \in BOOLEAN
          /\ wpc \in [Workers -> {"none", "test", "get", "run", "push", "finish", "end"}]
          /\ submitted \in 0..MaxTasks
          /\ continued \in 0..MaxMore
          /\ ran \in Seq(Tasks)

(* Finish deletes the task: no task is run by two workers or twice by one,
   and none runs that was not pushed. *)
TaskRunsOnce ==
    /\ \A k, l \in 1..Len(ran) : ran[k] = ran[l] => k = l
    /\ \A k \in 1..Len(ran) : \E l \in 1..Len(pushed) : ran[k] = pushed[l]

(* Unless the pool is stopped every pushed task, a continuation pushed by a
   worker as well, is run. *)
EveryTaskRuns ==
    [](~stop) => \A n \in 1..(MaxTasks + MaxMore) : Len(pushed) >= n ~> Len(ran) >= n
==============================================================================
