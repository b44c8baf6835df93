------------------------------ MODULE TaskQueue ------------------------------
(***************************************************************************)
(* TaskQueue<_Type> of helper/task_queue_posix.h with the mutex and the    *)
(* condition variable of WaitableImplPosix under it.  Push and Get are     *)
(* split at every point where another thread can run: taking the mutex,    *)
(* parking in pthread_cond_wait, reading front(), pop(), releasing, and    *)
(* the Broadcast that Push issues after it has released the mutex.         *)
(*                                                                         *)
(* A thread may be a producer, a consumer or both: a worker of the pool    *)
(* takes a task and pushes the task that continues it.                     *)
(***************************************************************************)
EXTENDS Naturals, Sequences

CONSTANTS Producers,   \* the threads that call Push
          Consumers,   \* the threads that call Get, over and over
          Values,      \* the queued pointers
          NoTask,      \* NULL, the value a caller hands to Get by reference
          NoThread,    \* the owner of a free mutex
          MaxPush      \* bound: how many pushes a behaviour makes

ASSUME NoTaskAssumption == NoTask \notin Values
ASSUME NoThreadAssumption == NoThread \notin Producers \cup Consumers
ASSUME MaxPushAssumption == MaxPush \in Nat

Threads == Producers \cup Consumers

VARIABLES queue,       \* queue_
          owner,       \* the thread that holds the mutex of qlock_
          pc,          \* where each thread is
          arg,         \* arg[p]: what p is pushing
          value,       \* value[c]: the out parameter of c's Get
          pushed,      \* history: everything pushed, in order
          taken        \* history: everything handed out, in order

vars == <<queue, owner, pc, arg, value, pushed, taken>>

PushLabels == {"push", "pushed", "broadcast"}
GetLabels  == {"check", "waiting", "woken", "front", "pop", "returning"}

\* The labels at which a thread is inside the critical section of qlock_.
Holding == {"push", "pushed", "check", "front", "pop", "returning"}

Init == /\ queue = <<>>
        /\ owner = NoThread
        /\ pc = [t \in Threads |-> "idle"]
        /\ arg = [p \in Producers |-> NoTask]
        /\ value = [c \in Consumers |-> NoTask]
        /\ pushed = <<>>
        /\ taken = <<>>

Goto(t, label) == pc' = [pc EXCEPT ![t] = label]

\* lock_impl_posix: pthread_mutex_lock returns to t.
Acquire(t) == /\ owner = NoThread
              /\ owner' = t

Release(t) == owner' = NoThread

------------------------------------------------------------------------------
\* Push(value)

PushAcquire(p) ==
    /\ pc[p] = "idle"
    /\ Len(pushed) < MaxPush
    /\ Acquire(p)
    /\ \E v \in Values : arg' = [arg EXCEPT ![p] = v]
    /\ Goto(p, "push")
    /\ UNCHANGED <<queue, value, pushed, taken>>

PushEnqueue(p) ==
    /\ pc[p] = "push"
    /\ queue' = Append(queue, arg[p])
    /\ pushed' = Append(pushed, arg[p])
    /\ Goto(p, "pushed")
    /\ UNCHANGED <<owner, arg, value, taken>>

PushRelease(p) ==
    /\ pc[p] = "pushed"
    /\ Release(p)
    /\ Goto(p, "broadcast")
    /\ UNCHANGED <<queue, arg, value, pushed, taken>>

Parked == {c \in Consumers : pc[c] = "waiting"}

\* pthread_cond_signal, which would not do here, wakes one parked thread.
SignalWakes == IF Parked = {} THEN {} ELSE {CHOOSE c \in Parked : TRUE}

\* A Push that leaves the call out wakes none.
WakesNobody == {}

\* pthread_cond_broadcast wakes all of them.
BroadcastWakes == Parked

\* The woken threads go on to compete for the mutex.
PushBroadcast(p) ==
    /\ pc[p] = "broadcast"
    /\ pc' = [t \in Threads |-> IF t = p THEN "idle"
                                ELSE IF t \in BroadcastWakes THEN "woken"
                                ELSE pc[t]]
    /\ UNCHANGED <<queue, owner, arg, value, pushed, taken>>

------------------------------------------------------------------------------
\* Get(value) and the Wait(-1, this) it begins with

\* The caller's pointer declared outside its loop: NULL only the first time.
GetAcquireKeeps(c) ==
    /\ pc[c] = "idle"
    /\ Acquire(c)
    /\ Goto(c, "check")
    /\ UNCHANGED <<queue, arg, value, pushed, taken>>

GetAcquire(c) ==
    /\ pc[c] = "idle"
    /\ Acquire(c)
    /\ value' = [value EXCEPT ![c] = NoTask]
    /\ Goto(c, "check")
    /\ UNCHANGED <<queue, arg, pushed, taken>>

\* checker->wait() is false: Wait returns 0 with the mutex held.
CheckNonEmpty(c) ==
    /\ pc[c] = "check"
    /\ queue # <<>>
    /\ Goto(c, "front")
    /\ UNCHANGED <<queue, owner, arg, value, pushed, taken>>

\* checker->wait() is true: pthread_cond_wait unlocks and parks in one step.
Park(c) ==
    /\ pc[c] = "check"
    /\ queue = <<>>
    /\ Release(c)
    /\ Goto(c, "waiting")
    /\ UNCHANGED <<queue, arg, value, pushed, taken>>

\* pthread_cond_wait reports an error: Wait releases the mutex, Get is false.
WaitFails(c) ==
    /\ pc[c] = "check"
    /\ queue = <<>>
    /\ Goto(c, "returning")
    /\ UNCHANGED <<queue, owner, arg, value, pushed, taken>>

\* POSIX lets pthread_cond_wait return without a signal.
SpuriousWake(c) ==
    /\ pc[c] = "waiting"
    /\ Goto(c, "woken")
    /\ UNCHANGED <<queue, owner, arg, value, pushed, taken>>

\* A Get that takes a wake-up after a wait for a failure.
RelockGivesUp(c) ==
    /\ pc[c] = "woken"
    /\ Acquire(c)
    /\ Goto(c, "returning")
    /\ UNCHANGED <<queue, arg, value, pushed, taken>>

\* pthread_cond_wait takes the mutex again; Wait does not look at the queue a
\* second time but returns 0.
Relock(c) ==
    /\ pc[c] = "woken"
    /\ Acquire(c)
    /\ Goto(c, "front")
    /\ UNCHANGED <<queue, arg, value, pushed, taken>>

\* Get looks itself: a wake-up whose item another thread has taken gives false.
FrontEmpty(c) ==
    /\ pc[c] = "front"
    /\ queue = <<>>
    /\ Goto(c, "returning")
    /\ UNCHANGED <<queue, owner, arg, value, pushed, taken>>

ReadFront(c) ==
    /\ pc[c] = "front"
    /\ queue # <<>>
    /\ value' = [value EXCEPT ![c] = Head(queue)]
    /\ Goto(c, "pop")
    /\ UNCHANGED <<queue, owner, arg, pushed, taken>>

\* pop() at the wrong end.
PopBack(c) ==
    /\ pc[c] = "pop"
    /\ queue' = SubSeq(queue, 1, Len(queue) - 1)
    /\ taken' = Append(taken, value[c])
    /\ Goto(c, "returning")
    /\ UNCHANGED <<owner, arg, value, pushed>>

Pop(c) ==
    /\ pc[c] = "pop"
    /\ queue' = Tail(queue)
    /\ taken' = Append(taken, value[c])
    /\ Goto(c, "returning")
    /\ UNCHANGED <<owner, arg, value, pushed>>

GetRelease(c) ==
    /\ pc[c] = "returning"
    /\ Release(c)
    /\ Goto(c, "idle")
    /\ UNCHANGED <<queue, arg, value, pushed, taken>>

------------------------------------------------------------------------------
Push(p) == PushAcquire(p) \/ PushEnqueue(p) \/ PushRelease(p) \/ PushBroadcast(p)

Get(c) == \/ GetAcquire(c) \/ CheckNonEmpty(c) \/ Park(c) \/ WaitFails(c)
          \/ Relock(c) \/ FrontEmpty(c) \/ ReadFront(c) \/ Pop(c) \/ GetRelease(c)

Next == \/ \E p \in Producers : Push(p)
        \/ \E c \in Consumers : Get(c) \/ SpuriousWake(c)

Spec == Init /\ [][Next]_vars

\* A thread inside an operation goes on with it, and the callers of Get
\* (ThreadPool::ThreadMain, MosqClient::PublishLoop) call it again and again.
\* Starting a Push, failing to wait and waking up for nothing are never owed.
Fairness == /\ \A p \in Producers :
                  WF_vars(PushEnqueue(p) \/ PushRelease(p) \/ PushBroadcast(p))
            /\ \A c \in Consumers : WF_vars(Get(c))

FairSpec == Spec /\ Fairness

------------------------------------------------------------------------------
TypeOK == /\ queue \in Seq(Values)
          /\ owner \in Threads \cup {NoThread}
          /\ pc \in [Threads -> {"idle"} \cup PushLabels \cup GetLabels]
          /\ arg \in [Producers -> Values \cup {NoTask}]
          /\ value \in [Consumers -> Values \cup {NoTask}]
          /\ pushed \in Seq(Values)
          /\ taken \in Seq(Values)

(* No wake-up is lost.  Push broadcasts after it has let go of the mutex and
   Wait parks after one look at the queue: whenever an item is queued while a
   consumer is parked, some producer still owes its Broadcast. *)
NoLostWakeup ==
    queue # <<>> /\ (\E c \in Consumers : pc[c] = "waiting")
        => \E p \in Producers : pc[p] \in {"pushed", "broadcast"}

(* Nothing is lost, duplicated or reordered between concurrent Push and Get
   calls, front() and pop() being two steps: what was handed out followed by
   what is still queued is what was pushed. *)
FifoDelivery == taken \o queue = pushed

(* The critical sections of qlock_ exclude each other: a thread is inside one
   exactly when it owns the mutex. *)
MutualExclusion == \A t \in Threads : pc[t] \in Holding <=> owner = t

(* Between front() and pop() the front does not change, and a Get that has not
   read the front yet still has the caller's NULL in its out parameter. *)
FrontIsStable ==
    \A c \in Consumers :
        /\ pc[c] = "pop" => queue # <<>> /\ value[c] = Head(queue)
        /\ pc[c] \in {"check", "waiting", "woken", "front"} => value[c] = NoTask

\* The strengthening under which the properties are inductive.
ArgsKnown == \A p \in Producers : pc[p] = "push" => arg[p] \in Values

IInv == /\ TypeOK
        /\ MutualExclusion
        /\ ArgsKnown
        /\ FrontIsStable
        /\ NoLostWakeup
        /\ FifoDelivery

(* Every Push and Get takes effect in one instant, and Get comes back with
   false only if the queue was empty during the call. *)
Abstract == INSTANCE FifoQueue WITH
                items <- queue,
                outcome <- [c \in Consumers |->
                              IF pc[c] = "returning" THEN <<value[c]>> ELSE <<>>]

Linearizable == Abstract!Spec

(* Every pushed item is handed to some consumer, however the wake-ups, the
   spurious returns of pthread_cond_wait and the mutex are scheduled. *)
EveryItemTaken ==
    \A n \in 1..MaxPush : Len(pushed) >= n ~> Len(taken) >= n
==============================================================================
