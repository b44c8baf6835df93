-------------------------- MODULE TaskQueueProofs ----------------------------
(***************************************************************************)
(* For every set of threads and of values: IInv is an inductive invariant  *)
(* of TaskQueue, so its parts hold, and TaskQueue implements FifoQueue.    *)
(***************************************************************************)
EXTENDS TaskQueue, SequenceTheorems, TLAPS

\* What the provers need to know of appending to and taking from a sequence.
LEMMA TailOfAppendedFront ==
    ASSUME NEW S, NEW s \in Seq(S), NEW t \in Seq(S), t # <<>>
    PROVE  Append(s, Head(t)) \o Tail(t) = s \o t
<1>1. /\ Head(t) \in S
      /\ Tail(t) \in Seq(S)
      /\ Len(Tail(t)) = Len(t) - 1
      /\ \A i \in 1..Len(Tail(t)) : Tail(t)[i] = t[i + 1]
      /\ Head(t) = t[1]
      /\ Len(t) \in Nat /\ Len(t) > 0
  BY HeadTailProperties, EmptySeq, LenProperties
<1> DEFINE l == Append(s, Head(t)) \o Tail(t)
           r == s \o t
<1>2. /\ Append(s, Head(t)) \in Seq(S)
      /\ Len(Append(s, Head(t))) = Len(s) + 1
      /\ Len(s) \in Nat
  BY <1>1, AppendProperties, LenProperties
<1>3. /\ l \in Seq(S) /\ Len(l) = Len(s) + Len(t)
      /\ r \in Seq(S) /\ Len(r) = Len(s) + Len(t)
  BY <1>1, <1>2, ConcatProperties
<1>4. \A i \in 1..Len(l) : l[i] = r[i]
  BY <1>1, <1>2, <1>3, ConcatProperties, AppendProperties
<1> HIDE DEF l, r
<1>5. l = r
  BY <1>3, <1>4, SeqEqual
<1> QED BY <1>5 DEF l, r

LEMMA AppendToConcat ==
    ASSUME NEW S, NEW s \in Seq(S), NEW t \in Seq(S), NEW e \in S
    PROVE  s \o Append(t, e) = Append(s \o t, e)
  OBVIOUS

LEMMA HeadOfAppended ==
    ASSUME NEW S, NEW t \in Seq(S), t # <<>>, NEW e \in S
    PROVE  Append(t, e) # <<>> /\ Head(Append(t, e)) = Head(t)
  OBVIOUS

------------------------------------------------------------------------------
LEMMA InitIInv == Init => IInv
  BY NoTaskAssumption, NoThreadAssumption, EmptySeq, ConcatEmptySeq
  DEF Init, IInv, TypeOK, MutualExclusion, ArgsKnown, FrontIsStable, NoLostWakeup,
      FifoDelivery, Threads, Holding, PushLabels, GetLabels

LEMMA PushSteps ==
    ASSUME IInv, NEW p \in Producers, Push(p)
    PROVE  IInv'
<1> USE NoTaskAssumption, NoThreadAssumption
    DEF IInv, TypeOK, MutualExclusion, ArgsKnown, FrontIsStable, NoLostWakeup,
        FifoDelivery, Threads, Holding, PushLabels, GetLabels, Goto, Acquire, Release
<1>1. CASE PushAcquire(p)
  BY <1>1 DEF PushAcquire
<1>2. CASE PushEnqueue(p)
  <2>1. arg[p] \in Values /\ owner = p
    BY <1>2 DEF PushEnqueue
  <2>2. queue' \in Seq(Values) /\ pushed' \in Seq(Values)
    BY <1>2, <2>1, AppendProperties DEF PushEnqueue
  <2>3. TypeOK' /\ MutualExclusion' /\ ArgsKnown' /\ NoLostWakeup'
    BY <1>2, <2>1, <2>2 DEF PushEnqueue
  <2>4. FrontIsStable'
    BY <1>2, <2>1, HeadOfAppended DEF PushEnqueue
  <2>5. FifoDelivery'
    <3>1. /\ taken' = taken
          /\ queue' = Append(queue, arg[p])
          /\ pushed' = Append(pushed, arg[p])
          /\ taken \o queue = pushed
      BY <1>2 DEF PushEnqueue
    <3>2. taken \in Seq(Values) /\ queue \in Seq(Values)
      OBVIOUS
    <3> HIDE DEF IInv
    <3>3. taken \o Append(queue, arg[p]) = Append(taken \o queue, arg[p])
      BY <2>1, <3>2, AppendToConcat
    <3> QED BY <3>1, <3>3
  <2> QED BY <2>3, <2>4, <2>5
<1>3. CASE PushRelease(p)
  BY <1>3 DEF PushRelease
<1>4. CASE PushBroadcast(p)
  BY <1>4 DEF PushBroadcast, BroadcastWakes, Parked
<1> QED BY <1>1, <1>2, <1>3, <1>4 DEF Push

LEMMA GetSteps ==
    ASSUME IInv, NEW c \in Consumers, Get(c) \/ SpuriousWake(c)
    PROVE  IInv'
<1> USE NoTaskAssumption, NoThreadAssumption
    DEF IInv, TypeOK, MutualExclusion, ArgsKnown, FrontIsStable, NoLostWakeup,
        FifoDelivery, Threads, Holding, PushLabels, GetLabels, Goto, Acquire, Release
<1>1. CASE GetAcquire(c)
  BY <1>1 DEF GetAcquire
<1>2. CASE CheckNonEmpty(c)
  BY <1>2 DEF CheckNonEmpty
<1>3. CASE Park(c)
  BY <1>3 DEF Park
<1>4. CASE WaitFails(c)
  BY <1>4 DEF WaitFails
<1>5. CASE SpuriousWake(c)
  BY <1>5 DEF SpuriousWake
<1>6. CASE Relock(c)
  BY <1>6 DEF Relock
<1>7. CASE FrontEmpty(c)
  BY <1>7 DEF FrontEmpty
<1>8. CASE ReadFront(c)
  <2>1. Head(queue) \in Values
    BY <1>8, HeadTailProperties DEF ReadFront
  <2> QED BY <1>8, <2>1 DEF ReadFront
<1>9. CASE Pop(c)
  <2>1. queue # <<>> /\ value[c] = Head(queue) /\ owner = c
    BY <1>9 DEF Pop
  <2>2. Head(queue) \in Values /\ Tail(queue) \in Seq(Values)
    BY <2>1, HeadTailProperties
  <2>3. TypeOK'
    BY <1>9, <2>1, <2>2, AppendProperties DEF Pop
  <2>4. MutualExclusion' /\ ArgsKnown' /\ FrontIsStable'
    BY <1>9, <2>1 DEF Pop
  <2>5. NoLostWakeup'
    BY <1>9, <2>1 DEF Pop
  <2>6. FifoDelivery'
    BY <1>9, <2>1, TailOfAppendedFront DEF Pop
  <2> QED BY <2>3, <2>4, <2>5, <2>6
<1>10. CASE GetRelease(c)
  BY <1>10 DEF GetRelease
<1> QED BY <1>1, <1>2, <1>3, <1>4, <1>5, <1>6, <1>7, <1>8, <1>9, <1>10 DEF Get

(* IInv holds in every reachable state of the queue, for any number of
   threads: task_queue_posix.h over waitable_impl_posix.cpp. *)
THEOREM Invariance == Spec => []IInv
<1>1. IInv /\ [Next]_vars => IInv'
  <2> SUFFICES ASSUME IInv, [Next]_vars PROVE IInv'
    OBVIOUS
  <2>1. ASSUME NEW p \in Producers, Push(p) PROVE IInv'
    BY <2>1, PushSteps
  <2>2. ASSUME NEW c \in Consumers, Get(c) \/ SpuriousWake(c) PROVE IInv'
    BY <2>2, GetSteps
  <2>3. CASE UNCHANGED vars
    BY <2>3 DEF vars, IInv, TypeOK, MutualExclusion, ArgsKnown, FrontIsStable,
                NoLostWakeup, FifoDelivery
  <2> QED BY <2>1, <2>2, <2>3 DEF Next
<1> QED BY InitIInv, <1>1, PTL DEF Spec

(* The state of the queue is always well typed. *)
THEOREM TypeCorrect == Spec => []TypeOK
  BY Invariance, PTL DEF IInv

(* No consumer stays parked beside a queued item with no Broadcast to come. *)
THEOREM NeverLosesWakeup == Spec => []NoLostWakeup
  BY Invariance, PTL DEF IInv

(* Push and Get neither lose, duplicate nor reorder an item. *)
THEOREM DeliversInOrder == Spec => []FifoDelivery
  BY Invariance, PTL DEF IInv

(* What Get has read with front() is what it removes with pop(). *)
THEOREM FrontNeverMoves == Spec => []FrontIsStable
  BY Invariance, PTL DEF IInv

------------------------------------------------------------------------------
\* The refinement mapping of Abstract, and how a thread's move changes it.
Outcome == [c \in Consumers |->
              IF pc[c] = "returning" THEN <<value[c]>> ELSE <<>>]

LEMMA MappedPushSteps ==
    ASSUME IInv, NEW p \in Producers, Push(p)
    PROVE  Abstract!Put \/ UNCHANGED <<queue, Outcome>>
<1> USE NoTaskAssumption, NoThreadAssumption
    DEF IInv, TypeOK, Threads, Goto, Acquire, Release, Outcome
<1>1. CASE PushAcquire(p)
  BY <1>1 DEF PushAcquire
<1>2. CASE PushEnqueue(p)
  <2>1. arg[p] \in Values
    BY <1>2 DEF PushEnqueue, ArgsKnown
  <2>2. Outcome' = Outcome
    BY <1>2 DEF PushEnqueue
  <2> QED BY <1>2, <2>1, <2>2 DEF PushEnqueue, Abstract!Put
<1>3. CASE PushRelease(p)
  BY <1>3 DEF PushRelease
<1>4. CASE PushBroadcast(p)
  BY <1>4 DEF PushBroadcast, BroadcastWakes, Parked
<1> QED BY <1>1, <1>2, <1>3, <1>4 DEF Push

LEMMA MappedGetSteps ==
    ASSUME IInv, NEW c \in Consumers, Get(c) \/ SpuriousWake(c)
    PROVE  \/ Abstract!Take(c) \/ Abstract!Miss(c) \/ Abstract!Return(c)
           \/ UNCHANGED <<queue, Outcome>>
<1> USE NoTaskAssumption, NoThreadAssumption
    DEF IInv, TypeOK, Threads, Goto, Acquire, Release, Outcome
<1>1. CASE GetAcquire(c)
  BY <1>1 DEF GetAcquire
<1>2. CASE CheckNonEmpty(c)
  BY <1>2 DEF CheckNonEmpty
<1>3. CASE Park(c)
  BY <1>3 DEF Park
<1>4. CASE WaitFails(c)
  BY <1>4 DEF WaitFails, Abstract!Miss, FrontIsStable
<1>5. CASE SpuriousWake(c)
  BY <1>5 DEF SpuriousWake
<1>6. CASE Relock(c)
  BY <1>6 DEF Relock
<1>7. CASE FrontEmpty(c)
  BY <1>7 DEF FrontEmpty, Abstract!Miss, FrontIsStable
<1>8. CASE ReadFront(c)
  BY <1>8 DEF ReadFront
<1>9. CASE Pop(c)
  BY <1>9 DEF Pop, Abstract!Take, FrontIsStable
<1>10. CASE GetRelease(c)
  BY <1>10 DEF GetRelease, Abstract!Return
<1> QED BY <1>1, <1>2, <1>3, <1>4, <1>5, <1>6, <1>7, <1>8, <1>9, <1>10 DEF Get

(* The queue with its mutex, its condition variable and its two-step removal
   implements the atomic first-in first-out queue. *)
THEOREM ImplementsFifo == Spec => Linearizable
<1>1. Init => Abstract!Init
  BY DEF Init, Abstract!Init, Threads
<1>2. IInv /\ [Next]_vars => [Abstract!Next]_<<queue, Outcome>>
  <2> SUFFICES ASSUME IInv, [Next]_vars
               PROVE  [Abstract!Next]_<<queue, Outcome>>
    OBVIOUS
  <2>1. ASSUME NEW p \in Producers, Push(p)
        PROVE  [Abstract!Next]_<<queue, Outcome>>
    BY <2>1, MappedPushSteps DEF Abstract!Next
  <2>2. ASSUME NEW c \in Consumers, Get(c) \/ SpuriousWake(c)
        PROVE  [Abstract!Next]_<<queue, Outcome>>
    BY <2>2, MappedGetSteps DEF Abstract!Next
  <2>3. CASE UNCHANGED vars
    BY <2>3 DEF vars, Outcome
  <2> QED BY <2>1, <2>2, <2>3 DEF Next
<1>3. <<queue, Outcome>> = Abstract!vars
  BY DEF Abstract!vars, Outcome
<1>4. IInv /\ [Next]_vars => [Abstract!Next]_(Abstract!vars)
  BY <1>2, <1>3 DEF Abstract!vars, Outcome
<1> QED BY <1>1, <1>4, Invariance, PTL DEF Spec, Linearizable, Abstract!Spec
==============================================================================
