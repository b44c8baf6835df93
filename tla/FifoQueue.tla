------------------------------ MODULE FifoQueue ------------------------------
(***************************************************************************)
(* What TaskQueue<_Type> (helper/task_queue_posix.h) promises its callers: *)
(* an unbounded first-in first-out queue whose operations take effect in   *)
(* one instant.  A call of Get either takes the oldest item or, only when  *)
(* the queue is empty at that instant, comes back with nothing.            *)
(***************************************************************************)
EXTENDS Sequences

CONSTANTS Consumers,   \* the threads that call Get
          Values,      \* what is queued
          NoTask       \* the caller's NULL, left in place by a Get that fails

VARIABLES items,       \* the queue
          outcome      \* outcome[c]: <<>> before the effect of c's Get,
                       \* <<x>> between its effect and its return

vars == <<items, outcome>>

Init == /\ items = <<>>
        /\ outcome = [c \in Consumers |-> <<>>]

Put == /\ \E v \in Values : items' = Append(items, v)
       /\ UNCHANGED outcome

Take(c) == /\ outcome[c] = <<>>
           /\ items # <<>>
           /\ items' = Tail(items)
           /\ outcome' = [outcome EXCEPT ![c] = <<Head(items)>>]

Miss(c) == /\ outcome[c] = <<>>
           /\ items = <<>>
           /\ outcome' = [outcome EXCEPT ![c] = <<NoTask>>]
           /\ UNCHANGED items

Return(c) == /\ outcome[c] # <<>>
             /\ outcome' = [outcome EXCEPT ![c] = <<>>]
             /\ UNCHANGED items

Next == Put \/ \E c \in Consumers : Take(c) \/ Miss(c) \/ Return(c)

Spec == Init /\ [][Next]_vars
==============================================================================
