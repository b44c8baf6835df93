------------------------------- MODULE Multicast ------------------------------
(***************************************************************************)
(* What forwarding promises the ordinary clients of a cluster: a message    *)
(* goes to a group of brokers that is fixed when it is published.  Its own  *)
(* broker has it at once and never again.  A broker of the group gets it    *)
(* later or never, if it is a message of Once then once at most, and nobody *)
(* else gets it.                                                            *)
(***************************************************************************)
EXTENDS Naturals

CONSTANTS Nodes,      \* the brokers
          Messages,
          Once        \* the messages nobody may get twice

VARIABLES home,       \* home[m]: the broker of m; {} until it is published
          reach,      \* reach[m]: the group of m
          got         \* got[b][m]: how often m was published at b

vars == <<home, reach, got>>

Init == /\ home = [m \in Messages |-> {}]
        /\ reach = [m \in Messages |-> {}]
        /\ got = [b \in Nodes |-> [m \in Messages |-> 0]]

Gets(b, m) == got' = [got EXCEPT ![b][m] = @ + 1]

Publish(b, m) == /\ home[m] = {}
                 /\ home' = [home EXCEPT ![m] = {b}]
                 /\ \E group \in SUBSET (Nodes \ {b}) : reach' = [reach EXCEPT ![m] = group]
                 /\ got[b][m] = 0
                 /\ Gets(b, m)

Deliver(b, m) == /\ b \in reach[m]
                 /\ m \in Once => got[b][m] = 0
                 /\ Gets(b, m)
                 /\ UNCHANGED <<home, reach>>

Next == \E b \in Nodes, m \in Messages : Publish(b, m) \/ Deliver(b, m)

Spec == Init /\ [][Next]_vars
==============================================================================
