------------------------------ MODULE MCCluster ------------------------------
(***************************************************************************)
(* Cluster for TLC.  The configured nodes are interchangeable.  Faults and *)
(* messages are not mixed: in some behaviours all nodes are started and a  *)
(* broker and the service may fail, in others the configured nodes, or two *)
(* of them, connect more often and one message is published, with or       *)
(* without QoS 0.                                                          *)
(***************************************************************************)
EXTENDS Cluster, TLC

Membership == [started |-> Nodes, published |-> {}, connects |-> 1, crashes |-> 1, restarts |-> 1]
Forwarding(nodes, n, m) ==
    [started |-> nodes, published |-> {m}, connects |-> n, crashes |-> 0, restarts |-> 0]
Pairs == {nodes \in SUBSET Configured : Cardinality(nodes) = 2}
MCLimits == {Membership}
            \cup {Forwarding(Configured, 2, m) : m \in Messages}
            \cup {Forwarding(nodes, 4, m) : nodes \in Pairs, m \in Messages}

Symmetry == Permutations(Configured)
==============================================================================
