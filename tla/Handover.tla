------------------------------- MODULE Handover -------------------------------
(***************************************************************************)
(* What server.cpp and http_server.cpp promise each other about a client's *)
(* socket: the loop has it from accept on, gives it to the pool once or    *)
(* closes it, and the pool, once it has it, closes it and never gives it   *)
(* back.  Who "has" it, and when the loop closes which sockets together,   *)
(* is left to the modules of the two sides.                                *)
(***************************************************************************)
EXTENDS Naturals

CONSTANT Conns       \* client connections

VARIABLES owner,     \* owner[c]: "client", "loop", "pool", or "nobody" once closed
          closes     \* how often close() was called for a connection

vars == <<owner, closes>>

\* A description may begin before accept or behind it.
Init == /\ owner \in [Conns -> {"client", "loop"}]
        /\ closes = [c \in Conns |-> 0]

Pass(c, from, to) == /\ owner[c] = from
                     /\ owner' = [owner EXCEPT ![c] = to]
                     /\ UNCHANGED closes

Accept(c) == Pass(c, "client", "loop")
HandOver(c) == Pass(c, "loop", "pool")

\* close() by whoever is in holders, for every connection of the set cs.
Close(cs, holders) ==
    /\ \A c \in cs : owner[c] \in holders
    /\ owner' = [c \in Conns |-> IF c \in cs THEN "nobody" ELSE owner[c]]
    /\ closes' = [c \in Conns |-> IF c \in cs THEN closes[c] + 1 ELSE closes[c]]

\* A connection over the limit is closed as it is accepted.
LoopCloses(cs) == Close(cs, {"client", "loop"})
PoolCloses(c) == Close({c}, {"pool"})

Next == \/ \E c \in Conns : Accept(c) \/ HandOver(c) \/ PoolCloses(c)
        \/ \E cs \in SUBSET Conns : LoopCloses(cs)

Spec == Init /\ [][Next]_vars
==============================================================================
