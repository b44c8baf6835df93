---------------------------- MODULE MCServerLoop -----------------------------
(***************************************************************************)
(* ServerLoop for TLC.  Connections are interchangeable.                   *)
(***************************************************************************)
EXTENDS ServerLoop, TLC

Symmetry == Permutations(Conns)
==============================================================================
