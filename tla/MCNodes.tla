------------------------------ MODULE MCNodes ------------------------------
(* Nodes with two opening threads that dial the same peer, on two addresses. *)
EXTENDS Nodes, TLC
CONSTANTS o1, o2
TwoOpeners == (o1 :> {"address"}) @@ (o2 :> {"name", "onetry"})
=============================================================================
