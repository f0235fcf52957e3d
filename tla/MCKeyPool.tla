------------------------------ MODULE MCKeyPool -----------------------------
(* Small key pools for TLC.  Reservations are interchangeable.             *)
EXTENDS KeyPool, TLC

Symmetry == Permutations(Holders)
=============================================================================
