-------------------------- MODULE MCBlockDownload --------------------------
(* Two nodes on the two branches of a block tree. *)
EXTENDS BlockDownload, TLC
CONSTANTS n1, n2
\* 0 - 1 - 2 - 3 - 4 - 5 - 6   and   1 - 11
TreeBlocks == (0..6) \cup {11}
TreeParent == [b \in TreeBlocks \ {0} |-> IF b = 11 THEN 1 ELSE b - 1]
TwoNodes == (n1 :> 5) @@ (n2 :> 11)
=============================================================================
