--------------------------- MODULE MCOrphanBlocks ---------------------------
(* The block trees of MCBlockChain, delivered in any order.                *)
EXTENDS OrphanBlocks, MCBlockChain
=============================================================================
