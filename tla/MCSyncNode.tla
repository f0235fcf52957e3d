----------------------------- MODULE MCSyncNode -----------------------------
(* SyncNode with inbound and outbound nodes on two addresses. *)
EXTENDS SyncNode, TLC
CONSTANTS o1
OneOpener == o1 :> {"address", "connect"}
=============================================================================
