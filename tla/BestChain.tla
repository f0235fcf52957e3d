------------------------------ MODULE BestChain ------------------------------
(***************************************************************************)
(* What chain selection (main.cpp) promises to the users of the coins:     *)
(* while the node is up the coins move only to valid chains of more work;  *)
(* what is saved of them is some of the chains that were followed; a node  *)
(* that exits comes back where it was, one that is killed at the last      *)
(* chain saved, and one that loses power at one of the chains saved.       *)
(* The block index, candidates, files, databases and the steps of          *)
(* SetBestChain are not visible here.                                      *)
(***************************************************************************)
EXTENDS Integers, Sequences

CONSTANTS Blocks, Genesis, Chain, ChainWork, MayFail

VARIABLES
    up,         \* the process runs
    head,       \* the block that the coins are the result of
    saved,      \* the blocks that were saved, oldest first; any may survive
    invalid     \* the blocks that no chain to follow may hold

bestVars == <<up, head, saved, invalid>>

Newest == saved[Len(saved)]

Init ==
    /\ up = TRUE
    /\ head = Genesis
    /\ saved = <<Genesis>>
    /\ invalid \in SUBSET MayFail

\* The coins become those of a better chain, all at once.
Follow(b) ==
    /\ up
    /\ ChainWork[b] > ChainWork[head]
    /\ Chain[b] \cap invalid = {}
    /\ head' = b
    /\ UNCHANGED <<up, saved, invalid>>

Save ==
    /\ up
    /\ saved' = Append(saved, head)
    /\ UNCHANGED <<up, head, invalid>>

\* The process ends itself, with the coins saved.
Exit ==
    /\ up /\ ~ up'
    /\ saved' = Append(saved, head) \/ (saved' = saved /\ Newest = head)
    /\ UNCHANGED <<head, invalid>>

Kill ==
    /\ up /\ ~ up'
    /\ UNCHANGED <<head, saved, invalid>>

LosePower(i) ==
    /\ up /\ ~ up'
    /\ saved' = <<saved[i]>>
    /\ UNCHANGED <<head, invalid>>

Start ==
    /\ ~ up /\ up'
    /\ head' = Newest
    /\ saved' = <<Newest>>
    /\ UNCHANGED invalid

Next ==
    \/ \E b \in Blocks : Follow(b)
    \/ Save \/ Exit \/ Kill \/ Start
    \/ \E i \in 1..Len(saved) : LosePower(i)

Spec == Init /\ [][Next]_bestVars
=============================================================================
