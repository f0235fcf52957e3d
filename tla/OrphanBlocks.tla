---------------------------- MODULE OrphanBlocks ----------------------------
(***************************************************************************)
(* ProcessBlock (main.cpp) over the chain selection of BlockChain: blocks  *)
(* arrive in any order, the ones whose parent is not indexed wait in       *)
(* mapOrphanBlocks and mapOrphanBlocksByPrev, and a block that is accepted *)
(* brings in the ones that waited for it, each of them through AcceptBlock *)
(* and ConnectBestBlock of BlockChain.                                     *)
(***************************************************************************)
EXTENDS BlockChain

CONSTANT MayBeRefused   \* blocks the checks of AcceptBlock before the index may refuse

ASSUME RefusedAssumption == MayBeRefused \subseteq Blocks \ {Genesis}

VARIABLES
    refused,        \* the blocks these checks refuse
    orphans,        \* mapOrphanBlocks
    byPrev,         \* mapOrphanBlocksByPrev, the key is Parent
    vWorkQueue,     \* what is left of vWorkQueue; empty outside the loop
    current,        \* the block inside AcceptBlock, None outside of it
    handled         \* the orphans of the range of Head(vWorkQueue) already deleted

orphanVars == <<orphans, byPrev, vWorkQueue, current, handled>>
allVars == <<vars, refused, orphanVars>>

OrphanTypeOK ==
    /\ TypeOK
    /\ refused \in SUBSET MayBeRefused
    /\ orphans \in SUBSET Blocks /\ byPrev \in SUBSET Blocks
    /\ vWorkQueue \in Seq(Blocks) /\ handled \in SUBSET Blocks
    /\ current \in Blocks \union {None}

OrphanInit ==
    /\ Init
    /\ refused \in SUBSET MayBeRefused
    /\ orphans = {} /\ byPrev = {}
    /\ vWorkQueue = <<>> /\ current = None /\ handled = {}

\* No call of ProcessBlock is under way.
Between == pc = "idle" /\ vWorkQueue = <<>> /\ current = None

-----------------------------------------------------------------------------
(* ProcessBlock up to AcceptBlock.                                         *)

\* "already have block": in the index, or among the orphans.
Known(b) == b \in Indexed \/ b \in orphans

\* The parent is missing.  Only a block that came from a peer is kept, one
\* read from a file or found by the miner is dropped.
KeepOrphan(b) ==
    /\ Between
    /\ b # Genesis /\ ~ Known(b)
    /\ Parent[b] \notin Indexed
    /\ orphans' = orphans \union {b}
    /\ byPrev' = byPrev \union {b}
    /\ UNCHANGED <<vars, refused, vWorkQueue, current, handled>>

\* The parent is there.  A block that AcceptBlock refuses changes nothing.
ProcessBlock(b, roll, ibd) ==
    /\ Between
    /\ ~ Known(b) /\ b \notin refused
    /\ AcceptBlock(b, roll, ibd)
    /\ current' = b
    /\ UNCHANGED <<refused, orphans, byPrev, vWorkQueue, handled>>

\* AcceptBlock has failed: the orphans of the block are not looked at.
ProcessBlockFails ==
    /\ pc = "idle" /\ current # None /\ vWorkQueue = <<>>
    /\ ~ ok
    /\ current' = None
    /\ UNCHANGED <<vars, refused, orphans, byPrev, vWorkQueue, handled>>

StartWork ==
    /\ pc = "idle" /\ current # None /\ vWorkQueue = <<>>
    /\ ok
    /\ vWorkQueue' = <<current>>
    /\ current' = None
    /\ UNCHANGED <<vars, refused, orphans, byPrev, handled>>

-----------------------------------------------------------------------------
(* "Recursively process any orphan blocks that depended on this one".      *)

InLoop == pc = "idle" /\ vWorkQueue # <<>>
WaitingFor(b) == {o \in byPrev : Parent[o] = b}

\* The orphans that the children of an accepted orphan wait for.
PushedNever(b) == vWorkQueue
Pushed(b) == IF ok THEN Append(vWorkQueue, b) ELSE vWorkQueue

\* What is left of mapOrphanBlocks when b has been through AcceptBlock.
LeftIfAccepted(b) == IF ok /\ b \notin refused THEN orphans \ {b} ELSE orphans
Left(b) == orphans \ {b}

AcceptOrphan(o, roll, ibd) ==
    /\ InLoop /\ current = None
    /\ o \in WaitingFor(Head(vWorkQueue)) \ handled
    /\ o \notin refused
    /\ AcceptBlock(o, roll, ibd)
    /\ current' = o
    /\ UNCHANGED <<refused, orphans, byPrev, vWorkQueue, handled>>

\* AcceptBlock returns: a failure is only seen in that nothing is pushed.
OrphanAccepted ==
    /\ InLoop /\ current # None
    /\ vWorkQueue' = Pushed(current)
    /\ orphans' = Left(current)
    /\ handled' = handled \union {current}
    /\ current' = None
    /\ UNCHANGED <<vars, refused, byPrev>>

\* AcceptBlock refuses the orphan before it is indexed.
OrphanRefused(o) ==
    /\ InLoop /\ current = None
    /\ o \in WaitingFor(Head(vWorkQueue)) \ handled
    /\ o \in refused
    /\ orphans' = Left(o)
    /\ handled' = handled \union {o}
    /\ UNCHANGED <<vars, refused, byPrev, vWorkQueue, current>>

\* mapOrphanBlocksByPrev.erase(hashPrev)
RangeDone ==
    /\ InLoop /\ current = None
    /\ WaitingFor(Head(vWorkQueue)) \subseteq handled
    /\ byPrev' = byPrev \ WaitingFor(Head(vWorkQueue))
    /\ vWorkQueue' = Tail(vWorkQueue)
    /\ handled' = {}
    /\ UNCHANGED <<vars, refused, orphans, current>>

-----------------------------------------------------------------------------
\* The maps live in memory.  Shutdown comes between two calls of ProcessBlock
\* or at the interruption point of ConnectBestBlock.
OrphansKeptOrLost ==
    IF pc' = "down"
      THEN /\ orphans' = {} /\ byPrev' = {}
           /\ vWorkQueue' = <<>> /\ current' = None /\ handled' = {}
      ELSE UNCHANGED orphanVars

ChainStep == CallStep /\ OrphansKeptOrLost /\ UNCHANGED refused

Ends ==
    /\ DiskLow \/ (Shutdown /\ (Between \/ pc # "idle")) \/ Crash \/ Lose \/ Restart
    /\ OrphansKeptOrLost
    /\ UNCHANGED refused

WorkStep ==
    \/ ProcessBlockFails \/ StartWork \/ OrphanAccepted \/ RangeDone
    \/ \E o \in Blocks : OrphanRefused(o)
    \/ \E o \in Blocks, roll \in BOOLEAN, ibd \in IBD : AcceptOrphan(o, roll, ibd)

OrphanNext ==
    \/ \E b \in Blocks : KeepOrphan(b)
    \/ \E b \in Blocks, roll \in BOOLEAN, ibd \in IBD : ProcessBlock(b, roll, ibd)
    \/ ChainStep \/ WorkStep \/ Ends

\* The thread that holds cs_main keeps running.
OrphanSpec == OrphanInit /\ [][OrphanNext]_allVars /\ WF_allVars(ChainStep \/ WorkStep)

-----------------------------------------------------------------------------
(* Properties.                                                             *)

\* Between calls both maps hold the same blocks, none of them is indexed, and
\* no entry is left that points to a deleted block.
OrphanMapsAgree ==
    /\ Between => orphans = byPrev /\ handled = {}
    /\ byPrev \ orphans \subseteq handled
    /\ (orphans \cap Indexed) \subseteq {current} \union handled

\* The order in which blocks arrive does not matter: between calls the tip has
\* at least the work of every valid chain whose blocks have all arrived, were
\* they accepted at once or kept as orphans first, and whatever invalid
\* branches were tried on the way.
BestOfArrived ==
    Between =>
        \A b \in Blocks :
            /\ Chain[b] \subseteq Indexed \union orphans
            /\ Chain[b] \cap (invalid \union refused) = {}
            => ChainWork[b] <= ChainWork[tip]

\* An orphan is released when its parent is indexed, unless the parent's chain
\* is invalid: then it stays, and is refused as known when it comes again.
OrphansReleased ==
    Between => \A o \in orphans :
        Parent[o] \in Indexed => Chain[Parent[o]] \cap invalid # {}

\* ProcessBlock returns, with every orphan it can reach.
ProcessBlockReturns == (pc # "down" /\ ~ Between) ~> (Between \/ pc = "down")
=============================================================================
