----------------------------- MODULE BlockChain -----------------------------
(***************************************************************************)
(* Chain selection and its persistence (main.cpp, init.cpp, txdb.cpp): the *)
(* block index with its status flags, setBlockIndexValid,                  *)
(* ConnectBestBlock and SetBestChain, the block and undo files, the block  *)
(* tree database, the coins cache and the coins database, process crashes, *)
(* power loss, shutdown and restart.                                       *)
(*                                                                         *)
(* All of it runs under cs_main, so the steps of one call are never        *)
(* interleaved with another call; they are separate actions because the    *)
(* process may die between any two of them.  The contents of the coins are *)
(* left out: a coins view is the block whose chain it is the result of.    *)
(***************************************************************************)
EXTENDS Integers, SequencesExt

CONSTANTS
    Blocks,         \* every block a peer may deliver, and Genesis
    Genesis,
    Parent,         \* hashPrevBlock: [Blocks \ {Genesis} -> Blocks]
    ChainWork,      \* nChainWork: [Blocks -> Nat]
    MayFail,        \* the blocks whose ConnectBlock may find them invalid
    None,           \* a null CBlockIndex*
    AllowIBD,       \* IsInitialBlockDownload() may return true
    AllowPowerLoss, \* data that was written and not committed may be lost
    MaxFiles,       \* bound on nLastBlockFile + 1
    MaxCrashes      \* bound on crashes, power losses and shutdowns

\* The blocks on the path from b down to the genesis block, b included.
Closed(S) == \A c \in S \ {Genesis} : Parent[c] \in S
Chain == [b \in Blocks |->
            {a \in Blocks : \A S \in SUBSET Blocks : (b \in S /\ Closed(S)) => a \in S}]
Height == [b \in Blocks |-> Cardinality(Chain[b]) - 1]
MaxHeight == Cardinality(Blocks) - 1

ASSUME TreeAssumption ==
    /\ IsFiniteSet(Blocks)
    /\ Genesis \in Blocks /\ None \notin Blocks
    /\ Parent \in [Blocks \ {Genesis} -> Blocks]
    /\ MayFail \subseteq Blocks \ {Genesis}
ASSUME WorkAssumption ==
    /\ ChainWork \in [Blocks -> Nat]
    /\ \A b \in Blocks \ {Genesis} : ChainWork[b] > ChainWork[Parent[b]]
ASSUME BoundsAssumption ==
    /\ AllowIBD \in BOOLEAN /\ AllowPowerLoss \in BOOLEAN
    /\ MaxFiles \in Nat \ {0} /\ MaxCrashes \in Nat

\* nStatus as a set of flags; the empty set is a block that is not indexed.
\*   data        BLOCK_VALID_TRANSACTIONS | BLOCK_HAVE_DATA
\*   undo        BLOCK_VALID_SCRIPTS | BLOCK_HAVE_UNDO (set by one write)
\*   failed      BLOCK_FAILED_VALID
\*   failedchild BLOCK_FAILED_CHILD
Flags == {"data", "undo", "failed", "failedchild"}
FailedMask == {"failed", "failedchild"}

VARIABLES
    pc,         \* where the holder of cs_main is
    invalid,    \* the blocks ConnectBlock will reject (unknown to the node)
    status,     \* mapBlockIndex with nStatus
    cand,       \* setBlockIndexValid
    tip,        \* pindexBest
    byHeight,   \* vBlockIndexByHeight, None above the tip
    coinsTip,   \* pcoinsTip->GetBestBlock()
    attach,     \* what is left of vAttach
    vConnect,   \* vConnect of SetBestChain, while the coins are flushed
    starting,   \* the call is the one of AppInit2
    ok,         \* no SetBestChain of the call has failed: what the call returns
    blk, blkSynced,     \* blocks in the blk files; the committed ones
    undo, undoSynced,   \* undo records in the rev files; the committed ones
    fileOf, lastFile,   \* CBlockIndex::nFile, nLastBlockFile
    treeDB, treeLog,    \* block tree database: synced part, later writes
    coinsDB, coinsLog,  \* coins database: the same for hashBestChain
    ibdSeen,    \* IsInitialBlockDownload() has answered true (history)
    crashes

memVars == <<status, cand, tip, byHeight, coinsTip>>
fileVars == <<blk, blkSynced, undo, undoSynced, fileOf, lastFile>>
dbVars == <<treeDB, treeLog, coinsDB, coinsLog>>
vars == <<pc, invalid, memVars, attach, vConnect, starting, ok, fileVars, dbVars, ibdSeen,
          crashes>>

Pcs == {"idle", "best", "attach", "flush", "sync", "coins", "register", "down"}

TypeOK ==
    /\ pc \in Pcs
    /\ invalid \in SUBSET MayFail
    /\ status \in [Blocks -> SUBSET Flags]
    /\ cand \in SUBSET Blocks
    /\ tip \in Blocks /\ coinsTip \in Blocks /\ coinsDB \in Blocks
    /\ byHeight \in [0..MaxHeight -> Blocks \union {None}]
    /\ attach \in SUBSET Blocks /\ vConnect \in SUBSET Blocks
    /\ starting \in BOOLEAN /\ ok \in BOOLEAN
    /\ blkSynced \in SUBSET blk /\ blk \in SUBSET Blocks
    /\ undoSynced \in SUBSET undo /\ undo \in SUBSET Blocks
    /\ fileOf \in [Blocks -> 0..MaxFiles-1] /\ lastFile \in 0..MaxFiles-1
    /\ treeDB \in [Blocks -> SUBSET Flags]
    /\ treeLog \in Seq([block : Blocks, status : SUBSET Flags])
    /\ coinsLog \in Seq(Blocks)
    /\ ibdSeen \in BOOLEAN /\ crashes \in 0..MaxCrashes

\* A node whose first start has stored and committed the genesis block.
Init ==
    /\ pc = "idle"
    /\ invalid \in SUBSET MayFail
    /\ status = [b \in Blocks |-> IF b = Genesis THEN {"data"} ELSE {}]
    /\ cand = {Genesis}
    /\ tip = Genesis /\ coinsTip = Genesis /\ coinsDB = Genesis
    /\ byHeight = [h \in 0..MaxHeight |-> IF h = 0 THEN Genesis ELSE None]
    /\ attach = {} /\ vConnect = {} /\ starting = FALSE /\ ok = TRUE
    /\ blk = {Genesis} /\ blkSynced = {Genesis}
    /\ undo = {} /\ undoSynced = {}
    /\ fileOf = [b \in Blocks |-> 0] /\ lastFile = 0
    /\ treeDB = status /\ treeLog = <<>> /\ coinsLog = <<>>
    /\ ibdSeen = FALSE /\ crashes = 0

-----------------------------------------------------------------------------
Indexed == {b \in Blocks : status[b] # {}}
Failed == {b \in Blocks : status[b] \cap FailedMask # {}}

\* A finite set of blocks of one chain, lowest first.
Ascending(S) ==
    [i \in 1..Cardinality(S) |->
        CHOOSE b \in S : Cardinality({c \in S : ChainWork[c] <= ChainWork[b]}) = i]
Lowest(S) == CHOOSE b \in S : \A c \in S : ChainWork[b] <= ChainWork[c]
Highest(S) == CHOOSE b \in S : \A c \in S : ChainWork[c] <= ChainWork[b]

\* What the block tree database holds after the first k of its unsynced writes.
TreeAfter(k) ==
    [b \in Blocks |->
        LET is == {i \in 1..k : treeLog[i].block = b}
        IN  IF is = {} THEN treeDB[b]
            ELSE treeLog[CHOOSE i \in is : \A j \in is : j <= i].status]
StoredTree == TreeAfter(Len(treeLog))

\* pblocktree->WriteBlockIndex for the blocks of a chain, lowest first.  A
\* write that repeats what the database holds changes nothing that any later
\* read or loss can tell, and is left out.
Writes(S, newStatus) ==
    LET s == Ascending({b \in S : newStatus[b] # StoredTree[b]})
    IN  [i \in 1..Len(s) |-> [block |-> s[i], status |-> newStatus[s[i]]]]

\* IsInitialBlockDownload(): it depends on the clock, so two calls made by the
\* same handler may disagree.
IBD == IF AllowIBD THEN BOOLEAN ELSE {FALSE}

\* GetNextInMainChain() looks at the height only.
GetNextInMainChain(b) ==
    IF Height[b] + 1 > MaxHeight THEN None ELSE byHeight[Height[b] + 1]

\* The coins cache is written to the database when the process exits.
CoinsAtExit(newCoins) ==
    IF newCoins = coinsDB /\ coinsLog = <<>> THEN coinsLog ELSE Append(coinsLog, newCoins)

\* ConnectBestBlock returns to its first caller: AppInit2 gives up, and shuts
\* the node down, when the answer is false.
ReturnTo(good, newCoins) ==
    LET quits == starting /\ ~ (ok /\ good)
    IN  /\ pc' = IF quits THEN "down" ELSE "idle"
        /\ coinsLog' = IF quits THEN CoinsAtExit(newCoins) ELSE coinsLog
        /\ starting' = FALSE
        /\ ok' = (quits \/ (ok /\ good))

\* The process is gone, and its calls with it.
GoDown == pc' = "down" /\ attach' = {} /\ starting' = FALSE /\ ok' = TRUE

-----------------------------------------------------------------------------
(* AcceptBlock and AddToBlockIndex.                                        *)

\* FindBlockPos may leave a full file: FlushBlockFile(true) commits it first.
Leaving(S, roll) == IF roll THEN {c \in S : fileOf[c] = lastFile} ELSE {}
FindBlockPos(b, roll) ==
    /\ roll => lastFile + 1 < MaxFiles
    /\ lastFile' = IF roll THEN lastFile + 1 ELSE lastFile
    /\ fileOf' = [fileOf EXCEPT ![b] = lastFile']
    /\ undoSynced' = undoSynced \union Leaving(undo, roll)

\* The block is committed unless this is the initial download.
WriteBlockToDisk(b, roll, ibd) ==
    /\ blk' = blk \union {b}
    /\ blkSynced' = blkSynced \union Leaving(blk, roll) \union (IF ibd THEN {} ELSE {b})

AddToBlockIndex(b) ==
    /\ status' = [status EXCEPT ![b] = {"data"}]
    /\ cand' = cand \union {b}
    /\ treeLog' = Append(treeLog, [block |-> b, status |-> {"data"}])

\* Nothing asks whether the parent has failed.
AcceptBlock(b, roll, ibd) ==
    /\ pc = "idle"
    /\ b \notin Indexed /\ b # Genesis /\ Parent[b] \in Indexed
    /\ FindBlockPos(b, roll)
    /\ WriteBlockToDisk(b, roll, ibd)
    /\ AddToBlockIndex(b)
    /\ pc' = "best" /\ ok' = TRUE
    /\ ibdSeen' = (ibdSeen \/ ibd)
    /\ UNCHANGED <<invalid, tip, byHeight, coinsTip, attach, vConnect, starting, undo,
                   treeDB, coinsDB, coinsLog, crashes>>

-----------------------------------------------------------------------------
(* ConnectBestBlock.                                                       *)

\* The blocks "check ancestry" looks at: from b down to the first one for
\* which GetNextInMainChain() is not null, or to the genesis block.
Scanned(b) ==
    LET stops == {a \in Chain[b] : a = Genesis \/ GetNextInMainChain(a) # None}
    IN  Chain[b] \ (Chain[Highest(stops)] \ {Highest(stops)})

\* Nothing to do: the best candidate is the tip or has the work of the tip.
NothingBetter ==
    /\ pc = "best"
    /\ \E b \in cand : /\ \A c \in cand : ChainWork[c] <= ChainWork[b]
                       /\ b = tip \/ ChainWork[b] = ChainWork[tip]
    /\ ReturnTo(TRUE, coinsTip)
    /\ UNCHANGED <<invalid, memVars, attach, vConnect, fileVars, treeDB, treeLog, coinsDB,
                   ibdSeen, crashes>>

\* The best candidate; the order of hashes decides between equals.
BestCandidate(b) ==
    /\ b \in cand
    /\ \A c \in cand : ChainWork[c] <= ChainWork[b]
    /\ b # tip /\ ChainWork[b] # ChainWork[tip]

\* "mark descendants failed": what is above the first failed block met.
MarkedWholeScan(b, culprit) == Scanned(b) \ {culprit}
Marked(b, culprit) == Chain[b] \ Chain[culprit]

\* setBlockIndexValid.erase, for marked descendants and for a failed block.
NotErased(S) == cand
Erased(S) == cand \ S

\* A failed block is met first: what is above it is marked and the loop runs
\* again.
MarkFailedChild(b) ==
    /\ pc = "best"
    /\ BestCandidate(b)
    /\ Scanned(b) \cap Failed # {}
    /\ LET culprit == Highest(Scanned(b) \cap Failed)
           above == Marked(b, culprit)
       IN  /\ status' = [c \in Blocks |->
                 IF c \in above THEN status[c] \union {"failedchild"} ELSE status[c]]
           /\ cand' = Erased(above)
           /\ treeLog' = treeLog \o Reverse(Writes(above, status'))
    /\ UNCHANGED <<pc, invalid, tip, byHeight, coinsTip, attach, vConnect, starting, ok,
                   fileVars, treeDB, coinsDB, coinsLog, ibdSeen, crashes>>

\* vAttach: what has more work than the tip.
AttachAllScanned(b) == Scanned(b)
AttachSet(b) == {c \in Scanned(b) : ChainWork[c] > ChainWork[tip]}

\* Nothing failed on the way.
ChooseAttach(b) ==
    /\ pc = "best"
    /\ BestCandidate(b)
    /\ Scanned(b) \cap Failed = {}
    /\ attach' = AttachSet(b)
    /\ pc' = "attach"
    /\ UNCHANGED <<invalid, memVars, vConnect, starting, ok, fileVars, dbVars, ibdSeen, crashes>>

AttachDone ==
    /\ pc = "attach"
    /\ attach = {}
    /\ ReturnTo(TRUE, coinsTip)
    /\ UNCHANGED <<invalid, memVars, attach, vConnect, fileVars, treeDB, treeLog, coinsDB,
                   ibdSeen, crashes>>

-----------------------------------------------------------------------------
(* SetBestChain.                                                           *)

Target == Lowest(attach)
Disconnect == Chain[coinsTip] \ Chain[Target]
Connect == Chain[Target] \ Chain[coinsTip]

\* The disconnected blocks whose data or undo data cannot be read, and the
\* connected ones that cannot be read or that ConnectBlock rejects.
BadUnreadOnly == {b \in Connect : b \notin blk}
Stuck == {b \in Disconnect : b \notin blk \/ b \notin undo}
Bad == {b \in Connect : b \notin blk \/ b \in invalid}

\* blockundo.WriteToDisk
UndoNotWritten(S) == undo
UndoWritten(S) == undo \union S

\* The coins are those of the tip when SetBestChain gives up: it worked on a
\* view of its own.
CoinsHalfConnected(bad) == Parent[bad]
CoinsAfterFailure(bad) == coinsTip

\* ConnectBlock on the blocks of S: undo data and index entry are written for
\* the ones that never had an undo position, and committed unless ibd.
ConnectBlocks(S, ibd, marked) ==
    LET fresh == {b \in S : "undo" \notin status[b]}
        connected == [b \in Blocks |->
                        IF b \in fresh THEN status[b] \union {"undo"} ELSE status[b]]
        final == [b \in Blocks |->
                    IF b \in marked THEN connected[b] \union {"failed"} ELSE connected[b]]
    IN  /\ undo' = UndoWritten(fresh)
        /\ undoSynced' = IF ibd THEN undoSynced ELSE undoSynced \union fresh
        /\ status' = final
        /\ treeLog' = treeLog \o Writes(fresh, connected) \o Writes(marked, final)

\* DisconnectBlock cannot read a block (Abort) or its undo data (error only).
DisconnectFails ==
    /\ pc = "attach"
    /\ attach # {}
    /\ Stuck # {}
    /\ IF Highest(Stuck) \notin blk
         THEN GoDown /\ coinsLog' = CoinsAtExit(coinsTip)
         ELSE attach' = {} /\ ReturnTo(FALSE, coinsTip)
    /\ UNCHANGED <<invalid, memVars, vConnect, fileVars, treeDB, treeLog, coinsDB, ibdSeen, crashes>>

\* A block cannot be read: Abort, after the blocks below it were connected.
ReadFails(ibd) ==
    /\ pc = "attach"
    /\ attach # {}
    /\ Stuck = {} /\ Bad # {}
    /\ LET bad == Lowest(Bad)
       IN  /\ bad \notin blk
           /\ ConnectBlocks(Connect \cap (Chain[bad] \ {bad}), ibd, {})
           /\ coinsTip' = CoinsAfterFailure(bad)
    /\ GoDown
    /\ coinsLog' = CoinsAtExit(coinsTip')
    /\ ibdSeen' = (ibdSeen \/ ibd)
    /\ UNCHANGED <<invalid, cand, tip, byHeight, vConnect, blk, blkSynced,
                   fileOf, lastFile, treeDB, coinsDB, crashes>>

\* The block leaves the candidates; when GetNextInMainChain() is not null,
\* ConnectBestBlock runs again.
InvalidBlockFound(bad) ==
    /\ cand' = Erased({bad})
    /\ IF GetNextInMainChain(bad) # None
         THEN /\ pc' = "best"
              /\ ok' = FALSE
              /\ UNCHANGED <<starting, coinsLog>>
         ELSE ReturnTo(FALSE, coinsTip')

\* ConnectBlock rejects a block, after the blocks below it were connected.
\* Every caller on the stack returns false without a further effect.
BlockInvalid(ibd) ==
    /\ pc = "attach"
    /\ attach # {}
    /\ Stuck = {} /\ Bad # {}
    /\ LET bad == Lowest(Bad)
       IN  /\ bad \in blk
           /\ ConnectBlocks(Connect \cap (Chain[bad] \ {bad}), ibd, {bad})
           /\ coinsTip' = CoinsAfterFailure(bad)
           /\ InvalidBlockFound(bad)
    /\ attach' = {}
    /\ ibdSeen' = (ibdSeen \/ ibd)
    /\ UNCHANGED <<invalid, tip, byHeight, vConnect, blk, blkSynced,
                   fileOf, lastFile, treeDB, coinsDB, crashes>>

\* Every block connects: the view is pushed to pcoinsTip.  The coins go on to
\* the database unless this is the initial download and the cache is small.
ViewFlushed(ibd, flush) ==
    /\ pc = "attach"
    /\ attach # {}
    /\ Stuck = {} /\ Bad = {}
    /\ ConnectBlocks(Connect, ibd, {})
    /\ coinsTip' = Target
    /\ vConnect' = Connect
    /\ flush \/ AllowIBD
    /\ pc' = IF flush THEN "flush" ELSE "register"
    /\ ibdSeen' = (ibdSeen \/ ibd \/ ~ flush)
    /\ UNCHANGED <<invalid, cand, tip, byHeight, attach, starting, ok, blk, blkSynced,
                   fileOf, lastFile, treeDB, coinsDB, coinsLog, crashes>>

\* CheckDiskSpace fails: the node is stopped with pcoinsTip ahead of the tip.
DiskLow ==
    /\ pc = "flush"
    /\ crashes < MaxCrashes
    /\ crashes' = crashes + 1
    /\ coinsLog' = CoinsAtExit(coinsTip)
    /\ GoDown /\ vConnect' = {}
    /\ UNCHANGED <<invalid, memVars, fileVars, treeDB, treeLog, coinsDB, ibdSeen>>

\* FlushBlockFile() commits the last block file and its undo file.
FlushBlockFileOnly ==
    /\ pc = "flush"
    /\ blkSynced' = blkSynced \union {b \in blk : fileOf[b] = lastFile}
    /\ pc' = "sync"
    /\ UNCHANGED <<invalid, memVars, attach, vConnect, starting, ok, blk, undo,
                   undoSynced, fileOf, lastFile, dbVars, ibdSeen, crashes>>
FlushBlockFile ==
    /\ pc = "flush"
    /\ blkSynced' = blkSynced \union {b \in blk : fileOf[b] = lastFile}
    /\ undoSynced' = undoSynced \union {b \in undo : fileOf[b] = lastFile}
    /\ pc' = "sync"
    /\ UNCHANGED <<invalid, memVars, attach, vConnect, starting, ok, blk, undo,
                   fileOf, lastFile, dbVars, ibdSeen, crashes>>

\* pblocktree->Sync(): a synchronous write commits the ones before it.
SyncTreeSkipped ==
    /\ pc = "sync"
    /\ pc' = "coins"
    /\ UNCHANGED <<invalid, memVars, attach, vConnect, starting, ok, fileVars,
                   dbVars, ibdSeen, crashes>>
SyncTree ==
    /\ pc = "sync"
    /\ treeDB' = TreeAfter(Len(treeLog))
    /\ treeLog' = <<>>
    /\ pc' = "coins"
    /\ UNCHANGED <<invalid, memVars, attach, vConnect, starting, ok, fileVars,
                   coinsDB, coinsLog, ibdSeen, crashes>>

\* pcoinsTip->Flush(): one atomic batch, not synchronous.
FlushCoins ==
    /\ pc = "coins"
    /\ coinsLog' = Append(coinsLog, coinsTip)
    /\ pc' = "register"
    /\ UNCHANGED <<invalid, memVars, attach, vConnect, starting, ok, fileVars,
                   treeDB, treeLog, coinsDB, ibdSeen, crashes>>

\* vBlockIndexByHeight.resize(height + 1), then an entry for each of vConnect.
RegisteredWithoutResize(b, connected) ==
    [h \in 0..MaxHeight |->
        IF \E c \in connected : Height[c] = h
          THEN CHOOSE c \in connected : Height[c] = h
          ELSE byHeight[h]]
Registered(b, connected) ==
    [h \in 0..MaxHeight |->
        IF h > Height[b] THEN None
        ELSE IF \E c \in connected : Height[c] = h
               THEN CHOOSE c \in connected : Height[c] = h
               ELSE byHeight[h]]

\* "Register new best chain" and the assignments of "New best block".
Register ==
    /\ pc = "register"
    /\ byHeight' = Registered(Target, vConnect)
    /\ tip' = Target
    /\ attach' = attach \ {Target}
    /\ vConnect' = {}
    /\ pc' = "attach"
    /\ UNCHANGED <<invalid, status, cand, coinsTip, starting, ok, fileVars, dbVars, ibdSeen, crashes>>

-----------------------------------------------------------------------------
(* Exit, loss and restart.                                                 *)

\* Shutdown(): pblocktree->Flush() does nothing, pcoinsTip->Flush() writes.
\* It is reached from the idle loop, or by the interruption point before each
\* SetBestChain of ConnectBestBlock.
Shutdown ==
    /\ pc = "idle" \/ (pc = "attach" /\ attach # {})
    /\ crashes < MaxCrashes
    /\ crashes' = crashes + 1
    /\ coinsLog' = CoinsAtExit(coinsTip)
    /\ GoDown
    /\ UNCHANGED <<invalid, memVars, vConnect, fileVars, treeDB, treeLog, coinsDB, ibdSeen>>

\* The process dies; what it wrote is in the hands of the operating system.
Crash ==
    /\ pc # "down"
    /\ crashes < MaxCrashes
    /\ crashes' = crashes + 1
    /\ GoDown /\ vConnect' = {}
    /\ UNCHANGED <<invalid, memVars, fileVars, dbVars, ibdSeen>>

\* The machine loses power while the node runs: of what was not committed, a
\* prefix of each database log and any part of the block files survives.
PowerLoss(k, best, lostBlk, lostUndo) ==
    /\ AllowPowerLoss
    /\ pc # "down"
    /\ crashes < MaxCrashes
    /\ crashes' = crashes + 1
    /\ lostBlk \subseteq blk \ blkSynced
    /\ lostUndo \subseteq undo \ undoSynced
    /\ treeDB' = TreeAfter(k) /\ treeLog' = <<>>
    /\ coinsDB' = best /\ coinsLog' = <<>>
    /\ blk' = blk \ lostBlk /\ blkSynced' = blk'
    /\ undo' = undo \ lostUndo /\ undoSynced' = undo'
    /\ GoDown /\ vConnect' = {}
    /\ UNCHANGED <<invalid, memVars, fileOf, lastFile, ibdSeen>>

\* hashBestChain as the coins database holds it, log included.
CoinsBest == IF coinsLog = <<>> THEN coinsDB ELSE coinsLog[Len(coinsLog)]

\* VerifyDB finds the best block in the index and its chain readable.
Recoverable ==
    /\ StoredTree[CoinsBest] # {}
    /\ \A b \in Chain[CoinsBest] \ {Genesis} :
          "undo" \in StoredTree[b] /\ b \in blk /\ b \in undo

\* setBlockIndexValid as LoadBlockIndexDB rebuilds it.
LoadedIfConnected == {b \in Blocks : "undo" \in StoredTree[b] \/ b = Genesis}
LoadedCandidates ==
    {b \in Blocks : "data" \in StoredTree[b] /\ StoredTree[b] \cap FailedMask = {}}

\* LoadBlockIndexDB, VerifyDB and the ConnectBestBlock of AppInit2.  A node
\* that is not Recoverable does not start before the user rebuilds its files.
\* Opening a LevelDB database rewrites its log into committed tables.
Restart ==
    /\ pc = "down"
    /\ Recoverable
    /\ status' = StoredTree
    /\ cand' = LoadedCandidates
    /\ tip' = CoinsBest /\ coinsTip' = CoinsBest
    /\ byHeight' = [h \in 0..MaxHeight |->
          IF \E b \in Chain[CoinsBest] : Height[b] = h
            THEN CHOOSE b \in Chain[CoinsBest] : Height[b] = h ELSE None]
    /\ pc' = "best"
    /\ starting' = TRUE /\ ok' = TRUE
    /\ treeDB' = StoredTree /\ treeLog' = <<>>
    /\ coinsDB' = CoinsBest /\ coinsLog' = <<>>
    /\ UNCHANGED <<invalid, attach, vConnect, fileVars, ibdSeen, crashes>>

-----------------------------------------------------------------------------
CallStep ==
    \/ NothingBetter \/ AttachDone
    \/ \E b \in Blocks : MarkFailedChild(b) \/ ChooseAttach(b)
    \/ DisconnectFails
    \/ \E ibd \in IBD : ReadFails(ibd) \/ BlockInvalid(ibd)
    \/ \E ibd \in IBD, flush \in BOOLEAN : ViewFlushed(ibd, flush)
    \/ FlushBlockFile \/ SyncTree \/ FlushCoins \/ Register

Lose ==
    \E k \in 0..Len(treeLog), best \in {coinsDB} \union Range(coinsLog),
       lostBlk \in SUBSET (blk \ blkSynced), lostUndo \in SUBSET (undo \ undoSynced) :
          PowerLoss(k, best, lostBlk, lostUndo)

Next ==
    \/ \E b \in Blocks, roll \in BOOLEAN, ibd \in IBD : AcceptBlock(b, roll, ibd)
    \/ CallStep
    \/ DiskLow \/ Shutdown \/ Crash \/ Lose \/ Restart

Spec == Init /\ [][Next]_vars

\* The thread that holds cs_main keeps running.
FairSpec == Spec /\ WF_vars(CallStep)

-----------------------------------------------------------------------------
(* Properties.                                                             *)

Running == pc # "down"

\* setBlockIndexValid holds the indexed blocks that are not marked failed:
\* a failed block left in it would be chosen by ConnectBestBlock for ever, a
\* good block missing from it would never be chosen.
CandidatesSound == Running => cand = Indexed \ Failed

\* A block is marked failed only when it or a block below it is invalid,
\* through every path that marks one (InvalidBlockFound, FAILED_CHILD) and
\* across restarts.
OnlyInvalidFailed ==
    /\ \A b \in Failed : Chain[b] \cap invalid # {}
    /\ \A b \in Blocks : StoredTree[b] \cap FailedMask # {} => Chain[b] \cap invalid # {}

\* Every block and undo record that the index counts on can be read: so it is
\* unless power was lost with uncommitted data (in the initial download).
FilesIntact ==
    \A b \in Indexed : b \in blk /\ ("undo" \in status[b] => b \in undo)

\* Between calls no indexed block has more work than the tip, unless a block
\* below it (or itself) is known to have failed.
TipIsBest ==
    pc = "idle" /\ FilesIntact =>
        \A b \in Indexed : ChainWork[b] > ChainWork[tip] => Chain[b] \cap Failed # {}

\* No block of the chain that the coins are the result of is invalid.
ChainIsValid == Chain[coinsTip] \cap invalid = {} /\ Chain[CoinsBest] \cap invalid = {}

\* vBlockIndexByHeight is the chain of the tip and nothing else, after every
\* reorganisation to a longer, an equally long or a shorter chain.
MainChainRegistered ==
    Running => \A h \in 0..MaxHeight : \A b \in Blocks :
        byHeight[h] = b <=> b \in Chain[tip] /\ Height[b] = h

\* Outside SetBestChain the coins are those of the tip.
CoinsFollowTip == pc \in {"idle", "best"} => coinsTip = tip

\* A node that went down in any way finds, when it comes back, the best block
\* of its coins in the index, and the blocks and the undo data below it.  In
\* the initial download files are not committed and this is not promised.
NodeRestarts == pc = "down" /\ ~ ibdSeen => Recoverable

\* What is on disk for the chain of the tip suffices to leave it again.
TipCanBeLeft ==
    Running /\ (ibdSeen => FilesIntact) =>
        \A b \in Chain[coinsTip] \ {Genesis} : b \in undo /\ b \in blk

\* Until the first loss: whatever best block the coins database may come back
\* with, the index entries, the blocks and the undo data of its chain were
\* committed before it was written.  In the initial download this holds while
\* there is one block file: FlushBlockFile commits the last file only, and undo
\* data goes to the file of its block.
CoinsWrittenLast ==
    crashes = 0 /\ (ibdSeen => lastFile = 0) =>
        \A best \in {coinsDB} \union Range(coinsLog) :
            \A b \in Chain[best] \ {Genesis} :
                "undo" \in treeDB[b] /\ b \in blkSynced /\ b \in undoSynced

\* While the node runs the tip only moves to a chain with more work.
TipGainsWork ==
    [][(Running /\ Running' /\ tip' # tip) => ChainWork[tip'] > ChainWork[tip]]_vars

\* Seen by the users of pcoinsTip, with every step of every call, crash, loss
\* and restart: the coins move in one step, only to a valid chain of more work,
\* and come back as a chain that was followed and saved (module BestChain).
Best == INSTANCE BestChain
          WITH up <- Running, head <- coinsTip, saved <- <<coinsDB>> \o coinsLog
FollowsBestChain == Best!Spec

\* ConnectBestBlock returns.
ConnectReturns == pc = "best" ~> pc \in {"idle", "down"}
=============================================================================
