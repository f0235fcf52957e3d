------------------------------- MODULE TxPool -------------------------------
(***************************************************************************)
(* The memory pool (CTxMemPool in main.cpp) beside the chain whose coins   *)
(* it is checked against.  SetBestChain moves the coins from one chain to  *)
(* another, offers the transactions of the disconnected blocks to the pool *)
(* and takes the ones of the connected blocks, and what conflicts with     *)
(* them, out of it.  cs_main is held throughout: the calls it makes are    *)
(* the steps of pc, and nothing else runs between them.                    *)
(***************************************************************************)
EXTENDS Coins

CONSTANTS
    Contents,       \* the vtx of the blocks that may be mined, coinbase first
    BaseCoins,      \* the coins below the first block of the model
    BaseHeight,     \* the height of that base
    Standard,       \* the transactions that IsStandardTx and AreInputsStandard let through
    Checkpoint,     \* Checkpoints::GetTotalBlocksEstimate()
    AllowIBD,       \* pcoinsTip may keep its changes in memory
    None,           \* no entry of mapNextTx
    MaxChain,       \* bound on the blocks above the base
    MaxDisconnect   \* bound on vDisconnect.size()

\* The transactions below the model: the ones that have coins there, and what
\* they were paid from.
ClosedBelow(S) ==
    /\ \A p \in Txs : BaseCoins[p] # NoEntry => p \in S
    /\ \A p \in S : \A o \in Inputs(p) : o[1] \in S
History == {t \in Txs : \A S \in SUBSET Txs : ClosedBelow(S) => t \in S}

ASSUME PoolAssumption ==
    /\ \A vtx \in Contents :
          /\ vtx \in Seq(Txs) /\ vtx # <<>>
          /\ \A i \in 1..Len(vtx) : vtx[i] \in Coinbases <=> i = 1
          \* CheckBlock refuses a block that has a transaction twice.
          /\ IsInjective(vtx)
    \* The coins database has no entry that is wholly spent, and none of the
    \* genesis block, which is not connected.
    /\ BaseCoins = [t \in Txs |-> BaseCoins[t]]
    /\ \A t \in Txs : \/ BaseCoins[t] = NoEntry
                       \/ \E h \in 1..BaseHeight, outs \in (SUBSET Vout[t]) \ {{}} :
                             BaseCoins[t] = Entry(h, outs)
    \* What they spend is spent.
    /\ \A t \in History : \A o \in Inputs(t) : o[2] \notin BaseCoins[o[1]].outs
    /\ BaseHeight \in Nat \ {0} /\ Checkpoint \in Nat
    /\ Standard \subseteq Txs
    /\ AllowIBD \in BOOLEAN
    /\ None \notin Txs
    /\ MaxChain \in Nat \ {0} /\ MaxDisconnect \in Nat

VARIABLES
    pc,         \* "idle", or the loop of SetBestChain that runs
    chain,      \* the blocks above the base, with their undo data
    coins,      \* pcoinsTip
    mapTx,      \* the transactions of the pool
    mapNextTx,  \* which of them spends an outpoint
    vResurrect, vDelete,    \* what SetBestChain collected
    next        \* position in vResurrect or in vDelete

vars == <<pc, chain, coins, mapTx, mapNextTx, vResurrect, vDelete, next>>

Height == BaseHeight + Len(chain)

TypeOK ==
    /\ pc \in {"idle", "resurrect", "delete"}
    /\ Len(chain) <= MaxChain
    /\ \A i \in 1..Len(chain) : chain[i].vtx \in Contents
    /\ \A t \in Txs : coins[t].outs \subseteq Vout[t]
    /\ mapTx \subseteq Standard \ Coinbases
    /\ mapNextTx \in [Outputs -> mapTx \union {None}]
    /\ vResurrect \in Seq(Txs \ Coinbases) /\ vDelete \in Seq(Txs)
    /\ next \in 1..(Len(vResurrect) + Len(vDelete) + 1)

Init ==
    /\ pc = "idle"
    /\ chain = <<>> /\ coins = BaseCoins
    /\ mapTx = {} /\ mapNextTx = [o \in Outputs |-> None]
    /\ vResurrect = <<>> /\ vDelete = <<>> /\ next = 1

-----------------------------------------------------------------------------
(* CTxMemPool.                                                             *)

\* CCoinsViewMemPool over pcoinsTip: a transaction of the pool has all of its
\* outputs, whatever the pool spends of them, at a height that no coinbase
\* rule asks for.
PoolView == [t \in Txs |-> IF HaveCoins(coins, t) THEN coins[t]
                           ELSE IF t \in mapTx THEN Entry(Height + 1, Vout[t])
                           ELSE NoEntry]

\* CTxMemPool::accept returns true: not a coinbase, standard, not in the pool,
\* in conflict with nothing of the pool, not known to the coins, its inputs
\* there, unspent and mature.
AcceptsSpender(t) ==
    /\ t \notin Coinbases /\ t \in Standard
    /\ t \notin mapTx
    /\ ~ HaveCoins(PoolView, t)
    /\ CheckInputs(PoolView, t, Height + 1)
Accepts(t) ==
    /\ t \notin Coinbases /\ t \in Standard
    /\ t \notin mapTx
    /\ \A o \in Inputs(t) : mapNextTx[o] = None
    /\ ~ HaveCoins(PoolView, t)
    /\ CheckInputs(PoolView, t, Height + 1)

AddUnchecked(t) ==
    /\ mapTx' = mapTx \union {t}
    /\ mapNextTx' = [o \in Outputs |-> IF o \in Inputs(t) THEN t ELSE mapNextTx[o]]

\* remove(tx, true) follows mapNextTx from the outputs of tx: what it takes out
\* with t is the least set that contains t and the spenders of its outputs.
SpendersIn(S) == \A o \in Outputs : (o[1] \in S /\ mapNextTx[o] # None) => mapNextTx[o] \in S
WithDescendants(t) ==
    {d \in mapTx : \A S \in SUBSET mapTx : (t \in S /\ SpendersIn(S)) => d \in S}

\* The entries of mapNextTx that remove erases, and the transactions of S go.
EraseFirstInput(S) ==
    /\ mapTx' = mapTx \ S
    /\ mapNextTx' = [o \in Outputs |-> IF \E t \in S : o = Vin[t][1] THEN None ELSE mapNextTx[o]]
Erase(S) ==
    /\ mapTx' = mapTx \ S
    /\ mapNextTx' = [o \in Outputs |-> IF \E t \in S : o \in Inputs(t) THEN None ELSE mapNextTx[o]]

\* mempool.remove(t), which leaves the descendants, and then
\* mempool.removeConflicts(t), which takes out every other transaction that
\* spends an input of t, with its descendants.
RemovedWithoutConflicts(t) == {t} \cap mapTx
RemovedWithoutDescendants(t) ==
    ({t} \union {mapNextTx[o] : o \in Inputs(t)}) \cap mapTx
Removed(t) ==
    ({t} \cap mapTx)
        \union UNION {WithDescendants(c) : c \in ({mapNextTx[o] : o \in Inputs(t)} \ {None, t})}

-----------------------------------------------------------------------------
(* Actions.                                                                *)

\* A transaction from a peer, the wallet or sendrawtransaction.  The fee rules
\* and the rate limiter may refuse it too: then nothing happens.
Accept(t) ==
    /\ pc = "idle"
    /\ Accepts(t)
    /\ AddUnchecked(t)
    /\ UNCHANGED <<pc, chain, coins, vResurrect, vDelete, next>>

\* The view after the blocks above height BaseHeight + keep are disconnected,
\* tip first; and after the blocks of vtxs are connected on top of it.
Disconnected(keep) ==
    FoldLeft(LAMBDA a, i :
                 LET j == Len(chain) + 1 - i
                     r == DisconnectBlock(a.view, chain[j].vtx, chain[j].undo, BaseHeight + j)
                 IN  [ok |-> a.ok /\ r.ok, view |-> r.view],
             [ok |-> TRUE, view |-> coins],
             [i \in 1..(Len(chain) - keep) |-> i])
Connected(view, keep, vtxs) ==
    FoldLeft(LAMBDA a, vtx :
                 LET r == ConnectBlock(a.view, vtx, BaseHeight + keep + Len(a.blocks) + 1)
                 IN  [ok |-> a.ok /\ r.ok, view |-> r.view,
                      blocks |-> Append(a.blocks, [vtx |-> vtx, undo |-> r.undo])],
             [ok |-> TRUE, view |-> view, blocks |-> <<>>],
             vtxs)

\* vResurrect: tip first, and in the order of the block within one; not the
\* coinbases, and not from below the last checkpoint.
Collect(keep) ==
    FoldLeft(LAMBDA s, i :
                 LET j == Len(chain) + 1 - i
                 IN  IF BaseHeight + j > Checkpoint THEN s \o Tail(chain[j].vtx) ELSE s,
             <<>>,
             [i \in 1..(Len(chain) - keep) |-> i])

\* SetBestChain succeeds in leaving the blocks above keep for the blocks vtxs;
\* when a block does not connect, the view is dropped and nothing happens.
\* The changes stay in the cache (no flush) in the initial download only.
SetBestChain(keep, vtxs, flush) ==
    /\ pc = "idle"
    /\ flush \/ AllowIBD
    /\ Len(chain) - keep <= MaxDisconnect
    /\ keep + Len(vtxs) <= MaxChain
    /\ LET d == Disconnected(keep)
           c == Connected(d.view, keep, vtxs)
       IN  /\ d.ok /\ c.ok
           /\ coins' = IF flush THEN Flushed(c.view) ELSE c.view
           /\ chain' = SubSeq(chain, 1, keep) \o c.blocks
    /\ vResurrect' = Collect(keep)
    /\ vDelete' = FlattenSeq(vtxs)
    /\ next' = 1
    /\ pc' = "resurrect"
    /\ UNCHANGED <<mapTx, mapNextTx>>

\* "Resurrect memory transactions": validation errors are ignored.
Resurrect ==
    /\ pc = "resurrect"
    /\ next <= Len(vResurrect)
    /\ IF Accepts(vResurrect[next])
         THEN AddUnchecked(vResurrect[next])
         ELSE UNCHANGED <<mapTx, mapNextTx>>
    /\ next' = next + 1
    /\ UNCHANGED <<pc, chain, coins, vResurrect, vDelete>>

ResurrectDone ==
    /\ pc = "resurrect"
    /\ next > Len(vResurrect)
    /\ pc' = "delete" /\ next' = 1
    /\ UNCHANGED <<chain, coins, mapTx, mapNextTx, vResurrect, vDelete>>

\* "Delete redundant memory transactions".
Delete ==
    /\ pc = "delete"
    /\ next <= Len(vDelete)
    /\ Erase(Removed(vDelete[next]))
    /\ next' = next + 1
    /\ UNCHANGED <<pc, chain, coins, vResurrect, vDelete>>

DeleteDone ==
    /\ pc = "delete"
    /\ next > Len(vDelete)
    /\ pc' = "idle" /\ next' = 1
    /\ vResurrect' = <<>> /\ vDelete' = <<>>
    /\ UNCHANGED <<chain, coins, mapTx, mapNextTx>>

\* A reorganisation connects at most one block more than it disconnects: the
\* callers ask for each block that has more work than the tip in turn.
Branches(n) == UNION {[1..m -> Contents] : m \in 1..n}

Next ==
    \/ \E t \in Txs : Accept(t)
    \/ \E keep \in 0..Len(chain) : \E vtxs \in Branches(Len(chain) - keep + 1), flush \in BOOLEAN :
          SetBestChain(keep, vtxs, flush)
    \/ Resurrect \/ ResurrectDone \/ Delete \/ DeleteDone

Spec == Init /\ [][Next]_vars

-----------------------------------------------------------------------------
(* Properties.                                                             *)

\* mapNextTx and mapTx describe the same pool through every accept, remove and
\* removeConflicts: an outpoint has the transaction of the pool that spends it
\* and no other, so that no two transactions of the pool spend the same coin.
PoolIndexed ==
    \A o \in Outputs : \A t \in Txs : mapNextTx[o] = t <=> t \in mapTx /\ o \in Inputs(t)

\* The transactions of the chain.
Confirmed == UNION {Range(chain[i].vtx) : i \in 1..Len(chain)}

\* Between calls no transaction of the pool is in the chain, and none spends
\* an output that the chain has spent: what SetBestChain connected is gone from
\* the pool together with all that conflicts with it.
PoolUnconfirmed ==
    pc = "idle" =>
        /\ mapTx \cap Confirmed = {}
        /\ \A t \in mapTx, c \in Confirmed : Inputs(t) \cap Inputs(c) = {}

\* Whatever was disconnected and connected on the way, the coins are those of
\* a node that connected the blocks of the chain and nothing else.
CoinsOfChain ==
    LET replay == Connected(BaseCoins, 0, [i \in 1..Len(chain) |-> chain[i].vtx])
    IN  replay.ok /\ Flushed(coins) = Flushed(replay.view)

\* DisconnectBlock finds nothing to complain of, down to any block of the chain.
DisconnectClean == pc = "idle" => \A keep \in 0..Len(chain) : Disconnected(keep).ok

\* A transaction that leaves the pool without being confirmed, because a block
\* spends one of its inputs, takes all that spends it along: removeConflicts
\* leaves no transaction behind that can never be mined.
ConflictsLeaveWhole ==
    [][\A t \in (mapTx \ mapTx') \ Confirmed' : \A o \in Outputs :
          o[1] = t => mapNextTx'[o] = None]_vars

\* "all transactions in the memory pool should connect to either transactions
\* in the chain or other transactions in the memory pool" (CreateNewBlock).
PoolConnects ==
    pc = "idle" => \A t \in mapTx : \A o \in Inputs(t) : HaveCoins(coins, o[1]) \/ o[1] \in mapTx
=============================================================================
