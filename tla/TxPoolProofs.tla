---------------------------- MODULE TxPoolProofs ----------------------------
(***************************************************************************)
(* Proofs about the memory pool and the coins of the chain beside it, for  *)
(* any set of transactions and blocks, any chain and any reorganisation.   *)
(*                                                                         *)
(* What the folds of Coins and TxPool compute is shown by induction on the *)
(* positions of a sequence, with the lemmas of FoldProofs.                 *)
(***************************************************************************)
EXTENDS TxPool, FoldProofs

----------------------------------------------------------------------------
(* Spending.                                                               *)

\* Coins views of the right shape; the ones a chain can have are Sane.
Indices == UNION {Vout[t] : t \in Txs}
Views == [Txs -> [height : Int, outs : SUBSET Indices]]

\* An outpoint that is an input names an output of a transaction.
LEMMA InputIs ==
  ASSUME NEW t \in Txs, NEW i \in 1..Len(Vin[t])
  PROVE  /\ Vin[t][i] \in Outputs
         /\ Vin[t][i][1] \in Txs /\ Vin[t][i][2] \in Vout[Vin[t][i][1]]
         /\ Vin[t][i][2] \in Indices /\ Vin[t][i] = <<Vin[t][i][1], Vin[t][i][2]>>
<1>1. Vin[t][i] \in Outputs
  <2> HIDE DEF Outputs
  <2>1. Vin[t] \in Seq(Outputs)
    BY TxAssumption
  <2> QED BY <2>1
<1>2. PICK p \in Txs : Vin[t][i] \in {p} \X Vout[p]
  BY <1>1 DEF Outputs
<1> QED BY <1>1, <1>2 DEF Indices

SpendAcc == [view : Views, undo : Seq(Int)]

\* A spend leaves a view.
LEMMA SpendType ==
  ASSUME NEW a \in SpendAcc, NEW t \in Txs, NEW i \in 1..Len(Vin[t])
  PROVE  Spend(a, Vin[t][i]) \in SpendAcc
<1>1. Vin[t][i][1] \in Txs
  BY InputIs
<1> QED BY <1>1 DEF Spend, SpendAcc, Views, Pruned, Entry

SpendRuns(view, t, acc) ==
  /\ acc \in [0..Len(Vin[t]) -> SpendAcc]
  /\ acc[0] = [view |-> view, undo |-> <<>>]
  /\ \A k \in 1..Len(Vin[t]) : acc[k] = Spend(acc[k - 1], Vin[t][k])

\* UpdateCoins is a run of spends, and then the outputs of the transaction.
LEMMA SpendRun ==
  ASSUME NEW view \in Views, NEW t \in Txs, NEW h
  PROVE  \E acc :
            /\ SpendRuns(view, t, acc)
            /\ UpdateCoins(view, t, h) =
                 [view |-> [acc[Len(Vin[t])].view EXCEPT ![t] = Entry(h, Vout[t])],
                  undo |-> acc[Len(Vin[t])].undo]
<1> DEFINE s == Vin[t]
           n == Len(s)
           base == [view |-> view, undo |-> <<>>]
           T == [k \in 1..n |-> [a \in SpendAcc |-> Spend(a, s[k])]]
           Eq(g) == g = [u \in SUBSET (1..n) |->
                            IF u = {} THEN base ELSE Spend(g[u \ {Max(u)}], s[Max(u)])]
           iter == CHOOSE g : Eq(g)
<1>1. n \in Nat /\ DOMAIN s = 1..n
  BY TxAssumption
<1>2. Steps(n, SpendAcc, T)
  BY SpendType DEF Steps
<1>3. base \in SpendAcc
  BY DEF SpendAcc
<1>4. UpdateCoins(view, t, h) = [iter[1..n] EXCEPT !.view[t] = Entry(h, Vout[t])]
  BY <1>1 DEF UpdateCoins, FoldLeft, MapThenFoldSet
<1>5. \A u \in SUBSET (1..n) : u # {} => Max(u) \in 1..n
  BY <1>1, MaxIn
<1> HIDE DEF s, n, base
<1>6. \E g : Eq(g)
  <2>1. PICK g : g \in [SUBSET (1..n) -> SpendAcc] /\ LeftFold(n, SpendAcc, base, T, g)
    <3> HIDE DEF T
    <3> QED BY <1>1, <1>2, <1>3, FoldLeftExists
  <2>2. ASSUME NEW u \in SUBSET (1..n), u # {}
        PROVE  g[u] = Spend(g[u \ {Max(u)}], s[Max(u)])
    <3>1. g[u \ {Max(u)}] \in SpendAcc
      BY <2>1
    <3> QED BY <1>5, <2>1, <2>2, <3>1 DEF LeftFold
  <2>3. g[{}] = base
    BY <2>1 DEF LeftFold
  <2>4. Eq(g)
    BY <2>1, <2>2, <2>3
  <2> HIDE DEF Eq
  <2> QED BY <2>4
<1>7. Eq(iter)
  <2> HIDE DEF Eq
  <2> QED BY <1>6
<1> HIDE DEF iter
<1>8. LeftFold(n, SpendAcc, base, T, iter)
  BY <1>5, <1>7 DEF LeftFold
<1>9. PICK acc : LeftRuns(n, SpendAcc, base, T, acc) /\ acc[n] = iter[1..n]
  <2> HIDE DEF T, Eq
  <2> QED BY <1>1, <1>2, <1>3, <1>8, LeftRun
<1>10. acc \in [0..n -> SpendAcc] /\ acc[0] = base
  BY <1>9 DEF LeftRuns
<1>11. ASSUME NEW k \in 1..n PROVE acc[k] = Spend(acc[k - 1], s[k])
  <2>1. acc[k - 1] \in SpendAcc
    BY <1>1, <1>10
  <2> QED BY <1>9, <2>1 DEF LeftRuns
<1>12. UpdateCoins(view, t, h) = [view |-> [acc[n].view EXCEPT ![t] = Entry(h, Vout[t])],
                                  undo |-> acc[n].undo]
  <2>1. acc[n] \in SpendAcc
    BY <1>1, <1>10
  <2>2. acc[n] = [view |-> acc[n].view, undo |-> acc[n].undo]
    BY <2>1 DEF SpendAcc
  <2> QED BY <1>4, <1>9, <2>2
<1> QED BY <1>9, <1>10, <1>11, <1>12 DEF s, n, base, SpendRuns

RestoreAcc == [ok : BOOLEAN, view : Views]

\* An output that comes back leaves a view.
LEMMA RestoreType ==
  ASSUME NEW a \in RestoreAcc, NEW t \in Txs, NEW i \in 1..Len(Vin[t]), NEW u \in Int
  PROVE  Restore(a, Vin[t][i], u) \in RestoreAcc
<1>1. Vin[t][i][1] \in Txs /\ Vin[t][i][2] \in Indices
  BY InputIs
<1> QED BY <1>1 DEF Restore, RestoreAcc, Views, Entry, IsPruned

RestoreRuns(a0, t, undo, h, acc) ==
  /\ acc \in [0..Len(Vin[t]) -> RestoreAcc]
  /\ acc[Len(Vin[t])] = [ok |-> a0.ok /\ a0.view[t] = Entry(h, Vout[t]),
                         view |-> [a0.view EXCEPT ![t] = Pruned]]
  /\ \A k \in 1..Len(Vin[t]) : acc[k - 1] = Restore(acc[k], Vin[t][k], undo[k])

\* DisconnectTx takes the outputs away and is a run that restores the inputs.
LEMMA RestoreRun ==
  ASSUME NEW a0 \in RestoreAcc, NEW t \in Txs, NEW undo \in [1..Len(Vin[t]) -> Int], NEW h
  PROVE  \E acc : RestoreRuns(a0, t, undo, h, acc) /\ DisconnectTx(a0, t, undo, h) = acc[0]
<1> DEFINE n == Len(Vin[t])
           base == [ok |-> a0.ok /\ a0.view[t] = Entry(h, Vout[t]),
                    view |-> [a0.view EXCEPT ![t] = Pruned]]
           q == [i \in 1..n |-> i]
           T == [k \in 1..n |-> [a \in RestoreAcc |-> Restore(a, Vin[t][k], undo[k])]]
           Eq(g) == g = [u \in SUBSET (1..n) |->
                            IF u = {} THEN base
                            ELSE Restore(g[u \ {Min(u)}], Vin[t][q[Min(u)]], undo[q[Min(u)]])]
           iter == CHOOSE g : Eq(g)
<1>1. n \in Nat /\ DOMAIN q = 1..n
  BY TxAssumption
<1>2. Steps(n, RestoreAcc, T)
  BY RestoreType DEF Steps
<1>3. base \in RestoreAcc
  BY DEF RestoreAcc, Views, Pruned, Entry
<1>4. DisconnectTx(a0, t, undo, h) = iter[1..n]
  BY <1>1 DEF DisconnectTx, FoldRight, MapThenFoldSet
<1>5. \A u \in SUBSET (1..n) : u # {} => Min(u) \in 1..n
  BY <1>1, MinIn
<1> HIDE DEF n, base
<1>6. \E g : Eq(g)
  <2>1. PICK g : g \in [SUBSET (1..n) -> RestoreAcc] /\ RightFold(n, RestoreAcc, base, T, g)
    <3> HIDE DEF T
    <3> QED BY <1>1, <1>2, <1>3, FoldRightExists
  <2>2. ASSUME NEW u \in SUBSET (1..n), u # {}
        PROVE  g[u] = Restore(g[u \ {Min(u)}], Vin[t][q[Min(u)]], undo[q[Min(u)]])
    <3>1. g[u \ {Min(u)}] \in RestoreAcc
      BY <2>1
    <3> QED BY <1>5, <2>1, <2>2, <3>1 DEF RightFold
  <2>3. g[{}] = base
    BY <2>1 DEF RightFold
  <2>4. Eq(g)
    BY <2>1, <2>2, <2>3
  <2> HIDE DEF Eq
  <2> QED BY <2>4
<1>7. Eq(iter)
  <2> HIDE DEF Eq
  <2> QED BY <1>6
<1> HIDE DEF iter
<1>8. RightFold(n, RestoreAcc, base, T, iter)
  BY <1>5, <1>7 DEF RightFold
<1>9. PICK acc : RightRuns(n, RestoreAcc, base, T, acc) /\ acc[0] = iter[1..n]
  <2> HIDE DEF T, Eq
  <2> QED BY <1>1, <1>2, <1>3, <1>8, RightRun
<1>10. acc \in [0..n -> RestoreAcc] /\ acc[n] = base
  BY <1>9 DEF RightRuns
<1>11. ASSUME NEW k \in 1..n PROVE acc[k - 1] = Restore(acc[k], Vin[t][k], undo[k])
  <2>1. acc[k] \in RestoreAcc
    BY <1>1, <1>10
  <2> QED BY <1>9, <2>1 DEF RightRuns
<1> QED BY <1>4, <1>9, <1>10, <1>11 DEF n, base, RestoreRuns

----------------------------------------------------------------------------
(* The loops over the transactions of a block and over blocks.             *)

ConnectAcc == [ok : BOOLEAN, view : Views, undo : Seq(Seq(Int))]

\* UpdateCoins leaves a view and an entry of undo data for each input.
LEMMA UpdateType ==
  ASSUME NEW view \in Views, NEW t \in Txs, NEW h \in Int
  PROVE  UpdateCoins(view, t, h) \in SpendAcc
<1>1. PICK acc :
            /\ SpendRuns(view, t, acc)
            /\ UpdateCoins(view, t, h) =
                 [view |-> [acc[Len(Vin[t])].view EXCEPT ![t] = Entry(h, Vout[t])],
                  undo |-> acc[Len(Vin[t])].undo]
  BY SpendRun
<1>2. acc[Len(Vin[t])] \in SpendAcc
  BY <1>1, TxAssumption DEF SpendRuns
<1>3. Vout[t] \in SUBSET Indices
  BY DEF Indices
<1> QED BY <1>1, <1>2, <1>3 DEF SpendAcc, Views, Entry

\* So does one turn of the loop of ConnectBlock.
LEMMA ConnectTxType ==
  ASSUME NEW a \in ConnectAcc, NEW t \in Txs, NEW h \in Int
  PROVE  ConnectTx(a, t, h) \in ConnectAcc
<1>1. a.view \in Views /\ a.undo \in Seq(Seq(Int))
  BY DEF ConnectAcc
<1>2. /\ UpdateCoins(a.view, t, h).view \in Views
      /\ UpdateCoins(a.view, t, h).undo \in Seq(Int)
  BY <1>1, UpdateType DEF SpendAcc
<1>3. CASE a.ok /\ CheckInputs(a.view, t, h)
  BY <1>1, <1>2, <1>3 DEF ConnectTx, ConnectAcc
<1>4. CASE ~ (a.ok /\ CheckInputs(a.view, t, h))
  <2>1. ConnectTx(a, t, h) = [a EXCEPT !.ok = FALSE]
    BY <1>4 DEF ConnectTx
  <2> QED BY <2>1 DEF ConnectAcc
<1> QED BY <1>3, <1>4

ConnectRuns(view, vtx, h, acc) ==
  /\ acc \in [0..Len(vtx) -> ConnectAcc]
  /\ acc[0] = [ok |-> \A i \in 1..Len(vtx) : IsPruned(view[vtx[i]]),
                  view |-> view, undo |-> <<>>]
  /\ \A k \in 1..Len(vtx) : acc[k] = ConnectTx(acc[k - 1], vtx[k], h)

\* ConnectBlock is a run of ConnectTx after the test of BIP30.
LEMMA ConnectRun ==
  ASSUME NEW view \in Views, NEW vtx \in Seq(Txs), NEW h \in Int
  PROVE  \E acc : ConnectRuns(view, vtx, h, acc) /\ ConnectBlock(view, vtx, h) = acc[Len(vtx)]
<1> DEFINE n == Len(vtx)
           base == [ok |-> \A i \in 1..Len(vtx) : IsPruned(view[vtx[i]]),
                    view |-> view, undo |-> <<>>]
           T == [k \in 1..n |-> [a \in ConnectAcc |-> ConnectTx(a, vtx[k], h)]]
           Eq(g) == g = [u \in SUBSET (1..n) |->
                            IF u = {} THEN base
                            ELSE ConnectTx(g[u \ {Max(u)}], vtx[Max(u)], h)]
           iter == CHOOSE g : Eq(g)
<1>1. n \in Nat /\ DOMAIN vtx = 1..n
  OBVIOUS
<1>2. Steps(n, ConnectAcc, T)
  BY ConnectTxType DEF Steps
<1>3. base \in ConnectAcc
  BY DEF ConnectAcc
<1>4. ConnectBlock(view, vtx, h) = iter[1..n]
  BY <1>1 DEF ConnectBlock, FoldLeft, MapThenFoldSet
<1>5. \A u \in SUBSET (1..n) : u # {} => Max(u) \in 1..n
  BY <1>1, MaxIn
<1> HIDE DEF n, base
<1>6. \E g : Eq(g)
  <2>1. PICK g : g \in [SUBSET (1..n) -> ConnectAcc] /\ LeftFold(n, ConnectAcc, base, T, g)
    <3> HIDE DEF T
    <3> QED BY <1>1, <1>2, <1>3, FoldLeftExists
  <2>2. ASSUME NEW u \in SUBSET (1..n), u # {}
        PROVE  g[u] = ConnectTx(g[u \ {Max(u)}], vtx[Max(u)], h)
    <3>1. g[u \ {Max(u)}] \in ConnectAcc
      BY <2>1
    <3> QED BY <1>5, <2>1, <2>2, <3>1 DEF LeftFold
  <2>3. g[{}] = base
    BY <2>1 DEF LeftFold
  <2>4. Eq(g)
    BY <2>1, <2>2, <2>3
  <2> HIDE DEF Eq
  <2> QED BY <2>4
<1>7. Eq(iter)
  <2> HIDE DEF Eq
  <2> QED BY <1>6
<1> HIDE DEF iter
<1>8. LeftFold(n, ConnectAcc, base, T, iter)
  BY <1>5, <1>7 DEF LeftFold
<1>9. PICK acc : LeftRuns(n, ConnectAcc, base, T, acc) /\ acc[n] = iter[1..n]
  <2> HIDE DEF T, Eq
  <2> QED BY <1>1, <1>2, <1>3, <1>8, LeftRun
<1>10. acc \in [0..n -> ConnectAcc] /\ acc[0] = base
  BY <1>9 DEF LeftRuns
<1>11. ASSUME NEW k \in 1..n PROVE acc[k] = ConnectTx(acc[k - 1], vtx[k], h)
  <2>1. acc[k - 1] \in ConnectAcc
    BY <1>1, <1>10
  <2> QED BY <1>9, <2>1 DEF LeftRuns
<1> QED BY <1>4, <1>9, <1>10, <1>11 DEF n, base, ConnectRuns

\* Undo data of the right shape for the transactions of a block.
UndoOf(vtx) == {undo \in Seq(Seq(Int)) : /\ Len(undo) = Len(vtx)
                                         /\ \A i \in 1..Len(vtx) : Len(undo[i]) = Len(Vin[vtx[i]])}

\* DisconnectTx leaves a view.
LEMMA DisconnectTxType ==
  ASSUME NEW a \in RestoreAcc, NEW t \in Txs, NEW undo \in Seq(Int), Len(undo) = Len(Vin[t]), NEW h
  PROVE  DisconnectTx(a, t, undo, h) \in RestoreAcc
<1>1. undo \in [1..Len(Vin[t]) -> Int] /\ Len(Vin[t]) \in Nat
  OBVIOUS
<1>2. PICK acc : RestoreRuns(a, t, undo, h, acc) /\ DisconnectTx(a, t, undo, h) = acc[0]
  BY <1>1, RestoreRun
<1> QED BY <1>1, <1>2 DEF RestoreRuns

DisconnectRuns(view, vtx, undo, h, acc) ==
  /\ acc \in [0..Len(vtx) -> RestoreAcc]
  /\ acc[Len(vtx)] = [ok |-> TRUE, view |-> view]
  /\ \A k \in 1..Len(vtx) : acc[k - 1] = DisconnectTx(acc[k], vtx[k], undo[k], h)

\* DisconnectBlock is a run of DisconnectTx from the last transaction on.
LEMMA DisconnectRun ==
  ASSUME NEW view \in Views, NEW vtx \in Seq(Txs), NEW undo \in UndoOf(vtx), NEW h
  PROVE  \E acc : DisconnectRuns(view, vtx, undo, h, acc) /\ DisconnectBlock(view, vtx, undo, h) = acc[0]
<1> DEFINE n == Len(vtx)
           base == [ok |-> TRUE, view |-> view]
           q == [i \in 1..n |-> i]
           T == [k \in 1..n |-> [a \in RestoreAcc |-> DisconnectTx(a, vtx[k], undo[k], h)]]
           Eq(g) == g = [u \in SUBSET (1..n) |->
                            IF u = {} THEN base
                            ELSE DisconnectTx(g[u \ {Min(u)}], vtx[q[Min(u)]], undo[q[Min(u)]], h)]
           iter == CHOOSE g : Eq(g)
<1>1. n \in Nat /\ DOMAIN q = 1..n
  OBVIOUS
<1>2. Steps(n, RestoreAcc, T)
  <2>1. ASSUME NEW k \in 1..n, NEW a \in RestoreAcc
        PROVE  DisconnectTx(a, vtx[k], undo[k], h) \in RestoreAcc
    <3>1. vtx[k] \in Txs /\ undo[k] \in Seq(Int) /\ Len(undo[k]) = Len(Vin[vtx[k]])
      BY DEF UndoOf
    <3> QED BY <3>1, DisconnectTxType
  <2> QED BY <2>1 DEF Steps
<1>3. base \in RestoreAcc
  BY DEF RestoreAcc
<1>4. DisconnectBlock(view, vtx, undo, h) = iter[1..n]
  BY <1>1 DEF DisconnectBlock, FoldRight, MapThenFoldSet
<1>5. \A u \in SUBSET (1..n) : u # {} => Min(u) \in 1..n
  BY <1>1, MinIn
<1> HIDE DEF n, base
<1>6. \E g : Eq(g)
  <2>1. PICK g : g \in [SUBSET (1..n) -> RestoreAcc] /\ RightFold(n, RestoreAcc, base, T, g)
    <3> HIDE DEF T
    <3> QED BY <1>1, <1>2, <1>3, FoldRightExists
  <2>2. ASSUME NEW u \in SUBSET (1..n), u # {}
        PROVE  g[u] = DisconnectTx(g[u \ {Min(u)}], vtx[q[Min(u)]], undo[q[Min(u)]], h)
    <3>1. g[u \ {Min(u)}] \in RestoreAcc
      BY <2>1
    <3> QED BY <1>5, <2>1, <2>2, <3>1 DEF RightFold
  <2>3. g[{}] = base
    BY <2>1 DEF RightFold
  <2>4. Eq(g)
    BY <2>1, <2>2, <2>3
  <2> HIDE DEF Eq
  <2> QED BY <2>4
<1>7. Eq(iter)
  <2> HIDE DEF Eq
  <2> QED BY <1>6
<1> HIDE DEF iter
<1>8. RightFold(n, RestoreAcc, base, T, iter)
  BY <1>5, <1>7 DEF RightFold
<1>9. PICK acc : RightRuns(n, RestoreAcc, base, T, acc) /\ acc[0] = iter[1..n]
  <2> HIDE DEF T, Eq
  <2> QED BY <1>1, <1>2, <1>3, <1>8, RightRun
<1>10. acc \in [0..n -> RestoreAcc] /\ acc[n] = base
  BY <1>9 DEF RightRuns
<1>11. ASSUME NEW k \in 1..n PROVE acc[k - 1] = DisconnectTx(acc[k], vtx[k], undo[k], h)
  <2>1. acc[k] \in RestoreAcc
    BY <1>1, <1>10
  <2> QED BY <1>9, <2>1 DEF RightRuns
<1> QED BY <1>4, <1>9, <1>10, <1>11 DEF n, base, DisconnectRuns

\* A block of the chain, with its undo data, and the loop over several.
BlockRec == [vtx : Seq(Txs), undo : Seq(Seq(Int))]
ConnectedAcc == [ok : BOOLEAN, view : Views, blocks : Seq(BlockRec)]
ConnectNext(a, vtx, keep) ==
  LET r == ConnectBlock(a.view, vtx, BaseHeight + keep + Len(a.blocks) + 1)
  IN  [ok |-> a.ok /\ r.ok, view |-> r.view,
       blocks |-> Append(a.blocks, [vtx |-> vtx, undo |-> r.undo])]
DisconnectNext(a, i) ==
  LET j == Len(chain) + 1 - i
      r == DisconnectBlock(a.view, chain[j].vtx, chain[j].undo, BaseHeight + j)
  IN  [ok |-> a.ok /\ r.ok, view |-> r.view]

\* ConnectBlock leaves a view and undo data.
LEMMA ConnectType ==
  ASSUME NEW view \in Views, NEW vtx \in Seq(Txs), NEW h \in Int
  PROVE  ConnectBlock(view, vtx, h) \in ConnectAcc
<1>1. PICK acc : ConnectRuns(view, vtx, h, acc) /\ ConnectBlock(view, vtx, h) = acc[Len(vtx)]
  BY ConnectRun
<1> QED BY <1>1 DEF ConnectRuns

ConnectedRuns(view, keep, vtxs, acc) ==
  /\ acc \in [0..Len(vtxs) -> ConnectedAcc]
  /\ acc[0] = [ok |-> TRUE, view |-> view, blocks |-> <<>>]
  /\ \A k \in 1..Len(vtxs) : acc[k] = ConnectNext(acc[k - 1], vtxs[k], keep)

\* Connecting several blocks is a run of ConnectBlock.
LEMMA ConnectedRun ==
  ASSUME NEW view \in Views, NEW keep \in Nat, NEW vtxs \in Seq(Seq(Txs))
  PROVE  \E acc : ConnectedRuns(view, keep, vtxs, acc) /\ Connected(view, keep, vtxs) = acc[Len(vtxs)]
<1> DEFINE n == Len(vtxs)
           base == [ok |-> TRUE, view |-> view, blocks |-> <<>>]
           T == [k \in 1..n |-> [a \in ConnectedAcc |-> ConnectNext(a, vtxs[k], keep)]]
           Eq(g) == g = [u \in SUBSET (1..n) |->
                            IF u = {} THEN base
                            ELSE ConnectNext(g[u \ {Max(u)}], vtxs[Max(u)], keep)]
           iter == CHOOSE g : Eq(g)
<1>1. n \in Nat /\ DOMAIN vtxs = 1..n
  OBVIOUS
<1>2. Steps(n, ConnectedAcc, T)
  <2>1. ASSUME NEW k \in 1..n, NEW a \in ConnectedAcc
        PROVE  ConnectNext(a, vtxs[k], keep) \in ConnectedAcc
    <3>1. /\ vtxs[k] \in Seq(Txs) /\ a.view \in Views /\ a.blocks \in Seq(BlockRec)
          /\ BaseHeight + keep + Len(a.blocks) + 1 \in Int
      BY PoolAssumption DEF ConnectedAcc
    <3>2. ConnectBlock(a.view, vtxs[k], BaseHeight + keep + Len(a.blocks) + 1) \in ConnectAcc
      BY <3>1, ConnectType
    <3> QED BY <3>1, <3>2 DEF ConnectNext, ConnectedAcc, ConnectAcc, BlockRec
  <2> QED BY <2>1 DEF Steps
<1>3. base \in ConnectedAcc
  BY DEF ConnectedAcc
<1>4. Connected(view, keep, vtxs) = iter[1..n]
  BY <1>1 DEF Connected, ConnectNext, FoldLeft, MapThenFoldSet
<1>5. \A u \in SUBSET (1..n) : u # {} => Max(u) \in 1..n
  BY <1>1, MaxIn
<1> HIDE DEF n, base
<1>6. \E g : Eq(g)
  <2>1. PICK g : g \in [SUBSET (1..n) -> ConnectedAcc] /\ LeftFold(n, ConnectedAcc, base, T, g)
    <3> HIDE DEF T
    <3> QED BY <1>1, <1>2, <1>3, FoldLeftExists
  <2>2. ASSUME NEW u \in SUBSET (1..n), u # {}
        PROVE  g[u] = ConnectNext(g[u \ {Max(u)}], vtxs[Max(u)], keep)
    <3>1. g[u \ {Max(u)}] \in ConnectedAcc
      BY <2>1
    <3> QED BY <1>5, <2>1, <2>2, <3>1 DEF LeftFold
  <2>3. g[{}] = base
    BY <2>1 DEF LeftFold
  <2>4. Eq(g)
    BY <2>1, <2>2, <2>3
  <2> HIDE DEF Eq
  <2> QED BY <2>4
<1>7. Eq(iter)
  <2> HIDE DEF Eq
  <2> QED BY <1>6
<1> HIDE DEF iter
<1>8. LeftFold(n, ConnectedAcc, base, T, iter)
  BY <1>5, <1>7 DEF LeftFold
<1>9. PICK acc : LeftRuns(n, ConnectedAcc, base, T, acc) /\ acc[n] = iter[1..n]
  <2> HIDE DEF T, Eq
  <2> QED BY <1>1, <1>2, <1>3, <1>8, LeftRun
<1>10. acc \in [0..n -> ConnectedAcc] /\ acc[0] = base
  BY <1>9 DEF LeftRuns
<1>11. ASSUME NEW k \in 1..n PROVE acc[k] = ConnectNext(acc[k - 1], vtxs[k], keep)
  <2>1. acc[k - 1] \in ConnectedAcc
    BY <1>1, <1>10
  <2> QED BY <1>9, <2>1 DEF LeftRuns
<1> QED BY <1>4, <1>9, <1>10, <1>11 DEF n, base, ConnectedRuns

\* DisconnectBlock leaves a view.
LEMMA DisconnectType ==
  ASSUME NEW view \in Views, NEW vtx \in Seq(Txs), NEW undo \in UndoOf(vtx), NEW h
  PROVE  DisconnectBlock(view, vtx, undo, h) \in RestoreAcc
<1>1. PICK acc : /\ DisconnectRuns(view, vtx, undo, h, acc)
                 /\ DisconnectBlock(view, vtx, undo, h) = acc[0]
  BY DisconnectRun
<1> QED BY <1>1 DEF DisconnectRuns

\* The chain has blocks with undo data.
ChainTyped == chain \in Seq(BlockRec) /\ \A i \in 1..Len(chain) : chain[i].undo \in UndoOf(chain[i].vtx)

DisconnectedRuns(keep, acc) ==
  /\ acc \in [0..(Len(chain) - keep) -> RestoreAcc]
  /\ acc[0] = [ok |-> TRUE, view |-> coins]
  /\ \A k \in 1..(Len(chain) - keep) : acc[k] = DisconnectNext(acc[k - 1], k)

\* Disconnecting down to a block is a run of DisconnectBlock.
LEMMA DisconnectedRun ==
  ASSUME ChainTyped, coins \in Views, NEW keep \in 0..Len(chain)
  PROVE  \E acc : DisconnectedRuns(keep, acc) /\ Disconnected(keep) = acc[Len(chain) - keep]
<1> DEFINE n == Len(chain) - keep
           base == [ok |-> TRUE, view |-> coins]
           q == [i \in 1..n |-> i]
           T == [k \in 1..n |-> [a \in RestoreAcc |-> DisconnectNext(a, k)]]
           Eq(g) == g = [u \in SUBSET (1..n) |->
                            IF u = {} THEN base
                            ELSE DisconnectNext(g[u \ {Max(u)}], q[Max(u)])]
           iter == CHOOSE g : Eq(g)
<1>0. Len(chain) \in Nat
  BY DEF ChainTyped
<1>1. n \in Nat /\ DOMAIN q = 1..n
  BY <1>0
<1>2. Steps(n, RestoreAcc, T)
  <2>1. ASSUME NEW k \in 1..n, NEW a \in RestoreAcc
        PROVE  DisconnectNext(a, k) \in RestoreAcc
    <3> DEFINE j == Len(chain) + 1 - k
    <3>1. j \in 1..Len(chain)
      BY <1>0
    <3>2. /\ chain[j].vtx \in Seq(Txs) /\ chain[j].undo \in UndoOf(chain[j].vtx)
          /\ a.view \in Views
      <4> HIDE DEF j
      <4>1. chain[j] \in BlockRec /\ chain[j].undo \in UndoOf(chain[j].vtx)
        BY <3>1 DEF ChainTyped
      <4> QED BY <4>1 DEF BlockRec, RestoreAcc
    <3>3. DisconnectBlock(a.view, chain[j].vtx, chain[j].undo, BaseHeight + j) \in RestoreAcc
      <4> HIDE DEF j
      <4> QED BY <3>2, DisconnectType
    <3> HIDE DEF j
    <3> QED BY <3>2, <3>3 DEF DisconnectNext, RestoreAcc, j
  <2> QED BY <2>1 DEF Steps
<1>3. base \in RestoreAcc
  BY DEF RestoreAcc
<1>4. Disconnected(keep) = iter[1..n]
  BY <1>1 DEF Disconnected, DisconnectNext, FoldLeft, MapThenFoldSet
<1>5. \A u \in SUBSET (1..n) : u # {} => Max(u) \in 1..n
  BY <1>1, MaxIn
<1> HIDE DEF n, base
<1>6. \E g : Eq(g)
  <2>1. PICK g : g \in [SUBSET (1..n) -> RestoreAcc] /\ LeftFold(n, RestoreAcc, base, T, g)
    <3> HIDE DEF T
    <3> QED BY <1>1, <1>2, <1>3, FoldLeftExists
  <2>2. ASSUME NEW u \in SUBSET (1..n), u # {}
        PROVE  g[u] = DisconnectNext(g[u \ {Max(u)}], q[Max(u)])
    <3>1. g[u \ {Max(u)}] \in RestoreAcc
      BY <2>1
    <3> QED BY <1>5, <2>1, <2>2, <3>1 DEF LeftFold
  <2>3. g[{}] = base
    BY <2>1 DEF LeftFold
  <2>4. Eq(g)
    BY <2>1, <2>2, <2>3
  <2> HIDE DEF Eq
  <2> QED BY <2>4
<1>7. Eq(iter)
  <2> HIDE DEF Eq
  <2> QED BY <1>6
<1> HIDE DEF iter
<1>8. LeftFold(n, RestoreAcc, base, T, iter)
  BY <1>5, <1>7 DEF LeftFold
<1>9. PICK acc : LeftRuns(n, RestoreAcc, base, T, acc) /\ acc[n] = iter[1..n]
  <2> HIDE DEF T, Eq
  <2> QED BY <1>1, <1>2, <1>3, <1>8, LeftRun
<1>10. acc \in [0..n -> RestoreAcc] /\ acc[0] = base
  BY <1>9 DEF LeftRuns
<1>11. ASSUME NEW k \in 1..n PROVE acc[k] = DisconnectNext(acc[k - 1], k)
  <2>1. acc[k - 1] \in RestoreAcc
    BY <1>1, <1>10
  <2> QED BY <1>9, <2>1 DEF LeftRuns
<1> QED BY <1>4, <1>9, <1>10, <1>11 DEF n, base, DisconnectedRuns

----------------------------------------------------------------------------
(* Undo data.                                                              *)

\* A view that a chain can have: an entry that is not wholly spent has outputs
\* of its transaction and a height above the genesis block.
Sane(v) == \A t \in Txs : /\ v[t].outs \subseteq Vout[t]
                          /\ v[t].outs # {} => v[t].height \in Nat \ {0}

\* Views that differ in what is wholly spent only, as before and after Flush.
Same(v, w) == \A t \in Txs : v[t] = w[t] \/ (v[t].outs = {} /\ w[t].outs = {})

\* They are the ones that Flush makes equal.
LEMMA SameFlushed ==
  ASSUME NEW v \in Views, NEW w \in Views
  PROVE  Same(v, w) <=> Flushed(v) = Flushed(w)
<1>1. Same(v, w) => Flushed(v) = Flushed(w)
  BY DEF Same, Flushed, IsPruned
<1>2. ASSUME Flushed(v) = Flushed(w) PROVE Same(v, w)
  <2> SUFFICES ASSUME NEW t \in Txs PROVE v[t] = w[t] \/ (v[t].outs = {} /\ w[t].outs = {})
    BY DEF Same
  <2>1. Flushed(v)[t] = Flushed(w)[t]
    BY <1>2
  <2>2. NoEntry.outs = {}
    BY DEF NoEntry, Entry
  <2> QED BY <2>1, <2>2 DEF Flushed, IsPruned
<1> QED BY <1>1, <1>2

\* Same is an equivalence.
LEMMA SameIs ==
  /\ \A v : Same(v, v)
  /\ \A v, w : Same(v, w) => Same(w, v)
  /\ \A u, v, w : Same(u, v) /\ Same(v, w) => Same(u, w)
BY DEF Same

\* Flush leaves the view of a chain.
LEMMA FlushedSame ==
  ASSUME NEW v \in Views, Sane(v)
  PROVE  Flushed(v) \in Views /\ Sane(Flushed(v)) /\ Same(Flushed(v), v)
BY DEF Flushed, Views, Sane, Same, IsPruned, NoEntry, Entry

Available(view, o) == o[2] \in view[o[1]].outs

\* b is what spending o leaves of a: the other outputs stay, a sane view stays
\* sane and the undo data grows.
Spent(a, o, b) ==
  /\ b \in SpendAcc /\ Sane(b.view)
  /\ Len(b.undo) = Len(a.undo) + 1
  /\ \A j \in 1..Len(a.undo) : b.undo[j] = a.undo[j]
  /\ \A p \in Txs : b.view[p].outs = a.view[p].outs \ {n \in Indices : <<p, n>> = o}

\* Spending an available output does that.
LEMMA SpendIs ==
  ASSUME NEW a \in SpendAcc, Sane(a.view), NEW t \in Txs, NEW i \in 1..Len(Vin[t]),
         Available(a.view, Vin[t][i])
  PROVE  Spent(a, Vin[t][i], Spend(a, Vin[t][i]))
<1> DEFINE o == Vin[t][i]
           b == Spend(a, o)
           left == a.view[o[1]].outs \ {o[2]}
           u == IF left = {} THEN a.view[o[1]].height ELSE 0
<1>1. o[1] \in Txs /\ o[2] \in Indices /\ o = <<o[1], o[2]>>
  BY InputIs
<1>2. a.view \in Views /\ a.undo \in Seq(Int) /\ b \in SpendAcc
  BY SpendType DEF SpendAcc
<1> HIDE DEF o
<1>3. /\ b.undo = Append(a.undo, u)
      /\ b.view = [a.view EXCEPT ![o[1]] = IF left = {} THEN Pruned ELSE [@ EXCEPT !.outs = left]]
  BY DEF Spend
<1>4. u \in Int
  BY <1>1, <1>2 DEF Views
<1>5. ASSUME NEW p \in Txs
      PROVE  /\ p # o[1] => b.view[p] = a.view[p]
             /\ p = o[1] => b.view[p].outs = left
             /\ p = o[1] /\ left # {} => b.view[p].height = a.view[p].height
  BY <1>1, <1>2, <1>3 DEF Views, Pruned, Entry
<1>6. \A p \in Txs : b.view[p].outs = a.view[p].outs \ {n \in Indices : <<p, n>> = o}
  BY <1>1, <1>5
<1>7. Sane(b.view)
  BY <1>5 DEF Sane
<1>8. Len(b.undo) = Len(a.undo) + 1 /\ \A j \in 1..Len(a.undo) : b.undo[j] = a.undo[j]
  <2> HIDE DEF u
  <2> QED BY <1>2, <1>3, <1>4
<1> QED BY <1>2, <1>6, <1>7, <1>8 DEF o, Spent

\* What DisconnectBlock does with the undo data of one input gives back what
\* ConnectBlock spent, with its height when all of it was spent.
LEMMA RestoreUndoesSpend ==
  ASSUME NEW a \in SpendAcc, Sane(a.view), NEW t \in Txs, NEW i \in 1..Len(Vin[t]),
         Available(a.view, Vin[t][i]),
         NEW c \in RestoreAcc, Same(c.view, Spend(a, Vin[t][i]).view)
  PROVE  LET b == Spend(a, Vin[t][i])
             r == Restore(c, Vin[t][i], b.undo[Len(b.undo)])
         IN  /\ r.ok = c.ok
             /\ Same(r.view, a.view)
<1> DEFINE o == Vin[t][i]
           b == Spend(a, o)
           p == o[1]
           left == a.view[p].outs \ {o[2]}
           u == IF left = {} THEN a.view[p].height ELSE 0
           r == Restore(c, o, u)
<1>1. p \in Txs /\ o[2] \in Indices
  BY InputIs
<1>2. a.view \in Views /\ a.undo \in Seq(Int) /\ c.view \in Views /\ c.ok \in BOOLEAN
  BY DEF SpendAcc, RestoreAcc
<1> HIDE DEF o
<1>3. /\ b.undo = Append(a.undo, u)
      /\ b.view = [a.view EXCEPT ![p] = IF left = {} THEN Pruned ELSE [@ EXCEPT !.outs = left]]
  BY DEF Spend
<1>4. u \in Int
  BY <1>1, <1>2 DEF Views
<1>5. b.undo[Len(b.undo)] = u
  <2> HIDE DEF u
  <2> QED BY <1>2, <1>3, <1>4
<1>6. o[2] \in a.view[p].outs /\ a.view[p].height \in Nat \ {0}
  BY <1>1 DEF Sane, Available, o
<1>7. a.view[p] = Entry(a.view[p].height, left \union {o[2]})
  BY <1>1, <1>2, <1>6 DEF Views, Entry
<1>8. \A q \in Txs : q # p => b.view[q] = a.view[q]
  BY <1>2, <1>3 DEF Views
<1>9. Same(c.view, b.view)
  BY DEF o
<1>10. CASE left = {}
  <2>1. b.view[p].outs = {}
    BY <1>1, <1>2, <1>3, <1>10 DEF Pruned, Entry, Views
  <2>2. c.view[p].outs = {} /\ u = a.view[p].height /\ u # 0
    BY <1>1, <1>6, <1>9, <1>10, <2>1 DEF Same
  <2>3. r = [ok |-> c.ok /\ IsPruned(c.view[p]),
             view |-> [c.view EXCEPT ![p] = Entry(u, {o[2]})]]
    <3> HIDE DEF u
    <3> QED BY <2>2 DEF Restore
  <2>4. r.ok = c.ok
    BY <1>2, <2>2, <2>3 DEF IsPruned
  <2>5. r.view[p] = a.view[p]
    <3>1. r.view[p] = Entry(u, {o[2]})
      <4> HIDE DEF u, p
      <4> QED BY <1>1, <1>2, <2>3 DEF Views
    <3>2. left \union {o[2]} = {o[2]}
      BY <1>10
    <3> HIDE DEF left, u, r
    <3> QED BY <1>7, <2>2, <3>1, <3>2
  <2>6. \A q \in Txs : q # p => r.view[q] = c.view[q]
    BY <1>2, <2>3 DEF Views
  <2>7. Same(r.view, a.view)
    <3> HIDE DEF r, b, p
    <3> QED BY <1>8, <1>9, <2>5, <2>6 DEF Same
  <2> QED BY <1>5, <2>4, <2>7 DEF o
<1>11. CASE left # {}
  <2>1. b.view[p] = Entry(a.view[p].height, left)
    <3> HIDE DEF left, p
    <3>1. a.view[p] \in [height : Int, outs : SUBSET Indices]
      BY <1>1, <1>2 DEF Views
    <3>2. b.view[p] = [a.view[p] EXCEPT !.outs = left]
      BY <1>1, <1>2, <1>3, <1>11 DEF Views
    <3> QED BY <3>1, <3>2 DEF Entry
  <2>2. c.view[p] = b.view[p] /\ u = 0
    BY <1>1, <1>9, <1>11, <2>1 DEF Same, Entry
  <2>3. c.view[p].outs = left /\ c.view[p].height = a.view[p].height
    BY <2>1, <2>2 DEF Entry
  <2>4. r = [ok |-> c.ok /\ ~ IsPruned(c.view[p]) /\ o[2] \notin c.view[p].outs,
             view |-> [c.view EXCEPT ![p] = Entry(c.view[p].height, c.view[p].outs \union {o[2]})]]
    <3> HIDE DEF u
    <3> QED BY <2>2 DEF Restore
  <2>5. r.ok = c.ok
    BY <1>2, <1>11, <2>3, <2>4 DEF IsPruned
  <2>6. r.view[p] = a.view[p]
    <3>1. r.view[p] = Entry(c.view[p].height, c.view[p].outs \union {o[2]})
      <4> HIDE DEF u, p, r
      <4> QED BY <1>1, <1>2, <2>4 DEF Views
    <3> HIDE DEF left, u, r
    <3> QED BY <1>7, <2>3, <3>1
  <2>7. \A q \in Txs : q # p => r.view[q] = c.view[q]
    BY <1>2, <2>4 DEF Views
  <2>8. Same(r.view, a.view)
    <3> HIDE DEF r, b, p
    <3> QED BY <1>8, <1>9, <2>6, <2>7 DEF Same
  <2> QED BY <1>5, <2>5, <2>8 DEF o
<1> QED BY <1>10, <1>11

\* Spending from the same views gives the same views and undo data.
LEMMA SpendSame ==
  ASSUME NEW a \in SpendAcc, NEW b \in SpendAcc, Same(a.view, b.view), a.undo = b.undo,
         NEW t \in Txs, NEW i \in 1..Len(Vin[t]), Available(a.view, Vin[t][i])
  PROVE  /\ Same(Spend(a, Vin[t][i]).view, Spend(b, Vin[t][i]).view)
         /\ Spend(a, Vin[t][i]).undo = Spend(b, Vin[t][i]).undo
<1> DEFINE o == Vin[t][i]
           p == o[1]
<1>1. p \in Txs
  BY InputIs
<1>2. a.view \in Views /\ b.view \in Views
  BY DEF SpendAcc
<1>3. a.view[p] = b.view[p]
  BY <1>1 DEF Same, Available
<1> HIDE DEF o
<1>4. Spend(a, o).undo = Spend(b, o).undo
  BY <1>3 DEF Spend
<1>5. Spend(a, o).view[p] = Spend(b, o).view[p]
  BY <1>1, <1>2, <1>3 DEF Spend, Views
<1>6. \A q \in Txs : q # p => /\ Spend(a, o).view[q] = a.view[q]
                              /\ Spend(b, o).view[q] = b.view[q]
  BY <1>2 DEF Spend, Views
<1>7. Same(Spend(a, o).view, Spend(b, o).view)
  <2> HIDE DEF p
  <2> QED BY <1>5, <1>6 DEF Same
<1> QED BY <1>4, <1>7 DEF o

\* HaveInputs asks for outputs that are available.
LEMMA InputsAvailable ==
  ASSUME NEW v, NEW t \in Txs, HaveInputs(v, t)
  PROVE  \A j \in 1..Len(Vin[t]) : Available(v, Vin[t][j])
BY DEF HaveInputs, Inputs, Available

\* The spends of a transaction: each finds its output, as no input is named
\* twice, and adds its entry to the undo data.
LEMMA SpendRunIs ==
  ASSUME NEW v \in Views, Sane(v), NEW t \in Txs, HaveInputs(v, t), NEW acc, SpendRuns(v, t, acc)
  PROVE  \A k \in 0..Len(Vin[t]) :
            /\ acc[k] \in SpendAcc /\ Sane(acc[k].view)
            /\ Len(acc[k].undo) = k
            /\ \A j \in 1..k : acc[k].undo[j] = acc[j].undo[j]
            /\ \A j \in (k + 1)..Len(Vin[t]) : Available(acc[k].view, Vin[t][j])
            /\ \A p \in Txs : acc[k].view[p].outs \subseteq v[p].outs
<1> DEFINE n == Len(Vin[t])
           P(k) == /\ acc[k] \in SpendAcc /\ Sane(acc[k].view)
                   /\ Len(acc[k].undo) = k
                   /\ \A j \in 1..k : acc[k].undo[j] = acc[j].undo[j]
                   /\ \A j \in (k + 1)..n : Available(acc[k].view, Vin[t][j])
                   /\ \A p \in Txs : acc[k].view[p].outs \subseteq v[p].outs
           S == {k \in 0..n : P(k)}
<1>0. n \in Nat /\ Vin[t] \in Seq(Outputs) /\ IsInjective(Vin[t])
  BY TxAssumption
<1>1. 0 \in S
  <2>1. acc[0] = [view |-> v, undo |-> <<>>] /\ acc[0] \in SpendAcc
    BY <1>0 DEF SpendRuns
  <2>2. acc[0].view = v /\ acc[0].undo = <<>>
    BY <2>1
  <2>3. \A j \in 1..n : Available(v, Vin[t][j])
    BY InputsAvailable
  <2>4. 0 + 1 = 1 /\ 1..0 = {} /\ Len(<<>>) = 0
    OBVIOUS
  <2> QED BY <1>0, <2>1, <2>2, <2>3, <2>4
<1>2. ASSUME NEW k \in 1..n, k - 1 \in S PROVE k \in S
  <2>0. k - 1 \in 0..n /\ k \in 0..n /\ k \in Nat /\ (k - 1) + 1 = k
    BY <1>0
  <2>1. /\ acc[k - 1] \in SpendAcc /\ Sane(acc[k - 1].view)
        /\ Len(acc[k - 1].undo) = k - 1
        /\ \A j \in 1..(k - 1) : acc[k - 1].undo[j] = acc[j].undo[j]
        /\ \A j \in k..n : Available(acc[k - 1].view, Vin[t][j])
        /\ \A p \in Txs : acc[k - 1].view[p].outs \subseteq v[p].outs
    BY <1>2, <2>0
  <2>2. acc[k] = Spend(acc[k - 1], Vin[t][k]) /\ Available(acc[k - 1].view, Vin[t][k])
    BY <2>0, <2>1 DEF SpendRuns
  <2> HIDE DEF P
  <2>3. /\ acc[k] \in SpendAcc /\ Sane(acc[k].view)
        /\ Len(acc[k].undo) = Len(acc[k - 1].undo) + 1
        /\ \A j \in 1..Len(acc[k - 1].undo) : acc[k].undo[j] = acc[k - 1].undo[j]
        /\ \A p \in Txs : acc[k].view[p].outs =
                             acc[k - 1].view[p].outs \ {m \in Indices : <<p, m>> = Vin[t][k]}
    <3>1. Spent(acc[k - 1], Vin[t][k], acc[k])
      BY <2>1, <2>2, SpendIs
    <3> QED BY <3>1 DEF Spent
  <2>4. Len(acc[k].undo) = k
    BY <2>0, <2>1, <2>3
  <2>5. ASSUME NEW j \in 1..k PROVE acc[k].undo[j] = acc[j].undo[j]
    BY <2>0, <2>1, <2>3
  <2>6. ASSUME NEW j \in (k + 1)..n PROVE Available(acc[k].view, Vin[t][j])
    <3>1. j \in 1..n /\ j \in k..n /\ j # k
      BY <2>0
    <3>2. /\ Vin[t][j][1] \in Txs /\ Vin[t][j] = <<Vin[t][j][1], Vin[t][j][2]>>
      BY <3>1, InputIs
    <3>3. Vin[t][j] # Vin[t][k]
      BY <1>0, <3>1 DEF IsInjective
    <3>4. Available(acc[k - 1].view, Vin[t][j])
      BY <2>1, <3>1
    <3> QED BY <2>3, <3>2, <3>3, <3>4 DEF Available
  <2>7. \A p \in Txs : acc[k].view[p].outs \subseteq v[p].outs
    BY <2>1, <2>3
  <2> QED BY <2>0, <2>3, <2>4, <2>5, <2>6, <2>7 DEF P
<1>3. \A k \in 0..n : k \in S
  <2> HIDE DEF S
  <2> QED BY <1>0, <1>1, <1>2, UpTo
<1> QED BY <1>3

\* What UpdateCoins does to a sane view.
LEMMA UpdateIs ==
  ASSUME NEW v \in Views, Sane(v), NEW t \in Txs, HaveInputs(v, t), NEW h \in Nat \ {0}
  PROVE  LET r == UpdateCoins(v, t, h) IN
         /\ r \in SpendAcc /\ Sane(r.view) /\ Len(r.undo) = Len(Vin[t])
         /\ r.view[t] = Entry(h, Vout[t])
         /\ \A p \in Txs : p # t => r.view[p].outs \subseteq v[p].outs
<1> DEFINE n == Len(Vin[t])
           r == UpdateCoins(v, t, h)
<1>0. n \in Nat
  BY TxAssumption
<1>1. PICK acc : /\ SpendRuns(v, t, acc)
                 /\ r = [view |-> [acc[n].view EXCEPT ![t] = Entry(h, Vout[t])],
                         undo |-> acc[n].undo]
  BY SpendRun
<1>2. /\ acc[n] \in SpendAcc /\ Sane(acc[n].view) /\ Len(acc[n].undo) = n
      /\ \A p \in Txs : acc[n].view[p].outs \subseteq v[p].outs
  BY <1>0, <1>1, SpendRunIs
<1>3. r \in SpendAcc
  BY UpdateType
<1>4. acc[n].view \in Views
  BY <1>2 DEF SpendAcc
<1> HIDE DEF r, n
<1>5. r.view[t] = Entry(h, Vout[t]) /\ \A p \in Txs : p # t => r.view[p] = acc[n].view[p]
  BY <1>1, <1>4 DEF Views
<1>6. Entry(h, Vout[t]).outs = Vout[t] /\ Entry(h, Vout[t]).height = h
  BY DEF Entry
<1>7. Sane(r.view)
  BY <1>2, <1>5, <1>6 DEF Sane
<1> QED BY <1>1, <1>2, <1>3, <1>5, <1>7 DEF r, n

\* DisconnectBlock undoes a transaction: from what ConnectBlock left of a view
\* it gives back that view, and finds nothing to complain of.
LEMMA TxUndone ==
  ASSUME NEW v \in Views, Sane(v), NEW t \in Txs, HaveInputs(v, t), IsPruned(v[t]),
         NEW h \in Nat \ {0}, NEW c \in RestoreAcc, Same(c.view, UpdateCoins(v, t, h).view)
  PROVE  LET q == DisconnectTx(c, t, UpdateCoins(v, t, h).undo, h) IN
         q \in RestoreAcc /\ q.ok = c.ok /\ Same(q.view, v)
<1> DEFINE n == Len(Vin[t])
           r == UpdateCoins(v, t, h)
           undo == r.undo
<1>0. n \in Nat
  BY TxAssumption
<1>1. PICK acc : /\ SpendRuns(v, t, acc)
                 /\ r = [view |-> [acc[n].view EXCEPT ![t] = Entry(h, Vout[t])],
                         undo |-> acc[n].undo]
  BY SpendRun
<1>2. /\ r \in SpendAcc /\ Sane(r.view) /\ Len(undo) = n
      /\ r.view[t] = Entry(h, Vout[t])
  BY UpdateIs
<1>3. undo \in [1..n -> Int]
  BY <1>2 DEF SpendAcc
<1>4. PICK res : RestoreRuns(c, t, undo, h, res) /\ DisconnectTx(c, t, undo, h) = res[0]
  <2> HIDE DEF undo, r
  <2> QED BY <1>3, RestoreRun
<1> DEFINE P(k) == res[k] \in RestoreAcc /\ res[k].ok = c.ok /\ Same(res[k].view, acc[k].view)
           S == {k \in 0..n : P(k)}
<1>5. \A k \in 0..n :
            /\ acc[k] \in SpendAcc /\ Sane(acc[k].view)
            /\ Len(acc[k].undo) = k
            /\ \A j \in 1..k : acc[k].undo[j] = acc[j].undo[j]
            /\ \A j \in (k + 1)..n : Available(acc[k].view, Vin[t][j])
            /\ \A p \in Txs : acc[k].view[p].outs \subseteq v[p].outs
  BY <1>1, SpendRunIs
<1>c. c.view \in Views /\ c.ok \in BOOLEAN
  BY DEF RestoreAcc
<1>6. n \in S
  <2>1. /\ res[n] = [ok |-> c.ok /\ c.view[t] = Entry(h, Vout[t]),
                     view |-> [c.view EXCEPT ![t] = Pruned]]
        /\ res[n] \in RestoreAcc
    BY <1>0, <1>4 DEF RestoreRuns
  <2>2. Entry(h, Vout[t]).outs # {}
    BY TxAssumption DEF Entry
  <2>3. c.view[t] = Entry(h, Vout[t])
    BY <1>2, <2>2 DEF Same
  <2>4. res[n].ok = c.ok
    BY <1>c, <2>1, <2>3
  <2>5. acc[n].view[t].outs = {}
    BY <1>0, <1>5 DEF IsPruned
  <2>6. res[n].view[t].outs = {} /\ \A p \in Txs : p # t => res[n].view[p] = c.view[p]
    BY <1>c, <2>1 DEF Views, Pruned, Entry
  <2>7. \A p \in Txs : p # t => r.view[p] = acc[n].view[p]
    <3>1. acc[n].view \in Views
      BY <1>0, <1>5 DEF SpendAcc
    <3> HIDE DEF r
    <3> QED BY <1>1, <3>1 DEF Views
  <2>8. Same(res[n].view, acc[n].view)
    <3> SUFFICES ASSUME NEW p \in Txs
                 PROVE  \/ res[n].view[p] = acc[n].view[p]
                        \/ res[n].view[p].outs = {} /\ acc[n].view[p].outs = {}
      BY DEF Same
    <3>1. CASE p = t
      BY <2>5, <2>6, <3>1
    <3>2. CASE p # t
      <4>1. c.view[p] = r.view[p] \/ (c.view[p].outs = {} /\ r.view[p].outs = {})
        BY DEF Same
      <4> HIDE DEF r
      <4> QED BY <2>6, <2>7, <3>2, <4>1
    <3> QED BY <3>1, <3>2
  <2> QED BY <1>0, <2>1, <2>4, <2>8
<1>7. ASSUME NEW k \in 1..n, k \in S PROVE k - 1 \in S
  <2>0. k - 1 \in 0..n /\ k \in 0..n /\ (k - 1) + 1 = k /\ k \in k..n
    BY <1>0
  <2>1. res[k] \in RestoreAcc /\ res[k].ok = c.ok /\ Same(res[k].view, acc[k].view)
    BY <1>7
  <2>2. /\ acc[k - 1] \in SpendAcc /\ Sane(acc[k - 1].view)
        /\ Available(acc[k - 1].view, Vin[t][k])
    BY <1>5, <2>0
  <2>3. acc[k] = Spend(acc[k - 1], Vin[t][k])
    BY <1>1 DEF SpendRuns
  <2>4. undo[k] = acc[k].undo[Len(acc[k].undo)]
    <3>1. acc[n].undo[k] = acc[k].undo[k] /\ Len(acc[k].undo) = k
      <4>1. \A j \in 1..n : acc[n].undo[j] = acc[j].undo[j]
        BY <1>0, <1>5
      <4>2. Len(acc[k].undo) = k
        BY <1>5, <2>0
      <4> QED BY <4>1, <4>2
    <3>2. r.undo = acc[n].undo
      <4> HIDE DEF r
      <4> QED BY <1>1
    <3> HIDE DEF r
    <3> QED BY <3>1, <3>2
  <2>5. res[k - 1] = Restore(res[k], Vin[t][k], undo[k]) /\ res[k - 1] \in RestoreAcc
    BY <1>4, <2>0 DEF RestoreRuns
  <2> HIDE DEF undo
  <2>6. Same(res[k].view, Spend(acc[k - 1], Vin[t][k]).view)
    BY <2>1, <2>3
  <2>7. res[k - 1].ok = res[k].ok /\ Same(res[k - 1].view, acc[k - 1].view)
    <3> DEFINE b == Spend(acc[k - 1], Vin[t][k])
               q == Restore(res[k], Vin[t][k], b.undo[Len(b.undo)])
    <3>1. q.ok = res[k].ok /\ Same(q.view, acc[k - 1].view)
      BY <2>1, <2>2, <2>6, RestoreUndoesSpend
    <3>2. q = res[k - 1]
      BY <2>3, <2>4, <2>5
    <3> HIDE DEF q
    <3> QED BY <3>1, <3>2
  <2> QED BY <2>0, <2>1, <2>5, <2>7
<1>8. 0 \in S
  <2> HIDE DEF S
  <2> QED BY <1>0, <1>6, <1>7, DownFrom
<1>9. Same(res[0].view, v)
  <2>1. acc[0].view = v
    BY <1>1 DEF SpendRuns
  <2> QED BY <1>8, <2>1
<1> QED BY <1>4, <1>8, <1>9

\* UpdateCoins on the same views gives the same views and undo data.
LEMMA UpdateSame ==
  ASSUME NEW v \in Views, Sane(v), NEW w \in Views, Sane(w), Same(v, w),
         NEW t \in Txs, HaveInputs(v, t), HaveInputs(w, t), NEW h \in Nat \ {0}
  PROVE  /\ Same(UpdateCoins(v, t, h).view, UpdateCoins(w, t, h).view)
         /\ UpdateCoins(v, t, h).undo = UpdateCoins(w, t, h).undo
<1> DEFINE n == Len(Vin[t])
           r == UpdateCoins(v, t, h)
           q == UpdateCoins(w, t, h)
<1>0. n \in Nat
  BY TxAssumption
<1>1. PICK a : /\ SpendRuns(v, t, a)
               /\ r = [view |-> [a[n].view EXCEPT ![t] = Entry(h, Vout[t])], undo |-> a[n].undo]
  BY SpendRun
<1>2. PICK b : /\ SpendRuns(w, t, b)
               /\ q = [view |-> [b[n].view EXCEPT ![t] = Entry(h, Vout[t])], undo |-> b[n].undo]
  BY SpendRun
<1> DEFINE P(k) == Same(a[k].view, b[k].view) /\ a[k].undo = b[k].undo
           S == {k \in 0..n : P(k)}
<1>3. 0 \in S
  BY <1>0, <1>1, <1>2 DEF SpendRuns
<1>4. ASSUME NEW k \in 1..n, k - 1 \in S PROVE k \in S
  <2>0. k - 1 \in 0..n /\ k \in 0..n /\ k \in ((k - 1) + 1)..n
    BY <1>0
  <2>1. a[k - 1] \in SpendAcc /\ Available(a[k - 1].view, Vin[t][k])
    BY <1>1, <2>0, SpendRunIs
  <2>2. b[k - 1] \in SpendAcc
    BY <1>2, <2>0 DEF SpendRuns
  <2>3. a[k] = Spend(a[k - 1], Vin[t][k]) /\ b[k] = Spend(b[k - 1], Vin[t][k])
    BY <1>1, <1>2 DEF SpendRuns
  <2>4. Same(a[k - 1].view, b[k - 1].view) /\ a[k - 1].undo = b[k - 1].undo
    BY <1>4
  <2>5. Same(a[k].view, b[k].view) /\ a[k].undo = b[k].undo
    BY <2>1, <2>2, <2>3, <2>4, SpendSame
  <2> QED BY <2>0, <2>5
<1>5. \A k \in 0..n : k \in S
  <2> HIDE DEF S
  <2> QED BY <1>0, <1>3, <1>4, UpTo
<1>6. Same(a[n].view, b[n].view) /\ a[n].undo = b[n].undo
  BY <1>0, <1>5
<1>7. a[n].view \in Views /\ b[n].view \in Views
  BY <1>0, <1>1, <1>2 DEF SpendRuns, SpendAcc
<1> HIDE DEF r, q, n
<1>8. /\ r.view[t] = Entry(h, Vout[t]) /\ \A p \in Txs : p # t => r.view[p] = a[n].view[p]
      /\ q.view[t] = Entry(h, Vout[t]) /\ \A p \in Txs : p # t => q.view[p] = b[n].view[p]
      /\ r.undo = a[n].undo /\ q.undo = b[n].undo
  BY <1>1, <1>2, <1>7 DEF Views
<1>9. Same(r.view, q.view)
  BY <1>6, <1>8 DEF Same
<1> QED BY <1>6, <1>8, <1>9 DEF r, q

\* What is the same as a sane view is sane, and inputs pass in both or neither.
LEMMA SameSane ==
  ASSUME NEW v, NEW w, Same(v, w), Sane(v)
  PROVE  Sane(w)
BY DEF Same, Sane

\* CheckInputs and the test of BIP30 do not tell the same views apart.
LEMMA CheckSame ==
  ASSUME NEW v, NEW w, Same(v, w), NEW t \in Txs
  PROVE  /\ IsPruned(v[t]) => IsPruned(w[t])
         /\ \A h : CheckInputs(v, t, h) => CheckInputs(w, t, h)
<1>1. IsPruned(v[t]) => IsPruned(w[t])
  BY DEF Same, IsPruned
<1>2. ASSUME NEW h, CheckInputs(v, t, h) PROVE CheckInputs(w, t, h)
  <2>1. ASSUME NEW o \in Inputs(t) PROVE w[o[1]] = v[o[1]]
    <3>1. o[1] \in Txs
      BY InputIs DEF Inputs
    <3>2. o[2] \in v[o[1]].outs
      BY <1>2 DEF CheckInputs, HaveInputs
    <3> QED BY <3>1, <3>2 DEF Same
  <2> QED BY <1>2, <2>1 DEF CheckInputs, HaveInputs, HaveCoins
<1> QED BY <1>1, <1>2

\* A turn of the loop of ConnectBlock that succeeds.
ConnectedTx(a, t, h, b) ==
  /\ a.ok /\ CheckInputs(a.view, t, h)
  /\ b.ok /\ b.view = UpdateCoins(a.view, t, h).view
  /\ b.undo = Append(a.undo, UpdateCoins(a.view, t, h).undo)

\* A turn either succeeds or leaves the block refused.
LEMMA ConnectTxIs ==
  ASSUME NEW a \in ConnectAcc, NEW t, NEW h, ConnectTx(a, t, h).ok
  PROVE  ConnectedTx(a, t, h, ConnectTx(a, t, h))
<1>1. CASE a.ok /\ CheckInputs(a.view, t, h)
  <2>1. ConnectTx(a, t, h) = [ok |-> TRUE, view |-> UpdateCoins(a.view, t, h).view,
                              undo |-> Append(a.undo, UpdateCoins(a.view, t, h).undo)]
    BY <1>1 DEF ConnectTx
  <2> QED BY <1>1, <2>1 DEF ConnectedTx
<1>2. CASE ~ (a.ok /\ CheckInputs(a.view, t, h))
  <2>1. ConnectTx(a, t, h) = [a EXCEPT !.ok = FALSE]
    BY <1>2 DEF ConnectTx
  <2>2. ~ ConnectTx(a, t, h).ok
    BY <2>1 DEF ConnectAcc
  <2> QED BY <2>2
<1> QED BY <1>1, <1>2

\* What the loop of ConnectBlock has done after k transactions of a block that
\* connects: the ones to come are not known yet, as none is there twice.
ConnectedSoFar(v, vtx, h, acc, k) ==
  /\ acc[k] \in ConnectAcc /\ acc[k].ok /\ Sane(acc[k].view)
  /\ Len(acc[k].undo) = k
  /\ \A j \in 1..k : acc[k].undo[j] = acc[j].undo[j] /\ Len(acc[j].undo[j]) = Len(Vin[vtx[j]])
  /\ \A j \in (k + 1)..Len(vtx) : IsPruned(acc[k].view[vtx[j]])
  /\ k # 0 => ConnectedTx(acc[k - 1], vtx[k], h, acc[k])

\* It has done so after each.
LEMMA ConnectRunIs ==
  ASSUME NEW v \in Views, Sane(v), NEW vtx \in Seq(Txs), IsInjective(vtx), NEW h \in Nat \ {0},
         NEW acc, ConnectRuns(v, vtx, h, acc), acc[Len(vtx)].ok
  PROVE  \A k \in 0..Len(vtx) : ConnectedSoFar(v, vtx, h, acc, k)
<1> DEFINE n == Len(vtx)
<1>0. n \in Nat
  OBVIOUS
<1>1. \A k \in 0..n : acc[k] \in ConnectAcc
  BY DEF ConnectRuns
<1>2. \A k \in 1..n : acc[k] = ConnectTx(acc[k - 1], vtx[k], h)
  BY DEF ConnectRuns
<1>3. \A k \in 0..n : acc[k].ok
  <2> DEFINE S == {k \in 0..n : acc[k].ok}
  <2>1. n \in S
    BY <1>0
  <2>2. ASSUME NEW k \in 1..n, k \in S PROVE k - 1 \in S
    <3>1. k - 1 \in 0..n
      BY <1>0
    <3>2. ConnectTx(acc[k - 1], vtx[k], h).ok
      BY <1>2, <2>2
    <3>3. ConnectedTx(acc[k - 1], vtx[k], h, ConnectTx(acc[k - 1], vtx[k], h))
      BY <1>1, <3>1, <3>2, ConnectTxIs
    <3> QED BY <3>1, <3>3 DEF ConnectedTx
  <2> HIDE DEF S
  <2>3. \A k \in 0..n : k \in S
    BY <1>0, <2>1, <2>2, DownFrom
  <2> QED BY <2>3 DEF S
<1>4. \A k \in 1..n : ConnectedTx(acc[k - 1], vtx[k], h, acc[k])
  <2> SUFFICES ASSUME NEW k \in 1..n PROVE ConnectedTx(acc[k - 1], vtx[k], h, acc[k])
    OBVIOUS
  <2>1. k - 1 \in 0..n /\ k \in 0..n
    BY <1>0
  <2>2. acc[k - 1] \in ConnectAcc /\ ConnectTx(acc[k - 1], vtx[k], h).ok
    BY <1>1, <1>2, <1>3, <2>1
  <2> QED BY <1>2, <2>2, ConnectTxIs
<1> DEFINE S == {k \in 0..n : ConnectedSoFar(v, vtx, h, acc, k)}
<1>5. 0 \in S
  <2>1. acc[0] = [ok |-> \A i \in 1..n : IsPruned(v[vtx[i]]), view |-> v, undo |-> <<>>]
    BY DEF ConnectRuns
  <2>2. acc[0].view = v /\ acc[0].undo = <<>> /\ acc[0].ok /\ acc[0] \in ConnectAcc
    BY <1>0, <1>1, <1>3, <2>1
  <2>3. \A i \in 1..n : IsPruned(v[vtx[i]])
    BY <2>1, <2>2
  <2>4. 0 + 1 = 1 /\ Len(<<>>) = 0 /\ 1..0 = {}
    OBVIOUS
  <2> QED BY <1>0, <2>2, <2>3, <2>4 DEF ConnectedSoFar
<1>6. ASSUME NEW k \in 1..n, k - 1 \in S PROVE k \in S
  <2> DEFINE t == vtx[k]
             a == acc[k - 1]
             b == acc[k]
             r == UpdateCoins(a.view, t, h)
  <2>0. k - 1 \in 0..n /\ k \in 0..n /\ (k - 1) + 1 = k /\ t \in Txs /\ k \in k..n /\ k # 0
    BY <1>0
  <2>1. /\ a \in ConnectAcc /\ Sane(a.view) /\ Len(a.undo) = k - 1
        /\ \A j \in 1..(k - 1) : a.undo[j] = acc[j].undo[j] /\ Len(acc[j].undo[j]) = Len(Vin[vtx[j]])
        /\ \A j \in k..n : IsPruned(a.view[vtx[j]])
    BY <1>6, <2>0 DEF ConnectedSoFar
  <2>2. ConnectedTx(a, t, h, b) /\ b \in ConnectAcc
    BY <1>1, <1>4, <2>0
  <2>3. HaveInputs(a.view, t) /\ a.view \in Views /\ a.undo \in Seq(Seq(Int))
    BY <2>1, <2>2 DEF ConnectedTx, CheckInputs, ConnectAcc
  <2> HIDE DEF a, b, t
  <2>4. /\ r \in SpendAcc /\ Sane(r.view) /\ Len(r.undo) = Len(Vin[t])
        /\ \A p \in Txs : p # t => r.view[p].outs \subseteq a.view[p].outs
    BY <2>0, <2>1, <2>3, UpdateIs
  <2>5. b.view = r.view /\ b.undo = Append(a.undo, r.undo) /\ b.ok
    BY <2>2 DEF ConnectedTx
  <2>6. r.undo \in Seq(Int)
    BY <2>4 DEF SpendAcc
  <2> HIDE DEF r
  <2>7. Len(b.undo) = k /\ b.undo[k] = r.undo /\ \A j \in 1..(k - 1) : b.undo[j] = a.undo[j]
    BY <2>0, <2>1, <2>3, <2>5, <2>6
  <2>8. ASSUME NEW j \in 1..k
        PROVE  b.undo[j] = acc[j].undo[j] /\ Len(acc[j].undo[j]) = Len(Vin[vtx[j]])
    <3>1. CASE j = k
      BY <2>4, <2>7, <3>1 DEF b, t
    <3>2. CASE j # k
      BY <2>0, <2>1, <2>7, <3>2
    <3> QED BY <3>1, <3>2
  <2>9. ASSUME NEW j \in (k + 1)..n PROVE IsPruned(b.view[vtx[j]])
    <3>1. j \in 1..n /\ j \in k..n /\ j # k
      BY <2>0
    <3>2. vtx[j] \in Txs /\ vtx[j] # t
      BY <3>1 DEF IsInjective, t
    <3> QED BY <2>1, <2>4, <2>5, <3>1, <3>2 DEF IsPruned
  <2>10. Sane(b.view)
    BY <2>4, <2>5
  <2> QED BY <2>0, <2>2, <2>5, <2>7, <2>8, <2>9, <2>10 DEF ConnectedSoFar, a, b, t
<1>7. \A k \in 0..n : k \in S
  <2> HIDE DEF S
  <2> QED BY <1>0, <1>5, <1>6, UpTo
<1> QED BY <1>7

\* Blocks that CheckBlock lets through.
LEMMA ContentIs ==
  ASSUME NEW vtx \in Contents
  PROVE  vtx \in Seq(Txs) /\ IsInjective(vtx)
BY PoolAssumption

\* A block that connects leaves a sane view and undo data of the right shape.
LEMMA BlockConnects ==
  ASSUME NEW v \in Views, Sane(v), NEW vtx \in Contents, NEW h \in Nat \ {0},
         ConnectBlock(v, vtx, h).ok
  PROVE  /\ ConnectBlock(v, vtx, h).view \in Views /\ Sane(ConnectBlock(v, vtx, h).view)
         /\ ConnectBlock(v, vtx, h).undo \in UndoOf(vtx)
<1> DEFINE n == Len(vtx)
           r == ConnectBlock(v, vtx, h)
<1>0. vtx \in Seq(Txs) /\ IsInjective(vtx) /\ n \in Nat
  BY ContentIs
<1>1. PICK acc : ConnectRuns(v, vtx, h, acc) /\ r = acc[n]
  BY <1>0, ConnectRun
<1>2. ConnectedSoFar(v, vtx, h, acc, n)
  BY <1>0, <1>1, ConnectRunIs
<1>3. /\ r \in ConnectAcc /\ Sane(r.view) /\ Len(r.undo) = n
      /\ \A j \in 1..n : Len(r.undo[j]) = Len(Vin[vtx[j]])
  BY <1>1, <1>2 DEF ConnectedSoFar
<1> HIDE DEF r
<1> QED BY <1>3 DEF ConnectAcc, UndoOf, r

\* DisconnectBlock undoes ConnectBlock: from a view that is the same as what
\* the block left it gives back what was before, and fClean stays true.
LEMMA BlockUndone ==
  ASSUME NEW v \in Views, Sane(v), NEW vtx \in Contents, NEW h \in Nat \ {0},
         ConnectBlock(v, vtx, h).ok,
         NEW w \in Views, Same(w, ConnectBlock(v, vtx, h).view)
  PROVE  LET q == DisconnectBlock(w, vtx, ConnectBlock(v, vtx, h).undo, h) IN
         q \in RestoreAcc /\ q.ok = TRUE /\ Same(q.view, v)
<1> DEFINE n == Len(vtx)
           r == ConnectBlock(v, vtx, h)
           undo == r.undo
<1>0. vtx \in Seq(Txs) /\ IsInjective(vtx) /\ n \in Nat
  BY ContentIs
<1>1. PICK acc : ConnectRuns(v, vtx, h, acc) /\ r = acc[n]
  BY <1>0, ConnectRun
<1>2. \A k \in 0..n : ConnectedSoFar(v, vtx, h, acc, k)
  BY <1>0, <1>1, ConnectRunIs
<1>3. undo \in UndoOf(vtx)
  BY BlockConnects
<1>4. PICK res : DisconnectRuns(w, vtx, undo, h, res) /\ DisconnectBlock(w, vtx, undo, h) = res[0]
  <2> HIDE DEF undo, r
  <2> QED BY <1>0, <1>3, DisconnectRun
<1> DEFINE P(k) == res[k] \in RestoreAcc /\ res[k].ok = TRUE /\ Same(res[k].view, acc[k].view)
           S == {k \in 0..n : P(k)}
<1>5. n \in S
  <2>1. res[n] = [ok |-> TRUE, view |-> w] /\ res[n] \in RestoreAcc
    <3>1. n \in 0..n
      BY <1>0
    <3> HIDE DEF undo, r, n
    <3>2. res[n] = [ok |-> TRUE, view |-> w]
      BY <1>4 DEF DisconnectRuns, n
    <3>3. res \in [0..n -> RestoreAcc]
      BY <1>4 DEF DisconnectRuns, n
    <3> QED BY <3>1, <3>2, <3>3
  <2>2. Same(w, acc[n].view)
    BY <1>1
  <2> HIDE DEF r
  <2> QED BY <1>0, <2>1, <2>2
<1>6. ASSUME NEW k \in 1..n, k \in S PROVE k - 1 \in S
  <2> DEFINE t == vtx[k]
             a == acc[k - 1]
  <2>0. k - 1 \in 0..n /\ k \in 0..n /\ (k - 1) + 1 = k /\ k \in k..n /\ t \in Txs /\ k # 0
    BY <1>0
  <2>1. res[k] \in RestoreAcc /\ res[k].ok = TRUE /\ Same(res[k].view, acc[k].view)
    BY <1>6
  <2>2. a \in ConnectAcc /\ Sane(a.view) /\ IsPruned(a.view[t]) /\ Len(a.undo) = k - 1
    BY <1>2, <2>0 DEF ConnectedSoFar
  <2>3. ConnectedTx(a, t, h, acc[k])
    BY <1>2, <2>0 DEF ConnectedSoFar
  <2>4. a.view \in Views /\ HaveInputs(a.view, t) /\ a.undo \in Seq(Seq(Int))
    BY <2>2, <2>3 DEF ConnectedTx, CheckInputs, ConnectAcc
  <2>5. undo[k] = UpdateCoins(a.view, t, h).undo
    <3>1. \A j \in 1..n : acc[n].undo[j] = acc[j].undo[j]
      BY <1>0, <1>2 DEF ConnectedSoFar
    <3>2. r.undo[k] = acc[k].undo[k]
      BY <1>1, <3>1
    <3>3. acc[k].undo = Append(a.undo, UpdateCoins(a.view, t, h).undo)
      BY <2>3 DEF ConnectedTx
    <3>4. UpdateCoins(a.view, t, h).undo \in Seq(Int)
      <4>1. h \in Int
        OBVIOUS
      <4> HIDE DEF a, t
      <4>2. UpdateCoins(a.view, t, h) \in SpendAcc
        BY <2>0, <2>4, <4>1, UpdateType
      <4> QED BY <4>2 DEF SpendAcc
    <3> HIDE DEF a, r, t
    <3> QED BY <2>0, <2>2, <2>4, <3>2, <3>3, <3>4
  <2>6. Same(res[k].view, UpdateCoins(a.view, t, h).view)
    BY <2>1, <2>3 DEF ConnectedTx
  <2>7. res[k - 1] = DisconnectTx(res[k], t, undo[k], h) /\ res[k - 1] \in RestoreAcc
    BY <1>4, <2>0 DEF DisconnectRuns
  <2> HIDE DEF undo, t, a
  <2>8. res[k - 1].ok = res[k].ok /\ Same(res[k - 1].view, a.view)
    <3> DEFINE q == DisconnectTx(res[k], t, UpdateCoins(a.view, t, h).undo, h)
    <3>1. q.ok = res[k].ok /\ Same(q.view, a.view)
      BY <2>0, <2>1, <2>2, <2>4, <2>6, TxUndone
    <3>2. q = res[k - 1]
      BY <2>5, <2>7
    <3> HIDE DEF q
    <3> QED BY <3>1, <3>2
  <2> QED BY <2>0, <2>1, <2>7, <2>8 DEF a
<1>7. 0 \in S
  <2> HIDE DEF S
  <2> QED BY <1>0, <1>5, <1>6, DownFrom
<1>8. acc[0].view = v
  BY <1>1 DEF ConnectRuns
<1> QED BY <1>4, <1>7, <1>8

\* ConnectBlock on the same views gives the same verdict, views and undo data.
LEMMA BlockSame ==
  ASSUME NEW v \in Views, Sane(v), NEW w \in Views, Same(v, w), NEW vtx \in Contents,
         NEW h \in Nat \ {0}, ConnectBlock(v, vtx, h).ok
  PROVE  /\ ConnectBlock(w, vtx, h).ok
         /\ ConnectBlock(w, vtx, h).undo = ConnectBlock(v, vtx, h).undo
         /\ Same(ConnectBlock(v, vtx, h).view, ConnectBlock(w, vtx, h).view)
<1> DEFINE n == Len(vtx)
<1>0. vtx \in Seq(Txs) /\ IsInjective(vtx) /\ n \in Nat /\ Sane(w)
  BY ContentIs, SameSane
<1>1. PICK a : ConnectRuns(v, vtx, h, a) /\ ConnectBlock(v, vtx, h) = a[n]
  BY <1>0, ConnectRun
<1>2. PICK b : ConnectRuns(w, vtx, h, b) /\ ConnectBlock(w, vtx, h) = b[n]
  BY <1>0, ConnectRun
<1>3. \A k \in 0..n : ConnectedSoFar(v, vtx, h, a, k)
  BY <1>0, <1>1, ConnectRunIs
<1> DEFINE P(k) == b[k].ok /\ Same(a[k].view, b[k].view) /\ a[k].undo = b[k].undo
           S == {k \in 0..n : P(k)}
<1>4. 0 \in S
  <2>1. a[0] = [ok |-> \A i \in 1..n : IsPruned(v[vtx[i]]), view |-> v, undo |-> <<>>]
    BY <1>1 DEF ConnectRuns
  <2>2. b[0] = [ok |-> \A i \in 1..n : IsPruned(w[vtx[i]]), view |-> w, undo |-> <<>>]
    BY <1>2 DEF ConnectRuns
  <2>3. a[0].ok
    BY <1>0, <1>3 DEF ConnectedSoFar
  <2>4. \A i \in 1..n : IsPruned(v[vtx[i]])
    BY <2>1, <2>3
  <2>5. \A i \in 1..n : IsPruned(w[vtx[i]])
    BY <1>0, <2>4, CheckSame
  <2> QED BY <1>0, <2>1, <2>2, <2>5
<1>5. ASSUME NEW k \in 1..n, k - 1 \in S PROVE k \in S
  <2> DEFINE t == vtx[k]
  <2>0. k - 1 \in 0..n /\ k \in 0..n /\ t \in Txs /\ k # 0
    BY <1>0
  <2>1. a[k - 1] \in ConnectAcc /\ Sane(a[k - 1].view) /\ ConnectedTx(a[k - 1], t, h, a[k])
    BY <1>3, <2>0 DEF ConnectedSoFar
  <2>2. b[k - 1].ok /\ Same(a[k - 1].view, b[k - 1].view) /\ a[k - 1].undo = b[k - 1].undo
    BY <1>5
  <2>3. b[k - 1] \in ConnectAcc /\ b[k] = ConnectTx(b[k - 1], t, h)
    BY <1>2, <2>0 DEF ConnectRuns
  <2>4. a[k - 1].view \in Views /\ b[k - 1].view \in Views /\ Sane(b[k - 1].view)
    BY <2>1, <2>2, <2>3, SameSane DEF ConnectAcc
  <2> HIDE DEF t
  <2>5. CheckInputs(a[k - 1].view, t, h) /\ CheckInputs(b[k - 1].view, t, h)
    BY <2>0, <2>1, <2>2, CheckSame DEF ConnectedTx
  <2>6. HaveInputs(a[k - 1].view, t) /\ HaveInputs(b[k - 1].view, t)
    BY <2>5 DEF CheckInputs
  <2>7. b[k] = [ok |-> TRUE, view |-> UpdateCoins(b[k - 1].view, t, h).view,
                undo |-> Append(b[k - 1].undo, UpdateCoins(b[k - 1].view, t, h).undo)]
    BY <2>2, <2>3, <2>5 DEF ConnectTx
  <2>8. /\ Same(UpdateCoins(a[k - 1].view, t, h).view, UpdateCoins(b[k - 1].view, t, h).view)
        /\ UpdateCoins(a[k - 1].view, t, h).undo = UpdateCoins(b[k - 1].view, t, h).undo
    BY <2>0, <2>1, <2>2, <2>4, <2>6, UpdateSame
  <2>9. /\ a[k].view = UpdateCoins(a[k - 1].view, t, h).view
        /\ a[k].undo = Append(a[k - 1].undo, UpdateCoins(a[k - 1].view, t, h).undo)
    BY <2>1 DEF ConnectedTx
  <2>10. b[k].ok /\ Same(a[k].view, b[k].view) /\ a[k].undo = b[k].undo
    BY <2>2, <2>7, <2>8, <2>9
  <2> QED BY <2>0, <2>10
<1>6. \A k \in 0..n : k \in S
  <2> HIDE DEF S
  <2> QED BY <1>0, <1>4, <1>5, UpTo
<1>7. P(n)
  BY <1>0, <1>6
<1> QED BY <1>1, <1>2, <1>7

----------------------------------------------------------------------------
(* The coins of the chain.                                                 *)

\* V has the coins after each block of ch when a node connects them in order,
\* starting below the model.
Replay(ch, V) ==
  /\ V \in [0..Len(ch) -> Views]
  /\ V[0] = BaseCoins
  /\ \A i \in 0..Len(ch) : Sane(V[i])
  /\ \A i \in 1..Len(ch) : /\ ConnectBlock(V[i - 1], ch[i].vtx, BaseHeight + i).ok
                           /\ ConnectBlock(V[i - 1], ch[i].vtx, BaseHeight + i).view = V[i]
                           /\ ConnectBlock(V[i - 1], ch[i].vtx, BaseHeight + i).undo = ch[i].undo

\* The inductive invariant: the coins are those of such a node, but for what
\* Flush forgets, and the undo data is what it would have written.
CoinsInv ==
  /\ chain \in Seq(BlockRec) /\ \A i \in 1..Len(chain) : chain[i].vtx \in Contents
  /\ coins \in Views
  /\ \E V : Replay(chain, V) /\ Same(coins, V[Len(chain)])

\* The coins below the model are sane.
LEMMA BaseSane == BaseCoins \in Views /\ Sane(BaseCoins)
<1>1. ASSUME NEW t \in Txs
      PROVE  /\ BaseCoins[t] \in [height : Int, outs : SUBSET Indices]
             /\ BaseCoins[t].outs \subseteq Vout[t]
             /\ BaseCoins[t].outs # {} => BaseCoins[t].height \in Nat \ {0}
  <2>1. Vout[t] \subseteq Indices
    BY DEF Indices
  <2>2. CASE BaseCoins[t] = NoEntry
    BY <2>2 DEF NoEntry, Entry
  <2>3. CASE \E h \in 1..BaseHeight, outs \in (SUBSET Vout[t]) \ {{}} : BaseCoins[t] = Entry(h, outs)
    <3>1. PICK h \in 1..BaseHeight, outs \in (SUBSET Vout[t]) \ {{}} : BaseCoins[t] = Entry(h, outs)
      BY <2>3
    <3>2. BaseCoins[t].outs = outs /\ BaseCoins[t].height = h
      BY <3>1 DEF Entry
    <3>3. h \in Nat \ {0}
      BY PoolAssumption
    <3> QED BY <2>1, <3>1, <3>2, <3>3 DEF Entry
  <2> QED BY <2>2, <2>3, PoolAssumption
<1>2. BaseCoins = [t \in Txs |-> BaseCoins[t]]
  BY PoolAssumption
<1> QED BY <1>1, <1>2 DEF Views, Sane

\* The height of a block of the model.
LEMMA HeightIs ==
  ASSUME NEW i \in Nat, i # 0
  PROVE  BaseHeight + i \in Nat \ {0}
BY PoolAssumption

\* The undo data of the chain has the right shape.
LEMMA ChainIsTyped ==
  ASSUME CoinsInv
  PROVE  ChainTyped
<1>1. PICK V : Replay(chain, V)
  BY DEF CoinsInv
<1>2. ASSUME NEW i \in 1..Len(chain) PROVE chain[i].undo \in UndoOf(chain[i].vtx)
  <2>0. Len(chain) \in Nat /\ i \in Nat /\ i # 0 /\ i - 1 \in 0..Len(chain)
    BY DEF CoinsInv
  <2>1. /\ V[i - 1] \in Views /\ Sane(V[i - 1])
        /\ ConnectBlock(V[i - 1], chain[i].vtx, BaseHeight + i).ok
        /\ ConnectBlock(V[i - 1], chain[i].vtx, BaseHeight + i).undo = chain[i].undo
    BY <1>1, <2>0 DEF Replay
  <2>2. chain[i].vtx \in Contents
    BY DEF CoinsInv
  <2>3. BaseHeight + i \in Nat \ {0}
    BY <2>0, HeightIs
  <2> QED BY <2>1, <2>2, <2>3, BlockConnects
<1> QED BY <1>2 DEF ChainTyped, CoinsInv

\* Disconnecting down to a block gives the coins after that block, and finds
\* nothing to complain of.
LEMMA DisconnectedIs ==
  ASSUME CoinsInv, NEW V, Replay(chain, V), Same(coins, V[Len(chain)]), NEW keep \in 0..Len(chain)
  PROVE  /\ Disconnected(keep) \in RestoreAcc
         /\ Disconnected(keep).ok = TRUE
         /\ Same(Disconnected(keep).view, V[keep])
<1> DEFINE N == Len(chain)
           n == N - keep
<1>0. N \in Nat /\ n \in Nat /\ keep \in Nat /\ n <= N
  BY DEF CoinsInv
<1>1. PICK acc : DisconnectedRuns(keep, acc) /\ Disconnected(keep) = acc[n]
  BY ChainIsTyped, DisconnectedRun DEF CoinsInv
<1> DEFINE P(k) == acc[k] \in RestoreAcc /\ acc[k].ok = TRUE /\ Same(acc[k].view, V[N - k])
           S == {k \in 0..n : P(k)}
<1>2. 0 \in S
  <2>1. acc[0] = [ok |-> TRUE, view |-> coins]
    BY <1>1, Zenon DEF DisconnectedRuns
  <2>3. acc[0] \in RestoreAcc
    <3>1. acc \in [0..n -> RestoreAcc]
      BY <1>1 DEF DisconnectedRuns
    <3>2. 0 \in 0..n
      BY <1>0
    <3> HIDE DEF n
    <3> QED BY <3>1, <3>2
  <2>4. acc[0].ok = TRUE /\ acc[0].view = coins
    BY <2>1
  <2>2. N - 0 = N
    BY <1>0
  <2> QED BY <1>0, <2>2, <2>3, <2>4
<1>3. ASSUME NEW k \in 1..n, k - 1 \in S PROVE k \in S
  <2> DEFINE j == N + 1 - k
             h == BaseHeight + j
             r == DisconnectBlock(acc[k - 1].view, chain[j].vtx, chain[j].undo, h)
  <2>0. /\ k - 1 \in 0..n /\ k \in 0..n /\ j \in 1..N /\ j \in Nat /\ j # 0
        /\ j - 1 \in 0..N /\ N - (k - 1) = j /\ N - k = j - 1
    BY <1>0
  <2>1. acc[k - 1] \in RestoreAcc /\ acc[k - 1].ok = TRUE /\ Same(acc[k - 1].view, V[j])
    BY <1>3, <2>0
  <2>2. acc[k] = [ok |-> acc[k - 1].ok /\ r.ok, view |-> r.view] /\ acc[k] \in RestoreAcc
    BY <1>1, <2>0 DEF DisconnectedRuns, DisconnectNext
  <2>3. chain[j].vtx \in Contents /\ h \in Nat \ {0}
    BY <2>0, HeightIs DEF CoinsInv
  <2> HIDE DEF N, h, j
  <2>4. /\ V[j - 1] \in Views /\ Sane(V[j - 1])
        /\ ConnectBlock(V[j - 1], chain[j].vtx, h).ok
        /\ ConnectBlock(V[j - 1], chain[j].vtx, h).view = V[j]
        /\ ConnectBlock(V[j - 1], chain[j].vtx, h).undo = chain[j].undo
    BY <2>0 DEF Replay, N, h
  <2>5. acc[k - 1].view \in Views
    BY <2>1 DEF RestoreAcc
  <2>6. r.ok = TRUE /\ Same(r.view, V[j - 1])
    BY <2>1, <2>3, <2>4, <2>5, BlockUndone
  <2>7. acc[k].ok = TRUE /\ acc[k].view = r.view
    <3> HIDE DEF r
    <3>1. (acc[k - 1].ok /\ r.ok) = TRUE
      BY <2>1, <2>6
    <3>2. acc[k] = [ok |-> TRUE, view |-> r.view]
      BY <2>2, <3>1
    <3> QED BY <3>2
  <2> HIDE DEF r
  <2> QED BY <2>0, <2>2, <2>6, <2>7
<1>4. \A k \in 0..n : k \in S
  <2> HIDE DEF S, n
  <2> QED BY <1>0, <1>2, <1>3, UpTo
<1>5. P(n) /\ N - n = keep
  BY <1>0, <1>4
<1> QED BY <1>1, <1>5

\* What connecting several blocks has done after k of them.
BlocksSoFar(keep, vtxs, acc, k) ==
  /\ acc[k] \in ConnectedAcc /\ acc[k].ok /\ Sane(acc[k].view)
  /\ Len(acc[k].blocks) = k
  /\ \A j \in 1..k : acc[k].blocks[j] = acc[j].blocks[j]
  /\ k # 0 =>
       LET r == ConnectBlock(acc[k - 1].view, vtxs[k], BaseHeight + (keep + k))
       IN  /\ r.ok /\ r.view = acc[k].view
           /\ acc[k].blocks[k] = [vtx |-> vtxs[k], undo |-> r.undo]

\* It has done so when all connect.
LEMMA ConnectedRunIs ==
  ASSUME NEW v \in Views, Sane(v), NEW keep \in Nat, NEW vtxs \in Seq(Contents),
         NEW acc, ConnectedRuns(v, keep, vtxs, acc), acc[Len(vtxs)].ok
  PROVE  \A k \in 0..Len(vtxs) : BlocksSoFar(keep, vtxs, acc, k)
<1> DEFINE n == Len(vtxs)
<1>0. n \in Nat
  OBVIOUS
<1>1. \A k \in 0..n : acc[k] \in ConnectedAcc
  BY DEF ConnectedRuns
<1>2. \A k \in 1..n : acc[k] = ConnectNext(acc[k - 1], vtxs[k], keep)
  BY DEF ConnectedRuns
<1>3. \A k \in 0..n : acc[k].ok
  <2> DEFINE S == {k \in 0..n : acc[k].ok}
  <2>1. n \in S
    BY <1>0
  <2>2. ASSUME NEW k \in 1..n, k \in S PROVE k - 1 \in S
    <3>1. k - 1 \in 0..n
      BY <1>0
    <3>2. acc[k] = ConnectNext(acc[k - 1], vtxs[k], keep) /\ acc[k].ok
      BY <1>2, <2>2
    <3> DEFINE r == ConnectBlock(acc[k - 1].view, vtxs[k],
                                 BaseHeight + keep + Len(acc[k - 1].blocks) + 1)
    <3>4. acc[k].ok = (acc[k - 1].ok /\ r.ok)
      <4>1. acc[k] = [ok |-> acc[k - 1].ok /\ r.ok, view |-> r.view,
                      blocks |-> Append(acc[k - 1].blocks, [vtx |-> vtxs[k], undo |-> r.undo])]
        BY <3>2 DEF ConnectNext
      <4> HIDE DEF r
      <4> QED BY <4>1
    <3>3. acc[k - 1].ok
      BY <3>2, <3>4
    <3> QED BY <3>1, <3>3
  <2> HIDE DEF S
  <2>3. \A k \in 0..n : k \in S
    BY <1>0, <2>1, <2>2, DownFrom
  <2> QED BY <2>3 DEF S
<1> DEFINE S == {k \in 0..n : BlocksSoFar(keep, vtxs, acc, k)}
<1>4. 0 \in S
  <2>1. acc[0] = [ok |-> TRUE, view |-> v, blocks |-> <<>>]
    BY DEF ConnectedRuns
  <2>2. acc[0].view = v /\ acc[0].blocks = <<>> /\ acc[0].ok /\ acc[0] \in ConnectedAcc
    BY <1>0, <1>1, <2>1
  <2>3. Len(<<>>) = 0 /\ 1..0 = {}
    OBVIOUS
  <2> QED BY <1>0, <2>2, <2>3 DEF BlocksSoFar
<1>5. ASSUME NEW k \in 1..n, k - 1 \in S PROVE k \in S
  <2> DEFINE a == acc[k - 1]
             b == acc[k]
             h == BaseHeight + (keep + k)
             r == ConnectBlock(a.view, vtxs[k], h)
  <2>0. k - 1 \in 0..n /\ k \in 0..n /\ k # 0 /\ vtxs[k] \in Contents
    BY <1>0
  <2>1. /\ a \in ConnectedAcc /\ a.ok /\ Sane(a.view) /\ Len(a.blocks) = k - 1
        /\ \A j \in 1..(k - 1) : a.blocks[j] = acc[j].blocks[j]
    BY <1>5, <2>0 DEF BlocksSoFar
  <2>2. a.view \in Views /\ a.blocks \in Seq(BlockRec)
    BY <2>1 DEF ConnectedAcc
  <2>3. h \in Nat \ {0} /\ BaseHeight + keep + Len(a.blocks) + 1 = h
    <3>1. keep + k \in Nat /\ keep + k # 0 /\ BaseHeight \in Nat
      BY <2>0, PoolAssumption
    <3>2. h \in Nat \ {0}
      BY <3>1, HeightIs
    <3>3. Len(a.blocks) = k - 1
      BY <2>1
    <3> HIDE DEF a
    <3> QED BY <2>0, <3>1, <3>2, <3>3
  <2>4. b = [ok |-> a.ok /\ r.ok, view |-> r.view,
             blocks |-> Append(a.blocks, [vtx |-> vtxs[k], undo |-> r.undo])]
    <3>1. b = ConnectNext(a, vtxs[k], keep)
      BY <1>2
    <3> HIDE DEF a, b, h
    <3> QED BY <2>3, <3>1 DEF ConnectNext
  <2>5. b.ok /\ b \in ConnectedAcc
    BY <1>1, <1>3, <2>0
  <2> HIDE DEF a, b, h
  <2>6. r.ok
    BY <2>4, <2>5
  <2>7. r.view \in Views /\ Sane(r.view) /\ r.undo \in UndoOf(vtxs[k])
    BY <2>0, <2>1, <2>2, <2>3, <2>6, BlockConnects
  <2>8. [vtx |-> vtxs[k], undo |-> r.undo] \in BlockRec
    BY <2>0, <2>7, ContentIs DEF BlockRec, UndoOf
  <2> HIDE DEF r
  <2>9. b.view = r.view /\ b.blocks = Append(a.blocks, [vtx |-> vtxs[k], undo |-> r.undo])
    BY <2>4
  <2>10. /\ Len(b.blocks) = k /\ b.blocks[k] = [vtx |-> vtxs[k], undo |-> r.undo]
         /\ \A j \in 1..(k - 1) : b.blocks[j] = a.blocks[j]
    <3> DEFINE e == [vtx |-> vtxs[k], undo |-> r.undo]
    <3>1. e \in BlockRec /\ b.blocks = Append(a.blocks, e)
      BY <2>8, <2>9
    <3> HIDE DEF e
    <3>2. Len(b.blocks) = k /\ b.blocks[k] = e /\ \A j \in 1..(k - 1) : b.blocks[j] = a.blocks[j]
      BY <2>0, <2>1, <2>2, <3>1
    <3> QED BY <3>2 DEF e
  <2>11. \A j \in 1..k : b.blocks[j] = acc[j].blocks[j]
    BY <2>0, <2>1, <2>10 DEF b
  <2>12. /\ b \in ConnectedAcc /\ b.ok /\ Sane(b.view)
    BY <2>5, <2>7, <2>9
  <2> QED BY <2>0, <2>6, <2>9, <2>10, <2>11, <2>12 DEF BlocksSoFar, a, b, r, h
<1>6. \A k \in 0..n : k \in S
  <2> HIDE DEF S
  <2> QED BY <1>0, <1>4, <1>5, UpTo
<1> QED BY <1>6

\* Blocks that connect to a view connect to the same one in the same way.
LEMMA ConnectedSame ==
  ASSUME NEW v \in Views, Sane(v), NEW w \in Views, Same(v, w), NEW keep \in Nat,
         NEW vtxs \in Seq(Contents),
         NEW a, ConnectedRuns(v, keep, vtxs, a), a[Len(vtxs)].ok,
         NEW b, ConnectedRuns(w, keep, vtxs, b)
  PROVE  \A k \in 0..Len(vtxs) : b[k].ok /\ Same(a[k].view, b[k].view) /\ b[k].blocks = a[k].blocks
<1> DEFINE n == Len(vtxs)
           P(k) == b[k].ok /\ Same(a[k].view, b[k].view) /\ b[k].blocks = a[k].blocks
           S == {k \in 0..n : P(k)}
<1>0. n \in Nat
  OBVIOUS
<1>1. \A k \in 0..n : BlocksSoFar(keep, vtxs, a, k)
  BY ConnectedRunIs
<1>2. 0 \in S
  <2>1. /\ a[0] = [ok |-> TRUE, view |-> v, blocks |-> <<>>]
        /\ b[0] = [ok |-> TRUE, view |-> w, blocks |-> <<>>]
    BY DEF ConnectedRuns
  <2> QED BY <1>0, <2>1
<1>3. ASSUME NEW k \in 1..n, k - 1 \in S PROVE k \in S
  <2> DEFINE h == BaseHeight + (keep + k)
             r == ConnectBlock(a[k - 1].view, vtxs[k], h)
             q == ConnectBlock(b[k - 1].view, vtxs[k], h)
  <2>0. k - 1 \in 0..n /\ k \in 0..n /\ k # 0 /\ vtxs[k] \in Contents
    BY <1>0
  <2>1. /\ a[k - 1] \in ConnectedAcc /\ Sane(a[k - 1].view) /\ Len(a[k - 1].blocks) = k - 1
    BY <1>1, <2>0 DEF BlocksSoFar
  <2>2. /\ b[k - 1].ok /\ Same(a[k - 1].view, b[k - 1].view)
        /\ b[k - 1].blocks = a[k - 1].blocks
    BY <1>3
  <2>3. b[k - 1] \in ConnectedAcc
    BY <2>0 DEF ConnectedRuns
  <2>4. a[k - 1].view \in Views /\ b[k - 1].view \in Views
    BY <2>1, <2>3 DEF ConnectedAcc
  <2>5. h \in Nat \ {0} /\ BaseHeight + keep + Len(a[k - 1].blocks) + 1 = h
    <3>1. keep + k \in Nat /\ keep + k # 0 /\ BaseHeight \in Nat
      BY <2>0, PoolAssumption
    <3>2. h \in Nat \ {0}
      BY <3>1, HeightIs
    <3> QED BY <2>0, <2>1, <3>1, <3>2
  <2>6. r.ok
    BY <1>1, <2>0 DEF BlocksSoFar
  <2>7. /\ a[k] = ConnectNext(a[k - 1], vtxs[k], keep)
        /\ b[k] = ConnectNext(b[k - 1], vtxs[k], keep)
    BY DEF ConnectedRuns
  <2> HIDE DEF h
  <2>8. q.ok /\ q.undo = r.undo /\ Same(r.view, q.view)
    BY <2>0, <2>1, <2>2, <2>4, <2>5, <2>6, BlockSame
  <2>9. /\ a[k].view = r.view /\ b[k].view = q.view
        /\ a[k].blocks = Append(a[k - 1].blocks, [vtx |-> vtxs[k], undo |-> r.undo])
        /\ b[k].blocks = Append(b[k - 1].blocks, [vtx |-> vtxs[k], undo |-> q.undo])
    BY <2>2, <2>5, <2>7 DEF ConnectNext
  <2>10. b[k].ok
    <3>1. b[k] = [ok |-> b[k - 1].ok /\ q.ok, view |-> q.view,
                  blocks |-> Append(b[k - 1].blocks, [vtx |-> vtxs[k], undo |-> q.undo])]
      BY <2>2, <2>5, <2>7 DEF ConnectNext
    <3> HIDE DEF q
    <3>2. (b[k - 1].ok /\ q.ok) = TRUE
      BY <2>2, <2>8
    <3>3. b[k].ok = (b[k - 1].ok /\ q.ok)
      BY <3>1
    <3> QED BY <3>2, <3>3
  <2> HIDE DEF q, r
  <2> QED BY <2>0, <2>2, <2>8, <2>9, <2>10
<1>4. \A k \in 0..n : k \in S
  <2> HIDE DEF S
  <2> QED BY <1>0, <1>2, <1>3, UpTo
<1> QED BY <1>4


\* The chain that SetBestChain leaves: the blocks up to keep, then new ones.
NewChain(ch, keep, bs) == SubSeq(ch, 1, keep) \o bs
IsNewChain(ch, keep, bs, nc) ==
  /\ nc \in Seq(BlockRec) /\ Len(nc) = keep + Len(bs)
  /\ \A i \in 1..keep : nc[i] = ch[i]
  /\ \A j \in 1..Len(bs) : nc[keep + j] = bs[j]

\* Where its blocks come from.
LEMMA NewChainIs ==
  ASSUME NEW ch \in Seq(BlockRec), NEW keep \in 0..Len(ch), NEW bs \in Seq(BlockRec)
  PROVE  IsNewChain(ch, keep, bs, NewChain(ch, keep, bs))
<1> DEFINE s == SubSeq(ch, 1, keep)
           nc == NewChain(ch, keep, bs)
<1>1. Len(ch) \in Nat /\ Len(bs) \in Nat /\ keep \in Nat
  OBVIOUS
<1>2. s \in Seq(BlockRec) /\ Len(s) = keep /\ \A i \in 1..keep : s[i] = ch[i]
  BY <1>1
<1> HIDE DEF s
<1>3. nc \in Seq(BlockRec) /\ Len(nc) = keep + Len(bs)
  BY <1>1, <1>2 DEF s, NewChain
<1>4. ASSUME NEW i \in 1..keep PROVE nc[i] = ch[i]
  BY <1>1, <1>2 DEF s, NewChain
<1>5. ASSUME NEW j \in 1..Len(bs) PROVE nc[keep + j] = bs[j]
  BY <1>1, <1>2 DEF s, NewChain
<1> HIDE DEF nc
<1>6. IsNewChain(ch, keep, bs, nc)
  BY <1>3, <1>4, <1>5 DEF IsNewChain
<1> QED BY <1>6 DEF nc

\* The view that a replay of ch ends with.
ReplaysTo(ch, v) == \E W : Replay(ch, W) /\ W[Len(ch)] = v

\* Blocks that connect on top of a replayed block are replayed too.
LEMMA ReplayExtends ==
  ASSUME NEW ch \in Seq(BlockRec), NEW V, Replay(ch, V), NEW keep \in 0..Len(ch),
         NEW vtxs \in Seq(Contents),
         NEW b, ConnectedRuns(V[keep], keep, vtxs, b), b[Len(vtxs)].ok,
         NEW nc, nc = NewChain(ch, keep, b[Len(vtxs)].blocks)
  PROVE  ReplaysTo(nc, b[Len(vtxs)].view)
<1> DEFINE m == Len(vtxs)
           bs == b[m].blocks
           W == [i \in 0..(keep + m) |-> IF i <= keep THEN V[i] ELSE b[i - keep].view]
<1>1. Len(ch) \in Nat /\ m \in Nat /\ keep \in Nat /\ keep <= Len(ch)
  OBVIOUS
<1>2. V[keep] \in Views /\ Sane(V[keep])
  BY DEF Replay
<1>3. \A k \in 0..m : BlocksSoFar(keep, vtxs, b, k)
  BY <1>1, <1>2, ConnectedRunIs
<1>4. ASSUME NEW k \in 0..m PROVE b[k].view \in Views /\ Sane(b[k].view)
  BY <1>3 DEF BlocksSoFar, ConnectedAcc
<1>5. b[0].view = V[keep]
  BY DEF ConnectedRuns
<1>6. bs \in Seq(BlockRec) /\ Len(bs) = m /\ \A j \in 1..m : bs[j] = b[j].blocks[j]
  <2>1. m \in 0..m
    BY <1>1
  <2> QED BY <1>3, <2>1 DEF BlocksSoFar, ConnectedAcc
<1>7. /\ Len(nc) = keep + m
      /\ \A i \in 1..keep : nc[i] = ch[i]
      /\ \A j \in 1..m : nc[keep + j] = bs[j]
  <2>1. nc = NewChain(ch, keep, bs)
    OBVIOUS
  <2> HIDE DEF bs
  <2>2. IsNewChain(ch, keep, bs, nc)
    BY <1>6, <2>1, NewChainIs
  <2> QED BY <1>6, <2>2 DEF IsNewChain
<1>8. ASSUME NEW i \in 0..keep PROVE W[i] = V[i]
  <2>1. i \in 0..(keep + m) /\ i <= keep
    BY <1>1
  <2> QED BY <2>1
<1>9. ASSUME NEW j \in 0..m PROVE W[keep + j] = b[j].view
  <2>1. keep + j \in 0..(keep + m) /\ (keep + j) - keep = j
    BY <1>1
  <2>2. CASE j = 0
    BY <1>1, <1>5, <1>8, <2>2
  <2>3. CASE j # 0
    <3>1. ~ (keep + j <= keep)
      BY <1>1, <2>3
    <3> QED BY <2>1, <3>1
  <2> QED BY <2>2, <2>3
<1>10. ASSUME NEW i \in 0..(keep + m), i > keep
       PROVE  \E j \in 1..m : i = keep + j
  <2>1. i - keep \in 1..m /\ i = keep + (i - keep)
    BY <1>1, <1>10
  <2> QED BY <2>1
<1>11. ASSUME NEW i \in 0..(keep + m) PROVE W[i] \in Views /\ Sane(W[i])
  <2> HIDE DEF W
  <2>1. CASE i <= keep
    <3>1. i \in 0..keep /\ i \in 0..Len(ch)
      BY <1>1, <2>1
    <3>2. V[i] \in Views /\ Sane(V[i])
      BY <3>1 DEF Replay
    <3> QED BY <1>8, <3>1, <3>2
  <2>2. CASE i > keep
    <3>1. PICK j \in 1..m : i = keep + j
      BY <1>10, <2>2
    <3>2. j \in 0..m
      BY <1>1
    <3> QED BY <1>4, <1>9, <3>1, <3>2
  <2> QED BY <1>1, <2>1, <2>2
<1>12. W[0] = BaseCoins
  <2>1. 0 \in 0..keep /\ V[0] = BaseCoins
    BY <1>1 DEF Replay
  <2> HIDE DEF W
  <2> QED BY <1>8, <2>1
<1>13. W \in [0..(keep + m) -> Views]
  <2>1. W = [i \in 0..(keep + m) |-> W[i]]
    OBVIOUS
  <2> HIDE DEF W
  <2> QED BY <1>11, <2>1
<1> DEFINE Goal(i) == /\ ConnectBlock(W[i - 1], nc[i].vtx, BaseHeight + i).ok
                      /\ ConnectBlock(W[i - 1], nc[i].vtx, BaseHeight + i).view = W[i]
                      /\ ConnectBlock(W[i - 1], nc[i].vtx, BaseHeight + i).undo = nc[i].undo
<1>14. ASSUME NEW i \in 1..(keep + m) PROVE Goal(i)
  <2> HIDE DEF W
  <2>1. CASE i <= keep
    <3>1. i \in 1..keep /\ i \in 0..keep /\ i - 1 \in 0..keep /\ i \in 1..Len(ch)
      BY <1>1, <2>1
    <3>2. nc[i] = ch[i] /\ W[i] = V[i] /\ W[i - 1] = V[i - 1]
      BY <1>7, <1>8, <3>1
    <3>3. /\ ConnectBlock(V[i - 1], ch[i].vtx, BaseHeight + i).ok
          /\ ConnectBlock(V[i - 1], ch[i].vtx, BaseHeight + i).view = V[i]
          /\ ConnectBlock(V[i - 1], ch[i].vtx, BaseHeight + i).undo = ch[i].undo
      BY <3>1 DEF Replay
    <3> QED BY <3>2, <3>3
  <2>2. CASE i > keep
    <3>0. i \in 0..(keep + m)
      BY <1>1
    <3>1. PICK j \in 1..m : i = keep + j
      BY <1>10, <2>2, <3>0
    <3>2. j \in 0..m /\ j - 1 \in 0..m /\ j # 0 /\ i - 1 = keep + (j - 1)
      BY <1>1, <3>1
    <3>3. W[i] = b[j].view /\ W[i - 1] = b[j - 1].view /\ nc[i] = b[j].blocks[j]
      BY <1>6, <1>7, <1>9, <3>1, <3>2
    <3> DEFINE r == ConnectBlock(b[j - 1].view, vtxs[j], BaseHeight + i)
    <3>4. r.ok /\ r.view = b[j].view /\ b[j].blocks[j] = [vtx |-> vtxs[j], undo |-> r.undo]
      BY <1>3, <3>1, <3>2 DEF BlocksSoFar
    <3>5. nc[i].vtx = vtxs[j] /\ nc[i].undo = r.undo
      <4>1. nc[i] = [vtx |-> vtxs[j], undo |-> r.undo]
        BY <3>3, <3>4
      <4> HIDE DEF r
      <4> QED BY <4>1
    <3>6. ConnectBlock(W[i - 1], nc[i].vtx, BaseHeight + i) = r
      BY <3>3, <3>5
    <3> HIDE DEF r
    <3> QED BY <3>3, <3>4, <3>5, <3>6
  <2> QED BY <1>1, <2>1, <2>2
<1>15. Replay(nc, W)
  <2> HIDE DEF W
  <2> QED BY <1>7, <1>11, <1>12, <1>13, <1>14 DEF Replay
<1>16. W[Len(nc)] = b[m].view
  <2>1. m \in 0..m
    BY <1>1
  <2> HIDE DEF W
  <2> QED BY <1>7, <1>9, <2>1
<1> HIDE DEF W
<1> QED BY <1>15, <1>16 DEF ReplaysTo

\* The blocks of the new chain have transactions that may be mined, and the
\* ones above keep those of vtxs.
NewBlocks(ch, keep, vtxs, nc) ==
  /\ nc \in Seq(BlockRec) /\ Len(nc) = keep + Len(vtxs)
  /\ \A i \in 1..Len(nc) : nc[i].vtx \in Contents
  /\ \A i \in 1..keep : nc[i] = ch[i]
  /\ \A j \in 1..Len(vtxs) : nc[keep + j].vtx = vtxs[j]

\* SetBestChain leaves such a chain.
LEMMA NewContents ==
  ASSUME NEW ch \in Seq(BlockRec), \A i \in 1..Len(ch) : ch[i].vtx \in Contents,
         NEW keep \in 0..Len(ch), NEW vtxs \in Seq(Contents), NEW v \in Views, Sane(v),
         NEW b, ConnectedRuns(v, keep, vtxs, b), b[Len(vtxs)].ok,
         NEW nc, nc = NewChain(ch, keep, b[Len(vtxs)].blocks)
  PROVE  NewBlocks(ch, keep, vtxs, nc)
<1> DEFINE m == Len(vtxs)
           bs == b[m].blocks
<1>1. Len(ch) \in Nat /\ m \in Nat /\ keep \in Nat /\ keep <= Len(ch) /\ m \in 0..m
  OBVIOUS
<1>2. \A k \in 0..m : BlocksSoFar(keep, vtxs, b, k)
  BY <1>1, ConnectedRunIs
<1>3. bs \in Seq(BlockRec) /\ Len(bs) = m /\ \A j \in 1..m : bs[j] = b[j].blocks[j]
  BY <1>1, <1>2 DEF BlocksSoFar, ConnectedAcc
<1>4. /\ nc \in Seq(BlockRec) /\ Len(nc) = keep + m
      /\ \A i \in 1..keep : nc[i] = ch[i]
      /\ \A j \in 1..m : nc[keep + j] = bs[j]
  <2>1. nc = NewChain(ch, keep, bs)
    OBVIOUS
  <2> HIDE DEF bs
  <2>2. IsNewChain(ch, keep, bs, nc)
    BY <1>3, <2>1, NewChainIs
  <2> QED BY <1>3, <2>2 DEF IsNewChain
<1>5. ASSUME NEW j \in 1..m PROVE bs[j].vtx = vtxs[j] /\ vtxs[j] \in Contents
  <2>1. j \in 0..m /\ j # 0
    BY <1>1
  <2> DEFINE r == ConnectBlock(b[j - 1].view, vtxs[j], BaseHeight + (keep + j))
  <2>2. b[j].blocks[j] = [vtx |-> vtxs[j], undo |-> r.undo]
    BY <1>2, <2>1 DEF BlocksSoFar
  <2> HIDE DEF r
  <2> QED BY <1>3, <2>2
<1>6. ASSUME NEW i \in 1..(keep + m) PROVE nc[i].vtx \in Contents
  <2> HIDE DEF bs
  <2>1. CASE i <= keep
    <3>1. i \in 1..keep /\ i \in 1..Len(ch)
      BY <1>1, <2>1
    <3> QED BY <1>4, <3>1
  <2>2. CASE i > keep
    <3>1. i - keep \in 1..m /\ i = keep + (i - keep)
      BY <1>1, <2>2
    <3>2. PICK j \in 1..m : i = keep + j
      BY <3>1
    <3>3. nc[i] = bs[j]
      BY <1>4, <3>2
    <3> QED BY <1>5, <3>3
  <2> QED BY <1>1, <2>1, <2>2
<1>7. ASSUME NEW j \in 1..m PROVE nc[keep + j].vtx = vtxs[j]
  <2> HIDE DEF bs
  <2> QED BY <1>4, <1>5
<1> QED BY <1>4, <1>6, <1>7 DEF NewBlocks

\* The blocks that SetBestChain connects.
LEMMA BranchIs ==
  ASSUME NEW n, NEW vtxs \in Branches(n)
  PROVE  vtxs \in Seq(Contents) /\ vtxs \in Seq(Seq(Txs))
<1>1. PICK m \in 1..n : vtxs \in [1..m -> Contents]
  BY DEF Branches
<1>2. vtxs \in Seq(Contents)
  BY <1>1
<1>3. Contents \subseteq Seq(Txs)
  BY ContentIs
<1> QED BY <1>1, <1>2, <1>3

\* SetBestChain keeps the coins those of the chain.
LEMMA SetBestChainCoins ==
  ASSUME CoinsInv, NEW keep \in 0..Len(chain),
         NEW vtxs \in Branches(Len(chain) - keep + 1), NEW flush \in BOOLEAN,
         SetBestChain(keep, vtxs, flush)
  PROVE  /\ CoinsInv' /\ Len(chain') = keep + Len(vtxs)
         /\ \A i \in 1..keep : chain'[i] = chain[i]
         /\ \A j \in 1..Len(vtxs) : chain'[keep + j].vtx = vtxs[j]
<1> DEFINE d == Disconnected(keep)
           c == Connected(d.view, keep, vtxs)
           m == Len(vtxs)
<1>1. /\ c.ok
      /\ coins' = IF flush THEN Flushed(c.view) ELSE c.view
      /\ chain' = NewChain(chain, keep, c.blocks)
  BY DEF SetBestChain, NewChain
<1>2. PICK V : Replay(chain, V) /\ Same(coins, V[Len(chain)])
  BY DEF CoinsInv
<1>3. d \in RestoreAcc /\ Same(d.view, V[keep])
  BY <1>2, DisconnectedIs
<1>4. chain \in Seq(BlockRec) /\ \A i \in 1..Len(chain) : chain[i].vtx \in Contents
  BY DEF CoinsInv
<1>5. keep \in Nat /\ m \in Nat /\ vtxs \in Seq(Contents) /\ vtxs \in Seq(Seq(Txs))
  BY <1>4, BranchIs
<1> HIDE DEF d, c
<1>6. d.view \in Views /\ V[keep] \in Views /\ Sane(V[keep])
  BY <1>2, <1>3 DEF RestoreAcc, Replay
<1>7. Sane(d.view) /\ Same(V[keep], d.view)
  BY <1>3, <1>6, SameIs, SameSane
<1>8. PICK a : ConnectedRuns(d.view, keep, vtxs, a) /\ c = a[m]
  BY <1>5, <1>6, ConnectedRun DEF c
<1>9. PICK b : ConnectedRuns(V[keep], keep, vtxs, b)
  BY <1>5, <1>6, ConnectedRun
<1>10. \A k \in 0..m : b[k].ok /\ Same(a[k].view, b[k].view) /\ b[k].blocks = a[k].blocks
  <2>1. a[m].ok
    BY <1>1, <1>8
  <2> QED BY <1>3, <1>5, <1>6, <1>7, <1>8, <1>9, <2>1, ConnectedSame
<1>11. m \in 0..m
  BY <1>5
<1>12. b[m].ok /\ Same(c.view, b[m].view) /\ c.blocks = b[m].blocks
  BY <1>8, <1>10, <1>11
<1>13. PICK nc : nc = NewChain(chain, keep, b[m].blocks) /\ chain' = nc
  BY <1>1, <1>12
<1>14. PICK W : Replay(nc, W) /\ W[Len(nc)] = b[m].view
  <2>1. ReplaysTo(nc, b[m].view)
    <3>1. chain \in Seq(BlockRec) /\ Replay(chain, V) /\ vtxs \in Seq(Contents) /\ b[Len(vtxs)].ok
      BY <1>2, <1>4, <1>5, <1>12
    <3>2. nc = NewChain(chain, keep, b[Len(vtxs)].blocks)
      BY <1>13
    <3> QED BY <1>9, <3>1, <3>2, ReplayExtends
  <2> QED BY <2>1 DEF ReplaysTo
<1>15. /\ nc \in Seq(BlockRec) /\ Len(nc) = keep + m
       /\ \A i \in 1..Len(nc) : nc[i].vtx \in Contents
       /\ \A i \in 1..keep : nc[i] = chain[i]
       /\ \A j \in 1..m : nc[keep + j].vtx = vtxs[j]
  <2>1. NewBlocks(chain, keep, vtxs, nc)
    BY <1>4, <1>5, <1>6, <1>9, <1>12, <1>13, NewContents
  <2> QED BY <2>1 DEF NewBlocks
<1>16. c.view \in Views /\ Sane(c.view)
  <2>1. \A k \in 0..m : BlocksSoFar(keep, vtxs, a, k)
    BY <1>1, <1>5, <1>6, <1>7, <1>8, ConnectedRunIs
  <2> QED BY <1>8, <1>11, <2>1 DEF BlocksSoFar, ConnectedAcc
<1>17. coins' \in Views /\ Same(coins', c.view)
  <2>1. CASE flush
    BY <1>1, <1>16, <2>1, FlushedSame
  <2>2. CASE ~ flush
    BY <1>1, <1>16, <2>2, SameIs
  <2> QED BY <2>1, <2>2
<1>18. Same(coins', W[Len(nc)])
  BY <1>12, <1>14, <1>17, SameIs
<1> QED BY <1>13, <1>14, <1>15, <1>17, <1>18 DEF CoinsInv

\* The coins are those of the chain at the start.
LEMMA CoinsInvInit == Init => CoinsInv
<1> SUFFICES ASSUME Init PROVE CoinsInv
  OBVIOUS
<1>1. chain = <<>> /\ coins = BaseCoins /\ Len(chain) = 0
  BY DEF Init
<1> DEFINE V == [i \in 0..0 |-> BaseCoins]
<1>2. V \in [0..0 -> Views] /\ V[0] = BaseCoins /\ \A i \in 0..0 : Sane(V[i])
  BY BaseSane
<1>3. 1..0 = {}
  OBVIOUS
<1> HIDE DEF V
<1>4. Replay(chain, V)
  BY <1>1, <1>2, <1>3 DEF Replay
<1>5. Same(coins, V[Len(chain)])
  BY <1>1, <1>2, SameIs
<1> QED BY <1>1, <1>3, <1>4, <1>5, BaseSane DEF CoinsInv

\* Every step keeps them so: only SetBestChain touches the chain.
LEMMA CoinsInvNext == CoinsInv /\ [Next]_vars => CoinsInv'
<1> SUFFICES ASSUME CoinsInv, [Next]_vars PROVE CoinsInv'
  OBVIOUS
<1>1. ASSUME NEW keep \in 0..Len(chain), NEW vtxs \in Branches(Len(chain) - keep + 1),
             NEW flush \in BOOLEAN, SetBestChain(keep, vtxs, flush)
      PROVE  CoinsInv'
  BY <1>1, SetBestChainCoins
<1>2. ASSUME UNCHANGED <<chain, coins>> PROVE CoinsInv'
  <2>1. PICK V : Replay(chain, V) /\ Same(coins, V[Len(chain)])
    BY DEF CoinsInv
  <2>2. Replay(chain', V) /\ Same(coins', V[Len(chain')])
    BY <1>2, <2>1
  <2>3. chain' = chain /\ coins' = coins
    BY <1>2
  <2> QED BY <2>2, <2>3 DEF CoinsInv
<1>3. \/ \E keep \in 0..Len(chain) : \E vtxs \in Branches(Len(chain) - keep + 1), flush \in BOOLEAN :
            SetBestChain(keep, vtxs, flush)
      \/ UNCHANGED <<chain, coins>>
  BY DEF Next, Accept, Resurrect, ResurrectDone, Delete, DeleteDone, vars
<1> QED BY <1>1, <1>2, <1>3

\* Whatever was disconnected and connected on the way, the coins are those of a
\* node that connected the blocks of the chain and nothing else: the undo data
\* that ConnectBlock writes is exactly what DisconnectBlock needs.
THEOREM CoinsAlwaysOfChain == Spec => []CoinsOfChain
<1>1. ASSUME CoinsInv PROVE CoinsOfChain
  <2>1. PICK V : Replay(chain, V) /\ Same(coins, V[Len(chain)])
    BY <1>1 DEF CoinsInv
  <2> DEFINE n == Len(chain)
             vtxs == [i \in 1..n |-> chain[i].vtx]
             replay == Connected(BaseCoins, 0, vtxs)
  <2>2. n \in Nat /\ chain \in Seq(BlockRec) /\ coins \in Views
    BY <1>1 DEF CoinsInv
  <2>3. vtxs \in Seq(Contents) /\ Len(vtxs) = n /\ \A i \in 1..n : vtxs[i] = chain[i].vtx
    BY <1>1, <2>2 DEF CoinsInv
  <2>4. vtxs \in Seq(Seq(Txs))
    <3>1. Contents \subseteq Seq(Txs)
      BY ContentIs
    <3> HIDE DEF vtxs
    <3> QED BY <2>3, <3>1
  <2> HIDE DEF n, vtxs
  <2>5. PICK e : ConnectedRuns(BaseCoins, 0, vtxs, e) /\ replay = e[n]
    BY <2>3, <2>4, BaseSane, ConnectedRun
  <2> DEFINE P(k) == e[k].ok = TRUE /\ e[k].view = V[k] /\ Len(e[k].blocks) = k
             S == {k \in 0..n : P(k)}
  <2>6. 0 \in S
    <3>1. e[0] = [ok |-> TRUE, view |-> BaseCoins, blocks |-> <<>>]
      BY <2>5, Zenon DEF ConnectedRuns
    <3>2. V[0] = BaseCoins /\ 0 \in 0..n
      BY <2>1, <2>2 DEF Replay
    <3> QED BY <3>1, <3>2
  <2>7. ASSUME NEW k \in 1..n, k - 1 \in S PROVE k \in S
    <3> DEFINE a == e[k - 1]
               r == ConnectBlock(V[k - 1], chain[k].vtx, BaseHeight + k)
    <3>0. k \in 0..n /\ k - 1 \in 0..n /\ (k - 1) + 1 = k
      BY <2>2
    <3>1. a.ok = TRUE /\ a.view = V[k - 1] /\ Len(a.blocks) = k - 1
      BY <2>7
    <3>2. r.ok /\ r.view = V[k]
      BY <2>1, <2>2, <3>0 DEF Replay, n
    <3>3. e[k] = ConnectNext(a, vtxs[k], 0)
      BY <2>3, <2>5 DEF ConnectedRuns
    <3>4. BaseHeight + 0 + Len(a.blocks) + 1 = BaseHeight + k
      BY <3>0, <3>1, PoolAssumption
    <3>5. e[k] = [ok |-> a.ok /\ r.ok, view |-> r.view,
                  blocks |-> Append(a.blocks, [vtx |-> vtxs[k], undo |-> r.undo])]
      <4>1. vtxs[k] = chain[k].vtx
        BY <2>3
      <4> HIDE DEF a
      <4> QED BY <3>1, <3>3, <3>4, <4>1 DEF ConnectNext
    <3>6. a \in ConnectedAcc
      BY <2>3, <2>5, <3>0 DEF ConnectedRuns
    <3>7. e[k] \in ConnectedAcc
      BY <2>3, <2>5, <3>0 DEF ConnectedRuns
    <3> HIDE DEF a, r
    <3>8. e[k].ok = TRUE
      <4>1. (a.ok /\ r.ok) = TRUE
        BY <3>1, <3>2
      <4>2. e[k].ok = (a.ok /\ r.ok)
        BY <3>5
      <4> QED BY <4>1, <4>2
    <3>9. e[k].view = V[k] /\ e[k].blocks = Append(a.blocks, [vtx |-> vtxs[k], undo |-> r.undo])
      BY <3>2, <3>5
    <3>10. Len(e[k].blocks) = k
      <4> DEFINE x == [vtx |-> vtxs[k], undo |-> r.undo]
      <4>1. a.blocks \in Seq(BlockRec)
        BY <3>6 DEF ConnectedAcc
      <4>2. e[k].blocks = Append(a.blocks, x)
        BY <3>9
      <4> HIDE DEF x
      <4> QED BY <3>0, <3>1, <4>1, <4>2
    <3> QED BY <3>0, <3>8, <3>9, <3>10
  <2>8. \A k \in 0..n : k \in S
    <3> HIDE DEF S
    <3> QED BY <2>2, <2>6, <2>7, UpTo DEF n
  <2>9. P(n)
    BY <2>2, <2>8 DEF n
  <2>10. V[n] \in Views
    BY <2>1, <2>2 DEF Replay, n
  <2> HIDE DEF replay
  <2>11. replay.ok = TRUE /\ replay.view = V[n]
    BY <2>5, <2>9
  <2>12. Flushed(coins) = Flushed(replay.view)
    BY <2>1, <2>2, <2>10, <2>11, SameFlushed DEF n
  <2> QED BY <2>11, <2>12 DEF CoinsOfChain, replay, vtxs, n
<1> QED BY <1>1, CoinsInvInit, CoinsInvNext, PTL DEF Spec

\* DisconnectBlock finds nothing to complain of, down to any block of the
\* chain: the chain can always be left with the undo data that it has.
THEOREM DisconnectAlwaysClean == Spec => []DisconnectClean
<1>1. ASSUME CoinsInv PROVE DisconnectClean
  <2>1. PICK V : Replay(chain, V) /\ Same(coins, V[Len(chain)])
    BY <1>1 DEF CoinsInv
  <2>2. \A keep \in 0..Len(chain) : Disconnected(keep).ok
    BY <1>1, <2>1, DisconnectedIs
  <2> QED BY <2>2 DEF DisconnectClean
<1> QED BY <1>1, CoinsInvInit, CoinsInvNext, PTL DEF Spec

-----------------------------------------------------------------------------
(* The index of the pool.                                                  *)


\* The strengthening: PoolIndexed compares entries of mapNextTx with members of
\* Txs, so the proof also needs what kind of thing the entries are.
PoolInv ==
    /\ mapTx \subseteq Txs
    /\ mapNextTx \in [Outputs -> Txs \union {None}]
    /\ PoolIndexed

-----------------------------------------------------------------------------
(* What the pool operations do.                                            *)

\* What SetBestChain takes out of the pool for a connected transaction was in
\* the pool.
LEMMA RemovedInPool ==
    ASSUME NEW t
    PROVE  Removed(t) \subseteq mapTx
  BY DEF Removed, WithDescendants

\* addUnchecked keeps the index exact when the transaction is new and none of
\* its inputs has a spender.
LEMMA AddKeepsIndex ==
    ASSUME PoolInv, NEW t, Accepts(t), AddUnchecked(t)
    PROVE  PoolInv'
<1>1. t \in Txs /\ t \notin mapTx /\ \A o \in Inputs(t) : mapNextTx[o] = None
  BY PoolAssumption DEF Accepts
<1>2. mapTx' = mapTx \union {t}
  BY DEF AddUnchecked
<1>3. mapNextTx' = [o \in Outputs |-> IF o \in Inputs(t) THEN t ELSE mapNextTx[o]]
  BY DEF AddUnchecked
<1>4. mapTx' \subseteq Txs
  BY <1>1, <1>2 DEF PoolInv
<1>5. mapNextTx' \in [Outputs -> Txs \union {None}]
  BY <1>1, <1>3 DEF PoolInv
<1>6. PoolIndexed'
  <2> SUFFICES ASSUME NEW o \in Outputs, NEW s \in Txs
               PROVE  mapNextTx'[o] = s <=> s \in mapTx' /\ o \in Inputs(s)
    BY DEF PoolIndexed, Inputs
  <2>1. mapNextTx[o] = s <=> s \in mapTx /\ o \in Inputs(s)
    BY DEF PoolInv, PoolIndexed
  <2>2. CASE o \in Inputs(t)
    <3>1. mapNextTx'[o] = t
      BY <1>3, <2>2
    <3>2. s \notin mapTx \/ o \notin Inputs(s)
      BY <1>1, <2>1, <2>2, PoolAssumption
    <3> QED
      BY <1>2, <2>2, <3>1, <3>2
  <2>3. CASE o \notin Inputs(t)
    <3>1. mapNextTx'[o] = mapNextTx[o]
      BY <1>3, <2>3
    <3> QED
      BY <1>2, <2>1, <2>3, <3>1
  <2> QED
    BY <2>2, <2>3
<1> QED
  BY <1>4, <1>5, <1>6 DEF PoolInv

\* remove keeps the index exact: an outpoint it erases had no other spender.
LEMMA EraseKeepsIndex ==
    ASSUME PoolInv, NEW S \in SUBSET mapTx, Erase(S)
    PROVE  PoolInv'
<1>1. mapTx' = mapTx \ S
  BY DEF Erase
<1>2. mapNextTx' = [o \in Outputs |->
                      IF \E t \in S : o \in Inputs(t) THEN None ELSE mapNextTx[o]]
  BY DEF Erase
<1>3. mapTx' \subseteq Txs
  BY <1>1 DEF PoolInv
<1>4. mapNextTx' \in [Outputs -> Txs \union {None}]
  BY <1>2 DEF PoolInv
<1>5. PoolIndexed'
  <2> SUFFICES ASSUME NEW o \in Outputs, NEW s \in Txs
               PROVE  mapNextTx'[o] = s <=> s \in mapTx' /\ o \in Inputs(s)
    BY DEF PoolIndexed, Inputs
  <2>1. \A u \in Txs : mapNextTx[o] = u <=> u \in mapTx /\ o \in Inputs(u)
    BY DEF PoolInv, PoolIndexed
  <2>2. CASE \E t \in S : o \in Inputs(t)
    <3>1. PICK t \in S : o \in Inputs(t)
      BY <2>2
    <3>2. mapNextTx[o] = t
      BY <2>1, <3>1 DEF PoolInv
    <3>3. mapNextTx'[o] = None /\ None # s
      BY <1>2, <2>2, PoolAssumption
    <3>4. (s \in mapTx /\ o \in Inputs(s)) => s = t
      BY <2>1, <3>2
    <3> QED
      BY <1>1, <3>3, <3>4
  <2>3. CASE ~ \E t \in S : o \in Inputs(t)
    <3>1. mapNextTx'[o] = mapNextTx[o]
      BY <1>2, <2>3
    <3> QED
      BY <1>1, <2>1, <2>3, <3>1
  <2> QED
    BY <2>2, <2>3
<1> QED
  BY <1>3, <1>4, <1>5 DEF PoolInv

\* What leaves the pool alone keeps the index exact.
LEMMA UnchangedKeepsIndex ==
    ASSUME PoolInv, UNCHANGED <<mapTx, mapNextTx>>
    PROVE  PoolInv'
  BY DEF PoolInv, PoolIndexed, Inputs

-----------------------------------------------------------------------------
(* The invariant.                                                          *)

\* An empty pool is indexed.
LEMMA PoolInvInit == Init => PoolInv
  BY PoolAssumption DEF Init, PoolInv, PoolIndexed

\* Every step keeps the pool indexed.
LEMMA PoolInvNext == PoolInv /\ [Next]_vars => PoolInv'
<1> SUFFICES ASSUME PoolInv, [Next]_vars PROVE PoolInv'
  OBVIOUS
<1>1. CASE \E t \in Txs : Accept(t)
  <2>1. PICK t \in Txs : Accept(t)
    BY <1>1
  <2> QED
    BY <2>1, AddKeepsIndex DEF Accept
<1>2. CASE \E keep \in 0..Len(chain) :
             \E vtxs \in Branches(Len(chain) - keep + 1), flush \in BOOLEAN :
                SetBestChain(keep, vtxs, flush)
  <2>1. UNCHANGED <<mapTx, mapNextTx>>
    BY <1>2 DEF SetBestChain
  <2> QED
    BY <2>1, UnchangedKeepsIndex
<1>3. CASE Resurrect
  <2>1. CASE Accepts(vResurrect[next])
    <3>1. AddUnchecked(vResurrect[next])
      BY <1>3, <2>1 DEF Resurrect
    <3> QED
      BY <2>1, <3>1, AddKeepsIndex
  <2>2. CASE ~ Accepts(vResurrect[next])
    <3>1. UNCHANGED <<mapTx, mapNextTx>>
      BY <1>3, <2>2 DEF Resurrect
    <3> QED
      BY <3>1, UnchangedKeepsIndex
  <2> QED
    BY <2>1, <2>2
<1>4. CASE Delete
  <2>1. Erase(Removed(vDelete[next]))
    BY <1>4 DEF Delete
  <2>2. Removed(vDelete[next]) \in SUBSET mapTx
    BY RemovedInPool
  <2> QED
    BY <2>1, <2>2, EraseKeepsIndex
<1>5. CASE ResurrectDone \/ DeleteDone
  <2>1. UNCHANGED <<mapTx, mapNextTx>>
    BY <1>5 DEF ResurrectDone, DeleteDone
  <2> QED
    BY <2>1, UnchangedKeepsIndex
<1>6. CASE UNCHANGED vars
  BY <1>6, UnchangedKeepsIndex DEF vars
<1> QED
  BY <1>1, <1>2, <1>3, <1>4, <1>5, <1>6 DEF Next

\* PoolIndexed in every reachable state: accept, remove and removeConflicts,
\* in whatever order blocks and transactions arrive, never leave an entry of
\* mapNextTx that points to a transaction the pool no longer has.
THEOREM PoolIndexAlways == Spec => []PoolIndexed
<1>1. PoolInv => PoolIndexed
  BY DEF PoolInv
<1> QED
  BY <1>1, PoolInvInit, PoolInvNext, PTL DEF Spec

\* No two transactions of the pool spend the same output.
NoDoubleSpend == \A s, t \in mapTx : s # t => Inputs(s) \cap Inputs(t) = {}

\* The pool never holds a double spend: what CTxMemPool::accept checks against
\* mapNextTx suffices, because the index is exact.
THEOREM PoolNoDoubleSpend == Spec => []NoDoubleSpend
<1>1. PoolInv => NoDoubleSpend
  <2> SUFFICES ASSUME PoolInv, NEW s \in mapTx, NEW t \in mapTx,
                      NEW o \in Inputs(s), o \in Inputs(t)
               PROVE  s = t
    BY DEF NoDoubleSpend
  <2>1. s \in Txs /\ t \in Txs
    BY DEF PoolInv
  <2>2. o \in Outputs
    <3> HIDE DEF Outputs
    <3>1. Vin[s] \in Seq(Outputs)
      BY <2>1, TxAssumption
    <3>2. PICK i \in 1..Len(Vin[s]) : o = Vin[s][i]
      BY DEF Inputs
    <3> QED
      BY <3>1, <3>2
  <2> QED
    BY <2>1, <2>2 DEF PoolInv, PoolIndexed
<1> QED
  BY <1>1, PoolInvInit, PoolInvNext, PTL DEF Spec

-----------------------------------------------------------------------------
(* What SetBestChain collects, and the types.                              *)

\* FlattenSeq puts the sequences together one after the other.
FlattenRuns(X, seqs, acc) ==
  /\ acc \in [0..Len(seqs) -> Seq(X)]
  /\ acc[0] = <<>>
  /\ \A k \in 1..Len(seqs) : acc[k] = acc[k - 1] \o seqs[k]

\* Its value is the end of such a run.
LEMMA FlattenRun ==
  ASSUME NEW X, NEW seqs \in Seq(Seq(X))
  PROVE  \E acc : FlattenRuns(X, seqs, acc) /\ FlattenSeq(seqs) = acc[Len(seqs)]
<1> DEFINE n == Len(seqs)
           A == Seq(X)
           T == [k \in 1..n |-> [a \in A |-> a \o seqs[k]]]
           Eq(f) == f = [i \in 1..n |-> IF i = 1 THEN seqs[i] ELSE f[i - 1] \o seqs[i]]
           flatten == CHOOSE f : Eq(f)
<1>1. n \in Nat /\ \A k \in 1..n : seqs[k] \in A
  OBVIOUS
<1> SUFFICES \E acc : FlattenRuns(X, seqs, acc) /\ (n # 0 => FlattenSeq(seqs) = acc[n])
  <2>1. n = 0 => FlattenSeq(seqs) = <<>>
    BY DEF FlattenSeq
  <2> QED BY <2>1 DEF FlattenRuns
<1>3. CASE TRUE
  <2>1. n # 0 => FlattenSeq(seqs) = flatten[n]
    BY DEF FlattenSeq
  <2>2. Steps(n, A, T) /\ <<>> \in A
    BY <1>1 DEF Steps
  <2>3. \A k \in 1..n : \A a \in A : T[k][a] = a \o seqs[k]
    OBVIOUS
  <2> HIDE DEF n
  <2>4. PICK acc : LeftRuns(n, A, <<>>, T, acc)
    <3> HIDE DEF T, A
    <3>1. PICK g : LeftFold(n, A, <<>>, T, g)
      BY <1>1, <2>2, FoldLeftExists
    <3> QED BY <1>1, <2>2, <3>1, LeftRun
  <2> DEFINE f == [i \in 1..n |-> acc[i]]
  <2>5. /\ acc[0] = <<>>
        /\ \A k \in 1..n : acc[k] \in A /\ acc[k] = acc[k - 1] \o seqs[k]
    <3> HIDE DEF A, T
    <3>1. acc \in [0..n -> A] /\ acc[0] = <<>> /\ \A k \in 1..n : acc[k] = T[k][acc[k - 1]]
      BY <2>4 DEF LeftRuns
    <3>2. ASSUME NEW k \in 1..n PROVE k \in 0..n /\ k - 1 \in 0..n
      BY <1>1
    <3> QED BY <2>3, <3>1, <3>2
  <2>6. ASSUME NEW i \in 1..n PROVE f[i] = IF i = 1 THEN seqs[i] ELSE f[i - 1] \o seqs[i]
    <3>1. CASE i = 1
      <4>1. acc[1] = acc[0] \o seqs[1] /\ seqs[1] \in A
        <5>1. 1 \in 1..n /\ 1 - 1 = 0
          BY <1>1, <3>1
        <5> HIDE DEF A
        <5>2. acc[1] = acc[1 - 1] \o seqs[1]
          BY <2>5, <5>1
        <5> QED BY <1>1, <5>1, <5>2
      <4>2. <<>> \o seqs[1] = seqs[1]
        BY <4>1
      <4> QED BY <2>5, <3>1, <4>1, <4>2
    <3>2. CASE i # 1
      <4>1. i - 1 \in 1..n
        BY <1>1, <3>2
      <4> QED BY <2>5, <3>2, <4>1
    <3> QED BY <3>1, <3>2
  <2>7. Eq(f)
    <3>1. f = [i \in 1..n |-> f[i]]
      OBVIOUS
    <3> HIDE DEF f
    <3> QED BY <2>6, <3>1
  <2>8. Eq(flatten)
    <3> HIDE DEF Eq, f
    <3> QED BY <2>7
  <2> HIDE DEF flatten, f
  <2> DEFINE S == {k \in 0..n : k # 0 => flatten[k] = acc[k]}
  <2>9. 0 \in S
    BY <1>1
  <2>10. ASSUME NEW k \in 1..n, k - 1 \in S PROVE k \in S
    <3>1. k \in 0..n /\ k - 1 \in 0..n
      BY <1>1
    <3>2. flatten[k] = IF k = 1 THEN seqs[k] ELSE flatten[k - 1] \o seqs[k]
      BY <2>8
    <3>3. acc[k] = IF k = 1 THEN seqs[k] ELSE acc[k - 1] \o seqs[k]
      <4>1. f[k] = IF k = 1 THEN seqs[k] ELSE f[k - 1] \o seqs[k]
        BY <2>6
      <4>2. f[k] = acc[k] /\ (k # 1 => f[k - 1] = acc[k - 1])
        BY <1>1 DEF f
      <4> QED BY <4>1, <4>2
    <3>4. k # 1 => flatten[k - 1] = acc[k - 1]
      BY <1>1, <2>10
    <3>5. flatten[k] = acc[k]
      BY <3>2, <3>3, <3>4
    <3> QED BY <3>1, <3>5
  <2>11. \A k \in 0..n : k \in S
    <3> HIDE DEF S
    <3> QED BY <1>1, <2>9, <2>10, UpTo
  <2>12. n # 0 => flatten[n] = acc[n]
    BY <1>1, <2>11
  <2>13. FlattenRuns(X, seqs, acc)
    <3>1. acc \in [0..n -> A]
      BY <2>4 DEF LeftRuns
    <3> QED BY <2>5, <3>1 DEF FlattenRuns, n
  <2> QED BY <2>1, <2>12, <2>13
<1> QED BY <1>3

\* It is a sequence over the same set.
LEMMA FlattenIs ==
  ASSUME NEW X, NEW seqs \in Seq(Seq(X))
  PROVE  FlattenSeq(seqs) \in Seq(X)
<1>1. PICK acc : FlattenRuns(X, seqs, acc) /\ FlattenSeq(seqs) = acc[Len(seqs)]
  BY FlattenRun
<1>2. acc \in [0..Len(seqs) -> Seq(X)] /\ Len(seqs) \in 0..Len(seqs)
  BY <1>1 DEF FlattenRuns
<1> QED BY <1>1, <1>2

\* It leaves nothing out.
LEMMA FlattenHas ==
  ASSUME NEW X, NEW seqs \in Seq(Seq(X)), NEW m \in 1..Len(seqs), NEW i \in 1..Len(seqs[m])
  PROVE  \E q \in 1..Len(FlattenSeq(seqs)) : FlattenSeq(seqs)[q] = seqs[m][i]
<1> DEFINE n == Len(seqs)
           x == seqs[m][i]
<1>1. PICK acc : FlattenRuns(X, seqs, acc) /\ FlattenSeq(seqs) = acc[n]
  BY FlattenRun
<1>2. n \in Nat /\ m \in 1..n /\ m \in 0..n /\ m - 1 \in 0..n
  OBVIOUS
<1>3. ASSUME NEW k \in 0..n PROVE acc[k] \in Seq(X)
  BY <1>1 DEF FlattenRuns
<1>4. ASSUME NEW k \in 1..n PROVE acc[k] = acc[k - 1] \o seqs[k] /\ seqs[k] \in Seq(X)
  <2>1. acc[k] = acc[k - 1] \o seqs[k]
    BY <1>1 DEF FlattenRuns
  <2>2. seqs[k] \in Seq(X)
    OBVIOUS
  <2> QED BY <2>1, <2>2
<1> DEFINE Has(s) == \E q \in 1..Len(s) : s[q] = x
           S == {k \in 0..n : k >= m => Has(acc[k])}
<1>5. 0 \in S
  BY <1>2
<1>6. ASSUME NEW k \in 1..n, k - 1 \in S PROVE k \in S
  <2>1. k \in 0..n /\ k - 1 \in 0..n
    BY <1>2
  <2>2. acc[k] = acc[k - 1] \o seqs[k] /\ seqs[k] \in Seq(X) /\ acc[k - 1] \in Seq(X)
    BY <1>3, <1>4, <2>1
  <2> DEFINE u == acc[k - 1]
             w == seqs[k]
  <2>3. CASE k > m
    <3>1. k - 1 >= m
      BY <1>2, <2>1, <2>3
    <3>2. PICK q \in 1..Len(u) : u[q] = x
      BY <1>6, <3>1
    <3>3. u \in Seq(X) /\ w \in Seq(X) /\ acc[k] = u \o w
      BY <2>2
    <3> HIDE DEF u, w, x
    <3>4. q \in 1..Len(u \o w) /\ (u \o w)[q] = u[q]
      BY <3>3
    <3> QED BY <2>1, <3>2, <3>3, <3>4
  <2>4. CASE k = m
    <3>1. i \in 1..Len(w) /\ w[i] = x
      BY <2>4
    <3>3. u \in Seq(X) /\ w \in Seq(X) /\ acc[k] = u \o w
      BY <2>2
    <3> HIDE DEF u, w, x
    <3>4. Len(u) + i \in 1..Len(u \o w) /\ (u \o w)[Len(u) + i] = w[i]
      BY <3>1, <3>3
    <3> QED BY <2>1, <3>1, <3>3, <3>4
  <2>5. CASE k < m
    BY <1>2, <2>1, <2>5
  <2> QED BY <1>2, <2>1, <2>3, <2>4, <2>5
<1>7. \A k \in 0..n : k \in S
  <2> HIDE DEF S
  <2> QED BY <1>2, <1>5, <1>6, UpTo
<1>8. Has(acc[n])
  BY <1>2, <1>7
<1> QED BY <1>1, <1>8

\* The transactions of a block after the coinbase.
LEMMA TailIs ==
  ASSUME NEW vtx \in Contents
  PROVE  Tail(vtx) \in Seq(Txs \ Coinbases)
<1> DEFINE s == Tail(vtx)
           k == Len(vtx) - 1
<1>1. vtx \in Seq(Txs) /\ vtx # <<>> /\ \A i \in 1..Len(vtx) : vtx[i] \in Coinbases <=> i = 1
  BY PoolAssumption
<1>2. k \in Nat /\ Len(vtx) \in Nat
  BY <1>1
<1>3. s \in Seq(Txs) /\ Len(s) = k /\ \A i \in 1..k : s[i] = vtx[i + 1]
  BY <1>1
<1> HIDE DEF s
<1>4. ASSUME NEW i \in 1..k PROVE s[i] \in Txs \ Coinbases
  <2>1. i + 1 \in 1..Len(vtx) /\ i + 1 # 1
    BY <1>2
  <2> QED BY <1>1, <1>3, <2>1
<1> HIDE DEF k
<1>5. s \in [1..k -> Txs \ Coinbases]
  BY <1>3, <1>4
<1>6. s \in Seq(Txs \ Coinbases)
  BY <1>2, <1>5
<1> QED BY <1>6 DEF s

\* What one disconnected block adds to vResurrect.
CollectNext(s, i) ==
  LET j == Len(chain) + 1 - i
  IN  IF BaseHeight + j > Checkpoint THEN s \o Tail(chain[j].vtx) ELSE s

\* vResurrect has no coinbases.
LEMMA CollectIs ==
  ASSUME CoinsInv, NEW keep \in 0..Len(chain)
  PROVE  Collect(keep) \in Seq(Txs \ Coinbases)
<1> DEFINE n == Len(chain) - keep
           A == Seq(Txs \ Coinbases)
           base == <<>>
           q == [i \in 1..n |-> i]
           T == [k \in 1..n |-> [a \in A |-> CollectNext(a, k)]]
           Eq(g) == g = [u \in SUBSET (1..n) |->
                            IF u = {} THEN base
                            ELSE CollectNext(g[u \ {Max(u)}], q[Max(u)])]
           iter == CHOOSE g : Eq(g)
<1>0. Len(chain) \in Nat
  BY DEF CoinsInv
<1>1. n \in Nat /\ DOMAIN q = 1..n
  BY <1>0
<1>2. Steps(n, A, T)
  <2>1. ASSUME NEW k \in 1..n, NEW a \in A PROVE CollectNext(a, k) \in A
    <3> DEFINE j == Len(chain) + 1 - k
    <3>1. j \in 1..Len(chain)
      BY <1>0
    <3> HIDE DEF j
    <3>2. Tail(chain[j].vtx) \in A
      BY <3>1, TailIs DEF CoinsInv
    <3> DEFINE t == Tail(chain[j].vtx)
    <3> HIDE DEF t
    <3>3. t \in A
      BY <3>2 DEF t
    <3>4. a \o t \in A
      BY <3>3
    <3> QED BY <3>4 DEF CollectNext, j, t
  <2> QED BY <2>1 DEF Steps
<1>3. base \in A
  OBVIOUS
<1>4. Collect(keep) = iter[1..n]
  BY <1>1 DEF Collect, CollectNext, FoldLeft, MapThenFoldSet
<1>5. \A u \in SUBSET (1..n) : u # {} => Max(u) \in 1..n
  BY <1>1, MaxIn
<1> HIDE DEF n, base, A
<1>6. \E g : Eq(g)
  <2>1. PICK g : g \in [SUBSET (1..n) -> A] /\ LeftFold(n, A, base, T, g)
    <3> HIDE DEF T
    <3> QED BY <1>1, <1>2, <1>3, FoldLeftExists
  <2>2. ASSUME NEW u \in SUBSET (1..n), u # {}
        PROVE  g[u] = CollectNext(g[u \ {Max(u)}], q[Max(u)])
    <3>1. g[u \ {Max(u)}] \in A
      BY <2>1
    <3> QED BY <1>5, <2>1, <2>2, <3>1 DEF LeftFold
  <2>3. g[{}] = base
    BY <2>1 DEF LeftFold
  <2>4. Eq(g)
    BY <2>1, <2>2, <2>3
  <2> HIDE DEF Eq
  <2> QED BY <2>4
<1>7. Eq(iter)
  <2> HIDE DEF Eq
  <2> QED BY <1>6
<1> HIDE DEF iter
<1>8. LeftFold(n, A, base, T, iter)
  BY <1>5, <1>7 DEF LeftFold
<1>9. PICK acc : LeftRuns(n, A, base, T, acc) /\ acc[n] = iter[1..n]
  <2> HIDE DEF T, Eq
  <2> QED BY <1>1, <1>2, <1>3, <1>8, LeftRun
<1>10. acc \in [0..n -> A] /\ n \in 0..n
  <2> HIDE DEF A
  <2> QED BY <1>1, <1>9 DEF LeftRuns
<1>11. acc[n] \in A
  <2> HIDE DEF A
  <2> QED BY <1>10
<1> QED BY <1>4, <1>9, <1>11 DEF A

\* The inductive invariant for the types: SetBestChain only puts transactions
\* of the chain on the list of the ones to delete.
DeletesConfirmed == \A i \in 1..Len(vDelete) : vDelete[i] \in Confirmed
PoolTypes ==
  /\ pc \in {"idle", "resurrect", "delete"}
  /\ Len(chain) <= MaxChain
  /\ mapTx \subseteq Standard \ Coinbases
  /\ vResurrect \in Seq(Txs \ Coinbases) /\ vDelete \in Seq(Txs)
  /\ next \in 1..(Len(vResurrect) + Len(vDelete) + 1)
WholeInv == CoinsInv /\ PoolInv /\ PoolTypes /\ DeletesConfirmed

\* It gives the types of TypeOK: the entries of mapNextTx are in the pool
\* because the index is exact.
LEMMA WholeTypes == WholeInv => TypeOK
<1> SUFFICES ASSUME WholeInv PROVE TypeOK
  OBVIOUS
<1>1. \A i \in 1..Len(chain) : chain[i].vtx \in Contents
  BY DEF WholeInv, CoinsInv
<1>2. ASSUME NEW t \in Txs PROVE coins[t].outs \subseteq Vout[t]
  <2>1. PICK V : Replay(chain, V) /\ Same(coins, V[Len(chain)])
    BY DEF WholeInv, CoinsInv
  <2>2. Len(chain) \in 0..Len(chain)
    BY DEF WholeInv, CoinsInv
  <2>3. Sane(V[Len(chain)])
    BY <2>1, <2>2 DEF Replay
  <2>4. Sane(coins)
    BY <2>1, <2>3, SameIs, SameSane
  <2> QED BY <2>4 DEF Sane
<1>3. mapNextTx \in [Outputs -> mapTx \union {None}]
  BY DEF WholeInv, PoolInv, PoolIndexed
<1> QED BY <1>1, <1>2, <1>3 DEF WholeInv, PoolTypes, TypeOK

\* What SetBestChain collects to delete is in the new chain.
LEMMA DeletesAreConfirmed ==
  ASSUME CoinsInv, NEW keep \in 0..Len(chain),
         NEW vtxs \in Branches(Len(chain) - keep + 1), NEW flush \in BOOLEAN,
         SetBestChain(keep, vtxs, flush)
  PROVE  vDelete' \in Seq(Txs) /\ DeletesConfirmed'
<1>1. /\ CoinsInv' /\ Len(chain') = keep + Len(vtxs)
      /\ \A j \in 1..Len(vtxs) : chain'[keep + j].vtx = vtxs[j]
  BY SetBestChainCoins
<1>2. PICK C : C = Confirmed'
  OBVIOUS
<1>3. vtxs \in Seq(Contents) /\ vtxs \in Seq(Seq(Txs)) /\ keep \in Nat /\ Len(vtxs) \in Nat
  BY BranchIs DEF CoinsInv
<1>4. ASSUME NEW j \in 1..Len(vtxs) PROVE vtxs[j] \in Seq(C)
  <2>1. keep + j \in 1..Len(chain') /\ chain'[keep + j].vtx = vtxs[j]
    BY <1>1, <1>3
  <2>2. Range(vtxs[j]) \subseteq C
    BY <1>2, <2>1 DEF Confirmed
  <2> DEFINE s == vtxs[j]
  <2>3. s \in Seq(Txs)
    BY <1>3
  <2> HIDE DEF s
  <2>4. \A i \in 1..Len(s) : s[i] \in C
    BY <2>2, <2>3 DEF Range, s
  <2>5. s \in Seq(C)
    BY <2>3, <2>4
  <2> QED BY <2>5 DEF s
<1>5. vtxs \in Seq(Seq(C))
  <2> DEFINE D == Seq(C)
             n == Len(vtxs)
  <2>1. vtxs = [j \in 1..n |-> vtxs[j]]
    BY <1>3
  <2>2. n \in Nat /\ \A j \in 1..n : vtxs[j] \in D
    BY <1>3, <1>4
  <2> HIDE DEF D, n
  <2>3. vtxs \in [1..n -> D]
    BY <2>1, <2>2
  <2>4. vtxs \in Seq(D)
    BY <2>2, <2>3
  <2> QED BY <2>4 DEF D
<1>6. vDelete' = FlattenSeq(vtxs)
  BY DEF SetBestChain
<1>7. vDelete' \in Seq(Txs) /\ vDelete' \in Seq(C)
  BY <1>3, <1>5, <1>6, FlattenIs
<1>8. \A i \in 1..Len(vDelete') : vDelete'[i] \in C
  BY <1>7
<1> QED BY <1>2, <1>7, <1>8 DEF DeletesConfirmed

\* The invariant holds at the start.
LEMMA WholeInit == Init => WholeInv
<1> SUFFICES ASSUME Init PROVE WholeInv
  OBVIOUS
<1>1. CoinsInv /\ PoolInv
  BY CoinsInvInit, PoolInvInit
<1>2. PoolTypes
  BY PoolAssumption DEF Init, PoolTypes
<1>3. DeletesConfirmed
  BY DEF Init, DeletesConfirmed
<1> QED BY <1>1, <1>2, <1>3 DEF WholeInv

\* Every step keeps it.
LEMMA WholeNext == WholeInv /\ [Next]_vars => WholeInv'
<1> SUFFICES ASSUME WholeInv, [Next]_vars PROVE WholeInv'
  OBVIOUS
<1>0. CoinsInv /\ PoolInv /\ PoolTypes /\ DeletesConfirmed
  BY DEF WholeInv
<1>1. CoinsInv' /\ PoolInv'
  BY <1>0, CoinsInvNext, PoolInvNext
<1>2. ASSUME NEW t, Accepts(t), AddUnchecked(t) PROVE mapTx' \subseteq Standard \ Coinbases
  BY <1>0, <1>2 DEF Accepts, AddUnchecked, PoolTypes
<1>3. ASSUME UNCHANGED <<chain, vDelete>> PROVE DeletesConfirmed'
  BY <1>0, <1>3 DEF DeletesConfirmed, Confirmed
<1>4. Len(vResurrect) \in Nat /\ Len(vDelete) \in Nat
  BY <1>0 DEF PoolTypes
<1>5. ASSUME NEW t \in Txs, Accept(t) PROVE PoolTypes' /\ DeletesConfirmed'
  BY <1>0, <1>2, <1>3, <1>5 DEF Accept, PoolTypes
<1>6. ASSUME NEW keep \in 0..Len(chain), NEW vtxs \in Branches(Len(chain) - keep + 1),
             NEW flush \in BOOLEAN, SetBestChain(keep, vtxs, flush)
      PROVE  PoolTypes' /\ DeletesConfirmed'
  <2>1. vDelete' \in Seq(Txs) /\ DeletesConfirmed'
    BY <1>0, <1>6, DeletesAreConfirmed
  <2>2. vResurrect' \in Seq(Txs \ Coinbases)
    BY <1>0, <1>6, CollectIs DEF SetBestChain
  <2>3. Len(chain') <= MaxChain
    BY <1>0, <1>6, SetBestChainCoins DEF SetBestChain
  <2>4. pc' = "resurrect" /\ next' = 1 /\ mapTx' = mapTx
    BY <1>6 DEF SetBestChain
  <2>5. Len(vResurrect') \in Nat /\ Len(vDelete') \in Nat
    BY <2>1, <2>2
  <2>6. next' \in 1..(Len(vResurrect') + Len(vDelete') + 1)
    BY <2>4, <2>5
  <2> QED BY <1>0, <2>1, <2>2, <2>3, <2>4, <2>6 DEF PoolTypes
<1>7. ASSUME Resurrect PROVE PoolTypes' /\ DeletesConfirmed'
  <2>1. mapTx' \subseteq Standard \ Coinbases
    BY <1>0, <1>2, <1>7 DEF Resurrect, PoolTypes
  <2> QED BY <1>0, <1>3, <1>4, <1>7, <2>1 DEF Resurrect, PoolTypes
<1>8. ASSUME ResurrectDone PROVE PoolTypes' /\ DeletesConfirmed'
  BY <1>0, <1>3, <1>4, <1>8 DEF ResurrectDone, PoolTypes
<1>9. ASSUME Delete PROVE PoolTypes' /\ DeletesConfirmed'
  BY <1>0, <1>3, <1>4, <1>9 DEF Delete, Erase, PoolTypes
<1>10. ASSUME DeleteDone PROVE PoolTypes' /\ DeletesConfirmed'
  BY <1>0, <1>10 DEF DeleteDone, PoolTypes, DeletesConfirmed
<1>11. ASSUME UNCHANGED vars PROVE PoolTypes' /\ DeletesConfirmed'
  BY <1>0, <1>3, <1>11 DEF vars, PoolTypes
<1>12. PoolTypes' /\ DeletesConfirmed'
  BY <1>5, <1>6, <1>7, <1>8, <1>9, <1>10, <1>11 DEF Next
<1> QED BY <1>1, <1>12 DEF WholeInv

\* TypeOK in every reachable state: among the rest, vResurrect never holds a
\* coinbase and mapNextTx never names a transaction that left the pool.
THEOREM TxPoolTypeCorrect == Spec => []TypeOK
BY WholeInit, WholeNext, WholeTypes, PTL DEF Spec

\* The set that remove(tx, true) takes out with c has the spender of each
\* output of its members.
LEMMA DescendantsClosed ==
  ASSUME PoolInv, NEW c, NEW t \in WithDescendants(c), NEW o \in Outputs, o[1] = t,
         mapNextTx[o] # None
  PROVE  mapNextTx[o] \in WithDescendants(c)
<1>1. mapNextTx[o] \in mapTx
  BY DEF PoolInv, PoolIndexed
<1>2. ASSUME NEW S \in SUBSET mapTx, c \in S, SpendersIn(S) PROVE mapNextTx[o] \in S
  <2>1. t \in S
    BY <1>2 DEF WithDescendants
  <2> QED BY <1>2, <2>1 DEF SpendersIn
<1> QED BY <1>1, <1>2 DEF WithDescendants

\* ConflictsLeaveWhole holds of every step: a transaction that leaves the pool
\* without being in the chain takes along all that spends it.
THEOREM ConflictsAlwaysLeaveWhole == Spec => ConflictsLeaveWhole
<1> DEFINE A == \A t \in (mapTx \ mapTx') \ Confirmed' : \A o \in Outputs :
                   o[1] = t => mapNextTx'[o] = None
<1>1. ASSUME WholeInv, [Next]_vars PROVE [A]_vars
  <2>1. CASE UNCHANGED vars
    BY <2>1
  <2>2. CASE mapTx \subseteq mapTx'
    BY <2>2
  <2>3. CASE Delete
    <3>1. /\ next \in 1..Len(vDelete) /\ Erase(Removed(vDelete[next]))
          /\ chain' = chain
      BY <1>1, <2>3 DEF Delete, WholeInv, PoolTypes
    <3> DEFINE x == vDelete[next]
    <3>2. x \in Confirmed'
      BY <1>1, <3>1 DEF WholeInv, DeletesConfirmed, Confirmed
    <3> HIDE DEF x
    <3> SUFFICES ASSUME NEW t \in (mapTx \ mapTx') \ Confirmed', NEW o \in Outputs, o[1] = t
                 PROVE  mapNextTx'[o] = None
      OBVIOUS
    <3>3. t \in Removed(x) /\ t # x
      BY <3>1, <3>2 DEF Erase, x
    <3>4. PICK c : t \in WithDescendants(c) /\ WithDescendants(c) \subseteq Removed(x)
      BY <3>3 DEF Removed
    <3>5. CASE mapNextTx[o] = None
      BY <3>1, <3>5 DEF Erase
    <3>6. CASE mapNextTx[o] # None
      <4> DEFINE d == mapNextTx[o]
      <4>1. d \in WithDescendants(c)
        BY <1>1, <3>4, <3>6, DescendantsClosed DEF WholeInv
      <4>2. d \in mapTx
        BY <4>1 DEF WithDescendants
      <4>3. o \in Inputs(d)
        BY <1>1, <4>2 DEF WholeInv, PoolInv, PoolIndexed
      <4>4. d \in Removed(x)
        BY <3>4, <4>1
      <4> HIDE DEF d
      <4> QED BY <3>1, <4>3, <4>4 DEF Erase, x
    <3> QED BY <3>5, <3>6
  <2> QED
    BY <1>1, <2>1, <2>2, <2>3
    DEF Next, Accept, AddUnchecked, SetBestChain, Resurrect, ResurrectDone, DeleteDone
<1> QED BY <1>1, WholeInit, WholeNext, PTL DEF Spec, ConflictsLeaveWhole

-----------------------------------------------------------------------------
(* What the chain has spent.                                               *)

\* UpdateCoins takes the outputs that a transaction spends, and gives its own
\* and nothing else.
LEMMA UpdateSpends ==
  ASSUME NEW v \in Views, Sane(v), NEW t \in Txs, HaveInputs(v, t), NEW h \in Nat \ {0},
         NEW o \in Inputs(t), o[1] # t
  PROVE  o[2] \notin UpdateCoins(v, t, h).view[o[1]].outs
<1> DEFINE n == Len(Vin[t])
           r == UpdateCoins(v, t, h)
<1>0. n \in Nat
  BY TxAssumption
<1>1. PICK acc : /\ SpendRuns(v, t, acc)
                 /\ r = [view |-> [acc[n].view EXCEPT ![t] = Entry(h, Vout[t])],
                         undo |-> acc[n].undo]
  BY SpendRun
<1>2. PICK i \in 1..n : o = Vin[t][i]
  BY DEF Inputs
<1>3. o[1] \in Txs /\ o[2] \in Indices /\ o = <<o[1], o[2]>>
  BY <1>2, InputIs
<1>4. ASSUME NEW k \in 0..n
      PROVE  /\ acc[k] \in SpendAcc /\ Sane(acc[k].view)
             /\ \A j \in (k + 1)..n : Available(acc[k].view, Vin[t][j])
  BY <1>1, <1>4, SpendRunIs
<1> DEFINE S == {k \in 0..n : k >= i => o[2] \notin acc[k].view[o[1]].outs}
<1>5. 0 \in S
  BY <1>0, <1>2
<1>6. ASSUME NEW k \in 1..n, k - 1 \in S PROVE k \in S
  <2>1. k \in 0..n /\ k - 1 \in 0..n /\ k \in ((k - 1) + 1)..n
    BY <1>0
  <2>2. acc[k - 1] \in SpendAcc /\ Sane(acc[k - 1].view) /\ Available(acc[k - 1].view, Vin[t][k])
    BY <1>4, <2>1
  <2>3. acc[k] = Spend(acc[k - 1], Vin[t][k])
    BY <1>1 DEF SpendRuns
  <2>4. Spent(acc[k - 1], Vin[t][k], acc[k])
    BY <2>2, <2>3, SpendIs
  <2>5. acc[k].view[o[1]].outs =
          acc[k - 1].view[o[1]].outs \ {x \in Indices : <<o[1], x>> = Vin[t][k]}
    BY <1>3, <2>4 DEF Spent
  <2>6. CASE k = i
    BY <1>2, <1>3, <2>1, <2>5, <2>6
  <2>7. CASE k > i
    BY <1>0, <1>6, <2>1, <2>5, <2>7
  <2>8. CASE k < i
    BY <1>0, <2>1, <2>8
  <2> QED BY <1>0, <1>2, <2>1, <2>6, <2>7, <2>8
<1>7. \A k \in 0..n : k \in S
  <2> HIDE DEF S
  <2> QED BY <1>0, <1>5, <1>6, UpTo
<1>8. o[2] \notin acc[n].view[o[1]].outs /\ acc[n].view \in Views
  BY <1>0, <1>4, <1>7 DEF SpendAcc
<1>9. r.view[o[1]] = acc[n].view[o[1]]
  BY <1>1, <1>3, <1>8 DEF Views
<1> QED BY <1>8, <1>9

\* The view v of a chain with the transactions D, down to the first block: all
\* that they spend is spent, what they spend is theirs, so is what is left, and
\* no two of them spend the same.
Settled(v, D) ==
  /\ \A c \in D : \A o \in Inputs(c) : o[1] \in D /\ o[2] \notin v[o[1]].outs
  /\ \A p \in Txs : v[p].outs # {} => p \in D
  /\ \A c \in D, d \in D \ History : c # d => Inputs(c) \cap Inputs(d) = {}

\* Views that Flush makes equal are settled together.
LEMMA SettledSame ==
  ASSUME NEW v, NEW w, Same(v, w), NEW D \in SUBSET Txs, Settled(v, D)
  PROVE  Settled(w, D)
<1>1. ASSUME NEW p \in Txs PROVE v[p].outs = w[p].outs
  BY DEF Same
<1> QED BY <1>1 DEF Settled

\* The coins below the model are those of History.
LEMMA BaseSettled == History \subseteq Txs /\ Settled(BaseCoins, History)
<1>1. ASSUME NEW p \in Txs, BaseCoins[p].outs # {} PROVE p \in History
  <2>1. BaseCoins[p] # NoEntry
    BY <1>1 DEF NoEntry, Entry
  <2> QED BY <2>1 DEF History, ClosedBelow
<1>2. ASSUME NEW c \in History, NEW o \in Inputs(c) PROVE o[1] \in History
  <2>1. c \in Txs
    BY DEF History
  <2>2. o[1] \in Txs
    BY <2>1, InputIs DEF Inputs
  <2>3. ASSUME NEW S \in SUBSET Txs, ClosedBelow(S) PROVE o[1] \in S
    <3>1. c \in S
      BY <2>3 DEF History
    <3> QED BY <2>3, <3>1 DEF ClosedBelow
  <2> QED BY <2>2, <2>3 DEF History
<1>3. \A c \in History : \A o \in Inputs(c) : o[2] \notin BaseCoins[o[1]].outs
  BY PoolAssumption
<1>4. History \subseteq Txs
  BY DEF History
<1> QED BY <1>1, <1>2, <1>3, <1>4 DEF Settled

\* A transaction that connects is new, unless it is a coinbase, and leaves the
\* view settled.
LEMMA TxSettles ==
  ASSUME NEW v \in Views, Sane(v), NEW D \in SUBSET Txs, Settled(v, D),
         NEW t \in Txs, t \in Coinbases => t \notin D, HaveInputs(v, t), NEW h \in Nat \ {0}
  PROVE  t \notin D /\ Settled(UpdateCoins(v, t, h).view, D \union {t})
<1> DEFINE w == UpdateCoins(v, t, h).view
<1>1. \A o \in Inputs(t) : o[2] \in v[o[1]].outs /\ o[1] \in Txs
  BY InputIs DEF HaveInputs, Inputs
<1>2. t \notin D
  <2>1. CASE t \in Coinbases
    BY <2>1
  <2>2. CASE t \notin Coinbases
    <3>1. Vin[t] # <<>> /\ Vin[t] \in Seq(Outputs)
      BY <2>2, TxAssumption
    <3>2. 1 \in 1..Len(Vin[t])
      <4> DEFINE s == Vin[t]
                 X == Outputs
      <4>1. s # <<>> /\ s \in Seq(X)
        BY <3>1
      <4> HIDE DEF s, X
      <4>2. 1 \in 1..Len(s)
        BY <4>1
      <4> QED BY <4>2 DEF s
    <3>3. Vin[t][1] \in Inputs(t)
      BY <3>2 DEF Inputs
    <3> QED BY <1>1, <3>3 DEF Settled
  <2> QED BY <2>1, <2>2
<1>3. v[t].outs = {}
  BY <1>2 DEF Settled
<1>4. /\ \A p \in Txs : p # t => w[p].outs \subseteq v[p].outs
  BY UpdateIs
<1>5. ASSUME NEW o \in Inputs(t) PROVE o[1] \in D /\ o[2] \notin w[o[1]].outs
  <2>1. o[1] # t /\ o[1] \in D
    BY <1>1, <1>3 DEF Settled
  <2> QED BY <2>1, UpdateSpends
<1> HIDE DEF w
<1>6. ASSUME NEW c \in D, NEW o \in Inputs(c) PROVE o[1] \in D /\ o[2] \notin w[o[1]].outs
  <2>1. o[1] \in D /\ o[2] \notin v[o[1]].outs
    BY DEF Settled
  <2>2. o[1] # t /\ o[1] \in Txs
    BY <1>2, <2>1
  <2> QED BY <1>4, <2>1, <2>2
<1>7. ASSUME NEW p \in Txs, w[p].outs # {} PROVE p \in D \union {t}
  BY <1>4, <1>7 DEF Settled
<1>8. ASSUME NEW c \in D, NEW o \in Inputs(c) PROVE o \notin Inputs(t)
  BY <1>1 DEF Settled
<1>9. ASSUME NEW c \in D \union {t}, NEW d \in (D \union {t}) \ History, c # d
      PROVE  Inputs(c) \cap Inputs(d) = {}
  BY <1>8, <1>9 DEF Settled
<1>10. Settled(w, D \union {t})
  BY <1>5, <1>6, <1>7, <1>9 DEF Settled
<1> QED BY <1>2, <1>10 DEF w

\* So does a block, and all of its transactions are new when the coinbase is.
LEMMA BlockSettles ==
  ASSUME NEW v \in Views, Sane(v), NEW D \in SUBSET Txs, Settled(v, D), NEW vtx \in Contents,
         vtx[1] \notin D, NEW h \in Nat \ {0}, ConnectBlock(v, vtx, h).ok
  PROVE  /\ Range(vtx) \cap D = {}
         /\ Settled(ConnectBlock(v, vtx, h).view, D \union Range(vtx))
<1> DEFINE n == Len(vtx)
           r == ConnectBlock(v, vtx, h)
<1>0. /\ vtx \in Seq(Txs) /\ IsInjective(vtx) /\ n \in Nat
      /\ \A i \in 1..n : vtx[i] \in Coinbases <=> i = 1
  BY PoolAssumption
<1>1. PICK acc : ConnectRuns(v, vtx, h, acc) /\ r = acc[n]
  BY <1>0, ConnectRun
<1>2. \A k \in 0..n : ConnectedSoFar(v, vtx, h, acc, k)
  BY <1>0, <1>1, ConnectRunIs
<1> DEFINE E(k) == D \union {vtx[j] : j \in 1..k}
           P(k) == Settled(acc[k].view, E(k)) /\ \A j \in 1..k : vtx[j] \notin D
           S == {k \in 0..n : P(k)}
<1>3. 0 \in S
  <2>1. acc[0].view = v
    BY <1>1 DEF ConnectRuns
  <2>2. 1..0 = {} /\ E(0) = D
    OBVIOUS
  <2> HIDE DEF E
  <2>3. P(0)
    BY <2>1, <2>2
  <2> HIDE DEF P
  <2> QED BY <1>0, <2>3
<1>4. ASSUME NEW k \in 1..n, k - 1 \in S PROVE k \in S
  <2> DEFINE t == vtx[k]
             a == acc[k - 1]
             F == E(k - 1)
  <2>0. k - 1 \in 0..n /\ k \in 0..n /\ t \in Txs /\ k # 0 /\ 1..k = (1..(k - 1)) \union {k}
    BY <1>0
  <2>1. a \in ConnectAcc /\ Sane(a.view)
    BY <1>2, <2>0 DEF ConnectedSoFar
  <2>2. ConnectedTx(a, t, h, acc[k])
    BY <1>2, <2>0 DEF ConnectedSoFar
  <2>3. a.view \in Views /\ HaveInputs(a.view, t) /\ acc[k].view = UpdateCoins(a.view, t, h).view
    BY <2>1, <2>2 DEF ConnectedTx, CheckInputs, ConnectAcc
  <2>4. Settled(a.view, F) /\ \A j \in 1..(k - 1) : vtx[j] \notin D
    BY <1>4
  <2>5. F \in SUBSET Txs /\ D \subseteq F
    BY <1>0, <2>0
  <2>6. t \in Coinbases => t \notin F
    <3>1. t \in Coinbases => k = 1
      BY <1>0
    <3>2. k = 1 => F = D
      OBVIOUS
    <3> QED BY <3>1, <3>2
  <2>7. E(k) = F \union {t}
    BY <2>0
  <2> HIDE DEF a, t, F
  <2>8. t \notin F /\ Settled(UpdateCoins(a.view, t, h).view, F \union {t})
    BY <2>0, <2>1, <2>3, <2>4, <2>5, <2>6, TxSettles
  <2>9. Settled(acc[k].view, E(k))
    BY <2>3, <2>7, <2>8
  <2>10. vtx[k] \notin D
    BY <2>5, <2>8 DEF t
  <2>11. \A j \in 1..k : vtx[j] \notin D
    BY <2>0, <2>4, <2>10
  <2> HIDE DEF E
  <2> QED BY <2>0, <2>9, <2>11
<1>5. \A k \in 0..n : k \in S
  <2> HIDE DEF S
  <2> QED BY <1>0, <1>3, <1>4, UpTo
<1>6. P(n)
  <2>1. n \in S
    <3> HIDE DEF S
    <3> QED BY <1>0, <1>5
  <2> HIDE DEF P
  <2> QED BY <2>1
<1>7. Range(vtx) = {vtx[j] : j \in 1..n}
  BY <1>0 DEF Range
<1> QED BY <1>1, <1>6, <1>7

\* The transactions of the first k blocks of ch, and the ones below.
Done(ch, k) == History \union UNION {Range(ch[i].vtx) : i \in 1..k}

\* No coinbase is there twice.
Once(ch) == \A i \in 1..Len(ch) : /\ ch[i].vtx[1] \notin History
                                  /\ \A j \in 1..(i - 1) : ch[i].vtx[1] # ch[j].vtx[1]

\* After block k the view is settled, and none of its transactions was there
\* before.
SettledTo(ch, V, k) ==
  /\ Done(ch, k) \in SUBSET Txs /\ Settled(V[k], Done(ch, k))
  /\ k # 0 => Range(ch[k].vtx) \cap Done(ch, k - 1) = {}

\* What one more block adds.
LEMMA DoneNext ==
  ASSUME NEW ch, NEW k \in Nat, k # 0
  PROVE  Done(ch, k) = Done(ch, k - 1) \union Range(ch[k].vtx)
<1>1. 1..k = (1..(k - 1)) \union {k}
  OBVIOUS
<1> QED BY <1>1 DEF Done

\* A replay is settled after each block.
LEMMA ReplaySettles ==
  ASSUME NEW ch \in Seq(BlockRec), \A i \in 1..Len(ch) : ch[i].vtx \in Contents,
         NEW V, Replay(ch, V), Once(ch)
  PROVE  \A k \in 0..Len(ch) : SettledTo(ch, V, k)
<1> DEFINE n == Len(ch)
           S == {k \in 0..n : SettledTo(ch, V, k)}
<1>0. n \in Nat
  OBVIOUS
<1>1. 0 \in S
  <2>1. V[0] = BaseCoins
    BY DEF Replay
  <2>2. Done(ch, 0) = History
    BY DEF Done
  <2> QED BY <1>0, <2>1, <2>2, BaseSettled DEF SettledTo
<1>2. ASSUME NEW k \in 1..n, k - 1 \in S PROVE k \in S
  <2> DEFINE vtx == ch[k].vtx
             D == Done(ch, k - 1)
             h == BaseHeight + k
  <2>0. k - 1 \in 0..n /\ k \in 0..n /\ k # 0 /\ k \in Nat
    BY <1>0
  <2>1. D \in SUBSET Txs /\ Settled(V[k - 1], D)
    BY <1>2 DEF SettledTo
  <2>2. /\ V[k - 1] \in Views /\ Sane(V[k - 1])
        /\ ConnectBlock(V[k - 1], vtx, h).ok /\ ConnectBlock(V[k - 1], vtx, h).view = V[k]
    BY <2>0 DEF Replay
  <2>3. vtx \in Contents /\ h \in Nat \ {0}
    BY <2>0, HeightIs
  <2>4. vtx[1] \notin D
    <3>1. vtx[1] \notin History /\ \A j \in 1..(k - 1) : vtx[1] # ch[j].vtx[1]
      BY DEF Once
    <3>2. 1 \in 1..Len(vtx) /\ vtx[1] \in Coinbases
      <4>1. vtx \in Seq(Txs) /\ vtx # <<>> /\ \A i \in 1..Len(vtx) : vtx[i] \in Coinbases <=> i = 1
        BY <2>3, PoolAssumption
      <4> HIDE DEF vtx
      <4> QED BY <4>1
    <3>3. ASSUME NEW j \in 1..(k - 1), vtx[1] \in Range(ch[j].vtx) PROVE FALSE
      <4>1. j \in 1..n
        BY <1>0
      <4> DEFINE u == ch[j].vtx
      <4>2. u \in Seq(Txs) /\ \A i \in 1..Len(u) : u[i] \in Coinbases <=> i = 1
        BY <4>1, PoolAssumption
      <4>3. vtx[1] \in Range(u)
        BY <3>3
      <4>4. vtx[1] # u[1]
        BY <3>1
      <4> HIDE DEF u
      <4>5. PICK i \in 1..Len(u) : vtx[1] = u[i]
        BY <4>2, <4>3 DEF Range
      <4> QED BY <3>2, <4>2, <4>4, <4>5
    <3> QED BY <3>1, <3>3 DEF Done
  <2>5. Done(ch, k) = D \union Range(vtx)
    BY <2>0, DoneNext
  <2> HIDE DEF vtx, D, h
  <2>6. Range(vtx) \cap D = {} /\ Settled(V[k], D \union Range(vtx))
    BY <2>1, <2>2, <2>3, <2>4, BlockSettles
  <2>7. Range(vtx) \subseteq Txs
    BY <2>3, ContentIs DEF Range
  <2>8. D \union Range(vtx) \in SUBSET Txs
    BY <2>1, <2>7
  <2> QED BY <2>0, <2>5, <2>6, <2>8 DEF SettledTo, D, vtx
<1>3. \A k \in 0..n : k \in S
  <2> HIDE DEF S
  <2> QED BY <1>0, <1>1, <1>2, UpTo
<1> QED BY <1>3

\* The transactions of a block are not in any block below it.
LEMMA BlocksDisjoint ==
  ASSUME NEW ch \in Seq(BlockRec), \A i \in 1..Len(ch) : ch[i].vtx \in Contents,
         NEW V, Replay(ch, V), Once(ch),
         NEW i \in 1..Len(ch), NEW k \in 0..Len(ch), k < i
  PROVE  Range(ch[i].vtx) \cap Done(ch, k) = {}
<1>1. i \in 0..Len(ch) /\ i # 0 /\ i - 1 \in Nat /\ k <= i - 1 /\ k \in Nat
  OBVIOUS
<1>2. Range(ch[i].vtx) \cap Done(ch, i - 1) = {}
  BY <1>1, ReplaySettles DEF SettledTo
<1>3. 1..k \subseteq 1..(i - 1)
  BY <1>1
<1>4. Done(ch, k) \subseteq Done(ch, i - 1)
  BY <1>3 DEF Done
<1> QED BY <1>2, <1>4

-----------------------------------------------------------------------------
(* The pool and what the chain has spent.                                  *)

\* No two blocks of the chain have the same coinbase, and none is below the
\* model: with BIP34, which AcceptBlock enforces once most blocks are of version
\* 2, a coinbase has the height in it.
CoinbasesOnce == Once(chain)

\* The transactions of the chain, down to the first block.
ChainTxs == Done(chain, Len(chain))

\* The coins are settled.
LEMMA CoinsSettled ==
  ASSUME CoinsInv, CoinbasesOnce
  PROVE  ChainTxs \in SUBSET Txs /\ Settled(coins, ChainTxs)
<1>1. PICK V : Replay(chain, V) /\ Same(coins, V[Len(chain)])
  BY DEF CoinsInv
<1>2. chain \in Seq(BlockRec) /\ \A i \in 1..Len(chain) : chain[i].vtx \in Contents
  BY DEF CoinsInv
<1>3. Len(chain) \in 0..Len(chain)
  BY <1>2
<1>4. SettledTo(chain, V, Len(chain))
  BY <1>1, <1>2, <1>3, ReplaySettles DEF CoinbasesOnce
<1>5. Same(V[Len(chain)], coins)
  BY <1>1, SameIs
<1> QED BY <1>4, <1>5, SettledSame DEF SettledTo, ChainTxs

\* What SetBestChain has connected and not yet taken out of the pool.
Pending == {x \in Txs : \E i \in 1..Len(vDelete) :
                           x = vDelete[i] /\ (pc = "delete" => i >= next)}

\* The inductive invariant: a transaction of the pool is in conflict with
\* nothing of the chain but what is still to be deleted, and while the pool
\* takes transactions back that includes all that spends a part of it.
PoolClear ==
  /\ pc = "idle" => vDelete = <<>>
  /\ \A t \in mapTx, c \in ChainTxs : Inputs(t) \cap Inputs(c) # {} => c \in Pending
  /\ pc = "resurrect" => \A c \in ChainTxs \ Pending : \A o \in Inputs(c) : o[1] \notin Pending

\* A transaction of the pool spends something.
LEMMA PoolSpends ==
  ASSUME PoolTypes, PoolInv, NEW t \in mapTx
  PROVE  Inputs(t) # {}
<1>1. t \in Txs /\ t \notin Coinbases
  BY DEF PoolTypes, PoolInv
<1> DEFINE s == Vin[t]
           X == Outputs
<1>2. s # <<>> /\ s \in Seq(X)
  BY <1>1, TxAssumption
<1> HIDE DEF s, X
<1>3. 1 \in 1..Len(s)
  BY <1>2
<1>4. Vin[t][1] \in Inputs(t)
  BY <1>3 DEF Inputs, s
<1> QED BY <1>4

\* Between calls it is in conflict with nothing.
LEMMA ClearIsUnconfirmed ==
  ASSUME PoolTypes, PoolInv, PoolClear
  PROVE  PoolUnconfirmed
<1> SUFFICES ASSUME pc = "idle"
             PROVE  /\ mapTx \cap Confirmed = {}
                    /\ \A t \in mapTx, c \in Confirmed : Inputs(t) \cap Inputs(c) = {}
  BY DEF PoolUnconfirmed
<1>1. Pending = {}
  BY DEF PoolClear, Pending
<1>2. Confirmed \subseteq ChainTxs
  BY DEF Confirmed, ChainTxs, Done
<1>3. ASSUME NEW t \in mapTx, NEW c \in Confirmed PROVE Inputs(t) \cap Inputs(c) = {}
  BY <1>1, <1>2 DEF PoolClear
<1>4. ASSUME NEW t \in mapTx, t \in Confirmed PROVE FALSE
  BY <1>3, <1>4, PoolSpends
<1> QED BY <1>3, <1>4

\* A transaction that the pool accepts is in conflict with nothing but what is
\* to be deleted: the coins do not have what the chain has spent, and a
\* transaction of the pool that the chain has is to be deleted itself.
LEMMA AcceptedIsClear ==
  ASSUME CoinsInv, CoinbasesOnce, PoolInv, PoolTypes, PoolClear, pc # "delete",
         NEW t \in Txs, Accepts(t), NEW c \in ChainTxs, NEW o \in Inputs(t), o \in Inputs(c)
  PROVE  c \in Pending
<1> SUFFICES ASSUME c \notin Pending PROVE FALSE
  OBVIOUS
<1> DEFINE p == o[1]
<1>1. p \in Txs
  BY InputIs DEF Inputs
<1>2. o[2] \in PoolView[p].outs
  BY DEF Accepts, CheckInputs, HaveInputs
<1>3. p \in ChainTxs /\ o[2] \notin coins[p].outs
  BY CoinsSettled DEF Settled
<1>4. p \in mapTx
  <2>1. PoolView[p] = IF HaveCoins(coins, p) THEN coins[p]
                      ELSE IF p \in mapTx THEN Entry(Height + 1, Vout[p]) ELSE NoEntry
    BY <1>1 DEF PoolView
  <2>2. NoEntry.outs = {}
    BY DEF NoEntry, Entry
  <2> QED BY <1>2, <1>3, <2>1, <2>2
<1> HIDE DEF p
<1>5. Inputs(p) \cap Inputs(p) # {}
  BY <1>4, PoolSpends
<1>6. p \in Pending
  BY <1>3, <1>4, <1>5 DEF PoolClear
<1>7. CASE pc = "idle"
  BY <1>6, <1>7 DEF PoolClear, Pending
<1>8. CASE pc = "resurrect"
  <2>1. o[1] \notin Pending
    BY <1>8 DEF PoolClear
  <2> QED BY <1>6, <2>1 DEF p
<1> QED BY <1>7, <1>8 DEF PoolTypes

\* The pool stays clear when it takes a transaction.
LEMMA AcceptKeepsClear ==
  ASSUME CoinsInv, CoinbasesOnce, PoolInv, PoolTypes, PoolClear, pc # "delete",
         NEW t \in Txs, Accepts(t), AddUnchecked(t), UNCHANGED <<pc, chain, vDelete>>
  PROVE  PoolClear'
<1>1. ChainTxs' = ChainTxs /\ Pending' = Pending /\ mapTx' = mapTx \union {t}
  BY DEF ChainTxs, Done, Pending, AddUnchecked
<1>2. ASSUME NEW s \in mapTx', NEW c \in ChainTxs', Inputs(s) \cap Inputs(c) # {}
      PROVE  c \in Pending'
  <2>1. CASE s \in mapTx
    BY <1>1, <1>2, <2>1 DEF PoolClear
  <2>2. CASE s = t
    <3>1. PICK o \in Inputs(t) : o \in Inputs(c)
      BY <1>2, <2>2
    <3> QED BY <1>1, <3>1, AcceptedIsClear
  <2> QED BY <1>1, <2>1, <2>2
<1> QED BY <1>1, <1>2 DEF PoolClear, Inputs

\* It stays clear when nothing comes in or goes out.
LEMMA SameKeepsClear ==
  ASSUME PoolClear, UNCHANGED <<pc, chain, vDelete, mapTx>>, pc = "delete" => next' = next
  PROVE  PoolClear'
<1>1. ChainTxs' = ChainTxs /\ Pending' = Pending
  BY DEF ChainTxs, Done, Pending
<1> QED BY <1>1 DEF PoolClear, Inputs

\* One turn of the loop that deletes: the transaction goes, and so does what
\* is in conflict with it.
LEMMA DeleteKeepsClear ==
  ASSUME PoolInv, PoolTypes, PoolClear, ChainTxs \in SUBSET Txs, Delete
  PROVE  PoolClear'
<1> DEFINE x == vDelete[next]
<1>1. /\ pc = "delete" /\ pc' = "delete" /\ Erase(Removed(x)) /\ next' = next + 1
      /\ chain' = chain /\ vDelete' = vDelete /\ next \in 1..Len(vDelete) /\ vDelete \in Seq(Txs)
  BY DEF Delete, PoolTypes
<1>2. ChainTxs' = ChainTxs /\ mapTx' = mapTx \ Removed(x)
  BY <1>1 DEF ChainTxs, Done, Erase
<1>3. ASSUME NEW c \in Pending, c # x PROVE c \in Pending'
  <2>1. PICK i \in 1..Len(vDelete) : c = vDelete[i] /\ i >= next
    BY <1>1 DEF Pending
  <2>2. i >= next + 1
    BY <1>1, <1>3, <2>1
  <2> QED BY <1>1, <2>1, <2>2 DEF Pending
<1> HIDE DEF x
<1>4. ASSUME NEW t \in mapTx', NEW c \in ChainTxs', Inputs(t) \cap Inputs(c) # {}
      PROVE  c \in Pending'
  <2>1. t \in mapTx /\ t \notin Removed(x) /\ c \in ChainTxs /\ t \in Txs /\ c \in Txs
    BY <1>2 DEF PoolInv
  <2>2. c \in Pending
    BY <1>4, <2>1 DEF PoolClear
  <2>3. CASE c = x
    <3>1. PICK o \in Inputs(t) : o \in Inputs(x)
      BY <1>4, <2>3
    <3>2. o \in Outputs
      BY <2>1, InputIs DEF Inputs
    <3>3. mapNextTx[o] = t
      BY <2>1, <3>1, <3>2 DEF PoolInv, PoolIndexed
    <3>4. t # None
      BY <2>1, PoolAssumption
    <3>5. t \in WithDescendants(t)
      BY <2>1 DEF WithDescendants
    <3>6. t \in Removed(x)
      <4>1. CASE t = x
        BY <2>1, <4>1 DEF Removed
      <4>2. CASE t # x
        <5>1. t \in {mapNextTx[q] : q \in Inputs(x)} \ {None, x}
          BY <3>1, <3>3, <3>4, <4>2
        <5> QED BY <3>5, <5>1 DEF Removed
      <4> QED BY <4>1, <4>2
    <3> QED BY <2>1, <3>6
  <2> QED BY <1>3, <2>2, <2>3
<1> QED BY <1>1, <1>4 DEF PoolClear, Inputs

\* What SetBestChain connects is to be deleted, and the rest of the chain is
\* closed below.
LEMMA SetBestChainKeepsClear ==
  ASSUME CoinsInv, PoolClear, CoinbasesOnce', NEW keep \in 0..Len(chain),
         NEW vtxs \in Branches(Len(chain) - keep + 1), NEW flush \in BOOLEAN,
         SetBestChain(keep, vtxs, flush)
  PROVE  PoolClear'
<1>1. /\ CoinsInv' /\ Len(chain') = keep + Len(vtxs)
      /\ \A i \in 1..keep : chain'[i] = chain[i]
      /\ \A j \in 1..Len(vtxs) : chain'[keep + j].vtx = vtxs[j]
  BY SetBestChainCoins
<1>2. /\ vtxs \in Seq(Contents) /\ vtxs \in Seq(Seq(Txs)) /\ keep \in Nat /\ Len(vtxs) \in Nat
      /\ Len(chain) \in Nat
  BY BranchIs DEF CoinsInv
<1>3. /\ pc = "idle" /\ pc' = "resurrect" /\ mapTx' = mapTx
      /\ vDelete' = FlattenSeq(vtxs)
  BY DEF SetBestChain
<1> DEFINE F == FlattenSeq(vtxs)
           N == UNION {Range(vtxs[j]) : j \in 1..Len(vtxs)}
           P == {x \in Txs : \E i \in 1..Len(F) : x = F[i]}
<1>4. Pending' = P
  BY <1>3 DEF Pending
<1>5. vtxs \in Seq(Seq(N))
  <2>1. ASSUME NEW j \in 1..Len(vtxs) PROVE vtxs[j] \in Seq(N)
    <3> DEFINE s == vtxs[j]
    <3>1. s \in Seq(Txs) /\ Range(s) \subseteq N
      BY <1>2
    <3> HIDE DEF s, N
    <3>2. \A i \in 1..Len(s) : s[i] \in N
      BY <3>1 DEF Range
    <3>3. s \in Seq(N)
      BY <3>1, <3>2
    <3> QED BY <3>3 DEF s
  <2> DEFINE D == Seq(N)
             n == Len(vtxs)
  <2>2. vtxs = [j \in 1..n |-> vtxs[j]]
    BY <1>2
  <2>3. n \in Nat /\ \A j \in 1..n : vtxs[j] \in D
    BY <1>2, <2>1
  <2> HIDE DEF D, n
  <2>4. vtxs \in [1..n -> D]
    BY <2>2, <2>3
  <2>5. vtxs \in Seq(D)
    BY <2>3, <2>4
  <2> QED BY <2>5 DEF D
<1> HIDE DEF N
<1>6. P \subseteq N
  <2>1. F \in Seq(N)
    BY <1>5, FlattenIs
  <2> HIDE DEF F
  <2> QED BY <2>1
<1>7. N \subseteq P
  <2> SUFFICES ASSUME NEW x \in N PROVE x \in P
    OBVIOUS
  <2>1. PICK j \in 1..Len(vtxs) : x \in Range(vtxs[j])
    BY DEF N
  <2>2. PICK i \in 1..Len(vtxs[j]) : x = vtxs[j][i]
    <3> DEFINE s == vtxs[j]
    <3>1. s \in Seq(Txs) /\ x \in Range(s)
      BY <1>2, <2>1
    <3> HIDE DEF s
    <3>2. \E i \in 1..Len(s) : x = s[i]
      BY <3>1 DEF Range
    <3> QED BY <3>2 DEF s
  <2>3. \E q \in 1..Len(F) : F[q] = vtxs[j][i]
    BY <1>2, FlattenHas
  <2>4. x \in Txs
    <3> DEFINE s == vtxs[j]
    <3>1. s \in Seq(Txs) /\ i \in 1..Len(s) /\ x = s[i]
      BY <1>2, <2>2
    <3> HIDE DEF s
    <3> QED BY <3>1
  <2> HIDE DEF F
  <2> QED BY <2>2, <2>3, <2>4
<1> HIDE DEF F, P
<1>8. PICK W : Replay(chain', W)
  BY <1>1 DEF CoinsInv
<1> DEFINE nc == chain'
<1>9. /\ nc \in Seq(BlockRec) /\ \A i \in 1..Len(nc) : nc[i].vtx \in Contents
      /\ Once(nc)
  BY <1>1 DEF CoinsInv, CoinbasesOnce, Once
<1>10. ChainTxs' = Done(nc, Len(nc))
  BY DEF ChainTxs, Done
<1>11. /\ Len(nc) = keep + Len(vtxs)
       /\ \A i \in 1..keep : nc[i] = chain[i]
       /\ \A j \in 1..Len(vtxs) : nc[keep + j].vtx = vtxs[j]
  BY <1>1
<1> HIDE DEF nc
<1>12. ASSUME NEW c \in Done(nc, Len(nc)) PROVE c \in Done(nc, keep) \/ c \in N
  <2>1. CASE c \in History
    BY <2>1 DEF Done
  <2>2. CASE c \notin History
    <3>1. PICK i \in 1..Len(nc) : c \in Range(nc[i].vtx)
      BY <2>2 DEF Done
    <3>2. CASE i <= keep
      <4>1. i \in 1..keep
        BY <3>2, <1>2
      <4> QED BY <3>1, <4>1 DEF Done
    <3>3. CASE i > keep
      <4>1. i - keep \in 1..Len(vtxs) /\ keep + (i - keep) = i
        BY <1>2, <1>11, <3>3
      <4>2. nc[i].vtx = vtxs[i - keep]
        BY <1>11, <4>1
      <4> QED BY <3>1, <4>1, <4>2 DEF N
    <3> QED BY <1>2, <1>11, <3>2, <3>3
  <2> QED BY <2>1, <2>2
<1>13. Done(nc, keep) \subseteq ChainTxs
  <2>1. 1..keep \subseteq 1..Len(chain)
    BY <1>2
  <2> QED BY <1>11, <2>1 DEF Done, ChainTxs
<1>14. Done(nc, keep) \cap N = {}
  <2> SUFFICES ASSUME NEW x \in N, x \in Done(nc, keep) PROVE FALSE
    OBVIOUS
  <2>1. PICK j \in 1..Len(vtxs) : x \in Range(vtxs[j])
    BY DEF N
  <2>2. keep + j \in 1..Len(nc) /\ keep \in 0..Len(nc) /\ keep < keep + j
    BY <1>2, <1>11
  <2>3. x \in Range(nc[keep + j].vtx)
    BY <1>11, <2>1
  <2>4. Range(nc[keep + j].vtx) \cap Done(nc, keep) = {}
    BY <1>8, <1>9, <2>2, BlocksDisjoint DEF nc
  <2> QED BY <2>3, <2>4
<1>15. ASSUME NEW c \in Done(nc, keep), NEW o \in Inputs(c) PROVE o[1] \in Done(nc, keep)
  <2>1. keep \in 0..Len(nc)
    BY <1>2, <1>11
  <2>2. SettledTo(nc, W, keep)
    BY <1>8, <1>9, <2>1, ReplaySettles DEF nc
  <2> QED BY <2>2 DEF SettledTo, Settled
<1>16. ASSUME NEW t \in mapTx, NEW c \in Done(nc, keep), Inputs(t) \cap Inputs(c) # {} PROVE FALSE
  <2>1. c \in Pending
    BY <1>13, <1>16 DEF PoolClear
  <2> QED BY <1>3, <2>1 DEF PoolClear, Pending
<1>17. ASSUME NEW t \in mapTx', NEW c \in ChainTxs', Inputs(t) \cap Inputs(c) # {}
       PROVE  c \in Pending'
  BY <1>3, <1>4, <1>7, <1>10, <1>12, <1>16, <1>17
<1>18. ASSUME NEW c \in ChainTxs' \ Pending', NEW o \in Inputs(c) PROVE o[1] \notin Pending'
  <2>1. c \in Done(nc, keep)
    BY <1>4, <1>7, <1>10, <1>12
  <2>2. o[1] \in Done(nc, keep)
    BY <1>15, <2>1
  <2> QED BY <1>4, <1>6, <1>14, <2>2
<1> QED BY <1>3, <1>17, <1>18 DEF PoolClear, Inputs

\* Every step keeps the pool clear as long as no coinbase is mined twice.
LEMMA ClearNext ==
  ASSUME WholeInv, PoolClear, CoinbasesOnce, CoinbasesOnce', [Next]_vars
  PROVE  PoolClear'
<1>0. CoinsInv /\ PoolInv /\ PoolTypes
  BY DEF WholeInv
<1>1. ASSUME NEW t \in Txs, Accept(t) PROVE PoolClear'
  BY <1>0, <1>1, AcceptKeepsClear DEF Accept
<1>2. ASSUME NEW keep \in 0..Len(chain), NEW vtxs \in Branches(Len(chain) - keep + 1),
             NEW flush \in BOOLEAN, SetBestChain(keep, vtxs, flush)
      PROVE  PoolClear'
  BY <1>0, <1>2, SetBestChainKeepsClear
<1>3. ASSUME Resurrect PROVE PoolClear'
  <2> DEFINE t == vResurrect[next]
  <2>1. /\ pc = "resurrect" /\ next \in 1..Len(vResurrect) /\ UNCHANGED <<pc, chain, vDelete>>
    BY <1>0, <1>3 DEF Resurrect, PoolTypes
  <2>2. t \in Txs
    BY <1>0, <2>1 DEF PoolTypes
  <2>3. CASE Accepts(t)
    <3>1. AddUnchecked(t)
      BY <1>3, <2>3 DEF Resurrect
    <3> HIDE DEF t
    <3>2. pc # "delete"
      BY <2>1
    <3> QED BY <1>0, <2>1, <2>2, <2>3, <3>1, <3>2, AcceptKeepsClear
  <2>4. CASE ~ Accepts(t)
    <3>1. mapTx' = mapTx
      BY <1>3, <2>4 DEF Resurrect
    <3>2. pc # "delete"
      BY <2>1
    <3> QED BY <2>1, <3>1, <3>2, SameKeepsClear
  <2> QED BY <2>3, <2>4
<1>4. ASSUME ResurrectDone PROVE PoolClear'
  <2>1. /\ pc = "resurrect" /\ pc' = "delete" /\ next' = 1
        /\ chain' = chain /\ vDelete' = vDelete /\ mapTx' = mapTx
    BY <1>4 DEF ResurrectDone
  <2>2. Len(vDelete) \in Nat
    BY <1>0 DEF PoolTypes
  <2>3. ChainTxs' = ChainTxs /\ Pending' = Pending
    BY <2>1, <2>2 DEF ChainTxs, Done, Pending
  <2> QED BY <2>1, <2>3 DEF PoolClear, Inputs
<1>5. ASSUME Delete PROVE PoolClear'
  BY <1>0, <1>5, CoinsSettled, DeleteKeepsClear
<1>6. ASSUME DeleteDone PROVE PoolClear'
  <2>1. /\ pc = "delete" /\ pc' = "idle" /\ next > Len(vDelete)
        /\ chain' = chain /\ vDelete' = <<>> /\ mapTx' = mapTx
    BY <1>6 DEF DeleteDone
  <2>2. Len(vDelete) \in Nat /\ next \in Nat
    BY <1>0 DEF PoolTypes
  <2>3. Pending = {}
    BY <2>1, <2>2 DEF Pending
  <2>4. ChainTxs' = ChainTxs
    BY <2>1 DEF ChainTxs, Done
  <2> QED BY <2>1, <2>3, <2>4 DEF PoolClear, Inputs
<1>7. ASSUME UNCHANGED vars PROVE PoolClear'
  BY <1>7, SameKeepsClear DEF vars
<1> QED BY <1>1, <1>2, <1>3, <1>4, <1>5, <1>6, <1>7 DEF Next

\* PoolUnconfirmed holds as long as no coinbase is in the chain twice: between
\* calls no transaction of the pool is in the chain or spends what the chain
\* has spent, whatever was disconnected, offered to the pool again and taken
\* out of it on the way.  BIP30 alone does not suffice: it lets a coinbase be
\* mined again once it is spent, and then the pool may spend it again too.
THEOREM PoolAlwaysUnconfirmed == Spec /\ []CoinbasesOnce => []PoolUnconfirmed
<1>1. Init => PoolClear
  <2> SUFFICES ASSUME Init PROVE PoolClear
    OBVIOUS
  <2> QED BY DEF Init, PoolClear
<1>2. WholeInv /\ PoolClear /\ CoinbasesOnce /\ CoinbasesOnce' /\ [Next]_vars => PoolClear'
  BY ClearNext
<1>3. WholeInv /\ PoolClear => PoolUnconfirmed
  BY ClearIsUnconfirmed DEF WholeInv
<1> QED BY <1>1, <1>2, <1>3, WholeInit, WholeNext, PTL DEF Spec

\* No transaction is in two blocks of the chain or below the model, and no two
\* transactions of the chain spend the same output.
SpentOnce ==
  /\ \A i, j \in 1..Len(chain) : i # j => Range(chain[i].vtx) \cap Range(chain[j].vtx) = {}
  /\ Confirmed \cap History = {}
  /\ \A c, d \in Confirmed : c # d => Inputs(c) \cap Inputs(d) = {}

\* SpentOnce holds as long as no coinbase is in the chain twice: what
\* ConnectBlock checks against the coins keeps every output from being spent
\* twice, across all the blocks that were disconnected and connected.
THEOREM ChainSpendsOnce == Spec /\ []CoinbasesOnce => []SpentOnce
<1>1. ASSUME CoinsInv, CoinbasesOnce PROVE SpentOnce
  <2>1. PICK V : Replay(chain, V)
    BY <1>1 DEF CoinsInv
  <2>2. /\ chain \in Seq(BlockRec) /\ \A i \in 1..Len(chain) : chain[i].vtx \in Contents
        /\ Once(chain) /\ Len(chain) \in Nat
    BY <1>1 DEF CoinsInv, CoinbasesOnce
  <2>3. ASSUME NEW i \in 1..Len(chain), NEW k \in 0..Len(chain), k < i
        PROVE  Range(chain[i].vtx) \cap Done(chain, k) = {}
    BY <2>1, <2>2, <2>3, BlocksDisjoint
  <2>4. ASSUME NEW i \in 1..Len(chain), NEW j \in 1..Len(chain), j < i
        PROVE  Range(chain[i].vtx) \cap Range(chain[j].vtx) = {}
    <3>1. j \in 0..Len(chain) /\ j \in 1..j
      BY <2>2
    <3>2. Range(chain[j].vtx) \subseteq Done(chain, j)
      BY <3>1 DEF Done
    <3> QED BY <2>3, <2>4, <3>1, <3>2
  <2>5. ASSUME NEW i \in 1..Len(chain), NEW j \in 1..Len(chain), i # j
        PROVE  Range(chain[i].vtx) \cap Range(chain[j].vtx) = {}
    <3>1. i < j \/ j < i
      BY <2>2, <2>5
    <3> QED BY <2>4, <3>1
  <2>6. Confirmed \cap History = {}
    <3>1. ASSUME NEW i \in 1..Len(chain) PROVE Range(chain[i].vtx) \cap History = {}
      <4>1. 0 \in 0..Len(chain) /\ 0 < i
        BY <2>2
      <4> QED BY <2>3, <4>1 DEF Done
    <3> QED BY <3>1 DEF Confirmed
  <2>7. ASSUME NEW c \in Confirmed, NEW d \in Confirmed, c # d
        PROVE  Inputs(c) \cap Inputs(d) = {}
    <3>1. c \in ChainTxs /\ d \in ChainTxs \ History
      BY <2>6 DEF Confirmed, ChainTxs, Done
    <3> QED BY <1>1, <2>7, <3>1, CoinsSettled DEF Settled
  <2> QED BY <2>5, <2>6, <2>7 DEF SpentOnce
<1> QED BY <1>1, CoinsInvInit, CoinsInvNext, PTL DEF Spec
=============================================================================
