------------------------------- MODULE Coins -------------------------------
(***************************************************************************)
(* The coins of a chain (core.h, main.cpp): what ConnectBlock and          *)
(* DisconnectBlock do to a CCoinsView, and the undo data that links them.  *)
(* Amounts, scripts and signature operations are left out: every           *)
(* transaction of Txs is otherwise valid.                                  *)
(***************************************************************************)
EXTENDS Integers, SequencesExt

CONSTANTS
    Txs,        \* transactions, by hash
    Coinbases,  \* the ones that are coinbases
    Vin,        \* vin: [Txs -> sequences of outpoints <<hash, n>>], empty for a coinbase
    Vout,       \* the indices of vout: [Txs -> non-empty finite sets]
    Maturity    \* COINBASE_MATURITY

Outputs == UNION {{t} \X Vout[t] : t \in Txs}
Inputs(t) == {Vin[t][i] : i \in 1..Len(Vin[t])}

ASSUME TxAssumption ==
    /\ Coinbases \subseteq Txs
    /\ DOMAIN Vin = Txs /\ DOMAIN Vout = Txs
    /\ \A t \in Txs :
          /\ Vout[t] # {}
          /\ Vin[t] \in Seq(Outputs)
          /\ Vin[t] = <<>> <=> t \in Coinbases
          \* CheckTransaction refuses a transaction that names an input twice.
          /\ IsInjective(Vin[t])
ASSUME MaturityAssumption == Maturity \in Nat

\* An entry of a coins view: CCoins with its unspent outputs.  height stands
\* for the metadata fCoinBase, nHeight and nVersion, which travel together.
Entry(h, outs) == [height |-> h, outs |-> outs]
NoEntry == Entry(-1, {})    \* the view has no entry for the hash
Pruned == Entry(0, {})      \* CCoins(): the entry is there, all is spent
IsPruned(e) == e.outs = {}

HaveCoins(view, t) == view[t] # NoEntry
HaveInputs(view, t) == \A o \in Inputs(t) : HaveCoins(view, o[1]) /\ o[2] \in view[o[1]].outs

\* CheckInputs for a transaction of a block at height h.
CheckInputs(view, t, h) ==
    /\ HaveInputs(view, t)
    /\ \A o \in Inputs(t) : o[1] \in Coinbases => h - view[o[1]].height >= Maturity

-----------------------------------------------------------------------------
(* UpdateCoins.  acc.undo is vprevout: for each input the height of the    *)
(* spent transaction when this was its last output, and 0 otherwise.       *)

SpendFirst(acc, o) ==
    LET left == acc.view[o[1]].outs \ {o[2]}
    IN  [view |-> [acc.view EXCEPT ![o[1]] = IF left = {} THEN Pruned ELSE [@ EXCEPT !.outs = left]],
         undo |-> Append(acc.undo, IF Len(acc.undo) = 0 THEN acc.view[o[1]].height ELSE 0)]
Spend(acc, o) ==
    LET left == acc.view[o[1]].outs \ {o[2]}
    IN  [view |-> [acc.view EXCEPT ![o[1]] = IF left = {} THEN Pruned ELSE [@ EXCEPT !.outs = left]],
         undo |-> Append(acc.undo, IF left = {} THEN acc.view[o[1]].height ELSE 0)]

UpdateCoins(view, t, h) ==
    LET spent == FoldLeft(Spend, [view |-> view, undo |-> <<>>], Vin[t])
    IN  [spent EXCEPT !.view[t] = Entry(h, Vout[t])]

-----------------------------------------------------------------------------
(* ConnectBlock and DisconnectBlock on the transactions vtx of a block.    *)

\* One transaction of the loop of ConnectBlock; ok is false once one failed.
ConnectTx(acc, t, h) ==
    IF acc.ok /\ CheckInputs(acc.view, t, h)
      THEN LET r == UpdateCoins(acc.view, t, h)
           IN  [ok |-> TRUE, view |-> r.view, undo |-> Append(acc.undo, r.undo)]
      ELSE [acc EXCEPT !.ok = FALSE]

\* BIP30 is asked of every transaction before the first one is connected.
ConnectBlock(view, vtx, h) ==
    FoldLeft(LAMBDA acc, t : ConnectTx(acc, t, h),
             [ok |-> \A i \in 1..Len(vtx) : IsPruned(view[vtx[i]]), view |-> view, undo |-> <<>>],
             vtx)

\* One input of a disconnected transaction gets its output back.
RestoreKeepingHeight(acc, o, u) ==
    LET e == acc.view[o[1]]
    IN  [ok |-> acc.ok /\ o[2] \notin e.outs,
         view |-> [acc.view EXCEPT ![o[1]] = Entry(e.height, e.outs \union {o[2]})]]
Restore(acc, o, u) ==
    LET e == acc.view[o[1]]
    IN  IF u # 0
          THEN [ok |-> acc.ok /\ IsPruned(e),
                view |-> [acc.view EXCEPT ![o[1]] = Entry(u, {o[2]})]]
          ELSE [ok |-> acc.ok /\ ~ IsPruned(e) /\ o[2] \notin e.outs,
                view |-> [acc.view EXCEPT ![o[1]] = Entry(e.height, e.outs \union {o[2]})]]

\* The outputs go, then the inputs come back, last one first.
DisconnectTx(acc, t, undo, h) ==
    FoldRight(LAMBDA i, a : Restore(a, Vin[t][i], undo[i]),
              [i \in 1..Len(Vin[t]) |-> i],
              [ok |-> acc.ok /\ acc.view[t] = Entry(h, Vout[t]),
               view |-> [acc.view EXCEPT ![t] = Pruned]])

\* ok is fClean.
DisconnectBlock(view, vtx, undo, h) ==
    FoldRight(LAMBDA i, a : DisconnectTx(a, vtx[i], undo[i], h),
              [i \in 1..Len(vtx) |-> i],
              [ok |-> TRUE, view |-> view])

\* pcoinsTip->Flush(): the entries that are wholly spent leave the database
\* and the cache forgets them.
Flushed(view) == [t \in Txs |-> IF IsPruned(view[t]) THEN NoEntry ELSE view[t]]
=============================================================================
