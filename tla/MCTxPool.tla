------------------------------ MODULE MCTxPool ------------------------------
(***************************************************************************)
(* Transactions and blocks for TxPool.  base, below the model, has two     *)
(* outputs.  a and a2 spend the first of them, b spends both outputs of a, *)
(* c spends b, d spends the coinbase cb1 and the second output of base, as *)
(* does n, which is not standard.                                          *)
(***************************************************************************)
EXTENDS TxPool

MCCoinbases == {"base", "cb1", "cb2", "cb3"}
MCTxs == MCCoinbases \union {"a", "a2", "b", "c", "d", "n"}
MCVin ==
    [t \in MCTxs |->
        CASE t \in MCCoinbases -> <<>>
          [] t \in {"a", "a2"} -> <<<<"base", 0>>>>
          [] t = "b" -> <<<<"a", 0>>, <<"a", 1>>>>
          [] t = "c" -> <<<<"b", 0>>>>
          [] t = "d" -> <<<<"cb1", 0>>, <<"base", 1>>>>
          [] t = "n" -> <<<<"base", 1>>>>]
MCVout == [t \in MCTxs |-> IF t \in {"base", "a"} THEN {0, 1} ELSE {0}]
MCBaseCoins == [t \in MCTxs |-> IF t = "base" THEN Entry(1, {0, 1}) ELSE NoEntry]
MCContents ==
    {<<"cb1">>, <<"cb1", "a">>, <<"cb2", "a2">>, <<"cb2", "b">>,
     <<"cb3", "a", "b">>, <<"cb3", "d">>, <<"cb3", "n">>}
MCStandard == MCTxs \ {"n"}
=============================================================================
