SPECIFICATION Spec
CONSTANTS
    Txs <- MCTxs
    Coinbases <- MCCoinbases
    Vin <- MCVin
    Vout <- MCVout
    Maturity = 2
    Contents <- MCContents
    BaseCoins <- MCBaseCoins
    BaseHeight = 3
    Standard <- MCStandard
    Checkpoint = 3
    AllowIBD = FALSE
    None = None
    MaxChain = 3
    MaxDisconnect = 1
INVARIANTS
    PoolConnects
CHECK_DEADLOCK FALSE
