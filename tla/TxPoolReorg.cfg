SPECIFICATION Spec
CONSTANTS
    Txs <- MCTxs
    Coinbases <- MCCoinbases
    Vin <- MCVin
    Vout <- MCVout
    Maturity = 2
    Contents <- MCContents
    BaseCoins <- MCBaseCoins
    BaseHeight = 3
    Standard <- MCStandard
    Checkpoint = 3
    AllowIBD = TRUE
    None = None
    MaxChain = 3
    MaxDisconnect = 2
INVARIANTS
    TypeOK
    PoolIndexed
    
    CoinsOfChain
    DisconnectClean
PROPERTIES
    ConflictsLeaveWhole
CHECK_DEADLOCK FALSE
