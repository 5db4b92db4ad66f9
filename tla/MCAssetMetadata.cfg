SPECIFICATION MempoolSpec
CONSTANTS
    Asset <- MCAsset
    Tx <- MCTx
    None = None
    Keep = Keep
    MaxMoney = 3
    MaxHeight = 3
    MaxTxs = 2
INVARIANTS
    TypeOK
    
    
    
