CONSTANTS
    COutPoint = {o1, o2}
    Coin = {c1, c2}
    Spent = Spent
    NoEntry = NoEntry
SPECIFICATION CoinsSpec
INVARIANTS
    CoinsTypeOK
    
    
 
