CONSTANTS
    Block <- MCBlock
    Genesis = "g"
    Parent <- MCParent
    nHeight <- MCHeight
    Outpoint <- MCOutpoint
    Creates <- MCCreates
    Spends <- MCSpends
    Asset <- MCAsset
    Issues <- MCIssues
    Null = Null
    MaxCrashes = 2
SPECIFICATION Spec
INVARIANTS
    TypeOK
    CoinsMatchTip
    DatabaseMatchesBest
    ReplayFlushesSameTip
    AssetsMatchTipUnlessTorn
PROPERTY Recovers
