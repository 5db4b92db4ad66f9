CONSTANTS
    Root <- MCRoot
    Sub <- MCSub
    ParentOf <- MCParentOf
    Restricted <- MCRestricted
    Address <- MCAddress
    Global = "global"
    MaxHeight = 2
    MaxChanges = 2
SPECIFICATION Spec
INVARIANTS
    TypeOK
    AnswersMatchChain
    ReadCacheInDatabase
