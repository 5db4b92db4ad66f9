CONSTANTS
  Block <- MCLargeTree
  Genesis = 0
  Parent <- MCLargeParent
  nChainWork <- MCLargeWork
  Unacceptable <- MCBlock3
  Unconnectable <- MCBlock5
  Operated <- MCNoBlock
  Thread <- MCOneThread
  MaxPrecious = 0
  None = None
SPECIFICATION Spec
INVARIANTS
  TypeOK
  CheckBlockIndex
  
  BestChainActive
PROPERTY ActivationReturns
