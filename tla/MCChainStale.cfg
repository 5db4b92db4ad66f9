CONSTANTS
  Block <- MCSmallTree
  Genesis = 0
  Parent <- MCSmallParent
  nChainWork <- MCSmallWork
  Unacceptable <- MCNoBlock
  Unconnectable <- MCBlock3
  Operated <- MCNoBlock
  Thread <- MCTwoThreads
  MaxPrecious = 0
  None = None
SPECIFICATION Spec
INVARIANT BestChainActive
