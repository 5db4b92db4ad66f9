CONSTANTS
  Block <- MCSmallTree
  Genesis = 0
  Parent <- MCSmallParent
  nChainWork <- MCSmallWork
  Unacceptable <- MCNoBlock
  Unconnectable <- MCBlock3
  Operated <- MCOperated
  Thread <- MCOneThread
  MaxPrecious = 1
  None = None
SPECIFICATION Spec
INVARIANT ActiveChainValid
PROPERTIES
  SuccessorLeft
  WorkGivenUpOnlyForInvalid
