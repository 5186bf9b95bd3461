\* Two IRs per type, six programs.
SPECIFICATION LibrarySpec
CONSTANTS
  IRNode <- MCIRNode
  Root <- MCRoot
  Nil <- MCNil
  IRTYPE = {"stmt", "expr", "name"}
  Type <- MCType
  Left <- MCLeft
  Right <- MCRight
  TreeOf <- MCUnder
  Text <- MCText
  RawText <- MCRawText
  CutText <- MCCutText
  kMaxIRNumForOneType = 2
INVARIANTS
  HashesMatchContents
  ChildTypesAvailable
PROPERTIES
  PoolsNeverShrink
  RefinesPool
