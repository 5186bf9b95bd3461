\* Three test cases, six stored IRs, hashes of 16 and 8 bits, as many attempts
\* of strategy_replace_with_constraint as in the code.
SPECIFICATION Spec
CONSTANTS
  Heap0 <- MCHeap0
  TestCase <- MCTestCase
  Stored <- MCStored
  EmptyIR = 1
  kUnknown = "unknown"
  StringData = {"'x'", "FIXME", "a", "b", "c", "d", "t", ""}
  IntData = {"1", "7"}
  NoData = "none"
  FrozenData = {"kVariableDefinition", "kVariableType", "kClassDefinition"}
  kFixUnit = "kFixUnit"
  kDataDefault = "kDataDefault"
  Hash <- MCHash
  HashBits = 8
  kConstraintReplaceTimes = 6
INVARIANTS
  TreesApart
  RecordHasParent
  MutantsAreSubstitutions
  ProductionsKnown
  StructuresDistinct
PROPERTY
  FinishedTreesFixed
CHECK_DEADLOCK FALSE
