\* Every kind of configuration file, five kinds of test cases, up to two
\* mutants each.
SPECIFICATION Spec
CONSTANTS
  FileKind <- EveryFile
  Text = {"good", "fixme", "large", "bad", "nul"}
  Parsable = {"good", "fixme", "large"}
  Large = {"large"}
  InitFiles = {"good", "bad"}
  CStr <- MCCStr
  Fixed <- MCFixed
  MaxMutants = 2
INVARIANTS
  InitIsAllOrNothing
  PromiseIsKept
  EachMutantOnce
  BufferIsStable
CHECK_DEADLOCK FALSE
