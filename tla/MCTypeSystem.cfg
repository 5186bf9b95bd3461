\* Two programs in a row, of up to three definitions; T and INT may also be the
\* names of structures and functions.
SPECIFICATION Spec
CONSTANTS
  BasicTypeStr <- MCBasicTypeStr
  Name = {"INT", "FLOAT", "T"}
  MaxTrees = 2
  MaxDefinitions = 3
INVARIANTS
  HeldTypesResolve
  SameNameSameType
CHECK_DEADLOCK FALSE
