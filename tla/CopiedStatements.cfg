\* Programs of two statements, as validated after a mutation: every IR a copy.
SPECIFICATION Spec
CONSTANTS
  Form = {"variable", "use", "block"}
  MaxNumbered = 6
  MaxStatements = 2
  Program <- MCProgram
  BasicType = {"INT"}
  Source = {"copied"}
  Garbage = {0, 1}
  kMaxNodes = 24
INVARIANT VariablesInOrder
CHECK_DEADLOCK FALSE
