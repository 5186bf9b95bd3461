\* Programs of up to three statements of every form, as parsed, as after
\* ExtractStructure, and the copies of those with few statement ids; some larger
\* forms together exceed kMaxNodes.
SPECIFICATION MCSpec
CONSTANTS
  Form = {"variable", "untyped", "of_struct", "of_function", "initialised", "use", "fixme",
          "literal", "block", "function", "taking", "procedure", "prototype", "struct",
          "nested", "method"}
  MaxNumbered = 5
  MaxStatements = 3
  Program <- MCProgram
  BasicType = {"INT"}
  Source = {"translated", "extracted", "copied"}
  Garbage = {0, 1}
  kMaxNodes = 24
INVARIANTS
  ScopesMirrorTree
  EachDefinedOnce
  MembersAreOwn
  EachFixmeOnce
PROPERTY
  ImplementsLexicalScoping
CHECK_DEADLOCK FALSE
