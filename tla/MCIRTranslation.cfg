\* TranslateNode on every small parse tree.
SPECIFICATION FairSpec
CONSTANTS
  MaxChildren = 6
  MaxMixed = 3
  MaxNested = 3
  Node <- MCNode
  Program <- MCProgram
  Terminal <- MCTerminal
  Eof <- MCEof
  Children <- MCChildren
  StringLiteral <- MCStringLiteral
  IntLiteral <- MCIntLiteral
  IntFits <- MCIntFits
  Text <- MCText
  Written <- MCWritten
  getText <- MCgetText
  stoi <- MCstoi
  kUnknown = kUnknown
INVARIANTS
  TokensHeldInOrder
  YieldPreserved
  FoldTakesTwo
PROPERTY
  Termination
CHECK_DEADLOCK FALSE
