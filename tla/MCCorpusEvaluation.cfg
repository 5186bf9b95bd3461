\* Every corpus of up to three entries over two rules, of programs that fail at
\* every stage; the cache is replaced after two parses.
SPECIFICATION ToolSpec
CONSTANTS
  Entry = {f, g, h}
  Rule = {"expr", "stmt"}
  Program = {"good", "empty", "refused", "bytes", "chars", "syntax", "both", "number"}
  BadUTF8 = {"bytes"}
  LexErrors = {"chars", "both"}
  ParseErrors = {"syntax", "both", "refused"}
  Throwing = {"number"}
  Tokenless = {"empty", "refused"}
  MaxParses = 1
  MaxCaches = 4
SYMMETRY Entries
INVARIANTS
  AnswerDependsOnProgram
  ParsesWithLiveCache
  OutputIsSanitized
  MissingTypesAreUncovered
CHECK_DEADLOCK FALSE
