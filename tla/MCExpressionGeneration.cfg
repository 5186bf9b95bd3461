\* All scopes over two simple types, two structures and four functions, the
\* thresholds of gen_counter_ lowered.
SPECIFICATION FairSpec
CONSTANTS
  int = int
  str = str
  A = A
  B = B
  SimpleType = {int, str}
  Compound = {A, B}
  Function <- MCFunction
  Free <- MCFree
  FunctionSets <- MCFunctionSets
  TypeID <- MCTypeID
  Members <- MCMembers
  v_arg_types_ <- MCArgTypes
  Args <- MCArgs
  Ret <- MCRet
  kAllTypes = all
  MaxGen = 5
  FewExpr = 2
  PreferVar = 3
INVARIANTS
  ResultIsLeast
  TypeOK
  BranchesHaveSources
  ArgumentsSatisfiable
  NullIRIsNotRead
  ShiftIsBounded
PROPERTY
  Termination
CHECK_DEADLOCK FALSE
