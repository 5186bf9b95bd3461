\* The same scopes, the thresholds of the code.
SPECIFICATION Spec
CONSTANTS
  int = int
  str = str
  A = A
  B = B
  SimpleType = {int, str}
  Compound = {A, B}
  Function <- MCFunction
  Free <- MCFree
  FunctionSets <- MCFunctionSets
  TypeID <- MCTypeID
  Members <- MCMembers
  v_arg_types_ <- MCArgTypes
  Args <- MCArgs
  Ret <- MCRet
  kAllTypes = all
  MaxGen = 50
  FewExpr = 3
  PreferVar = 15
INVARIANT
  NoExpressionBranch
CHECK_DEADLOCK FALSE
