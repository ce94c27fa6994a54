SPECIFICATION Spec
CONSTANTS
  Name <- MCName
  Operator <- MCOperator
  FnName <- MCFnName
  Exp <- MCExp
  Programs <- MCPrograms
INVARIANTS
  AssertionHolds
