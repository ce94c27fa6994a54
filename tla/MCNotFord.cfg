SPECIFICATION Spec
CONSTANTS
  Char = {"a", "b"}
  WEOF = "WEOF"
  Rule <- MCRule
  Exp <- MCExp
  Grammars <- WellFormed
  Inputs <- MCInputs
  MaxDepth = 8
  MaxChildren = 4
INVARIANTS
  AgreesWithFord
