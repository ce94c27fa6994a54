SPECIFICATION Spec
CONSTANTS
  Char <- KsChar
  WEOF = "WEOF"
  Rule <- MCRule
  Exp <- MCExp
  Grammars <- MCGrammars
  Inputs <- MCInputs
  MaxDepth = 60
  MaxChildren = 12
INVARIANTS
  FileAlwaysParsed
  ChildrenAlwaysThere
  ProgramsReadBack
