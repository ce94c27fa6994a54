SPECIFICATION GSpec
CONSTANTS
  Char = {"a", "b"}
  WEOF = "WEOF"
  Rule <- MCRule
  Exp <- MCGeneratedExp
  Grammars <- MCGrammars
  Inputs <- MCInputs
  MaxDepth = 8
  MaxChildren = 5
INVARIANTS NodesAccounted TreesAsRecorded ActionsBottomUp AnswerComplete
CHECK_DEADLOCK FALSE
