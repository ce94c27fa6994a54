SPECIFICATION FairSpec
CONSTANTS
  Char = {"a", "b"}
  WEOF = "WEOF"
  Rule <- MCRule
  Exp <- MCExp
  Grammars <- Family
  Inputs <- MCInputs
  MaxDepth = 8
  MaxChildren = 4
INVARIANTS
  PositionsOrdered
  FailureKeepsNoChildren
  EvaluatedOnce
  ErrorsOnlyOnFailure
  ErrorsOutward
  ErrorsLive
  NodesOnRecord
  BacktrackingAgreesWithFord
  AmpFreeTreesNested
PROPERTIES
  WellFormedTerminates
