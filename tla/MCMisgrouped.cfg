SPECIFICATION Spec
CONSTANTS
  Operator <- MCOperator
  Expressions <- MCExpressions
  Precedences <- MCPrecedences
INVARIANTS
  GroupsByPrecedence
