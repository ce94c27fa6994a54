SPECIFICATION Spec
CONSTANTS
  Char <- PegChar
  WEOF = "WEOF"
  Rule <- PegRule
  Exp <- MCExp
  Grammars <- MCGrammars
  Inputs <- GrammarTexts
  MaxDepth = 60
  MaxChildren = 12
INVARIANTS
  AcceptsWithTrailingSlash
  ReaderNeverAsserts
  ReadsBack
  PlainTextsDecoded
