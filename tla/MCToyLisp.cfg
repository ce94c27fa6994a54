SPECIFICATION MCSpec
CONSTANTS
  parse   <- parseExpression
  Names   <- MCNames
  Asts    <- MCAsts
  Texts   <- MCTexts
  Letters <- MCLetters
  Digits  <- MCDigits
CHECK_DEADLOCK FALSE
INVARIANTS
  SourceRead
  AnswersEveryForm
  FunctionsMean
  CallsStand
