SPECIFICATION Spec
CONSTANTS
  Word <- MCWord
  Specs <- MCSpecs
  Overruns <- OverrunsBuffer
  Lengths <- MCLengths
  BUF_LEN = 24
  NameLength = 7
  Special = {"quote", "newline", "return", "backslash", "question"}
  Breaking = {"quote", "newline", "return", "backslash"}
  Wide = {"wide"}
INVARIANTS ReleasedOnce ExitCodeTells OutputMeansGrammar
CHECK_DEADLOCK FALSE
