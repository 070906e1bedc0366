CONSTANTS
  Letters = {"a", "b", "A"}
  Digits = {"1"}
  Terminators = {"."}
  Others = {" "}
  Lower <- SmallLower
  Stopwords <- SmallStopwords
  TokenBuffer = 4
  Ln <- SmallLn
  Collections <- SmallCollections
  MAX_SENTENCES = 3
  MaxPieces = 4
  MaxLength = 4
SPECIFICATION SummarySpec
CHECK_DEADLOCK FALSE
INVARIANTS
  SummaryTypeOK
  LeadWithoutContrast
  OwnWordsFound
  FoundIsThere
PROPERTIES
  ImplementsBest
  Answered
