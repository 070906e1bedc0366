CONSTANTS
  Letters = {"a", "b", "A"}
  Digits = {"1"}
  Terminators = {"."}
  Others = {" "}
  Lower <- SmallLower
  Stopwords <- SmallStopwords
  TokenBuffer = 4
  Ln <- SmallLn
  Collections <- SmallCollections
  MAX_SENTENCES = 3
  MaxPieces = 3
  MaxLength = 0
SPECIFICATION SummarySpec
CHECK_DEADLOCK FALSE
INVARIANT MaintainsOrder
