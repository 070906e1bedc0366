CONSTANTS
  Letters = {"a", "b"}
  Digits = {}
  Terminators = {"."}
  Others = {" "}
  Lower <- SmallLower
  Stopwords <- SmallStopwords
  TokenBuffer = 256
  Ln <- SmallLn
  Unit = 10000
  Domains <- SmallDomains
  Unknown = "Necunoscut"
  Keywords <- SmallKeywords
  Requests <- SmallRequests
  InitialTraining <- SmallTraining
  NoRequest = NoRequest
  Collections <- SmallCollections
  MAX_SENTENCES = 3
  MaxTokens = 4
  MaxRequests = 4
SPECIFICATION Spec
CHECK_DEADLOCK FALSE
INVARIANTS
  TypeOK
  AskedAgain
  LearnsItsAnswers
  SummaryOfHistory
