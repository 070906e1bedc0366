CONSTANTS
  Links <- SoundLinks
  Width <- SmallWidth
  TextLens = {1, 2}
  Garbage = {0, 1, 2}
  MAX_TEXT_SIZE = 2
  FileLens = {0, 1, 2}
  MAX_ERROR_MSG = 1
  MAX_CLIENTS = 2
  MaxMessages = 2
SPECIFICATION FairSpec
CHECK_DEADLOCK FALSE
INVARIANTS
  TypeOK
  ReceivedAsSent
  FailsForCause
PROPERTY
  Delivered
