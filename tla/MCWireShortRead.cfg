CONSTANTS
  Links <- RequestLink
  Width <- ByteWidth
  TextLens = {1, 2}
  Garbage = {0, 1, 2}
  MAX_TEXT_SIZE = 2
  FileLens = {1}
  MAX_ERROR_MSG = 1
  MAX_CLIENTS = 2
  MaxMessages = 1
SPECIFICATION Spec
CHECK_DEADLOCK FALSE
INVARIANT
  ReceivedAsSent
