CONSTANTS
  c1 = c1
  c2 = c2
  c3 = c3
  a1 = a1
  Free = Free
  NoRequest = NoRequest
  Writes <- TwoWrites
  Deaf = {}
  SocketBuffer = 0
  Mute = {}
  Conns <- ThreeConns
  Admins <- NoAdmins
  Fds <- TwoFds
  Types = {"count"}
  Commands = {}
  MAX_CLIENTS = 2
  MAX_QUEUE_SIZE = 1
  MaxRequests = 2
  Window = 1
  SureThreads = 3
  Impatient = {}
SPECIFICATION FairSpec
CHECK_DEADLOCK FALSE
INVARIANTS
  AnswersInOrder
  ServerSurvives
PROPERTIES
  RequestsAnswered
  AcceptedWhenFree
