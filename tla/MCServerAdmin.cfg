CONSTANTS
  c1 = c1
  c2 = c2
  c3 = c3
  a1 = a1
  Free = Free
  NoRequest = NoRequest
  Writes <- AdminWrites
  Deaf = {c2}
  SocketBuffer = 0
  Mute = {}
  Conns <- TwoConns
  Admins <- OneAdmin
  Fds <- TwoFds
  Types = {"count"}
  Commands = {"get_clients"}
  MAX_CLIENTS = 1
  MAX_QUEUE_SIZE = 2
  MaxRequests = 2
  Window = 2
  SureThreads = 3
  Impatient = {c1, a1}
SPECIFICATION FairSpec
CHECK_DEADLOCK FALSE
INVARIANTS
  NoFdLeak
  NothingLost
  AdminSnapshot
PROPERTIES
  AdminAnswered
  HangupReclaimed
