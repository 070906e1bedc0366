CONSTANTS
  c1 = c1
  c2 = c2
  c3 = c3
  a1 = a1
  Free = Free
  NoRequest = NoRequest
  Writes <- TwoWrites
  Conns <- TwoConns
  Types = {"count"}
  MAX_QUEUE_SIZE = 1
  MaxRequests = 1
  Window = 1
  SureThreads = 3
  Admins <- NoAdmins
  Fds <- TwoFds
  Commands = {}
  MAX_CLIENTS = 2
  Impatient = {c1}
  Deaf = {}
  SocketBuffer = 0
  Mute = {}
SPECIFICATION Spec
CHECK_DEADLOCK FALSE
INVARIANT ServerSurvives
