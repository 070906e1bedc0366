CONSTANTS
  c1 = c1
  c2 = c2
  c3 = c3
  a1 = a1
  Free = Free
  NoRequest = NoRequest
  Commands = {}
  Writes <- TwoWrites
  Deaf = {}
  SocketBuffer = 0
  Mute = {}
  Conns <- ThreeConns
  Admins <- NoAdmins
  Fds <- ThreeFds
  Types = {"count", "oversized"}
  MAX_CLIENTS = 2
  MAX_QUEUE_SIZE = 1
  MaxRequests = 1
  Window = 1
  SureThreads = 1
  Impatient = {c1, c2, c3}
SPECIFICATION Spec
SYMMETRY Symmetry
CHECK_DEADLOCK FALSE
INVARIANTS
  TypeOK
  RegistryCoherent
  RequestCountExact
PROPERTIES
  OnlyOwnHandlerRemoves
