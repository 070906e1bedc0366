CONSTANTS
  h1 = h1
  h2 = h2
  r1 = r1
  r2 = r2
  Worker = Worker
  Main = Main
  NoRequest = NoRequest
  NoThread = NoThread
  MAX_QUEUE_SIZE = 2
  Handlers <- MCHandlers
  Requests <- MCRequests
  RequestsOf <- MCRequestsOf
SPECIFICATION FairSpec
INVARIANTS
  TypeOK
  NoLostWakeup
PROPERTIES
  ImplementsFifo
  QueuedIsProcessed
  FullQueueDrains
  AdminReturns
