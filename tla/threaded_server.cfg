SPECIFICATION Spec
CONSTANTS
  NumThreads = 3
  MaxHandlers = 1
INVARIANTS
  TypeOK
  SocketsAccounted
  AllOrNoContexts
  OneThreadPerContext
PROPERTY RunningContextsStay
