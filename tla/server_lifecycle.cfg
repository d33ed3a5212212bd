SPECIFICATION FairSpec
CONSTANTS
  Signals = {SIGINT, SIGTERM}
  MaxSignals = 4
INVARIANTS
  TypeOK
  CallbackReady
  AnsweredOnce
  StopHasServer
PROPERTIES
  FirstSignalAnswered
