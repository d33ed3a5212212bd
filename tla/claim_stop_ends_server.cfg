SPECIFICATION FairSpec
CONSTANTS
  Signals = {SIGINT, SIGTERM}
  MaxSignals = 1
PROPERTY StopEndsServer
