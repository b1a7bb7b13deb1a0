\* One signal, at any moment.
SPECIFICATION FairSpec
CONSTANTS
  MaxSignals = 1
PROPERTIES SignalEndsWorker
CHECK_DEADLOCK FALSE
