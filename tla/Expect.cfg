SPECIFICATION FairSpec
CONSTANTS
  Setups <- MCSetups
  Streams <- MCStreams
  Calls <- MCCalls
INVARIANT OutputKept
PROPERTIES NoMissedMatch 
CHECK_DEADLOCK FALSE
