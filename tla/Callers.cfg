SPECIFICATION MCSpec
CONSTANTS
  Threads = {"t1", "t2", "t3"}
  Mutexes = {"m1", "m2"}
  Processes = {"P", "Q"}
  MuOf <- SharedMuOf
  ProcOf <- SharedProcOf
  Calls <- SharedCalls
  OpenFailures = {"sh", "ex"}
  SessionCalls <- SesCalls
  Progs <- SesProgs
  PipeCap = 1
  Confs <- XConfs
  XServers <- XServersTried
  Noise <- XNoise
  MaxNoise = 1
  MaxEmpties = 1
  Parts = {"mutex", "session", "xmpp"}
INVARIANTS Exclusion NothingLeaks  SessionResult
PROPERTIES LockReturns  SessionReturns
CHECK_DEADLOCK FALSE
