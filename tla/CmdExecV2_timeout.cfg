CONSTANTS
  Threads = {t1}
  MaxJobs = 1
  MaxFreeJobs = 1
  MaxBuffers = 1
  Clients = {"free"}
  NoThread = NoThread
SPECIFICATION Spec
INVARIANT NoInvalidAccess
