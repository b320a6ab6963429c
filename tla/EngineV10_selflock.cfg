CONSTANTS
  Threads = {t1}
  NoThread = NoThread
  Devices = {"VPU"}
  MaxSubCmds = 2
  MaxRunSubCmds = 2
  MaxTunes = 0
  MaxBufs = 1
  MaxJobs = 1
  Clients = {"modifying"}
SPECIFICATION Spec
INVARIANT NoSelfLock
