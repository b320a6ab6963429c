CONSTANTS
  Threads = {t1}
  Addr = {a1, a2}
  MaxObj = 3
  MaxJobs = 1
  AllocMayFail = FALSE
  SetParams = {"LIMITS"}
  NoThread = NoThread
  NoAddr = NoAddr
SPECIFICATION Spec
INVARIANT RebuildWorks
