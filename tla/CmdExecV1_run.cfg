CONSTANTS
  Threads = {t1, t2}
  Addr = {a1}
  MaxObj = 2
  MaxJobs = 2
  AllocMayFail = TRUE
  SetParams = {"LIMITS", "POWERSAVE"}
  NoThread = NoThread
  NoAddr = NoAddr
SPECIFICATION FairSpec
INVARIANTS TypeOK MemoryOwned OutputDelivered FenceKept
PROPERTIES ParamsApplied CallsReturn
