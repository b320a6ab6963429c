CONSTANTS
  Threads = {t1, t2}
  NoThread = NoThread
  Devices = {"MDLA", "VPU"}
  MaxSubCmds = 4
  MaxRunSubCmds = 2
  MaxTunes = 1
  MaxBufs = 2
  MaxJobs = 3
  Clients = {"serial", "builder"}
SPECIFICATION FairSpec
INVARIANTS TypeOK ListsMatch PacksOrdered ListsFillBuffer
INVARIANTS MarkFitsRuns BufferAndFenceKept HeaderCurrent
PROPERTY CallsReturn
