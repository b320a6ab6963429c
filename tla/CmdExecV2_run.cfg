CONSTANTS
  Threads = {t1, t2}
  MaxJobs = 2
  MaxFreeJobs = 1
  MaxBuffers = 2
  Clients = {"free", "single", "built"}
  NoThread = NoThread
SPECIFICATION FairSpec
INVARIANTS TypeOK ResourcesConserved ReportsOwnResult
PROPERTIES CallsReturn ImplementsTickets
