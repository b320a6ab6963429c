CONSTANTS
  Threads = {t1, t2}
  Addr = {a1, a2}
  WholeAddr = vlm
  Cmds = {c1}
  MaxObj = 4
  MaxWhole = 1
  NoThread = NoThread
SPECIFICATION FairSpec
INVARIANTS TypeOK HeldUsable NothingLost
PROPERTY CallsReturn
