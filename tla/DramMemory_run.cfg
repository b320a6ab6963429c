CONSTANTS
  Kinds = {"ion", "aosp", "dma", "vlm", "exec1"}
  Owners = {w1, w2}
  Threads = {t1, t2}
  MaxObj = 2
  NoThread = NoThread
  NoOwner = NoOwner
SPECIFICATION Spec
INVARIANTS TypeOK HeldMemoryWhole NothingLost
SYMMETRY Symmetry
