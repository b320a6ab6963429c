CONSTANTS
  MaxSubCmds = 4
  Sizes = {1, 4}
SPECIFICATION Spec
INVARIANTS TypeOK PackIdsSound PackUniform NoMutualWait ExecInfoFits
INVARIANTS ReducedOrder LayoutFits PacksReachDriver
PROPERTY ImplementsPackedOrder
