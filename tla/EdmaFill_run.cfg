CONSTANTS
  FieldSize = 128
  LineSize = 4
  TileLimit = 6
  TileSide = 2
  ObjectSize = 1000
  Threads = {1, 2}
  Tasks <- MCTasks
  NoThread = 0
SPECIFICATION Spec
INVARIANTS TypeOK SlotsHold ChainWhole OffsetsFromStart DataArrives
