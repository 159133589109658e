\* The tree whose authenticated index spans two LEBs, with one refused sink
\* write at any position.
CONSTANTS
  LebSize = 15360
  MinIoSize = 512
  MaxLebCnt = 21
  LogLebs = 3
  LptLebCnt = 2
  OrphLebs = 1
  Fanout = 8
  KeyLen = 8
  HashLen = 64
  MaxLevel = 6
  Trees <- MC_BigTrees
  InumAttrModes = {FALSE}
  NameHash <- MC_NameHash
  FaultPoints <- MC_FaultPoints
SPECIFICATION Spec
INVARIANT
  ImageIndexComplete
CHECK_DEADLOCK FALSE
