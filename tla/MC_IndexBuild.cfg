\* sha512-authenticated image, fanout 8: an index node of 8 branches is 700
\* bytes, so 21 fit in the minimum LEB and rows wrap across LEBs.
CONSTANTS
  LebSize = 15360
  MinIoSize = 512
  MainFirst = 10
  MainLebs = 200
  Fanout = 8
  KeyLen = 8
  HashLen = 64
  IdxFirstLnum = 20
  MaxLevel = 6
  InitIdxLists <- MC_InitIdxLists
\* One leaf (no upper level), a multiple of the fanout and one more (a short
\* last node on a row), and enough leaves for three upper levels whose nodes
\* wrap across LEBs (513 leaves: rows of 65, 9, 2 and 1 nodes).
  LeafCounts = {1, 8, 9, 64, 65, 200, 513}
SPECIFICATION FairSpec
INVARIANTS
  TypeOK
  IndexMatchesLayout
  NodesWithinLeb
  IndexComplete
  LedgerMatchesLayout
PROPERTIES
  Termination
CHECK_DEADLOCK FALSE
