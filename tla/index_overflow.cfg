\* sha512-authenticated image, fanout 200: validate_options accepts it for a
\* 15360-byte LEB (maximum (15360 - 28) / 28 = 547), yet a full index node
\* is 28 + (12 + 8 + 64) * 200 = 16828 bytes.
CONSTANTS
  LebSize = 15360
  MinIoSize = 512
  MainFirst = 10
  MainLebs = 200
  Fanout = 200
  KeyLen = 8
  HashLen = 64
  IdxFirstLnum = 20
  MaxLevel = 6
  InitIdxLists <- MC_InitIdxLists
  LeafCounts = {200}
SPECIFICATION Spec
INVARIANT NodesWithinLeb
CHECK_DEADLOCK FALSE
