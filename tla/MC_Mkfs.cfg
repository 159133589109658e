\* An authenticated image (64-byte hashes) on minimum-size LEBs: 3 log,
\* 2 LPT and 1 orphan LEB put main_first at 9; max_leb_cnt 21 is the
\* smallest validate_options accepts with 3 log LEBs.
CONSTANTS
  LebSize = 15360
  MinIoSize = 512
  MaxLebCnt = 21
  LogLebs = 3
  LptLebCnt = 2
  OrphLebs = 1
  Fanout = 8
  KeyLen = 8
  HashLen = 64
  MaxLevel = 6
  Trees <- MC_MkfsTrees
  InumAttrModes = {FALSE}
  NameHash <- MC_NameHash
  FaultPoints <- MC_FaultPoints
SPECIFICATION Spec
INVARIANTS
  TypeOK
  MasterMatchesLpt
  MasterPointsIntoImage
PROPERTIES
  ImageSpec

CHECK_DEADLOCK FALSE
