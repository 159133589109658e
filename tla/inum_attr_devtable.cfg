\* -a over a tree whose device table adds inodes the host does not have.
CONSTANTS
  LebSize = 15360
  MinIoSize = 512
  MainFirst = 10
  MainLebs = 40
  Trees <- MC_DevtabTrees
  InumAttrModes = {TRUE}
  NameHash <- MC_NameHash
SPECIFICATION Spec
CHECK_DEADLOCK FALSE
INVARIANT InumAttrNeverFails
