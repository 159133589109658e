\* -D without -r: add_directory looks up the device table at NULL - 1.
CONSTANTS
  LebSize = 15360
  MinIoSize = 512
  MainFirst = 10
  MainLebs = 40
  Trees <- MC_DevNoRootTrees
  InumAttrModes = {FALSE}
  NameHash <- MC_NameHash
SPECIFICATION Spec
CHECK_DEADLOCK FALSE
INVARIANT RootDevtableHonoured
