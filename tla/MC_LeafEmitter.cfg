\* write_data over host trees covering every inode kind, hard links,
\* xattrs, holes, the device table and each error path, with and without -a.
CONSTANTS
  LebSize = 15360
  MinIoSize = 512
  MainFirst = 10
  MainLebs = 40
  Trees <- MC_Trees
  InumAttrModes = {FALSE, TRUE}
  NameHash <- MC_NameHash
SPECIFICATION Spec
INVARIANTS
  TypeOK
  InumsDense
  LinkCounts
  DirSizes
  XattrAccounting
  CreatSqnumOrder
  DataWithinSize
  ImageInumAttrs
CHECK_DEADLOCK FALSE
