\* Every outcome of every library call of ubifs_load_filesystem, read-only
\* and read-write media and mounts.
SPECIFICATION Spec
INVARIANTS
  TypeOK
  LoadReportsFailure
  NoDoubleFree
PROPERTIES
  LoadFsSpec
CHECK_DEADLOCK FALSE
