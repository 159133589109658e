CONSTANTS
  Cmdlines <- MC_Cmdlines
  Targets <- MC_Targets
  LptLebsAtOptions = 0
  JheadCntAtOptions = 0
  Dirs <- MC_Dirs
  Files <- MC_Files
  Links <- MC_Links
  Cwd <- MC_Cwd
  DEBUG_LEVEL = 3
SPECIFICATION Spec
PROPERTY OptionsSpecRefined
CHECK_DEADLOCK FALSE
