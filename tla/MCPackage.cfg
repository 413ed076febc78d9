SPECIFICATION Spec
CONSTANTS
  boot = boot
  lib = lib
  file = file
  Paths <- MCPaths
  Bootstrap = boot
  Ancestors <- MCAncestors
  Outside = Outside
  MaxEntries = 2
  MaxSize = 1
  Limit = 1
  Threads = {t1, t2}
  NoZip = NoZip
SYMMETRY Symmetry
INVARIANTS AcceptedNeverRefused QuietRootIsWhole WritableStartsAgain
