SPECIFICATION Spec
CONSTANTS
  sdb = sdb
  sdb1 = sdb1
  sdb2 = sdb2
  sda1 = sda1
  dm0 = dm0
  dm1 = dm1
  Disk = sdb
  Partitions <- MCPartitions
  Foreign = sda1
  Upper <- MCUpper
  Synthetic <- MCSynthetic
  Paths <- MCPaths
  Media <- MCMedia
  NoNode = NoNode
  MaxMounts = 2
  MaxUses = 3
  MaxActs = 1
SYMMETRY MCSymmetry
INVARIANTS
  QuietWhileClaimed
  RefusalHasCause
PROPERTIES
  SafeToUnplug
