SPECIFICATION Spec
CONSTANTS
  sda = sda
  sda1 = sda1
  sdb = sdb
  sdb1 = sdb1
  loop0 = loop0
  loop0p1 = loop0p1
  dm0 = dm0
  DiskNames <- MCDiskNames
  Disks <- MCDisks
  Loops <- MCLoops
  Stacks <- MCStacks
  Partitions <- MCPartitions
  Parent <- MCParent
  Removable <- MCRemovable
  Media <- MCMedia
  NoNode = NoNode
  NoFile = NoFile
  Slot = sdb
  Units <- MCUnits
  UsedUnits <- MCUsedUnits
  Fixed <- MCFixed
  Dirs <- MCDirs
  Formats <- MCFormats
  Archives <- MCArchives
  Plain <- MCPlain
  ImageSizes <- MCImageSizes
  WIPE_REGION = 1
  MAX_COOLDOWN_SECS = 600
  DEFAULT_COOLDOWN_SECS = 20
  CooldownArgs <- MCCooldownArgs
  Unset = Unset
  MaxReplugs = 0
  MaxLinks = 2
INVARIANTS
  SystemDiskNeverOffered
