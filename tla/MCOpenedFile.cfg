SPECIFICATION Spec
CONSTANTS
  FirstCapacity = 16
  Junk = Junk
  Names = {bin, usr}
  bin = bin
  usr = usr
  MaxHeaders = 2
  MaxDepth = 1
  ManyFiles = 1
  Archives <- SmallArchives
  EntryWidth = 24
  NodeWidth = 8
  FileSize = 2
  Devices <- OneDevice
  MaxEntries = 4
  MaxUsed = 1
  MaxWalked = 2
  MaxCount = 1
CHECK_DEADLOCK FALSE
INVARIANT DescriptorsAreOpen
