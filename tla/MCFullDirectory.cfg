SPECIFICATION Spec
CONSTANTS
  FirstCapacity = 16
  Junk = Junk
  Names <- Numbers
  bin = 1
  usr = 2
  MaxHeaders = 1
  MaxDepth = 3
  ManyFiles = 15
  Archives <- FullDirectory
  EntryWidth = 24
  NodeWidth = 8
  FileSize = 2
  Devices <- OneDevice
  MaxEntries = 3
  MaxUsed = 1
  MaxWalked = 1
  MaxCount = 1
CHECK_DEADLOCK FALSE
INVARIANT EverythingIsFound
