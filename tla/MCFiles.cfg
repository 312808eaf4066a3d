SPECIFICATION Spec
CONSTANTS
  FirstCapacity = 16
  Junk = Junk
  Names = {bin, usr}
  bin = bin
  usr = usr
  MaxHeaders = 5
  MaxDepth = 3
  ManyFiles = 1
  Archives <- SmallArchives
  EntryWidth = 24
  NodeWidth = 8
  FileSize = 2
  Devices <- OneDevice
  MaxEntries = 5
  MaxUsed = 2
  MaxWalked = 4
  MaxCount = 2
CHECK_DEADLOCK FALSE
INVARIANT TypeOK
INVARIANT EverythingIsFound
INVARIANT CountsCoverUsers
INVARIANT OpensWhatThePathNames
INVARIANT DeliveredInOrder
