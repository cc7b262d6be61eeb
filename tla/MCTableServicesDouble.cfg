CONSTANTS
  a1 = a1  a2 = a2  single = single  double = double  dump = dump
  NoApp = NoApp
  NoImage = NoImage
  Apps = {a1, a2}
  Tables = {double}
  OwnerOf <- DoubleOwner
  DoubleBuffered = {double}
  DumpOnly = {}
  HasValidation = {double}
  Images = {0, 1}
  ValidImages = {1}
  MaxTables = 1
  MaxHandles = 2
  MaxLoads = 1
  MaxVals = 1
  Reloads = {}
  Unregisters = {}
  Exits = {a2}
SPECIFICATION FairSpec
PROPERTIES
  HeldImageStable ActivatedLoadEnds
CHECK_DEADLOCK FALSE
