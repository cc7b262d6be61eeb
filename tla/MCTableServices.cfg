CONSTANTS
  a1 = a1  a2 = a2  single = single  double = double  dump = dump
  NoApp = NoApp
  NoImage = NoImage
  Apps = {a1, a2}
  Tables = {single, dump}
  OwnerOf <- SharedOwners
  DoubleBuffered = {}
  DumpOnly = {dump}
  HasValidation = {}
  Images = {0, 1}
  ValidImages = {1}
  MaxTables = 2
  MaxHandles = 2
  MaxLoads = 1
  MaxVals = 1
  Reloads = {}
  Unregisters = {single}
  Exits = {a1}
SPECIFICATION Spec
INVARIANTS
  TypeOK  NoStaleReader
PROPERTIES
  HeldImageStable
CHECK_DEADLOCK FALSE
