\* Two lines typed to the tree; two lines handled while two end stations are read.
CONSTANTS
  Ints <- MCInts
  EntityIds <- MCEntityIds
  TreeLines <- MCTreeLines
  MaxTreeLines = 2
  NumStations = 2
  NumConfigs = 1
  DeviceOrder <- MCDeviceOrder
  Chunks = 2
  MaxReenumerations = 1
  test_mode = FALSE
  Lines <- MCLines
  MaxLines = 2
SPECIFICATION SumSpec
INVARIANTS FreshArguments AccessorsFit OffersAreTaken StatusUsedIsOwn CheckedNeverFail ViewsAreComplete UpgradeWaitsForAll
CHECK_DEADLOCK FALSE
