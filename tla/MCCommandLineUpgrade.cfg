CONSTANTS
  NumStations = 2
  NumConfigs = 1
  DeviceOrder <- MCDeviceOrder
  Chunks = 2
  MaxReenumerations = 0
  test_mode = FALSE
  Lines <- UpgradeLines
  MaxLines = 2
SPECIFICATION LineSpec
INVARIANT UpgradedMeansWritten
CHECK_DEADLOCK FALSE
