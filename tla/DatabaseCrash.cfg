SPECIFICATION DbSpec
CONSTANTS
  SubTables = {"nit", "sdt", "bat", "eit"}
  Contents <- MCContents
  PreferredNetworkId = 1
  MaxStarts = 1
CHECK_DEADLOCK FALSE
INVARIANTS
  OpenedIsValid
