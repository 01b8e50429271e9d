SPECIFICATION DbSpec
CONSTANTS
  SubTables = {"nit", "sdt", "bat", "other", "eit"}
  Contents <- MCContents
  PreferredNetworkId = 1
  MaxStarts = 0
CHECK_DEADLOCK FALSE
INVARIANTS
  ItemsOrTransportsHaveParents
