SPECIFICATION DbSpec
CONSTANTS
  SubTables = {"nit", "sdt", "bat", "eit"}
  Contents <- MCContents
  PreferredNetworkId = 1
  MaxStarts = 1
CHECK_DEADLOCK FALSE
INVARIANTS
  TypeOK
  NoOrphans
  DescriptorsBelong
  ServicesAreCurrent
  BouquetsAreCurrent
  SdtAndServiceAgree
  OneRowPerEvent
  TsListIsNit
  TsListIsWhole
  EventsHaveTheirTitles
