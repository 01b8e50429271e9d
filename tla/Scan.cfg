SPECIFICATION FairScanSpec
CONSTANTS
  Transports = {"home", "away"}
  FrequencyOf <- MCFrequencyOf
  ServicesOf <- MCServicesOf
  NetworkIds = {1}
  NitLists <- MCNitLists
  Carries <- MCCarries
  HomeTsFrequency = 1
  BarkerFrequency = 0
  PreferredNetworkId = 1
  NIT_TIMEOUT = 1
  SDT_TIMEOUT = 0
  SDT_OTHER_TIMEOUT = 0
  EIT_PF_TIMEOUT = 0
  EIT_8_DAY_SCHED_TIMEOUT = 0
  BarkerEitTimouts = {0}
  InTime = FALSE
  MaxRequests = 1
  MaxLosses = 1
  MaxReports = 1
INVARIANTS
  TypeOK
  FoundIsCached
  AcquiredSdtIsCached
PROPERTIES
  StatusIsReport
  EveryScanEnds
CHECK_DEADLOCK FALSE
