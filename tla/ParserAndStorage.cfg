SPECIFICATION FairFeedSpec
CONSTANTS
  SubTables = {"nit", "nitO", "eitA", "eitB", "sdt", "sdtO", "bat"}
  Programmes = {{"nit"}, {"eitA"}, {"eitA", "eitB"}, {"sdt", "sdtO"}, {"nitO", "bat"}}
  Frequencies = {"f1", "f2"}
  Home = "f1"
  Barker = "f2"
  PreferredNetworkId = 7
  Announced = {"nit", "bat"}
  SubTableId <- MCSubTableId
  SubTableExt <- MCSubTableExt
  Origin <- MCOrigin
  SentOn <- MCSentOn
  Layouts <- MCLayouts
  Bodies <- MCBodies
  Sections <- BroadcastSections
  Uninitialized = {}
  Observers = {storage}
  Application = storage
  MaxRegistered = 1
  MaxGeneration <- MCMaxGeneration
  MaxRequests = 4
CHECK_DEADLOCK FALSE
INVARIANTS
  FeedTypeOK
  CachedWhole
PROPERTIES
  DeliveredIsCached
  KeptParserNeverRefills
  RefilledByNewParser
