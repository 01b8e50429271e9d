SPECIFICATION FairCarouselSpec
CONSTANTS
  SubTables = {"eit", "sdt", "bat"}
  Programmes = {{"eit", "sdt"}, {"bat"}}
  SubTableId <- MCSubTableId
  SubTableExt <- MCSubTableExt
  Layouts <- MCLayouts
  Bodies <- BroadcastBodies
  Sections <- BroadcastSections
  Uninitialized = {}
  Observers = {storage}
  Application = storage
  MaxRegistered = 1
  MaxGeneration <- MCMaxGeneration
  MaxMissed = 31
  Lossy = {"sdt", "bat"}
INVARIANTS
  NoTornList
PROPERTIES
  FairTableFeed
