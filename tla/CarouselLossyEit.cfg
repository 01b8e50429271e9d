SPECIFICATION Spec
CONSTANTS
  SubTables = {"eit"}
  Programmes = {{"eit"}}
  SubTableId <- MCSubTableId
  SubTableExt <- MCSubTableExt
  Layouts <- MCLayouts
  Bodies <- BroadcastBodies
  Sections <- BroadcastSections
  Uninitialized = {}
  Observers = {storage}
  Application = storage
  MaxRegistered = 1
  MaxGeneration <- MCMaxGeneration
  MaxMissed = 1
  Lossy = {"eit"}
INVARIANTS
  AllSectionsOfFullCycle
