SPECIFICATION ParserSpec
CONSTANTS
  Bodies <- MCBodies
  Sections <- MCSections
  Uninitialized <- MCUninitialized
  Observers = {storage, logger}
  MaxRegistered = 2
INVARIANTS
  TypeOK
  ListsCoherent
  ListsOrdered
  ListsWhole
PROPERTIES
  CompletionAnnounced
  AnnouncedOnce
