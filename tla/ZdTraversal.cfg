SPECIFICATION Spec
CONSTANTS
  Configs <- AllStories
  NoAddress = NoAddress
INVARIANTS
  TypeOK
  NothingMissed
  ListedOnce
  WithinLimit
  RoutinesOfCalls
PROPERTIES
  Terminates
  Searches
