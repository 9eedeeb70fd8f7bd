SPECIFICATION Spec
CONSTANTS
  Configs <- OffsetStories
  NoAddress = NoAddress
INVARIANTS
  AddressesHonoured
