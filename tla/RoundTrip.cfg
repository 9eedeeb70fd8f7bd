SPECIFICATION TripSpec
CONSTANTS
  Sources <- AgreedSources
  MaxUnicode = 2
  NoAddress = NoAddress
INVARIANTS
  InStep
  ErrorsNamed
  AllListed
  InstructionsReadBack
  TextsReadBack
