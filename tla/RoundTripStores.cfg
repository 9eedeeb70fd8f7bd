SPECIFICATION TripSpec
CONSTANTS
  Sources <- StoreAndBranchSources
  MaxUnicode = 2
  NoAddress = NoAddress
INVARIANT
  ResultsReadBack
