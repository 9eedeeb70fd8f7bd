SPECIFICATION Spec
CONSTANTS
  Bytes <- MCBytes
  Number <- MCNumber
  CommandLines <- MCCommandLines
  Disk <- MCDisk
  CutoffLongPattern = 4
  Oversample = 3
INVARIANTS TypeOK PatternsComplete HeapSound CachesCurrent ParseIsLeast SavingsTrue SizesAgree FinishedIsText BaselineTrue
PROPERTY Terminates
