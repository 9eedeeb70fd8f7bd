SPECIFICATION Spec
CONSTANTS
  ZVersion = 3
  Preallocate = FALSE
  Origin = 627
  Labels <- TwoLabels
  Instructions <- MixedInstructions
  Texts <- UsedTexts
  Latin <- LatinChars
  Tables <- NoTables
  ByteLists <- SomeBytes
  Sizes = {3, 4}
  Offsets = {}
  LocalCounts = {1, 16}
  LocalValues <- SomeValues
  GlobalValues = {5, 65536}
  MaxUnicode = 2
  MaxLines = 3
  A = A
  B = B
  NoLabel = NoLabel
  NoText = NoText
  TextCell = TextCell
INVARIANT
  EntryPoint
