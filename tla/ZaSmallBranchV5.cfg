SPECIFICATION Spec
CONSTANTS
  ZVersion = 5
  Preallocate = FALSE
  Origin = 704
  Labels <- TwoLabels
  Instructions <- SmallInstructions
  Texts <- NoTexts
  Latin <- LatinChars
  Tables <- NoTables
  ByteLists <- NoBytes
  Sizes = {3}
  Offsets = {}
  LocalCounts = {1}
  LocalValues <- NoValues
  GlobalValues = {}
  MaxUnicode = 2
  MaxLines = 3
  A = A
  B = B
  NoLabel = NoLabel
  NoText = NoText
  TextCell = TextCell
INVARIANTS
  LabelledBranchesBranch
