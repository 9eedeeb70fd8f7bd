SPECIFICATION Spec
CONSTANTS
  ZVersion = 8
  Preallocate = TRUE
  Origin = 65500
  Labels <- TwoLabels
  Instructions <- EdgeInstructions
  Texts <- AllTexts
  Latin <- LatinChars
  Tables <- SomeTables
  ByteLists <- NoBytes
  Sizes = {0, 31}
  Offsets = {65529, 65536, 65600}
  LocalCounts = {1}
  LocalValues <- NoValues
  GlobalValues = {}
  MaxUnicode = 2
  MaxLines = 4
  A = A
  B = B
  NoLabel = NoLabel
  NoText = NoText
  TextCell = TextCell
INVARIANTS
  ReferencesResolved
  UnicodeTableFound
  LengthAndChecksum
