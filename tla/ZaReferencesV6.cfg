SPECIFICATION Spec
CONSTANTS
  ZVersion = 6
  Preallocate = FALSE
  Origin = 704
  Labels <- TwoLabels
  Instructions <- RefInstructions
  Texts <- OneText
  Latin <- LatinChars
  Tables <- OneTable
  ByteLists <- NoBytes
  Sizes = {3}
  Offsets = {}
  LocalCounts = {2, 16}
  LocalValues <- NoValues
  GlobalValues = {}
  MaxUnicode = 2
  MaxLines = 4
  A = A
  B = B
  NoLabel = NoLabel
  NoText = NoText
  TextCell = TextCell
INVARIANTS
  TypeOK
  FieldsApart
  ReferencesResolved
  EntryPoint
PROPERTIES
  WrittenOnce
  KeepsLinkage
