SPECIFICATION Spec
CONSTANTS
  Bytes <- MCBytes
  Number <- MCNumber
  CommandLines <- EndsCommandLines
  Disk <- MCDisk
  CutoffLongPattern = 4
  Oversample = 3
INVARIANT CountsTrue

