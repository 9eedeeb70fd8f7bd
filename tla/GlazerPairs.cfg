SPECIFICATION Spec
CONSTANTS
  IntBits = 20
  MaxFloat = 65535
  FloatLimit = 60000
  QuickChars = 256
  PageSize = 16
  LocalsAtOnce = 2
  MaxLocals = 4
  MaxSize = 4096
  Sources <- PairSources
  MaxRounds = 5
INVARIANT PairsReadBack
