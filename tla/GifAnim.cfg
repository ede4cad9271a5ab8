SPECIFICATION Spec
CONSTANTS
  Width = 3
  Height = 2
  Colors = {1, 2, 3, 4}
  CLEAR = 0
  Alike <- MCAlike
  BlockSize = 1
  Workers = {w1}
  Images <- MCImages
  Extensions <- MCExtensions
  LoopCounts = {0, 1, 65535}
  Options <- MCOptions
  GIF_INDEX_INVALID <- MCInvalid
  MAX_GIF_DATA = 13
  IntMod = 256
  MaxImages = 4
INVARIANTS
  TypeOK
  CanvasesAsViewed
  PlayerShowsCanvas
  RectsLegal
  DurationsKept
  LoopsAsGif
  DataLimited
  OwnTransparencyUnlessAbandoned
CHECK_DEADLOCK FALSE
