SPECIFICATION Spec
CONSTANTS
  Canvases = {1, 2}
  Similar <- MCIdentical
  Durations = {1}
  Penalties = {0, 1}
  MAX_DURATION = 2
  MAX_CACHED_FRAMES = 4
  INT_MAX = 20
  DELTA_INFINITY = 9
  OptionSet <- MCKeyOptions
  MaxFrames = 10
INVARIANTS
  SubFramesDecodable
  RoomForNext
  KeyframeIndexed
  KeyFramesRecur
CHECK_DEADLOCK FALSE
