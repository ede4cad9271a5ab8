SPECIFICATION Spec
CONSTANTS
  Canvases = {1, 2}
  Similar <- MCIdentical
  Durations = {1, 2}
  Penalties = {0, 1}
  MAX_DURATION = 3
  MAX_CACHED_FRAMES = 2
  INT_MAX = 20
  DELTA_INFINITY = 9
  OptionSet <- MCDefaultOptions
  MaxFrames = 5
INVARIANT GetFrameInBounds
CHECK_DEADLOCK FALSE
