SPECIFICATION Spec
CONSTANTS
  Canvases = {1, 2, 3}
  Similar <- MCSimilar
  Durations = {1, 2, 3}
  Penalties = {0, 1}
  MAX_DURATION = 3
  MAX_CACHED_FRAMES = 2
  INT_MAX = 20
  DELTA_INFINITY = 9
  OptionSet <- MCOptionSet
  MaxFrames = 5
INVARIANTS
  TypeOK
  TimelineKept
CHECK_DEADLOCK FALSE
