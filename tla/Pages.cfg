\* Timestamps twice as fine as a cursor: four rows, pages of one.
CONSTANTS
  Ids = {1, 2, 3, 4}
  PAGE_SIZE = 1
  DEFAULT_LIMIT = 2
  MAX_LIMIT = 3
  TICKS_PER_MS = 2
  MaxTime = 4
SPECIFICATION Spec
INVARIANT SkipsShareAMillisecond
INVARIANT DeadEndIsCutOff
