\* Timestamps twice as fine as a cursor.
CONSTANTS
  Ids = {1, 2, 3}
  PAGE_SIZE = 1
  DEFAULT_LIMIT = 2
  MAX_LIMIT = 3
  TICKS_PER_MS = 2
  MaxTime = 3
SPECIFICATION Spec
INVARIANT EachRowOnce
