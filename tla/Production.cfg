\* The same with the cookie names of production.
CONSTANTS
  r1 = r1
  r2 = r2
  Requests = {r1, r2}
  Production = TRUE
  IDLE_TIMEOUT = 2
  ABSOLUTE_TIMEOUT = 4
  ACTIVITY_TOUCH_THROTTLE = 1
  MaxTime = 2
  MaxSessions = 1
  MaxSecrets = 1
SPECIFICATION Spec
SYMMETRY Symmetry
PROPERTY LiveCookieIsAccepted
