\* Two requests of one browser, with plain cookie names.
CONSTANTS
  r1 = r1
  r2 = r2
  Requests = {r1, r2}
  Production = FALSE
  IDLE_TIMEOUT = 2
  ABSOLUTE_TIMEOUT = 4
  ACTIVITY_TOUCH_THROTTLE = 1
  MaxTime = 4
  MaxSessions = 1
  MaxSecrets = 2
SPECIFICATION Spec
SYMMETRY Symmetry
INVARIANT TypeOK
INVARIANT UnusedSessionsExpire
PROPERTY RevocationIsFinal
PROPERTY RenameIsAuthorized
PROPERTY LiveCookieIsAccepted
