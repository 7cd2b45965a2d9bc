\* Two clients at one address register and log in under one e-mail address.
CONSTANTS
  nikos = nikos
  Nikos = Nikos
  NIKOS = NIKOS
  other = other
  p = p
  q = q
  t1 = t1
  t2 = t2
  Attempts = {t1, t2}
  Emails = {nikos, Nikos, NIKOS}
  Normalized <- MCNormalized
  LookedUp <- MCLookedUp
  Requests <- MCRequests
  LIMIT = 2
  WINDOW = 2
SPECIFICATION Spec
INVARIANT RegistrationIsWhole
INVARIANT RegisteredCanLogin
INVARIANT AtMostTwiceTheLimit
PROPERTY WindowEnds
