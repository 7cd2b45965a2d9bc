\* An order of one line, a user who opens the dialogs three times.
CONSTANTS
  line = line
  Items = {line}
  MaxKeys = 3
SPECIFICATION Spec
INVARIANT ConflictIsShown
INVARIANT ToldIsShown
INVARIANT ShownOrderIsWhole
