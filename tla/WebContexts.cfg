\* Two users who take turns in one tab.
CONSTANTS
  Organizations = {"acme", "bolt", "shared"}
  Memberships <- MCMemberships
  Forms = {1}
  MaxLogins = 3
SPECIFICATION Spec
INVARIANT UserIsSession
INVARIANT SelectedIsTheirs
INVARIANT ShownIsOfCurrent
