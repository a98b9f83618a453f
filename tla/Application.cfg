SPECIFICATION MCSpec
CONSTANTS
  inherited = inherited
  added = added
  v1 = v1
  Names = {inherited, added}
  Values = {v1}
  Unset = Unset
  Unreadable = Unreadable
  Rooms = {r1, r2}
  Versions = {1}
  Inherited <- StartedWith
  absolute = absolute
  relative = relative
  d1 = d1
  d2 = d2
  f1 = f1
  f2 = f2
  f3 = f3
  DataDirs = {d1, d2}
  Files = {f1, f2, f3}
  KeyNames = {absolute, relative}
  Anchored <- Paths
  MaxKeys = 4
  MaxEdits = 2
  MaxCrashes = 1
INVARIANTS KillsLoseNothing InheritedKept NothingLeftBehind RoomsRunNewest
PROPERTIES IdentityKept RowsFollowAPlan Ends ServesAgain
