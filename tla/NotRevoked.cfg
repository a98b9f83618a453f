SPECIFICATION Spec
CONSTANTS
  inherited = inherited
  added = added
  v1 = v1
  v2 = v2
  Names = {inherited, added}
  Values = {v1, v2}
  Unset = Unset
  Unreadable = Unreadable
  Rooms = {r1, r2}
  Versions = {1, 2}
  Inherited <- StartedWith
PROPERTIES DeletedLineRevokes
