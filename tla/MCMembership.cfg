SPECIFICATION Spec
CONSTANTS
  creator = creator
  u1 = u1
  u2 = u2
  i1 = i1
  i2 = i2
  r1 = r1
  r2 = r2
  Creator = creator
  Users = {creator, u1, u2}
  Invites = {i1, i2}
  Requests = {r1, r2}
SYMMETRY Symmetry
INVARIANTS
  TypeOK
  MembersWereInvited
  UsedIsClosed
PROPERTIES
  OwnersStay
  ImplementsRoster
