SPECIFICATION Spec
CONSTANTS
  creator = creator
  u1 = u1
  u2 = u2
  i1 = i1
  i2 = i2
  r1 = r1
  r2 = r2
  Creator = creator
  Users = {creator, u1, u2}
  Invites = {i1}
  Requests = {r1, r2}
PROPERTY AcceptedWhilePending
