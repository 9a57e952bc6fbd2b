\* Two requests for one role, which may move between users and databases.
SPECIFICATION Spec
CONSTANTS
  Request = {r1, r2}
  Name = {n1}
  u1 = u1
  u2 = u2
  User = {u1, u2}
  UsersOf <- OneUserEach
  Database = {default, other}
  Default = default
  Password = {k1, k2, k3}
  None = None
SYMMETRY Symmetry
INVARIANTS StaticInv  
CHECK_DEADLOCK FALSE
