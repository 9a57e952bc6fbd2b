\* Two overlapping requests on one role and its templates, or on two
\* configurations and their pools.
SPECIFICATION AdminSpec
CONSTANTS
  RoleRequest = {r1, r2}
  Role = {app}
  Statement = {s1, s2}
  Naming = {a, b}
  Session = {v}
  NotGiven = NotGiven
  NoRole = NoRole
  LegacyVersions = {0, 3}
  ConfigRequest = {q1, q2}
  ConfigName = {n1, n2}
  Target = {t1}
  NoTarget = NoTarget
  PluginName = {g1, g2}
  NoConfig = NoConfig
  NoPool = NoPool
SYMMETRY Symmetry
INVARIANTS RoleInv  ConfigInv
PROPERTIES CarriedOver LegacyStays ResetOpensStored
