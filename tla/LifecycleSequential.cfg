\* One request at a time, nothing fails, one database.
SPECIFICATION Spec
CONSTANTS
  Request = {r1}
  User = {u1, u2, u3}
  Role = {app}
  Region <- Both
  Configured <- JustDefault
  MaxCredentials <- Two
  DefaultTTL <- One
  MaxTTL <- Two
  ScriptedRoles = {app}
  FixedName <- RandomNames
  NilRetryPanics = FALSE
  CallsMayFail = FALSE
  CrashesHappen = FALSE
  BatchSizes = {1, 2}
  RequestedTTLs = {0, 2}
  MaxTargets = 2
  MaxClock = 2
  DefaultRegion = "default"
  NoUser = NoUser
  NoCred = NoCred
  Permits <- EveryRole
SYMMETRY Symmetry
INVARIANTS CleanedStaysGone
PROPERTIES CleanupRemovesExpired
