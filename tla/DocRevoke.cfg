\* A revocation with a stored credential and configuration.
SPECIFICATION Spec
CONSTANTS
  Request = {r1, r2}
  User = {u1, u2}
  Role = {app}
  Region <- Both
  Configured <- Both
  MaxCredentials <- One
  DefaultTTL <- One
  MaxTTL <- Two
  ScriptedRoles = {app}
  FixedName <- RandomNames
  NilRetryPanics = TRUE
  CallsMayFail = TRUE
  CrashesHappen = TRUE
  BatchSizes = {1, 2}
  RequestedTTLs = {0, 2}
  MaxTargets = 1
  MaxClock = 2
  DefaultRegion = "default"
  NoUser = NoUser
  NoCred = NoCred
  Permits <- EveryRole
SYMMETRY Symmetry
PROPERTIES RevokeNeverPanics
