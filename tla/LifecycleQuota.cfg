\* Concurrent creations against one quota.
SPECIFICATION Spec
CONSTANTS
  Request = {r1, r2}
  User = {u1, u2, u3}
  Role = {app}
  Region <- Both
  Configured <- JustDefault
  MaxCredentials <- One
  DefaultTTL <- Unlimited
  MaxTTL <- Unlimited
  ScriptedRoles = {}
  FixedName <- RandomNames
  NilRetryPanics = FALSE
  CallsMayFail = FALSE
  CrashesHappen = FALSE
  BatchSizes = {1}
  RequestedTTLs = {0}
  MaxTargets = 1
  MaxClock = 0
  DefaultRegion = "default"
  NoUser = NoUser
  NoCred = NoCred
  Permits <- EveryRole
SYMMETRY Symmetry
INVARIANTS QuotaOvershootBounded
