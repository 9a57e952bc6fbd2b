\* As if retry.Do replaced a nil configuration before it reads it: what the
\* revocation and renewal handlers spell out after their first connection.  Crashes
\* are in LifecycleAsBuilt.
SPECIFICATION Spec
CONSTANTS
  Request = {r1, r2}
  User = {u1, u2}
  Role = {app}
  Region <- Both
  Configured <- Both
  MaxCredentials <- Unlimited
  DefaultTTL <- Unlimited
  MaxTTL <- Unlimited
  ScriptedRoles = {}
  FixedName <- RandomNames
  NilRetryPanics = FALSE
  CallsMayFail = TRUE
  CrashesHappen = FALSE
  BatchSizes = {1}
  RequestedTTLs = {0}
  MaxTargets = 2
  MaxClock = 1
  DefaultRegion = "default"
  NoUser = NoUser
  NoCred = NoCred
  Permits <- EveryRole
SYMMETRY Symmetry
INVARIANTS LifecycleInv
PROPERTIES ImplementsLeases
