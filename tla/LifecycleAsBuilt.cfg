\* The code as it is: a nil retry configuration takes the plugin down.  The requests
\* that name users to revoke all end there, so none is enough of them.
SPECIFICATION Spec
CONSTANTS
  Request = {r1, r2}
  User = {u1, u2}
  Role = {app}
  Region <- Both
  Configured <- Both
  MaxCredentials <- One
  DefaultTTL <- One
  MaxTTL <- Two
  ScriptedRoles = {app}
  FixedName <- RandomNames
  NilRetryPanics = TRUE
  CallsMayFail = TRUE
  CrashesHappen = TRUE
  BatchSizes = {1, 2}
  RequestedTTLs = {0, 2}
  MaxTargets = 0
  MaxClock = 2
  DefaultRegion = "default"
  NoUser = NoUser
  NoCred = NoCred
  Permits <- EveryRole
SYMMETRY Symmetry
INVARIANTS HeldIsTracked
 
