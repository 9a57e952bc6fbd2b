\* As if Setup started the three jobs a shutdown waits for.
SPECIFICATION Spec
CONSTANTS
  Request = {r1, r2}
  Main = main
  Name = {n1}
  StoredConfigs = {n1}
  MinConnections <- OneKept
  Pool = {p1, p2, p3}
  Registry = {g1, g2}
  Job <- EveryJob
  StartedJobs <- EveryJob
  Operations = {"update", "reload", "shutdown"}
  PingMayFail = TRUE
  OpenMayFail = FALSE
  None = None
SYMMETRY Alike
INVARIANTS RegistryInv
CHECK_DEADLOCK FALSE
