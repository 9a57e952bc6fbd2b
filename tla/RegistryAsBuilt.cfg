\* The pools as the backend runs them: only the health checks are started.
SPECIFICATION FairSpec
CONSTANTS
  Request = {r1, r2}
  Main = main
  Name = {n1, n2}
  StoredConfigs = {n1}
  MinConnections <- OneKept
  Pool = {p1, p2}
  Registry = {g1}
  Job <- EveryJob
  StartedJobs <- JustHealth
  Operations = {"update", "stats"}
  PingMayFail = TRUE
  OpenMayFail = TRUE
  None = None
INVARIANTS RegistryInv NoLeakedPool
PROPERTIES Answered NewPoolsGetChecked
