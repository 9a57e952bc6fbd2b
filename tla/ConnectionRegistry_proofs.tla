---------------------- MODULE ConnectionRegistry_proofs ----------------------
(***************************************************************************)
(* The locks and the pools of the registry, for any number of requests,    *)
(* names, pools, registries and jobs.                                      *)
(***************************************************************************)
EXTENDS ConnectionRegistry, TLAPS

\* Where a thread holds the lock of its registry, and b.mu.
RegistryPC == {"ping", "close", "open", "closeall"}
HoldsRegistry(f, reg) == f.reg = reg /\ f.pc \in RegistryPC
HoldsBackend(f) == f.op \in {"reload", "shutdown"} /\ f.pc \notin {"idle", "registry"}

\* The three parts of LockInv, one for each level of locks.
RegistryLocks == \A reg \in Registry, t \in Thread : rmu[reg] = t <=> HoldsRegistry(thr[t], reg)
BackendLock   == \A t \in Thread : bmu = t <=> HoldsBackend(thr[t])
PoolLocks     == \A p \in Pool, j \in JobThread :
                   cmu[p] = j <=> job[j].pc = "locked" /\ job[j].at = p

\* The pools and the map, as far as threads and jobs do not matter.
PoolsOK ==
  /\ conns \in [Registry -> [Name -> Pool \cup {None}]]
  /\ pool \in [Pool -> PoolState]
  /\ MapInv /\ HealthyIsOpen /\ MappedIsOpen

\* A frame: what its operation and name are at each point.
ShapeOK(f) ==
  /\ f.pc \notin {"idle", "registry"} => f.reg \in Registry
  /\ f.pc = "registry" /\ f.op = "update" => f.name \in Name
  /\ f.pc \in {"add", "ping", "lock", "close", "open"} => f.name \in Name
  /\ f.pc \in {"lock", "close", "open"} => f.op = "update"
  /\ f.pc \in {"list", "get", "read"} => f.op = "stats"
  /\ f.pc \in {"cancel", "await", "closeall"} => f.op \in {"reload", "shutdown"}
  /\ f.pc \in {"load", "add", "ping", "warm"} => f.op \in {"setup", "reload"}

\* A registry nobody has made yet.
Future(reg) == reg # current /\ \A j \in Job : job[<<reg, j>>].pc = "off"

\* A shutdown works on the registry in use, and closes pools when its jobs have ended.
ShutdownOK(f) ==
  /\ f.pc \in {"cancel", "await", "closeall"} => f.reg = current
  /\ f.pc = "closeall" => \A j \in Job : job[<<f.reg, j>>].pc = "stopped"

\* What a thread found in the map is still so while it holds the lock.
FoundOK(f) ==
  /\ f.pc \in {"ping", "open"} => conns[f.reg][f.name] = None
  /\ f.pc = "close" => conns[f.reg][f.name] \in Pool

FrameOK(f) ==
  /\ f \in Frame /\ ShapeOK(f) /\ ShutdownOK(f) /\ FoundOK(f)
  /\ f.reg \in Registry => ~Future(f.reg)

FramesOK == \A t \in Thread : FrameOK(thr[t])
FutureEmpty == \A reg \in Registry : Future(reg) => \A n \in Name : conns[reg][n] = None

\* A job that was not started stays where it was made.
JobsOK == \A j \in JobThread : job[j].pc # "off" => j[2] \in StartedJobs

\* The types of what PoolsOK does not speak of.
Types ==
  /\ serving \in BOOLEAN
  /\ bmu \in Thread \cup {None}
  /\ current \in Registry
  /\ rmu \in [Registry -> Thread \cup {None}]
  /\ cmu \in [Pool -> JobThread \cup {None}]
  /\ job \in [JobThread -> JobState]
  /\ thr \in [Thread -> Frame]

\* The inductive invariant.
IInv ==
  /\ Types /\ RegistryLocks /\ BackendLock /\ PoolLocks
  /\ PoolsOK /\ FramesOK /\ FutureEmpty /\ JobsOK

\* None is nobody's name.
LEMMA NoneIsNobody ==
  /\ \A t \in Thread : t # None
  /\ \A j \in JobThread : j # None
  /\ \A p \in Pool : p # None
  /\ \A reg \in Registry : reg # None
  /\ \A n \in Name : n # None
BY RegistryAssumption DEF Thread, JobThread

\* A thread moves to frame g and takes or gives up the lock of a registry as g says.
LEMMA RegistryLockMoves ==
  ASSUME IInv, NEW t \in Thread, NEW g \in Frame, thr' = [thr EXCEPT ![t] = g],
         rmu' = [reg \in Registry |-> IF HoldsRegistry(g, reg) THEN t
                                      ELSE IF HoldsRegistry(thr[t], reg) THEN None ELSE rmu[reg]],
         \A reg \in Registry : HoldsRegistry(g, reg) => rmu[reg] \in {None, t}
  PROVE  /\ RegistryLocks'
         /\ rmu' \in [Registry -> Thread \cup {None}]
         /\ thr' \in [Thread -> Frame]
<1>1. /\ rmu \in [Registry -> Thread \cup {None}] /\ thr \in [Thread -> Frame] /\ RegistryLocks
  BY DEF IInv, Types
<1>2. \A u \in Thread : thr'[u] = IF u = t THEN g ELSE thr[u]
  BY <1>1
<1>3. RegistryLocks'
  <2> SUFFICES ASSUME NEW reg \in Registry, NEW u \in Thread
               PROVE  rmu'[reg] = u <=> HoldsRegistry(thr'[u], reg)
    BY DEF RegistryLocks, HoldsRegistry
  <2>1. rmu[reg] = u <=> HoldsRegistry(thr[u], reg)
    BY <1>1 DEF RegistryLocks
  <2>2. rmu[reg] = t <=> HoldsRegistry(thr[t], reg)
    BY <1>1 DEF RegistryLocks
  <2> QED
    BY <1>2, <2>1, <2>2, NoneIsNobody
<1> QED
  BY <1>1, <1>3

\* The same of b.mu.
LEMMA BackendLockMoves ==
  ASSUME IInv, NEW t \in Thread, NEW g \in Frame, thr' = [thr EXCEPT ![t] = g],
         bmu' = IF HoldsBackend(g) THEN t ELSE IF bmu = t THEN None ELSE bmu,
         HoldsBackend(g) => bmu \in {None, t}
  PROVE  BackendLock' /\ bmu' \in Thread \cup {None}
<1>1. bmu \in Thread \cup {None} /\ thr \in [Thread -> Frame] /\ BackendLock
  BY DEF IInv, Types
<1>2. \A u \in Thread : thr'[u] = IF u = t THEN g ELSE thr[u]
  BY <1>1
<1>3. BackendLock'
  <2> SUFFICES ASSUME NEW u \in Thread
               PROVE  bmu' = u <=> HoldsBackend(thr'[u])
    BY DEF BackendLock, HoldsBackend
  <2>1. bmu = u <=> HoldsBackend(thr[u])
    BY <1>1 DEF BackendLock
  <2> QED
    BY <1>2, <2>1, NoneIsNobody
<1> QED
  BY <1>1, <1>3

\* One holder for the lock of a registry.
LEMMA OneHolder ==
  ASSUME IInv, NEW t \in Thread, NEW u \in Thread, NEW reg \in Registry,
         HoldsRegistry(thr[t], reg), HoldsRegistry(thr[u], reg)
  PROVE  t = u
BY DEF IInv, RegistryLocks

\* A step of one thread that leaves the registries, their map and their jobs alone.
LEMMA ThreadMoves ==
  ASSUME IInv, NEW t \in Thread, NEW g, thr' = [thr EXCEPT ![t] = g], FrameOK(g),
         serving' \in BOOLEAN, UNCHANGED <<current, conns, pool, cmu, job>>,
         rmu' = [reg \in Registry |-> IF HoldsRegistry(g, reg) THEN t
                                      ELSE IF HoldsRegistry(thr[t], reg) THEN None ELSE rmu[reg]],
         \A reg \in Registry : HoldsRegistry(g, reg) => rmu[reg] \in {None, t},
         bmu' = IF HoldsBackend(g) THEN t ELSE IF bmu = t THEN None ELSE bmu,
         HoldsBackend(g) => bmu \in {None, t}
  PROVE  IInv'
<1>1. g \in Frame
  BY DEF FrameOK
<1>2. /\ RegistryLocks' /\ BackendLock' /\ thr' \in [Thread -> Frame]
      /\ rmu' \in [Registry -> Thread \cup {None}] /\ bmu' \in Thread \cup {None}
  BY <1>1, RegistryLockMoves, BackendLockMoves
<1>3. /\ current' \in Registry /\ cmu' \in [Pool -> JobThread \cup {None}]
      /\ job' \in [JobThread -> JobState] /\ PoolLocks' /\ PoolsOK' /\ FutureEmpty' /\ JobsOK'
  <2>1. PoolLocks' /\ FutureEmpty' /\ JobsOK'
    BY DEF IInv, PoolLocks, FutureEmpty, Future, JobsOK
  <2>2. PoolsOK'
    BY DEF IInv, PoolsOK, MapInv, Mapped, HealthyIsOpen, MappedIsOpen
  <2> QED
    BY <2>1, <2>2 DEF IInv, Types
<1>4. FramesOK'
  <2>1. \A u \in Thread : thr'[u] = IF u = t THEN g ELSE thr[u]
    BY DEF IInv, Types
  <2>2. \A u \in Thread : FrameOK(thr'[u])
    BY <2>1 DEF IInv, FramesOK
  <2> QED
    BY <2>2 DEF FramesOK, FrameOK, ShapeOK, ShutdownOK, FoundOK, Future
<1> QED
  BY <1>2, <1>3, <1>4 DEF IInv, Types

\* ... and takes and gives up no lock either.
LEMMA QuietMoves ==
  ASSUME IInv, NEW t \in Thread, NEW g, thr' = [thr EXCEPT ![t] = g], FrameOK(g),
         UNCHANGED <<serving, bmu, current, rmu, conns, pool, cmu, job>>,
         \A reg \in Registry : HoldsRegistry(g, reg) <=> HoldsRegistry(thr[t], reg),
         HoldsBackend(g) <=> HoldsBackend(thr[t])
  PROVE  IInv'
<1>1. /\ rmu \in [Registry -> Thread \cup {None}] /\ bmu \in Thread \cup {None}
      /\ \A reg \in Registry : rmu[reg] = t <=> HoldsRegistry(g, reg)
      /\ bmu = t <=> HoldsBackend(g)
      /\ serving \in BOOLEAN
  BY DEF IInv, Types, RegistryLocks, BackendLock
<1>2. rmu' = [reg \in Registry |-> IF HoldsRegistry(g, reg) THEN t
                                   ELSE IF HoldsRegistry(thr[t], reg) THEN None ELSE rmu[reg]]
  <2>1. \A reg \in Registry : rmu[reg] = IF HoldsRegistry(g, reg) THEN t
                                         ELSE IF HoldsRegistry(thr[t], reg) THEN None ELSE rmu[reg]
    BY <1>1
  <2> QED
    BY <1>1, <2>1
<1>3. \A reg \in Registry : HoldsRegistry(g, reg) => rmu[reg] \in {None, t}
  BY <1>1
<1>4. bmu' = IF HoldsBackend(g) THEN t ELSE IF bmu = t THEN None ELSE bmu
  BY <1>1
<1>5. HoldsBackend(g) => bmu \in {None, t}
  BY <1>1
<1> QED
  BY <1>1, <1>2, <1>3, <1>4, <1>5, ThreadMoves

\* The frame of a thread.
LEMMA FrameIs ==
  ASSUME IInv, NEW t \in Thread
  PROVE  /\ thr[t] \in Frame /\ ShapeOK(thr[t]) /\ ShutdownOK(thr[t]) /\ FoundOK(thr[t])
         /\ thr[t].reg \in Registry => ~Future(thr[t].reg)
         /\ conns \in [Registry -> [Name -> Pool \cup {None}]] /\ current \in Registry
BY DEF IInv, Types, FramesOK, FrameOK, PoolsOK

LEMMA IdleOK == FrameOK(Idle) /\ ~HoldsBackend(Idle) /\ \A reg \in Registry : ~HoldsRegistry(Idle, reg)
BY NoneIsNobody DEF FrameOK, Idle, Frame, PC, ShapeOK, ShutdownOK, FoundOK, HoldsBackend, HoldsRegistry, RegistryPC

\* The threads that read: setup and reload between two connections, and statistics.
LEMMA QuietSteps ==
  ASSUME IInv, NEW t \in Thread,
         \/ LoadNext(t) \/ WaitForWarmup(t) \/ ReadRegistry(t)
         \/ ListConnections(t) \/ GetConnection(t) \/ ReadStats(t) \/ StatsDone(t)
  PROVE  IInv'
<1> DEFINE f == thr[t]
<1>0. /\ f \in Frame /\ ShapeOK(f) /\ ShutdownOK(f) /\ FoundOK(f)
      /\ f.reg \in Registry => ~Future(f.reg)
      /\ conns \in [Registry -> [Name -> Pool \cup {None}]] /\ current \in Registry
      /\ StoredConfigs \subseteq Name
  BY FrameIs, RegistryAssumption
<1>1. ASSUME NEW n \in Name, NEW rest \in SUBSET Name, f.pc = "load"
      PROVE  LET g == [[f EXCEPT !.todo = rest] EXCEPT !.pc = "add", !.name = n]
             IN  /\ FrameOK(g)
                 /\ \A reg \in Registry : HoldsRegistry(g, reg) <=> HoldsRegistry(f, reg)
                 /\ HoldsBackend(g) <=> HoldsBackend(f)
  BY <1>0, <1>1 DEF FrameOK, Frame, PC, ShapeOK, ShutdownOK, FoundOK, HoldsRegistry, HoldsBackend, RegistryPC
<1>2. CASE LoadNext(t)
  <2>1. PICK n \in f.todo :
          thr' = [thr EXCEPT ![t] = [[f EXCEPT !.todo = @ \ {n}] EXCEPT !.pc = "add", !.name = n]]
    BY <1>2 DEF LoadNext
  <2>2. n \in Name /\ f.todo \ {n} \in SUBSET Name
    BY <1>0, <2>1 DEF Frame
  <2> HIDE DEF f
  <2> QED
    BY <1>1, <1>2, <2>1, <2>2, QuietMoves DEF LoadNext, f
<1>3. CASE WaitForWarmup(t)
  <2> DEFINE g == [f EXCEPT !.pc = "load", !.name = None, !.at = None]
  <2>1. f.pc = "warm" /\ thr' = [thr EXCEPT ![t] = g]
        /\ UNCHANGED <<serving, bmu, current, rmu, conns, pool, cmu, job>>
    BY <1>0, <1>3 DEF WaitForWarmup, Frame
  <2>2. /\ FrameOK(g)
        /\ \A reg \in Registry : HoldsRegistry(g, reg) <=> HoldsRegistry(f, reg)
        /\ HoldsBackend(g) <=> HoldsBackend(f)
    BY <1>0, <2>1 DEF FrameOK, Frame, PC, ShapeOK, ShutdownOK, FoundOK, HoldsRegistry, HoldsBackend, RegistryPC
  <2> QED
    BY <2>1, <2>2, QuietMoves
<1>4. CASE ReadRegistry(t)
  <2> DEFINE g == [f EXCEPT !.reg = current, !.pc = IF f.op = "update" THEN "lock" ELSE "list"]
  <2>1. f.pc = "registry" /\ f.op \in {"update", "stats"} /\ thr' = [thr EXCEPT ![t] = g]
        /\ UNCHANGED <<serving, bmu, current, rmu, conns, pool, cmu, job>>
    BY <1>0, <1>4 DEF ReadRegistry, Frame
  <2>2. /\ FrameOK(g)
        /\ \A reg \in Registry : HoldsRegistry(g, reg) <=> HoldsRegistry(f, reg)
        /\ HoldsBackend(g) <=> HoldsBackend(f)
    BY <1>0, <2>1 DEF FrameOK, Frame, PC, ShapeOK, ShutdownOK, FoundOK, HoldsRegistry, HoldsBackend,
                      RegistryPC, Future
  <2> QED
    BY <2>1, <2>2, QuietMoves
<1>5. CASE ListConnections(t)
  <2> DEFINE g == [f EXCEPT !.pc = "get", !.todo = {n \in Name : conns[f.reg][n] # None}]
  <2>1. f.pc = "list" /\ thr' = [thr EXCEPT ![t] = g]
        /\ UNCHANGED <<serving, bmu, current, rmu, conns, pool, cmu, job>>
    BY <1>0, <1>5 DEF ListConnections, Frame
  <2>2. /\ FrameOK(g)
        /\ \A reg \in Registry : HoldsRegistry(g, reg) <=> HoldsRegistry(f, reg)
        /\ HoldsBackend(g) <=> HoldsBackend(f)
    BY <1>0, <2>1 DEF FrameOK, Frame, PC, ShapeOK, ShutdownOK, FoundOK, HoldsRegistry, HoldsBackend, RegistryPC
  <2> QED
    BY <2>1, <2>2, QuietMoves
<1>6. CASE GetConnection(t)
  <2>1. PICK n \in f.todo :
          thr' = [thr EXCEPT ![t] =
                   [f EXCEPT !.todo = @ \ {n}, !.at = conns[f.reg][n],
                             !.pc = IF conns[f.reg][n] = None THEN "get" ELSE "read"]]
    BY <1>6 DEF GetConnection
  <2> DEFINE g == [f EXCEPT !.todo = @ \ {n}, !.at = conns[f.reg][n],
                            !.pc = IF conns[f.reg][n] = None THEN "get" ELSE "read"]
  <2>2. f.pc = "get" /\ n \in Name /\ f.reg \in Registry /\ conns[f.reg][n] \in Pool \cup {None}
        /\ UNCHANGED <<serving, bmu, current, rmu, conns, pool, cmu, job>>
    <3>1. f.pc = "get" /\ UNCHANGED <<serving, bmu, current, rmu, conns, pool, cmu, job>>
      BY <1>6 DEF GetConnection
    <3>2. f.todo \subseteq Name
      BY <1>0 DEF Frame
    <3>3. f.reg \in Registry
      BY <1>0, <3>1 DEF ShapeOK
    <3> QED
      BY <1>0, <2>1, <3>1, <3>2, <3>3
  <2>3. g \in Frame /\ g.op = f.op /\ g.reg = f.reg /\ g.name = f.name /\ g.pc \in {"get", "read"}
    BY <1>0, <2>2 DEF Frame, PC
  <2> HIDE DEF g
  <2>4. /\ FrameOK(g)
        /\ \A reg \in Registry : HoldsRegistry(g, reg) <=> HoldsRegistry(f, reg)
        /\ HoldsBackend(g) <=> HoldsBackend(f)
    BY <1>0, <2>2, <2>3 DEF FrameOK, ShapeOK, ShutdownOK, FoundOK, HoldsRegistry, HoldsBackend, RegistryPC
  <2>5. thr' = [thr EXCEPT ![t] = g]
    BY <2>1 DEF g
  <2> QED
    BY <2>2, <2>4, <2>5, QuietMoves
<1>7. CASE ReadStats(t)
  <2> DEFINE g == [f EXCEPT !.pc = "get", !.at = None]
  <2>1. f.pc = "read" /\ thr' = [thr EXCEPT ![t] = g]
        /\ UNCHANGED <<serving, bmu, current, rmu, conns, pool, cmu, job>>
    BY <1>0, <1>7 DEF ReadStats, Frame
  <2>2. /\ FrameOK(g)
        /\ \A reg \in Registry : HoldsRegistry(g, reg) <=> HoldsRegistry(f, reg)
        /\ HoldsBackend(g) <=> HoldsBackend(f)
    BY <1>0, <2>1 DEF FrameOK, Frame, PC, ShapeOK, ShutdownOK, FoundOK, HoldsRegistry, HoldsBackend, RegistryPC
  <2> QED
    BY <2>1, <2>2, QuietMoves
<1>8. CASE StatsDone(t)
  <2>1. f.pc = "get" /\ thr' = [thr EXCEPT ![t] = Idle]
        /\ UNCHANGED <<serving, bmu, current, rmu, conns, pool, cmu, job>>
    BY <1>8 DEF StatsDone, Return
  <2>2. f.op = "stats"
    BY <1>0, <2>1 DEF ShapeOK
  <2>3. ~HoldsBackend(f) /\ \A reg \in Registry : ~HoldsRegistry(f, reg)
    BY <2>1, <2>2 DEF HoldsRegistry, HoldsBackend, RegistryPC
  <2> QED
    BY <2>1, <2>3, IdleOK, QuietMoves
<1> QED
  BY <1>2, <1>3, <1>4, <1>5, <1>6, <1>7, <1>8

LEMMA StartStep ==
  ASSUME IInv, NEW t \in Request, NEW op \in Operations, NEW n \in Name, Start(t, op, n)
  PROVE  IInv'
<1> DEFINE g == [Idle EXCEPT !.op = op, !.pc = "registry", !.name = IF op = "update" THEN n ELSE None]
<1>1. t \in Thread /\ thr[t].pc = "idle" /\ thr' = [thr EXCEPT ![t] = g]
      /\ UNCHANGED <<serving, bmu, current, rmu, conns, pool, cmu, job>>
  BY DEF Start, Thread
<1>2. /\ FrameOK(g)
      /\ \A reg \in Registry : HoldsRegistry(g, reg) <=> HoldsRegistry(thr[t], reg)
      /\ HoldsBackend(g) <=> HoldsBackend(thr[t])
  BY <1>1, NoneIsNobody DEF FrameOK, Frame, PC, Idle, ShapeOK, ShutdownOK, FoundOK, HoldsRegistry,
                            HoldsBackend, RegistryPC
<1> QED
  BY <1>1, <1>2, QuietMoves

-----------------------------------------------------------------------------
(* What becomes of the lock of a registry, and of b.mu, as the lemmas above ask for it *)

LEMMA Kept ==
  ASSUME IInv, NEW t \in Thread, NEW g,
         \A reg \in Registry : HoldsRegistry(g, reg) <=> HoldsRegistry(thr[t], reg)
  PROVE  /\ rmu = [reg \in Registry |-> IF HoldsRegistry(g, reg) THEN t
                                        ELSE IF HoldsRegistry(thr[t], reg) THEN None ELSE rmu[reg]]
         /\ \A reg \in Registry : HoldsRegistry(g, reg) => rmu[reg] \in {None, t}
<1>1. /\ rmu \in [Registry -> Thread \cup {None}]
      /\ \A reg \in Registry : rmu[reg] = t <=> HoldsRegistry(g, reg)
  BY DEF IInv, Types, RegistryLocks
<1>2. \A reg \in Registry : rmu[reg] = IF HoldsRegistry(g, reg) THEN t
                                       ELSE IF HoldsRegistry(thr[t], reg) THEN None ELSE rmu[reg]
  BY <1>1
<1> QED
  BY <1>1, <1>2

LEMMA Taken ==
  ASSUME IInv, NEW t \in Thread, NEW g, NEW x \in Registry, rmu[x] = None,
         g.reg = x, g.pc \in RegistryPC, thr[t].pc \notin RegistryPC
  PROVE  /\ [rmu EXCEPT ![x] = t] =
              [reg \in Registry |-> IF HoldsRegistry(g, reg) THEN t
                                    ELSE IF HoldsRegistry(thr[t], reg) THEN None ELSE rmu[reg]]
         /\ \A reg \in Registry : HoldsRegistry(g, reg) => rmu[reg] \in {None, t}
<1>1. rmu \in [Registry -> Thread \cup {None}]
  BY DEF IInv, Types
<1>2. \A reg \in Registry : /\ HoldsRegistry(g, reg) <=> reg = x
                            /\ ~HoldsRegistry(thr[t], reg)
  BY DEF HoldsRegistry
<1> QED
  BY <1>1, <1>2

LEMMA Released ==
  ASSUME IInv, NEW t \in Thread, NEW g, NEW x \in Registry,
         rmu' = [rmu EXCEPT ![x] = None], thr[t].reg = x, thr[t].pc \in RegistryPC, g.pc \notin RegistryPC
  PROVE  /\ rmu' =
              [reg \in Registry |-> IF HoldsRegistry(g, reg) THEN t
                                    ELSE IF HoldsRegistry(thr[t], reg) THEN None ELSE rmu[reg]]
         /\ \A reg \in Registry : HoldsRegistry(g, reg) => rmu[reg] \in {None, t}
<1>1. rmu \in [Registry -> Thread \cup {None}]
  BY DEF IInv, Types
<1>2. \A reg \in Registry : /\ ~HoldsRegistry(g, reg)
                            /\ HoldsRegistry(thr[t], reg) <=> reg = x
  BY DEF HoldsRegistry
<1> QED
  BY <1>1, <1>2

LEMMA BackendKept ==
  ASSUME IInv, NEW t \in Thread, NEW g, HoldsBackend(g) <=> HoldsBackend(thr[t])
  PROVE  /\ bmu = IF HoldsBackend(g) THEN t ELSE IF bmu = t THEN None ELSE bmu
         /\ HoldsBackend(g) => bmu \in {None, t}
BY DEF IInv, BackendLock

\* A step that only takes the lock of a registry, and one that only gives it up.
LEMMA TakesRegistry ==
  ASSUME IInv, NEW t \in Thread, NEW g, NEW x \in Registry, thr' = [thr EXCEPT ![t] = g], FrameOK(g),
         UNCHANGED <<serving, bmu, current, conns, pool, cmu, job>>,
         rmu' = [rmu EXCEPT ![x] = t], rmu[x] = None,
         g.reg = x, g.pc \in RegistryPC, thr[t].pc \notin RegistryPC,
         HoldsBackend(g) <=> HoldsBackend(thr[t])
  PROVE  IInv'
<1>1. serving' \in BOOLEAN
  BY DEF IInv, Types
<1> QED
  BY <1>1, Taken, BackendKept, ThreadMoves

LEMMA ReleasesRegistry ==
  ASSUME IInv, NEW t \in Thread, NEW g, NEW x \in Registry, thr' = [thr EXCEPT ![t] = g], FrameOK(g),
         UNCHANGED <<serving, bmu, current, conns, pool, cmu, job>>,
         rmu' = [rmu EXCEPT ![x] = None],
         thr[t].reg = x, thr[t].pc \in RegistryPC, g.pc \notin RegistryPC,
         HoldsBackend(g) <=> HoldsBackend(thr[t])
  PROVE  IInv'
<1>1. serving' \in BOOLEAN
  BY DEF IInv, Types
<1>2. /\ rmu' = [reg \in Registry |-> IF HoldsRegistry(g, reg) THEN t
                                     ELSE IF HoldsRegistry(thr[t], reg) THEN None ELSE rmu[reg]]
      /\ \A reg \in Registry : HoldsRegistry(g, reg) => rmu[reg] \in {None, t}
  BY Released
<1>3. /\ bmu' = IF HoldsBackend(g) THEN t ELSE IF bmu = t THEN None ELSE bmu
      /\ HoldsBackend(g) => bmu \in {None, t}
  BY BackendKept
<1> QED
  BY <1>1, <1>2, <1>3, ThreadMoves

-----------------------------------------------------------------------------
(* The steps that take a lock, or give one up, and leave the map alone *)

LEMMA LoadDoneStep ==
  ASSUME IInv, NEW t \in Thread, LoadDone(t)
  PROVE  IInv'
<1>1. /\ thr[t].pc = "load" /\ thr' = [thr EXCEPT ![t] = Idle] /\ serving' \in BOOLEAN
      /\ UNCHANGED <<current, rmu, conns, pool, cmu, job>>
      /\ bmu' = IF bmu = t THEN None ELSE bmu
  BY DEF LoadDone, Return
<1>2. \A reg \in Registry : HoldsRegistry(Idle, reg) <=> HoldsRegistry(thr[t], reg)
  BY <1>1, IdleOK DEF HoldsRegistry, RegistryPC
<1> QED
  BY <1>1, <1>2, IdleOK, Kept, ThreadMoves

LEMMA AddLockStep ==
  ASSUME IInv, NEW t \in Thread, AddLock(t)
  PROVE  IInv'
<1>0. /\ thr[t] \in Frame /\ ShapeOK(thr[t]) /\ ShutdownOK(thr[t])
      /\ thr[t].reg \in Registry => ~Future(thr[t].reg)
      /\ conns \in [Registry -> [Name -> Pool \cup {None}]]
  BY FrameIs
<1>1. thr[t].pc = "add" /\ rmu[thr[t].reg] = None
      /\ UNCHANGED <<serving, bmu, current, conns, pool, cmu, job>>
  BY DEF AddLock
<1>2. thr[t].reg \in Registry /\ thr[t].name \in Name
  BY <1>0, <1>1 DEF ShapeOK
<1>3. ASSUME NEW p \in Pool \cup {None}, p = conns[thr[t].reg][thr[t].name], p # None,
             thr' = [thr EXCEPT ![t].pc = "warm", ![t].at = p], rmu' = rmu
      PROVE  IInv'
  <2> DEFINE g == [thr[t] EXCEPT !.pc = "warm", !.at = p]
  <2>1. thr' = [thr EXCEPT ![t] = g]
    BY <1>0, <1>3 DEF Frame, IInv, Types
  <2>2. /\ FrameOK(g)
        /\ \A reg \in Registry : HoldsRegistry(g, reg) <=> HoldsRegistry(thr[t], reg)
        /\ HoldsBackend(g) <=> HoldsBackend(thr[t])
    BY <1>0, <1>1, <1>2
       DEF FrameOK, Frame, PC, ShapeOK, ShutdownOK, FoundOK, HoldsRegistry, HoldsBackend, RegistryPC
  <2> HIDE DEF g
  <2> QED
    BY <1>1, <1>3, <2>1, <2>2, QuietMoves
<1>4. ASSUME conns[thr[t].reg][thr[t].name] = None, Goto(t, "ping"), rmu' = [rmu EXCEPT ![thr[t].reg] = t]
      PROVE  IInv'
  <2> DEFINE g == [thr[t] EXCEPT !.pc = "ping"]
  <2>1. thr' = [thr EXCEPT ![t] = g]
    BY <1>4 DEF Goto
  <2>2. /\ FrameOK(g) /\ (HoldsBackend(g) <=> HoldsBackend(thr[t]))
        /\ g.reg = thr[t].reg /\ g.pc \in RegistryPC /\ thr[t].pc \notin RegistryPC
    BY <1>0, <1>1, <1>2, <1>4 DEF FrameOK, Frame, PC, ShapeOK, ShutdownOK, FoundOK, HoldsBackend, RegistryPC
  <2> HIDE DEF g
  <2> QED
    BY <1>1, <1>2, <1>4, <2>1, <2>2, TakesRegistry
<1>5. conns[thr[t].reg][thr[t].name] \in Pool \cup {None}
  BY <1>0, <1>2
<1> QED
  BY <1>3, <1>4, <1>5 DEF AddLock

\* The ping of AddConnection, or the open of UpdateConnection, failed.
LEMMA AddFailsStep ==
  ASSUME IInv, NEW t \in Thread, thr[t].pc = "ping", rmu' = [rmu EXCEPT ![thr[t].reg] = None],
         thr' = [thr EXCEPT ![t].pc = "load", ![t].name = None],
         UNCHANGED <<serving, bmu, current, conns, pool, cmu, job>>
  PROVE  IInv'
<1> DEFINE g == [thr[t] EXCEPT !.pc = "load", !.name = None]
<1>0. /\ thr[t] \in Frame /\ ShapeOK(thr[t]) /\ ShutdownOK(thr[t])
      /\ thr[t].reg \in Registry => ~Future(thr[t].reg)
  BY FrameIs
<1>1. thr' = [thr EXCEPT ![t] = g]
  BY <1>0 DEF Frame, IInv, Types
<1>2. /\ FrameOK(g) /\ (HoldsBackend(g) <=> HoldsBackend(thr[t])) /\ thr[t].reg \in Registry
      /\ g.pc \notin RegistryPC /\ thr[t].pc \in RegistryPC
  BY <1>0 DEF FrameOK, Frame, PC, ShapeOK, ShutdownOK, FoundOK, HoldsBackend, RegistryPC
<1> HIDE DEF g
<1> QED
  BY <1>1, <1>2, ReleasesRegistry

LEMMA UpdateFailsStep ==
  ASSUME IInv, NEW t \in Thread, thr[t].pc = "open", rmu' = [rmu EXCEPT ![thr[t].reg] = None],
         thr' = [thr EXCEPT ![t] = Idle],
         UNCHANGED <<serving, bmu, current, conns, pool, cmu, job>>
  PROVE  IInv'
<1>1. thr[t].reg \in Registry /\ thr[t].pc \in RegistryPC /\ ~HoldsBackend(thr[t])
  BY FrameIs DEF ShapeOK, RegistryPC, HoldsBackend
<1>2. Idle.pc \notin RegistryPC
  BY DEF Idle, RegistryPC
<1> QED
  BY <1>1, <1>2, IdleOK, ReleasesRegistry

LEMMA UpdateLockStep ==
  ASSUME IInv, NEW t \in Thread, UpdateLock(t)
  PROVE  IInv'
<1> DEFINE g == [thr[t] EXCEPT !.pc = IF conns[thr[t].reg][thr[t].name] = None THEN "open" ELSE "close"]
<1>0. /\ thr[t] \in Frame /\ ShapeOK(thr[t]) /\ ShutdownOK(thr[t])
      /\ thr[t].reg \in Registry => ~Future(thr[t].reg)
      /\ conns \in [Registry -> [Name -> Pool \cup {None}]]
  BY FrameIs
<1>1. thr[t].pc = "lock" /\ rmu[thr[t].reg] = None /\ rmu' = [rmu EXCEPT ![thr[t].reg] = t]
      /\ thr' = [thr EXCEPT ![t] = g] /\ UNCHANGED <<serving, bmu, current, conns, pool, cmu, job>>
  BY DEF UpdateLock, Goto
<1>2. thr[t].reg \in Registry /\ thr[t].name \in Name /\ thr[t].op = "update"
  BY <1>0, <1>1 DEF ShapeOK
<1>3. conns[thr[t].reg][thr[t].name] \in Pool \cup {None}
  BY <1>0, <1>2
<1>4. /\ g \in Frame /\ g.op = "update" /\ g.reg = thr[t].reg /\ g.name = thr[t].name
      /\ g.pc = IF conns[thr[t].reg][thr[t].name] = None THEN "open" ELSE "close"
  BY <1>0, <1>2 DEF Frame, PC
<1> HIDE DEF g
<1>5. FrameOK(g)
  BY <1>0, <1>2, <1>3, <1>4 DEF FrameOK, ShapeOK, ShutdownOK, FoundOK
<1>6. /\ HoldsBackend(g) <=> HoldsBackend(thr[t])
      /\ g.pc \in RegistryPC /\ thr[t].pc \notin RegistryPC
  BY <1>1, <1>2, <1>4 DEF HoldsBackend, RegistryPC
<1> QED
  BY <1>1, <1>2, <1>4, <1>5, <1>6, TakesRegistry

LEMMA ReloadLockStep ==
  ASSUME IInv, NEW t \in Thread, ReloadLock(t)
  PROVE  IInv'
<1> DEFINE g == [thr[t] EXCEPT !.pc = "cancel", !.reg = current]
<1>0. /\ thr[t] \in Frame /\ ShapeOK(thr[t]) /\ current \in Registry
  BY FrameIs
<1>1. thr[t].pc = "registry" /\ thr[t].op \in {"reload", "shutdown"} /\ bmu = None /\ bmu' = t
      /\ UNCHANGED <<serving, current, rmu, conns, pool, cmu, job>>
  BY DEF ReloadLock
<1>2. thr' = [thr EXCEPT ![t] = g]
  BY <1>0 DEF ReloadLock, Frame, IInv, Types
<1>3. /\ FrameOK(g) /\ HoldsBackend(g)
      /\ \A reg \in Registry : HoldsRegistry(g, reg) <=> HoldsRegistry(thr[t], reg)
  BY <1>0, <1>1 DEF FrameOK, Frame, PC, ShapeOK, ShutdownOK, FoundOK, HoldsRegistry, HoldsBackend,
                    RegistryPC, Future
<1> HIDE DEF g
<1>4. serving' \in BOOLEAN
  BY <1>1 DEF IInv, Types
<1> QED
  BY <1>1, <1>2, <1>3, <1>4, Kept, ThreadMoves

LEMMA ShutdownAwaitStep ==
  ASSUME IInv, NEW t \in Thread, ShutdownAwait(t)
  PROVE  IInv'
<1> DEFINE g == [thr[t] EXCEPT !.pc = "closeall"]
<1>0. /\ thr[t] \in Frame /\ ShapeOK(thr[t]) /\ ShutdownOK(thr[t])
      /\ thr[t].reg \in Registry => ~Future(thr[t].reg)
  BY FrameIs
<1>1. /\ thr[t].pc = "await" /\ \A j \in Job : job[<<thr[t].reg, j>>].pc = "stopped"
      /\ rmu[thr[t].reg] = None /\ rmu' = [rmu EXCEPT ![thr[t].reg] = t]
      /\ thr' = [thr EXCEPT ![t] = g] /\ UNCHANGED <<serving, bmu, current, conns, pool, cmu, job>>
  BY DEF ShutdownAwait, Goto
<1>2. /\ FrameOK(g) /\ (HoldsBackend(g) <=> HoldsBackend(thr[t])) /\ thr[t].reg \in Registry
      /\ g.reg = thr[t].reg /\ g.pc \in RegistryPC /\ thr[t].pc \notin RegistryPC
  BY <1>0, <1>1 DEF FrameOK, Frame, PC, ShapeOK, ShutdownOK, FoundOK, HoldsBackend, RegistryPC
<1> HIDE DEF g
<1> QED
  BY <1>1, <1>2, TakesRegistry

\* The end of a shutdown: both locks are given up.
LEMMA ShutdownEndsStep ==
  ASSUME IInv, NEW t \in Thread, thr[t].pc = "closeall", serving' = FALSE, bmu' = None,
         rmu' = [rmu EXCEPT ![thr[t].reg] = None], thr' = [thr EXCEPT ![t] = Idle],
         UNCHANGED <<current, conns, pool, cmu, job>>
  PROVE  IInv'
<1>1. thr[t].reg \in Registry /\ thr[t].pc \in RegistryPC /\ HoldsBackend(thr[t])
  BY FrameIs DEF ShapeOK, RegistryPC, HoldsBackend
<1>2. Idle.pc \notin RegistryPC /\ serving' \in BOOLEAN
  BY DEF Idle, RegistryPC
<1>3. bmu = t
  BY <1>1 DEF IInv, BackendLock
<1>4. /\ rmu' = [reg \in Registry |-> IF HoldsRegistry(Idle, reg) THEN t
                                     ELSE IF HoldsRegistry(thr[t], reg) THEN None ELSE rmu[reg]]
      /\ \A reg \in Registry : HoldsRegistry(Idle, reg) => rmu[reg] \in {None, t}
  BY <1>1, <1>2, Released
<1>5. /\ bmu' = IF HoldsBackend(Idle) THEN t ELSE IF bmu = t THEN None ELSE bmu
      /\ HoldsBackend(Idle) => bmu \in {None, t}
  BY <1>3, IdleOK
<1> QED
  BY <1>2, <1>4, <1>5, IdleOK, ThreadMoves

-----------------------------------------------------------------------------
(* The pools and the map *)

\* A pool is made and enters the map under one name of one registry.
LEMMA PoolAdded ==
  ASSUME PoolsOK, NEW reg \in Registry, NEW n \in Name, NEW p \in Pool, ~pool[p].made,
         pool' = [pool EXCEPT ![p] = NewPool(n)],
         conns' = [conns EXCEPT ![reg][n] = p]
  PROVE  PoolsOK'
<1>1. /\ conns \in [Registry -> [Name -> Pool \cup {None}]] /\ pool \in [Pool -> PoolState]
      /\ MapInv /\ HealthyIsOpen /\ MappedIsOpen
  BY DEF PoolsOK
<1>2. NewPool(n) \in PoolState /\ NewPool(n).made /\ NewPool(n).open
  BY RegistryAssumption DEF NewPool, PoolState
<1>3. pool' \in [Pool -> PoolState] /\ \A q \in Pool : pool'[q] = IF q = p THEN NewPool(n) ELSE pool[q]
  BY <1>1, <1>2
<1>4. /\ conns' \in [Registry -> [Name -> Pool \cup {None}]]
      /\ \A x \in Registry, m \in Name :
           conns'[x][m] = IF x = reg /\ m = n THEN p ELSE conns[x][m]
  BY <1>1
<1>5. \A x \in Registry, m \in Name : conns[x][m] # None => pool[conns[x][m]].made /\ conns[x][m] # p
  BY <1>1 DEF MapInv, Mapped
<1>6. MapInv'
  <2>1. \A x \in Registry, m \in Name : conns'[x][m] # None => pool'[conns'[x][m]].made
    <3> SUFFICES ASSUME NEW x \in Registry, NEW m \in Name, conns'[x][m] # None
                 PROVE  pool'[conns'[x][m]].made
      OBVIOUS
    <3>1. conns'[x][m] \in Pool
      BY <1>4
    <3> QED
      BY <3>1, <1>2, <1>3, <1>4, <1>5
  <2>2. \A x, y \in Registry, l, m \in Name :
          conns'[x][l] = conns'[y][m] /\ conns'[x][l] # None => x = y /\ l = m
    BY <1>1, <1>4, <1>5 DEF MapInv
  <2>3. \A q \in Pool : pool'[q].open => pool'[q].made
    BY <1>1, <1>2, <1>3 DEF MapInv
  <2> QED
    BY <2>1, <2>2, <2>3 DEF MapInv, Mapped
<1>7. HealthyIsOpen'
  BY <1>1, <1>2, <1>3 DEF HealthyIsOpen
<1>8. MappedIsOpen'
  <2> SUFFICES ASSUME "cleanup" \notin StartedJobs, NEW x \in Registry, NEW m \in Name, conns'[x][m] # None
               PROVE  pool'[conns'[x][m]].open
    BY DEF MappedIsOpen, Mapped
  <2>1. conns'[x][m] \in Pool
    BY <1>4
  <2>2. conns[x][m] # None => pool[conns[x][m]].open
    BY <1>1 DEF MappedIsOpen, Mapped
  <2> QED
    BY <2>1, <2>2, <1>2, <1>3, <1>4
<1> QED
  BY <1>3, <1>4, <1>6, <1>7, <1>8 DEF PoolsOK

\* A pool is closed and leaves the map.
LEMMA PoolRemoved ==
  ASSUME PoolsOK, NEW reg \in Registry, NEW n \in Name, conns[reg][n] \in Pool,
         ClosePool(conns[reg][n]), conns' = [conns EXCEPT ![reg][n] = None]
  PROVE  PoolsOK'
<1> DEFINE p == conns[reg][n]
<1>1. /\ conns \in [Registry -> [Name -> Pool \cup {None}]] /\ pool \in [Pool -> PoolState]
      /\ MapInv /\ HealthyIsOpen /\ MappedIsOpen
  BY DEF PoolsOK
<1>2. /\ pool' \in [Pool -> PoolState]
      /\ \A q \in Pool : pool'[q] = IF q = p THEN [pool[q] EXCEPT !.open = FALSE, !.state = "closed"]
                                    ELSE pool[q]
  BY <1>1 DEF ClosePool, PoolState
<1>3. \A q \in Pool : /\ pool'[q].made = pool[q].made
                      /\ q = p => ~pool'[q].open /\ pool'[q].state # "healthy"
                      /\ q # p => pool'[q] = pool[q]
  BY <1>1, <1>2 DEF PoolState
<1>4. /\ conns' \in [Registry -> [Name -> Pool \cup {None}]]
      /\ \A x \in Registry, m \in Name :
           conns'[x][m] = IF x = reg /\ m = n THEN None ELSE conns[x][m]
  BY <1>1
<1>5. \A x \in Registry, m \in Name :
        conns'[x][m] # None => /\ conns'[x][m] = conns[x][m] /\ conns[x][m] \in Pool
                               /\ conns[x][m] # p
  BY <1>1, <1>4, NoneIsNobody DEF MapInv
<1> HIDE DEF p
<1>6. MapInv'
  <2>1. \A x \in Registry, m \in Name : conns'[x][m] # None => pool'[conns'[x][m]].made
    BY <1>1, <1>3, <1>5 DEF MapInv, Mapped
  <2>2. \A x, y \in Registry, l, m \in Name :
          conns'[x][l] = conns'[y][m] /\ conns'[x][l] # None => x = y /\ l = m
    BY <1>1, <1>5 DEF MapInv
  <2>3. \A q \in Pool : pool'[q].open => pool'[q].made
    BY <1>1, <1>3 DEF MapInv
  <2> QED
    BY <2>1, <2>2, <2>3 DEF MapInv, Mapped
<1>7. HealthyIsOpen'
  BY <1>1, <1>3 DEF HealthyIsOpen
<1>8. MappedIsOpen'
  BY <1>1, <1>3, <1>5 DEF MappedIsOpen, Mapped
<1> QED
  BY <1>2, <1>4, <1>6, <1>7, <1>8 DEF PoolsOK

\* Pools change and the map does not: none is made, none is opened.
LEMMA PoolTouched ==
  ASSUME PoolsOK, conns' = conns, pool' \in [Pool -> PoolState],
         \A p \in Pool : /\ pool'[p].made = pool[p].made
                         /\ pool'[p].state = "healthy" => pool'[p].open
                         /\ pool'[p].open => pool[p].open
                         /\ "cleanup" \notin StartedJobs => pool'[p].open = pool[p].open
  PROVE  PoolsOK'
<1>1. /\ conns \in [Registry -> [Name -> Pool \cup {None}]] /\ MapInv /\ MappedIsOpen
  BY DEF PoolsOK
<1>2. \A x \in Registry, m \in Name : conns[x][m] # None => conns[x][m] \in Pool
  BY <1>1
<1>3. MapInv'
  BY <1>1, <1>2 DEF MapInv, Mapped
<1>4. HealthyIsOpen'
  BY DEF HealthyIsOpen
<1>5. MappedIsOpen'
  BY <1>1, <1>2 DEF MappedIsOpen, Mapped
<1> QED
  BY <1>1, <1>3, <1>4, <1>5 DEF PoolsOK

\* A thread that holds the lock of reg changes the map of reg, and perhaps its frame.
LEMMA MapMoves ==
  ASSUME IInv, NEW t \in Thread, NEW g, NEW reg \in Registry, HoldsRegistry(thr[t], reg), PoolsOK',
         \A x \in Registry : x # reg => conns'[x] = conns[x],
         thr' = [thr EXCEPT ![t] = g], g \in Frame, ShapeOK(g), ShutdownOK(g),
         g.reg \in Registry => ~Future(g.reg),
         g.pc \in {"ping", "open"} => conns'[g.reg][g.name] = None, g.pc # "close",
         UNCHANGED <<serving, bmu, current, cmu, job>>,
         HoldsBackend(g) <=> HoldsBackend(thr[t]),
         rmu' = [x \in Registry |-> IF HoldsRegistry(g, x) THEN t
                                    ELSE IF HoldsRegistry(thr[t], x) THEN None ELSE rmu[x]],
         \A x \in Registry : HoldsRegistry(g, x) => rmu[x] \in {None, t}
  PROVE  IInv'
<1>1. /\ RegistryLocks' /\ thr' \in [Thread -> Frame] /\ rmu' \in [Registry -> Thread \cup {None}]
  BY RegistryLockMoves
<1>2. /\ bmu' = IF HoldsBackend(g) THEN t ELSE IF bmu = t THEN None ELSE bmu
      /\ HoldsBackend(g) => bmu \in {None, t}
  BY BackendKept
<1>3. BackendLock' /\ bmu' \in Thread \cup {None}
  BY <1>2, BackendLockMoves
<1>4. Types' /\ PoolLocks' /\ JobsOK'
  BY <1>1, <1>3 DEF IInv, Types, PoolLocks, JobsOK
<1>5. \A x \in Registry : Future(x)' <=> Future(x)
  BY DEF Future
<1>6. FutureEmpty'
  <2>1. ~Future(reg)
    BY FrameIs DEF HoldsRegistry
  <2> QED
    BY <2>1, <1>5 DEF FutureEmpty, IInv
<1>7. FramesOK'
  <2> SUFFICES ASSUME NEW u \in Thread
               PROVE  FrameOK(thr[u])'
    BY DEF FramesOK
  <2>1. CASE u = t
    <3>1. thr'[u] = g
      BY <2>1 DEF IInv, Types
    <3>2. ShutdownOK(thr[u])' /\ ShapeOK(thr[u])' /\ FoundOK(thr[u])'
      BY <3>1 DEF ShutdownOK, ShapeOK, FoundOK
    <3> QED
      BY <3>1, <3>2, <1>5 DEF FrameOK
  <2>2. CASE u # t
    <3>1. thr'[u] = thr[u]
      BY <2>2 DEF IInv, Types
    <3>2. /\ thr[u] \in Frame /\ ShapeOK(thr[u]) /\ ShutdownOK(thr[u]) /\ FoundOK(thr[u])
          /\ thr[u].reg \in Registry => ~Future(thr[u].reg)
      BY FrameIs
    <3>3. ShutdownOK(thr[u])' /\ ShapeOK(thr[u])'
      BY <3>1, <3>2 DEF ShutdownOK, ShapeOK
    <3>4. FoundOK(thr[u])'
      <4>1. CASE thr[u].pc \in RegistryPC
        <5>1. thr[u].reg \in Registry /\ HoldsRegistry(thr[u], thr[u].reg)
          BY <3>2, <4>1 DEF ShapeOK, HoldsRegistry, RegistryPC
        <5>2. thr[u].reg # reg
          BY <2>2, <5>1, OneHolder
        <5> QED
          BY <3>1, <3>2, <5>1, <5>2 DEF FoundOK
      <4>2. CASE thr[u].pc \notin RegistryPC
        BY <3>1, <4>2 DEF FoundOK, RegistryPC
      <4> QED
        BY <4>1, <4>2
    <3> QED
      BY <3>1, <3>2, <3>3, <3>4, <1>5 DEF FrameOK
  <2> QED
    BY <2>1, <2>2
<1> QED
  BY <1>1, <1>3, <1>4, <1>6, <1>7 DEF IInv

LEMMA AddPingStep ==
  ASSUME IInv, NEW t \in Thread, AddPing(t)
  PROVE  IInv'
<1>0. /\ thr[t] \in Frame /\ ShapeOK(thr[t]) /\ ShutdownOK(thr[t])
      /\ thr[t].reg \in Registry => ~Future(thr[t].reg)
      /\ conns \in [Registry -> [Name -> Pool \cup {None}]]
  BY FrameIs
<1>1. thr[t].pc = "ping" /\ rmu' = [rmu EXCEPT ![thr[t].reg] = None]
      /\ UNCHANGED <<serving, bmu, current, cmu, job>>
  BY DEF AddPing
<1>2. thr[t].reg \in Registry /\ thr[t].name \in Name /\ thr[t].pc \in RegistryPC
  BY <1>0, <1>1 DEF ShapeOK, RegistryPC
<1>3. ASSUME NEW p \in Unmade, pool' = [pool EXCEPT ![p] = NewPool(thr[t].name)],
             conns' = [conns EXCEPT ![thr[t].reg][thr[t].name] = p],
             thr' = [thr EXCEPT ![t].pc = "warm", ![t].at = p]
      PROVE  IInv'
  <2> DEFINE g == [thr[t] EXCEPT !.pc = "warm", !.at = p]
  <2>1. p \in Pool /\ ~pool[p].made
    BY DEF Unmade
  <2>2. thr' = [thr EXCEPT ![t] = g]
    BY <1>0, <1>3 DEF Frame, IInv, Types
  <2>3. /\ g \in Frame /\ ShapeOK(g) /\ ShutdownOK(g) /\ (HoldsBackend(g) <=> HoldsBackend(thr[t]))
        /\ g.reg = thr[t].reg /\ g.pc = "warm"
    BY <1>0, <1>1, <2>1 DEF Frame, PC, ShapeOK, ShutdownOK, HoldsBackend
  <2> HIDE DEF g
  <2>4. PoolsOK'
    <3>1. PoolsOK
      BY DEF IInv
    <3> QED
      BY <3>1, <1>2, <1>3, <2>1, PoolAdded
  <2>5. /\ HoldsRegistry(thr[t], thr[t].reg)
        /\ \A x \in Registry : x # thr[t].reg => conns'[x] = conns[x]
    BY <1>0, <1>2, <1>3 DEF HoldsRegistry
  <2>6. /\ rmu' = [x \in Registry |-> IF HoldsRegistry(g, x) THEN t
                                      ELSE IF HoldsRegistry(thr[t], x) THEN None ELSE rmu[x]]
        /\ \A x \in Registry : HoldsRegistry(g, x) => rmu[x] \in {None, t}
    BY <1>1, <1>2, <2>3, Released DEF RegistryPC
  <2> QED
    BY <1>0, <1>1, <1>2, <2>2, <2>3, <2>4, <2>5, <2>6, MapMoves
<1>4. ASSUME UNCHANGED <<pool, conns>>, thr' = [thr EXCEPT ![t].pc = "load", ![t].name = None]
      PROVE  IInv'
  BY <1>1, <1>4, AddFailsStep
<1> QED
  BY <1>3, <1>4 DEF AddPing

LEMMA UpdateOpenStep ==
  ASSUME IInv, NEW t \in Thread, UpdateOpen(t)
  PROVE  IInv'
<1>0. /\ thr[t] \in Frame /\ ShapeOK(thr[t]) /\ ShutdownOK(thr[t])
      /\ conns \in [Registry -> [Name -> Pool \cup {None}]]
  BY FrameIs
<1>1. thr[t].pc = "open" /\ rmu' = [rmu EXCEPT ![thr[t].reg] = None] /\ thr' = [thr EXCEPT ![t] = Idle]
      /\ UNCHANGED <<serving, bmu, current, cmu, job>>
  BY DEF UpdateOpen, Return
<1>2. /\ thr[t].reg \in Registry /\ thr[t].name \in Name /\ thr[t].pc \in RegistryPC
      /\ ~HoldsBackend(thr[t])
  BY <1>0, <1>1 DEF ShapeOK, RegistryPC, HoldsBackend
<1>3. ASSUME NEW p \in Unmade, pool' = [pool EXCEPT ![p] = NewPool(thr[t].name)],
             conns' = [conns EXCEPT ![thr[t].reg][thr[t].name] = p]
      PROVE  IInv'
  <2>1. p \in Pool /\ ~pool[p].made
    BY DEF Unmade
  <2>2. /\ Idle \in Frame /\ ShapeOK(Idle) /\ ShutdownOK(Idle) /\ ~HoldsBackend(Idle)
        /\ Idle.reg \notin Registry /\ Idle.pc = "idle"
    BY IdleOK, NoneIsNobody DEF FrameOK, Idle
  <2>3. PoolsOK'
    <3>1. PoolsOK
      BY DEF IInv
    <3> QED
      BY <3>1, <1>2, <1>3, <2>1, PoolAdded
  <2>4. /\ HoldsRegistry(thr[t], thr[t].reg)
        /\ \A x \in Registry : x # thr[t].reg => conns'[x] = conns[x]
    BY <1>0, <1>2, <1>3 DEF HoldsRegistry
  <2>5. /\ rmu' = [x \in Registry |-> IF HoldsRegistry(Idle, x) THEN t
                                      ELSE IF HoldsRegistry(thr[t], x) THEN None ELSE rmu[x]]
        /\ \A x \in Registry : HoldsRegistry(Idle, x) => rmu[x] \in {None, t}
    BY <1>1, <1>2, <2>2, Released DEF RegistryPC
  <2> QED
    BY <1>1, <1>2, <2>2, <2>3, <2>4, <2>5, MapMoves
<1>4. ASSUME UNCHANGED <<pool, conns>>
      PROVE  IInv'
  BY <1>1, <1>4, UpdateFailsStep
<1> QED
  BY <1>3, <1>4 DEF UpdateOpen

LEMMA UpdateCloseStep ==
  ASSUME IInv, NEW t \in Thread, UpdateClose(t)
  PROVE  IInv'
<1> DEFINE g == [thr[t] EXCEPT !.pc = "open"]
<1>0. /\ thr[t] \in Frame /\ ShapeOK(thr[t]) /\ ShutdownOK(thr[t]) /\ FoundOK(thr[t])
      /\ thr[t].reg \in Registry => ~Future(thr[t].reg)
      /\ conns \in [Registry -> [Name -> Pool \cup {None}]]
  BY FrameIs
<1>1. thr[t].pc = "close" /\ ClosePool(conns[thr[t].reg][thr[t].name])
      /\ conns' = [conns EXCEPT ![thr[t].reg][thr[t].name] = None]
      /\ thr' = [thr EXCEPT ![t] = g] /\ UNCHANGED <<serving, bmu, current, rmu, cmu, job>>
  BY DEF UpdateClose, Goto
<1>2. /\ thr[t].reg \in Registry /\ thr[t].name \in Name /\ thr[t].op = "update"
      /\ conns[thr[t].reg][thr[t].name] \in Pool
  BY <1>0, <1>1 DEF ShapeOK, FoundOK
<1>3. /\ g \in Frame /\ ShapeOK(g) /\ ShutdownOK(g) /\ (HoldsBackend(g) <=> HoldsBackend(thr[t]))
      /\ g.reg = thr[t].reg /\ g.name = thr[t].name /\ g.pc = "open"
  BY <1>0, <1>1, <1>2 DEF Frame, PC, ShapeOK, ShutdownOK, HoldsBackend
<1> HIDE DEF g
<1>4. PoolsOK'
  <2>1. PoolsOK
    BY DEF IInv
  <2> QED
    BY <2>1, <1>1, <1>2, PoolRemoved
<1>5. /\ HoldsRegistry(thr[t], thr[t].reg)
      /\ \A x \in Registry : x # thr[t].reg => conns'[x] = conns[x]
      /\ conns'[g.reg][g.name] = None
  BY <1>0, <1>1, <1>2, <1>3 DEF HoldsRegistry, RegistryPC
<1>6. \A x \in Registry : HoldsRegistry(g, x) <=> HoldsRegistry(thr[t], x)
  BY <1>1, <1>3 DEF HoldsRegistry, RegistryPC
<1>7. /\ rmu' = [x \in Registry |-> IF HoldsRegistry(g, x) THEN t
                                    ELSE IF HoldsRegistry(thr[t], x) THEN None ELSE rmu[x]]
      /\ \A x \in Registry : HoldsRegistry(g, x) => rmu[x] \in {None, t}
  BY <1>1, <1>6, Kept
<1> QED
  BY <1>0, <1>1, <1>2, <1>3, <1>4, <1>5, <1>7, MapMoves

LEMMA ShutdownCloseStep ==
  ASSUME IInv, NEW t \in Thread, ShutdownClose(t)
  PROVE  IInv'
<1>0. /\ thr[t] \in Frame /\ ShapeOK(thr[t]) /\ ShutdownOK(thr[t])
      /\ thr[t].reg \in Registry => ~Future(thr[t].reg)
      /\ conns \in [Registry -> [Name -> Pool \cup {None}]]
  BY FrameIs
<1>1. thr[t].pc = "closeall" /\ UNCHANGED <<serving, bmu, current, rmu, cmu, job, thr>>
  BY DEF ShutdownClose
<1>2. thr[t].reg \in Registry
  BY <1>0, <1>1 DEF ShapeOK
<1>3. PICK n \in Name : /\ conns[thr[t].reg][n] # None
                        /\ ClosePool(conns[thr[t].reg][n])
                        /\ conns' = [conns EXCEPT ![thr[t].reg][n] = None]
  BY DEF ShutdownClose
<1>4. PoolsOK'
  <2>1. PoolsOK /\ conns[thr[t].reg][n] \in Pool
    BY <1>0, <1>2, <1>3 DEF IInv
  <2> QED
    BY <2>1, <1>2, <1>3, PoolRemoved
<1>5. /\ HoldsRegistry(thr[t], thr[t].reg)
      /\ \A x \in Registry : x # thr[t].reg => conns'[x] = conns[x]
      /\ thr' = [thr EXCEPT ![t] = thr[t]]
  BY <1>0, <1>1, <1>2, <1>3 DEF HoldsRegistry, RegistryPC, IInv, Types
<1>6. /\ rmu' = [x \in Registry |-> IF HoldsRegistry(thr[t], x) THEN t
                                    ELSE IF HoldsRegistry(thr[t], x) THEN None ELSE rmu[x]]
      /\ \A x \in Registry : HoldsRegistry(thr[t], x) => rmu[x] \in {None, t}
  BY <1>1, Kept
<1> DEFINE g == thr[t]
<1>7. /\ g \in Frame /\ ShapeOK(g) /\ ShutdownOK(g) /\ g.pc = "closeall" /\ thr' = [thr EXCEPT ![t] = g]
      /\ g.reg \in Registry => ~Future(g.reg)
  BY <1>0, <1>1, <1>5
<1> QED
  BY <1>1, <1>2, <1>4, <1>5, <1>6, <1>7, MapMoves

-----------------------------------------------------------------------------
(* The jobs *)

\* A step that leaves the map alone, starts no job and lets no ended job run again.
LEMMA JobsMove ==
  ASSUME IInv, UNCHANGED <<current, conns>>,
         Types', RegistryLocks', BackendLock', PoolLocks', PoolsOK',
         \A k \in JobThread : /\ job'[k].pc = "off" <=> job[k].pc = "off"
                              /\ job[k].pc = "stopped" => job'[k].pc = "stopped",
         \A u \in Thread : FrameOK(thr'[u])
  PROVE  IInv'
<1>1. \A x \in Registry, i \in Job : <<x, i>> \in JobThread
  BY DEF JobThread
<1>2. \A x \in Registry : Future(x)' <=> Future(x)
  BY <1>1 DEF Future
<1>3. FutureEmpty' /\ JobsOK'
  BY <1>2 DEF IInv, FutureEmpty, JobsOK
<1>4. ASSUME NEW u \in Thread
      PROVE  FrameOK(thr[u])'
  <2>1. /\ thr'[u] \in Frame /\ ShapeOK(thr'[u]) /\ ShutdownOK(thr'[u]) /\ FoundOK(thr'[u])
        /\ thr'[u].reg \in Registry => ~Future(thr'[u].reg)
    BY DEF FrameOK
  <2>2. ShapeOK(thr[u])' /\ FoundOK(thr[u])'
    BY <2>1 DEF ShapeOK, FoundOK
  <2>3. ShutdownOK(thr[u])'
    <3>1. thr'[u].pc = "closeall" => thr'[u].reg \in Registry
      BY <2>1 DEF ShapeOK
    <3> QED
      BY <2>1, <3>1, <1>1 DEF ShutdownOK
  <2>4. thr'[u].reg \in Registry => ~Future(thr[u].reg)'
    BY <2>1, <1>2
  <2> QED
    BY <2>1, <2>2, <2>3, <2>4 DEF FrameOK
<1> QED
  BY <1>3, <1>4 DEF IInv, FramesOK

\* ... and the threads stay where they are.
LEMMA JobMoves ==
  ASSUME IInv, NEW j \in JobThread, NEW s \in JobState, job' = [job EXCEPT ![j] = s],
         job[j].pc \notin {"off", "stopped"}, s.pc # "off",
         UNCHANGED <<serving, bmu, current, rmu, conns, thr>>,
         cmu' \in [Pool -> JobThread \cup {None}], PoolLocks', PoolsOK'
  PROVE  IInv'
<1>1. \A k \in JobThread : job'[k] = IF k = j THEN s ELSE job[k]
  BY DEF IInv, Types
<1>2. Types' /\ RegistryLocks' /\ BackendLock'
  BY DEF IInv, Types, RegistryLocks, BackendLock
<1>3. \A u \in Thread : FrameOK(thr'[u])
  BY DEF IInv, FramesOK
<1> QED
  BY <1>1, <1>2, <1>3, JobsMove

\* Pools and map as they were.
LEMMA PoolsKept ==
  ASSUME PoolsOK, UNCHANGED <<conns, pool>>
  PROVE  PoolsOK'
BY DEF PoolsOK, MapInv, Mapped, HealthyIsOpen, MappedIsOpen

\* A job holds no lock of a pool before or after.
LEMMA WaitingMoves ==
  ASSUME IInv, NEW j \in JobThread, NEW s \in JobState, job' = [job EXCEPT ![j] = s],
         job[j].pc \notin {"off", "stopped", "locked"}, s.pc \notin {"off", "locked"},
         UNCHANGED <<serving, bmu, current, rmu, conns, pool, cmu, thr>>
  PROVE  IInv'
<1>1. \A k \in JobThread : job'[k] = IF k = j THEN s ELSE job[k]
  BY DEF IInv, Types
<1>2. PoolLocks'
  BY <1>1 DEF PoolLocks, IInv
<1>3. PoolsOK' /\ cmu' \in [Pool -> JobThread \cup {None}]
  BY PoolsKept DEF IInv, Types
<1> QED
  BY <1>2, <1>3, JobMoves

LEMMA JobIs ==
  ASSUME IInv, NEW j \in JobThread
  PROVE  /\ job[j] \in JobState /\ job \in [JobThread -> JobState]
         /\ job[j].pc # "off" => j[2] \in StartedJobs
         /\ conns \in [Registry -> [Name -> Pool \cup {None}]]
BY DEF IInv, Types, JobsOK, PoolsOK

LEMMA JobTickStep ==
  ASSUME IInv, NEW j \in JobThread, JobTick(j)
  PROVE  IInv'
<1>1. Mapped(j[1]) \subseteq Pool
  BY JobIs DEF Mapped, JobThread
<1> DEFINE s == [job[j] EXCEPT !.pc = "visit", !.todo = Mapped(j[1])]
<1>2. job[j].pc = "wait" /\ UNCHANGED <<serving, bmu, current, rmu, conns, pool, cmu, thr>>
  BY DEF JobTick
<1>3. job' = [job EXCEPT ![j] = s]
  BY JobIs DEF JobTick, JobState
<1>4. s \in JobState /\ s.pc = "visit"
  BY <1>1, JobIs DEF JobState
<1> HIDE DEF s
<1> QED
  BY <1>2, <1>3, <1>4, WaitingMoves

LEMMA JobStopStep ==
  ASSUME IInv, NEW j \in JobThread, JobStop(j)
  PROVE  IInv'
<1> DEFINE s == [job[j] EXCEPT !.pc = "stopped"]
<1>1. /\ job[j].pc = "wait" /\ job' = [job EXCEPT ![j] = s]
      /\ UNCHANGED <<serving, bmu, current, rmu, conns, pool, cmu, thr>>
  BY DEF JobStop
<1>2. s \in JobState /\ s.pc = "stopped"
  BY JobIs DEF JobState
<1> HIDE DEF s
<1> QED
  BY <1>1, <1>2, WaitingMoves

LEMMA JobLockPoolStep ==
  ASSUME IInv, NEW j \in JobThread, JobLockPool(j)
  PROVE  IInv'
<1>1. PICK p \in job[j].todo :
        /\ cmu[p] = None
        /\ cmu' = [cmu EXCEPT ![p] = j]
        /\ job' = [job EXCEPT ![j].pc = "locked", ![j].at = p, ![j].todo = @ \ {p}]
  BY DEF JobLockPool
<1> DEFINE s == [job[j] EXCEPT !.pc = "locked", !.at = p, !.todo = @ \ {p}]
<1>2. job[j].pc = "visit" /\ UNCHANGED <<serving, bmu, current, rmu, conns, pool, thr>>
  BY DEF JobLockPool
<1>3. p \in Pool
  BY <1>1, JobIs DEF JobState
<1>4. job' = [job EXCEPT ![j] = s]
  BY <1>1, JobIs DEF JobState
<1>5. s \in JobState /\ s.pc = "locked" /\ s.at = p
  BY <1>3, JobIs DEF JobState
<1> HIDE DEF s
<1>6. cmu \in [Pool -> JobThread \cup {None}] /\ PoolLocks /\ PoolsOK
  BY DEF IInv, Types
<1>7. cmu' \in [Pool -> JobThread \cup {None}] /\ PoolsOK'
  BY <1>1, <1>2, <1>6, PoolsKept
<1>8. PoolLocks'
  <2> SUFFICES ASSUME NEW q \in Pool, NEW k \in JobThread
               PROVE  cmu'[q] = k <=> job'[k].pc = "locked" /\ job'[k].at = q
    BY DEF PoolLocks
  <2>1. cmu[q] = k <=> job[k].pc = "locked" /\ job[k].at = q
    BY <1>6 DEF PoolLocks
  <2>2. cmu'[q] = IF q = p THEN j ELSE cmu[q]
    BY <1>1, <1>6
  <2>3. job'[k] = IF k = j THEN s ELSE job[k]
    BY <1>4, JobIs
  <2>4. k # None
    BY NoneIsNobody
  <2> QED
    BY <2>1, <2>2, <2>3, <2>4, <1>1, <1>2, <1>5
<1> QED
  BY <1>2, <1>4, <1>5, <1>7, <1>8, JobMoves

\* A visit ends, whatever it did to the pool.
LEMMA JobLeaveStep ==
  ASSUME IInv, NEW j \in JobThread, job[j].pc = "locked", NEW todo \in SUBSET Pool,
         JobLeave(j, todo), PoolsOK'
  PROVE  IInv'
<1> DEFINE s == [job[j] EXCEPT !.at = None, !.todo = todo, !.pc = IF todo = {} THEN "wait" ELSE "visit"]
<1>1. cmu' = [cmu EXCEPT ![job[j].at] = None] /\ UNCHANGED <<serving, bmu, current, rmu, conns, thr>>
  BY DEF JobLeave
<1>2. job' = [job EXCEPT ![j] = s]
  BY JobIs DEF JobLeave, JobState
<1>3. s \in JobState /\ s.pc \in {"wait", "visit"}
  BY JobIs DEF JobState
<1> HIDE DEF s
<1>4. cmu \in [Pool -> JobThread \cup {None}] /\ PoolLocks
  BY DEF IInv, Types
<1>5. cmu' \in [Pool -> JobThread \cup {None}]
  BY <1>1, <1>4
<1>6. PoolLocks'
  <2> SUFFICES ASSUME NEW q \in Pool, NEW k \in JobThread
               PROVE  cmu'[q] = k <=> job'[k].pc = "locked" /\ job'[k].at = q
    BY DEF PoolLocks
  <2>1. /\ cmu[q] = k <=> job[k].pc = "locked" /\ job[k].at = q
        /\ cmu[q] = j <=> job[j].at = q
    BY <1>4 DEF PoolLocks
  <2>2. cmu'[q] = IF q = job[j].at THEN None ELSE cmu[q]
    BY <1>1, <1>4
  <2>3. job'[k] = IF k = j THEN s ELSE job[k]
    BY <1>2, JobIs
  <2>4. k # None
    BY NoneIsNobody
  <2> QED
    BY <2>1, <2>2, <2>3, <2>4, <1>3
<1> QED
  BY <1>1, <1>2, <1>3, <1>5, <1>6, JobMoves

LEMMA VisitStep ==
  ASSUME IInv, NEW j \in JobThread, CheckHealth(j) \/ CleanupIdleConnections(j) \/ EnsureMinConnections(j)
  PROVE  IInv'
<1> DEFINE p == job[j].at
<1>0. job[j].pc = "locked" /\ job[j] \in JobState /\ j[2] \in StartedJobs /\ job[j].todo \in SUBSET Pool
  BY JobIs DEF JobState, CheckHealth, CleanupIdleConnections, EnsureMinConnections
<1>1. PoolsOK /\ pool \in [Pool -> PoolState] /\ HealthyIsOpen
  BY DEF IInv, PoolsOK
<1>2. CASE CheckHealth(j)
  <2>1. /\ JobLeave(j, job[j].todo) /\ conns' = conns
        /\ \/ pool[p].open /\ pool' = [pool EXCEPT ![p].state = "healthy"]
           \/ pool' = [pool EXCEPT ![p].state = "unhealthy"]
    BY <1>2 DEF CheckHealth, JobLeave
  <2>2. /\ pool' \in [Pool -> PoolState]
        /\ \A q \in Pool : /\ pool'[q].made = pool[q].made /\ pool'[q].open = pool[q].open
                           /\ pool'[q].state = "healthy" => pool'[q].open
    <3>1. ASSUME pool[p].open, pool' = [pool EXCEPT ![p].state = "healthy"]
          PROVE  /\ pool' \in [Pool -> PoolState]
                 /\ \A q \in Pool : /\ pool'[q].made = pool[q].made /\ pool'[q].open = pool[q].open
                                    /\ pool'[q].state = "healthy" => q = p \/ pool[q].state = "healthy"
      BY <1>1, <3>1 DEF PoolState
    <3>2. ASSUME pool' = [pool EXCEPT ![p].state = "unhealthy"]
          PROVE  /\ pool' \in [Pool -> PoolState]
                 /\ \A q \in Pool : /\ pool'[q].made = pool[q].made /\ pool'[q].open = pool[q].open
                                    /\ pool'[q].state = "healthy" => pool[q].state = "healthy"
      BY <1>1, <3>2 DEF PoolState
    <3> QED
      BY <1>1, <2>1, <3>1, <3>2 DEF HealthyIsOpen
  <2>3. PoolsOK'
    BY <1>1, <2>1, <2>2, PoolTouched
  <2> QED
    BY <1>0, <2>1, <2>3, JobLeaveStep
<1>3. CASE CleanupIdleConnections(j)
  <2>1. /\ JobLeave(j, job[j].todo) /\ conns' = conns /\ "cleanup" \in StartedJobs
        /\ \/ pool' = [pool EXCEPT ![p].open = FALSE, ![p].state = "closed"]
           \/ pool' = pool
    BY <1>0, <1>3 DEF CleanupIdleConnections, JobLeave, ClosePool
  <2>2. /\ pool' \in [Pool -> PoolState]
        /\ \A q \in Pool : /\ pool'[q].made = pool[q].made
                           /\ pool'[q].open => pool[q].open
                           /\ pool'[q].state = "healthy" => pool'[q].open
    <3>1. ASSUME pool' = [pool EXCEPT ![p].open = FALSE, ![p].state = "closed"]
          PROVE  /\ pool' \in [Pool -> PoolState]
                 /\ \A q \in Pool : /\ pool'[q].made = pool[q].made
                                    /\ pool'[q].open => pool[q].open
                                    /\ pool'[q].state = "healthy" => pool'[q] = pool[q]
      BY <1>1, <3>1 DEF PoolState
    <3> QED
      BY <1>1, <2>1, <3>1 DEF HealthyIsOpen
  <2>3. PoolsOK'
    BY <1>1, <2>1, <2>2, PoolTouched
  <2> QED
    BY <1>0, <2>1, <2>3, JobLeaveStep
<1>4. CASE EnsureMinConnections(j)
  <2>1. UNCHANGED <<conns, pool>> /\ (JobLeave(j, job[j].todo) \/ JobLeave(j, {}))
    BY <1>4 DEF EnsureMinConnections, JobLeave
  <2>2. PoolsOK'
    BY <1>1, <2>1, PoolsKept
  <2>3. {} \in SUBSET Pool
    OBVIOUS
  <2> QED
    BY <1>0, <2>1, <2>2, <2>3, JobLeaveStep
<1> QED
  BY <1>2, <1>3, <1>4

LEMMA WarmupEndsStep ==
  ASSUME IInv, NEW p \in Pool, WarmupEnds(p)
  PROVE  IInv'
<1>1. pool' = [pool EXCEPT ![p].warm = "done"]
      /\ UNCHANGED <<serving, bmu, current, rmu, conns, cmu, job, thr>>
  BY DEF WarmupEnds
<1>2. PoolsOK /\ pool \in [Pool -> PoolState] /\ HealthyIsOpen
  BY DEF IInv, PoolsOK
<1>3. /\ pool' \in [Pool -> PoolState]
      /\ \A q \in Pool : /\ pool'[q].made = pool[q].made /\ pool'[q].open = pool[q].open
                         /\ pool'[q].state = "healthy" => pool'[q].open
  BY <1>1, <1>2 DEF PoolState, HealthyIsOpen
<1>4. PoolsOK'
  BY <1>1, <1>2, <1>3, PoolTouched
<1>5. Types' /\ RegistryLocks' /\ BackendLock' /\ PoolLocks'
  BY <1>1 DEF IInv, Types, RegistryLocks, BackendLock, PoolLocks
<1>6. \A u \in Thread : FrameOK(thr'[u])
  BY <1>1 DEF IInv, FramesOK
<1> QED
  BY <1>1, <1>4, <1>5, <1>6, JobsMove

-----------------------------------------------------------------------------
(* Shutdown and reload *)

LEMMA ShutdownCancelStep ==
  ASSUME IInv, NEW t \in Thread, ShutdownCancel(t)
  PROVE  IInv'
<1> DEFINE g == [thr[t] EXCEPT !.pc = "await"]
<1>0. /\ thr[t] \in Frame /\ ShapeOK(thr[t]) /\ ShutdownOK(thr[t])
      /\ thr[t].reg \in Registry => ~Future(thr[t].reg)
  BY FrameIs
<1>1. /\ thr[t].pc = "cancel" /\ thr' = [thr EXCEPT ![t] = g]
      /\ job' = [j \in JobThread |-> IF j[1] = thr[t].reg THEN [job[j] EXCEPT !.cancelled = TRUE] ELSE job[j]]
      /\ UNCHANGED <<serving, bmu, current, rmu, conns, pool, cmu>>
  BY DEF ShutdownCancel, Goto
<1>2. /\ FrameOK(g) /\ (HoldsBackend(g) <=> HoldsBackend(thr[t]))
      /\ \A reg \in Registry : HoldsRegistry(g, reg) <=> HoldsRegistry(thr[t], reg)
  BY <1>0, <1>1 DEF FrameOK, Frame, PC, ShapeOK, ShutdownOK, FoundOK, HoldsBackend, HoldsRegistry, RegistryPC
<1> HIDE DEF g
<1>3. /\ RegistryLocks' /\ rmu' \in [Registry -> Thread \cup {None}] /\ thr' \in [Thread -> Frame]
  <2>1. g \in Frame
    BY <1>2 DEF FrameOK
  <2>2. /\ rmu' = [reg \in Registry |-> IF HoldsRegistry(g, reg) THEN t
                                        ELSE IF HoldsRegistry(thr[t], reg) THEN None ELSE rmu[reg]]
        /\ \A reg \in Registry : HoldsRegistry(g, reg) => rmu[reg] \in {None, t}
    BY <1>1, <1>2, Kept
  <2> QED
    BY <1>1, <2>1, <2>2, RegistryLockMoves
<1>4. BackendLock' /\ bmu' \in Thread \cup {None}
  <2>1. g \in Frame
    BY <1>2 DEF FrameOK
  <2>2. /\ bmu' = IF HoldsBackend(g) THEN t ELSE IF bmu = t THEN None ELSE bmu
        /\ HoldsBackend(g) => bmu \in {None, t}
    BY <1>1, <1>2, BackendKept
  <2> QED
    BY <1>1, <2>1, <2>2, BackendLockMoves
<1>5. /\ job' \in [JobThread -> JobState]
      /\ \A k \in JobThread : job'[k].pc = job[k].pc /\ job'[k].at = job[k].at
  BY <1>1 DEF JobState, IInv, Types
<1>6. PoolLocks' /\ PoolsOK'
  <2>1. PoolsOK
    BY DEF IInv
  <2> QED
    BY <2>1, <1>1, <1>5, PoolsKept DEF IInv, PoolLocks
<1>7. Types'
  BY <1>1, <1>3, <1>4, <1>5 DEF IInv, Types
<1>8. \A u \in Thread : FrameOK(thr'[u])
  BY <1>1, <1>2 DEF IInv, FramesOK, Types
<1> QED
  BY <1>1, <1>3, <1>4, <1>5, <1>6, <1>7, <1>8, JobsMove

\* The end of the first half of a reload: the registry is replaced by one nobody has used.
LEMMA ReloadDoneStep ==
  ASSUME IInv, NEW t \in Thread, NEW reg \in Unused, thr[t].pc = "closeall", thr[t].op = "reload",
         rmu' = [rmu EXCEPT ![thr[t].reg] = None], current' = reg,
         job' = [j \in JobThread |-> IF j[1] = reg THEN Started(j[2]) ELSE job[j]],
         thr' = [thr EXCEPT ![t] = Load("reload", reg)],
         UNCHANGED <<serving, bmu, conns, pool, cmu>>
  PROVE  IInv'
<1> DEFINE g == Load("reload", reg)
<1>0. /\ thr[t] \in Frame /\ ShapeOK(thr[t]) /\ ShutdownOK(thr[t])
      /\ reg \in Registry /\ reg # current /\ Future(reg)
  BY FrameIs DEF Unused, Future
<1>1. /\ thr[t].reg = current /\ current \in Registry /\ thr[t].pc \in RegistryPC
      /\ \A i \in Job : job[<<current, i>>].pc = "stopped"
      /\ HoldsBackend(thr[t])
  BY <1>0, FrameIs DEF ShutdownOK, RegistryPC, HoldsBackend
<1>2. /\ g \in Frame /\ g.pc = "load" /\ g.op = "reload" /\ g.reg = reg
  BY <1>0, RegistryAssumption, NoneIsNobody DEF Load, Idle, Frame, PC, IInv, FramesOK
<1> HIDE DEF g
<1>3. ShapeOK(g) /\ ShutdownOK(g) /\ FoundOK(g) /\ HoldsBackend(g) /\ g.pc \notin RegistryPC
  BY <1>0, <1>2 DEF ShapeOK, ShutdownOK, FoundOK, HoldsBackend, RegistryPC
<1>4. thr' = [thr EXCEPT ![t] = g]
  BY DEF g
<1>5. RegistryLocks' /\ rmu' \in [Registry -> Thread \cup {None}] /\ thr' \in [Thread -> Frame]
  <2>1. /\ rmu' = [x \in Registry |-> IF HoldsRegistry(g, x) THEN t
                                      ELSE IF HoldsRegistry(thr[t], x) THEN None ELSE rmu[x]]
        /\ \A x \in Registry : HoldsRegistry(g, x) => rmu[x] \in {None, t}
    BY <1>1, <1>3, Released
  <2> QED
    BY <1>2, <1>4, <2>1, RegistryLockMoves
<1>6. BackendLock' /\ bmu' \in Thread \cup {None}
  <2>1. /\ bmu' = IF HoldsBackend(g) THEN t ELSE IF bmu = t THEN None ELSE bmu
        /\ HoldsBackend(g) => bmu \in {None, t}
    BY <1>1, <1>3, BackendKept
  <2> QED
    BY <1>2, <1>4, <2>1, BackendLockMoves
<1>7. /\ \A x \in Registry, i \in Job : <<x, i>> \in JobThread /\ <<x, i>>[1] = x /\ <<x, i>>[2] = i
      /\ \A j \in JobThread : j[1] \in Registry /\ j[2] \in Job /\ j = <<j[1], j[2]>>
  BY DEF JobThread
<1>8. \A j \in JobThread : /\ j[1] = reg => job'[j] = Started(j[2]) /\ job[j].pc = "off"
                           /\ j[1] # reg => job'[j] = job[j]
  BY <1>0, <1>7 DEF Future
<1>9. \A i \in Job : /\ Started(i) \in JobState /\ Started(i).pc \in {"off", "wait"}
                     /\ Started(i).pc # "off" => i \in StartedJobs
  BY DEF Started, JobState
<1>10. job' \in [JobThread -> JobState] /\ JobsOK'
  <2>1. \A j \in JobThread : job'[j] \in JobState
    BY <1>7, <1>8, <1>9, JobIs
  <2>2. JobsOK'
    BY <1>7, <1>8, <1>9 DEF IInv, JobsOK
  <2> QED
    BY <2>1, <2>2
<1>11. PoolLocks'
  BY <1>7, <1>8, <1>9 DEF IInv, PoolLocks
<1>12. Types' /\ PoolsOK'
  <2>1. PoolsOK
    BY DEF IInv
  <2> QED
    BY <2>1, <1>0, <1>5, <1>6, <1>10, PoolsKept DEF IInv, Types
<1>13. \A x \in Registry : Future(x)' => Future(x)
  <2> SUFFICES ASSUME NEW x \in Registry, Future(x)'
               PROVE  Future(x)
    OBVIOUS
  <2>1. x # reg
    BY DEF Future
  <2>2. \A i \in Job : job[<<x, i>>].pc = "off"
    BY <2>1, <1>7, <1>8 DEF Future
  <2>3. x # current
    BY <2>2, <1>1, RegistryAssumption
  <2> QED
    BY <2>2, <2>3 DEF Future
<1>14. FutureEmpty'
  BY <1>13 DEF IInv, FutureEmpty
<1>15. FramesOK'
  <2> SUFFICES ASSUME NEW u \in Thread
               PROVE  FrameOK(thr[u])'
    BY DEF FramesOK
  <2>1. CASE u = t
    <3>1. thr'[u] = g
      BY <1>4, <2>1 DEF IInv, Types
    <3>2. ShapeOK(thr[u])' /\ ShutdownOK(thr[u])' /\ FoundOK(thr[u])'
      BY <3>1, <1>2, <1>3 DEF ShapeOK, ShutdownOK, FoundOK
    <3>3. ~Future(thr[u].reg)'
      BY <3>1, <1>2 DEF Future
    <3> QED
      BY <3>1, <3>2, <3>3, <1>2 DEF FrameOK
  <2>2. CASE u # t
    <3>1. thr'[u] = thr[u]
      BY <1>4, <2>2 DEF IInv, Types
    <3>2. /\ thr[u] \in Frame /\ ShapeOK(thr[u]) /\ FoundOK(thr[u])
          /\ thr[u].reg \in Registry => ~Future(thr[u].reg)
      BY FrameIs
    <3>3. ~HoldsBackend(thr[u])
      BY <1>1, <2>2 DEF IInv, BackendLock
    <3>4. ShapeOK(thr[u])' /\ FoundOK(thr[u])'
      BY <3>1, <3>2 DEF ShapeOK, FoundOK
    <3>5. thr[u].pc \notin {"cancel", "await", "closeall"}
      BY <3>2, <3>3 DEF ShapeOK, HoldsBackend
    <3>6. ShutdownOK(thr[u])'
      BY <3>1, <3>5 DEF ShutdownOK
    <3>7. thr'[u].reg \in Registry => ~Future(thr[u].reg)'
      <4> SUFFICES ASSUME thr[u].reg \in Registry, Future(thr[u].reg)'
                   PROVE  FALSE
        BY <3>1
      <4> DEFINE x == thr[u].reg
      <4>1. Future(x)'
        OBVIOUS
      <4>2. (thr[u].reg)' = x
        BY <3>1
      <4>3. x # reg
        BY <4>2 DEF Future
      <4>4. \A i \in Job : job[<<x, i>>].pc = "off"
        BY <4>2, <4>3, <1>7, <1>8 DEF Future
      <4>5. x # current
        BY <4>4, <1>1, RegistryAssumption
      <4> QED
        BY <3>2, <4>4, <4>5 DEF Future
    <3> QED
      BY <3>1, <3>2, <3>4, <3>6, <3>7 DEF FrameOK
  <2> QED
    BY <2>1, <2>2
<1> QED
  BY <1>5, <1>6, <1>10, <1>11, <1>12, <1>14, <1>15 DEF IInv

LEMMA ShutdownDoneStep ==
  ASSUME IInv, NEW t \in Thread, ShutdownDone(t)
  PROVE  IInv'
<1>1. thr[t].pc = "closeall" /\ rmu' = [rmu EXCEPT ![thr[t].reg] = None] /\ UNCHANGED <<conns, pool, cmu>>
  BY DEF ShutdownDone
<1>2. CASE thr[t].op = "shutdown" /\ serving' = FALSE /\ bmu' = None /\ Return(t) /\ UNCHANGED <<current, job>>
  BY <1>1, <1>2, ShutdownEndsStep DEF Return
<1>3. CASE /\ thr[t].op = "reload"
           /\ \E reg \in Unused :
                /\ current' = reg
                /\ job' = [j \in JobThread |-> IF j[1] = reg THEN Started(j[2]) ELSE job[j]]
                /\ thr' = [thr EXCEPT ![t] = Load("reload", reg)]
           /\ UNCHANGED <<serving, bmu>>
  BY <1>1, <1>3, ReloadDoneStep
<1> QED
  BY <1>2, <1>3 DEF ShutdownDone

-----------------------------------------------------------------------------
(* The start, and the whole *)

LEMMA InitIsInvariant ==
  ASSUME Init
  PROVE  IInv
<1>1. FirstRegistry \in Registry
  BY RegistryAssumption DEF FirstRegistry
<1>2. /\ Load("setup", FirstRegistry) \in Frame /\ Idle \in Frame
      /\ Load("setup", FirstRegistry).pc = "load" /\ Load("setup", FirstRegistry).op = "setup"
      /\ Load("setup", FirstRegistry).reg = FirstRegistry
  BY <1>1, RegistryAssumption DEF Load, Idle, Frame, PC
<1>3. \A i \in Job : Started(i) \in JobState /\ Started(i).pc \in {"off", "wait"}
                     /\ (Started(i).pc # "off" => i \in StartedJobs)
  BY DEF Started, JobState
<1>4. Off \in JobState /\ Off.pc = "off"
  BY DEF Off, JobState
<1>5. \A j \in JobThread : j[1] \in Registry /\ j[2] \in Job
  BY DEF JobThread
<1>6. /\ job \in [JobThread -> JobState]
      /\ \A j \in JobThread : /\ job[j].pc \in {"off", "wait"}
                              /\ job[j].pc # "off" => j[2] \in StartedJobs
  <2>1. \A j \in JobThread : job[j] = IF j[1] = FirstRegistry THEN Started(j[2]) ELSE Off
    BY DEF Init, FirstJobs
  <2>2. \A j \in JobThread : /\ job[j] \in JobState /\ job[j].pc \in {"off", "wait"}
                             /\ job[j].pc # "off" => j[2] \in StartedJobs
    BY <2>1, <1>3, <1>4, <1>5
  <2>3. job = [j \in JobThread |-> job[j]]
    BY DEF Init, FirstJobs
  <2> QED
    BY <2>2, <2>3
<1>7. /\ thr \in [Thread -> Frame]
      /\ \A t \in Thread : thr[t] \in {Idle, Load("setup", FirstRegistry)}
  BY <1>2 DEF Init, Setup
<1>8. Types
  BY <1>1, <1>6, <1>7 DEF Types, Init
<1>9. RegistryLocks /\ BackendLock
  <2>1. \A t \in Thread : thr[t].pc \in {"idle", "load"} /\ thr[t].op \in {"none", "setup"}
    BY <1>2, <1>7 DEF Idle
  <2> QED
    BY <2>1, NoneIsNobody DEF Init, RegistryLocks, BackendLock, HoldsRegistry, HoldsBackend, RegistryPC
<1>10. PoolLocks
  BY <1>6, NoneIsNobody DEF Init, PoolLocks
<1>11. PoolsOK
  <2>1. /\ \A p \in Pool : ~pool[p].open /\ pool[p].state = "closed"
        /\ pool \in [Pool -> PoolState]
    BY DEF Init, NoPools, PoolState
  <2>2. /\ conns \in [Registry -> [Name -> Pool \cup {None}]]
        /\ \A x \in Registry, m \in Name : conns[x][m] = None
    BY DEF Init, NoConns
  <2> QED
    BY <2>1, <2>2 DEF PoolsOK, MapInv, Mapped, HealthyIsOpen, MappedIsOpen
<1>12. FramesOK
  <2>1. ~Future(FirstRegistry)
    BY DEF Init, Future
  <2>2. FrameOK(Load("setup", FirstRegistry))
    BY <1>1, <1>2, <2>1 DEF FrameOK, ShapeOK, ShutdownOK, FoundOK
  <2> QED
    BY <2>2, <1>7, IdleOK DEF FramesOK
<1>13. FutureEmpty /\ JobsOK
  BY <1>6 DEF FutureEmpty, JobsOK, Init, NoConns
<1> QED
  BY <1>8, <1>9, <1>10, <1>11, <1>12, <1>13 DEF IInv

LEMMA InitImplies == Init => IInv
BY InitIsInvariant

\* A panic starts the process again.
LEMMA PanicStep ==
  ASSUME NEW t \in Thread, PoolStatsPanic(t)
  PROVE  IInv'
<1>1. Init'
  BY DEF PoolStatsPanic, Init, Setup, FirstJobs, NoPools, NoConns
<1> QED
  BY <1>1, InitImplies, PTL

LEMMA StepKeepsIInv ==
  ASSUME IInv, [Next]_vars
  PROVE  IInv'
<1>1. CASE Next
  <2>1. ASSUME NEW t \in Thread, Continue(t) \/ PoolStatsPanic(t)
        PROVE  IInv'
    BY <2>1, QuietSteps, LoadDoneStep, AddLockStep, AddPingStep, UpdateLockStep, UpdateCloseStep,
       UpdateOpenStep, ReloadLockStep, ShutdownCancelStep, ShutdownAwaitStep, ShutdownCloseStep,
       ShutdownDoneStep, PanicStep DEF Continue, Loading
  <2>2. ASSUME NEW t \in Request, NEW op \in Operations, NEW n \in Name, Start(t, op, n)
        PROVE  IInv'
    BY <2>2, StartStep
  <2>3. ASSUME NEW j \in JobThread, JobStop(j) \/ RunJob(j)
        PROVE  IInv'
    BY <2>3, JobStopStep, JobTickStep, JobLockPoolStep, VisitStep DEF RunJob
  <2>4. ASSUME NEW p \in Pool, WarmupEnds(p)
        PROVE  IInv'
    BY <2>4, WarmupEndsStep
  <2> QED
    BY <1>1, <2>1, <2>2, <2>3, <2>4 DEF Next
<1>2. CASE UNCHANGED vars
  <2>1. UNCHANGED <<serving, bmu, current, rmu, conns, pool, cmu, job, thr>>
    BY <1>2 DEF vars
  <2>2. PoolsOK'
    BY <2>1, PoolsKept DEF IInv
  <2>3. Types' /\ RegistryLocks' /\ BackendLock' /\ PoolLocks'
    BY <2>1 DEF IInv, Types, RegistryLocks, BackendLock, PoolLocks
  <2>4. \A u \in Thread : FrameOK(thr'[u])
    BY <2>1 DEF IInv, FramesOK
  <2> QED
    BY <2>1, <2>2, <2>3, <2>4, JobsMove
<1> QED
  BY <1>1, <1>2

LEMMA Inductive == Spec => []IInv
<1>1. Init => IInv
  BY InitImplies
<1>2. IInv /\ [Next]_vars => IInv'
  BY StepKeepsIInv
<1> QED
  BY <1>1, <1>2, PTL DEF Spec

-----------------------------------------------------------------------------
(* Who waits for whom: what a shutdown and the jobs tell each other, and that *)
(* every wait for a lock ends at somebody who can go on.                      *)

\* A visit has a pool to go to; who is to wait for a warm-up or to read a pool has
\* one; the jobs a shutdown waits for have been told to stop, and those of the
\* registry in use that the backend starts have been started.
WInv ==
  /\ \A j \in JobThread : job[j].pc = "visit" => job[j].todo # {}
  /\ \A t \in Thread : thr[t].pc \in {"warm", "read"} => thr[t].at \in Pool
  /\ \A t \in Thread, j \in Job : thr[t].pc = "await" => job[<<thr[t].reg, j>>].cancelled
  /\ \A j \in StartedJobs : job[<<current, j>>].pc # "off"

\* The steps of one thread that touch no job.
LEMMA FrameKeepsWInv ==
  ASSUME WInv, NEW t \in Thread, \A u \in Thread \ {t} : thr'[u] = thr[u],
         UNCHANGED <<current, job>>,
         thr'[t].pc \in {"warm", "read"} => thr'[t].at \in Pool,
         thr'[t].pc # "await"
  PROVE  WInv'
<1>1. \A u \in Thread : thr'[u].pc \in {"warm", "read"} => thr'[u].at \in Pool
  BY DEF WInv
<1>2. \A u \in Thread, j \in Job : thr'[u].pc = "await" => job'[<<thr'[u].reg, j>>].cancelled
  BY DEF WInv
<1> QED  BY <1>1, <1>2 DEF WInv

LEMMA ContinueKeepsWInv ==
  ASSUME IInv, WInv, NEW t \in Thread, Continue(t)
  PROVE  WInv'
<1>0. /\ thr[t] \in Frame /\ thr \in [Thread -> Frame] /\ current \in Registry
      /\ conns \in [Registry -> [Name -> Pool \cup {None}]] /\ job \in [JobThread -> JobState]
      /\ StartedJobs \subseteq Job
  BY FrameIs, RegistryAssumption DEF IInv, Types
<1>1. CASE LoadNext(t)
  <2>1. PICK n \in thr[t].todo :
          thr' = [thr EXCEPT ![t] = [[thr[t] EXCEPT !.todo = @ \ {n}] EXCEPT !.pc = "add", !.name = n]]
    BY <1>1 DEF LoadNext
  <2>2. thr'[t].pc = "add" /\ UNCHANGED <<current, job>> /\ \A u \in Thread \ {t} : thr'[u] = thr[u]
    BY <1>0, <1>1, <2>1 DEF Frame, LoadNext
  <2> QED
    BY <2>2, FrameKeepsWInv
<1>2. CASE \/ LoadDone(t) \/ StatsDone(t)
  <2>1. thr' = [thr EXCEPT ![t] = Idle] /\ UNCHANGED <<current, job>> /\ Idle.pc = "idle"
    BY <1>2 DEF LoadDone, StatsDone, Return, Idle
  <2>2. thr'[t].pc = "idle" /\ \A u \in Thread \ {t} : thr'[u] = thr[u]
    BY <1>0, <2>1
  <2> QED
    BY <2>1, <2>2, FrameKeepsWInv
<1>3. CASE AddLock(t)
  <2>1. /\ UNCHANGED <<current, job>>
        /\ \/ /\ conns[thr[t].reg][thr[t].name] # None
              /\ thr' = [thr EXCEPT ![t].pc = "warm", ![t].at = conns[thr[t].reg][thr[t].name]]
           \/ thr' = [thr EXCEPT ![t].pc = "ping"]
        /\ thr[t].reg \in Registry /\ thr[t].name \in Name
    BY <1>3, FrameIs DEF AddLock, Goto, ShapeOK
  <2>2. /\ (thr'[t].pc = "warm" /\ thr'[t].at \in Pool) \/ thr'[t].pc = "ping"
        /\ \A u \in Thread \ {t} : thr'[u] = thr[u]
    BY <1>0, <2>1 DEF Frame
  <2> QED
    BY <2>1, <2>2, FrameKeepsWInv
<1>4. CASE AddPing(t)
  <2>1. /\ UNCHANGED <<current, job>>
        /\ \/ \E p \in Pool : thr' = [thr EXCEPT ![t].pc = "warm", ![t].at = p]
           \/ thr' = [thr EXCEPT ![t].pc = "load", ![t].name = None]
    BY <1>4 DEF AddPing, Unmade
  <2>2. /\ (thr'[t].pc = "warm" /\ thr'[t].at \in Pool) \/ thr'[t].pc = "load"
        /\ \A u \in Thread \ {t} : thr'[u] = thr[u]
    BY <1>0, <2>1 DEF Frame
  <2> QED
    BY <2>1, <2>2, FrameKeepsWInv
<1>5. CASE UpdateOpen(t)
  <2>1. thr' = [thr EXCEPT ![t] = Idle] /\ UNCHANGED <<current, job>> /\ Idle.pc = "idle"
    BY <1>5 DEF UpdateOpen, Return, Idle
  <2>2. thr'[t].pc = "idle" /\ \A u \in Thread \ {t} : thr'[u] = thr[u]
    BY <1>0, <2>1
  <2> QED
    BY <2>1, <2>2, FrameKeepsWInv
<1>6. CASE UpdateClose(t) \/ UpdateLock(t) \/ ListConnections(t)
  <2>1. /\ thr'[t].pc \in {"open", "close", "get"} /\ UNCHANGED <<current, job>>
        /\ \A u \in Thread \ {t} : thr'[u] = thr[u]
    BY <1>0, <1>6 DEF UpdateClose, UpdateLock, ListConnections, Goto, Frame
  <2> QED
    BY <2>1, FrameKeepsWInv
<1>7. CASE WaitForWarmup(t) \/ ReadStats(t) \/ ReadRegistry(t) \/ ReloadLock(t)
  <2>1. /\ thr'[t].pc \in {"load", "get", "lock", "list", "cancel"} /\ UNCHANGED <<current, job>>
        /\ \A u \in Thread \ {t} : thr'[u] = thr[u]
    BY <1>0, <1>7 DEF WaitForWarmup, ReadStats, ReadRegistry, ReloadLock, Frame
  <2> QED
    BY <2>1, FrameKeepsWInv
<1>8. CASE GetConnection(t)
  <2>1. PICK n \in thr[t].todo :
          thr' = [thr EXCEPT ![t] =
                   [thr[t] EXCEPT !.todo = @ \ {n}, !.at = conns[thr[t].reg][n],
                                  !.pc = IF conns[thr[t].reg][n] = None THEN "get" ELSE "read"]]
    BY <1>8 DEF GetConnection
  <2>2. n \in Name /\ thr[t].reg \in Registry /\ UNCHANGED <<current, job>>
    BY <1>0, <1>8, <2>1, FrameIs DEF GetConnection, Frame, ShapeOK
  <2>3. conns[thr[t].reg][n] \in Pool \cup {None}
    BY <1>0, <2>2
  <2>4. /\ thr'[t].at = conns[thr[t].reg][n]
        /\ thr'[t].pc = IF conns[thr[t].reg][n] = None THEN "get" ELSE "read"
        /\ \A u \in Thread \ {t} : thr'[u] = thr[u]
    BY <1>0, <2>1 DEF Frame
  <2> QED
    BY <2>2, <2>3, <2>4, FrameKeepsWInv
<1>9. CASE ShutdownAwait(t)
  <2>1. /\ thr'[t].pc = "closeall" /\ UNCHANGED <<current, job>>
        /\ \A u \in Thread \ {t} : thr'[u] = thr[u]
    BY <1>0, <1>9 DEF ShutdownAwait, Goto, Frame
  <2> QED
    BY <2>1, FrameKeepsWInv
<1>10. CASE ShutdownClose(t)
  BY <1>10 DEF ShutdownClose, WInv
<1>11. CASE ShutdownCancel(t)
  <2>1. /\ current' = current /\ thr[t].pc = "cancel" /\ thr' = [thr EXCEPT ![t].pc = "await"]
        /\ job' = [j \in JobThread |-> IF j[1] = thr[t].reg THEN [job[j] EXCEPT !.cancelled = TRUE]
                                       ELSE job[j]]
    BY <1>11 DEF ShutdownCancel, Goto
  <2>2. thr[t].reg \in Registry
    BY <2>1, FrameIs DEF ShapeOK
  <2>3. /\ \A u \in Thread \ {t} : thr'[u] = thr[u]
        /\ thr'[t].pc = "await" /\ thr'[t].reg = thr[t].reg
    BY <1>0, <2>1 DEF Frame
  <2>4. \A j \in JobThread : /\ job'[j].pc = job[j].pc /\ job'[j].todo = job[j].todo
                             /\ job[j].cancelled => job'[j].cancelled
                             /\ j[1] = thr[t].reg => job'[j].cancelled
    BY <1>0, <2>1 DEF JobState
  <2>5. \A reg \in Registry, j \in Job : <<reg, j>> \in JobThread
    BY DEF JobThread
  <2>6. ASSUME NEW u \in Thread, NEW j \in Job, thr'[u].pc = "await"
        PROVE  job'[<<thr'[u].reg, j>>].cancelled
    <3>1. CASE u = t
      BY <2>2, <2>3, <2>4, <2>5, <3>1
    <3>2. CASE u # t
      <4>1. thr[u].pc = "await" /\ thr[u].reg \in Registry /\ thr'[u] = thr[u]
        BY <2>3, <2>6, <3>2, FrameIs DEF ShapeOK
      <4>2. job[<<thr[u].reg, j>>].cancelled
        BY <4>1 DEF WInv
      <4> QED  BY <2>4, <2>5, <4>1, <4>2
    <3> QED  BY <3>1, <3>2
  <2>7. \A j \in StartedJobs : job'[<<current', j>>].pc # "off"
    BY <1>0, <2>1, <2>4, <2>5 DEF WInv
  <2>8. \A j \in JobThread : job'[j].pc = "visit" => job'[j].todo # {}
    BY <2>4 DEF WInv
  <2>9. \A u \in Thread : thr'[u].pc \in {"warm", "read"} => thr'[u].at \in Pool
    BY <2>3 DEF WInv
  <2> QED
    BY <2>6, <2>7, <2>8, <2>9 DEF WInv
<1>12. CASE ShutdownDone(t)
  <2>1. thr[t].pc = "closeall" /\ HoldsBackend(thr[t])
    BY <1>12, FrameIs DEF ShutdownDone, ShapeOK, HoldsBackend
  <2>2. \A u \in Thread : thr[u].pc = "await" => FALSE
    <3> SUFFICES ASSUME NEW u \in Thread, thr[u].pc = "await"  PROVE FALSE
      OBVIOUS
    <3>1. HoldsBackend(thr[u])
      BY FrameIs DEF ShapeOK, HoldsBackend
    <3>2. bmu = u /\ bmu = t
      BY <2>1, <3>1 DEF IInv, BackendLock
    <3> QED  BY <2>1, <3>2
  <2>3. CASE thr' = [thr EXCEPT ![t] = Idle] /\ UNCHANGED <<current, job>>
    <3>1. thr'[t].pc = "idle" /\ \A u \in Thread \ {t} : thr'[u] = thr[u]
      BY <1>0, <2>3 DEF Idle
    <3> QED  BY <2>3, <3>1, FrameKeepsWInv
  <2>4. ASSUME NEW reg \in Unused, current' = reg, thr' = [thr EXCEPT ![t] = Load("reload", reg)],
               job' = [j \in JobThread |-> IF j[1] = reg THEN Started(j[2]) ELSE job[j]]
        PROVE  WInv'
    <3>1. /\ thr'[t].pc = "load" /\ \A u \in Thread \ {t} : thr'[u] = thr[u]
      BY <1>0, <2>4 DEF Load, Idle
    <3>2. \A j \in JobThread : job'[j].pc = "visit" => job'[j].todo # {}
      BY <2>4 DEF WInv, Started
    <3>3. \A j \in StartedJobs : job'[<<current', j>>].pc # "off"
      <4> SUFFICES ASSUME NEW j \in StartedJobs  PROVE job'[<<reg, j>>].pc # "off"
        BY <2>4
      <4>1. <<reg, j>> \in JobThread /\ <<reg, j>>[1] = reg /\ <<reg, j>>[2] = j
        BY <1>0, <2>4 DEF Unused, JobThread
      <4>2. job'[<<reg, j>>] = Started(j)
        BY <2>4, <4>1
      <4> QED  BY <4>2 DEF Started
    <3>4. \A u \in Thread : thr'[u].pc # "await"
      BY <2>2, <3>1
    <3>5. \A u \in Thread : thr'[u].pc \in {"warm", "read"} => thr'[u].at \in Pool
      BY <3>1 DEF WInv
    <3> QED  BY <3>2, <3>3, <3>4, <3>5 DEF WInv
  <2> QED
    BY <1>12, <2>3, <2>4 DEF ShutdownDone, Return
<1> QED
  BY <1>1, <1>2, <1>3, <1>4, <1>5, <1>6, <1>7, <1>8, <1>9, <1>10, <1>11, <1>12
  DEF Continue, Loading

LEMMA InitWaits == Init => WInv
<1> SUFFICES ASSUME Init  PROVE WInv
  OBVIOUS
<1>1. \A t \in Thread : thr[t].pc \in {"load", "idle"}
  BY DEF Init, Setup, Load, Idle
<1>2. \A j \in JobThread : job[j].pc # "visit"
  BY DEF Init, FirstJobs, Started, Off
<1>3. ASSUME NEW j \in StartedJobs  PROVE job[<<current, j>>].pc # "off"
  <2>1. <<current, j>> \in JobThread /\ <<current, j>>[1] = FirstRegistry /\ <<current, j>>[2] = j
    BY RegistryAssumption DEF Init, JobThread, FirstRegistry
  <2>2. job[<<current, j>>] = Started(j)
    BY <2>1 DEF Init, FirstJobs
  <2> QED  BY <2>2 DEF Started
<1> QED  BY <1>1, <1>2, <1>3 DEF WInv

\* A job keeps what a shutdown has told it.
LEMMA JobKeepsWInv ==
  ASSUME IInv, WInv, NEW j \in JobThread, JobStop(j) \/ RunJob(j)
  PROVE  WInv'
<1>0. /\ job[j] \in JobState /\ job \in [JobThread -> JobState] /\ current \in Registry
      /\ StartedJobs \subseteq Job
  BY JobIs, RegistryAssumption DEF IInv, Types
<1>1. UNCHANGED <<current, thr>>
  BY DEF JobStop, RunJob, JobTick, JobLockPool, CheckHealth, CleanupIdleConnections,
         EnsureMinConnections, JobLeave
<1>2. /\ \A i \in JobThread \ {j} : job'[i] = job[i]
      /\ job'[j].cancelled = job[j].cancelled
      /\ job'[j].pc # "off"
      /\ job'[j].pc = "visit" => job'[j].todo # {}
  <2>1. CASE JobTick(j)
    <3>1. job' = [job EXCEPT ![j].pc = "visit", ![j].todo = Mapped(j[1])] /\ Mapped(j[1]) # {}
      BY <2>1 DEF JobTick
    <3> QED  BY <1>0, <3>1 DEF JobState
  <2>2. CASE JobStop(j)
    BY <1>0, <2>2 DEF JobStop, JobState
  <2>3. CASE JobLockPool(j)
    <3>1. PICK p : job' = [job EXCEPT ![j].pc = "locked", ![j].at = p, ![j].todo = @ \ {p}]
      BY <2>3 DEF JobLockPool
    <3> QED  BY <1>0, <3>1 DEF JobState
  <2>4. ASSUME NEW todo, JobLeave(j, todo)
        PROVE  /\ \A i \in JobThread \ {j} : job'[i] = job[i]
               /\ job'[j].cancelled = job[j].cancelled
               /\ job'[j].pc # "off"
               /\ job'[j].pc = "visit" => job'[j].todo # {}
    BY <1>0, <2>4 DEF JobLeave, JobState
  <2>5. CASE CheckHealth(j) \/ CleanupIdleConnections(j) \/ EnsureMinConnections(j)
    <3>1. \E todo : JobLeave(j, todo)
      BY <2>5 DEF CheckHealth, CleanupIdleConnections, EnsureMinConnections
    <3> QED  BY <2>4, <3>1
  <2> QED  BY <2>1, <2>2, <2>3, <2>5 DEF RunJob
<1>3. \A i \in JobThread : job'[i].cancelled = job[i].cancelled /\ (job'[i].pc = "off" => job[i].pc = "off")
  BY <1>2
<1>4. \A reg \in Registry, i \in Job : <<reg, i>> \in JobThread
  BY DEF JobThread
<1>5. ASSUME NEW u \in Thread, NEW i \in Job, thr'[u].pc = "await"
      PROVE  job'[<<thr'[u].reg, i>>].cancelled
  <2>1. thr[u].pc = "await" /\ thr[u].reg \in Registry /\ thr'[u] = thr[u]
    BY <1>1, <1>5, FrameIs DEF ShapeOK
  <2>2. job[<<thr[u].reg, i>>].cancelled
    BY <2>1 DEF WInv
  <2> QED  BY <1>3, <1>4, <2>1, <2>2
<1>6. \A i \in StartedJobs : job'[<<current', i>>].pc # "off"
  BY <1>0, <1>1, <1>3, <1>4 DEF WInv
<1>7. \A i \in JobThread : job'[i].pc = "visit" => job'[i].todo # {}
  BY <1>2 DEF WInv
<1> QED
  BY <1>1, <1>5, <1>6, <1>7 DEF WInv

LEMMA StepKeepsWInv ==
  ASSUME IInv, WInv, [Next]_vars
  PROVE  WInv'
<1>1. ASSUME NEW t \in Thread, PoolStatsPanic(t)
      PROVE  WInv'
  <2>1. Init'
    BY <1>1 DEF PoolStatsPanic, Init, Setup, FirstJobs, NoPools, NoConns
  <2> QED
    BY <2>1, InitWaits, PTL
<1>2. ASSUME NEW t \in Request, NEW op \in Operations, NEW n \in Name, Start(t, op, n)
      PROVE  WInv'
  <2>1. t \in Thread /\ thr \in [Thread -> Frame]
    BY DEF IInv, Types, Thread
  <2>2. /\ thr'[t].pc = "registry" /\ \A u \in Thread \ {t} : thr'[u] = thr[u]
        /\ UNCHANGED <<current, job>>
    BY <1>2, <2>1 DEF Start, Idle
  <2> QED
    BY <2>1, <2>2, FrameKeepsWInv
<1>3. ASSUME NEW p \in Pool, WarmupEnds(p)
      PROVE  WInv'
  BY <1>3 DEF WarmupEnds, WInv
<1>4. CASE UNCHANGED vars
  BY <1>4 DEF vars, WInv
<1> QED
  BY <1>1, <1>2, <1>3, <1>4, ContinueKeepsWInv, JobKeepsWInv DEF Next

LEMMA WaitsInductive == Spec => []WInv
<1>1. IInv /\ WInv /\ [Next]_vars => WInv'
  BY StepKeepsWInv
<1> QED
  BY <1>1, InitWaits, Inductive, PTL DEF Spec

LEMMA NoCircle ==
  ASSUME IInv, WInv
  PROVE  WaitsInOrder
<1>0. /\ conns \in [Registry -> [Name -> Pool \cup {None}]] /\ current \in Registry
      /\ rmu \in [Registry -> Thread \cup {None}] /\ cmu \in [Pool -> JobThread \cup {None}]
      /\ bmu \in Thread \cup {None} /\ job \in [JobThread -> JobState]
      /\ pool \in [Pool -> PoolState]
  BY DEF IInv, Types, PoolsOK
<1>1. \A p \in Pool : cmu[p] = None \/ VisitEnds(p)
  BY <1>0 DEF IInv, PoolLocks, VisitEnds
<1>2. ASSUME NEW u \in Thread, thr[u].pc \in RegistryPC
      PROVE  WillUnlock(u)
  <2>0. /\ thr[u].reg \in Registry
        /\ thr[u].pc \in {"close", "open", "ping"} => thr[u].name \in Name
        /\ thr[u].pc = "closeall" => thr[u].op \in {"reload", "shutdown"}
        /\ thr[u].pc = "close" => conns[thr[u].reg][thr[u].name] \in Pool
    BY <1>2, FrameIs DEF ShapeOK, FoundOK, RegistryPC
  <2>1. CASE thr[u].pc \in {"ping", "open"}
    BY <2>1 DEF WillUnlock, CanGo
  <2>2. CASE thr[u].pc = "close"
    BY <1>1, <2>0, <2>2 DEF WillUnlock, CanGo
  <2>3. CASE thr[u].pc = "closeall" /\ Mapped(thr[u].reg) = {}
    BY <2>0, <2>3 DEF WillUnlock, CanGo
  <2>4. CASE thr[u].pc = "closeall" /\ Mapped(thr[u].reg) # {}
    <3>1. PICK n \in Name : conns[thr[u].reg][n] # None
      BY <2>4 DEF Mapped
    <3>2. conns[thr[u].reg][n] \in Pool /\ conns[thr[u].reg][n] \in Mapped(thr[u].reg)
      BY <1>0, <2>0, <3>1 DEF Mapped
    <3> QED  BY <1>1, <2>4, <3>1, <3>2 DEF WillUnlock, CanGo
  <2> QED  BY <1>2, <2>1, <2>2, <2>3, <2>4 DEF RegistryPC
<1>3. \A reg \in Registry : RegistryComesFree(reg)
  <2> SUFFICES ASSUME NEW reg \in Registry, rmu[reg] # None  PROVE RegistryComesFree(reg)
    BY DEF RegistryComesFree
  <2>1. PICK u \in Thread : rmu[reg] = u
    BY <1>0
  <2>2. thr[u].pc \in RegistryPC
    BY <2>1 DEF IInv, RegistryLocks, HoldsRegistry
  <2> QED  BY <1>2, <2>1, <2>2 DEF RegistryComesFree
<1>4. ASSUME NEW t \in Thread, thr[t].pc = "await", NEW j \in Job
      PROVE  JobEnds(<<thr[t].reg, j>>) \/ (job[<<thr[t].reg, j>>].pc = "off" /\ j \notin StartedJobs)
  <2> DEFINE i == <<thr[t].reg, j>>
  <2>1. i \in JobThread /\ thr[t].reg = current
    BY <1>4, FrameIs DEF ShapeOK, ShutdownOK, JobThread
  <2>2. job[i].cancelled
    BY <1>4 DEF WInv
  <2>3. job[i].pc = "off" => j \notin StartedJobs
    BY <2>1 DEF WInv
  <2> HIDE DEF i
  <2>4. job[i].pc \in {"off", "wait", "visit", "locked", "stopped"} /\ job[i].todo \subseteq Pool
    BY <1>0, <2>1 DEF JobState
  <2>5. job[i].pc = "visit" => \E p \in job[i].todo : cmu[p] = None \/ VisitEnds(p)
    <3>1. job[i].pc = "visit" => job[i].todo # {}
      BY <2>1 DEF WInv
    <3> QED  BY <1>1, <2>4, <3>1
  <2>6. JobEnds(i) \/ (job[i].pc = "off" /\ j \notin StartedJobs)
    BY <2>2, <2>3, <2>4, <2>5 DEF JobEnds
  <2> QED  BY <2>6 DEF i
<1>5. ASSUME NEW t \in Thread, thr[t].pc \notin {"idle", "registry"}
      PROVE  GoesOn(t) \/ WaitsForNothing(t)
  <2>0. /\ thr[t].pc \in PC /\ thr[t].reg \in Registry
    BY <1>5, FrameIs DEF Frame, ShapeOK
  <2>1. CASE thr[t].pc \in {"load", "cancel"}
    BY <2>1 DEF GoesOn, CanGo
  <2>2. CASE thr[t].pc \in RegistryPC
    BY <1>2, <2>2 DEF GoesOn
  <2>3. CASE thr[t].pc \in {"add", "lock", "list", "get"}
    BY <1>3, <2>0, <2>3 DEF GoesOn
  <2>4. CASE thr[t].pc = "read"
    <3>1. thr[t].at \in Pool
      BY <2>4 DEF WInv
    <3> QED  BY <1>1, <2>4, <3>1 DEF GoesOn, CanGo
  <2>5. CASE thr[t].pc = "warm"
    <3>1. thr[t].at \in Pool
      BY <2>5 DEF WInv
    <3>2. pool[thr[t].at].warm \in {"never", "running", "done"}
      BY <1>0, <3>1 DEF PoolState
    <3> QED  BY <2>5, <3>2 DEF GoesOn, CanGo, WaitsForNothing
  <2>6. CASE thr[t].pc = "await"
    BY <1>3, <1>4, <2>0, <2>6 DEF GoesOn, WaitsForNothing
  <2> QED  BY <2>0, <1>5, <2>1, <2>2, <2>3, <2>4, <2>5, <2>6 DEF PC, RegistryPC
<1>6. ASSUME NEW t \in Thread, thr[t].pc = "registry"
      PROVE  \/ GoesOn(t)
             \/ \E u \in Thread : /\ bmu = u /\ thr[u].pc # "registry"
                                  /\ GoesOn(u) \/ WaitsForNothing(u)
  <2>1. CASE bmu = None
    BY <1>6, <2>1 DEF GoesOn, CanGo
  <2>2. CASE bmu # None
    <3>1. PICK u \in Thread : bmu = u
      BY <1>0, <2>2
    <3>2. thr[u].pc \notin {"idle", "registry"}
      BY <3>1 DEF IInv, BackendLock, HoldsBackend
    <3> QED  BY <1>5, <3>1, <3>2
  <2> QED  BY <2>1, <2>2
<1> QED
  BY <1>5, <1>6 DEF WaitsInOrder

\* The registry, for any number of requests, names, pools and jobs: each lock is
\* held by the one that is where it is held (every return path of AddConnection,
\* UpdateConnection, CheckHealth and Shutdown releases its locks), the map holds
\* made pools only, each once, what is healthy is open, and what the map gives
\* out is open as long as the idle cleanup is not started.  No one waits in a circle.
THEOREM RegistrySafe == Spec => []RegistryInv
<1>1. IInv /\ WInv => RegistryInv
  BY NoCircle
  DEF IInv, Types, RegistryInv, TypeOK, LockInv, RegistryLocks, BackendLock, PoolLocks, PoolsOK,
      HoldsRegistry, HoldsBackend, RegistryPC
<1> QED
  BY <1>1, Inductive, WaitsInductive, PTL

\* What the map gives out is open, and a health check that is late brings back
\* no closed pool as healthy: the parts of RegistryInv that CanOperate and the
\* handlers rely on.
THEOREM HealthySafe == Spec => [](HealthyIsOpen /\ MappedIsOpen)
<1>1. IInv => HealthyIsOpen /\ MappedIsOpen
  BY DEF IInv, PoolsOK
<1> QED
  BY <1>1, Inductive, PTL

-----------------------------------------------------------------------------
(* The backend starts one job of the three *)

\* No shutdown gets past its wait, so the registry is never replaced, and every
\* open pool is in its map.
LInv ==
  /\ current = FirstRegistry
  /\ \A t \in Thread : thr[t].reg \in {None, FirstRegistry} /\ thr[t].pc # "closeall"
  /\ \A p \in Pool : pool[p].open => \E n \in Name : conns[FirstRegistry][n] = p

\* Who makes a pool found no entry under its name.
LEMMA NewPoolIsMapped ==
  ASSUME IInv, LInv, NEW t \in Thread, thr[t].pc \in {"ping", "open"}, NEW p \in Unmade,
         pool' = [pool EXCEPT ![p] = NewPool(thr[t].name)],
         conns' = [conns EXCEPT ![thr[t].reg][thr[t].name] = p]
  PROVE  \A q \in Pool : pool'[q].open => \E n \in Name : conns'[FirstRegistry][n] = q
<1>1. /\ FirstRegistry \in Registry /\ thr[t].reg = FirstRegistry /\ thr[t].name \in Name
      /\ conns[FirstRegistry][thr[t].name] = None
      /\ conns \in [Registry -> [Name -> Pool \cup {None}]] /\ pool \in [Pool -> PoolState]
  BY FrameIs, NoneIsNobody DEF LInv, ShapeOK, FoundOK, IInv, PoolsOK
<1>2. \A n \in Name : conns'[FirstRegistry][n] = IF n = thr[t].name THEN p ELSE conns[FirstRegistry][n]
  BY <1>1
<1>3. \A q \in Pool : q # p => pool'[q] = pool[q]
  BY <1>1 DEF Unmade
<1> SUFFICES ASSUME NEW q \in Pool, pool'[q].open
             PROVE  \E n \in Name : conns'[FirstRegistry][n] = q
  OBVIOUS
<1>4. CASE q = p
  BY <1>1, <1>2, <1>4
<1>5. CASE q # p
  <2>1. PICK n \in Name : conns[FirstRegistry][n] = q
    BY <1>3, <1>5 DEF LInv
  <2>2. n # thr[t].name
    BY <1>1, <2>1, NoneIsNobody
  <2> QED
    BY <1>2, <2>1, <2>2
<1> QED
  BY <1>4, <1>5

\* The steps of threads that move neither the map nor the pools.
LEMMA FrameKeepsLInv ==
  ASSUME IInv, LInv, NEW t \in Thread, NEW g, thr' = [thr EXCEPT ![t] = g],
         UNCHANGED <<current, conns, pool>>,
         g.reg \in {None, FirstRegistry}, g.pc # "closeall"
  PROVE  LInv'
<1>1. \A u \in Thread : thr'[u] = IF u = t THEN g ELSE thr[u]
  BY DEF IInv, Types
<1> QED
  BY <1>1 DEF LInv

LEMMA ContinueKeepsLInv ==
  ASSUME StartedJobs # Job, IInv, LInv, NEW t \in Thread, Continue(t)
  PROVE  LInv'
<1>0. /\ thr[t] \in Frame /\ thr \in [Thread -> Frame] /\ thr[t].reg \in {None, FirstRegistry}
      /\ thr[t].pc # "closeall" /\ current = FirstRegistry /\ FirstRegistry \in Registry
      /\ conns \in [Registry -> [Name -> Pool \cup {None}]] /\ pool \in [Pool -> PoolState]
  BY FrameIs DEF LInv, IInv, Types, PoolsOK
<1>1. CASE LoadNext(t)
  <2>1. PICK n \in thr[t].todo :
          thr' = [thr EXCEPT ![t] = [[thr[t] EXCEPT !.todo = @ \ {n}] EXCEPT !.pc = "add", !.name = n]]
    BY <1>1 DEF LoadNext
  <2> DEFINE g == [[thr[t] EXCEPT !.todo = @ \ {n}] EXCEPT !.pc = "add", !.name = n]
  <2>2. g.reg = thr[t].reg /\ g.pc = "add" /\ UNCHANGED <<current, conns, pool>>
    BY <1>0, <1>1 DEF Frame, LoadNext
  <2>3. thr' = [thr EXCEPT ![t] = g]
    BY <2>1
  <2> HIDE DEF g
  <2> QED
    BY <1>0, <2>2, <2>3, FrameKeepsLInv
<1>2. CASE \/ LoadDone(t) \/ StatsDone(t)
  <2>1. Idle.reg = None /\ Idle.pc # "closeall"
    BY DEF Idle
  <2>2. thr' = [thr EXCEPT ![t] = Idle] /\ UNCHANGED <<current, conns, pool>>
    BY <1>2 DEF LoadDone, StatsDone, Return
  <2> QED
    BY <2>1, <2>2, FrameKeepsLInv
<1>3. CASE AddLock(t)
  <2>1. /\ UNCHANGED <<current, conns, pool>>
        /\ \/ \E p : thr' = [thr EXCEPT ![t].pc = "warm", ![t].at = p]
           \/ thr' = [thr EXCEPT ![t].pc = "ping"]
    BY <1>3 DEF AddLock, Goto
  <2>2. CASE \E p : thr' = [thr EXCEPT ![t].pc = "warm", ![t].at = p]
    <3>1. \A u \in Thread : thr'[u].reg = thr[u].reg /\ thr'[u].pc \in {thr[u].pc, "warm"}
      BY <1>0, <2>2 DEF Frame
    <3> QED
      BY <2>1, <3>1 DEF LInv
  <2>3. CASE thr' = [thr EXCEPT ![t].pc = "ping"]
    BY <1>0, <2>1, <2>3 DEF LInv, Frame
  <2> QED
    BY <2>1, <2>2, <2>3
<1>4. CASE AddPing(t)
  <2>1. thr[t].pc = "ping" /\ current' = current
    BY <1>4 DEF AddPing
  <2>2. \/ \E p : thr' = [thr EXCEPT ![t].pc = "warm", ![t].at = p]
        \/ thr' = [thr EXCEPT ![t].pc = "load", ![t].name = None]
    BY <1>4 DEF AddPing
  <2>3. \A u \in Thread : thr'[u].reg = thr[u].reg /\ thr'[u].pc \in {thr[u].pc, "warm", "load"}
    <3>1. CASE \E p : thr' = [thr EXCEPT ![t].pc = "warm", ![t].at = p]
      BY <1>0, <3>1 DEF Frame
    <3>2. CASE thr' = [thr EXCEPT ![t].pc = "load", ![t].name = None]
      BY <1>0, <3>2 DEF Frame
    <3> QED
      BY <2>2, <3>1, <3>2
  <2>4. \A p \in Pool : pool'[p].open => \E n \in Name : conns'[FirstRegistry][n] = p
    BY <1>4, <2>1, NewPoolIsMapped DEF AddPing, LInv
  <2> QED
    BY <2>1, <2>3, <2>4 DEF LInv
<1>5. CASE UpdateOpen(t)
  <2>1. /\ thr[t].pc = "open" /\ current' = current /\ thr' = [thr EXCEPT ![t] = Idle]
        /\ Idle.reg = None /\ Idle.pc = "idle"
    BY <1>5 DEF UpdateOpen, Return, Idle
  <2>2. \A p \in Pool : pool'[p].open => \E n \in Name : conns'[FirstRegistry][n] = p
    BY <1>5, <2>1, NewPoolIsMapped DEF UpdateOpen, LInv
  <2>3. \A u \in Thread : thr'[u] = IF u = t THEN Idle ELSE thr[u]
    BY <1>0, <2>1
  <2> QED
    BY <2>1, <2>2, <2>3 DEF LInv
<1>6. CASE UpdateClose(t)
  <2>1. /\ thr[t].pc = "close" /\ current' = current
        /\ pool' = [pool EXCEPT ![conns[thr[t].reg][thr[t].name]].open = FALSE,
                                ![conns[thr[t].reg][thr[t].name]].state = "closed"]
        /\ conns' = [conns EXCEPT ![thr[t].reg][thr[t].name] = None]
    BY <1>6 DEF UpdateClose, ClosePool
  <2>2. /\ thr[t].reg = FirstRegistry /\ thr[t].name \in Name
        /\ conns[FirstRegistry][thr[t].name] \in Pool
    BY <1>0, <2>1, FrameIs, NoneIsNobody DEF ShapeOK, FoundOK
  <2>3. ASSUME NEW p \in Pool, pool'[p].open
        PROVE  \E n \in Name : conns'[FirstRegistry][n] = p
    <3>1. pool[p].open /\ p # conns[FirstRegistry][thr[t].name]
      BY <1>0, <2>1, <2>2, <2>3 DEF PoolState
    <3>2. PICK n \in Name : conns[FirstRegistry][n] = p
      BY <3>1 DEF LInv
    <3>3. n # thr[t].name
      BY <3>1, <3>2
    <3> QED
      BY <1>0, <2>1, <2>2, <3>2, <3>3
  <2>4. \A u \in Thread : thr'[u].reg = thr[u].reg /\ thr'[u].pc \in {thr[u].pc, "open"}
    BY <1>0, <1>6 DEF UpdateClose, Goto, Frame
  <2>5. current' = current
    BY <2>1
  <2> QED
    BY <2>3, <2>4, <2>5 DEF LInv
<1>7. CASE ReadRegistry(t)
  <2> DEFINE g == [thr[t] EXCEPT !.reg = current, !.pc = IF thr[t].op = "update" THEN "lock" ELSE "list"]
  <2>1. /\ thr' = [thr EXCEPT ![t] = g] /\ g.reg = FirstRegistry /\ g.pc # "closeall"
        /\ UNCHANGED <<current, conns, pool>>
    BY <1>0, <1>7 DEF ReadRegistry, Frame
  <2> HIDE DEF g
  <2> QED
    BY <2>1, FrameKeepsLInv
<1>8. CASE ReloadLock(t)
  <2> DEFINE g == [thr[t] EXCEPT !.pc = "cancel", !.reg = current]
  <2>1. /\ thr' = [thr EXCEPT ![t] = g] /\ g.reg = FirstRegistry /\ g.pc # "closeall"
        /\ UNCHANGED <<current, conns, pool>>
    BY <1>0, <1>8 DEF ReloadLock, Frame
  <2> HIDE DEF g
  <2> QED
    BY <2>1, FrameKeepsLInv
<1>9. CASE WaitForWarmup(t)
  BY <1>0, <1>9 DEF WaitForWarmup, LInv, Frame
<1>10. CASE UpdateLock(t)
  BY <1>0, <1>10 DEF UpdateLock, Goto, LInv, Frame
<1>11. CASE ListConnections(t)
  BY <1>0, <1>11 DEF ListConnections, LInv, Frame
<1>12. CASE GetConnection(t)
  <2>1. PICK n \in thr[t].todo :
          thr' = [thr EXCEPT ![t] =
                   [thr[t] EXCEPT !.todo = @ \ {n}, !.at = conns[thr[t].reg][n],
                                  !.pc = IF conns[thr[t].reg][n] = None THEN "get" ELSE "read"]]
    BY <1>12 DEF GetConnection
  <2> DEFINE g == [thr[t] EXCEPT !.todo = @ \ {n}, !.at = conns[thr[t].reg][n],
                                 !.pc = IF conns[thr[t].reg][n] = None THEN "get" ELSE "read"]
  <2>2. g.reg = thr[t].reg /\ g.pc # "closeall" /\ UNCHANGED <<current, conns, pool>>
    BY <1>0, <1>12 DEF Frame, GetConnection
  <2>3. thr' = [thr EXCEPT ![t] = g]
    BY <2>1
  <2> HIDE DEF g
  <2> QED
    BY <1>0, <2>2, <2>3, FrameKeepsLInv
<1>13. CASE ReadStats(t)
  BY <1>0, <1>13 DEF ReadStats, LInv, Frame
<1>14. CASE ShutdownCancel(t)
  BY <1>0, <1>14 DEF ShutdownCancel, Goto, LInv, Frame
<1>15. ~ShutdownAwait(t)
  <2> SUFFICES ASSUME ShutdownAwait(t)
               PROVE  FALSE
    OBVIOUS
  <2>1. PICK i \in Job : i \notin StartedJobs
    BY RegistryAssumption
  <2>2. thr[t].reg \in Registry
    BY FrameIs DEF ShutdownAwait, ShapeOK
  <2>3. <<thr[t].reg, i>> \in JobThread /\ <<thr[t].reg, i>>[2] = i
    BY <2>2 DEF JobThread
  <2>4. job[<<thr[t].reg, i>>].pc = "off"
    BY <2>1, <2>3 DEF IInv, JobsOK
  <2> QED
    BY <2>4 DEF ShutdownAwait
<1>16. ~ShutdownClose(t) /\ ~ShutdownDone(t)
  BY <1>0 DEF ShutdownClose, ShutdownDone
<1> QED
  BY <1>1, <1>2, <1>3, <1>4, <1>5, <1>6, <1>7, <1>8, <1>9, <1>10, <1>11, <1>12,
     <1>13, <1>14, <1>15, <1>16 DEF Continue, Loading

LEMMA InitIsMapped == Init => LInv
BY NoneIsNobody DEF Init, LInv, Setup, Load, Idle, NoPools

LEMMA StepKeepsLInv ==
  ASSUME StartedJobs # Job, IInv, LInv, [Next]_vars
  PROVE  LInv'
<1>0. thr \in [Thread -> Frame] /\ pool \in [Pool -> PoolState]
  BY DEF IInv, Types, PoolsOK
<1>1. ASSUME NEW t \in Thread, PoolStatsPanic(t)
      PROVE  LInv'
  <2>1. Init'
    BY <1>1 DEF PoolStatsPanic, Init, Setup, FirstJobs, NoPools, NoConns
  <2> QED
    BY <2>1, InitIsMapped, PTL
<1>2. ASSUME NEW t \in Request, NEW op \in Operations, NEW n \in Name, Start(t, op, n)
      PROVE  LInv'
  <2> DEFINE g == [Idle EXCEPT !.op = op, !.pc = "registry", !.name = IF op = "update" THEN n ELSE None]
  <2>1. /\ t \in Thread /\ thr' = [thr EXCEPT ![t] = g] /\ g.reg = None /\ g.pc # "closeall"
        /\ UNCHANGED <<current, conns, pool>>
    BY <1>2 DEF Start, Idle, Thread
  <2> HIDE DEF g
  <2> QED
    BY <2>1, FrameKeepsLInv
<1>3. ASSUME UNCHANGED <<current, conns, thr>>, \A p \in Pool : pool'[p].open => pool[p].open
      PROVE  LInv'
  BY <1>3 DEF LInv
<1>4. ASSUME NEW j \in JobThread, JobStop(j) \/ RunJob(j)
      PROVE  LInv'
  <2>1. UNCHANGED <<current, conns, thr>>
    BY <1>4 DEF JobStop, RunJob, JobTick, JobLockPool, CheckHealth, CleanupIdleConnections,
                EnsureMinConnections, JobLeave
  <2>2. \A p \in Pool : pool'[p].open => pool[p].open
    <3>1. \/ pool' = pool
          \/ pool' = [pool EXCEPT ![job[j].at].state = "healthy"]
          \/ pool' = [pool EXCEPT ![job[j].at].state = "unhealthy"]
          \/ pool' = [pool EXCEPT ![job[j].at].open = FALSE, ![job[j].at].state = "closed"]
      BY <1>4 DEF JobStop, RunJob, JobTick, JobLockPool, CheckHealth, CleanupIdleConnections,
                  EnsureMinConnections, ClosePool
    <3> QED
      BY <1>0, <3>1 DEF PoolState
  <2> QED
    BY <1>3, <2>1, <2>2
<1>5. ASSUME NEW p \in Pool, WarmupEnds(p)
      PROVE  LInv'
  <2>1. UNCHANGED <<current, conns, thr>> /\ \A q \in Pool : pool'[q].open => pool[q].open
    BY <1>0, <1>5 DEF WarmupEnds, PoolState
  <2> QED
    BY <1>3, <2>1
<1>6. CASE UNCHANGED vars
  BY <1>3, <1>6 DEF vars
<1> QED
  BY <1>1, <1>2, <1>4, <1>5, <1>6, ContinueKeepsLInv DEF Next

\* Every open pool is in the map of the registry in use, under one name, as long
\* as a job of the three is not started: Shutdown then waits for ever and
\* the registry is never replaced.  The backend starts the health checks only.
THEOREM NothingLeaks ==
  ASSUME StartedJobs # Job
  PROVE  Spec => []NoLeakedPool
<1>1. Init => LInv
  BY InitIsMapped
<1>2. IInv /\ LInv /\ [Next]_vars => LInv'
  BY StepKeepsLInv
<1>3. IInv /\ LInv => NoLeakedPool
  <2> SUFFICES ASSUME IInv, LInv, NEW p \in Pool, pool[p].open
               PROVE  /\ \E n \in Name : conns[current][n] = p
                      /\ \A m, n \in Name : conns[current][m] = p /\ conns[current][n] = p => m = n
    BY DEF NoLeakedPool
  <2>1. MapInv /\ current \in Registry /\ p # None
    BY NoneIsNobody DEF IInv, PoolsOK, Types
  <2> QED
    BY <2>1 DEF MapInv, LInv
<1> QED
  BY <1>1, <1>2, <1>3, Inductive, PTL DEF Spec

\* A request that has reached the wait of Shutdown stays there with b.mu, until the
\* process starts again.
StaysBlocked(t) == thr[t].pc = "await" => (thr'[t] = thr[t] /\ bmu = t /\ bmu' = t)

LEMMA ThreadLeavesBlocked ==
  ASSUME StartedJobs # Job, IInv, LInv, NEW t \in Thread, thr[t].pc = "await",
         NEW u \in Thread, Continue(u)
  PROVE  StaysBlocked(t)
<1>0. /\ thr[t] \in Frame /\ thr \in [Thread -> Frame] /\ ShapeOK(thr[t]) /\ thr[u].pc # "closeall"
  BY FrameIs DEF LInv, IInv, Types
<1>1. bmu = t
  BY <1>0 DEF IInv, BackendLock, HoldsBackend, ShapeOK
<1>2. ~ShutdownAwait(u)
  <2> SUFFICES ASSUME ShutdownAwait(u)
               PROVE  FALSE
    OBVIOUS
  <2>1. PICK i \in Job : i \notin StartedJobs
    BY RegistryAssumption
  <2>2. thr[u].reg \in Registry
    BY FrameIs DEF ShutdownAwait, ShapeOK
  <2>3. <<thr[u].reg, i>> \in JobThread /\ <<thr[u].reg, i>>[2] = i
    BY <2>2 DEF JobThread
  <2>4. job[<<thr[u].reg, i>>].pc = "off"
    BY <2>1, <2>3 DEF IInv, JobsOK
  <2> QED
    BY <2>4 DEF ShutdownAwait
<1>3. ~ShutdownClose(u) /\ ~ShutdownDone(u)
  BY <1>0 DEF ShutdownClose, ShutdownDone
<1>4. bmu # None
  BY <1>1, NoneIsNobody
<1>5. thr[u].pc # "await" /\ ~ReloadLock(u)
  BY <1>2, <1>3, <1>4
  DEF Continue, Loading, LoadNext, LoadDone, AddLock, AddPing, WaitForWarmup, ReadRegistry,
      UpdateLock, UpdateClose, UpdateOpen, ListConnections, GetConnection, ReadStats, StatsDone,
      ReloadLock, ShutdownCancel
<1>6. u # t
  BY <1>5
<1>7. bmu' = bmu
  BY <1>1, <1>2, <1>3, <1>5, <1>6
  DEF Continue, Loading, LoadNext, LoadDone, AddLock, AddPing, WaitForWarmup, ReadRegistry,
      UpdateLock, UpdateClose, UpdateOpen, ListConnections, GetConnection, ReadStats, StatsDone,
      ShutdownCancel
<1>8. \E g : thr' = [thr EXCEPT ![u] = g]
  BY <1>2, <1>3, <1>5
  DEF Continue, Loading, LoadNext, LoadDone, AddLock, AddPing, WaitForWarmup, ReadRegistry,
      UpdateLock, UpdateClose, UpdateOpen, ListConnections, GetConnection, ReadStats, StatsDone,
      ShutdownCancel, Goto, Return
<1> QED
  BY <1>0, <1>1, <1>6, <1>7, <1>8 DEF StaysBlocked

\* pathReloadPluginHandler and Backend.Shutdown wait, with b.mu, for the done
\* channels of jobs that were never started: while a job of the three is not
\* started, as in the plugin as built, no step of any request or job ends that wait
\* or gives b.mu back; a panic that restarts the process does.
THEOREM ReloadKeepsTheLock ==
  ASSUME StartedJobs # Job
  PROVE  Spec => [][\A t \in Thread : StaysBlocked(t) \/ \E u \in Thread : PoolStatsPanic(u)]_vars
<1>1. Init => LInv
  BY InitIsMapped
<1>2. IInv /\ LInv /\ [Next]_vars => LInv'
  BY StepKeepsLInv
<1>3. IInv /\ LInv /\ [Next]_vars
        => [\A t \in Thread : StaysBlocked(t) \/ \E u \in Thread : PoolStatsPanic(u)]_vars
  <2> SUFFICES ASSUME IInv, LInv, Next, NEW t \in Thread, thr[t].pc = "await",
                      \A u \in Thread : ~PoolStatsPanic(u)
               PROVE  StaysBlocked(t)
    BY DEF StaysBlocked
  <2>1. bmu = t /\ thr \in [Thread -> Frame]
    BY FrameIs DEF IInv, Types, BackendLock, HoldsBackend, ShapeOK
  <2>2. ASSUME NEW u \in Request, NEW op \in Operations, NEW n \in Name, Start(u, op, n)
        PROVE  StaysBlocked(t)
    BY <2>1, <2>2 DEF Start, StaysBlocked
  <2>3. ASSUME UNCHANGED <<bmu, thr>>
        PROVE  StaysBlocked(t)
    BY <2>1, <2>3 DEF StaysBlocked
  <2>4. ASSUME NEW j \in JobThread, JobStop(j) \/ RunJob(j)
        PROVE  StaysBlocked(t)
    BY <2>3, <2>4 DEF JobStop, RunJob, JobTick, JobLockPool, CheckHealth, CleanupIdleConnections,
                      EnsureMinConnections, JobLeave
  <2>5. ASSUME NEW p \in Pool, WarmupEnds(p)
        PROVE  StaysBlocked(t)
    BY <2>3, <2>5 DEF WarmupEnds
  <2> QED
    BY <2>2, <2>4, <2>5, ThreadLeavesBlocked DEF Next
<1> QED
  BY <1>1, <1>2, <1>3, Inductive, PTL DEF Spec
-----------------------------------------------------------------------------
(* Setup *)

\* While the plugin is being set up nothing is served, and no request is there.
SetupAlone ==
  \A t \in Thread : thr[t].op = "setup" =>
    ~serving /\ \A u \in Thread : u # t => thr[u] = Idle

LEMMA StepKeepsSetupAlone ==
  ASSUME IInv, SetupAlone, [Next]_vars
  PROVE  SetupAlone'
<1>1. thr \in [Thread -> Frame] /\ \A t \in Thread : ShapeOK(thr[t])
  BY FrameIs DEF IInv, Types
<1>2. ASSUME NEW t \in Thread, Continue(t)
      PROVE  SetupAlone'
  <2>1. thr[t].pc # "idle"
    BY <1>2 DEF Continue, Loading, LoadNext, LoadDone, AddLock, AddPing, WaitForWarmup, ReadRegistry,
                UpdateLock, UpdateClose, UpdateOpen, ListConnections, GetConnection, ReadStats,
                StatsDone, ReloadLock, ShutdownCancel, ShutdownAwait, ShutdownClose, ShutdownDone
  <2>2. \A u \in Thread : u # t => thr'[u] = thr[u]
    BY <1>1, <1>2
    DEF Continue, Loading, LoadNext, LoadDone, AddLock, AddPing, WaitForWarmup, ReadRegistry,
        UpdateLock, UpdateClose, UpdateOpen, ListConnections, GetConnection, ReadStats,
        StatsDone, ReloadLock, ShutdownCancel, ShutdownAwait, ShutdownClose, ShutdownDone,
        Goto, Return
  <2>3. thr'[t].op = "setup" => thr[t].op = "setup" /\ ~LoadDone(t)
    <3>1. CASE LoadDone(t) \/ ShutdownDone(t)
      <4>1. \/ thr' = [thr EXCEPT ![t] = Idle]
            \/ \E reg \in Unused : thr' = [thr EXCEPT ![t] = Load("reload", reg)]
        BY <3>1 DEF LoadDone, ShutdownDone, Return
      <4>2. Idle.op = "none" /\ \A reg : Load("reload", reg).op = "reload"
        BY DEF Load, Idle
      <4> QED  BY <1>1, <4>1, <4>2
    <3>2. CASE ~LoadDone(t) /\ ~ShutdownDone(t)
      <4>1. Idle.op = "none" /\ DOMAIN thr = Thread /\ thr = [u \in Thread |-> thr[u]]
        BY <1>1 DEF Idle
      <4>2. ASSUME LoadNext(t) \/ AddLock(t) \/ AddPing(t) \/ WaitForWarmup(t)
            PROVE  thr'[t].op = thr[t].op
        <5>1. CASE LoadNext(t)
          <6>1. PICK n \in thr[t].todo :
                  thr' = [thr EXCEPT ![t] = [[thr[t] EXCEPT !.todo = @ \ {n}] EXCEPT !.pc = "add", !.name = n]]
            BY <5>1 DEF LoadNext
          <6>2. thr'[t] = [[thr[t] EXCEPT !.todo = @ \ {n}] EXCEPT !.pc = "add", !.name = n]
            BY <4>1, <6>1
          <6> QED  BY <1>1, <6>2 DEF Frame
        <5>2. CASE AddLock(t)
          BY <1>1, <4>1, <5>2 DEF AddLock, Goto, Frame
        <5>3. CASE AddPing(t)
          BY <1>1, <4>1, <5>3 DEF AddPing, Frame
        <5>4. CASE WaitForWarmup(t)
          BY <1>1, <4>1, <5>4 DEF WaitForWarmup, Frame
        <5> QED  BY <4>2, <5>1, <5>2, <5>3, <5>4
      <4>3. ASSUME UpdateLock(t) \/ ReadRegistry(t) \/ ListConnections(t) \/ GetConnection(t)
                   \/ ReadStats(t)
            PROVE  thr'[t].op = thr[t].op
        BY <1>1, <4>3 DEF UpdateLock, ReadRegistry, ListConnections, GetConnection, ReadStats, Goto,
                          Frame
      <4>4. ASSUME ReloadLock(t) \/ ShutdownCancel(t) \/ ShutdownAwait(t) \/ ShutdownClose(t)
            PROVE  thr'[t].op = thr[t].op
        BY <1>1, <4>4 DEF ReloadLock, ShutdownCancel, ShutdownAwait, ShutdownClose, Goto, Frame
      <4>5. ASSUME UpdateClose(t) \/ UpdateOpen(t) \/ StatsDone(t)
            PROVE  thr'[t].op \in {thr[t].op, "none"}
        BY <1>1, <4>1, <4>5 DEF UpdateClose, UpdateOpen, StatsDone, Goto, Return, Frame
      <4> QED
        BY <1>2, <3>2, <4>2, <4>3, <4>4, <4>5 DEF Continue, Loading
    <3> QED  BY <3>1, <3>2
  <2>4. ~LoadDone(t) => (serving' => serving)
    BY <1>2
    DEF Continue, Loading, LoadNext, AddLock, AddPing, WaitForWarmup, ReadRegistry,
        UpdateLock, UpdateClose, UpdateOpen, ListConnections, GetConnection, ReadStats,
        StatsDone, ReloadLock, ShutdownCancel, ShutdownAwait, ShutdownClose, ShutdownDone
  <2>5. Idle.pc = "idle"
    BY DEF Idle
  <2> QED
    BY <2>1, <2>2, <2>3, <2>4, <2>5 DEF SetupAlone
<1>3. ASSUME NEW t \in Thread, PoolStatsPanic(t)
      PROVE  SetupAlone'
  <2>1. serving' = FALSE /\ thr' = Setup
    BY <1>3 DEF PoolStatsPanic
  <2> QED  BY <2>1 DEF Setup, SetupAlone, Idle
<1>4. ASSUME NEW t \in Request, NEW op \in Operations, NEW n \in Name, Start(t, op, n)
      PROVE  SetupAlone'
  <2>1. serving /\ \A u \in Thread : thr[u].op # "setup"
    BY <1>4 DEF Start, SetupAlone
  <2>2. op # "setup"
    BY RegistryAssumption
  <2>3. \A u \in Thread : thr'[u].op # "setup"
    BY <1>1, <1>4, <2>1, <2>2 DEF Start, Idle, Thread
  <2> QED  BY <2>3 DEF SetupAlone
<1>5. ASSUME UNCHANGED <<serving, thr>>
      PROVE  SetupAlone'
  BY <1>5 DEF SetupAlone
<1>6. ASSUME NEW j \in JobThread, JobStop(j) \/ RunJob(j)
      PROVE  SetupAlone'
  BY <1>5, <1>6 DEF JobStop, RunJob, JobTick, JobLockPool, CheckHealth, CleanupIdleConnections,
                    EnsureMinConnections, JobLeave
<1>7. ASSUME NEW p \in Pool, WarmupEnds(p)
      PROVE  SetupAlone'
  BY <1>5, <1>7 DEF WarmupEnds
<1>8. CASE UNCHANGED vars
  BY <1>5, <1>8 DEF vars
<1> QED
  BY <1>2, <1>3, <1>4, <1>6, <1>7, <1>8 DEF Next

\* Setup waits for the warm-up of a pool that has none.
SetupHangs(t) ==
  /\ thr[t].op = "setup" /\ thr[t].pc = "warm" /\ pool[thr[t].at].warm = "never"
  /\ ~serving

SetupHangsForGood == [][\A t \in Thread : SetupHangs(t) => SetupHangs(t)']_vars

\* AddConnection closes warmupDone only if min_connections is above 0, and prewarmPools
\* waits for it in any case: once Setup waits for a pool without a warm-up no step
\* of anyone ends that wait, and the plugin never serves a request.
THEOREM SetupWithoutWarmupHangs == Spec => SetupHangsForGood
<1>1. Init => SetupAlone
  BY DEF Init, Setup, SetupAlone, Idle
<1>2. IInv /\ SetupAlone /\ [Next]_vars => SetupAlone'
  BY StepKeepsSetupAlone
<1>3. IInv /\ WInv /\ SetupAlone => [Next => \A t \in Thread : SetupHangs(t) => SetupHangs(t)']_vars
  <2> SUFFICES ASSUME IInv, WInv, SetupAlone, Next, NEW t \in Thread, SetupHangs(t)
               PROVE  SetupHangs(t)'
    OBVIOUS
  <2>1. thr[t].at \in Pool /\ pool \in [Pool -> PoolState]
    BY DEF WInv, SetupHangs, IInv, PoolsOK
  <2>2. ASSUME NEW u \in Thread, Continue(u) \/ PoolStatsPanic(u)
        PROVE  FALSE
    <3>1. thr[u].pc \in {"idle", "warm"}
      BY DEF SetupAlone, SetupHangs, Idle
    <3>2. WaitForWarmup(u)
      BY <2>2, <3>1
      DEF Continue, Loading, LoadNext, LoadDone, AddLock, AddPing, ReadRegistry,
          UpdateLock, UpdateClose, UpdateOpen, ListConnections, GetConnection, ReadStats,
          StatsDone, ReloadLock, ShutdownCancel, ShutdownAwait, ShutdownClose, ShutdownDone,
          PoolStatsPanic
    <3>3. u = t
      BY <3>2 DEF WaitForWarmup, SetupAlone, SetupHangs, Idle
    <3> QED  BY <3>2, <3>3 DEF WaitForWarmup, SetupHangs
  <2>3. ASSUME NEW u \in Request, NEW op \in Operations, NEW n \in Name, Start(u, op, n)
        PROVE  FALSE
    BY <2>3 DEF Start, SetupHangs
  <2>4. ASSUME NEW j \in JobThread, JobStop(j) \/ RunJob(j)
        PROVE  SetupHangs(t)'
    <3>1. UNCHANGED <<serving, thr>>
      BY <2>4 DEF JobStop, RunJob, JobTick, JobLockPool, CheckHealth, CleanupIdleConnections,
                  EnsureMinConnections, JobLeave
    <3>2. \/ pool' = pool
          \/ pool' = [pool EXCEPT ![job[j].at].state = "healthy"]
          \/ pool' = [pool EXCEPT ![job[j].at].state = "unhealthy"]
          \/ pool' = [pool EXCEPT ![job[j].at].open = FALSE, ![job[j].at].state = "closed"]
      BY <2>4 DEF JobStop, RunJob, JobTick, JobLockPool, CheckHealth, CleanupIdleConnections,
                  EnsureMinConnections, ClosePool
    <3>3. pool'[thr[t].at].warm = pool[thr[t].at].warm
      BY <2>1, <3>2 DEF PoolState
    <3> QED  BY <3>1, <3>3 DEF SetupHangs
  <2>5. ASSUME NEW p \in Pool, WarmupEnds(p)
        PROVE  SetupHangs(t)'
    <3>1. p # thr[t].at
      BY <2>5 DEF WarmupEnds, SetupHangs
    <3>2. pool'[thr[t].at] = pool[thr[t].at]
      BY <2>1, <2>5, <3>1 DEF WarmupEnds
    <3> QED  BY <2>5, <3>2 DEF WarmupEnds, SetupHangs
  <2> QED
    BY <2>2, <2>3, <2>4, <2>5 DEF Next
<1> QED
  BY <1>1, <1>2, <1>3, Inductive, WaitsInductive, PTL DEF Spec, SetupHangsForGood
=============================================================================
