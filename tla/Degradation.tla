----------------------------- MODULE Degradation -----------------------------
(***************************************************************************)
(* Graceful degradation (src/plugin/backend.go, path_operational.go): two  *)
(* flags and the time since which the plugin is degraded, written by health *)
(* reads and by degradation updates, and the gate in front of every         *)
(* creation of credentials (path_creds.go), which asks the flags and the    *)
(* health of the pools.                                                     *)
(*                                                                         *)
(* b.mu and the locks of the registry protect single reads and writes only: *)
(* each of them is a step, and the pools change between any two.            *)
(***************************************************************************)
EXTENDS Naturals, FiniteSets

CONSTANTS
  Operator,   \* requests to health and degradation
  Creator,    \* requests to create credentials
  Region,     \* names of configurations, each with at most one pool
  Default,    \* the region of a role that names none: no pool has that name
  NoRegion,   \* of a request that is no gate
  MaxTime     \* bound on the clock

Client == Operator \cup Creator

ASSUME DefaultHasNoPool == Default \notin Region /\ NoRegion \notin Region \cup {Default}

ASSUME TimeAssumption == MaxTime \in Nat

VARIABLES
  pool,       \* [Region -> "absent", "up" or "down"]: the registry
  degraded,   \* b.gracefulDegradation
  manual,     \* b.manuallyEnabledDegradation
  since,      \* b.degradedSince, 0 when it is the zero time
  now,        \* the clock
  pc,         \* [Client -> where its request is]
  region,     \* [Creator -> the region its gate asks for]
  todo,       \* [Client -> pools of its list it has still to look at]
  sick,       \* clients that looked at a pool that was not healthy
  some,       \* clients whose list was not empty
  alwaysUp,   \* history: creators whose own pool was up ever since their gate began
  everUp,     \* history: creators whose own pool was up at some time since
  alwaysDown  \* history: [Creator -> pools registered but not up ever since]

flags == <<degraded, manual, since>>
environment == <<pool, now>>
history == <<alwaysUp, everUp, alwaysDown>>
local == <<region, todo, sick, some>>
vars == <<flags, environment, pc, local, history>>

Registered == {r \in Region : pool[r] # "absent"}
Up == {r \in Region : pool[r] = "up"}
Down == {r \in Region : pool[r] = "down"}

\* IsPoolHealthy
Healthy(r) == r \in Up

Init ==
  /\ pool \in [Region -> {"absent", "up", "down"}]
  /\ degraded = FALSE
  /\ manual = FALSE
  /\ since = 0
  /\ now = 1
  /\ pc = [c \in Client |-> "idle"]
  /\ region = [c \in Creator |-> NoRegion]
  /\ todo = [c \in Client |-> {}]
  /\ sick = {}
  /\ some = {}
  /\ alwaysUp = {}
  /\ everUp = {}
  /\ alwaysDown = [c \in Creator |-> {}]

Goto(c, there) == pc' = [pc EXCEPT ![c] = there]
At(c, here) == pc[c] = here

-----------------------------------------------------------------------------
(* The setters, each under b.mu *)

\* Mutation of SetGracefulDegradation: every report of trouble restarts the time.
SetGracefulRestarting(enabled) ==
  /\ since' = IF enabled THEN now ELSE 0
  /\ degraded' = enabled
  /\ UNCHANGED manual

SetGracefulDegradation(enabled) ==
  /\ since' = IF ~enabled THEN 0 ELSE IF degraded THEN since ELSE now
  /\ degraded' = enabled
  /\ UNCHANGED manual

\* Mutation of SetManuallyEnabledDegradation: the time is not set.
SetManuallyWithoutTime(enabled) ==
  /\ manual' = enabled
  /\ degraded' = (enabled \/ degraded)
  /\ UNCHANGED since

SetManuallyEnabledDegradation(enabled) ==
  /\ manual' = enabled
  /\ degraded' = (enabled \/ degraded)
  /\ since' = IF enabled /\ since = 0 THEN now ELSE since

-----------------------------------------------------------------------------
(* ListConnections, and the loop over what it returned: a pool that was removed *)
(* meanwhile is not healthy                                                     *)

\* The loop is over, and what it found with it.
Forget(c) ==
  /\ todo' = [todo EXCEPT ![c] = {}]
  /\ sick' = sick \ {c}
  /\ some' = some \ {c}

List(c) ==
  /\ todo' = [todo EXCEPT ![c] = Registered]
  /\ sick' = sick \ {c}
  /\ some' = IF Registered = {} THEN some \ {c} ELSE some \cup {c}

LookAt(c, r) ==
  /\ r \in todo[c]
  /\ todo' = [todo EXCEPT ![c] = @ \ {r}]
  /\ sick' = IF Healthy(r) THEN sick ELSE sick \cup {c}
  /\ UNCHANGED some

-----------------------------------------------------------------------------
(* pathHealthRead *)

\* The configuration is read, which any write may have changed: without one the
\* request is answered at once, with graceful_degradation_mode it sets the flag.
HealthBegin(c) ==
  /\ At(c, "idle")
  /\ Goto(c, "health list") \/ Goto(c, "health mode")
  /\ UNCHANGED <<flags, environment, local, history>>

HealthMode(c) ==
  /\ At(c, "health mode")
  /\ SetGracefulDegradation(TRUE)
  /\ Goto(c, "health list")
  /\ UNCHANGED <<environment, local, history>>

HealthList(c) ==
  /\ At(c, "health list")
  /\ List(c)
  /\ Goto(c, "health loop")
  /\ UNCHANGED <<flags, environment, region, history>>

HealthLook(c) ==
  /\ At(c, "health loop")
  /\ \E r \in Region : LookAt(c, r)
  /\ UNCHANGED <<flags, environment, pc, region, history>>

\* No pool at all changes nothing.
HealthEnd(c) ==
  /\ At(c, "health loop")
  /\ todo[c] = {}
  /\ \/ c \in sick /\ SetGracefulDegradation(TRUE)
     \/ c \notin sick /\ c \in some /\ SetGracefulDegradation(FALSE)
     \/ c \notin some /\ UNCHANGED flags
  /\ Forget(c)
  /\ Goto(c, "idle")
  /\ UNCHANGED <<environment, region, history>>

-----------------------------------------------------------------------------
(* pathDegradationUpdate: switching off is two writes *)

DegradationOn(c) ==
  /\ At(c, "idle")
  /\ SetManuallyEnabledDegradation(TRUE)
  /\ UNCHANGED <<environment, pc, local, history>>

DegradationOff(c) ==
  /\ At(c, "idle")
  /\ SetGracefulDegradation(FALSE)
  /\ Goto(c, "off")
  /\ UNCHANGED <<environment, local, history>>

DegradationOffManual(c) ==
  /\ At(c, "off")
  /\ SetManuallyEnabledDegradation(FALSE)
  /\ Goto(c, "idle")
  /\ UNCHANGED <<environment, local, history>>

-----------------------------------------------------------------------------
(* The gate of pathCredsRead and of the batch creation *)

GateBegin(c) ==
  /\ At(c, "idle")
  /\ \E r \in Region \cup {Default} :
       /\ region' = [region EXCEPT ![c] = r]
       /\ alwaysUp' = IF Healthy(r) THEN alwaysUp \cup {c} ELSE alwaysUp
       /\ everUp' = IF Healthy(r) THEN everUp \cup {c} ELSE everUp
  /\ Goto(c, "gate")
  /\ alwaysDown' = [alwaysDown EXCEPT ![c] = Down]
  /\ UNCHANGED <<flags, environment, todo, sick, some>>

\* ShouldUseDegradation
GateFlags(c) ==
  /\ At(c, "gate")
  /\ Goto(c, IF degraded \/ manual THEN "all list" ELSE "gate own")
  /\ UNCHANGED <<flags, environment, local, history>>

GateOwn(c) ==
  /\ At(c, "gate own")
  /\ Goto(c, IF Healthy(region[c]) THEN "passed" ELSE "all list")
  /\ UNCHANGED <<flags, environment, local, history>>

\* CanOperate: AreAllPoolsHealthy, which stops at the first that is not ...
AllList(c) ==
  /\ At(c, "all list")
  /\ List(c)
  /\ Goto(c, "all loop")
  /\ UNCHANGED <<flags, environment, region, history>>

AllLook(c) ==
  /\ At(c, "all loop")
  /\ c \notin sick
  /\ \E r \in Region : LookAt(c, r)
  /\ UNCHANGED <<flags, environment, pc, region, history>>

AllEnd(c) ==
  /\ At(c, "all loop")
  /\ todo[c] = {} \/ c \in sick
  /\ Goto(c, IF c \notin sick /\ c \in some THEN "passed" ELSE "status list")
  /\ Forget(c)
  /\ UNCHANGED <<flags, environment, region, history>>

\* ... then GetDegradationStatus, with a list of its own ...
StatusList(c) ==
  /\ At(c, "status list")
  /\ List(c)
  /\ Goto(c, "status loop")
  /\ UNCHANGED <<flags, environment, region, history>>

StatusLook(c) ==
  /\ At(c, "status loop")
  /\ \E r \in Region : LookAt(c, r)
  /\ UNCHANGED <<flags, environment, pc, region, history>>

\* Mutation of StatusEnd: the region's own pool is not asked again.
StatusEndForAll(c) ==
  /\ At(c, "status loop")
  /\ todo[c] = {}
  /\ Goto(c, IF c \in sick THEN "refused" ELSE "passed")
  /\ Forget(c)
  /\ UNCHANGED <<flags, environment, region, history>>

StatusEnd(c) ==
  /\ At(c, "status loop")
  /\ todo[c] = {}
  /\ Goto(c, IF c \notin sick THEN "passed" ELSE IF region[c] = Default THEN "refused" ELSE "last")
  /\ Forget(c)
  /\ UNCHANGED <<flags, environment, region, history>>

\* Mutation of GateLast: being registered is enough.
GateLastRegistered(c) ==
  /\ At(c, "last")
  /\ Goto(c, IF region[c] \in Registered THEN "passed" ELSE "refused")
  /\ UNCHANGED <<flags, environment, local, history>>

\* ... and at last the region's own pool.
GateLast(c) ==
  /\ At(c, "last")
  /\ Goto(c, IF Healthy(region[c]) THEN "passed" ELSE "refused")
  /\ UNCHANGED <<flags, environment, local, history>>

\* The creation goes on, or is answered with an error.
GateAnswer(c) ==
  /\ pc[c] \in {"passed", "refused"}
  /\ Goto(c, "idle")
  /\ region' = [region EXCEPT ![c] = NoRegion]
  /\ alwaysUp' = alwaysUp \ {c}
  /\ everUp' = everUp \ {c}
  /\ alwaysDown' = [alwaysDown EXCEPT ![c] = {}]
  /\ UNCHANGED <<flags, environment, todo, sick, some>>

-----------------------------------------------------------------------------
(* Everything else *)

\* A health check changes what a pool says of itself; an update of the registry
\* adds a pool, or leaves the name without one.
PoolChanges ==
  /\ \E r \in Region, s \in {"absent", "up", "down"} : pool' = [pool EXCEPT ![r] = s]
  /\ alwaysUp' = {c \in alwaysUp : region[c] \in Up'}
  /\ everUp' = everUp \cup {c \in Creator : region[c] \in Up'}
  /\ alwaysDown' = [c \in Creator |-> alwaysDown[c] \cap Down']
  /\ UNCHANGED <<flags, now, pc, local>>

Tick ==
  /\ now < MaxTime
  /\ now' = now + 1
  /\ UNCHANGED <<flags, pool, pc, local, history>>

\* The steps of a request that has begun.
HealthGoes(c) == HealthMode(c) \/ HealthList(c) \/ HealthLook(c) \/ HealthEnd(c)

GateGoes(c) ==
  \/ GateFlags(c) \/ GateOwn(c) \/ AllList(c) \/ AllLook(c) \/ AllEnd(c)
  \/ StatusList(c) \/ StatusLook(c) \/ StatusEnd(c) \/ GateLast(c) \/ GateAnswer(c)

Next ==
  \/ \E c \in Operator :
       \/ HealthBegin(c) \/ HealthGoes(c)
       \/ DegradationOn(c) \/ DegradationOff(c) \/ DegradationOffManual(c)
  \/ \E c \in Creator : GateBegin(c) \/ GateGoes(c)
  \/ PoolChanges \/ Tick

Spec == Init /\ [][Next]_vars

-----------------------------------------------------------------------------
(* What holds of the code *)

Gates == {"gate", "gate own", "all list", "all loop", "status list", "status loop", "last",
          "passed", "refused"}

\* Every variable has its type; only a gate has a region.
TypeOK ==
  /\ pool \in [Region -> {"absent", "up", "down"}]
  /\ degraded \in BOOLEAN
  /\ manual \in BOOLEAN
  /\ since \in 0..now
  /\ now \in Nat \ {0}
  /\ pc \in [Client -> {"idle", "health mode", "health list", "health loop", "off"} \cup Gates]
  /\ region \in [Creator -> Region \cup {Default, NoRegion}]
  /\ todo \in [Client -> SUBSET Region]
  /\ sick \subseteq Client
  /\ some \subseteq Client
  /\ alwaysUp \subseteq everUp
  /\ everUp \subseteq Creator
  /\ alwaysDown \in [Creator -> SUBSET Region]
  /\ \A c \in Creator : pc[c] \in Gates <=> region[c] # NoRegion

\* Whatever sets the two flags, and in whatever order: the plugin has a time since
\* which it is degraded exactly while it is.
SinceWhileDegraded == degraded <=> since # 0

\* What every health read, degradation update and gate leaves as it should be: the
\* types, and the flags in step with their time.
DegradationInv == TypeOK /\ SinceWhileDegraded

\* The time is that of the beginning: what finds the plugin degraded, or switches
\* degradation on once more, does not restart it.
SinceIsTheBeginning == [][degraded /\ degraded' => since' = since]_vars

\* A region whose pool was up all the time is never refused, whatever the flags
\* said and whichever other pools went down between the reads of the gate.
HealthyRegionServed ==
  \A c \in Creator : pc[c] = "refused" => c \notin alwaysUp

\* A creation goes on only if its own pool was up at some time, or there was no
\* pool that was down all the time.
DownRegionRefused ==
  \A c \in Creator : pc[c] = "passed" => c \in everUp \/ alwaysDown[c] = {}
=============================================================================
