------------------------- MODULE Degradation_proofs -------------------------
(* The gate and the flags, for any number of requests and of pools           *)
EXTENDS Degradation, TLAPS

-----------------------------------------------------------------------------
(* The strengthening *)

\* What a gate knows of its pools: a loop that has found nothing wrong has still
\* to look at every pool that was down all the time.
GateInv ==
  \A c \in Creator :
    /\ c \in alwaysUp => region[c] \in Up
    /\ region[c] \in Up => c \in everUp
    /\ alwaysDown[c] \subseteq Down
    /\ pc[c] \in {"all loop", "status loop"} /\ c \notin sick => alwaysDown[c] \subseteq todo[c]
    /\ pc[c] = "refused" => c \notin alwaysUp
    /\ pc[c] = "passed" => c \in everUp \/ alwaysDown[c] = {}

\* The flags have a time, and the time is one that has been.
FlagsInv ==
  /\ degraded \in BOOLEAN
  /\ manual \in BOOLEAN
  /\ since \in 0..now
  /\ now \in Nat \ {0}
  /\ SinceWhileDegraded

-----------------------------------------------------------------------------
(* The flags: every step leaves them, or is one of two setters *)

FlagStep ==
  \/ UNCHANGED flags /\ (now' = now \/ now' = now + 1)
  \/ now' = now /\ \E enabled \in BOOLEAN :
       SetGracefulDegradation(enabled) \/ SetManuallyEnabledDegradation(enabled)

LEMMA OnlyTheSetters == [Next]_vars => FlagStep
<1> SUFFICES ASSUME [Next]_vars PROVE FlagStep
  OBVIOUS
<1> USE DEF FlagStep, flags, environment
<1>1. ASSUME NEW c \in Operator, HealthMode(c) \/ HealthEnd(c) \/ DegradationOn(c)
             \/ DegradationOff(c) \/ DegradationOffManual(c)
      PROVE  FlagStep
  BY <1>1, Zenon DEF HealthMode, HealthEnd, DegradationOn, DegradationOff, DegradationOffManual
<1>2. ASSUME NEW c \in Operator, HealthBegin(c) \/ HealthList(c) \/ HealthLook(c)
      PROVE  FlagStep
  BY <1>2 DEF HealthBegin, HealthList, HealthLook
<1>3. ASSUME NEW c \in Creator, GateBegin(c) \/ GateGoes(c)
      PROVE  FlagStep
  BY <1>3 DEF GateBegin, GateGoes, GateFlags, GateOwn, AllList, AllLook, AllEnd, StatusList, StatusLook, StatusEnd, GateLast, GateAnswer
<1>4. CASE PoolChanges \/ Tick \/ UNCHANGED vars
  BY <1>4 DEF PoolChanges, Tick, vars
<1> QED
  BY <1>1, <1>2, <1>3, <1>4 DEF Next, HealthGoes

LEMMA SettersKeepFlags ==
  FlagsInv /\ FlagStep => FlagsInv' /\ (degraded /\ degraded' => since' = since)
<1> SUFFICES ASSUME FlagsInv, FlagStep
             PROVE  FlagsInv' /\ (degraded /\ degraded' => since' = since)
  OBVIOUS
<1> USE DEF FlagsInv, SinceWhileDegraded
<1>1. CASE UNCHANGED flags /\ (now' = now \/ now' = now + 1)
  BY <1>1 DEF flags
<1>2. CASE now' = now /\ SetGracefulDegradation(TRUE)
  BY <1>2 DEF SetGracefulDegradation
<1>3. CASE now' = now /\ SetGracefulDegradation(FALSE)
  <2>1. degraded' = FALSE /\ manual' = manual
    BY <1>3, Zenon DEF SetGracefulDegradation
  <2>2. since' = 0 /\ now' = now
    BY <1>3 DEF SetGracefulDegradation
  <2>3. degraded' \in BOOLEAN /\ manual' \in BOOLEAN /\ ~degraded'
    BY <2>1, Zenon
  <2>4. since' \in 0..now' /\ now' \in Nat \ {0}
    BY <2>2
  <2> QED
    BY <2>2, <2>3, <2>4
<1>4. CASE now' = now /\ SetManuallyEnabledDegradation(TRUE)
  <2>1. degraded' = TRUE /\ manual' = TRUE
    BY <1>4, Zenon DEF SetManuallyEnabledDegradation
  <2>2. degraded => since' = since
    BY <1>4 DEF SetManuallyEnabledDegradation
  <2>3. since' # 0 /\ since' \in 0..now' /\ now' = now
    BY <1>4 DEF SetManuallyEnabledDegradation
  <2> QED
    BY <2>1, <2>2, <2>3
<1>5. CASE now' = now /\ SetManuallyEnabledDegradation(FALSE)
  <2>1. degraded' = degraded /\ manual' = FALSE
    BY <1>5, Zenon DEF SetManuallyEnabledDegradation
  <2>2. since' = since /\ now' = now
    BY <1>5 DEF SetManuallyEnabledDegradation
  <2> QED
    BY <2>1, <2>2
<1> QED
  BY <1>1, <1>2, <1>3, <1>4, <1>5 DEF FlagStep

-----------------------------------------------------------------------------
(* The requests *)

\* TypeOK without the flags.
RequestsTyped ==
  /\ pool \in [Region -> {"absent", "up", "down"}]
  /\ pc \in [Client -> {"idle", "health mode", "health list", "health loop", "off"} \cup Gates]
  /\ region \in [Creator -> Region \cup {Default, NoRegion}]
  /\ todo \in [Client -> SUBSET Region]
  /\ sick \subseteq Client
  /\ some \subseteq Client
  /\ alwaysUp \subseteq everUp
  /\ everUp \subseteq Creator
  /\ alwaysDown \in [Creator -> SUBSET Region]
  /\ \A c \in Creator : pc[c] \in Gates <=> region[c] # NoRegion

LEMMA TypesAreBoth == TypeOK <=> RequestsTyped /\ degraded \in BOOLEAN /\ manual \in BOOLEAN
                                 /\ since \in 0..now /\ now \in Nat \ {0}
BY DEF TypeOK, RequestsTyped

LEMMA StepKeepsRequests == RequestsTyped /\ GateInv /\ [Next]_vars => RequestsTyped' /\ GateInv'
<1> SUFFICES ASSUME RequestsTyped, GateInv, [Next]_vars PROVE RequestsTyped' /\ GateInv'
  OBVIOUS
<1> USE DefaultHasNoPool DEF RequestsTyped, GateInv, Gates, Client, Up, Down, Registered
<1>1. ASSUME NEW c \in Operator, HealthBegin(c) PROVE RequestsTyped' /\ GateInv'
  <2> USE DEF At, Goto, flags, environment, local, history
  <2>1. CASE Goto(c, "health list")
    BY <1>1, <2>1 DEF HealthBegin
  <2>2. CASE Goto(c, "health mode")
    BY <1>1, <2>2 DEF HealthBegin
  <2> QED
    BY <1>1, <2>1, <2>2 DEF HealthBegin
<1>2. ASSUME NEW c \in Operator, HealthMode(c) PROVE RequestsTyped' /\ GateInv'
  BY <1>2 DEF HealthMode, Goto, At, SetGracefulDegradation, flags, environment, local, history
<1>3. ASSUME NEW c \in Operator, HealthList(c) PROVE RequestsTyped' /\ GateInv'
  BY <1>3 DEF HealthList, Goto, At, List, flags, environment, local, history
<1>4. ASSUME NEW c \in Operator, HealthLook(c) PROVE RequestsTyped' /\ GateInv'
  <2> USE DEF At, Healthy, flags, environment, history
  <2>1. PICK r \in Region : LookAt(c, r)
    BY <1>4 DEF HealthLook
  <2>2. RequestsTyped'
    BY <1>4, <2>1 DEF HealthLook, LookAt
  <2>3. ASSUME NEW d \in Creator, pc[d] \in {"all loop", "status loop"}, d \notin sick'
        PROVE  alwaysDown[d] \subseteq todo'[d]
    <3>1. d \notin sick /\ alwaysDown[d] \subseteq todo[d]
      BY <2>1, <2>3 DEF LookAt
    <3>2. r \notin alwaysDown[d] \/ d # c
      BY <2>1, <2>3 DEF LookAt
    <3> QED
      BY <2>1, <3>1, <3>2 DEF LookAt
  <2>4. pc' = pc /\ region' = region /\ UNCHANGED <<pool, alwaysUp, everUp, alwaysDown>>
    BY <1>4 DEF HealthLook
  <2> QED
    BY <2>2, <2>3, <2>4
<1>5. ASSUME NEW c \in Operator, HealthEnd(c) PROVE RequestsTyped' /\ GateInv'
  BY <1>5 DEF HealthEnd, Goto, At, Forget, SetGracefulDegradation, flags, environment, local, history
<1>6. ASSUME NEW c \in Operator, DegradationOn(c) PROVE RequestsTyped' /\ GateInv'
  BY <1>6 DEF DegradationOn, Goto, At, SetManuallyEnabledDegradation, flags, environment, local, history
<1>7. ASSUME NEW c \in Operator, DegradationOff(c) PROVE RequestsTyped' /\ GateInv'
  BY <1>7 DEF DegradationOff, Goto, At, SetGracefulDegradation, flags, environment, local, history
<1>8. ASSUME NEW c \in Operator, DegradationOffManual(c) PROVE RequestsTyped' /\ GateInv'
  BY <1>8 DEF DegradationOffManual, Goto, At, SetManuallyEnabledDegradation, flags, environment, local, history
<1>9. ASSUME NEW c \in Creator, GateBegin(c) PROVE RequestsTyped' /\ GateInv'
  <2> USE DEF At, Goto, Healthy, flags, environment
  <2>1. PICK r \in Region \cup {Default} :
          /\ region' = [region EXCEPT ![c] = r]
          /\ alwaysUp' = IF Healthy(r) THEN alwaysUp \cup {c} ELSE alwaysUp
          /\ everUp' = IF Healthy(r) THEN everUp \cup {c} ELSE everUp
    BY <1>9 DEF GateBegin
  <2>2. region[c] = NoRegion /\ c \notin alwaysUp
    BY <1>9 DEF GateBegin
  <2>3. /\ pc' = [pc EXCEPT ![c] = "gate"]
        /\ alwaysDown' = [alwaysDown EXCEPT ![c] = Down]
        /\ UNCHANGED <<pool, todo, sick, some>>
    BY <1>9 DEF GateBegin
  <2>4. RequestsTyped'
    BY <2>1, <2>2, <2>3
  <2>5. ASSUME NEW d \in Creator, d # c
        PROVE  region'[d] = region[d] /\ pc'[d] = pc[d] /\ alwaysDown'[d] = alwaysDown[d]
    <3>0. region \in [Creator -> Region \cup {Default, NoRegion}]
      OBVIOUS
    <3> HIDE DEF GateInv, Gates, Down, Up, RequestsTyped
    <3>1. region'[d] = region[d]
      BY <2>1, <2>5, <3>0
    <3>2. pc'[d] = pc[d]
      BY <2>3, <2>5
    <3>3. alwaysDown'[d] = alwaysDown[d]
      BY <2>3, <2>5
    <3> QED
      BY <3>1, <3>2, <3>3
  <2>6. ASSUME NEW d \in Creator, d # c
        PROVE  /\ d \in alwaysUp' => d \in alwaysUp
               /\ d \in everUp => d \in everUp'
               /\ d \in everUp' => d \in everUp
    BY <2>1, <2>6
  <2>7. /\ region'[c] = r /\ pc'[c] = "gate" /\ alwaysDown'[c] = Down
        /\ c \in alwaysUp' => r \in Up
        /\ r \in Up => c \in everUp'
    BY <2>1, <2>2, <2>3
  <2>8. Up' = Up /\ Down' = Down
    BY <2>3
  <2> HIDE DEF Up, Down
  <2>9. ASSUME NEW d \in Creator
        PROVE  /\ d \in alwaysUp' => region'[d] \in Up'
               /\ region'[d] \in Up' => d \in everUp'
               /\ alwaysDown'[d] \subseteq Down'
               /\ pc'[d] \in {"all loop", "status loop"} /\ d \notin sick'
                    => alwaysDown'[d] \subseteq todo'[d]
               /\ pc'[d] = "refused" => d \notin alwaysUp'
               /\ pc'[d] = "passed" => d \in everUp' \/ alwaysDown'[d] = {}
    <3>1. CASE d = c
      BY <2>7, <2>8, <3>1
    <3>2. CASE d # c
      BY <2>3, <2>5, <2>6, <2>8, <3>2
    <3> QED
      BY <3>1, <3>2
  <2> QED
    BY <2>4, <2>9
<1>10. ASSUME NEW c \in Creator, GateFlags(c) PROVE RequestsTyped' /\ GateInv'
  BY <1>10 DEF GateFlags, Goto, At, flags, environment, local, history
<1>11. ASSUME NEW c \in Creator, GateOwn(c) PROVE RequestsTyped' /\ GateInv'
  BY <1>11 DEF GateOwn, Goto, At, Healthy, flags, environment, local, history
<1>12. ASSUME NEW c \in Creator, AllList(c) PROVE RequestsTyped' /\ GateInv'
  BY <1>12 DEF AllList, Goto, At, List, flags, environment, local, history
<1>13. ASSUME NEW c \in Creator, AllLook(c) PROVE RequestsTyped' /\ GateInv'
  <2> USE DEF At, Healthy, flags, environment, history
  <2>1. PICK r \in Region : LookAt(c, r)
    BY <1>13 DEF AllLook
  <2>2. RequestsTyped'
    BY <1>13, <2>1 DEF AllLook, LookAt
  <2>3. ASSUME NEW d \in Creator, pc[d] \in {"all loop", "status loop"}, d \notin sick'
        PROVE  alwaysDown[d] \subseteq todo'[d]
    <3>1. d \notin sick /\ alwaysDown[d] \subseteq todo[d]
      BY <2>1, <2>3 DEF LookAt
    <3>2. r \notin alwaysDown[d] \/ d # c
      BY <2>1, <2>3 DEF LookAt
    <3> QED
      BY <2>1, <3>1, <3>2 DEF LookAt
  <2>4. pc' = pc /\ region' = region /\ UNCHANGED <<pool, alwaysUp, everUp, alwaysDown>>
    BY <1>13 DEF AllLook
  <2> QED
    BY <2>2, <2>3, <2>4
<1>14. ASSUME NEW c \in Creator, AllEnd(c) PROVE RequestsTyped' /\ GateInv'
  BY <1>14 DEF AllEnd, Goto, At, Forget, flags, environment, local, history
<1>15. ASSUME NEW c \in Creator, StatusList(c) PROVE RequestsTyped' /\ GateInv'
  BY <1>15 DEF StatusList, Goto, At, List, flags, environment, local, history
<1>16. ASSUME NEW c \in Creator, StatusLook(c) PROVE RequestsTyped' /\ GateInv'
  <2> USE DEF At, Healthy, flags, environment, history
  <2>1. PICK r \in Region : LookAt(c, r)
    BY <1>16 DEF StatusLook
  <2>2. RequestsTyped'
    BY <1>16, <2>1 DEF StatusLook, LookAt
  <2>3. ASSUME NEW d \in Creator, pc[d] \in {"all loop", "status loop"}, d \notin sick'
        PROVE  alwaysDown[d] \subseteq todo'[d]
    <3>1. d \notin sick /\ alwaysDown[d] \subseteq todo[d]
      BY <2>1, <2>3 DEF LookAt
    <3>2. r \notin alwaysDown[d] \/ d # c
      BY <2>1, <2>3 DEF LookAt
    <3> QED
      BY <2>1, <3>1, <3>2 DEF LookAt
  <2>4. pc' = pc /\ region' = region /\ UNCHANGED <<pool, alwaysUp, everUp, alwaysDown>>
    BY <1>16 DEF StatusLook
  <2> QED
    BY <2>2, <2>3, <2>4
<1>17. ASSUME NEW c \in Creator, StatusEnd(c) PROVE RequestsTyped' /\ GateInv'
  BY <1>17 DEF StatusEnd, Goto, At, Forget, flags, environment, local, history
<1>18. ASSUME NEW c \in Creator, GateLast(c) PROVE RequestsTyped' /\ GateInv'
  BY <1>18 DEF GateLast, Goto, At, Healthy, flags, environment, local, history
<1>19. ASSUME NEW c \in Creator, GateAnswer(c) PROVE RequestsTyped' /\ GateInv'
  BY <1>19 DEF GateAnswer, Goto, At, flags, environment, local, history
<1>20. CASE PoolChanges
  <2>1. PICK r \in Region, s \in {"absent", "up", "down"} : pool' = [pool EXCEPT ![r] = s]
    BY <1>20 DEF PoolChanges
  <2>2. pool' \in [Region -> {"absent", "up", "down"}]
    BY <2>1
  <2>3. /\ UNCHANGED <<pc, region, todo, sick, some>>
        /\ alwaysUp' = {c \in alwaysUp : region[c] \in Up'}
        /\ everUp' = everUp \cup {c \in Creator : region[c] \in Up'}
        /\ alwaysDown' = [c \in Creator |-> alwaysDown[c] \cap Down']
    BY <1>20 DEF PoolChanges, local
  <2>4. RequestsTyped'
    <3>1. alwaysDown' \in [Creator -> SUBSET Region]
      BY <2>3
    <3> QED
      BY <2>2, <2>3, <3>1
  <2>5. ASSUME NEW d \in Creator
        PROVE  /\ d \in alwaysUp' => d \in alwaysUp /\ region[d] \in Up'
               /\ region[d] \in Up' => d \in everUp'
               /\ d \in everUp => d \in everUp'
               /\ alwaysDown'[d] \subseteq Down'
               /\ alwaysDown'[d] \subseteq alwaysDown[d]
    BY <2>3
  <2> HIDE DEF Up, Down
  <2> QED
    BY <2>3, <2>4, <2>5
<1>21. CASE Tick \/ UNCHANGED vars
  BY <1>21 DEF Tick, vars, environment, local, history
<1> QED
  BY <1>1, <1>2, <1>3, <1>4, <1>5, <1>6, <1>7, <1>8, <1>9, <1>10, <1>11, <1>12, <1>13, <1>14, <1>15, <1>16, <1>17, <1>18, <1>19, <1>20, <1>21
  DEF Next, HealthGoes, GateGoes

-----------------------------------------------------------------------------
(* The theorems *)

LEMMA InitIsRight == Init => RequestsTyped /\ FlagsInv /\ GateInv
<1> SUFFICES ASSUME Init PROVE RequestsTyped /\ FlagsInv /\ GateInv
  OBVIOUS
<1>1. RequestsTyped
  BY DEF Init, RequestsTyped, Gates, Client
<1>2. FlagsInv
  <2>1. SinceWhileDegraded
    BY Zenon DEF Init, SinceWhileDegraded
  <2>2. degraded \in BOOLEAN /\ manual \in BOOLEAN
    BY Zenon DEF Init
  <2>3. since \in 0..now /\ now \in Nat \ {0}
    BY DEF Init
  <2> QED
    BY <2>1, <2>2, <2>3 DEF FlagsInv
<1>3. GateInv
  BY DefaultHasNoPool DEF Init, GateInv, Client, Up, Down
<1> QED
  BY <1>1, <1>2, <1>3

\* The three parts hold of every state.
THEOREM DegradationInvariant == Spec => [](RequestsTyped /\ FlagsInv /\ GateInv)
<1>1. RequestsTyped /\ FlagsInv /\ GateInv /\ [Next]_vars
        => RequestsTyped' /\ FlagsInv' /\ GateInv'
  BY StepKeepsRequests, OnlyTheSetters, SettersKeepFlags
<1> QED
  BY <1>1, InitIsRight, PTL DEF Spec

\* Every variable keeps its type, and a request has a region just while it is in
\* the gate.
THEOREM TypeCorrect == Spec => []TypeOK
<1>1. RequestsTyped /\ FlagsInv => TypeOK
  BY TypesAreBoth DEF FlagsInv
<1> QED
  BY <1>1, DegradationInvariant, PTL

\* SetGracefulDegradation and SetManuallyEnabledDegradation, in any order, keep
\* degradedSince set exactly while gracefulDegradation is.
THEOREM TimeGoesWithTheFlag == Spec => []SinceWhileDegraded
<1>1. FlagsInv => SinceWhileDegraded
  BY DEF FlagsInv
<1> QED
  BY <1>1, DegradationInvariant, PTL

\* Health reads, degradation updates and gates, however they overlap, keep the
\* types and the time in step with the flag.
THEOREM FlagsAndTypes == Spec => []DegradationInv
<1>1. TypeOK /\ SinceWhileDegraded => DegradationInv
  BY DEF DegradationInv
<1> QED
  BY <1>1, TypeCorrect, TimeGoesWithTheFlag, PTL

\* No setter moves degradedSince while the plugin stays degraded.
THEOREM TimeIsOfTheBeginning == Spec => SinceIsTheBeginning
<1>1. FlagsInv /\ [Next]_vars => [degraded /\ degraded' => since' = since]_vars
  BY OnlyTheSetters, SettersKeepFlags
<1> QED
  BY <1>1, DegradationInvariant, PTL DEF Spec, SinceIsTheBeginning

\* CanOperate ends with the region's own pool: one that was healthy all along is
\* served, whatever the reads before it saw.
THEOREM HealthyIsServed == Spec => []HealthyRegionServed
<1>1. GateInv => HealthyRegionServed
  BY DEF GateInv, HealthyRegionServed
<1> QED
  BY <1>1, DegradationInvariant, PTL

\* The gate lets nobody through past a pool that was down all along, unless the
\* region's own pool was seen healthy.
THEOREM DownIsRefused == Spec => []DownRegionRefused
<1>1. GateInv => DownRegionRefused
  BY DEF GateInv, DownRegionRefused
<1> QED
  BY <1>1, DegradationInvariant, PTL
=============================================================================
