----------------------- MODULE Administration_proofs -----------------------
(***************************************************************************)
(* Proofs about RoleStore and Configuration.                               *)
(***************************************************************************)
EXTENDS RoleStore, Configuration, TLAPS

-----------------------------------------------------------------------------
(* Configuration *)

\* What Setup stores and opens makes the invariant true (prewarmPools).
LEMMA ConfigInitInv == ConfigInit => ConfigInv
<1> SUFFICES ASSUME ConfigInit PROVE ConfigInv
  OBVIOUS
<1> USE ConfigAssumption
<1>1. config \in [ConfigName -> Config \cup {NoConfig}]
  BY DEF ConfigInit
<1>2. \A n \in ConfigName : StoredTargets(n) \subseteq Target \cup {NoTarget}
  BY <1>1 DEF StoredTargets, Config
<1>3. \A n \in ConfigName, opened \in SUBSET ConfigName :
        /\ Prewarmed(n, opened) \in Target \cup {NoTarget, NoPool}
        /\ Prewarmed(n, opened) # NoPool => Prewarmed(n, opened) \in StoredTargets(n)
  BY <1>1 DEF Prewarmed, Config, StoredTargets
<1>4. PICK opened \in SUBSET ConfigName :
        pool = [n \in ConfigName |-> Prewarmed(n, opened)]
  BY DEF ConfigInit
<1>5. stored \in [ConfigName -> SUBSET (Target \cup {NoTarget})]
  BY <1>2 DEF ConfigInit
<1>6. ConfigTypeOK
  BY <1>1, <1>3, <1>4, <1>5 DEF ConfigTypeOK, ConfigInit, Quiet, Call
<1>7. PoolFromThisLife
  BY <1>3, <1>4 DEF PoolFromThisLife, ConfigInit, Quiet
<1>8. HoldsTheStored
  BY DEF HoldsTheStored, ConfigInit, Quiet
<1> QED BY <1>6, <1>7, <1>8 DEF ConfigInv

\* Every step of a configuration request, and a restart, keeps it.
LEMMA PoolsStep ==
  ConfigInv /\ [ConfigNext]_configVars => ConfigTypeOK' /\ PoolFromThisLife'
<1> SUFFICES ASSUME ConfigInv, [ConfigNext]_configVars
             PROVE  ConfigTypeOK' /\ PoolFromThisLife'
  OBVIOUS
<1> USE ConfigAssumption DEF ConfigInv
<1>a. CASE UNCHANGED configVars
  BY <1>a DEF configVars, ConfigTypeOK, PoolFromThisLife, StoredTargets
<1>b. ASSUME NEW p \in ConfigRequest, NEW n \in ConfigName, NEW cfg \in Config,
             NEW verify \in BOOLEAN, WriteConfig(p, n, cfg, verify)
      PROVE ConfigTypeOK' /\ PoolFromThisLife'
  <2> USE <1>b
  <2>1. cfg.target \in Target \cup {NoTarget}
    BY DEF Config
  <2>2. call' \in [ConfigRequest -> Call]
    BY DEF WriteConfig, Become, ConfigTypeOK, Quiet, Call
  <2>3. ConfigTypeOK'
    BY <2>1, <2>2 DEF WriteConfig, ConfigTypeOK, Become, UpdatersOf, Quiet
  <2>4. \A m \in ConfigName : stored[m] \subseteq stored'[m]
    BY DEF WriteConfig, ConfigTypeOK
  <2>5. \A m \in ConfigName : (StoredTargets(m) \subseteq stored[m])'
    BY DEF WriteConfig, ConfigTypeOK, PoolFromThisLife, StoredTargets
  <2>6. \A q \in ConfigRequest : call'[q].pc = "update" => call'[q] = call[q]
    BY DEF WriteConfig, Become, ConfigTypeOK, Quiet
  <2>7. \A q \in ConfigRequest : call[q].pc = "update" => call[q].at \in ConfigName
    BY DEF ConfigTypeOK, Call
  <2>8. PoolFromThisLife'
    BY <2>4, <2>5, <2>6, <2>7 DEF WriteConfig, PoolFromThisLife
  <2> QED BY <2>3, <2>8
<1>c. ASSUME NEW p \in ConfigRequest, VerifyConfig(p) \/ AnswerConfig(p) \/ EndReload(p)
      PROVE ConfigTypeOK' /\ PoolFromThisLife'
  BY <1>c DEF VerifyConfig, AnswerConfig, EndReload, EndCall, Become, Quiet, Call,
              ConfigTypeOK, PoolFromThisLife, StoredTargets
<1>d. ASSUME NEW p \in ConfigRequest, NEW n \in ConfigName, DeleteConfig(p, n)
      PROVE ConfigTypeOK' /\ PoolFromThisLife'
  BY <1>d DEF DeleteConfig, UpdatersOf, ConfigTypeOK, PoolFromThisLife, StoredTargets
<1>e. ASSUME NEW p \in ConfigRequest, NEW n \in ConfigName, ResetConfig(p, n)
      PROVE ConfigTypeOK' /\ PoolFromThisLife'
  BY <1>e DEF ResetConfig, Become, Quiet, Call, ConfigTypeOK, PoolFromThisLife,
              StoredTargets
<1>f. ASSUME NEW p \in ConfigRequest, NEW plugin \in PluginName,
             ReloadConfigs(p, plugin)
      PROVE ConfigTypeOK' /\ PoolFromThisLife'
  BY <1>f DEF ReloadConfigs, Become, Quiet, Call, ConfigTypeOK, PoolFromThisLife,
              StoredTargets
<1>g. ASSUME NEW p \in ConfigRequest, NEW n \in ConfigName, ReadConfig(p, n)
      PROVE ConfigTypeOK' /\ PoolFromThisLife'
  <2> USE <1>g
  <2>1. CASE /\ config[n] # NoConfig
             /\ Become(p, [call[p] EXCEPT !.pc = "update", !.todo = @ \ {n},
                                          !.at = n, !.held = config[n]])
    <3>0. call[p] \in Call /\ config[n] \in Config
      BY <2>1 DEF ConfigTypeOK
    <3>1. call' \in [ConfigRequest -> Call]
      <4>1. [call[p] EXCEPT !.pc = "update", !.todo = @ \ {n}, !.at = n,
                            !.held = config[n]] \in Call
        BY <3>0 DEF Call
      <4> QED BY <2>1, <4>1 DEF Become, ConfigTypeOK
    <3>2. ConfigTypeOK'
      BY <2>1, <3>1 DEF ReadConfig, Become, ConfigTypeOK, Call
    <3>3. config[n].target \in stored[n]
      BY <2>1 DEF PoolFromThisLife, StoredTargets
    <3>4. PoolFromThisLife'
      BY <2>1, <3>3 DEF ReadConfig, Become, ConfigTypeOK, Call, PoolFromThisLife,
                        StoredTargets
    <3> QED BY <3>2, <3>4
  <2>2. CASE Become(p, [call[p] EXCEPT !.todo = @ \ {n}])
    <3>1. call' \in [ConfigRequest -> Call]
      BY <2>2 DEF Become, ConfigTypeOK, Call
    <3>2. ConfigTypeOK'
      BY <2>2, <3>1 DEF ReadConfig, Become, ConfigTypeOK, Call
    <3>3. PoolFromThisLife'
      BY <2>2 DEF ReadConfig, Become, ConfigTypeOK, Call, PoolFromThisLife,
                  StoredTargets
    <3> QED BY <3>2, <3>3
  <2> QED BY <2>1, <2>2 DEF ReadConfig
<1>h. ASSUME NEW p \in ConfigRequest, NEW opens \in BOOLEAN, UpdatePool(p, opens)
      PROVE ConfigTypeOK' /\ PoolFromThisLife'
  <2> USE <1>h
  <2>1. /\ call[p].at \in ConfigName
        /\ call[p].held \in Config
        /\ call[p].held.target \in stored[call[p].at]
    BY DEF UpdatePool, ConfigTypeOK, PoolFromThisLife, Call
  <2>2. Updated(call[p].held, opens) \in {call[p].held.target, NoPool}
    BY DEF Updated
  <2>3. call' \in [ConfigRequest -> Call]
    <3>1. call[p] \in Call
      BY DEF ConfigTypeOK
    <3>2. [call[p] EXCEPT !.pc = "list", !.at = NoConfig, !.held = NoConfig] \in Call
      BY <3>1 DEF Call
    <3> QED BY <3>2 DEF UpdatePool, Become, ConfigTypeOK
  <2>4. call[p].held.target \in Target \cup {NoTarget}
    BY <2>1 DEF Config
  <2>5. pool' \in [ConfigName -> Target \cup {NoTarget, NoPool}]
    BY <2>1, <2>2, <2>4 DEF UpdatePool, ConfigTypeOK
  <2>6. ConfigTypeOK'
    BY <2>3, <2>5 DEF UpdatePool, Become, ConfigTypeOK, Call
  <2>7. PoolFromThisLife'
    BY <2>1, <2>2 DEF UpdatePool, Become, ConfigTypeOK, Call, PoolFromThisLife,
                      StoredTargets
  <2> QED BY <2>6, <2>7
<1>i. ASSUME NEW opened \in SUBSET ConfigName, RestartPlugin(opened)
      PROVE ConfigTypeOK' /\ PoolFromThisLife'
  <2> USE <1>i
  <2>1. config' = config
    BY DEF RestartPlugin
  <2>2. \A n \in ConfigName : StoredTargets(n) \subseteq Target \cup {NoTarget}
    BY DEF StoredTargets, Config, ConfigTypeOK
  <2>3. \A n \in ConfigName :
          /\ Prewarmed(n, opened) \in Target \cup {NoTarget, NoPool}
          /\ Prewarmed(n, opened) # NoPool => Prewarmed(n, opened) \in StoredTargets(n)
    BY DEF Prewarmed, Config, StoredTargets, ConfigTypeOK
  <2>4. ConfigTypeOK'
    BY <2>2, <2>3 DEF RestartPlugin, ConfigTypeOK, Quiet, Call
  <2>5. PoolFromThisLife'
    <3>1. \A n \in ConfigName : StoredTargets(n)' = StoredTargets(n)
      BY <2>1 DEF StoredTargets
    <3> QED BY <2>3, <3>1 DEF RestartPlugin, PoolFromThisLife, Quiet
  <2> QED BY <2>4, <2>5
<1>j. ASSUME NEW p \in ConfigRequest, NEW n \in ConfigName, ShowConfig(p, n)
      PROVE ConfigTypeOK' /\ PoolFromThisLife'
  <2>1. call' \in [ConfigRequest -> Call]
    BY <1>j DEF ShowConfig, Become, Quiet, Call, ConfigTypeOK
  <2> QED BY <1>j, <2>1 DEF ShowConfig, Become, Quiet, ConfigTypeOK, PoolFromThisLife,
                            StoredTargets
<1> QED BY <1>a, <1>b, <1>c, <1>d, <1>e, <1>f, <1>g, <1>h, <1>i, <1>j DEF ConfigNext

\* A request that nothing overlaps still holds what is stored.
LEMMA HeldStep == ConfigInv /\ [ConfigNext]_configVars => HoldsTheStored'
<1> SUFFICES ASSUME ConfigInv, [ConfigNext]_configVars,
                    NEW q \in ConfigRequest, q \notin crossed', call'[q].pc = "update"
             PROVE  /\ call'[q].held = config'[call'[q].at]
                    /\ call'[q].held.plugin \in call'[q].plugins
  BY DEF HoldsTheStored
<1> USE ConfigAssumption DEF ConfigInv
<1>1. ASSUME UNCHANGED call[q], q \notin crossed,
             config'[call[q].at] = config[call[q].at]
      PROVE  /\ call'[q].held = config'[call'[q].at]
             /\ call'[q].held.plugin \in call'[q].plugins
  BY <1>1 DEF HoldsTheStored
<1>2. call \in [ConfigRequest -> Call]
  BY DEF ConfigTypeOK
<1>a. CASE UNCHANGED configVars
  BY <1>a, <1>1 DEF configVars
<1>b. ASSUME NEW p \in ConfigRequest, NEW n \in ConfigName, NEW cfg \in Config,
             NEW verify \in BOOLEAN, WriteConfig(p, n, cfg, verify)
      PROVE /\ call'[q].held = config'[call'[q].at]
            /\ call'[q].held.plugin \in call'[q].plugins
  <2>1. q # p /\ call'[q] = call[q]
    BY <1>b, <1>2 DEF WriteConfig, Become, Quiet
  <2>2. q \notin crossed /\ call[q].at # n
    BY <1>b, <2>1 DEF WriteConfig, UpdatersOf
  <2>3. config'[call[q].at] = config[call[q].at]
    BY <1>b, <2>1, <2>2, <1>2 DEF WriteConfig, ConfigTypeOK, Call
  <2> QED BY <1>1, <2>1, <2>2, <2>3
<1>c. ASSUME NEW p \in ConfigRequest, VerifyConfig(p) \/ AnswerConfig(p) \/ EndReload(p)
      PROVE /\ call'[q].held = config'[call'[q].at]
            /\ call'[q].held.plugin \in call'[q].plugins
  <2>1. q # p /\ call'[q] = call[q] /\ q \notin crossed /\ config' = config
    BY <1>c, <1>2 DEF VerifyConfig, AnswerConfig, EndReload, EndCall, Become, Quiet
  <2> QED BY <1>1, <2>1
<1>d. ASSUME NEW p \in ConfigRequest, NEW n \in ConfigName, DeleteConfig(p, n)
      PROVE /\ call'[q].held = config'[call'[q].at]
            /\ call'[q].held.plugin \in call'[q].plugins
  <2>1. call' = call /\ q # p
    BY <1>d DEF DeleteConfig
  <2>2. q \notin crossed /\ call[q].at # n
    BY <1>d, <2>1 DEF DeleteConfig, UpdatersOf
  <2>3. config'[call[q].at] = config[call[q].at]
    BY <1>d, <2>1, <2>2, <1>2 DEF DeleteConfig, ConfigTypeOK, Call
  <2> QED BY <1>1, <2>1, <2>2, <2>3
<1>e. ASSUME NEW p \in ConfigRequest,
             \/ \E n \in ConfigName : ResetConfig(p, n)
             \/ \E plugin \in PluginName : ReloadConfigs(p, plugin)
             \/ \E opens \in BOOLEAN : UpdatePool(p, opens)
      PROVE /\ call'[q].held = config'[call'[q].at]
            /\ call'[q].held.plugin \in call'[q].plugins
  <2>1. config' = config /\ crossed' = crossed
    BY <1>e DEF ResetConfig, ReloadConfigs, UpdatePool
  <2>2. call'[p].pc = "list" /\ (q # p => call'[q] = call[q])
    <3>1. ASSUME NEW n \in ConfigName, ResetConfig(p, n)
          PROVE  call'[p].pc = "list" /\ (q # p => call'[q] = call[q])
      BY <1>2, <3>1 DEF ResetConfig, Become, Quiet
    <3>2. ASSUME NEW plugin \in PluginName, ReloadConfigs(p, plugin)
          PROVE  call'[p].pc = "list" /\ (q # p => call'[q] = call[q])
      BY <1>2, <3>2 DEF ReloadConfigs, Become, Quiet
    <3>3. ASSUME NEW opens \in BOOLEAN, UpdatePool(p, opens)
          PROVE  call'[p].pc = "list" /\ (q # p => call'[q] = call[q])
      BY <1>2, <3>3 DEF UpdatePool, Become, Call
    <3> QED BY <1>e, <3>1, <3>2, <3>3
  <2>3. q # p /\ call'[q] = call[q]
    BY <2>2
  <2> QED BY <1>1, <2>1, <2>3
<1>f. ASSUME NEW p \in ConfigRequest, NEW n \in ConfigName, ReadConfig(p, n)
      PROVE /\ call'[q].held = config'[call'[q].at]
            /\ call'[q].held.plugin \in call'[q].plugins
  <2>1. config' = config /\ q \notin crossed
    BY <1>f DEF ReadConfig
  <2>2. CASE q # p
    <3>1. call'[q] = call[q]
      BY <1>f, <1>2, <2>2 DEF ReadConfig, Become
    <3> QED BY <1>1, <2>1, <3>1
  <2>3. CASE q = p
    <3>1. call[p].pc = "list" /\ call[p] \in Call
      BY <1>f, <1>2 DEF ReadConfig
    <3>2. call'[p].pc = "update" =>
            /\ config[n].plugin \in call[p].plugins
            /\ call'[p] = [call[p] EXCEPT !.pc = "update", !.todo = @ \ {n},
                                          !.at = n, !.held = config[n]]
      BY <1>f, <1>2, <3>1 DEF ReadConfig, Become, Call
    <3> QED BY <2>1, <2>3, <3>1, <3>2 DEF Call
  <2> QED BY <2>2, <2>3
<1>g. ASSUME NEW opened \in SUBSET ConfigName, RestartPlugin(opened)
      PROVE FALSE
  BY <1>g DEF RestartPlugin, Quiet
<1>h. ASSUME NEW p \in ConfigRequest, NEW n \in ConfigName, ShowConfig(p, n)
      PROVE /\ call'[q].held = config'[call'[q].at]
            /\ call'[q].held.plugin \in call'[q].plugins
  <2>1. q # p /\ call'[q] = call[q] /\ q \notin crossed /\ config' = config
    BY <1>h, <1>2 DEF ShowConfig, Become, Quiet
  <2> QED BY <1>1, <2>1
<1> QED BY <1>a, <1>b, <1>c, <1>d, <1>e, <1>f, <1>g, <1>h DEF ConfigNext

\* A reset or reload holds in hand what is stored until another request overlaps
\* it (pathConfigResetHandler, pathConfigReloadHandler).
THEOREM ConfigSafe == ConfigSpec => []ConfigInv
<1>1. ConfigInv /\ [ConfigNext]_configVars => ConfigInv'
  BY PoolsStep, HeldStep DEF ConfigInv
<1> QED BY ConfigInitInv, <1>1, PTL DEF ConfigSpec

\* A pool connects to where a configuration of its own name has pointed since the
\* plugin was started (UpdateConnection, prewarmPools).
THEOREM PoolsFromThisLife == ConfigSpec => []PoolFromThisLife
<1> QED BY ConfigSafe, PTL DEF ConfigInv

\* A reset or reload that nothing overlaps opens the stored configuration, of a
\* plugin it was asked for, and only a restart changes a pool otherwise
\* (pathConfigResetHandler, pathConfigReloadHandler).
THEOREM ResetsOpenStored == ConfigSpec => ResetOpensStored
<1>1. ASSUME ConfigInv, [ConfigNext]_configVars, NEW n \in ConfigName, pool'[n] # pool[n]
      PROVE  \/ \E opened \in SUBSET ConfigName : RestartPlugin(opened)
             \/ \E p \in ConfigRequest :
                  /\ call[p].at = n
                  /\ \/ p \in crossed
                     \/ /\ config[n] # NoConfig
                        /\ pool'[n] \in {config[n].target, NoPool}
                        /\ config[n].plugin \in call[p].plugins
  <2>1. ConfigNext /\ pool' # pool
    BY <1>1 DEF configVars
  <2>2. SUFFICES ASSUME NEW p \in ConfigRequest, NEW opens \in BOOLEAN,
                        UpdatePool(p, opens)
                 PROVE  /\ call[p].at = n
                        /\ \/ p \in crossed
                           \/ /\ config[n] # NoConfig
                              /\ pool'[n] \in {config[n].target, NoPool}
                              /\ config[n].plugin \in call[p].plugins
    BY <2>1 DEF ConfigNext, WriteConfig, VerifyConfig, DeleteConfig, ShowConfig,
                AnswerConfig, ResetConfig, ReloadConfigs, ReadConfig, EndReload
  <2>3. /\ call[p].at = n
        /\ pool'[n] = Updated(call[p].held, opens)
        /\ call[p].pc = "update"
        /\ call[p].held # NoConfig
    BY <1>1, <2>2 DEF UpdatePool, ConfigInv, ConfigTypeOK
  <2>4. ASSUME p \notin crossed
        PROVE  call[p].held = config[n] /\ config[n].plugin \in call[p].plugins
    BY <1>1, <2>3, <2>4 DEF ConfigInv, HoldsTheStored
  <2> QED BY <2>3, <2>4 DEF Updated
<1>2. ConfigInv /\ [ConfigNext]_configVars =>
        [\A n \in ConfigName : pool'[n] # pool[n] =>
           \/ \E opened \in SUBSET ConfigName : RestartPlugin(opened)
           \/ \E p \in ConfigRequest :
                /\ call[p].at = n
                /\ \/ p \in crossed
                   \/ /\ config[n] # NoConfig
                      /\ pool'[n] \in {config[n].target, NoPool}
                      /\ config[n].plugin \in call[p].plugins]_configVars
  BY <1>1
<1> QED BY <1>2, ConfigSafe, PTL DEF ConfigSpec, ResetOpensStored

-----------------------------------------------------------------------------
(* RoleStore *)

\* What getRole hands out is a role if there is one, and keeps its names, its
\* template and its session variables; what a request writes can be read again.
LEMMA RolesRead ==
  /\ \A entry \in RoleRecord :
       /\ GetRole(entry) \in RoleRecord /\ GetRole(entry) # NoRole
       /\ GetRole(entry).names = entry.names
       /\ GetRole(entry).session = entry.session
  /\ GetRole(NoRole) = NoRole
  /\ Readable(NoRole)
<1> USE RoleAssumption
<1> QED BY DEF GetRole, RoleRecord, RoleVersion, Readable

\* A creation takes everything from the request, an update the names, and the
\* session variables unless they are given, from the role it has read.
LEMMA RolesWritten ==
  ASSUME NEW ask \in Ask, NEW existing \in RoleRecord \cup {NoRole}
  PROVE  /\ NewRole(ask) \in RoleRecord
         /\ Readable(NewRole(ask))
         /\ UpdatedRole(ask, existing) \in RoleRecord
         /\ Readable(UpdatedRole(ask, existing))
         /\ existing # NoRole =>
              /\ UpdatedRole(ask, existing).names = existing.names
              /\ UpdatedRole(ask, existing).session =
                   IF ask.session = NotGiven THEN existing.session ELSE ask.session
<1> USE RoleAssumption
<1>1. NewRole(ask) \in RoleRecord /\ NewRole(ask).version = RoleVersion
  BY DEF NewRole, RoleRecord, Ask, RoleVersion
<1>2. UpdatedRole(ask, existing) \in RoleRecord
  BY <1>1 DEF UpdatedRole, NewRole, RoleRecord, Ask, RoleVersion
<1>3. UpdatedRole(ask, existing).version = RoleVersion
  BY DEF UpdatedRole, NewRole
<1>4. Migratable(RoleVersion)
  BY DEF Migratable, RoleVersion
<1>5. existing # NoRole =>
        /\ UpdatedRole(ask, existing).names = existing.names
        /\ UpdatedRole(ask, existing).session =
             IF ask.session = NotGiven THEN existing.session ELSE ask.session
  BY DEF UpdatedRole, NewRole
<1> QED BY <1>1, <1>2, <1>3, <1>4, <1>5 DEF Readable

\* The statement of a new user is one of the outcomes (pathCredsRead).
LEMMA StatementsChosen ==
  ASSUME NEW held \in RoleRecord, NEW text \in [Statement -> Template]
  PROVE  StatementOf(held, text) \in Outcome
<1> QED BY RoleAssumption DEF StatementOf, RoleRecord, Outcome, Template

\* So is the one that is due.
LEMMA DueIsOutcome ==
  ASSUME RoleTypeOK, NEW r \in Role PROVE Due(r) \in Outcome
<1>1. CASE role[r] = NoRole \/ ~Readable(role[r])
  BY <1>1 DEF Due, Outcome
<1>2. CASE role[r] # NoRole /\ Readable(role[r])
  BY <1>2, RolesRead, StatementsChosen DEF Due, RoleTypeOK
<1> QED BY <1>1, <1>2

\* The store as an earlier release has left it makes the invariant true.
LEMMA RoleInitInv == RoleInit => RoleInv
<1> QED BY RoleAssumption DEF RoleInit, RoleInv, RoleTypeOK, KnowsTheStore, GrantAsDue,
        AtRest, Frame, Outcome, Legacy

\* A step that leaves the store alone, or changes nothing that the request q has
\* read, leaves what q knows true.
LEMMA KnowledgeStays ==
  ASSUME NEW q \in RoleRequest, RoleTypeOK, frame'[q] = frame[q],
         frame[q].pc # "idle",
         role'[frame[q].role] = role[frame[q].role],
         frame[q].pc \in {"role", "text"} => template' = template,
         LET f == frame[q]
         IN /\ f.pc = "create" => role[f.role] = NoRole
            /\ f.pc = "write" => f.held = GetRole(role[f.role])
            /\ f.pc = "role" => f.due = Due(f.role)
            /\ f.pc = "text" => f.due = StatementOf(f.held, template)
  PROVE (LET f == frame[q]
         IN /\ f.pc = "create" => role[f.role] = NoRole
            /\ f.pc = "write" => f.held = GetRole(role[f.role])
            /\ f.pc = "role" => f.due = Due(f.role)
            /\ f.pc = "text" => f.due = StatementOf(f.held, template))'
<1> QED BY DEF Due

\* The Put of a role: every other request that has the role in hand is overlapped.
LEMMA StoreRoleInv ==
  ASSUME RoleInv, NEW p \in RoleRequest, frame[p].pc \in {"create", "write"},
         NEW entry \in RoleRecord, Readable(entry), StoreRole(p, entry)
  PROVE  RoleInv'
<1> USE RoleAssumption DEF RoleInv
<1> DEFINE r == frame[p].role
<1>1. r \in Role /\ role' = [role EXCEPT ![r] = entry] /\ template' = template
  BY DEF StoreRole, RoleTypeOK
<1>2. frame' = [frame EXCEPT ![p] = AtRest] /\ frame'[p] = AtRest
  BY DEF StoreRole, Goto, RoleTypeOK
<1>3. /\ overlapped' \subseteq RoleRequest
      /\ \A q \in RoleRequest \ {p} :
           /\ frame'[q] = frame[q]
           /\ q \notin overlapped' =>
                q \notin overlapped /\ (frame[q].pc = "idle" \/ frame[q].role # r)
  BY <1>2 DEF StoreRole, ReadersOf, RoleTypeOK
<1>4. AtRest \in Frame
  BY DEF AtRest, Frame, Outcome
<1>5. RoleTypeOK'
  BY <1>1, <1>2, <1>3, <1>4 DEF RoleTypeOK, AtRest
<1>6. KnowsTheStore'
  <2>1. ASSUME NEW q \in RoleRequest, q \notin overlapped'
        PROVE (LET f == frame[q]
               IN /\ f.pc = "create" => role[f.role] = NoRole
                  /\ f.pc = "write" => f.held = GetRole(role[f.role])
                  /\ f.pc = "role" => f.due = Due(f.role)
                  /\ f.pc = "text" => f.due = StatementOf(f.held, template))'
    <3>1. CASE q = p \/ frame[q].pc = "idle"
      BY <1>2, <1>3, <3>1 DEF AtRest
    <3>2. CASE q # p /\ frame[q].pc # "idle"
      <4>1. /\ frame'[q] = frame[q] /\ q \notin overlapped
            /\ role'[frame[q].role] = role[frame[q].role]
        BY <1>1, <1>3, <2>1, <3>2 DEF RoleTypeOK
      <4> QED BY <1>1, <3>2, <4>1, KnowledgeStays DEF KnowsTheStore
    <3> QED BY <3>1, <3>2
  <2>2. ASSUME NEW q \in RoleRequest, frame'[q].pc \in {"create", "write"}
        PROVE Readable(role'[frame'[q].role])
    <3>1. q # p /\ frame'[q] = frame[q] /\ frame[q].role \in Role
      BY <1>2, <1>3, <2>2 DEF AtRest, RoleTypeOK
    <3> QED BY <1>1, <2>2, <3>1 DEF KnowsTheStore, RoleTypeOK
  <2> QED BY <2>1, <2>2 DEF KnowsTheStore, Readable
<1>7. GrantAsDue'
  BY <1>2, <1>3 DEF GrantAsDue, AtRest
<1> QED BY <1>5, <1>6, <1>7

\* The Put of an update or a creation.
LEMMA WriteRoleInv ==
  ASSUME RoleInv, NEW p \in RoleRequest, CreateRole(p) \/ UpdateRole(p)
  PROVE  RoleInv'
<1>1. CASE CreateRole(p)
  <2>1. frame[p].pc = "create" /\ frame[p].ask \in Ask /\ StoreRole(p, NewRole(frame[p].ask))
    BY <1>1 DEF CreateRole, RoleInv, RoleTypeOK
  <2> QED BY <2>1, RolesWritten, StoreRoleInv
<1>2. CASE UpdateRole(p)
  <2>1. /\ frame[p].pc = "write" /\ frame[p].ask \in Ask
        /\ frame[p].held \in RoleRecord \cup {NoRole}
        /\ StoreRole(p, UpdatedRole(frame[p].ask, frame[p].held))
    BY <1>2 DEF UpdateRole, RoleInv, RoleTypeOK, Frame
  <2> QED BY <2>1, RolesWritten, StoreRoleInv
<1> QED BY <1>1, <1>2

\* A step of one request that writes nothing keeps the invariant if the request
\* goes on with what it needs and knows what it should.
LEMMA FrameStepInv ==
  ASSUME RoleInv, NEW p \in RoleRequest, NEW f \in Frame, Goto(p, f),
         UNCHANGED <<role, template>>,
         overlapped' = overlapped \/ overlapped' = overlapped \ {p},
         f.pc # "idle" => f.role \in Role,
         f.pc \in {"create", "read", "write"} => f.ask \in Ask,
         f.pc = "text" => f.held \in RoleRecord,
         p \notin overlapped' =>
           /\ f.pc = "create" => role[f.role] = NoRole
           /\ f.pc = "write" => f.held = GetRole(role[f.role])
           /\ f.pc = "role" => f.due = Due(f.role)
           /\ f.pc = "text" => f.due = StatementOf(f.held, template)
           /\ f.out # "pending" => f.out = f.due,
         f.pc \in {"create", "write"} => Readable(role[f.role])
  PROVE  RoleInv'
<1> USE DEF RoleInv
<1>1. /\ frame' = [frame EXCEPT ![p] = f] /\ frame'[p] = f
      /\ \A q \in RoleRequest \ {p} :
           frame'[q] = frame[q] /\ (q \notin overlapped' => q \notin overlapped)
  BY DEF Goto, RoleTypeOK
<1>2. RoleTypeOK'
  BY <1>1 DEF RoleTypeOK
<1>3. \A r : Due(r)' = Due(r)
  BY DEF Due
<1>4. KnowsTheStore'
  BY <1>1, <1>3 DEF KnowsTheStore
<1>5. GrantAsDue'
  BY <1>1 DEF GrantAsDue
<1> QED BY <1>2, <1>4, <1>5

\* The end of a request that has written nothing.
LEMMA RestInv ==
  ASSUME RoleInv, NEW p \in RoleRequest, Goto(p, AtRest),
         UNCHANGED <<role, template>>, overlapped' = overlapped \ {p}
  PROVE  RoleInv'
<1>1. AtRest \in Frame
  BY RoleAssumption DEF AtRest, Frame, Outcome
<1> QED BY <1>1, FrameStepInv DEF AtRest

\* The steps of writes that come before their Put, and reads.
LEMMA PrepareInv ==
  ASSUME RoleInv, NEW p \in RoleRequest,
         \/ \E r \in Role, ask \in Ask : CheckRole(p, r, ask)
         \/ \E r \in Role : ReadRole(p, r)
         \/ ReadForUpdate(p)
         \/ FailRequest(p)
         \/ AnswerRequest(p)
  PROVE  RoleInv'
<1> USE RoleAssumption
<1>1. ASSUME NEW r \in Role, NEW ask \in Ask, CheckRole(p, r, ask)
      PROVE RoleInv'
  <2> DEFINE f == [AtRest EXCEPT !.pc = IF role[r] = NoRole THEN "create" ELSE "read",
                                 !.role = r, !.ask = ask]
  <2>1. f \in Frame /\ Goto(p, f) /\ UNCHANGED <<role, template, overlapped>>
    BY <1>1 DEF CheckRole, AtRest, Frame, Outcome
  <2>2. /\ f.role = r /\ f.ask = ask /\ f.out = "pending"
        /\ f.pc = IF role[r] = NoRole THEN "create" ELSE "read"
    BY DEF AtRest
  <2> HIDE DEF f
  <2>3. f.pc = "create" => role[f.role] = NoRole /\ Readable(role[f.role])
    BY <2>2 DEF Readable
  <2> QED BY <2>1, <2>2, <2>3, FrameStepInv
<1>2. ASSUME NEW r \in Role, ReadRole(p, r)
      PROVE RoleInv'
  <2> DEFINE f == [AtRest EXCEPT !.pc = "done", !.role = r,
                      !.held = IF Readable(role[r]) THEN GetRole(role[r]) ELSE NoRole]
  <2>1. role[r] \in RoleRecord \cup {NoRole}
    BY DEF RoleInv, RoleTypeOK
  <2>2. GetRole(role[r]) \in RoleRecord \cup {NoRole}
    BY <2>1, RolesRead
  <2>3. f \in Frame /\ Goto(p, f) /\ UNCHANGED <<role, template, overlapped>>
    BY <1>2, <2>2 DEF ReadRole, AtRest, Frame, Outcome
  <2>4. f.role = r /\ f.pc = "done" /\ f.out = "pending"
    BY DEF AtRest
  <2> HIDE DEF f
  <2> QED BY <2>3, <2>4, FrameStepInv
<1>3. CASE ReadForUpdate(p)
  <2> DEFINE r == frame[p].role
  <2> DEFINE f == [frame[p] EXCEPT !.pc = "write", !.held = GetRole(role[r])]
  <2>1. /\ r \in Role /\ frame[p] \in Frame /\ frame[p].ask \in Ask
        /\ role[r] \in RoleRecord \cup {NoRole}
    BY <1>3 DEF ReadForUpdate, RoleInv, RoleTypeOK
  <2>2. CASE ~Readable(role[r])
    BY <1>3, <2>2, RestInv DEF ReadForUpdate
  <2>3. CASE Readable(role[r])
    <3>1. GetRole(role[r]) \in RoleRecord \cup {NoRole}
      BY <2>1, RolesRead
    <3>2. f \in Frame
      BY <2>1, <3>1 DEF Frame
    <3>3. /\ Goto(p, f) /\ UNCHANGED <<role, template, overlapped>>
          /\ frame[p].pc = "read"
      BY <1>3, <2>3 DEF ReadForUpdate
    <3>4. /\ f.pc = "write" /\ f.role = r /\ f.ask = frame[p].ask
          /\ f.held = GetRole(role[r]) /\ f.out = frame[p].out /\ f.due = frame[p].due
      BY <2>1 DEF Frame
    <3>5. p \notin overlapped => (f.out # "pending" => f.out = f.due)
      BY <3>4 DEF RoleInv, GrantAsDue
    <3> HIDE DEF f
    <3> QED BY <2>1, <2>3, <3>2, <3>3, <3>4, <3>5, FrameStepInv
  <2> QED BY <2>2, <2>3
<1>4. CASE FailRequest(p) \/ AnswerRequest(p)
  BY <1>4, RestInv DEF FailRequest, AnswerRequest
<1> QED BY <1>1, <1>2, <1>3, <1>4

\* A creation of credentials reads the role, then the template.
LEMMA GrantInv ==
  ASSUME RoleInv, NEW p \in RoleRequest,
         \/ \E r \in Role : StartGrant(p, r)
         \/ GrantRole(p)
         \/ GrantStatement(p)
  PROVE  RoleInv'
<1> USE RoleAssumption
<1>1. ASSUME NEW r \in Role, StartGrant(p, r)
      PROVE RoleInv'
  <2> DEFINE f == [AtRest EXCEPT !.pc = "role", !.role = r, !.due = Due(r)]
  <2>1. Due(r) \in Outcome
    BY DueIsOutcome DEF RoleInv
  <2>2. f \in Frame /\ Goto(p, f) /\ UNCHANGED <<role, template, overlapped>>
    BY <1>1, <2>1 DEF StartGrant, AtRest, Frame, Outcome
  <2>3. f.role = r /\ f.pc = "role" /\ f.due = Due(r) /\ f.out = "pending"
    BY DEF AtRest
  <2> HIDE DEF f
  <2> QED BY <2>2, <2>3, FrameStepInv
<1>2. CASE GrantRole(p)
  <2> DEFINE r == frame[p].role
             no == [frame[p] EXCEPT !.pc = "done", !.out = "refused"]
             yes == [frame[p] EXCEPT !.pc = "text", !.held = GetRole(role[r])]
  <2>1. /\ frame[p].pc = "role" /\ r \in Role /\ frame[p] \in Frame
        /\ role[r] \in RoleRecord \cup {NoRole}
        /\ UNCHANGED <<role, template, overlapped>>
    BY <1>2 DEF GrantRole, RoleInv, RoleTypeOK
  <2>2. p \notin overlapped =>
          /\ frame[p].due = Due(r)
          /\ frame[p].out # "pending" => frame[p].out = frame[p].due
    BY <2>1 DEF RoleInv, KnowsTheStore, GrantAsDue
  <2>3. CASE role[r] = NoRole \/ ~Readable(role[r])
    <3>1. no \in Frame
      BY <2>1 DEF Frame, Outcome
    <3>2. Goto(p, no)
      BY <1>2, <2>3 DEF GrantRole
    <3>3. no.pc = "done" /\ no.role = r /\ no.out = "refused" /\ no.due = frame[p].due
      BY <2>1 DEF Frame
    <3>4. Due(r) = "refused"
      BY <2>3 DEF Due
    <3> HIDE DEF no
    <3> QED BY <2>1, <2>2, <3>1, <3>2, <3>3, <3>4, FrameStepInv
  <2>4. CASE role[r] # NoRole /\ Readable(role[r])
    <3>1. GetRole(role[r]) \in RoleRecord
      BY <2>1, <2>4, RolesRead
    <3>2. yes \in Frame
      BY <2>1, <3>1 DEF Frame
    <3>3. Goto(p, yes)
      BY <1>2, <2>4 DEF GrantRole
    <3>4. /\ yes.pc = "text" /\ yes.role = r /\ yes.held = GetRole(role[r])
          /\ yes.out = frame[p].out /\ yes.due = frame[p].due
      BY <2>1 DEF Frame
    <3>5. Due(r) = StatementOf(GetRole(role[r]), template)
      BY <2>4 DEF Due
    <3> HIDE DEF yes
    <3> QED BY <2>1, <2>2, <3>1, <3>2, <3>3, <3>4, <3>5, FrameStepInv
  <2> QED BY <2>3, <2>4
<1>3. CASE GrantStatement(p)
  <2> DEFINE out == StatementOf(frame[p].held, template)
             f == [frame[p] EXCEPT !.pc = "done", !.out = out]
  <2>1. /\ frame[p].pc = "text" /\ frame[p].role \in Role /\ frame[p] \in Frame
        /\ frame[p].held \in RoleRecord
        /\ template \in [Statement -> Template]
        /\ UNCHANGED <<role, template, overlapped>>
    BY <1>3 DEF GrantStatement, RoleInv, RoleTypeOK
  <2>2. out \in Outcome
    BY <2>1, StatementsChosen
  <2>3. p \notin overlapped => frame[p].due = out
    BY <2>1 DEF RoleInv, KnowsTheStore
  <2>4. Goto(p, f)
    BY <1>3 DEF GrantStatement
  <2> HIDE DEF out
  <2>5. f \in Frame
    BY <2>1, <2>2 DEF Frame
  <2>6. f.pc = "done" /\ f.role = frame[p].role /\ f.out = out /\ f.due = frame[p].due
    BY <2>1 DEF Frame
  <2> HIDE DEF f
  <2> QED BY <2>1, <2>3, <2>4, <2>5, <2>6, FrameStepInv
<1> QED BY <1>1, <1>2, <1>3

\* A deletion overlaps every other request that has the role in hand.
LEMMA DeleteRoleInv ==
  ASSUME RoleInv, NEW p \in RoleRequest, NEW r \in Role, DeleteRole(p, r)
  PROVE  RoleInv'
<1> USE RoleAssumption DEF RoleInv
<1>1. /\ frame[p].pc = "idle" /\ role' = [role EXCEPT ![r] = NoRole]
      /\ template' = template /\ frame' = frame
      /\ \A q \in RoleRequest :
           q \notin overlapped' =>
             q \notin overlapped /\ (frame[q].pc = "idle" \/ frame[q].role # r)
  BY DEF DeleteRole, ReadersOf
<1>2. RoleTypeOK'
  BY DEF DeleteRole, ReadersOf, RoleTypeOK
<1>3. KnowsTheStore'
  <2>1. ASSUME NEW q \in RoleRequest, q \notin overlapped'
        PROVE (LET f == frame[q]
               IN /\ f.pc = "create" => role[f.role] = NoRole
                  /\ f.pc = "write" => f.held = GetRole(role[f.role])
                  /\ f.pc = "role" => f.due = Due(f.role)
                  /\ f.pc = "text" => f.due = StatementOf(f.held, template))'
    <3>1. CASE frame[q].pc = "idle"
      BY <1>1, <3>1
    <3>2. CASE frame[q].pc # "idle"
      <4>1. frame'[q] = frame[q] /\ role'[frame[q].role] = role[frame[q].role]
        BY <1>1, <2>1, <3>2 DEF RoleTypeOK
      <4> QED BY <1>1, <2>1, <3>2, <4>1, KnowledgeStays DEF KnowsTheStore
    <3> QED BY <3>1, <3>2
  <2>2. ASSUME NEW q \in RoleRequest, frame'[q].pc \in {"create", "write"}
        PROVE Readable(role'[frame'[q].role])
    <3>1. frame[q].role \in Role
      BY <1>1, <2>2 DEF RoleTypeOK
    <3>2. role'[frame[q].role] \in {role[frame[q].role], NoRole}
      BY <1>1, <3>1 DEF RoleTypeOK
    <3> QED BY <1>1, <2>2, <3>2, RolesRead DEF KnowsTheStore
  <2> QED BY <2>1, <2>2 DEF KnowsTheStore, Readable
<1>4. GrantAsDue'
  BY <1>1 DEF GrantAsDue
<1> QED BY <1>2, <1>3, <1>4

\* A write of a template overlaps every grant.
LEMMA WriteStatementInv ==
  ASSUME RoleInv, NEW p \in RoleRequest, NEW s \in Statement, NEW text \in Template,
         WriteStatement(p, s, text)
  PROVE  RoleInv'
<1> USE RoleAssumption DEF RoleInv
<1>1. /\ role' = role /\ frame' = frame
      /\ template' \in [Statement -> Template]
      /\ overlapped' \subseteq RoleRequest
      /\ \A q \in RoleRequest :
           q \notin overlapped' =>
             q \notin overlapped /\ frame[q].pc \notin {"role", "text", "done"}
  BY DEF WriteStatement, RoleTypeOK
<1>2. RoleTypeOK'
  BY <1>1 DEF RoleTypeOK
<1>3. KnowsTheStore'
  BY <1>1 DEF KnowsTheStore
<1>4. GrantAsDue'
  BY <1>1 DEF GrantAsDue
<1> QED BY <1>2, <1>3, <1>4

\* Every step of a request on roles and templates keeps the invariant.
LEMMA RoleStepInv == RoleInv /\ [RoleNext]_roleVars => RoleInv'
<1> SUFFICES ASSUME RoleInv, [RoleNext]_roleVars PROVE RoleInv'
  OBVIOUS
<1>1. CASE UNCHANGED roleVars
  <2>1. \A r : Due(r)' = Due(r)
    BY <1>1 DEF roleVars, Due
  <2> QED BY <1>1, <2>1 DEF roleVars, RoleInv, RoleTypeOK, KnowsTheStore, GrantAsDue
<1>2. CASE RoleNext
  <2>1. PICK p \in RoleRequest :
          \/ \E r \in Role : \/ \E ask \in Ask : CheckRole(p, r, ask)
                             \/ DeleteRole(p, r)
                             \/ ReadRole(p, r)
                             \/ StartGrant(p, r)
          \/ \E s \in Statement : PutStatement(p, s) \/ DeleteStatement(p, s)
          \/ CreateRole(p)
          \/ ReadForUpdate(p)
          \/ UpdateRole(p)
          \/ FailRequest(p)
          \/ GrantRole(p)
          \/ GrantStatement(p)
          \/ AnswerRequest(p)
    BY <1>2 DEF RoleNext
  <2>2. ASSUME NEW s \in Statement, PutStatement(p, s) \/ DeleteStatement(p, s)
        PROVE RoleInv'
    BY <2>2, WriteStatementInv DEF PutStatement, DeleteStatement, Template
  <2> QED BY <2>1, <2>2, PrepareInv, GrantInv, WriteRoleInv, DeleteRoleInv
<1> QED BY <1>1, <1>2

\* What a request holds in hand between its storage calls is true of the store
\* until another one overlaps it, and no write meets a role that cannot be read
\* (pathRoleUpdate, pathCredsRead).
THEOREM RoleSafe == RoleSpec => []RoleInv
<1> QED BY RoleInitInv, RoleStepInv, PTL DEF RoleSpec

\* A grant gets what one look at the store would have given it (pathCredsRead).
THEOREM GrantsAsDue == RoleSpec => []GrantAsDue
<1> QED BY RoleSafe, PTL DEF RoleInv

\* A role changes by a deletion, or by the Put of a request that has it in hand.
LEMMA RoleChanges ==
  ASSUME RoleInv, [RoleNext]_roleVars, NEW r \in Role, role'[r] # role[r]
  PROVE  \/ role'[r] = NoRole
         \/ \E p \in RoleRequest :
              /\ frame[p].role = r
              /\ \/ frame[p].pc = "create" /\ role'[r] = NewRole(frame[p].ask)
                 \/ /\ frame[p].pc = "write"
                    /\ role'[r] = UpdatedRole(frame[p].ask, frame[p].held)
<1>1. role \in [Role -> RoleRecord \cup {NoRole}] /\ role' # role
  BY DEF RoleInv, RoleTypeOK
<1>2. RoleNext
  BY <1>1 DEF roleVars
<1>3. PICK p \in RoleRequest :
        \/ \E d \in Role : DeleteRole(p, d)
        \/ CreateRole(p)
        \/ UpdateRole(p)
  BY <1>1, <1>2 DEF RoleNext, CheckRole, ReadRole, StartGrant, PutStatement,
       DeleteStatement, WriteStatement, ReadForUpdate, FailRequest, GrantRole,
       GrantStatement, AnswerRequest
<1>4. ASSUME NEW d \in Role, DeleteRole(p, d) PROVE role'[r] = NoRole
  BY <1>1, <1>4 DEF DeleteRole
<1>5. ASSUME NEW entry, StoreRole(p, entry)
      PROVE frame[p].role = r /\ role'[r] = entry
  BY <1>1, <1>5 DEF StoreRole
<1> QED BY <1>3, <1>4, <1>5 DEF CreateRole, UpdateRole

\* A role whose migration is missing is never rewritten (getRole in
\* pathRoleUpdate).
THEOREM LegacyRolesStay == RoleSpec => LegacyStays
<1>1. ASSUME RoleInv, [RoleNext]_roleVars, NEW r \in Role
      PROVE /\ ~Readable(role[r]) => role'[r] \in {role[r], NoRole}
            /\ ~Readable(role'[r]) => role'[r] = role[r]
  <2>1. SUFFICES ASSUME role'[r] # role[r], role'[r] # NoRole
                 PROVE  Readable(role[r]) /\ Readable(role'[r])
    BY RolesRead
  <2>2. PICK p \in RoleRequest :
          /\ frame[p].role = r
          /\ \/ frame[p].pc = "create" /\ role'[r] = NewRole(frame[p].ask)
             \/ /\ frame[p].pc = "write"
                /\ role'[r] = UpdatedRole(frame[p].ask, frame[p].held)
    BY <1>1, <2>1, RoleChanges
  <2>3. Readable(role[r])
    BY <1>1, <2>2 DEF RoleInv, KnowsTheStore
  <2>4. frame[p].ask \in Ask /\ frame[p].held \in RoleRecord \cup {NoRole}
    BY <1>1, <2>2 DEF RoleInv, RoleTypeOK, Frame
  <2> QED BY <2>2, <2>3, <2>4, RolesWritten
<1>2. RoleInv /\ [RoleNext]_roleVars =>
        [\A r \in Role :
           /\ ~Readable(role[r]) => role'[r] \in {role[r], NoRole}
           /\ ~Readable(role'[r]) => role'[r] = role[r]]_roleVars
  BY <1>1
<1> QED BY <1>2, RoleSafe, PTL DEF RoleSpec, LegacyStays

\* An update carries over the names and the session variables of the role it
\* replaces, unless another write of the role overlaps it (pathRoleUpdate).
THEOREM UpdatesCarryOver == RoleSpec => CarriedOver
<1>1. ASSUME RoleInv, [RoleNext]_roleVars, NEW r \in Role, InPlace(r)
      PROVE \E p \in RoleRequest :
              /\ frame[p].role = r
              /\ frame[p].pc \in {"create", "write"}
              /\ \/ p \in overlapped
                 \/ /\ role'[r].names = role[r].names
                    /\ role'[r].session \in {role[r].session, frame[p].ask.session}
                    /\ role'[r].session = NotGiven => role[r].session = NotGiven
  <2>1. /\ role[r] \in RoleRecord /\ role[r] # NoRole
        /\ role'[r] # NoRole /\ role'[r] # role[r]
    BY <1>1 DEF InPlace, RoleInv, RoleTypeOK
  <2>2. PICK p \in RoleRequest :
          /\ frame[p].role = r
          /\ \/ frame[p].pc = "create" /\ role'[r] = NewRole(frame[p].ask)
             \/ /\ frame[p].pc = "write"
                /\ role'[r] = UpdatedRole(frame[p].ask, frame[p].held)
    BY <1>1, <2>1, RoleChanges
  <2>3. ASSUME p \notin overlapped
        PROVE /\ role'[r].names = role[r].names
              /\ role'[r].session \in {role[r].session, frame[p].ask.session}
              /\ role'[r].session = NotGiven => role[r].session = NotGiven
    <3>1. frame[p].pc = "write" /\ frame[p].held = GetRole(role[r])
      BY <1>1, <2>1, <2>2, <2>3 DEF RoleInv, KnowsTheStore
    <3>2. /\ frame[p].held \in RoleRecord /\ frame[p].held # NoRole
          /\ frame[p].held.names = role[r].names
          /\ frame[p].held.session = role[r].session
      BY <2>1, <3>1, RolesRead
    <3>3. frame[p].ask \in Ask
      BY <1>1, <3>1 DEF RoleInv, RoleTypeOK
    <3>4. /\ role'[r].names = frame[p].held.names
          /\ role'[r].session = IF frame[p].ask.session = NotGiven
                                THEN frame[p].held.session ELSE frame[p].ask.session
      BY <2>2, <3>1, <3>2, <3>3, RolesWritten
    <3> QED BY <3>2, <3>4
  <2> QED BY <2>2, <2>3
<1>2. RoleInv /\ [RoleNext]_roleVars =>
        [\A r \in Role : InPlace(r) =>
           \E p \in RoleRequest :
             /\ frame[p].role = r
             /\ frame[p].pc \in {"create", "write"}
             /\ \/ p \in overlapped
                \/ /\ role'[r].names = role[r].names
                   /\ role'[r].session \in {role[r].session, frame[p].ask.session}
                   /\ role'[r].session = NotGiven => role[r].session = NotGiven]_roleVars
  BY <1>1
<1> QED BY <1>2, RoleSafe, PTL DEF RoleSpec, CarriedOver
=============================================================================
