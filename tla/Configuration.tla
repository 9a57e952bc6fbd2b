--------------------------- MODULE Configuration ---------------------------
(***************************************************************************)
(* The named configurations and the pools that are opened from them:       *)
(* src/plugin/path_config.go, src/plugin/path_reload_config.go and         *)
(* prewarmPools of src/plugin/backend.go.                                  *)
(*                                                                         *)
(* A write stores the configuration and then verifies it; no write and no  *)
(* deletion touches the pool of that name.  A reset, and a reload of all   *)
(* configurations of a plugin, read a configuration and replace its pool   *)
(* afterwards, by which time the configuration may be another one.  The    *)
(* locks inside the registry, and the checks of its pools, are the         *)
(* business of ConnectionRegistry; here UpdateConnection is one step.      *)
(***************************************************************************)

CONSTANTS
  ConfigRequest,  \* requests served concurrently
  ConfigName,     \* names of configurations, which are names of pools
  Target,         \* values of connection_string
  NoTarget,       \* the empty connection_string, of a configuration with a connection_url
  PluginName,     \* values of plugin_name
  NoConfig,       \* no entry under config/<name>
  NoPool          \* no pool of that name in the registry

ASSUME ConfigAssumption ==
  /\ NoConfig \notin ConfigName
  /\ NoPool \notin Target \cup {NoTarget}
  /\ NoTarget \notin Target

VARIABLES
  config,   \* [ConfigName -> Config \cup {NoConfig}]: the entries config/<name>
  pool,     \* [ConfigName -> where its pool connects, or NoPool]
  call,     \* [ConfigRequest -> Call]: the requests under way
  stored,   \* history: [ConfigName -> targets stored since the plugin started]
  crossed   \* history: requests during which another one wrote what they read

configVars == <<config, pool, call, stored, crossed>>

Config == [target: Target \cup {NoTarget}, plugin: PluginName]

\* verify: a write has stored and is verifying.  answer: a read holds what it found.
\* list: a reset or reload goes through the names in todo.  update: it has read
\* the configuration held of name at.
Call == [pc: {"idle", "verify", "answer", "list", "update"},
         todo: SUBSET ConfigName, at: ConfigName \cup {NoConfig},
         held: Config \cup {NoConfig}, plugins: SUBSET PluginName]

Quiet == [pc |-> "idle", todo |-> {}, at |-> NoConfig, held |-> NoConfig, plugins |-> {}]

\* The pool prewarmPools opens for a name: only for a configuration with a
\* connection string, and only if it opens.
Prewarmed(n, opened) ==
  IF config[n] # NoConfig /\ config[n].target # NoTarget /\ n \in opened
  THEN config[n].target ELSE NoPool

StoredTargets(n) == IF config[n] = NoConfig THEN {} ELSE {config[n].target}

ConfigInit ==
  /\ config \in [ConfigName -> Config \cup {NoConfig}]
  /\ pool \in {[n \in ConfigName |-> Prewarmed(n, opened)] : opened \in SUBSET ConfigName}
  /\ call = [p \in ConfigRequest |-> Quiet]
  /\ stored = [n \in ConfigName |-> StoredTargets(n)]
  /\ crossed = {}

Become(p, c) == call' = [call EXCEPT ![p] = c]

EndCall(p) == Become(p, Quiet) /\ crossed' = crossed \ {p}

\* The requests other than p that have yet to replace the pool of n.
UpdatersOf(n, p) ==
  {q \in ConfigRequest \ {p} : n \in call[q].todo \/ call[q].at = n}

-----------------------------------------------------------------------------
\* A configuration that passes the tests of pathConfigWrite; the others, and a
\* Put that fails, end the request before it has changed anything.
WriteConfig(p, n, cfg, verify) ==
  /\ call[p].pc = "idle"
  /\ config' = [config EXCEPT ![n] = cfg]
  /\ stored' = [stored EXCEPT ![n] = @ \cup {cfg.target}]
  /\ crossed' = crossed \cup UpdatersOf(n, p)
  /\ Become(p, IF verify THEN [Quiet EXCEPT !.pc = "verify"] ELSE Quiet)
  /\ UNCHANGED pool

\* The connection opens or it does not, and the answer says which; the
\* configuration stays as it was stored.
VerifyConfig(p) ==
  /\ call[p].pc = "verify"
  /\ EndCall(p)
  /\ UNCHANGED <<config, pool, stored>>

DeleteConfig(p, n) ==
  /\ call[p].pc = "idle"
  /\ config' = [config EXCEPT ![n] = NoConfig]
  /\ crossed' = crossed \cup UpdatersOf(n, p)
  /\ UNCHANGED <<pool, call, stored>>

\* A read answers with what is stored, the secrets masked, and writes nothing.
ShowConfig(p, n) ==
  /\ call[p].pc = "idle"
  /\ Become(p, [Quiet EXCEPT !.pc = "answer", !.held = config[n]])
  /\ UNCHANGED <<config, pool, stored, crossed>>

AnswerConfig(p) ==
  /\ call[p].pc = "answer"
  /\ EndCall(p)
  /\ UNCHANGED <<config, pool, stored>>

\* reset/<name> and config/<region>/reload take one name, whatever its plugin.
ResetConfig(p, n) ==
  /\ call[p].pc = "idle"
  /\ Become(p, [Quiet EXCEPT !.pc = "list", !.todo = {n}, !.plugins = PluginName])
  /\ UNCHANGED <<config, pool, stored, crossed>>

\* reload/<plugin_name> takes every name there is, and skips those of other plugins.
ReloadConfigs(p, plugin) ==
  /\ call[p].pc = "idle"
  /\ Become(p, [Quiet EXCEPT !.pc = "list", !.plugins = {plugin},
                   !.todo = {n \in ConfigName : config[n] # NoConfig}])
  /\ UNCHANGED <<config, pool, stored, crossed>>

\* The configuration is read; one that has gone, or cannot be read, and one of
\* another plugin is passed over.
\* (ReadConfigAnyPlugin: the plugin is not compared.)
ReadConfigAnyPlugin(p, n) ==
  LET cfg == config[n]
  IN /\ call[p].pc = "list"
     /\ n \in call[p].todo
     /\ cfg # NoConfig
     /\ Become(p, [call[p] EXCEPT !.pc = "update", !.todo = @ \ {n},
                                  !.at = n, !.held = cfg])
     /\ UNCHANGED <<config, pool, stored, crossed>>
ReadConfig(p, n) ==
  LET cfg == config[n]
  IN /\ call[p].pc = "list"
     /\ n \in call[p].todo
     /\ \/ /\ cfg # NoConfig
           /\ cfg.plugin \in call[p].plugins
           /\ Become(p, [call[p] EXCEPT !.pc = "update", !.todo = @ \ {n},
                                        !.at = n, !.held = cfg])
        \/ Become(p, [call[p] EXCEPT !.todo = @ \ {n}])
     /\ UNCHANGED <<config, pool, stored, crossed>>

\* UpdateConnection closes and forgets the pool there is before it opens the new one.
Updated(cfg, opens) == IF opens THEN cfg.target ELSE NoPool

\* (UpdatePoolOfAll: every name still to be done gets this configuration.)
UpdatePoolOfAll(p, opens) ==
  /\ call[p].pc = "update"
  /\ pool' = [n \in ConfigName |-> IF n = call[p].at \/ n \in call[p].todo
                                   THEN Updated(call[p].held, opens) ELSE pool[n]]
  /\ Become(p, [call[p] EXCEPT !.pc = "list", !.at = NoConfig, !.held = NoConfig])
  /\ UNCHANGED <<config, stored, crossed>>
UpdatePool(p, opens) ==
  /\ call[p].pc = "update"
  /\ pool' = [pool EXCEPT ![call[p].at] = Updated(call[p].held, opens)]
  /\ Become(p, [call[p] EXCEPT !.pc = "list", !.at = NoConfig, !.held = NoConfig])
  /\ UNCHANGED <<config, stored, crossed>>

EndReload(p) ==
  /\ call[p].pc = "list"
  /\ call[p].todo = {}
  /\ EndCall(p)
  /\ UNCHANGED <<config, pool, stored>>

\* The plugin process ends and is started again; Setup opens what is stored
\* before any request is served.
RestartPlugin(opened) ==
  /\ pool' = [n \in ConfigName |-> Prewarmed(n, opened)]
  /\ call' = [p \in ConfigRequest |-> Quiet]
  /\ stored' = [n \in ConfigName |-> StoredTargets(n)]
  /\ crossed' = {}
  /\ UNCHANGED config

ConfigNext ==
  \/ \E p \in ConfigRequest :
       \/ \E n \in ConfigName : \/ \E cfg \in Config, verify \in BOOLEAN : WriteConfig(p, n, cfg, verify)
                                \/ DeleteConfig(p, n)
                                \/ ShowConfig(p, n)
                                \/ ResetConfig(p, n)
                                \/ ReadConfig(p, n)
       \/ \E plugin \in PluginName : ReloadConfigs(p, plugin)
       \/ VerifyConfig(p)
       \/ AnswerConfig(p)
       \/ \E opens \in BOOLEAN : UpdatePool(p, opens)
       \/ EndReload(p)
  \/ \E opened \in SUBSET ConfigName : RestartPlugin(opened)

ConfigSpec == ConfigInit /\ [][ConfigNext]_configVars

-----------------------------------------------------------------------------
\* Every variable has its type; a request that is about to replace a pool knows
\* which and by what, and will not come to that name again.
ConfigTypeOK ==
  /\ config \in [ConfigName -> Config \cup {NoConfig}]
  /\ pool \in [ConfigName -> Target \cup {NoTarget, NoPool}]
  /\ call \in [ConfigRequest -> Call]
  /\ stored \in [ConfigName -> SUBSET (Target \cup {NoTarget})]
  /\ crossed \subseteq ConfigRequest
  /\ \A p \in ConfigRequest :
       /\ call[p].at \notin call[p].todo
       /\ call[p].pc = "update" => call[p].at # NoConfig /\ call[p].held # NoConfig

\* A pool connects to where a configuration of its own name has pointed since the
\* plugin was started, by a write or at the start: neither a restart nor a reset
\* that a write or a deletion overtakes brings back an older one.
PoolFromThisLife ==
  /\ \A n \in ConfigName :
       /\ pool[n] # NoPool => pool[n] \in stored[n]
       /\ StoredTargets(n) \subseteq stored[n]
  /\ \A p \in ConfigRequest :
       call[p].pc = "update" => call[p].held.target \in stored[call[p].at]

\* What a reset or reload is about to open is what is stored, of a plugin it was
\* asked for, until a write or deletion overlaps it.
HoldsTheStored ==
  \A p \in ConfigRequest \ crossed :
    call[p].pc = "update" =>
      call[p].held = config[call[p].at] /\ call[p].held.plugin \in call[p].plugins

\* The inductive invariant of the proofs: what pathConfigReloadHandler holds in
\* hand between reading a configuration and UpdateConnection.
ConfigInv == ConfigTypeOK /\ PoolFromThisLife /\ HoldsTheStored

\* Whatever a reset or reload opens is the stored configuration of that pool, of
\* a plugin it was asked for, unless a write or deletion of a configuration it
\* goes through has overlapped it; and a pool changes in no other way but a
\* restart (pathConfigResetHandler, pathConfigReloadHandler).
ResetOpensStored ==
  [][\A n \in ConfigName : pool'[n] # pool[n] =>
       \/ \E opened \in SUBSET ConfigName : RestartPlugin(opened)
       \/ \E p \in ConfigRequest :
            /\ call[p].at = n
            /\ \/ p \in crossed
               \/ /\ config[n] # NoConfig
                  /\ pool'[n] \in {config[n].target, NoPool}
                  /\ config[n].plugin \in call[p].plugins]_configVars
=============================================================================
