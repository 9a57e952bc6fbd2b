------------------------------- MODULE Routing -------------------------------
(***************************************************************************)
(* Which handler a request reaches: Backend.paths() (src/plugin/backend.go) *)
(* and the Pattern of each path.  The framework anchors the patterns at     *)
(* both ends, tries them in this order and takes the first that matches.    *)
(*                                                                         *)
(* A path is a sequence of segments.  Name stands for GenericNameRegex,     *)
(* which matches one segment and no slash.                                  *)
(***************************************************************************)
EXTENDS Naturals, Sequences

Name == "<name>"
NoRoute == "no route"

\* <<function of backend.paths(), pattern>>
Routes == <<
  <<"pathConfig",           <<"config", Name>> >>,
  <<"pathConfigList",       <<"config">> >>,
  <<"pathConfigReset",      <<"reset", Name>> >>,
  <<"pathConfigReload",     <<"reload", Name>> >>,
  <<"pathConfigV1",         <<"v1", "config">> >>,
  <<"pathConfigBackup",     <<"config", "backup">> >>,
  <<"pathConfigRestore",    <<"config", "restore">> >>,
  <<"pathReloadConfig",     <<"reload-config">> >>,
  <<"pathReloadConfigV1",   <<"config", "reload">> >>,
  <<"pathReloadPlugin",     <<"reload", "plugin">> >>,
  <<"pathWebhook",          <<"webhook", "config">> >>,
  <<"pathRoles",            <<"roles", Name>> >>,
  <<"pathRolesV1",          <<"v1", "roles", Name>> >>,
  <<"pathRoleList",         <<"roles">> >>,
  <<"pathRoleListV1",       <<"v1", "roles">> >>,
  <<"pathStatements",       <<"statements", Name>> >>,
  <<"pathStatementList",    <<"statements">> >>,
  <<"pathRotateRoot",       <<"rotate-root">> >>,
  <<"pathRotateRootV1",     <<"v1", "rotate-root">> >>,
  <<"pathCreds",            <<"creds", Name>> >>,
  <<"pathCredsV1",          <<"v1", "creds", Name>> >>,
  <<"pathCredsBatch",       <<"creds", "batch", Name>> >>,
  <<"pathRenewCreds",       <<"renew-cred", Name>> >>,
  <<"pathRenewCredsBatch",  <<"renew-cred", "batch", Name>> >>,
  <<"pathRevokeCreds",      <<"revoke-cred", Name>> >>,
  <<"pathBulkRevokeCreds",  <<"bulk-revoke-creds">> >>,
  <<"pathBulkRevokeByRole", <<"bulk-revoke-creds", "role", Name>> >>,
  <<"pathRevokeAllCreds",   <<"bulk-revoke-creds", "all">> >>,
  <<"pathLeases",           <<"leases">> >>,
  <<"pathLeaseInfo",        <<"leases", Name>> >>,
  <<"pathCleanupExpired",   <<"leases", "cleanup">> >>,
  <<"pathLeaseLookup",      <<"lookup-lease">> >>,
  <<"pathExtendLease",      <<"leases", "extend", Name>> >>,
  <<"pathStaticRoles",      <<"static-roles", Name>> >>,
  <<"pathStaticRoleList",   <<"static-roles">> >>,
  <<"pathStaticCreds",      <<"static-creds", Name>> >>,
  <<"pathRotateStaticRole", <<"rotate-role", Name>> >>,
  <<"pathHealth",           <<"health">> >>,
  <<"pathReadiness",        <<"readiness">> >>,
  <<"pathLiveness",         <<"liveness">> >>,
  <<"pathDegradation",      <<"degradation">> >>,
  <<"pathVersion",          <<"version">> >>,
  <<"pathAPIVersion",       <<"api-version">> >>,
  <<"pathInfo",             <<"info">> >>,
  <<"pathPoolStats",        <<"pool-stats">> >>,
  <<"pathMetrics",          <<"metrics">> >>,
  <<"pathRateLimitConfig",  <<"rate-limit", "config">> >>,
  <<"pathRateLimitStatus",  <<"rate-limit", "status">> >> >>

Handler == {Routes[i][1] : i \in DOMAIN Routes}
Pattern(i) == Routes[i][2]

Matches(pattern, path) ==
  /\ Len(pattern) = Len(path)
  /\ \A i \in DOMAIN pattern : pattern[i] \in {Name, path[i]}

Matching(path) == {i \in DOMAIN Routes : Matches(Pattern(i), path)}

\* The handler of a path: the first of the list whose pattern matches it.
HandlerOf(path) ==
  IF Matching(path) = {} THEN NoRoute
  ELSE LET first == CHOOSE i \in Matching(path) : \A j \in Matching(path) : i <= j
       IN  Routes[first][1]

\* The paths a pattern is there for, with an ordinary name in its open segments.
Example(i) ==
  [k \in DOMAIN Pattern(i) |-> IF Pattern(i)[k] = Name THEN "app" ELSE Pattern(i)[k]]

\* Handlers that no request reaches: whatever their pattern matches, an earlier
\* pattern has matched.
Shadowed ==
  {Routes[i][1] : i \in {j \in DOMAIN Routes : HandlerOf(Example(j)) # Routes[j][1]}}
=============================================================================
