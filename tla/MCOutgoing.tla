------------------------------ MODULE MCOutgoing ------------------------------
(***************************************************************************)
(* SqlExecution, KeepAlive and Webhook for TLC: the calls the plugin makes *)
(* over a network.  The three share no state, so none need run alongside   *)
(* another: a behaviour here is one call of executeSQL, and after one that *)
(* had nothing to execute and met no failure either of the others follows. *)
(***************************************************************************)
EXTENDS SqlExecution, KeepAlive, Webhook

VARIABLE served  \* what this behaviour runs

\* Nothing, only a semicolon, one statement over two lines, and three statements
\* of which the last has no semicolon.
MCText ==
  { <<"blank">>,
    <<"semicolon", "blank">>,
    <<"text", "end">>,
    <<"end", "blank", "text", "semicolon", "semicolon", "text">> }

\* retry_count below, at and above what has a meaning.
RetryCounts == {-1, 0, 2}

OutgoingInit ==
  /\ served = "sql"
  /\ Init
  /\ KeepAliveInit
  /\ WebhookInit

RunSql(A)       == served = "sql" /\ A /\ UNCHANGED <<served, kaVars, hookVars>>
RunKeepAlive(A) == served = "keepalive" /\ A /\ UNCHANGED <<served, vars, hookVars>>
RunWebhook(A)   == served = "webhook" /\ A /\ UNCHANGED <<served, vars, kaVars>>

Proceed ==
  /\ served = "sql"
  /\ Blank /\ connects = 1 /\ answer = "ok" /\ ~cancelled
  /\ served' \in {"keepalive", "webhook"}
  /\ UNCHANGED <<vars, kaVars, hookVars>>

OutgoingNext ==
  RunSql(Next) \/ Proceed \/ RunKeepAlive(KeepAliveNext) \/ RunWebhook(WebhookNext)

outgoingVars == <<served, vars, kaVars, hookVars>>

\* The fairness of FairSpec and of KeepAliveFairSpec.
OutgoingSpec ==
  /\ OutgoingInit
  /\ [][OutgoingNext]_outgoingVars
  /\ WF_outgoingVars(RunSql(Step))
  /\ \A g \in Pair : WF_outgoingVars(RunKeepAlive(LoopGoes(g)))
  /\ \A c \in Caller : WF_outgoingVars(RunKeepAlive(CallerGoes(c)))
=============================================================================
