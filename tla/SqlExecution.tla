---------------------------- MODULE SqlExecution ----------------------------
(***************************************************************************)
(* One call of executeSQL (src/plugin/path_creds.go): the attempts of      *)
(* retry.Do (src/retry/retry.go), each with the tries of odbc.Connect and  *)
(* the passes of ExecuteMultipleStatements (src/odbc/odbc.go), each of     *)
(* which sends every statement of the text again from the first.           *)
(*                                                                         *)
(* Every other module takes the call as one step with three outcomes:      *)
(* done, not done, and failed although done.  DatabaseCall is that step.   *)
(***************************************************************************)
EXTENDS Naturals, SequencesExt

CONSTANTS
  Text,            \* texts to execute, sequences of lines
  Repeatable,      \* positions of the statements a database accepts twice
  MaxAttempts,     \* of retry.Do: max_retries of the configuration, or 3
  ConnectTries,    \* of odbc.Connect: 3
  MaxPasses        \* of ExecuteMultipleStatements: 3

\* What parseSQLStatements sees of a line: nothing, text, text that ends in a
\* semicolon, or just the semicolon.
Line == {"blank", "text", "end", "semicolon"}

-----------------------------------------------------------------------------
(* parseSQLStatements: a statement ends with the line that ends in a        *)
(* semicolon; two of them on one line are sent as one                       *)

\* What has been read: the statements that ended, and what the last one has.
NothingRead == [done |-> <<>>, current |-> <<>>]

\* The loop body, for line i.
AddLine(acc, t, i) ==
  CASE t[i] = "blank" -> acc
    [] t[i] = "text" -> [acc EXCEPT !.current = Append(@, i)]
    [] OTHER -> [done |-> Append(acc.done, Append(acc.current, i)), current |-> <<>>]

\* After each number of lines.
Cuts(t) ==
  LET cut[i \in 0..Len(t)] == IF i = 0 THEN NothingRead ELSE AddLine(cut[i - 1], t, i)
  IN  cut

Cut(t) == Cuts(t)[Len(t)]

\* Mutation of Statements: what follows the last semicolon is lost.
StatementsToSemicolon(t) == Cut(t).done

\* The statements of a text, each the sequence of its lines.
Statements(t) ==
  IF Cut(t).current = <<>> THEN Cut(t).done
  ELSE Append(Cut(t).done, Cut(t).current)

\* A statement that is nothing but its semicolon is not sent.
Sendable(t, s) == \E j \in DOMAIN s : t[s[j]] # "semicolon"

\* What the loop of executeMultipleStatementsOnce sends of the first statements.
Sends(t) ==
  LET parts == Statements(t)
      plan[k \in 0..Len(parts)] ==
        IF k = 0 THEN <<>>
        ELSE IF Sendable(t, parts[k]) THEN Append(plan[k - 1], parts[k])
        ELSE plan[k - 1]
  IN  plan

ToSend(t) == Sends(t)[Len(Statements(t))]

ASSUME ExecutionAssumption ==
  /\ MaxAttempts \in Nat \ {0}
  /\ ConnectTries \in Nat \ {0}
  /\ MaxPasses \in Nat \ {0}
  /\ Repeatable \subseteq Nat

ASSUME TextAssumption == Text \subseteq Seq(Line)

VARIABLES
  text,       \* the text this call executes
  pc,         \* the loop it is in
  attempt,    \* of retry.Do
  try,        \* of odbc.Connect
  pass,       \* of ExecuteMultipleStatements
  next,       \* the statement to send
  session,    \* the connection of the attempt
  cancelled,  \* the context of the request has ended
  answer,     \* what the caller gets
  connects,   \* history: connections tried
  sent,       \* history: [statement -> how often it was sent]
  taken,      \* history: statements that took effect
  stale       \* history: unrepeatable statements that took effect in a pass that failed

vars == <<text, pc, attempt, try, pass, next, session, cancelled, answer,
          connects, sent, taken, stale>>

Plan == ToSend(text)

Blank == \A i \in DOMAIN text : text[i] = "blank"

Init ==
  /\ text \in Text
  /\ pc = "attempt"
  /\ attempt = 1
  /\ try = 1
  /\ pass = 1
  /\ next = 1
  /\ session = "closed"
  /\ cancelled = FALSE
  /\ answer = "none"
  /\ connects = 0
  /\ sent = [k \in DOMAIN Plan |-> 0]
  /\ taken = {}
  /\ stale = {}

Answer(a) ==
  /\ pc' = "done"
  /\ answer' = a
  /\ session' = "closed"
  /\ UNCHANGED <<attempt, try, pass, next>>

\* An attempt of retry.Do ends with an error worth another one; the connection,
\* if there is one, is closed.
AttemptFails ==
  \/ attempt = MaxAttempts /\ Answer("error")
  \/ /\ attempt < MaxAttempts
     /\ attempt' = attempt + 1
     /\ pc' = "attempt"
     /\ session' = "closed"
     /\ UNCHANGED <<try, pass, next, answer>>

-----------------------------------------------------------------------------
(* retry.Do and odbc.Connect *)

\* Mutation of Attempt: a context that has ended does not end the call.
AttemptWaits ==
  /\ pc = "attempt"
  /\ ~cancelled
  /\ pc' = "connect"
  /\ try' = 1
  /\ UNCHANGED <<attempt, pass, next, session, answer>>
  /\ UNCHANGED <<text, cancelled, connects, sent, taken, stale>>

\* The context is looked at before each attempt, and ends the wait between two.
Attempt ==
  /\ pc = "attempt"
  /\ \/ cancelled /\ Answer("error")
     \/ /\ ~cancelled
        /\ pc' = "connect"
        /\ try' = 1
        /\ UNCHANGED <<attempt, pass, next, session, answer>>
  /\ UNCHANGED <<text, cancelled, connects, sent, taken, stale>>

\* odbc.Connect does not know of the context.
ConnectSucceeds ==
  /\ pc = "connect"
  /\ connects' = connects + 1
  /\ pc' = "pass"
  /\ pass' = 1
  /\ session' = "open"
  /\ UNCHANGED <<text, attempt, try, next, cancelled, answer, sent, taken, stale>>

ConnectFails ==
  /\ pc = "connect"
  /\ connects' = connects + 1
  /\ \/ /\ try < ConnectTries
        /\ try' = try + 1
        /\ UNCHANGED <<pc, attempt, pass, next, session, answer>>
     \/ try = ConnectTries /\ AttemptFails
     \/ Answer("error")
  /\ UNCHANGED <<text, cancelled, sent, taken, stale>>

-----------------------------------------------------------------------------
(* ExecuteMultipleStatements *)

Pass ==
  /\ pc = "pass"
  /\ \/ ~Blank /\ cancelled /\ Answer("error")
     \/ Plan = <<>> /\ (Blank \/ ~cancelled) /\ Answer("ok")
     \/ /\ Plan # <<>>
        /\ ~cancelled
        /\ pc' = "send"
        /\ next' = 1
        /\ UNCHANGED <<attempt, try, pass, session, answer>>
  /\ UNCHANGED <<text, cancelled, connects, sent, taken, stale>>

\* ExecContext sends nothing once the context has ended.
Refused ==
  /\ pc = "send"
  /\ cancelled
  /\ Answer("error")
  /\ UNCHANGED <<text, cancelled, connects, sent, taken, stale>>

Sending ==
  /\ pc = "send"
  /\ ~cancelled
  /\ sent' = [sent EXCEPT ![next] = @ + 1]
  /\ UNCHANGED <<text, cancelled, connects>>

\* A database creates or drops a user once.
Accepts(k) == k \in Repeatable \/ k \notin taken

StatementSucceeds ==
  /\ Sending
  /\ Accepts(next)
  /\ taken' = taken \cup {next}
  /\ \/ next = Len(Plan) /\ Answer("ok")
     \/ /\ next < Len(Plan)
        /\ next' = next + 1
        /\ UNCHANGED <<pc, attempt, try, pass, session, answer>>
  /\ UNCHANGED stale

\* A statement that failed may have taken effect all the same.
MayHaveTaken ==
  \/ Accepts(next) /\ taken' = taken \cup {next}
  \/ taken' = taken

\* Mutation of StatementFails: a pass goes on where the one before it stopped.
StatementFailsResuming ==
  /\ Sending
  /\ MayHaveTaken
  /\ \/ /\ pass < MaxPasses
        /\ pass' = pass + 1
        /\ pc' = "send"
        /\ next' = IF next < Len(Plan) THEN next + 1 ELSE next
        /\ UNCHANGED <<attempt, try, session, answer>>
     \/ pass = MaxPasses /\ AttemptFails
  /\ stale' = taken' \ Repeatable

\* An error that is worth another pass: all statements are sent again.
StatementFails ==
  /\ Sending
  /\ MayHaveTaken
  /\ \/ /\ pass < MaxPasses
        /\ pass' = pass + 1
        /\ pc' = "pass"
        /\ UNCHANGED <<attempt, try, next, session, answer>>
     \/ pass = MaxPasses /\ AttemptFails
  /\ stale' = taken' \ Repeatable

\* Any other error ends the call.
StatementRejected ==
  /\ Sending
  /\ MayHaveTaken
  /\ Answer("error")
  /\ stale' = taken' \ Repeatable

-----------------------------------------------------------------------------
Cancel ==
  /\ pc # "done"
  /\ ~cancelled
  /\ cancelled' = TRUE
  /\ UNCHANGED <<text, pc, attempt, try, pass, next, session, answer,
                 connects, sent, taken, stale>>

Step ==
  \/ Attempt \/ ConnectSucceeds \/ ConnectFails \/ Pass \/ Refused
  \/ StatementSucceeds \/ StatementFails \/ StatementRejected

Next == Step \/ Cancel

Spec == Init /\ [][Next]_vars

\* Every call of the driver returns (QUERYTIMEOUT, CONNTIMEOUT), every sleep ends.
FairSpec == Spec /\ WF_vars(Step)

-----------------------------------------------------------------------------
(* What holds of the code *)

\* Every variable has its type; the connection of an attempt is open from its
\* Connect to its end, on each of its ways out (defer conn.Close()).
TypeOK ==
  /\ text \in Text
  /\ pc \in {"attempt", "connect", "pass", "send", "done"}
  /\ attempt \in 1..MaxAttempts
  /\ try \in 1..ConnectTries
  /\ pass \in 1..MaxPasses
  /\ next \in Nat
  /\ pc = "send" => next \in DOMAIN Plan
  /\ session \in {"open", "closed"}
  /\ session = "open" <=> pc \in {"pass", "send"}
  /\ cancelled \in BOOLEAN
  /\ answer \in {"none", "ok", "error"}
  /\ answer = "none" <=> pc # "done"
  /\ connects \in Nat
  /\ sent \in [DOMAIN Plan -> Nat]
  /\ taken \subseteq DOMAIN Plan
  /\ stale \subseteq taken \ Repeatable

Ends(t, i) == t[i] \in {"end", "semicolon"}

\* Line i is in one of the statements.
IsIn(i, parts) == \E k \in DOMAIN parts : \E j \in DOMAIN parts[k] : parts[k][j] = i

\* The lines of the statements, one after the other, are in the order of the text,
\* and none is there twice.
InOrder(parts) ==
  \A k, m \in DOMAIN parts : \A j \in DOMAIN parts[k], l \in DOMAIN parts[m] :
    k < m \/ (k = m /\ j < l) => parts[k][j] < parts[m][l]

\* What parseSQLStatements makes of a text.
SplitOf(t, parts) ==
  /\ InOrder(parts)
  /\ \A i \in DOMAIN t : IsIn(i, parts) <=> t[i] # "blank"
  /\ \A k \in DOMAIN parts :
       /\ parts[k] # <<>>
       /\ \A j \in DOMAIN parts[k] :
            /\ parts[k][j] \in DOMAIN t
            /\ Ends(t, parts[k][j]) => j = Len(parts[k])
       /\ k < Len(parts) => Ends(t, parts[k][Len(parts[k])])

\* What executeMultipleStatementsOnce sends of it.
SentOf(t, parts, plan) ==
  /\ InOrder(plan)
  /\ \A k \in DOMAIN plan : \E m \in DOMAIN parts : plan[k] = parts[m]
  /\ \A m \in DOMAIN parts :
       (\E k \in DOMAIN plan : plan[k] = parts[m]) <=> Sendable(t, parts[m])
  /\ \A i \in DOMAIN t : t[i] \in {"text", "end"} => IsIn(i, plan)

\* parseSQLStatements loses, adds and reorders no line: the statements are the
\* lines that are not blank, cut after each one that ends in a semicolon.  Of these
\* executeMultipleStatementsOnce sends, in their order, all but the ones without
\* text, and so every line that has any.
SplitKeepsLines ==
  /\ SplitOf(text, Statements(text))
  /\ SentOf(text, Statements(text), Plan)

\* Whatever failed and was sent again: the statements that took effect are the
\* first ones of the text, all of them if the caller is told "ok".  A role's
\* GRANT is never executed for a user its CREATE USER did not make.
TakenInOrder ==
  /\ \A k \in taken : 1..k \subseteq taken
  /\ answer = "ok" => taken = DOMAIN Plan

\* An unrepeatable statement (CREATE USER, DROP USER) that took effect in a pass
\* that failed makes the call fail, whatever the later passes do: their first
\* rejection of it never turns into an "ok": a CREATE USER whose answer was lost
\* leaves a user behind that no record names.
NoSecondChance == stale # {} => answer # "ok"

Call == INSTANCE DatabaseCall
          WITH length <- Len(Plan), done <- taken, lost <- stale # {}, result <- answer

\* The three loops are one call of DatabaseCall: what takes effect is a beginning
\* of the text, in its order, and once an unrepeatable statement has taken effect
\* in a pass that failed, no loop changes anything in the database any more and the
\* caller gets an error.
ImplementsCall == Call!Spec

\* The three loops together send no statement, and try no connection, more often
\* than this.
BoundedWork ==
  /\ connects <= MaxAttempts * ConnectTries
  /\ \A k \in DOMAIN Plan : sent[k] <= MaxAttempts * MaxPasses

\* Once the context has ended no statement reaches the database, whichever loop
\* the call is in, and retry.Do begins no attempt; a connection in progress, which
\* does not know of the context, may be tried to its last time.
CancelledSendsNothing ==
  [][cancelled => /\ sent' = sent
                  /\ taken' = taken
                  /\ pc' = "connect" => pc = "connect"]_vars

\* Every call is answered: nested as they are, the loops end.
CallEnds == <>(pc = "done")
=============================================================================
