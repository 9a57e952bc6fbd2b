------------------------------ MODULE KeepAlive ------------------------------
(***************************************************************************)
(* The keepalive goroutine of a connection (src/odbc/odbc.go):             *)
(* StartKeepAlive, StopKeepAlive, Close and Validate under c.mu, and the   *)
(* goroutine, which takes c.mu to ping but reads c.keepAliveCtx and        *)
(* c.keepAliveDone without it.                                             *)
(*                                                                         *)
(* Each start makes a new pair of a context and a done channel; the pair   *)
(* of a connection is the last one made.                                   *)
(***************************************************************************)
EXTENDS Naturals

CONSTANTS
  Caller,     \* goroutines that use the connection
  Nobody,
  MaxStarts   \* bound: calls of StartKeepAlive

ASSUME KeepAliveAssumption == MaxStarts \in Nat /\ Nobody \notin Caller

Pair == 1..MaxStarts

VARIABLES
  link,      \* "up", "invalid" (connected is false, the sql.DB is open) or "closed"
  holder,    \* the caller that holds c.mu for writing
  reading,   \* goroutines that hold c.mu for reading
  current,   \* the connection's pair, 0 before the first start
  ctx,       \* [Pair -> "live" or "cancelled"]
  done,      \* [Pair -> "open" or "closed"]: the done channel
  loop,      \* [Pair -> where the goroutine of that start is]
  act,       \* [Caller -> where its call is]
  outcome,   \* "running", or "panicked": a closed channel was closed again
  overlaps,  \* history: starts while an earlier goroutine was running
  stopped    \* history: the pair of the last stop that returned

kaVars == <<link, holder, reading, current, ctx, done, loop, act, outcome, overlaps, stopped>>

\* closes, watches: the pairs whose done channel and whose context the goroutine uses.
LoopPC == {"none", "begin", "head", "select", "lock", "ping", "end", "gone"}
Loop == [pc: LoopPC, closes: Nat, watches: Nat]
NoLoop == [pc |-> "none", closes |-> 0, watches |-> 0]
ActPC == {"idle", "stop", "close", "closing"}

Running == {g \in Pair : loop[g].pc \notin {"none", "gone"}}
Free == holder = Nobody /\ reading = {}
Move(g, there) == loop' = [loop EXCEPT ![g].pc = there]
Up == outcome = "running"

KeepAliveInit ==
  /\ link = "up"
  /\ holder = Nobody
  /\ reading = {}
  /\ current = 0
  /\ ctx = [g \in Pair |-> "live"]
  /\ done = [g \in Pair |-> "open"]
  /\ loop = [g \in Pair |-> NoLoop]
  /\ act = [c \in Caller |-> "idle"]
  /\ outcome = "running"
  /\ overlaps = 0
  /\ stopped = 0

-----------------------------------------------------------------------------
(* The callers *)

\* Cancel the context of the pair there is; the first pair has none before it.
CancelCurrent == [g \in Pair |-> IF g = current THEN "cancelled" ELSE ctx[g]]

StartKeepAlive(c) ==
  /\ Up
  /\ act[c] = "idle"
  /\ Free
  /\ current < MaxStarts
  /\ ctx' = CancelCurrent
  /\ current' = current + 1
  /\ loop' = [loop EXCEPT ![current + 1] = [NoLoop EXCEPT !.pc = "begin"]]
  /\ overlaps' = IF Running = {} THEN overlaps ELSE overlaps + 1
  /\ UNCHANGED <<link, holder, reading, done, act, outcome, stopped>>

\* StopKeepAlive, by itself or at the beginning of Close, takes the lock and
\* cancels; it keeps the lock while it waits for the done channel.
StopLock(c, there) ==
  /\ Up
  /\ act[c] = "idle"
  /\ Free
  /\ holder' = c
  /\ ctx' = CancelCurrent
  /\ act' = [act EXCEPT ![c] = there]
  /\ UNCHANGED <<link, reading, current, done, loop, outcome, overlaps, stopped>>

StopKeepAlive(c) == StopLock(c, "stop")
CloseBegins(c)   == StopLock(c, "close")

StopReturns(c) ==
  /\ Up
  /\ act[c] \in {"stop", "close"}
  /\ current # 0 => done[current] = "closed"
  /\ holder' = Nobody
  /\ act' = [act EXCEPT ![c] = IF @ = "stop" THEN "idle" ELSE "closing"]
  /\ stopped' = current
  /\ UNCHANGED <<link, reading, current, ctx, done, loop, outcome, overlaps>>

\* Mutation of CloseDB: the connection is closed without the lock.
CloseDBUnlocked(c) ==
  /\ Up
  /\ act[c] = "closing"
  /\ link' = IF link = "up" THEN "closed" ELSE link
  /\ act' = [act EXCEPT ![c] = "idle"]
  /\ UNCHANGED <<holder, reading, current, ctx, done, loop, outcome, overlaps, stopped>>

\* The rest of Close, under the lock taken anew.  A connection that is not
\* connected, because Validate failed, is not closed.
CloseDB(c) ==
  /\ Up
  /\ act[c] = "closing"
  /\ Free
  /\ link' = IF link = "up" THEN "closed" ELSE link
  /\ act' = [act EXCEPT ![c] = "idle"]
  /\ UNCHANGED <<holder, reading, current, ctx, done, loop, outcome, overlaps, stopped>>

\* Validate pings under the lock; when that fails the connection is given up.
ValidateFails(c) ==
  /\ Up
  /\ act[c] = "idle"
  /\ Free
  /\ link = "up"
  /\ link' = "invalid"
  /\ UNCHANGED <<holder, reading, current, ctx, done, loop, act, outcome, overlaps, stopped>>

\* The context a start was given ends.
ParentCancelled ==
  /\ Up
  /\ \E g \in Pair : g <= current /\ ctx[g] = "live" /\ ctx' = [ctx EXCEPT ![g] = "cancelled"]
  /\ UNCHANGED <<link, holder, reading, current, done, loop, act, outcome, overlaps, stopped>>

-----------------------------------------------------------------------------
(* The goroutine of a start *)

\* defer close(c.keepAliveDone): the channel is read now, whichever pair it is of.
Begin(g) ==
  /\ Up
  /\ loop[g].pc = "begin"
  /\ loop' = [loop EXCEPT ![g].pc = "head", ![g].closes = current]
  /\ UNCHANGED <<link, holder, reading, current, ctx, done, act, outcome, overlaps, stopped>>

\* The select evaluates c.keepAliveCtx.Done() anew each time.
LoopHead(g) ==
  /\ Up
  /\ loop[g].pc = "head"
  /\ loop' = [loop EXCEPT ![g].pc = "select", ![g].watches = current]
  /\ UNCHANGED <<link, holder, reading, current, ctx, done, act, outcome, overlaps, stopped>>

ContextDone(g) ==
  /\ Up
  /\ loop[g].pc = "select"
  /\ ctx[loop[g].watches] = "cancelled"
  /\ Move(g, "end")
  /\ UNCHANGED <<link, holder, reading, current, ctx, done, act, outcome, overlaps, stopped>>

\* The ticker; a select with both channels ready takes either.
TickerFires(g) ==
  /\ Up
  /\ loop[g].pc = "select"
  /\ Move(g, "lock")
  /\ UNCHANGED <<link, holder, reading, current, ctx, done, act, outcome, overlaps, stopped>>

\* c.mu.RLock(), and the end of the goroutine if there is nothing to ping.
LockToPing(g) ==
  /\ Up
  /\ loop[g].pc = "lock"
  /\ holder = Nobody
  /\ \/ /\ link = "up"
        /\ reading' = reading \cup {g}
        /\ Move(g, "ping")
     \/ /\ link # "up"
        /\ reading' = reading
        /\ Move(g, "end")
  /\ UNCHANGED <<link, holder, current, ctx, done, act, outcome, overlaps, stopped>>

\* The ping under the context of the pair there is now, and c.mu.RUnlock().
PingEnds(g) ==
  /\ Up
  /\ loop[g].pc = "ping"
  /\ reading' = reading \ {g}
  /\ \/ ctx[current] = "live" /\ Move(g, "head")
     \/ Move(g, "end")
  /\ UNCHANGED <<link, holder, current, ctx, done, act, outcome, overlaps, stopped>>

\* Mutation of LoopEnds: the done channel is closed at the end of a context only.
LoopEndsSilently(g) ==
  /\ Up
  /\ loop[g].pc = "end"
  /\ done' = IF ctx[current] = "cancelled" THEN [done EXCEPT ![loop[g].closes] = "closed"]
             ELSE done
  /\ Move(g, "gone")
  /\ UNCHANGED <<link, holder, reading, current, ctx, act, outcome, overlaps, stopped>>

\* The deferred close; of a channel that is closed already it is a panic.
LoopEnds(g) ==
  LET mine == loop[g].closes
  IN
  /\ Up
  /\ loop[g].pc = "end"
  /\ outcome' = IF done[mine] = "closed" THEN "panicked" ELSE outcome
  /\ done' = [done EXCEPT ![mine] = "closed"]
  /\ Move(g, "gone")
  /\ UNCHANGED <<link, holder, reading, current, ctx, act, overlaps, stopped>>

\* The steps of one goroutine.
LoopGoes(g) ==
  \/ Begin(g) \/ LoopHead(g) \/ ContextDone(g) \/ TickerFires(g)
  \/ LockToPing(g) \/ PingEnds(g) \/ LoopEnds(g)

CallerGoes(c) == StopReturns(c) \/ CloseDB(c)

KeepAliveNext ==
  \/ \E c \in Caller :
       \/ StartKeepAlive(c) \/ StopKeepAlive(c) \/ CloseBegins(c) \/ ValidateFails(c)
       \/ CallerGoes(c)
  \/ \E g \in Pair : LoopGoes(g)
  \/ ParentCancelled

KeepAliveSpec == KeepAliveInit /\ [][KeepAliveNext]_kaVars

\* Goroutines run, and a ping ends: its context has five seconds.
KeepAliveFair ==
  /\ \A g \in Pair : WF_kaVars(LoopGoes(g))
  /\ \A c \in Caller : WF_kaVars(CallerGoes(c))

KeepAliveFairSpec == KeepAliveSpec /\ KeepAliveFair

-----------------------------------------------------------------------------
(* What holds of the code *)

KeepAliveTypeOK ==
  /\ link \in {"up", "invalid", "closed"}
  /\ holder \in Caller \cup {Nobody}
  /\ reading \subseteq Pair
  /\ current \in 0..MaxStarts
  /\ ctx \in [Pair -> {"live", "cancelled"}]
  /\ done \in [Pair -> {"open", "closed"}]
  /\ loop \in [Pair -> Loop]
  /\ act \in [Caller -> ActPC]
  /\ outcome \in {"running", "panicked"}
  /\ overlaps \in Nat
  /\ stopped \in 0..current

\* The lock: its writer is the caller that waits in StopKeepAlive, its readers
\* are the goroutines that ping, and there are never both.
LockInv ==
  /\ \A c \in Caller : act[c] \in {"stop", "close"} <=> holder = c
  /\ \A g \in Pair : g \in reading <=> loop[g].pc = "ping"
  /\ reading # {} => holder = Nobody

\* Each start has one goroutine, which uses pairs that have been made.
LoopInv ==
  \A g \in Pair :
    /\ loop[g].pc = "none" <=> g > current
    /\ loop[g].pc \in LoopPC \ {"none", "begin"} => loop[g].closes \in g..current
    /\ loop[g].pc \in {"select", "lock", "ping"} => loop[g].watches \in g..current

\* Nothing pings a connection that was closed or given up: Close and Validate
\* wait for the ping, and the goroutine looks again once it has the lock.
PingsOpen == \A g \in Pair : loop[g].pc = "ping" => link = "up"

\* As long as no start overlaps the goroutine of an earlier one, each goroutine
\* closes the channel of its own pair, once.
OwnChannel ==
  overlaps = 0 =>
    /\ outcome = "running"
    /\ \A g \in Running : g = current
    /\ \A g \in Pair : loop[g].pc \notin {"none", "begin"} => loop[g].closes = g
    /\ \A g \in Pair : done[g] = "closed" <=> loop[g].pc = "gone"

\* ... and when StopKeepAlive or Close has returned, and until the next start,
\* nothing is left that would ping.
StoppedIsQuiet ==
  overlaps = 0 /\ stopped = current => Running = {}

\* What a connection may rely on between its calls and its goroutine.
KeepAliveInv ==
  /\ KeepAliveTypeOK /\ LockInv /\ LoopInv /\ PingsOpen /\ OwnChannel /\ StoppedIsQuiet

\* A stop or close returns, but for one case: the goroutine that is to close the
\* channel it waits for had its ticker fire, and waits for the lock it holds.
StopReturnsUnlessTicking ==
  \A c \in Caller :
    act[c] \in {"stop", "close"}
      ~> \/ act[c] \notin {"stop", "close"}
         \/ outcome = "panicked"
         \/ \E g \in Pair : loop[g].pc = "lock" /\ loop[g].closes = current

-----------------------------------------------------------------------------
(* What the tests say *)

\* odbc_test.go:127 "StopKeepAlive() should have closed keepAliveDone channel":
\* it returns.
StopReturnsAlways ==
  \A c \in Caller : act[c] \in {"stop", "close"} ~> act[c] \notin {"stop", "close"}
=============================================================================
