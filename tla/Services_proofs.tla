--------------------------- MODULE Services_proofs ---------------------------
(***************************************************************************)
(* What the handlers rely on: notifications, the keepalive of a            *)
(* connection, the rate limiter and the query cache, each for any number   *)
(* of requests and any sizes and counts.                                   *)
(***************************************************************************)
EXTENDS Webhook, KeepAlive, RateLimit, QueryCache, FiniteSetTheorems, TLAPS

-----------------------------------------------------------------------------
(* Webhook *)

\* Beyond WebhookInv: nothing is counted before the configuration is read, and an
\* attempt about to be made is one of those there are.
NoticeOK(f) ==
  /\ f.pc = "start" => f.posts = 0 /\ f.got = 0 /\ f.lost = 0 /\ f.answer = "none"
                       /\ f.wanted = "unknown" /\ f.attempt = 1
  /\ f.pc = "attempt" => f.attempt <= f.tries

NoticeSafe(f) ==
  /\ f \in NoticeState
  /\ NoticeOK(f) /\ PostsBounded(f) /\ DuplicatesAreLostAnswers(f) /\ NilMeansDelivered(f)

HookInv ==
  /\ hook \in Hook \cup {NoHook}
  /\ notice = [n \in Notice |-> notice[n]]
  /\ \A n \in Notice : NoticeSafe(notice[n])

\* What each step of SendWebhook makes of a notification.
LEMMA NoticeSteps ==
  ASSUME NEW f, NoticeSafe(f)
  PROVE  /\ NoticeSafe([f EXCEPT !.context = "cancelled"])
         /\ f.pc = "start" =>
              /\ NoticeSafe([f EXCEPT !.pc = "done", !.answer = "error"])
              /\ NoticeSafe([f EXCEPT !.pc = "done", !.answer = "nil", !.wanted = "no"])
              /\ \A t \in Nat \ {0} :
                   NoticeSafe([f EXCEPT !.pc = "attempt", !.wanted = "yes", !.tries = t])
         /\ f.pc = "attempt" =>
              /\ f.context = "cancelled" =>
                   NoticeSafe([f EXCEPT !.pc = "done", !.answer = IF f.posts = 0 THEN "nil" ELSE "error"])
              /\ NoticeSafe([f EXCEPT !.posts = @ + 1, !.got = @ + 1, !.pc = "done", !.answer = "nil"])
              /\ NoticeSafe([f EXCEPT !.posts = @ + 1, !.pc = "done", !.answer = "error"])
              /\ \A m \in {0, 1} :
                   LET g == [f EXCEPT !.posts = @ + 1, !.got = @ + m, !.lost = @ + m]
                   IN  /\ NoticeSafe([g EXCEPT !.pc = "done", !.answer = "error"])
                       /\ g.attempt < g.tries => NoticeSafe([g EXCEPT !.attempt = @ + 1])
<1>0. /\ f \in NoticeState
      /\ f.posts + 1 \in Nat /\ f.got + 1 \in Nat
      /\ \A m \in {0, 1} : f.got + m \in Nat /\ f.lost + m \in Nat
  <2>1. f \in NoticeState
    BY DEF NoticeSafe
  <2>2. f.posts \in Nat /\ f.got \in Nat /\ f.lost \in Nat
    BY <2>1 DEF NoticeState
  <2> QED
    BY <2>1, <2>2
<1> USE DEF NoticeOK, PostsBounded, DuplicatesAreLostAnswers, NilMeansDelivered
<1>1. NoticeSafe([f EXCEPT !.context = "cancelled"])
  BY DEF NoticeSafe, NoticeState
<1>2. ASSUME f.pc = "start"
      PROVE  /\ NoticeSafe([f EXCEPT !.pc = "done", !.answer = "error"])
             /\ NoticeSafe([f EXCEPT !.pc = "done", !.answer = "nil", !.wanted = "no"])
  BY <1>2 DEF NoticeSafe, NoticeState
<1> DEFINE Fields(g, pc, wanted, tries, attempt, answer, posts, got, lost) ==
             /\ g \in NoticeState
             /\ g.pc = pc /\ g.wanted = wanted /\ g.tries = tries /\ g.attempt = attempt
             /\ g.context = f.context /\ g.answer = answer
             /\ g.posts = posts /\ g.got = got /\ g.lost = lost
<1>3. ASSUME f.pc = "start", NEW t \in Nat \ {0}
      PROVE  NoticeSafe([f EXCEPT !.pc = "attempt", !.wanted = "yes", !.tries = t])
  <2> DEFINE g == [f EXCEPT !.pc = "attempt", !.wanted = "yes", !.tries = t]
  <2>1. Fields(g, "attempt", "yes", t, f.attempt, f.answer, f.posts, f.got, f.lost)
    BY <1>0 DEF NoticeState
  <2> HIDE DEF g
  <2>2. NoticeSafe(g)
    BY <1>3, <2>1 DEF NoticeSafe, NoticeState
  <2> QED
    BY <2>2 DEF g
<1>4. ASSUME f.pc = "attempt", f.context = "cancelled"
      PROVE  NoticeSafe([f EXCEPT !.pc = "done", !.answer = IF f.posts = 0 THEN "nil" ELSE "error"])
  BY <1>4 DEF NoticeSafe, NoticeState
<1>5. ASSUME f.pc = "attempt"
      PROVE  NoticeSafe([f EXCEPT !.posts = @ + 1, !.got = @ + 1, !.pc = "done", !.answer = "nil"])
  <2> DEFINE g == [f EXCEPT !.posts = @ + 1, !.got = @ + 1, !.pc = "done", !.answer = "nil"]
  <2>1. Fields(g, "done", f.wanted, f.tries, f.attempt, "nil", f.posts + 1, f.got + 1, f.lost)
    <3>1. \A a, b \in Nat :
            LET h == [f EXCEPT !.posts = a, !.got = b, !.pc = "done", !.answer = "nil"]
            IN  Fields(h, "done", f.wanted, f.tries, f.attempt, "nil", a, b, f.lost)
      BY <1>0 DEF NoticeState
    <3> HIDE DEF Fields
    <3> QED
      BY <1>0, <3>1
  <2> HIDE DEF g
  <2>2. NoticeSafe(g)
    BY <1>5, <2>1 DEF NoticeSafe, NoticeState
  <2> QED
    BY <2>2 DEF g
<1>6. ASSUME f.pc = "attempt"
      PROVE  NoticeSafe([f EXCEPT !.posts = @ + 1, !.pc = "done", !.answer = "error"])
  <2> DEFINE g == [f EXCEPT !.posts = @ + 1, !.pc = "done", !.answer = "error"]
  <2>1. Fields(g, "done", f.wanted, f.tries, f.attempt, "error", f.posts + 1, f.got, f.lost)
    BY <1>0 DEF NoticeState
  <2> HIDE DEF g
  <2>2. NoticeSafe(g)
    BY <1>6, <2>1 DEF NoticeSafe, NoticeState
  <2> QED
    BY <2>2 DEF g
<1>7. ASSUME f.pc = "attempt", NEW m \in {0, 1}
      PROVE  LET g == [f EXCEPT !.posts = @ + 1, !.got = @ + m, !.lost = @ + m]
             IN  /\ NoticeSafe([g EXCEPT !.pc = "done", !.answer = "error"])
                 /\ g.attempt < g.tries => NoticeSafe([g EXCEPT !.attempt = @ + 1])
  <2> DEFINE g == [f EXCEPT !.posts = @ + 1, !.got = @ + m, !.lost = @ + m]
             last == [g EXCEPT !.pc = "done", !.answer = "error"]
             more == [g EXCEPT !.attempt = @ + 1]
  <2>1. Fields(g, f.pc, f.wanted, f.tries, f.attempt, f.answer, f.posts + 1, f.got + m, f.lost + m)
    BY <1>0 DEF NoticeState
  <2> HIDE DEF g
  <2>2. Fields(last, "done", f.wanted, f.tries, f.attempt, "error", f.posts + 1, f.got + m, f.lost + m)
    BY <2>1 DEF NoticeState
  <2>3. Fields(more, f.pc, f.wanted, f.tries, f.attempt + 1, f.answer, f.posts + 1, f.got + m, f.lost + m)
    BY <2>1 DEF NoticeState
  <2> HIDE DEF last, more
  <2>4. NoticeSafe(last)
    BY <1>7, <2>2 DEF NoticeSafe, NoticeState
  <2>5. g.attempt < g.tries => NoticeSafe(more)
    BY <1>7, <2>1, <2>3 DEF NoticeSafe, NoticeState
  <2> QED
    BY <2>4, <2>5 DEF g, last, more
<1> QED
  BY <1>1, <1>2, <1>3, <1>4, <1>5, <1>6, <1>7

\* Whatever the receiver answers, whoever reconfigures and whenever the request is
\* cancelled: posts are bounded by the configured count, duplicates are lost
\* answers, and no error means delivered (SendWebhook).
THEOREM NoticesAreHonest == WebhookSpec => []WebhookInv
<1>1. WebhookInit => HookInv
  <2>1. NoticeSafe(Unsent)
    BY DEF NoticeState, Unsent, NoticeSafe, NoticeOK, PostsBounded, DuplicatesAreLostAnswers,
           NilMeansDelivered
  <2> QED
    BY <2>1 DEF WebhookInit, HookInv
<1>2. HookInv /\ [WebhookNext]_hookVars => HookInv'
  <2> SUFFICES ASSUME HookInv, [WebhookNext]_hookVars
               PROVE  HookInv'
    OBVIOUS
  <2>1. \A n \in Notice : NoticeSafe(notice[n])
    BY DEF HookInv
  <2>2. ASSUME UNCHANGED notice, hook' \in Hook \cup {NoHook}
        PROVE  HookInv'
    BY <2>2 DEF HookInv
  <2>3. ASSUME NEW n \in Notice, NEW f, NoticeSafe(f), NoticeBecomes(n, f), UNCHANGED hook
        PROVE  HookInv'
    <3>1. DOMAIN notice' = Notice /\ notice' = [m \in Notice |-> notice'[m]]
      BY <2>3 DEF HookInv, NoticeBecomes
    <3>2. \A m \in Notice : notice'[m] = IF m = n THEN f ELSE notice[m]
      BY <2>3 DEF HookInv, NoticeBecomes
    <3>3. \A m \in Notice : NoticeSafe(notice'[m])
      BY <2>1, <2>3, <3>2
    <3> QED
      BY <2>3, <3>1, <3>3 DEF HookInv
  <2>4. ASSUME NEW enabled \in {"yes", "no"}, NEW r \in RetryCount, NEW events \in SUBSET EventType,
               WriteHook(enabled, r, events)
        PROVE  HookInv'
    <3>1. hook' \in Hook
      BY <2>4, WebhookAssumption DEF WriteHook, Hook
    <3> QED
      BY <2>2, <2>4, <3>1 DEF WriteHook
  <2>5. ASSUME DeleteHook \/ UNCHANGED hookVars
        PROVE  HookInv'
    BY <2>2, <2>5 DEF DeleteHook, hookVars, HookInv
  <2>6. ASSUME NEW n \in Notice, NEW event \in EventType, ReadHook(n, event)
        PROVE  HookInv'
    <3>1. Wants(event) => Tries \in Nat \ {0}
      BY WebhookAssumption DEF Wants, Tries, Hook, HookInv
    <3>2. PICK f : NoticeBecomes(n, f) /\ NoticeSafe(f)
      BY <2>1, <2>6, <3>1, NoticeSteps DEF ReadHook, NoticeEnds
    <3> QED
      BY <2>3, <2>6, <3>2 DEF ReadHook
  <2>7. ASSUME NEW n \in Notice, GiveUp(n) \/ PostAccepted(n) \/ PostRefused(n) \/ CancelNotice(n)
        PROVE  HookInv'
    <3>1. PICK f : NoticeBecomes(n, f) /\ NoticeSafe(f)
      BY <2>1, <2>7, NoticeSteps DEF GiveUp, NoticeEnds, PostAccepted, PostRefused, CancelNotice
    <3> QED
      BY <2>3, <2>7, <3>1 DEF GiveUp, PostAccepted, PostRefused, CancelNotice
  <2>8. ASSUME NEW n \in Notice, PostFails(n)
        PROVE  HookInv'
    <3>1. PICK m \in {0, 1} :
            LET g == [notice[n] EXCEPT !.posts = @ + 1, !.got = @ + m, !.lost = @ + m]
            IN  NoticeBecomes(n, IF g.attempt < g.tries THEN [g EXCEPT !.attempt = @ + 1]
                                 ELSE [g EXCEPT !.pc = "done", !.answer = "error"])
      BY <2>8 DEF PostFails, Failed
    <3> DEFINE g == [notice[n] EXCEPT !.posts = @ + 1, !.got = @ + m, !.lost = @ + m]
               last == [g EXCEPT !.pc = "done", !.answer = "error"]
               more == [g EXCEPT !.attempt = @ + 1]
    <3>2. NoticeSafe(last) /\ (g.attempt < g.tries => NoticeSafe(more))
      BY <2>1, <2>8, NoticeSteps DEF PostFails
    <3>3. NoticeBecomes(n, IF g.attempt < g.tries THEN more ELSE last)
      BY <3>1
    <3> HIDE DEF g, last, more
    <3>4. PICK f : NoticeBecomes(n, f) /\ NoticeSafe(f)
      BY <3>2, <3>3
    <3> QED
      BY <2>3, <2>8, <3>4 DEF PostFails
  <2> QED
    BY <2>4, <2>5, <2>6, <2>7, <2>8 DEF WebhookNext
<1>3. HookInv => WebhookInv
  BY DEF HookInv, NoticeSafe, WebhookInv, WebhookTypeOK
<1> QED
  BY <1>1, <1>2, <1>3, PTL DEF WebhookSpec

-----------------------------------------------------------------------------
(* KeepAlive *)

\* The calls of a connection and its goroutines, however many callers and starts:
\* the lock is held by whom it seems to be, no ping meets a connection that was
\* closed, and without overlapping starts each goroutine closes its own channel
\* once and none outlives a stop (StartKeepAlive, StopKeepAlive, Close, Validate).
THEOREM KeepAliveSafe == KeepAliveSpec => []KeepAliveInv
<1> USE KeepAliveAssumption
<1>1. KeepAliveInit => KeepAliveInv
  BY DEF KeepAliveInit, KeepAliveInv, KeepAliveTypeOK, LockInv, LoopInv, PingsOpen, OwnChannel,
         StoppedIsQuiet, Running, NoLoop, Loop, LoopPC, ActPC, Pair
<1>2. KeepAliveInv /\ [KeepAliveNext]_kaVars => KeepAliveInv'
  <2> SUFFICES ASSUME KeepAliveInv, [KeepAliveNext]_kaVars
               PROVE  KeepAliveInv'
    OBVIOUS
  <2> USE DEF KeepAliveInv
  <2>1. ASSUME NEW c \in Caller, StartKeepAlive(c)
        PROVE  KeepAliveInv'
    <3>1. KeepAliveTypeOK'
      BY <2>1
         DEF StartKeepAlive, Free, CancelCurrent, KeepAliveTypeOK, Loop, LoopPC, NoLoop, Pair
    <3>2. LockInv'
      BY <2>1
         DEF StartKeepAlive, Free, CancelCurrent, KeepAliveTypeOK, Loop, LoopPC, NoLoop, Pair, LockInv, LoopInv
    <3>3. LoopInv'
      BY <2>1
         DEF StartKeepAlive, Free, CancelCurrent, KeepAliveTypeOK, Loop, LoopPC, NoLoop, Pair, LoopInv
    <3>4. PingsOpen'
      BY <2>1
         DEF StartKeepAlive, Free, CancelCurrent, KeepAliveTypeOK, Loop, LoopPC, NoLoop, Pair, LockInv, PingsOpen
    <3>5. OwnChannel'
      BY <2>1
         DEF StartKeepAlive, Free, CancelCurrent, KeepAliveTypeOK, Loop, LoopPC, NoLoop, Pair, OwnChannel, Running, LoopInv
    <3>6. StoppedIsQuiet'
      BY <2>1
         DEF StartKeepAlive, Free, CancelCurrent, KeepAliveTypeOK, Loop, LoopPC, NoLoop, Pair, StoppedIsQuiet, OwnChannel, Running, LoopInv
    <3> QED
      BY <3>1, <3>2, <3>3, <3>4, <3>5, <3>6
  <2>2. ASSUME NEW c \in Caller, NEW there \in {"stop", "close"}, StopLock(c, there)
        PROVE  KeepAliveInv'
    <3>1. KeepAliveTypeOK'
      BY <2>2 DEF StopLock, Free, CancelCurrent, KeepAliveTypeOK, ActPC, Pair
    <3>2. LockInv'
      BY <2>2
         DEF StopLock, Free, CancelCurrent, KeepAliveTypeOK, ActPC, Pair, LockInv, LoopInv
    <3>3. LoopInv'
      BY <2>2 DEF StopLock, Free, CancelCurrent, KeepAliveTypeOK, ActPC, Pair, LoopInv
    <3>4. PingsOpen'
      BY <2>2
         DEF StopLock, Free, CancelCurrent, KeepAliveTypeOK, ActPC, Pair, LockInv, PingsOpen
    <3>5. OwnChannel'
      BY <2>2
         DEF StopLock, Free, CancelCurrent, KeepAliveTypeOK, ActPC, Pair, OwnChannel, Running, LoopInv
    <3>6. StoppedIsQuiet'
      BY <2>2
         DEF StopLock, Free, CancelCurrent, KeepAliveTypeOK, ActPC, Pair, StoppedIsQuiet, OwnChannel, Running, LoopInv
    <3> QED
      BY <3>1, <3>2, <3>3, <3>4, <3>5, <3>6
  <2>3. ASSUME NEW c \in Caller, StopReturns(c)
        PROVE  KeepAliveInv'
    <3>1. KeepAliveTypeOK'
      BY <2>3 DEF StopReturns, KeepAliveTypeOK, ActPC, Pair
    <3>2. LockInv'
      BY <2>3 DEF StopReturns, KeepAliveTypeOK, ActPC, Pair, LockInv, LoopInv
    <3>3. LoopInv'
      BY <2>3 DEF StopReturns, KeepAliveTypeOK, ActPC, Pair, LoopInv
    <3>4. PingsOpen'
      BY <2>3 DEF StopReturns, KeepAliveTypeOK, ActPC, Pair, LockInv, PingsOpen
    <3>5. OwnChannel'
      BY <2>3
         DEF StopReturns, KeepAliveTypeOK, ActPC, Pair, OwnChannel, Running, LoopInv
    <3>6. StoppedIsQuiet'
      BY <2>3
         DEF StopReturns, KeepAliveTypeOK, ActPC, Pair, StoppedIsQuiet, OwnChannel, Running, LoopInv
    <3> QED
      BY <3>1, <3>2, <3>3, <3>4, <3>5, <3>6
  <2>4. ASSUME NEW c \in Caller, CloseDB(c)
        PROVE  KeepAliveInv'
    <3>1. KeepAliveTypeOK'
      BY <2>4 DEF CloseDB, Free, KeepAliveTypeOK, ActPC, Pair
    <3>2. LockInv'
      BY <2>4 DEF CloseDB, Free, KeepAliveTypeOK, ActPC, Pair, LockInv, LoopInv
    <3>3. LoopInv'
      BY <2>4 DEF CloseDB, Free, KeepAliveTypeOK, ActPC, Pair, LoopInv
    <3>4. PingsOpen'
      BY <2>4 DEF CloseDB, Free, KeepAliveTypeOK, ActPC, Pair, LockInv, PingsOpen
    <3>5. OwnChannel'
      BY <2>4
         DEF CloseDB, Free, KeepAliveTypeOK, ActPC, Pair, OwnChannel, Running, LoopInv
    <3>6. StoppedIsQuiet'
      BY <2>4
         DEF CloseDB, Free, KeepAliveTypeOK, ActPC, Pair, StoppedIsQuiet, OwnChannel, Running, LoopInv
    <3> QED
      BY <3>1, <3>2, <3>3, <3>4, <3>5, <3>6
  <2>5. ASSUME NEW c \in Caller, ValidateFails(c)
        PROVE  KeepAliveInv'
    <3>1. KeepAliveTypeOK'
      BY <2>5 DEF ValidateFails, Free, KeepAliveTypeOK, Pair
    <3>2. LockInv'
      BY <2>5 DEF ValidateFails, Free, KeepAliveTypeOK, Pair, LockInv, LoopInv
    <3>3. LoopInv'
      BY <2>5 DEF ValidateFails, Free, KeepAliveTypeOK, Pair, LoopInv
    <3>4. PingsOpen'
      BY <2>5 DEF ValidateFails, Free, KeepAliveTypeOK, Pair, LockInv, PingsOpen
    <3>5. OwnChannel'
      BY <2>5
         DEF ValidateFails, Free, KeepAliveTypeOK, Pair, OwnChannel, Running, LoopInv
    <3>6. StoppedIsQuiet'
      BY <2>5
         DEF ValidateFails, Free, KeepAliveTypeOK, Pair, StoppedIsQuiet, OwnChannel, Running, LoopInv
    <3> QED
      BY <3>1, <3>2, <3>3, <3>4, <3>5, <3>6
  <2>6. ASSUME NEW g \in Pair, Begin(g)
        PROVE  KeepAliveInv'
    <3>1. KeepAliveTypeOK'
      <4>1. current \in Nat /\ loop[g] \in Loop /\ loop \in [Pair -> Loop]
        BY DEF KeepAliveTypeOK, Pair
      <4>2. [loop[g] EXCEPT !.pc = "head", !.closes = current] \in Loop
        BY <4>1 DEF Loop, LoopPC
      <4>3. loop' = [loop EXCEPT ![g] = [loop[g] EXCEPT !.pc = "head", !.closes = current]]
        BY <2>6, <4>1 DEF Begin
      <4>4. loop' \in [Pair -> Loop]
        BY <4>1, <4>2, <4>3
      <4> QED
        BY <2>6, <4>4 DEF Begin, KeepAliveTypeOK
    <3>2. LockInv'
      BY <2>6 DEF Begin, KeepAliveTypeOK, Loop, LoopPC, Pair, LockInv
    <3>3. LoopInv'
      BY <2>6 DEF Begin, KeepAliveTypeOK, Loop, LoopPC, Pair, LoopInv
    <3>4. PingsOpen'
      BY <2>6 DEF Begin, KeepAliveTypeOK, Loop, LoopPC, Pair, LockInv, PingsOpen
    <3>5. OwnChannel'
      BY <2>6
         DEF Begin, KeepAliveTypeOK, Loop, LoopPC, Pair, OwnChannel, Running, LoopInv
    <3>6. StoppedIsQuiet'
      BY <2>6 DEF Begin, KeepAliveTypeOK, Loop, LoopPC, Pair, StoppedIsQuiet, Running
    <3> QED
      BY <3>1, <3>2, <3>3, <3>4, <3>5, <3>6
  <2>7. ASSUME NEW g \in Pair, LoopHead(g)
        PROVE  KeepAliveInv'
    <3>1. KeepAliveTypeOK'
      <4>1. current \in Nat /\ loop[g] \in Loop /\ loop \in [Pair -> Loop]
        BY DEF KeepAliveTypeOK, Pair
      <4>2. [loop[g] EXCEPT !.pc = "select", !.watches = current] \in Loop
        BY <4>1 DEF Loop, LoopPC
      <4>3. loop' = [loop EXCEPT ![g] = [loop[g] EXCEPT !.pc = "select", !.watches = current]]
        BY <2>7, <4>1 DEF LoopHead
      <4>4. loop' \in [Pair -> Loop]
        BY <4>1, <4>2, <4>3
      <4> QED
        BY <2>7, <4>4 DEF LoopHead, KeepAliveTypeOK
    <3>2. LockInv'
      BY <2>7 DEF LoopHead, KeepAliveTypeOK, Loop, LoopPC, Pair, LockInv
    <3>3. LoopInv'
      BY <2>7 DEF LoopHead, KeepAliveTypeOK, Loop, LoopPC, Pair, LoopInv
    <3>4. PingsOpen'
      BY <2>7 DEF LoopHead, KeepAliveTypeOK, Loop, LoopPC, Pair, LockInv, PingsOpen
    <3>5. OwnChannel'
      BY <2>7
         DEF LoopHead, KeepAliveTypeOK, Loop, LoopPC, Pair, OwnChannel, Running, LoopInv
    <3>6. StoppedIsQuiet'
      BY <2>7
         DEF LoopHead, KeepAliveTypeOK, Loop, LoopPC, Pair, StoppedIsQuiet, Running
    <3> QED
      BY <3>1, <3>2, <3>3, <3>4, <3>5, <3>6
  <2>8. ASSUME NEW g \in Pair, ContextDone(g)
        PROVE  KeepAliveInv'
    <3>1. KeepAliveTypeOK'
      BY <2>8 DEF ContextDone, Move, KeepAliveTypeOK, Loop, LoopPC, Pair, LoopInv
    <3>2. LockInv'
      BY <2>8 DEF ContextDone, Move, KeepAliveTypeOK, Loop, LoopPC, Pair, LockInv
    <3>3. LoopInv'
      BY <2>8 DEF ContextDone, Move, KeepAliveTypeOK, Loop, LoopPC, Pair, LoopInv
    <3>4. PingsOpen'
      BY <2>8
         DEF ContextDone, Move, KeepAliveTypeOK, Loop, LoopPC, Pair, LockInv, PingsOpen
    <3>5. OwnChannel'
      BY <2>8
         DEF ContextDone, Move, KeepAliveTypeOK, Loop, LoopPC, Pair, OwnChannel, Running, LoopInv
    <3>6. StoppedIsQuiet'
      BY <2>8
         DEF ContextDone, Move, KeepAliveTypeOK, Loop, LoopPC, Pair, StoppedIsQuiet, Running
    <3> QED
      BY <3>1, <3>2, <3>3, <3>4, <3>5, <3>6
  <2>9. ASSUME NEW g \in Pair, TickerFires(g)
        PROVE  KeepAliveInv'
    <3>1. KeepAliveTypeOK'
      BY <2>9 DEF TickerFires, Move, KeepAliveTypeOK, Loop, LoopPC, Pair, LoopInv
    <3>2. LockInv'
      BY <2>9 DEF TickerFires, Move, KeepAliveTypeOK, Loop, LoopPC, Pair, LockInv
    <3>3. LoopInv'
      BY <2>9 DEF TickerFires, Move, KeepAliveTypeOK, Loop, LoopPC, Pair, LoopInv
    <3>4. PingsOpen'
      BY <2>9
         DEF TickerFires, Move, KeepAliveTypeOK, Loop, LoopPC, Pair, LockInv, PingsOpen
    <3>5. OwnChannel'
      BY <2>9
         DEF TickerFires, Move, KeepAliveTypeOK, Loop, LoopPC, Pair, OwnChannel, Running, LoopInv
    <3>6. StoppedIsQuiet'
      BY <2>9
         DEF TickerFires, Move, KeepAliveTypeOK, Loop, LoopPC, Pair, StoppedIsQuiet, Running
    <3> QED
      BY <3>1, <3>2, <3>3, <3>4, <3>5, <3>6
  <2>10. ASSUME NEW g \in Pair, LockToPing(g)
        PROVE  KeepAliveInv'
    <3>0. PICK there \in {"ping", "end"} :
            /\ Move(g, there) /\ loop[g].pc = "lock" /\ holder = Nobody
            /\ reading' = IF there = "ping" THEN reading \cup {g} ELSE reading
            /\ there = "ping" => link = "up"
            /\ UNCHANGED <<link, holder, current, ctx, done, act, outcome, overlaps, stopped>>
      BY <2>10 DEF LockToPing
    <3>1. KeepAliveTypeOK'
      BY <3>0 DEF Move, KeepAliveTypeOK, Loop, LoopPC, ActPC, NoLoop, Pair
    <3>2. LockInv'
      BY <3>0 DEF Move, KeepAliveTypeOK, Loop, Pair, LockInv
    <3>3. LoopInv'
      BY <3>0 DEF Move, KeepAliveTypeOK, Loop, LoopPC, ActPC, NoLoop, Pair, LoopInv
    <3>4. PingsOpen'
      BY <3>0 DEF Move, KeepAliveTypeOK, Loop, Pair, PingsOpen
    <3>5. OwnChannel'
      BY <3>0 DEF Move, KeepAliveTypeOK, Loop, LoopPC, ActPC, NoLoop, Pair, OwnChannel, Running, LoopInv
    <3>6. StoppedIsQuiet'
      BY <2>10
         DEF LockToPing, Move, KeepAliveTypeOK, Loop, LoopPC, Pair, StoppedIsQuiet, Running
    <3> QED
      BY <3>1, <3>2, <3>3, <3>4, <3>5, <3>6
  <2>11. ASSUME NEW g \in Pair, PingEnds(g)
        PROVE  KeepAliveInv'
    <3>0. PICK there \in {"head", "end"} :
            /\ Move(g, there) /\ loop[g].pc = "ping" /\ reading' \subseteq Pair
            /\ UNCHANGED <<link, holder, current, ctx, done, act, outcome, overlaps, stopped>>
      BY <2>11 DEF PingEnds, KeepAliveTypeOK
    <3>1. KeepAliveTypeOK'
      BY <3>0 DEF Move, KeepAliveTypeOK, Loop, LoopPC, ActPC, NoLoop, Pair
    <3>2. LockInv'
      BY <2>11, <3>0 DEF PingEnds, Move, KeepAliveTypeOK, Loop, LoopPC, Pair, LockInv
    <3>3. LoopInv'
      BY <3>0 DEF Move, KeepAliveTypeOK, Loop, LoopPC, ActPC, NoLoop, Pair, LoopInv
    <3>4. PingsOpen'
      BY <2>11, <3>0 DEF PingEnds, Move, KeepAliveTypeOK, Loop, LoopPC, Pair, LockInv, PingsOpen
    <3>5. OwnChannel'
      BY <3>0 DEF Move, KeepAliveTypeOK, Loop, LoopPC, ActPC, NoLoop, Pair, OwnChannel, Running, LoopInv
    <3>6. StoppedIsQuiet'
      BY <2>11
         DEF PingEnds, Move, KeepAliveTypeOK, Loop, LoopPC, Pair, StoppedIsQuiet, Running
    <3> QED
      BY <3>1, <3>2, <3>3, <3>4, <3>5, <3>6
  <2>12. ASSUME NEW g \in Pair, LoopEnds(g)
        PROVE  KeepAliveInv'
    <3>1. KeepAliveTypeOK'
      BY <2>12 DEF LoopEnds, Move, KeepAliveTypeOK, Loop, LoopPC, Pair, LoopInv
    <3>2. LockInv'
      BY <2>12 DEF LoopEnds, Move, KeepAliveTypeOK, Loop, LoopPC, Pair, LockInv
    <3>3. LoopInv'
      BY <2>12 DEF LoopEnds, Move, KeepAliveTypeOK, Loop, LoopPC, Pair, LoopInv
    <3>4. PingsOpen'
      BY <2>12
         DEF LoopEnds, Move, KeepAliveTypeOK, Loop, LoopPC, Pair, LockInv, PingsOpen
    <3>5. OwnChannel'
      BY <2>12
         DEF LoopEnds, Move, KeepAliveTypeOK, Loop, LoopPC, Pair, OwnChannel, Running, LoopInv
    <3>6. StoppedIsQuiet'
      BY <2>12
         DEF LoopEnds, Move, KeepAliveTypeOK, Loop, LoopPC, Pair, StoppedIsQuiet, Running
    <3> QED
      BY <3>1, <3>2, <3>3, <3>4, <3>5, <3>6
  <2>13. ASSUME ParentCancelled
        PROVE  KeepAliveInv'
    <3>1. KeepAliveTypeOK'
      BY <2>13 DEF ParentCancelled, KeepAliveTypeOK, Pair
    <3>2. LockInv'
      BY <2>13 DEF ParentCancelled, KeepAliveTypeOK, Pair, LockInv, LoopInv
    <3>3. LoopInv'
      BY <2>13 DEF ParentCancelled, KeepAliveTypeOK, Pair, LoopInv
    <3>4. PingsOpen'
      BY <2>13 DEF ParentCancelled, KeepAliveTypeOK, Pair, LockInv, PingsOpen
    <3>5. OwnChannel'
      BY <2>13 DEF ParentCancelled, KeepAliveTypeOK, Pair, OwnChannel, Running, LoopInv
    <3>6. StoppedIsQuiet'
      BY <2>13
         DEF ParentCancelled, KeepAliveTypeOK, Pair, StoppedIsQuiet, OwnChannel, Running, LoopInv
    <3> QED
      BY <3>1, <3>2, <3>3, <3>4, <3>5, <3>6
  <2>14. ASSUME UNCHANGED kaVars
        PROVE  KeepAliveInv'
    BY <2>14 DEF kaVars, KeepAliveTypeOK, LockInv, LoopInv, PingsOpen, OwnChannel, StoppedIsQuiet, Running
  <2> QED
    BY <2>1, <2>2, <2>3, <2>4, <2>5, <2>6, <2>7, <2>8, <2>9, <2>10, <2>11, <2>12, <2>13, <2>14
       DEF KeepAliveNext, LoopGoes, CallerGoes, StopKeepAlive, CloseBegins
<1> QED
  BY <1>1, <1>2, PTL DEF KeepAliveSpec

\* A stop or close that cannot return yet: the channel it waits for is open.
Waits(c) == act[c] \in {"stop", "close"} /\ current # 0 /\ done[current] = "open"

\* ... and every goroutine that would close that channel has had its ticker fire.
Stuck(c) ==
  /\ Waits(c)
  /\ \A g \in Running : loop[g].pc # "begin" /\ (loop[g].closes = current => loop[g].pc = "lock")

LeftItClosed ==
  \A g \in Pair : loop[g].pc = "gone" /\ loop[g].closes = g => done[g] = "closed"

EndedForIt ==
  \A c \in Caller : act[c] \in {"stop", "close"} /\ current # 0 => ctx[current] = "cancelled"

LEMMA GoroutineIsThere ==
  KeepAliveInv /\ LeftItClosed /\ EndedForIt /\ [KeepAliveNext]_kaVars
    => LeftItClosed' /\ EndedForIt'
<1> SUFFICES ASSUME KeepAliveInv, LeftItClosed, EndedForIt, [KeepAliveNext]_kaVars
             PROVE  LeftItClosed' /\ EndedForIt'
  OBVIOUS
<1> USE KeepAliveAssumption
<1>1. KeepAliveTypeOK /\ LockInv /\ LoopInv
  BY DEF KeepAliveInv
<1>2. ASSUME NEW c \in Caller, StartKeepAlive(c)
      PROVE  LeftItClosed' /\ EndedForIt'
  <2>1. holder = Nobody /\ act' = act /\ done' = done
    BY <1>2 DEF StartKeepAlive, Free
  <2>2. EndedForIt'
    BY <1>1, <2>1 DEF EndedForIt, LockInv
  <2>3. \A g \in Pair : loop'[g].pc = "gone" => loop'[g] = loop[g]
    BY <1>1, <1>2 DEF StartKeepAlive, KeepAliveTypeOK, NoLoop, Pair
  <2> QED  BY <2>1, <2>2, <2>3 DEF LeftItClosed
<1>3. ASSUME NEW c \in Caller, NEW there \in {"stop", "close"}, StopLock(c, there)
      PROVE  LeftItClosed' /\ EndedForIt'
  <2>1. ctx'[current] = "cancelled" \/ current = 0
    BY <1>1, <1>3 DEF StopLock, CancelCurrent, KeepAliveTypeOK, Pair
  <2> QED  BY <1>3, <2>1 DEF StopLock, LeftItClosed, EndedForIt
<1>4. ASSUME NEW c \in Caller, StopReturns(c) \/ CloseDB(c) \/ ValidateFails(c)
      PROVE  LeftItClosed' /\ EndedForIt'
  <2>1. loop' = loop /\ done' = done /\ ctx' = ctx /\ current' = current
    BY <1>4 DEF StopReturns, CloseDB, ValidateFails
  <2>2. \A d \in Caller : act'[d] \in {"stop", "close"} => act[d] \in {"stop", "close"}
    BY <1>1, <1>4 DEF StopReturns, CloseDB, ValidateFails, KeepAliveTypeOK
  <2> QED  BY <2>1, <2>2 DEF LeftItClosed, EndedForIt
<1>5. CASE ParentCancelled
  <2>1. \A g \in Pair : ctx[g] = "cancelled" => ctx'[g] = "cancelled"
    BY <1>1, <1>5 DEF ParentCancelled, KeepAliveTypeOK
  <2>2. current \in 0..MaxStarts
    BY <1>1 DEF KeepAliveTypeOK
  <2> QED  BY <1>5, <2>1, <2>2 DEF ParentCancelled, LeftItClosed, EndedForIt, Pair
<1>6. ASSUME NEW g \in Pair, LoopGoes(g)
      PROVE  LeftItClosed' /\ EndedForIt'
  <2>1. current' = current /\ ctx' = ctx /\ act' = act
    BY <1>6 DEF LoopGoes, Begin, LoopHead, ContextDone, TickerFires, LockToPing, PingEnds, LoopEnds
  <2>2. CASE LoopEnds(g)
    <3>1. /\ done'[loop[g].closes] = "closed"
          /\ \A h \in Pair : done[h] = "closed" => done'[h] = "closed"
      <4>1. loop[g].closes \in Pair
        BY <1>1, <2>2 DEF LoopEnds, LoopInv, LoopPC, KeepAliveTypeOK, Pair
      <4> QED  BY <1>1, <2>2, <4>1 DEF LoopEnds, KeepAliveTypeOK
    <3>2. /\ loop'[g].closes = loop[g].closes
          /\ \A h \in Pair : h # g => loop'[h] = loop[h]
      BY <1>1, <2>2 DEF LoopEnds, Move, KeepAliveTypeOK, Loop
    <3> QED  BY <2>1, <3>1, <3>2 DEF LeftItClosed, EndedForIt
  <2>3. CASE ~LoopEnds(g)
    <3>1. /\ done' = done /\ loop'[g].pc # "gone"
          /\ \A h \in Pair : h # g => loop'[h] = loop[h]
      BY <1>1, <1>6, <2>3
         DEF LoopGoes, Begin, LoopHead, ContextDone, TickerFires, LockToPing, PingEnds, Move,
             KeepAliveTypeOK, Loop
    <3> QED  BY <2>1, <3>1 DEF LeftItClosed, EndedForIt
  <2> QED  BY <2>2, <2>3
<1>7. CASE UNCHANGED kaVars
  BY <1>7 DEF kaVars, LeftItClosed, EndedForIt
<1> QED
  BY <1>2, <1>3, <1>4, <1>5, <1>6, <1>7
     DEF KeepAliveNext, StopKeepAlive, CloseBegins, CallerGoes

\* The safety half of StopReturnsUnlessTicking: while StopKeepAlive or Close waits for
\* the done channel, the goroutine that closes it has not ended and its context has,
\* whatever starts overlapped; so it is on its way out unless its ticker fired.
StopWaitsForALoop ==
  \A c \in Caller : Waits(c) =>
    /\ current \in Running
    /\ ctx[current] = "cancelled"
    /\ loop[current].pc \in {"begin", "head", "select", "lock", "end"}
    /\ loop[current].pc # "begin" => loop[current].closes = current

THEOREM StopsWaitForALoop == KeepAliveSpec => []StopWaitsForALoop
<1>1. KeepAliveInit => LeftItClosed /\ EndedForIt
  BY KeepAliveAssumption DEF KeepAliveInit, LeftItClosed, EndedForIt, NoLoop
<1>2. KeepAliveInv /\ LeftItClosed /\ EndedForIt => StopWaitsForALoop
  <2> SUFFICES ASSUME KeepAliveInv, LeftItClosed, EndedForIt, NEW c \in Caller, Waits(c)
               PROVE  /\ current \in Running
                      /\ ctx[current] = "cancelled"
                      /\ loop[current].pc \in {"begin", "head", "select", "lock", "end"}
                      /\ loop[current].pc # "begin" => loop[current].closes = current
    BY DEF StopWaitsForALoop
  <2>1. current \in Pair /\ loop[current].pc \in LoopPC
    BY KeepAliveAssumption DEF Waits, KeepAliveInv, KeepAliveTypeOK, Pair, Loop
  <2>2. loop[current].pc # "none"
        /\ (loop[current].pc # "begin" => loop[current].closes = current)
    BY <2>1, KeepAliveAssumption DEF KeepAliveInv, KeepAliveTypeOK, LoopInv, LoopPC, Pair
  <2>3. loop[current].pc # "gone"
    BY <2>1, <2>2 DEF LeftItClosed, Waits
  <2>4. loop[current].pc # "ping"
    BY <2>1, KeepAliveAssumption DEF KeepAliveInv, LockInv, Waits, KeepAliveTypeOK
  <2> QED  BY <2>1, <2>2, <2>3, <2>4 DEF EndedForIt, Waits, Running, LoopPC
<1> QED
  BY <1>1, <1>2, GoroutineIsThere, KeepAliveSafe, PTL DEF KeepAliveSpec

\* The case it does not cover is a deadlock: a stop all of whose goroutines had their
\* ticker fire holds the lock they wait for, and no step of anyone changes that.
StuckForGood == [][\A c \in Caller : Stuck(c) => Stuck(c)']_kaVars

THEOREM TickedStopsHang == KeepAliveSpec => StuckForGood
<1>1. KeepAliveInv => [KeepAliveNext => \A c \in Caller : Stuck(c) => Stuck(c)']_kaVars
  <2> SUFFICES ASSUME KeepAliveInv, KeepAliveNext, NEW c \in Caller, Stuck(c)
               PROVE  Stuck(c)'
    OBVIOUS
  <2> USE KeepAliveAssumption
  <2>1. KeepAliveTypeOK /\ LockInv /\ LoopInv /\ Waits(c) /\ holder = c /\ c # Nobody
    BY DEF KeepAliveInv, Stuck, Waits, LockInv
  <2>2. ASSUME UNCHANGED <<act, current, done, loop>>
        PROVE  Stuck(c)'
    BY <2>2 DEF Stuck, Waits, Running
  <2>3. ASSUME NEW d \in Caller, StartKeepAlive(d) \/ StopKeepAlive(d) \/ CloseBegins(d)
                                  \/ ValidateFails(d) \/ CloseDB(d)
        PROVE  FALSE
    BY <2>1, <2>3 DEF StartKeepAlive, StopKeepAlive, CloseBegins, StopLock, ValidateFails, CloseDB,
                      Free
  <2>4. ASSUME NEW d \in Caller, StopReturns(d)
        PROVE  FALSE
    BY <2>1, <2>4 DEF StopReturns, Waits, LockInv
  <2>5. CASE ParentCancelled
    BY <2>2, <2>5 DEF ParentCancelled
  <2>6. ASSUME NEW g \in Pair, LoopGoes(g)
        PROVE  Stuck(c)'
    <3>1. /\ g \in Running /\ loop[g].pc # "begin" /\ loop[g].pc # "lock"
          /\ loop[g].closes # current
      BY <2>1, <2>6
         DEF Stuck, Running, LoopGoes, Begin, LoopHead, ContextDone, TickerFires, LockToPing,
             PingEnds, LoopEnds
    <3>2. /\ current' = current /\ act' = act
          /\ done' = done \/ done' = [done EXCEPT ![loop[g].closes] = "closed"]
      BY <2>6, <3>1
         DEF LoopGoes, Begin, LoopHead, ContextDone, TickerFires, LockToPing, PingEnds, LoopEnds
    <3>3. /\ loop'[g].closes = loop[g].closes /\ loop'[g].pc # "begin"
          /\ \A h \in Pair : h # g => loop'[h] = loop[h]
      BY <2>1, <2>6, <3>1
         DEF LoopGoes, Begin, LoopHead, ContextDone, TickerFires, LockToPing, PingEnds, LoopEnds,
             Move, KeepAliveTypeOK, Loop
    <3>4. Waits(c)'
      BY <2>1, <3>1, <3>2 DEF Waits, KeepAliveTypeOK, Pair
    <3> QED  BY <3>1, <3>2, <3>3, <3>4 DEF Stuck, Running
  <2> QED  BY <2>2, <2>3, <2>4, <2>5, <2>6 DEF KeepAliveNext, CallerGoes
<1> QED
  BY <1>1, KeepAliveSafe, PTL DEF KeepAliveSpec, StuckForGood

-----------------------------------------------------------------------------
(* RateLimit *)

\* Every request in flight has a client.
Known == \A s \in Sender : call[s].pc # "idle" => call[s].client \in Address

\* What the buckets promise, without the requests.
BucketsInv == MappedIsOwn /\ OneBucketPerEpoch /\ WithinBudget /\ NoTokenLost

RateIInv == RateInv /\ Known

LEMMA FreshIsUnused ==
  ASSUME InUse # Bucket
  PROVE  Fresh \in Bucket /\ Fresh \notin InUse
BY DEF Fresh, InUse

\* Steps that leave the buckets and the map alone.
LEMMA BucketsUntouched ==
  ASSUME RateIInv, UNCHANGED <<limiters, bucket, epoch>>, ticks' \in Nat, ticks <= ticks'
  PROVE  /\ InUse' = InUse
         /\ BucketsInv'
<1>1. InUse' = InUse
  BY DEF InUse
<1>2. bucket \in [Bucket -> BucketState] /\ ticks \in Nat
  BY DEF RateIInv, RateInv, RateTypeOK
<1>3. WithinBudget'
  BY <1>1, <1>2 DEF RateIInv, RateInv, WithinBudget, InUse, BucketState
<1> QED
  BY <1>1, <1>3 DEF RateIInv, RateInv, BucketsInv, MappedIsOwn, OneBucketPerEpoch, NoTokenLost

\* What a bucket in use holds.
LEMMA FilledIs ==
  ASSUME RateIInv, NEW b \in InUse
  PROVE  /\ Filled(b) \in Nat /\ Filled(b) <= Burst
         /\ Filled(b) <= bucket[b].tokens + Rate * (ticks - bucket[b].last)
         /\ Filled(b) = Burst \/ Filled(b) >= bucket[b].tokens
         /\ Filled(b) = 0 => bucket[b].tokens = 0 /\ bucket[b].last = ticks
<1> USE RateAssumption
<1>1. /\ bucket[b].tokens \in Nat /\ bucket[b].last \in Nat /\ ticks \in Nat
      /\ bucket[b].last <= ticks
  BY DEF RateIInv, RateInv, RateTypeOK, WithinBudget, BucketState, InUse
<1>2. PICK d \in Nat : d = ticks - bucket[b].last
  BY <1>1
<1>3. Rate * d \in Nat /\ (Rate * d = 0 => d = 0)
  BY <1>2
<1>4. Filled(b) = IF bucket[b].tokens + Rate * d > Burst THEN Burst ELSE bucket[b].tokens + Rate * d
  BY <1>2 DEF Filled
<1> DEFINE r == Rate * d
<1> HIDE DEF r
<1>5. /\ r \in Nat /\ (r = 0 => d = 0)
      /\ Filled(b) = IF bucket[b].tokens + r > Burst THEN Burst ELSE bucket[b].tokens + r
  BY <1>3, <1>4 DEF r
<1>6. /\ Filled(b) \in Nat /\ Filled(b) <= Burst
      /\ Filled(b) <= bucket[b].tokens + r
      /\ Filled(b) = Burst \/ Filled(b) >= bucket[b].tokens
      /\ Filled(b) = 0 => bucket[b].tokens = 0 /\ d = 0
  BY <1>1, <1>5
<1>7. Rate * (ticks - bucket[b].last) = r
  BY <1>2 DEF r
<1>8. d = 0 => bucket[b].last = ticks
  BY <1>1, <1>2
<1> QED
  BY <1>6, <1>7, <1>8

\* However the first requests of a client race for its bucket and whatever the
\* cleanup throws away: one bucket for each client and epoch, never more than a
\* burst and the rate, nobody refused who has not spent it (RateLimiter).
THEOREM RateLimited == RateSpec => []RateInv
<1> USE RateAssumption
<1>1. RateInit => RateIInv
  BY DEF RateInit, RateIInv, Known, RateInv, RateTypeOK, OwnBucket, MappedIsOwn, OneBucketPerEpoch,
         WithinBudget, NoTokenLost, RefusedHasSpent, InUse, Unused, NoCall, BucketState, CallFrame
<1>2. RateIInv /\ [RateNext]_rateVars => RateIInv'
  <2> SUFFICES ASSUME RateIInv, [RateNext]_rateVars
               PROVE  RateIInv'
    OBVIOUS
  <2>0. /\ limiting \in {"on", "off"} /\ limiters \in [Address -> Bucket \cup {NoBucket}]
        /\ bucket \in [Bucket -> BucketState] /\ call \in [Sender -> CallFrame]
        /\ epoch \in Nat /\ ticks \in Nat
    BY DEF RateIInv, RateInv, RateTypeOK
  \* A step of one request that touches neither bucket nor map.
  <2>1. ASSUME NEW s \in Sender, NEW f \in CallFrame, call' = [call EXCEPT ![s] = f],
               limiting' \in {"on", "off"}, UNCHANGED <<limiters, bucket, epoch, ticks>>,
               f.pc # "idle" => f.client \in Address,
               f.pc \in {"allow", "refused"} => f.bucket \in InUse /\ bucket[f.bucket].client = f.client,
               f.pc = "refused" => /\ bucket[f.bucket].admitted >= Burst
                                   /\ bucket[f.bucket].last >= f.at
                                   /\ f.at <= ticks
        PROVE  RateIInv'
    <3>1. InUse' = InUse /\ BucketsInv'
      BY <2>0, <2>1, BucketsUntouched
    <3>2. \A t \in Sender : call'[t] = IF t = s THEN f ELSE call[t]
      BY <2>0, <2>1
    <3>3. RateTypeOK'
      BY <2>0, <2>1 DEF RateTypeOK
    <3>4. Known'
      BY <2>1, <3>2 DEF RateIInv, Known
    <3>5. OwnBucket'
      BY <2>1, <3>1, <3>2 DEF RateIInv, RateInv, OwnBucket
    <3>6. RefusedHasSpent'
      BY <2>1, <3>2 DEF RateIInv, RateInv, RefusedHasSpent
    <3> QED
      BY <3>1, <3>3, <3>4, <3>5, <3>6 DEF RateIInv, RateInv, BucketsInv
  <2>2. ASSUME NEW s \in Sender, NEW c \in Address, NEW path \in Path, Arrive(s, c, path)
        PROVE  RateIInv'
    <3> DEFINE f == [NoCall EXCEPT !.client = c, !.path = path,
                       !.pc = IF limiting = "off" \/ IsExcluded(path) THEN "dispatch" ELSE "lookup",
                       !.paid = IF limiting = "off" THEN "off"
                                ELSE IF IsExcluded(path) THEN "exempt" ELSE "open"]
    <3>1. /\ call' = [call EXCEPT ![s] = f]
          /\ limiting' \in {"on", "off"} /\ UNCHANGED <<limiters, bucket, epoch, ticks>>
      BY <2>0, <2>2 DEF Arrive
    <3>2. f \in CallFrame /\ f.client = c /\ f.pc \in {"dispatch", "lookup"}
      BY DEF NoCall, CallFrame
    <3> HIDE DEF f
    <3> QED
      BY <2>1, <3>1, <3>2
  <2>3. ASSUME NEW s \in Sender, Lookup(s)
        PROVE  RateIInv'
    <3> DEFINE found == limiters[call[s].client]
               f == [call[s] EXCEPT !.bucket = found,
                                    !.pc = IF found = NoBucket THEN "create" ELSE "allow"]
    <3>1. call[s] \in CallFrame /\ call[s].client \in Address
      BY <2>0, <2>3 DEF Lookup, RateIInv, Known
    <3>2. /\ found \in Bucket \cup {NoBucket}
          /\ found # NoBucket => found \in InUse /\ bucket[found].client = call[s].client
      BY <2>0, <3>1 DEF RateIInv, RateInv, MappedIsOwn, InUse
    <3>3. /\ f \in CallFrame /\ f.client = call[s].client /\ f.bucket = found
          /\ f.pc = IF found = NoBucket THEN "create" ELSE "allow"
      BY <3>1, <3>2 DEF CallFrame
    <3>4. call' = [call EXCEPT ![s] = f]
      BY <2>0, <2>3, <3>1 DEF Lookup, CallFrame
    <3> HIDE DEF f, found
    <3> QED
      BY <2>0, <2>1, <2>3, <3>1, <3>2, <3>3, <3>4 DEF Lookup
  <2>4. ASSUME NEW s \in Sender, Create(s)
        PROVE  RateIInv'
    <3> DEFINE c == call[s].client
               found == limiters[c]
    <3>1. call[s] \in CallFrame /\ c \in Address /\ found \in Bucket \cup {NoBucket}
      BY <2>0, <2>4 DEF Create, RateIInv, Known
    <3>2. CASE found # NoBucket
      <4> DEFINE f == [call[s] EXCEPT !.bucket = found, !.pc = "allow"]
      <4>1. found \in InUse /\ bucket[found].client = c
        BY <2>0, <3>1, <3>2 DEF RateIInv, RateInv, MappedIsOwn, InUse
      <4>2. f \in CallFrame /\ f.client = c /\ f.bucket = found /\ f.pc = "allow"
        BY <3>1 DEF CallFrame
      <4>3. /\ call' = [call EXCEPT ![s].bucket = found, ![s].pc = "allow"]
            /\ UNCHANGED <<limiting, limiters, bucket, epoch, ticks>>
        BY <2>4, <3>2 DEF Create
      <4>4. call' = [call EXCEPT ![s] = f]
        BY <2>0, <3>1, <4>3 DEF CallFrame
      <4> HIDE DEF f, found
      <4> QED
        BY <2>0, <2>1, <3>1, <4>1, <4>2, <4>3, <4>4
    <3>3. CASE found = NoBucket
      <4> DEFINE B == Fresh
                 n == NewBucket(c)
                 f == [call[s] EXCEPT !.bucket = B, !.pc = "allow"]
      <4>1. /\ InUse # Bucket
            /\ bucket' = [bucket EXCEPT ![B] = n]
            /\ limiters' = [limiters EXCEPT ![c] = B]
            /\ call' = [call EXCEPT ![s].bucket = B, ![s].pc = "allow"]
            /\ UNCHANGED <<limiting, epoch, ticks>>
        BY <2>4, <3>3 DEF Create, AddBucket
      <4>2. B \in Bucket /\ B \notin InUse
        BY <4>1, FreshIsUnused
      <4>3. /\ n \in BucketState /\ n.client = c /\ n.tokens = Burst /\ n.last = ticks /\ n.born = ticks
            /\ n.epoch = epoch /\ n.admitted = 0
        BY <2>0, <3>1 DEF NewBucket, BucketState
      <4>4. f \in CallFrame /\ f.client = c /\ f.bucket = B /\ f.pc = "allow"
        BY <3>1, <4>2 DEF CallFrame
      <4>5. call' = [call EXCEPT ![s] = f]
        BY <2>0, <3>1, <4>1 DEF CallFrame
      <4>6. \A t \in Sender : call'[t] = IF t = s THEN f ELSE call[t]
        BY <2>0, <4>5
      <4> HIDE DEF B, n, f
      <4>7. /\ \A b \in Bucket : bucket'[b] = IF b = B THEN n ELSE bucket[b]
            /\ \A d \in Address : limiters'[d] = IF d = c THEN B ELSE limiters[d]
        BY <2>0, <4>1
      <4>8. /\ InUse' = InUse \cup {B}
            /\ InUse \subseteq Bucket
            /\ \A b \in InUse : bucket'[b] = bucket[b]
            /\ bucket'[B] = n
        BY <3>1, <4>2, <4>3, <4>7 DEF InUse
      <4>9. \A b \in InUse : ~(bucket[b].client = c /\ bucket[b].epoch = epoch)
        BY <2>0, <3>3, <4>8 DEF RateIInv, RateInv, NoTokenLost
      <4>10. RateTypeOK'
        BY <2>0, <4>1, <4>2, <4>3, <4>4, <4>5 DEF RateTypeOK
      <4>11. Known'
        BY <3>1, <4>4, <4>6 DEF RateIInv, Known
      <4>12. OwnBucket'
        BY <4>3, <4>4, <4>6, <4>8 DEF RateIInv, RateInv, OwnBucket
      <4>13. \A d \in Address : limiters[d] # NoBucket => limiters[d] \in InUse
        BY <2>0 DEF RateIInv, RateInv, MappedIsOwn, InUse
      <4>14. MappedIsOwn'
        BY <4>1, <4>3, <4>7, <4>8, <4>13 DEF RateIInv, RateInv, MappedIsOwn
      <4>15. OneBucketPerEpoch'
        BY <4>1, <4>2, <4>3, <4>8, <4>9 DEF RateIInv, RateInv, OneBucketPerEpoch
      <4>16. WithinBudget'
        <5>1. \A b \in InUse :
                /\ bucket[b].born <= bucket[b].last /\ bucket[b].last <= ticks
                /\ bucket[b].tokens <= Burst
                /\ bucket[b].admitted + bucket[b].tokens
                     <= Burst + Rate * (bucket[b].last - bucket[b].born)
          BY DEF RateIInv, RateInv, WithinBudget
        <5>2. Rate * (ticks - ticks) = 0
          BY <2>0
        <5>3. /\ n.born <= n.last /\ n.last <= ticks /\ n.tokens <= Burst
              /\ n.admitted + n.tokens <= Burst + Rate * (n.last - n.born)
          BY <2>0, <4>3, <5>2
        <5> QED
          BY <4>1, <4>8, <5>1, <5>3 DEF WithinBudget
      <4>17. NoTokenLost'
        <5>1. \A b \in InUse' :
                /\ bucket'[b].admitted + bucket'[b].tokens >= Burst
                /\ bucket'[b].epoch <= epoch'
          BY <2>0, <4>1, <4>3, <4>8 DEF RateIInv, RateInv, NoTokenLost
        <5>2. \A b \in InUse' : bucket'[b].epoch = epoch' => limiters'[bucket'[b].client] = b
          <6> SUFFICES ASSUME NEW b \in InUse', bucket'[b].epoch = epoch'
                       PROVE  limiters'[bucket'[b].client] = b
            OBVIOUS
          <6>1. CASE b = B
            BY <3>1, <4>3, <4>7, <4>8, <6>1
          <6>2. CASE b \in InUse
            <7>1. bucket[b].client \in Address
              BY <2>0, <6>2 DEF InUse, BucketState
            <7>2. limiters[bucket[b].client] = b /\ bucket[b].client # c
              BY <4>1, <4>8, <4>9, <6>2 DEF RateIInv, RateInv, NoTokenLost
            <7> QED
              BY <4>7, <4>8, <6>2, <7>1, <7>2
          <6> QED
            BY <4>8, <6>1, <6>2
        <5> QED
          BY <5>1, <5>2 DEF NoTokenLost
      <4>18. RefusedHasSpent'
        <5> SUFFICES ASSUME NEW t \in Sender, call'[t].pc = "refused"
                     PROVE  /\ bucket'[call'[t].bucket].admitted >= Burst
                            /\ bucket'[call'[t].bucket].last >= call'[t].at
                            /\ call'[t].at <= ticks'
          BY DEF RefusedHasSpent
        <5>1. call'[t] = call[t] /\ call[t].pc = "refused"
          BY <4>4, <4>6
        <5>2. call[t].bucket \in InUse
          BY <5>1 DEF RateIInv, RateInv, OwnBucket
        <5>3. bucket'[call[t].bucket] = bucket[call[t].bucket] /\ ticks' = ticks
          BY <4>1, <4>8, <5>2
        <5> QED
          BY <5>1, <5>3 DEF RateIInv, RateInv, RefusedHasSpent
      <4> QED
        BY <4>10, <4>11, <4>12, <4>14, <4>15, <4>16, <4>17, <4>18 DEF RateIInv, RateInv
    <3> QED
      BY <3>2, <3>3
  <2>5. ASSUME NEW s \in Sender, Admit(s)
        PROVE  RateIInv'
    <3> DEFINE B == call[s].bucket
               k == Filled(B)
               n == [bucket[B] EXCEPT !.tokens = k - 1, !.last = ticks, !.admitted = @ + 1]
               f == [call[s] EXCEPT !.pc = "dispatch", !.paid = "token"]
    <3>1. /\ call[s] \in CallFrame /\ call[s].client \in Address
          /\ B \in InUse /\ B \in Bucket /\ bucket[B] \in BucketState
      BY <2>0, <2>5 DEF Admit, RateIInv, RateInv, Known, OwnBucket, InUse
    <3>2. /\ k \in Nat /\ k > 0 /\ k <= Burst
          /\ k <= bucket[B].tokens + Rate * (ticks - bucket[B].last)
          /\ k = Burst \/ k >= bucket[B].tokens
      BY <2>5, <3>1, FilledIs DEF Admit
    <3>3. /\ bucket' = [bucket EXCEPT ![B].tokens = k - 1, ![B].last = ticks, ![B].admitted = @ + 1]
          /\ call' = [call EXCEPT ![s].pc = "dispatch", ![s].paid = "token"]
          /\ UNCHANGED <<limiting, limiters, epoch, ticks>>
      BY <2>5 DEF Admit
    <3> HIDE DEF k
    <3>4. /\ bucket' = [bucket EXCEPT ![B] = n]
          /\ n \in BucketState /\ n.client = bucket[B].client /\ n.tokens = k - 1 /\ n.last = ticks
          /\ n.born = bucket[B].born /\ n.epoch = bucket[B].epoch
          /\ n.admitted = bucket[B].admitted + 1
      BY <2>0, <3>1, <3>2, <3>3 DEF BucketState
    <3>5. /\ call' = [call EXCEPT ![s] = f]
          /\ f \in CallFrame /\ f.client = call[s].client /\ f.pc = "dispatch"
      BY <2>0, <3>1, <3>3 DEF CallFrame
    <3> HIDE DEF B, n, f
    <3>6. /\ \A b \in Bucket : bucket'[b] = IF b = B THEN n ELSE bucket[b]
          /\ \A t \in Sender : call'[t] = IF t = s THEN f ELSE call[t]
      BY <2>0, <3>4, <3>5
    <3>7. /\ InUse' = InUse
          /\ InUse \subseteq Bucket
          /\ \A b \in InUse : /\ bucket'[b].client = bucket[b].client
                              /\ bucket'[b].epoch = bucket[b].epoch
      BY <3>1, <3>4, <3>6 DEF InUse
    <3>8. RateTypeOK'
      <4>1. UNCHANGED <<limiting, limiters, epoch, ticks>>
        BY <3>3
      <4> QED
        BY <2>0, <3>4, <3>5, <4>1 DEF RateTypeOK
    <3>9. Known'
      BY <3>1, <3>5, <3>6 DEF RateIInv, Known
    <3>10. OwnBucket'
      BY <3>5, <3>6, <3>7 DEF RateIInv, RateInv, OwnBucket
    <3>11. \A d \in Address : limiters[d] # NoBucket => limiters[d] \in InUse
      BY <2>0 DEF RateIInv, RateInv, MappedIsOwn, InUse
    <3>12. MappedIsOwn'
      BY <3>3, <3>7, <3>11 DEF RateIInv, RateInv, MappedIsOwn
    <3>13. OneBucketPerEpoch'
      BY <3>7 DEF RateIInv, RateInv, OneBucketPerEpoch
    <3>14. /\ bucket[B].tokens \in Nat /\ bucket[B].admitted \in Nat
           /\ bucket[B].last \in Nat /\ bucket[B].born \in Nat
           /\ bucket[B].born <= bucket[B].last /\ bucket[B].last <= ticks
           /\ bucket[B].tokens <= Burst
           /\ bucket[B].admitted + bucket[B].tokens <= Burst + Rate * (bucket[B].last - bucket[B].born)
           /\ bucket[B].admitted + bucket[B].tokens >= Burst
      BY <3>1 DEF RateIInv, RateInv, WithinBudget, NoTokenLost, BucketState
    <3>15. n.admitted + n.tokens <= Burst + Rate * (n.last - n.born)
      <4>1. PICK d \in Nat, e \in Nat : d = ticks - bucket[B].last /\ e = bucket[B].last - bucket[B].born
        BY <2>0, <3>14
      <4>2. ticks - bucket[B].born = d + e
        BY <2>0, <3>14, <4>1
      <4>3. Rate * (d + e) = Rate * d + Rate * e /\ Rate * d \in Nat /\ Rate * e \in Nat
        BY <4>1
      <4>4. n.last - n.born = d + e
        BY <3>4, <4>2
      <4> DEFINE x == Rate * d
                 y == Rate * e
                 z == Rate * (d + e)
      <4>5. x \in Nat /\ y \in Nat /\ z = x + y
        BY <4>3
      <4>6. k <= bucket[B].tokens + x
        BY <3>2, <4>1 DEF B
      <4>7. bucket[B].admitted + bucket[B].tokens <= Burst + y
        BY <3>14, <4>1
      <4>8. Rate * (n.last - n.born) = z
        BY <4>4
      <4> HIDE DEF x, y, z
      <4>9. n.admitted + n.tokens <= Burst + z
        BY <3>2, <3>4, <3>14, <4>5, <4>6, <4>7
      <4> QED
        BY <4>8, <4>9
    <3>16. WithinBudget'
      <4>1. n.born <= n.last /\ n.last <= ticks /\ n.tokens <= Burst
        BY <2>0, <3>2, <3>4, <3>14
      <4>2. \A b \in InUse :
              /\ bucket[b].born <= bucket[b].last /\ bucket[b].last <= ticks
              /\ bucket[b].tokens <= Burst
              /\ bucket[b].admitted + bucket[b].tokens
                   <= Burst + Rate * (bucket[b].last - bucket[b].born)
        BY DEF RateIInv, RateInv, WithinBudget
      <4>3. \A b \in InUse : bucket'[b] = IF b = B THEN n ELSE bucket[b]
        BY <3>6, <3>7
      <4> QED
        BY <3>3, <3>7, <3>15, <4>1, <4>2, <4>3 DEF WithinBudget
    <3>17. NoTokenLost'
      <4>1. n.admitted + n.tokens >= Burst
        BY <3>2, <3>4, <3>14 DEF B
      <4>2. \A b \in InUse' : bucket'[b].admitted + bucket'[b].tokens >= Burst
        BY <3>6, <3>7, <4>1 DEF RateIInv, RateInv, NoTokenLost
      <4>3. /\ \A b \in InUse' : bucket'[b].epoch <= epoch'
            /\ \A b \in InUse' : bucket'[b].epoch = epoch' => limiters'[bucket'[b].client] = b
        BY <3>3, <3>7 DEF RateIInv, RateInv, NoTokenLost
      <4> QED
        BY <4>2, <4>3 DEF NoTokenLost
    <3>18. RefusedHasSpent'
      <4>1. n.admitted >= bucket[B].admitted /\ n.last >= bucket[B].last
        BY <2>0, <3>4, <3>14
      <4>2. \A b \in InUse : /\ bucket[b].admitted \in Nat /\ bucket[b].last \in Nat
                             /\ bucket'[b].admitted \in Nat /\ bucket'[b].last \in Nat
                             /\ bucket'[b].admitted >= bucket[b].admitted
                             /\ bucket'[b].last >= bucket[b].last
        BY <2>0, <3>4, <3>6, <3>7, <4>1 DEF BucketState
      <4> SUFFICES ASSUME NEW t \in Sender, call'[t].pc = "refused"
                   PROVE  /\ bucket'[call'[t].bucket].admitted >= Burst
                          /\ bucket'[call'[t].bucket].last >= call'[t].at
                          /\ call'[t].at <= ticks'
        BY DEF RefusedHasSpent
      <4>3. call'[t] = call[t] /\ call[t].pc = "refused" /\ call[t] \in CallFrame
        BY <2>0, <3>5, <3>6
      <4>4. /\ call[t].bucket \in InUse /\ call[t].at \in Nat
            /\ bucket[call[t].bucket].admitted >= Burst
            /\ bucket[call[t].bucket].last >= call[t].at
            /\ call[t].at <= ticks
        BY <4>3 DEF RateIInv, RateInv, OwnBucket, RefusedHasSpent, CallFrame
      <4> DEFINE w == call[t].bucket
      <4>5. /\ w \in InUse /\ bucket[w].admitted >= Burst /\ bucket[w].last >= call[t].at
            /\ bucket[w].admitted \in Nat /\ bucket[w].last \in Nat
            /\ bucket'[w].admitted \in Nat /\ bucket'[w].last \in Nat
            /\ bucket'[w].admitted >= bucket[w].admitted
            /\ bucket'[w].last >= bucket[w].last
        BY <4>2, <4>4
      <4> HIDE DEF w
      <4>6. bucket'[w].admitted >= Burst /\ bucket'[w].last >= call[t].at
        BY <4>4, <4>5
      <4>7. call'[t].bucket = w /\ call'[t].at = call[t].at /\ ticks' = ticks
        BY <3>3, <4>3 DEF w
      <4> QED
        BY <4>4, <4>6, <4>7
    <3> QED
      BY <3>8, <3>9, <3>10, <3>12, <3>13, <3>16, <3>17, <3>18 DEF RateIInv, RateInv
  <2>6. ASSUME NEW s \in Sender, Refuse(s)
        PROVE  RateIInv'
    <3> DEFINE B == call[s].bucket
               f == [call[s] EXCEPT !.pc = "refused", !.at = ticks]
    <3>1. /\ call[s] \in CallFrame /\ call[s].client \in Address
          /\ B \in InUse /\ bucket[B].client = call[s].client /\ bucket[B] \in BucketState
      BY <2>0, <2>6 DEF Refuse, RateIInv, RateInv, Known, OwnBucket, InUse
    <3>2. bucket[B].tokens = 0 /\ bucket[B].last = ticks
      BY <2>6, <3>1, FilledIs DEF Refuse
    <3>3. bucket[B].admitted >= Burst
      BY <3>1, <3>2 DEF RateIInv, RateInv, NoTokenLost, BucketState
    <3>4. /\ f \in CallFrame /\ f.client = call[s].client /\ f.bucket = B
          /\ f.pc = "refused" /\ f.at = ticks
      BY <2>0, <3>1 DEF CallFrame
    <3>5. call' = [call EXCEPT ![s] = f]
      BY <2>0, <2>6, <3>1 DEF Refuse, CallFrame
    <3>6. limiting' \in {"on", "off"} /\ UNCHANGED <<limiters, bucket, epoch, ticks>>
      BY <2>0, <2>6 DEF Refuse
    <3> HIDE DEF f, B
    <3>7. /\ bucket[B].admitted >= Burst /\ bucket[B].last >= f.at /\ f.at <= ticks
      BY <2>0, <3>2, <3>3, <3>4
    <3> QED
      BY <2>1, <3>1, <3>4, <3>5, <3>6, <3>7
  <2>7. ASSUME NEW s \in Sender, Dispatch(s) \/ AnswerRefused(s)
        PROVE  RateIInv'
    <3>1. NoCall \in CallFrame /\ NoCall.pc = "idle"
      BY DEF NoCall, CallFrame
    <3>2. /\ call' = [call EXCEPT ![s] = NoCall] /\ limiting' \in {"on", "off"}
          /\ UNCHANGED <<limiters, bucket, epoch, ticks>>
      BY <2>0, <2>7 DEF Dispatch, AnswerRefused
    <3> QED
      BY <2>1, <3>1, <3>2
  <2>8. CASE ThrowAway
    <3>1. /\ limiters' = [c \in Address |-> NoBucket] /\ epoch' = epoch + 1
          /\ UNCHANGED <<limiting, bucket, call, ticks>>
      BY <2>8 DEF ThrowAway
    <3>2. InUse' = InUse
      BY <3>1 DEF InUse
    <3>3. RateTypeOK' /\ Known' /\ OwnBucket' /\ MappedIsOwn' /\ OneBucketPerEpoch' /\ WithinBudget'
          /\ RefusedHasSpent'
      BY <2>0, <3>1, <3>2 DEF RateIInv, RateInv, RateTypeOK, Known, OwnBucket, MappedIsOwn,
                              OneBucketPerEpoch, WithinBudget, RefusedHasSpent
    <3>4. \A b \in InUse : bucket[b].epoch \in Nat /\ bucket[b].epoch <= epoch
      BY <2>0 DEF RateIInv, RateInv, NoTokenLost, InUse, BucketState
    <3>5. NoTokenLost'
      BY <2>0, <3>1, <3>2, <3>4 DEF RateIInv, RateInv, NoTokenLost
    <3> QED
      BY <3>3, <3>5 DEF RateIInv, RateInv
  <2>9. CASE TimePasses
    <3>1. ticks' = ticks + 1 /\ UNCHANGED <<limiting, limiters, bucket, call, epoch>>
      BY <2>9 DEF TimePasses
    <3>2. InUse' = InUse /\ BucketsInv'
      BY <2>0, <3>1, BucketsUntouched
    <3>3. RateTypeOK' /\ Known' /\ OwnBucket'
      BY <2>0, <3>1, <3>2 DEF RateIInv, RateInv, RateTypeOK, Known, OwnBucket
    <3>4. RefusedHasSpent'
      BY <2>0, <3>1 DEF RateIInv, RateInv, RefusedHasSpent, CallFrame
    <3> QED
      BY <3>2, <3>3, <3>4 DEF RateIInv, RateInv, BucketsInv
  <2>10. CASE UNCHANGED rateVars
    BY <2>10 DEF rateVars, RateIInv, RateInv, RateTypeOK, Known, OwnBucket, MappedIsOwn, InUse,
                 OneBucketPerEpoch, WithinBudget, NoTokenLost, RefusedHasSpent
  <2> QED
    BY <2>2, <2>3, <2>4, <2>5, <2>6, <2>7, <2>8, <2>9, <2>10 DEF RateNext, CallGoes
<1>3. RateIInv => RateInv
  BY DEF RateIInv
<1> QED
  BY <1>1, <1>2, <1>3, PTL DEF RateSpec

-----------------------------------------------------------------------------
(* Routing and the exempt paths *)

LEMMA RouteCount == DOMAIN Routes = 1 .. 48
  BY DEF Routes

\* The patterns that an exempt path can match are those of reporting handlers:
\* every pattern begins with a word, and no other pattern with an exempt one.
LEMMA ExemptPatterns ==
  ASSUME NEW i \in 1 .. 48
  PROVE  /\ 1 \in DOMAIN Pattern(i)
         /\ Pattern(i)[1] # Name
         /\ Pattern(i)[1] \in ExcludedPrefix => i \in {38, 42, 43, 45} /\ Routes[i][1] \in Reporting
  BY DEF Pattern, Routes, Name, ExcludedPrefix, Reporting

LEMMA ExemptHandlers ==
  ASSUME NEW path, IsExcluded(path)
  PROVE  HandlerOf(path) \in Reporting
<1>1. CASE Matching(path) = {}
  BY <1>1 DEF HandlerOf, Reporting
<1>2. CASE Matching(path) # {}
  <2> DEFINE first == CHOOSE i \in Matching(path) : \A j \in Matching(path) : i <= j
  <2>1. ASSUME NEW i \in Matching(path)
        PROVE  i \in {38, 42, 43, 45} /\ Routes[i][1] \in Reporting
    <3>1. i \in 1 .. 48 /\ Matches(Pattern(i), path)
      BY RouteCount DEF Matching
    <3>2. Pattern(i)[1] = path[1]
      BY <3>1, ExemptPatterns DEF Matches
    <3> QED  BY <3>1, <3>2, ExemptPatterns DEF IsExcluded
  <2>2. \E i \in Matching(path) : \A j \in Matching(path) : i <= j
    BY <1>2, <2>1
  <2>3. first \in Matching(path)
    BY <2>2
  <2> QED  BY <1>2, <2>1, <2>3 DEF HandlerOf
<1> QED  BY <1>1, <1>2

\* Nobody reaches a handler that does more than report without a token, as long
\* as the limiter is on, whatever path is asked for.
THEOREM ExemptReports == RateSpec => []ExemptIsHarmless
<1> DEFINE Exempt == \A s \in Sender :
                       call[s].pc = "dispatch" /\ call[s].paid = "exempt"
                         => IsExcluded(call[s].path)
<1>1. RateInit => Exempt
  BY DEF RateInit, NoCall
<1>2. RateInv /\ Exempt /\ [RateNext]_rateVars => Exempt'
  <2> SUFFICES ASSUME call \in [Sender -> CallFrame], Exempt, [RateNext]_rateVars
               PROVE  Exempt'
    BY DEF RateInv, RateTypeOK
  <2>1. ASSUME NEW s \in Sender,
               \A t \in Sender : t # s => call'[t] = call[t],
               \/ call'[s].pc # "dispatch" \/ call'[s].paid # "exempt"
               \/ IsExcluded(call'[s].path)
        PROVE  Exempt'
    BY <2>1
  <2>2. ASSUME NEW s \in Sender, NEW c \in Address, NEW path \in Path, Arrive(s, c, path)
        PROVE  Exempt'
    <3> DEFINE h == [NoCall EXCEPT !.client = c, !.path = path,
                       !.pc = IF limiting = "off" \/ IsExcluded(path) THEN "dispatch" ELSE "lookup",
                       !.paid = IF limiting = "off" THEN "off"
                                ELSE IF IsExcluded(path) THEN "exempt" ELSE "open"]
    <3>1. h.path = path /\ (h.paid = "exempt" => IsExcluded(path))
      BY DEF NoCall
    <3>2. call' = [call EXCEPT ![s] = h]
      BY <2>2 DEF Arrive
    <3> HIDE DEF h
    <3>3. call'[s] = h /\ \A t \in Sender : t # s => call'[t] = call[t]
      BY <3>2
    <3> QED  BY <2>1, <3>1, <3>3
  <2>3. ASSUME NEW s \in Sender, Lookup(s) \/ Create(s) \/ Refuse(s)
        PROVE  Exempt'
    <3>1. call'[s].pc # "dispatch" /\ \A t \in Sender : t # s => call'[t] = call[t]
      BY <2>3 DEF Lookup, Create, AddBucket, Refuse, CallFrame
    <3> QED  BY <2>1, <3>1
  <2>4. ASSUME NEW s \in Sender, Admit(s)
        PROVE  Exempt'
    <3>1. call'[s].paid = "token" /\ \A t \in Sender : t # s => call'[t] = call[t]
      BY <2>4 DEF Admit, CallFrame
    <3> QED  BY <2>1, <3>1
  <2>5. ASSUME NEW s \in Sender, Dispatch(s) \/ AnswerRefused(s)
        PROVE  Exempt'
    <3>1. call'[s].pc = "idle" /\ \A t \in Sender : t # s => call'[t] = call[t]
      BY <2>5 DEF Dispatch, AnswerRefused, NoCall
    <3> QED  BY <2>1, <3>1
  <2>6. CASE call' = call
    BY <2>6
  <2> QED
    BY <2>2, <2>3, <2>4, <2>5, <2>6 DEF RateNext, CallGoes, ThrowAway, TimePasses, rateVars
<1>3. Exempt => ExemptIsHarmless
  BY ExemptHandlers DEF ExemptIsHarmless
<1> QED  BY <1>1, <1>2, <1>3, RateLimited, PTL DEF RateSpec

-----------------------------------------------------------------------------
(* QueryCache *)

\* What a request in flight may rely on.
AskOK ==
  /\ ask \in [Asker -> Ask]
  /\ \A p \in Asker : /\ ask[p].pc # "idle" => ask[p].key \in StoredKey
                      /\ ask[p].pc = "fill" => ask[p].value \in Datum
  /\ FillIsFresh

\* The history is the time of use the cache keeps.
UsedIsTouched == \A k \in Present : cached[k].used = touched[k]

QueryIInv == QueryInv /\ UsedIsTouched

\* No write that is still to be invalidated is forgotten, but for the keys of S.
StillWritten(S) ==
  \A k \in StoredKey \ S : BeingWritten(k) => BeingWritten(k)'

LEMMA QueryTypes ==
  ASSUME QueryIInv
  PROVE  /\ cached \in [Key -> Cell \cup {Nothing}] /\ records \in [StoredKey -> Datum \cup {Nothing}]
         /\ time \in Nat /\ running \in {"yes", "no"} /\ touched \in [Key -> Nat]
         /\ outdated \in SUBSET Key /\ AskOK
         /\ \A k \in Present : k \in Key /\ cached[k] \in Cell
         /\ StoredKey \subseteq Key
BY DEF QueryIInv, QueryInv, QueryTypeOK, AskOK, Present, Key

LEMMA RoomIs ==
  ASSUME QueryIInv
  PROVE  /\ IsFiniteSet(Present) /\ Cardinality(Present) \in Nat
         /\ Cardinality(Present) <= Room /\ Room \in Nat \ {0}
<1>1. Present \subseteq Key /\ IsFiniteSet(Key)
  BY QueryAssumption DEF Present
<1>2. IsFiniteSet(Present)
  BY <1>1, FS_Subset
<1> QED
  BY <1>2, FS_CardinalityType, QueryAssumption DEF QueryIInv, QueryInv, RoomKept

\* Taking entries away.
LEMMA DropKeeps ==
  ASSUME QueryIInv, NEW S, Drop(S), records' = records, time' \in Nat, running' \in {"yes", "no"},
         AskOK', StillWritten(S)
  PROVE  QueryIInv'
<1>1. /\ cached \in [Key -> Cell \cup {Nothing}] /\ records \in [StoredKey -> Datum \cup {Nothing}]
      /\ touched \in [Key -> Nat] /\ outdated \in SUBSET Key /\ StoredKey \subseteq Key
  BY QueryTypes
<1>2. /\ cached' = [k \in Key |-> IF k \in S THEN Nothing ELSE cached[k]]
      /\ touched' = [k \in Key |-> IF k \in S THEN 0 ELSE touched[k]]
      /\ outdated' = outdated \ S
  BY DEF Drop
<1>3. Present' = Present \ S
  BY <1>2 DEF Present
<1>4. QueryTypeOK'
  BY <1>1, <1>2 DEF QueryTypeOK, AskOK
<1>5. CachedIsStored'
  <2> SUFFICES ASSUME NEW k \in StoredKey, k \in Present', k \notin outdated', ~BeingWritten(k)'
               PROVE  cached'[k].value = records'[k]
    BY DEF CachedIsStored
  <2>1. k \in Present /\ k \notin S /\ k \notin outdated /\ cached'[k] = cached[k]
    BY <1>1, <1>2, <1>3
  <2>2. ~BeingWritten(k)
    BY <2>1 DEF StillWritten
  <2> QED
    BY <2>1, <2>2 DEF QueryIInv, QueryInv, CachedIsStored
<1>6. RoomKept'
  <2>1. Present' \in SUBSET Present
    BY <1>3
  <2>2. Cardinality(Present') <= Cardinality(Present) /\ IsFiniteSet(Present')
    BY <2>1, RoomIs, FS_Subset
  <2>3. Cardinality(Present') \in Nat
    BY <2>2, FS_CardinalityType
  <2> QED
    BY <2>2, <2>3, RoomIs DEF RoomKept
<1>7. UsedIsTouched'
  BY <1>2, <1>3 DEF QueryIInv, UsedIsTouched, Present
<1> QED
  BY <1>4, <1>5, <1>6, <1>7 DEF QueryIInv, QueryInv, AskOK

\* Leaving the entries alone is taking none away.
LEMMA NothingDropped ==
  ASSUME QueryIInv, UNCHANGED <<cached, touched, outdated>>
  PROVE  Drop({})
BY QueryTypes DEF Drop

\* Setting an entry, where it is thrown out what Evicted says.
LEMMA ReplaceKeeps ==
  ASSUME QueryIInv, NEW k \in Key, NEW v \in Datum, NEW S \in Evicted(k), Replace(S, k, v),
         UNCHANGED <<records, time, running>>,
         AskOK', StillWritten({}), outdated' \in SUBSET Key,
         \A w \in outdated \ (S \cup {k}) : w \in outdated',
         k \in StoredKey => k \in outdated' \/ v = records[k]
  PROVE  QueryIInv'
<1>1. /\ cached \in [Key -> Cell \cup {Nothing}] /\ records \in [StoredKey -> Datum \cup {Nothing}]
      /\ touched \in [Key -> Nat] /\ outdated \in SUBSET Key /\ StoredKey \subseteq Key
      /\ time \in Nat /\ running \in {"yes", "no"}
  BY QueryTypes
<1> DEFINE n == NewCell(v)
<1>2. /\ n \in Cell /\ n # Nothing /\ n.value = v /\ n.used = time
  BY <1>1, QueryAssumption DEF NewCell, Cell
<1>3. /\ cached' = [w \in Key |-> IF w = k THEN n ELSE IF w \in S THEN Nothing ELSE cached[w]]
      /\ touched' = [w \in Key |-> IF w = k THEN time ELSE IF w \in S THEN 0 ELSE touched[w]]
  BY DEF Replace
<1> HIDE DEF n
<1>4. Present' = (Present \ S) \cup {k}
  BY <1>2, <1>3 DEF Present
<1>5. QueryTypeOK'
  BY <1>1, <1>2, <1>3 DEF QueryTypeOK, AskOK
<1>6. CachedIsStored'
  <2> SUFFICES ASSUME NEW w \in StoredKey, w \in Present', w \notin outdated', ~BeingWritten(w)'
               PROVE  cached'[w].value = records'[w]
    BY DEF CachedIsStored
  <2>1. CASE w = k
    BY <1>2, <1>3, <2>1
  <2>2. CASE w # k
    <3>1. w \in Present /\ w \notin S /\ w \notin outdated /\ cached'[w] = cached[w]
      BY <1>1, <1>3, <1>4, <2>2
    <3>2. ~BeingWritten(w)
      BY DEF StillWritten
    <3> QED
      BY <3>1, <3>2 DEF QueryIInv, QueryInv, CachedIsStored
  <2> QED
    BY <2>1, <2>2
<1>7. RoomKept'
  <2> DEFINE c == Cardinality(Present)
  <2>1. IsFiniteSet(Present) /\ c \in Nat /\ c <= Room /\ Room \in Nat \ {0}
    BY RoomIs
  <2>2. CASE k \in Present
    <3>1. S = {}
      BY <2>2 DEF Evicted
    <3>2. Present' = Present
      BY <1>4, <2>2, <3>1
    <3> QED
      BY <2>1, <3>2 DEF RoomKept
  <2>3. CASE k \notin Present /\ c < Room
    <3>1. S = {}
      BY <2>3 DEF Evicted
    <3>2. Present' = Present \cup {k}
      BY <1>4, <3>1
    <3>3. Cardinality(Present \cup {k}) = c + 1
      BY <2>1, <2>3, FS_AddElement
    <3> QED
      BY <2>1, <2>3, <3>2, <3>3 DEF RoomKept
  <2>4. CASE k \notin Present /\ ~(c < Room)
    <3>1. PICK w \in Present : S = {w}
      BY <2>4 DEF Evicted, LeastUsed
    <3>2. IsFiniteSet(Present \ {w}) /\ Cardinality(Present \ {w}) = c - 1
      BY <2>1, <3>1, FS_RemoveElement
    <3>3. Cardinality((Present \ {w}) \cup {k}) = (c - 1) + 1
      BY <2>4, <3>2, FS_AddElement
    <3>4. Present' = (Present \ {w}) \cup {k}
      BY <1>4, <3>1
    <3> QED
      BY <2>1, <3>3, <3>4 DEF RoomKept
  <2> QED
    BY <2>2, <2>3, <2>4
<1>8. UsedIsTouched'
  BY <1>2, <1>3, <1>4 DEF QueryIInv, UsedIsTouched, Present
<1> QED
  BY <1>5, <1>6, <1>7, <1>8 DEF QueryIInv, QueryInv, AskOK

\* The requests after a step of one of them that writes nothing.
LEMMA AskMoves ==
  ASSUME QueryIInv, NEW p \in Asker, NEW f \in Ask, ask' = [ask EXCEPT ![p] = f], records' = records,
         f.pc # "idle" => f.key \in StoredKey,
         f.pc = "fill" => f.value \in Datum /\ f.value = records[f.key],
         f.pc # "invalidate"
  PROVE  /\ AskOK'
         /\ ask[p].pc # "invalidate" => StillWritten({})
         /\ StillWritten({ask[p].key})
<1>1. AskOK
  BY QueryTypes
<1>2. \A q \in Asker : ask'[q] = IF q = p THEN f ELSE ask[q]
  BY <1>1 DEF AskOK
<1>3. FillIsFresh'
  BY <1>1, <1>2 DEF AskOK, FillIsFresh
<1>4. AskOK'
  BY <1>1, <1>2, <1>3 DEF AskOK
<1> QED
  BY <1>2, <1>4 DEF StillWritten, BeingWritten


LEMMA QueryStep ==
  ASSUME QueryIInv, [QueryNext]_queryVars
  PROVE  QueryIInv'
<1>0. /\ cached \in [Key -> Cell \cup {Nothing}] /\ records \in [StoredKey -> Datum \cup {Nothing}]
      /\ time \in Nat /\ running \in {"yes", "no"} /\ touched \in [Key -> Nat]
      /\ outdated \in SUBSET Key /\ AskOK
      /\ \A k \in Present : k \in Key /\ cached[k] \in Cell
      /\ StoredKey \subseteq Key
  BY QueryTypes
<1>1. /\ ask \in [Asker -> Ask]
      /\ \A p \in Asker : /\ ask[p] \in Ask
                          /\ ask[p].pc # "idle" => ask[p].key \in StoredKey /\ ask[p].key \in Key
                          /\ ask[p].pc = "fill" => ask[p].value \in Datum
  BY <1>0 DEF AskOK
<1>2. Done \in Ask /\ Done.pc = "idle"
  BY DEF Done, Ask
\* No request moves.
<1>3. ASSUME UNCHANGED <<ask, records>>
      PROVE  AskOK' /\ (\A S : StillWritten(S))
  BY <1>0, <1>3 DEF AskOK, FillIsFresh, StillWritten, BeingWritten
<1>4. ASSUME NEW p \in Asker, NEW k \in Key, Find(p, k)
      PROVE  QueryIInv'
  <2>1. /\ k \in Present
        /\ cached' = [cached EXCEPT ![k].used = time]
        /\ touched' = [touched EXCEPT ![k] = time]
        /\ UNCHANGED <<records, time, running, ask, outdated>>
    BY <1>4 DEF Find
  <2> DEFINE n == [cached[k] EXCEPT !.used = time]
  <2>2. cached[k] \in Cell /\ n \in Cell /\ n.value = cached[k].value /\ n.used = time /\ n # Nothing
    BY <1>0, <2>1, QueryAssumption DEF Cell
  <2>3. \A w \in Key : cached'[w] = IF w = k THEN n ELSE cached[w]
    BY <1>0, <2>1
  <2>4. cached' \in [Key -> Cell \cup {Nothing}]
    BY <1>0, <2>1, <2>2
  <2> HIDE DEF n
  <2>5. Present' = Present
    BY <2>1, <2>2, <2>3 DEF Present
  <2>6. QueryTypeOK'
    BY <1>0, <2>1, <2>4 DEF QueryTypeOK, AskOK
  <2>7. CachedIsStored'
    BY <1>0, <2>1, <2>2, <2>3, <2>5 DEF QueryIInv, QueryInv, CachedIsStored, BeingWritten
  <2>8. UsedIsTouched'
    BY <1>0, <2>1, <2>2, <2>3, <2>5 DEF QueryIInv, UsedIsTouched
  <2>9. FillIsFresh' /\ RoomKept'
    BY <2>1, <2>5 DEF QueryIInv, QueryInv, FillIsFresh, RoomKept
  <2> QED
    BY <2>6, <2>7, <2>8, <2>9 DEF QueryIInv, QueryInv
<1>5. ASSUME NEW p \in Asker, NEW k \in Key, Miss(p, k)
      PROVE  QueryIInv'
  <2>1. /\ Drop({k}) /\ UNCHANGED <<records, time, running>> /\ ask[p].pc = "idle"
        /\ ask' = IF k \in StoredKey THEN [ask EXCEPT ![p] = [Done EXCEPT !.pc = "read", !.key = k]] ELSE ask
    BY <1>5 DEF Miss
  <2>2. AskOK' /\ StillWritten({})
    <3>1. CASE k \in StoredKey
      <4> DEFINE f == [Done EXCEPT !.pc = "read", !.key = k]
      <4>1. f \in Ask /\ f.pc = "read" /\ f.key = k
        BY <3>1, QueryAssumption DEF Done, Ask, Key
      <4>2. ask' = [ask EXCEPT ![p] = f]
        BY <2>1, <3>1
      <4> HIDE DEF f
      <4> QED
        BY <2>1, <3>1, <4>1, <4>2, AskMoves
    <3>2. CASE k \notin StoredKey
      BY <1>3, <2>1, <3>2
    <3> QED
      BY <3>1, <3>2
  <2>3. StillWritten({k})
    BY <2>2 DEF StillWritten
  <2> QED
    BY <1>0, <2>1, <2>2, <2>3, DropKeeps
<1>6. ASSUME NEW p \in Asker, ReadRecord(p)
      PROVE  QueryIInv'
  <2>1. ask[p].pc = "read" /\ UNCHANGED <<cached, records, time, running, touched, outdated>>
    BY <1>6 DEF ReadRecord
  <2>2. PICK f \in Ask : /\ ask' = [ask EXCEPT ![p] = f]
                         /\ \/ f = Done
                            \/ f.pc = "fill" /\ f.key = ask[p].key /\ f.value \in Datum /\ f.value = records[f.key]
    <3> DEFINE r == records[ask[p].key]
               f == [ask[p] EXCEPT !.pc = "fill", !.value = r]
    <3>1. CASE r # Nothing /\ ask' = [ask EXCEPT ![p].pc = "fill", ![p].value = r]
      <4>1. r \in Datum
        BY <1>0, <1>1, <2>1, <3>1
      <4>2. f \in Ask /\ f.pc = "fill" /\ f.key = ask[p].key /\ f.value = r
        BY <1>1, <4>1 DEF Ask
      <4>3. ask' = [ask EXCEPT ![p] = f]
        BY <1>1, <3>1 DEF Ask
      <4> HIDE DEF f
      <4> QED
        BY <4>1, <4>2, <4>3
    <3>2. CASE ask' = [ask EXCEPT ![p] = Done]
      BY <1>2, <3>2
    <3> QED
      BY <1>6, <3>1, <3>2 DEF ReadRecord
  <2>3. AskOK' /\ StillWritten({})
    BY <1>1, <1>2, <2>1, <2>2, AskMoves
  <2> QED
    BY <1>0, <2>1, <2>3, NothingDropped, DropKeeps
<1>7. ASSUME NEW p \in Asker, Fill(p)
      PROVE  QueryIInv'
  <2> DEFINE k == ask[p].key
             v == ask[p].value
  <2>1. /\ ask[p].pc = "fill" /\ ask' = [ask EXCEPT ![p] = Done]
        /\ UNCHANGED <<records, time, running>>
    BY <1>7 DEF Fill
  <2>2. PICK S \in Evicted(k) :
          /\ Replace(S, k, v)
          /\ outdated' = IF ask[p].crossed = "yes" THEN (outdated \ S) \cup {k}
                         ELSE outdated \ (S \cup {k})
    BY <1>7 DEF Fill
  <2>3. k \in StoredKey /\ k \in Key /\ v \in Datum
    BY <1>1, <2>1
  <2>4. AskOK' /\ StillWritten({})
    BY <1>2, <2>1, AskMoves
  <2>5. k \in outdated' \/ v = records[k]
    <3>1. CASE ask[p].crossed = "yes"
      BY <2>2, <3>1
    <3>2. CASE ask[p].crossed = "no"
      BY <2>1, <3>2 DEF QueryIInv, QueryInv, FillIsFresh
    <3> QED
      BY <1>1, <3>1, <3>2 DEF Ask
  <2>6. outdated' \in SUBSET Key /\ \A w \in outdated \ (S \cup {k}) : w \in outdated'
    BY <1>0, <2>2, <2>3
  <2> HIDE DEF k, v
  <2> QED
    BY <2>1, <2>2, <2>3, <2>4, <2>5, <2>6, ReplaceKeeps
<1>8. ASSUME NEW p \in Asker, NEW k \in ResultKey, NEW v \in Datum, CacheResult(p, k, v)
      PROVE  QueryIInv'
  <2>1. UNCHANGED <<records, time, running, ask>>
    BY <1>8 DEF CacheResult
  <2>2. PICK S \in Evicted(k) : Replace(S, k, v) /\ outdated' = outdated \ S
    BY <1>8 DEF CacheResult
  <2>3. k \in Key /\ k \notin StoredKey
    BY QueryAssumption DEF Key
  <2>4. AskOK' /\ StillWritten({})
    BY <1>3, <2>1
  <2>5. outdated' \in SUBSET Key /\ \A w \in outdated \ (S \cup {k}) : w \in outdated'
    BY <1>0, <2>2
  <2> QED
    BY <2>1, <2>2, <2>3, <2>4, <2>5, ReplaceKeeps
<1>9. ASSUME NEW p \in Asker, NEW k \in StoredKey, WriteRecord(p, k)
      PROVE  QueryIInv'
  <2> DEFINE g == [Done EXCEPT !.pc = "invalidate", !.key = k]
  <2>1. /\ ask[p].pc = "idle" /\ UNCHANGED <<cached, time, running, touched, outdated>>
        /\ ask' = [q \in Asker |->
                    IF q = p THEN g
                    ELSE IF ask[q].pc = "fill" /\ ask[q].key = k THEN [ask[q] EXCEPT !.crossed = "yes"]
                    ELSE ask[q]]
    BY <1>9 DEF WriteRecord
  <2>2. PICK v \in Datum \cup {Nothing} : records' = [records EXCEPT ![k] = v]
    BY <1>9 DEF WriteRecord
  <2>3. g \in Ask /\ g.pc = "invalidate" /\ g.key = k
    BY <1>0, QueryAssumption DEF Done, Ask
  <2> HIDE DEF g
  <2>4. \A q \in Asker : LET f == [ask[q] EXCEPT !.crossed = "yes"]
                         IN f \in Ask /\ f.pc = ask[q].pc /\ f.key = ask[q].key
                                      /\ f.value = ask[q].value /\ f.crossed = "yes"
    BY <1>1 DEF Ask
  <2>5. \A q \in Asker \ {p} :
          /\ ask'[q] \in Ask /\ ask'[q].pc = ask[q].pc /\ ask'[q].key = ask[q].key
          /\ ask'[q].value = ask[q].value
          /\ ask[q].pc = "fill" /\ ask[q].key = k => ask'[q].crossed = "yes"
          /\ ~(ask[q].pc = "fill" /\ ask[q].key = k) => ask'[q].crossed = ask[q].crossed
    BY <1>1, <2>1, <2>4
  <2>6. ask'[p] = g /\ ask' \in [Asker -> Ask]
    BY <2>1, <2>3, <2>5
  <2>7. \A w \in StoredKey : records'[w] = IF w = k THEN v ELSE records[w]
    BY <1>0, <2>2
  <2>8. QueryTypeOK'
    BY <1>0, <1>1, <2>1, <2>2, <2>3, <2>5, <2>6 DEF QueryTypeOK
  <2>9. FillIsFresh'
    BY <1>1, <2>3, <2>5, <2>6, <2>7 DEF QueryIInv, QueryInv, FillIsFresh
  <2>10. CachedIsStored'
    <3> SUFFICES ASSUME NEW w \in StoredKey, w \in Present', w \notin outdated', ~BeingWritten(w)'
                 PROVE  cached'[w].value = records'[w]
      BY DEF CachedIsStored
    <3>1. w # k
      BY <2>3, <2>6 DEF BeingWritten
    <3>2. ~BeingWritten(w)
      BY <2>1, <2>5 DEF BeingWritten
    <3>3. w \in Present /\ w \notin outdated
      BY <2>1 DEF Present
    <3> QED
      BY <2>1, <2>7, <3>1, <3>2, <3>3 DEF QueryIInv, QueryInv, CachedIsStored
  <2>11. RoomKept' /\ UsedIsTouched'
    BY <2>1 DEF QueryIInv, QueryInv, RoomKept, UsedIsTouched, Present
  <2> QED
    BY <2>8, <2>9, <2>10, <2>11 DEF QueryIInv, QueryInv
<1>10. ASSUME NEW p \in Asker, Invalidate(p) \/ VerifySucceeds(p) \/ VerifyFails(p)
       PROVE  QueryIInv'
  <2>1. /\ ask[p].pc # "idle" /\ UNCHANGED <<records, time, running>>
        /\ Drop({ask[p].key}) \/ (ask[p].pc = "verify" /\ UNCHANGED <<cached, touched, outdated>>)
    BY <1>10 DEF Invalidate, VerifySucceeds, VerifyFails
  <2>2. PICK f \in Ask : /\ ask' = [ask EXCEPT ![p] = f] /\ f.pc \in {"idle", "verify"}
                         /\ f.pc # "idle" => f.key \in StoredKey
    <3> DEFINE f == [ask[p] EXCEPT !.pc = "verify"]
    <3>1. f \in Ask /\ f.pc = "verify" /\ f.key = ask[p].key
      BY <1>1 DEF Ask
    <3>2. ask' = [ask EXCEPT ![p] = f] \/ ask' = [ask EXCEPT ![p] = Done]
      BY <1>1, <1>10 DEF Invalidate, VerifySucceeds, VerifyFails, Ask
    <3> HIDE DEF f
    <3> QED
      BY <1>1, <1>2, <2>1, <3>1, <3>2
  <2>3. AskOK' /\ StillWritten({ask[p].key}) /\ (ask[p].pc # "invalidate" => StillWritten({}))
    BY <2>1, <2>2, AskMoves
  <2>4. CASE Drop({ask[p].key})
    BY <1>0, <2>1, <2>3, <2>4, DropKeeps
  <2>5. CASE ask[p].pc = "verify" /\ UNCHANGED <<cached, touched, outdated>>
    BY <1>0, <2>1, <2>3, <2>5, NothingDropped, DropKeeps
  <2> QED
    BY <2>1, <2>4, <2>5
<1>11. ASSUME NEW S, Drop(S), UNCHANGED <<records, time, running, ask>>
       PROVE  QueryIInv'
  BY <1>0, <1>3, <1>11, DropKeeps
<1>12. ASSUME CloseQueryCache \/ TimeMoves \/ UNCHANGED queryVars
       PROVE  QueryIInv'
  <2>1. /\ UNCHANGED <<cached, records, ask, touched, outdated>>
        /\ time' \in Nat /\ running' \in {"yes", "no"}
    BY <1>0, <1>12 DEF CloseQueryCache, TimeMoves, queryVars
  <2>2. Drop({}) /\ AskOK' /\ StillWritten({})
    BY <1>3, <2>1, NothingDropped
  <2> QED
    BY <2>1, <2>2, DropKeeps
<1>13. ASSUME NEW p \in Asker,
              \/ \E k \in Key : InvalidateKey(p, k)
              \/ \E S \in Prefix : InvalidatePrefix(p, S)
              \/ InvalidateAll(p)
       PROVE  QueryIInv'
  BY <1>11, <1>13 DEF InvalidateKey, InvalidatePrefix, InvalidateAll
<1>14. ASSUME CleanupOver
       PROVE  QueryIInv'
  BY <1>11, <1>14 DEF CleanupOver
<1> QED
  BY <1>4, <1>5, <1>6, <1>7, <1>8, <1>9, <1>10, <1>12, <1>13, <1>14 DEF QueryNext

LEMMA QueryCacheInductive == QuerySpec => []QueryIInv
<1>1. QueryInit => QueryIInv
  <2> SUFFICES ASSUME QueryInit
               PROVE  QueryIInv
    OBVIOUS
  <2>1. Present = {}
    BY DEF QueryInit, Present
  <2>2. RoomKept
    BY <2>1, FS_EmptySet, QueryAssumption DEF RoomKept
  <2> QED
    BY <2>1, <2>2 DEF QueryInit, QueryIInv, QueryInv, QueryTypeOK, FillIsFresh, CachedIsStored,
                      UsedIsTouched, Done, Ask
<1> QED
  BY <1>1, QueryStep, PTL DEF QuerySpec

\* The query cache keeps to its size and shows what is stored, but where a write
\* overtook a lookup (getCachedRole and the handlers that invalidate).
THEOREM QueryCacheSafe == QuerySpec => []QueryInv
BY QueryCacheInductive, PTL DEF QueryIInv

\* evictLRU takes the entry that was found or set longest ago (evictLRU, Get).
THEOREM EvictsLeastUsed == QuerySpec => RecentlyUsedStays
<1>1. ASSUME QueryIInv, [QueryNext]_queryVars
      PROVE  [\A k, w \in Present :
                told'.op = "set" /\ told'.user # k /\ cached'[k] = Nothing /\ cached'[w] # Nothing
                  => touched[k] <= touched[w]]_queryVars
  <2> SUFFICES ASSUME QueryNext, NEW k \in Present, NEW w \in Present,
                      told'.op = "set", told'.user # k, cached'[k] = Nothing, cached'[w] # Nothing
               PROVE  touched[k] <= touched[w]
    BY <1>1
  <2>1. k \in Key /\ cached[k] # Nothing
    BY DEF Present
  <2>2. PICK x, v, S : S \in Evicted(x) /\ Replace(S, x, v) /\ told'.user = x
    <3>1. PICK p \in Asker : Fill(p) \/ \E x \in ResultKey, v \in Datum : CacheResult(p, x, v)
      <4>1. \A p \in Asker :
              /\ \A x \in Key : ~Find(p, x) /\ ~Miss(p, x) /\ ~InvalidateKey(p, x)
              /\ ~Invalidate(p) /\ ~VerifyFails(p) /\ ~InvalidateAll(p)
        <5> SUFFICES ASSUME NEW p \in Asker, NEW x \in Key
                     PROVE  /\ ~Find(p, x) /\ ~Miss(p, x) /\ ~InvalidateKey(p, x)
                            /\ ~Invalidate(p) /\ ~VerifyFails(p) /\ ~InvalidateAll(p)
          BY <2>1
        <5>1. ~Find(p, x)
          BY DEF Find
        <5>2. ~Miss(p, x) /\ ~InvalidateKey(p, x)
          BY DEF Miss, InvalidateKey
        <5>3. ~Invalidate(p) /\ ~VerifyFails(p)
          BY DEF Invalidate, VerifyFails
        <5>4. ~InvalidateAll(p)
          <6>1. InvalidateAll(p) => told' = [op |-> "remove all"]
            BY DEF InvalidateAll
          <6>2. [op |-> "remove all"].op = "remove all"
            OBVIOUS
          <6>3. "remove all" # "set"
            OBVIOUS
          <6> QED
            BY <6>1, <6>2, <6>3
        <5> QED
          BY <5>1, <5>2, <5>3, <5>4
      <4>2. told' # Calm
        BY DEF Calm
      <4>3. \A p \in Asker :
              /\ ~ReadRecord(p) /\ ~VerifySucceeds(p)
              /\ \A x \in StoredKey : ~WriteRecord(p, x)
              /\ \A X \in Prefix : ~InvalidatePrefix(p, X)
        BY <4>2 DEF ReadRecord, VerifySucceeds, WriteRecord, InvalidatePrefix
      <4>4. ~CleanupOver /\ ~CloseQueryCache /\ ~TimeMoves
        BY <4>2 DEF CleanupOver, CloseQueryCache, TimeMoves
      <4> QED
        BY <4>1, <4>3, <4>4 DEF QueryNext
    <3>2. CASE Fill(p)
      BY <3>2 DEF Fill
    <3>3. CASE \E x \in ResultKey, v \in Datum : CacheResult(p, x, v)
      BY <3>3 DEF CacheResult
    <3> QED
      BY <3>1, <3>2, <3>3
  <2>3. k \in S
    BY <2>1, <2>2 DEF Replace
  <2>4. k \in LeastUsed
    <3>1. S = {} \/ \E u \in LeastUsed : S = {u}
      <4>1. CASE x \in Present \/ Cardinality(Present) < Room
        BY <2>2, <4>1 DEF Evicted
      <4>2. CASE ~(x \in Present \/ Cardinality(Present) < Room)
        BY <2>2, <4>2 DEF Evicted
      <4> QED
        BY <4>1, <4>2
    <3> QED
      BY <2>3, <3>1
  <2> QED
    BY <1>1, <2>4 DEF LeastUsed, QueryIInv, UsedIsTouched
<1> QED
  BY <1>1, QueryCacheInductive, PTL DEF QuerySpec, RecentlyUsedStays

\* What callers are shown of an entry.
ShownOf(e) == IF e = Nothing THEN Nothing ELSE [value |-> e.value, until |-> e.until]

LEMMA QueryShown ==
  ASSUME QueryIInv
  PROVE  /\ Shown = [k \in Key |-> ShownOf(cached[k])]
         /\ \A k \in Key : /\ Shown[k] = Nothing <=> cached[k] = Nothing
                           /\ k \in Present => /\ Shown[k].value = cached[k].value
                                               /\ AbstractQuery!Live(k) <=> ~Over(k)
         /\ \A v \in Datum : ShownOf(NewCell(v)) = AbstractQuery!Fresh(v)
         /\ ShownOf(Nothing) = Nothing
<1>0. cached \in [Key -> Cell \cup {Nothing}] /\ time \in Nat
  BY QueryTypes
<1>1. Shown = [k \in Key |-> ShownOf(cached[k])]
  BY DEF Shown, ShownOf
<1>2. \A e \in Cell : /\ e # Nothing
                      /\ ShownOf(e) = [value |-> e.value, until |-> e.until]
                      /\ ShownOf(e) # Nothing
  BY QueryAssumption DEF Cell, ShownOf
<1>3. \A v \in Datum : ShownOf(NewCell(v)) = AbstractQuery!Fresh(v)
  <2>1. \A v \in Datum : NewCell(v) \in Cell
    BY <1>0, QueryAssumption DEF NewCell, Cell
  <2> QED
    BY <1>2, <2>1 DEF NewCell, AbstractQuery!Fresh
<1>4. \A k \in Key : /\ Shown[k] = Nothing <=> cached[k] = Nothing
                     /\ k \in Present => /\ Shown[k].value = cached[k].value
                                         /\ AbstractQuery!Live(k) <=> ~Over(k)
  <2> SUFFICES ASSUME NEW k \in Key
               PROVE  /\ Shown[k] = Nothing <=> cached[k] = Nothing
                      /\ k \in Present => /\ Shown[k].value = cached[k].value
                                          /\ AbstractQuery!Live(k) <=> ~Over(k)
    OBVIOUS
  <2>1. Shown[k] = ShownOf(cached[k])
    BY <1>1
  <2>2. CASE cached[k] = Nothing
    BY <2>1, <2>2 DEF ShownOf, Present
  <2>3. CASE cached[k] \in Cell
    <3>1. cached[k].until \in Nat
      BY <2>3 DEF Cell
    <3> QED
      BY <1>0, <1>2, <2>1, <2>3, <3>1 DEF AbstractQuery!Live, Over
  <2> QED
    BY <1>0, <2>2, <2>3
<1> QED
  BY <1>1, <1>3, <1>4 DEF ShownOf

\* Every step of the query cache is a step of the abstract one.
LEMMA QueryStepRefines ==
  ASSUME QueryIInv, [QueryNext]_queryVars
  PROVE  [AbstractQuery!Next]_(AbstractQuery!vars)
<1>0. /\ Shown' = [k \in Key |-> ShownOf(cached'[k])]
      /\ cached \in [Key -> Cell \cup {Nothing}] /\ StoredKey \subseteq Key
  BY QueryTypes DEF Shown, ShownOf
<1>1. ASSUME UNCHANGED cached
      PROVE  Shown' = Shown
  BY <1>1 DEF Shown
<1>2. ASSUME NEW S, Drop(S)
      PROVE  Shown' = [k \in Key |-> IF k \in S THEN Nothing ELSE Shown[k]]
  <2>1. \A k \in Key : cached'[k] = IF k \in S THEN Nothing ELSE cached[k]
    BY <1>2 DEF Drop
  <2> QED
    BY <1>0, <2>1, QueryShown
<1>3. ASSUME NEW k \in Key, Drop({k}), time' = time, told' = [op |-> "remove", user |-> k]
      PROVE  AbstractQuery!Remove(k)
  <2>1. Shown' = [w \in Key |-> IF w \in {k} THEN Nothing ELSE Shown[w]]
    BY <1>2, <1>3
  <2>2. Shown' = [Shown EXCEPT ![k] = Nothing]
    BY <2>1 DEF Shown
  <2> QED
    BY <1>3, <2>2 DEF AbstractQuery!Remove
<1>4. ASSUME NEW S \in SUBSET Key, Drop(S), time' = time, told' = Calm
      PROVE  AbstractQuery!Lose(S)
  BY <1>2, <1>4 DEF AbstractQuery!Lose, AbstractQuery!Quiet, Calm
<1>5. ASSUME UNCHANGED <<cached, time>>, told' = Calm
      PROVE  AbstractQuery!Lose({})
  <2>1. Shown' = [k \in Key |-> IF k \in {} THEN Nothing ELSE Shown[k]]
    BY <1>1, <1>5 DEF Shown
  <2> QED
    BY <1>5, <2>1 DEF AbstractQuery!Lose, AbstractQuery!Quiet, Calm
<1>6. ASSUME NEW p \in Asker, NEW k \in Key, Find(p, k)
      PROVE  AbstractQuery!Hit(k)
  <2>1. /\ k \in Present /\ ~Over(k) /\ cached' = [cached EXCEPT ![k].used = time]
        /\ told' = [op |-> "hit", user |-> k, value |-> cached[k].value] /\ time' = time
    BY <1>6 DEF Find
  <2>2. cached[k] \in Cell /\ cached[k] # Nothing
    BY <2>1, QueryTypes DEF Present
  <2> DEFINE n == [cached[k] EXCEPT !.used = time]
  <2>3. n \in Cell /\ n.value = cached[k].value /\ n.until = cached[k].until
    BY <2>2, QueryTypes DEF Cell
  <2>4. n # Nothing
    BY <2>3, QueryAssumption DEF Cell
  <2>5. \A w \in Key : cached'[w] = IF w = k THEN n ELSE cached[w]
    BY <1>0, <2>1
  <2> HIDE DEF n
  <2>6. \A w \in Key : ShownOf(cached'[w]) = ShownOf(cached[w])
    BY <2>2, <2>3, <2>4, <2>5 DEF ShownOf
  <2>7. Shown' = Shown
    BY <1>0, <2>6, QueryShown
  <2> QED
    BY <2>1, <2>7, QueryShown DEF AbstractQuery!Hit
<1>7. ASSUME NEW p \in Asker, NEW k \in Key, Miss(p, k)
      PROVE  AbstractQuery!Miss(k)
  <2>1. Drop({k}) /\ time' = time /\ told' = [op |-> "miss", user |-> k]
    BY <1>7 DEF Miss
  <2>2. Shown' = [w \in Key |-> IF w \in {k} THEN Nothing ELSE Shown[w]]
    BY <1>2, <2>1
  <2>3. Shown' = [Shown EXCEPT ![k] = Nothing]
    BY <2>2 DEF Shown
  <2> QED
    BY <2>1, <2>3 DEF AbstractQuery!Miss
<1>8. ASSUME NEW k \in Key, NEW v \in Datum, NEW S \in Evicted(k), Replace(S, k, v), time' = time,
             told' = [op |-> "set", user |-> k, value |-> v]
      PROVE  AbstractQuery!Set(k, v)
  <2>1. \A w \in Key : cached'[w] = IF w = k THEN NewCell(v) ELSE IF w \in S THEN Nothing ELSE cached[w]
    BY <1>8 DEF Replace
  <2>2. Shown'[k] = AbstractQuery!Fresh(v)
    BY <1>0, <2>1, QueryShown
  <2>3. \A w \in Key \ {k} : Shown'[w] = Shown[w] \/ Shown'[w] = Nothing
    BY <1>0, <2>1, QueryShown
  <2>4. \A w \in Key : Shown'[w] \in {Shown[x] : x \in Key} \cup {Nothing, AbstractQuery!Fresh(v)}
    BY <2>2, <2>3
  <2>5. Shown' \in [Key -> {Shown[x] : x \in Key} \cup {Nothing, AbstractQuery!Fresh(v)}]
    BY <1>0, <2>4
  <2>6. AbstractQuery!OthersKeep({k})
    BY <2>3 DEF AbstractQuery!OthersKeep
  <2> QED
    BY <1>8, <2>2, <2>5, <2>6 DEF AbstractQuery!Set
<1>9. ASSUME NEW p \in Asker, Fill(p)
      PROVE  AbstractQuery!Set(ask[p].key, ask[p].value) /\ ask[p].key \in Key /\ ask[p].value \in Datum
  <2>1. ask[p].key \in Key /\ ask[p].value \in Datum
    BY <1>0, <1>9, QueryTypes DEF Fill, AskOK
  <2> QED
    BY <1>8, <1>9, <2>1 DEF Fill
<1>10. ASSUME NEW p \in Asker, NEW k \in ResultKey, NEW v \in Datum, CacheResult(p, k, v)
       PROVE  AbstractQuery!Set(k, v) /\ k \in Key
  BY <1>8, <1>10 DEF CacheResult, Key
<1>11. ASSUME NEW p \in Asker, Invalidate(p) \/ VerifyFails(p)
       PROVE  AbstractQuery!Remove(ask[p].key) /\ ask[p].key \in Key
  <2>1. ask[p].key \in Key
    BY <1>0, <1>11, QueryTypes DEF Invalidate, VerifyFails, AskOK
  <2> QED
    BY <1>3, <1>11, <2>1 DEF Invalidate, VerifyFails
<1>12. ASSUME NEW p \in Asker, NEW k \in Key, InvalidateKey(p, k)
       PROVE  AbstractQuery!Remove(k)
  BY <1>3, <1>12 DEF InvalidateKey
<1>13. ASSUME NEW p \in Asker, NEW S \in Prefix, InvalidatePrefix(p, S)
       PROVE  AbstractQuery!Lose(S) /\ S \in SUBSET Key
  BY <1>4, <1>13, QueryAssumption DEF InvalidatePrefix
<1>14. ASSUME NEW p \in Asker, InvalidateAll(p)
       PROVE  AbstractQuery!RemoveAll
  <2>1. Drop(Key) /\ told' = [op |-> "remove all"] /\ time' = time
    BY <1>14 DEF InvalidateAll
  <2>2. Shown' = [w \in Key |-> Nothing]
    BY <1>2, <2>1
  <2> QED
    BY <2>1, <2>2 DEF AbstractQuery!RemoveAll
<1>15. ASSUME CleanupOver
       PROVE  \E S \in SUBSET Key : AbstractQuery!Lose(S)
  <2> DEFINE S == {k \in Present : Over(k)}
  <2>1. S \in SUBSET Key /\ Drop(S) /\ told' = Calm /\ time' = time
    BY <1>15 DEF CleanupOver, Present
  <2> QED
    BY <1>4, <2>1
<1>16. ASSUME TimeMoves
       PROVE  AbstractQuery!Tick
  BY <1>1, <1>16 DEF TimeMoves, AbstractQuery!Tick, AbstractQuery!Quiet, Calm
<1>17. ASSUME UNCHANGED queryVars
       PROVE  UNCHANGED AbstractQuery!vars
  BY <1>1, <1>17 DEF queryVars, AbstractQuery!vars
<1>18. ASSUME NEW p \in Asker,
              ReadRecord(p) \/ VerifySucceeds(p) \/ (\E k \in StoredKey : WriteRecord(p, k))
       PROVE  AbstractQuery!Lose({})
  BY <1>5, <1>18 DEF ReadRecord, VerifySucceeds, WriteRecord
<1>19. ASSUME CloseQueryCache
       PROVE  AbstractQuery!Lose({})
  BY <1>5, <1>19 DEF CloseQueryCache
<1> QED
  BY <1>6, <1>7, <1>9, <1>10, <1>11, <1>12, <1>13, <1>14, <1>15, <1>16, <1>17, <1>18, <1>19
  DEF QueryNext, AbstractQuery!Next

\* The query cache implements AbstractCache: its callers may rely on the map
\* with a time to live that also forgets early (queryResultCache).
THEOREM QueryCacheImplements == QuerySpec => QueryImplementsAbstract
<1>1. QueryInit => AbstractQuery!Init
  BY DEF QueryInit, Shown, Calm, AbstractQuery!Init, AbstractQuery!Quiet
<1>2. QueryIInv /\ [QueryNext]_queryVars => [AbstractQuery!Next]_(AbstractQuery!vars)
  BY QueryStepRefines
<1> QED
  BY <1>1, <1>2, QueryCacheInductive, PTL DEF QuerySpec, QueryImplementsAbstract, AbstractQuery!Spec
=============================================================================
