------------------------------- MODULE Webhook -------------------------------
(***************************************************************************)
(* Notifications: src/webhook/webhook.go and webhook/config                *)
(* (src/plugin/path_webhook.go).                                           *)
(*                                                                         *)
(* A handler that has changed something sends one notification before it   *)
(* answers: it reads the configuration once, posts, and posts again as     *)
(* retry.Do says.  The receiver may have taken a post whose answer is lost *)
(* (a timeout, a 5xx).  Payloads and the waits between two posts, which    *)
(* decide nothing, are left out.                                           *)
(***************************************************************************)
EXTENDS Integers

CONSTANTS
  Notice,         \* notifications
  EventType,      \* what they are about
  RetryCount,     \* values of retry_count an administrator gives
  DefaultRetries, \* 3
  NoHook          \* nothing is stored

ASSUME WebhookAssumption ==
  /\ RetryCount \subseteq Int
  /\ DefaultRetries \in Nat \ {0}
  /\ NoHook \notin [enabled: {"yes", "no"}, retries: Nat, events: SUBSET EventType]

VARIABLES
  hook,   \* webhook/config: a Hook or NoHook
  notice  \* [Notice -> the state of its SendWebhook]

hookVars == <<hook, notice>>

Hook == [enabled: {"yes", "no"}, retries: Nat, events: SUBSET EventType]

\* wanted: the configuration this one read asks for the event.  tries: attempts
\* of retry.Do, of which attempt is the next.  context: of the request.
\* posts, got, lost: histories: posts made, taken by the receiver, and taken
\* although the sender saw a failure.
NoticeState ==
  [pc: {"start", "attempt", "done"}, wanted: {"unknown", "yes", "no"}, tries: Nat, attempt: Nat,
   context: {"live", "cancelled"}, answer: {"none", "nil", "error"}, posts: Nat, got: Nat, lost: Nat]

Unsent ==
  [pc |-> "start", wanted |-> "unknown", tries |-> 0, attempt |-> 1,
   context |-> "live", answer |-> "none", posts |-> 0, got |-> 0, lost |-> 0]

WebhookInit ==
  /\ hook = NoHook
  /\ notice = [n \in Notice |-> Unsent]

-----------------------------------------------------------------------------
(* webhook/config *)

\* pathWebhookWrite: the whole configuration is replaced; a negative count is 0.
WriteHook(enabled, retries, events) ==
  /\ hook' = [enabled |-> enabled, retries |-> IF retries < 0 THEN 0 ELSE retries, events |-> events]
  /\ UNCHANGED notice

\* pathWebhookDelete: back to the default, which is not enabled.
DeleteHook ==
  /\ hook' = NoHook
  /\ UNCHANGED notice

-----------------------------------------------------------------------------
(* SendWebhook *)

\* IsEventEnabled
Wants(event) == hook # NoHook /\ hook.enabled = "yes" /\ event \in hook.events

\* Mutation of Tries: a stored count of 0 is taken as it is.
TriesAsStored == hook.retries

\* A count of 0 means the default; the count is that of all attempts.
Tries == IF hook.retries > 0 THEN hook.retries ELSE DefaultRetries

NoticeBecomes(n, f) == notice' = [notice EXCEPT ![n] = f]

\* The call of notice n ends with this answer.
NoticeEnds(n, answer) == NoticeBecomes(n, [notice[n] EXCEPT !.pc = "done", !.answer = answer])

\* GetWebhookConfig, and what it decides.
ReadHook(n, event) ==
  /\ notice[n].pc = "start"
  /\ \/ NoticeEnds(n, "error")     \* storage fails
     \/ /\ ~Wants(event)
        /\ NoticeBecomes(n, [notice[n] EXCEPT !.pc = "done", !.answer = "nil", !.wanted = "no"])
     \/ /\ Wants(event)
        /\ NoticeBecomes(n, [notice[n] EXCEPT !.pc = "attempt", !.wanted = "yes", !.tries = Tries])
  /\ UNCHANGED hook

\* retry.Do sees before an attempt that the context has ended, or its wait ends
\* with it; SendWebhook then returns the error of the last attempt, if any.
GiveUp(n) ==
  /\ notice[n].pc = "attempt"
  /\ notice[n].context = "cancelled"
  /\ NoticeEnds(n, IF notice[n].posts = 0 THEN "nil" ELSE "error")
  /\ UNCHANGED hook

\* What becomes of a post the sender sees fail: the receiver may have it.
Failed(n) == {[notice[n] EXCEPT !.posts = @ + 1, !.got = @ + m, !.lost = @ + m] : m \in {0, 1}}

\* A 2xx answer.
PostAccepted(n) ==
  /\ notice[n].pc = "attempt"
  /\ notice[n].context = "live"
  /\ NoticeBecomes(n, [notice[n] EXCEPT !.posts = @ + 1, !.got = @ + 1,
                                        !.pc = "done", !.answer = "nil"])
  /\ UNCHANGED hook

\* Mutation of PostFails: the last attempt's error is taken for success.
PostFailsQuietly(n) ==
  /\ notice[n].pc = "attempt"
  /\ notice[n].context = "live"
  /\ \E f \in Failed(n) :
       NoticeBecomes(n, IF f.attempt < f.tries THEN [f EXCEPT !.attempt = @ + 1]
                        ELSE [f EXCEPT !.pc = "done", !.answer = "nil"])
  /\ UNCHANGED hook

\* No answer, or a 5xx: another attempt, or the last one's error.  A context that
\* ends during the post is such a failure.
PostFails(n) ==
  /\ notice[n].pc = "attempt"
  /\ notice[n].context = "live"
  /\ \E f \in Failed(n) :
       NoticeBecomes(n, IF f.attempt < f.tries THEN [f EXCEPT !.attempt = @ + 1]
                        ELSE [f EXCEPT !.pc = "done", !.answer = "error"])
  /\ UNCHANGED hook

\* Any other status, or a URL that is none: the error ends the call.
PostRefused(n) ==
  /\ notice[n].pc = "attempt"
  /\ notice[n].context = "live"
  /\ NoticeBecomes(n, [notice[n] EXCEPT !.posts = @ + 1, !.pc = "done", !.answer = "error"])
  /\ UNCHANGED hook

\* The context of the request ends.
CancelNotice(n) ==
  /\ notice[n].pc # "done"
  /\ notice[n].context = "live"
  /\ NoticeBecomes(n, [notice[n] EXCEPT !.context = "cancelled"])
  /\ UNCHANGED hook

WebhookNext ==
  \/ \E enabled \in {"yes", "no"}, r \in RetryCount, events \in SUBSET EventType :
       WriteHook(enabled, r, events)
  \/ DeleteHook
  \/ \E n \in Notice :
       \/ \E event \in EventType : ReadHook(n, event)
       \/ GiveUp(n) \/ PostAccepted(n) \/ PostFails(n) \/ PostRefused(n) \/ CancelNotice(n)

WebhookSpec == WebhookInit /\ [][WebhookNext]_hookVars

-----------------------------------------------------------------------------
(* What holds of the code *)

WebhookTypeOK ==
  /\ hook \in Hook \cup {NoHook}
  /\ notice \in [Notice -> NoticeState]

\* A notification that is wanted has at least one attempt, whatever is stored,
\* and never more posts than attempts, whatever fails and whoever reconfigures.
PostsBounded(f) ==
  /\ f.wanted = "yes" => f.tries > 0
  /\ f.pc = "attempt" => f.wanted = "yes" /\ f.answer = "none" /\ f.attempt = f.posts + 1
  /\ f.posts <= f.tries

\* The receiver takes a notification a second time only after an answer of its
\* own was lost; at most one of its answers reaches the sender.
DuplicatesAreLostAnswers(f) == f.got <= f.lost + 1 /\ (f.answer # "nil" => f.got = f.lost)

\* No error is returned only when the receiver has the notification, or nobody
\* asked for it, or (the error is dropped) the request was cancelled before its
\* first post.
NilMeansDelivered(f) ==
  f.answer = "nil" => \/ f.got > 0
                      \/ f.wanted = "no"
                      \/ f.posts = 0 /\ f.context = "cancelled"

\* What the sender of a notification and its receiver know of each other.
WebhookInv ==
  /\ WebhookTypeOK
  /\ \A n \in Notice : /\ PostsBounded(notice[n])
                       /\ DuplicatesAreLostAnswers(notice[n])
                       /\ NilMeansDelivered(notice[n])
=============================================================================
