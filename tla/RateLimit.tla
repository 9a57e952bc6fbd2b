------------------------------ MODULE RateLimit ------------------------------
(***************************************************************************)
(* The way of a request to its handler: Backend.HandleRequest, the rate    *)
(* limiter (src/plugin/ratelimit.go, path_rate_limit.go) and the routes.   *)
(*                                                                         *)
(* Each client has a token bucket.  getLimiter looks for it under a read   *)
(* lock, makes it under a write lock, and the token is taken outside both: *)
(* the cleanup, which throws all buckets away, can come in between.        *)
(***************************************************************************)
EXTENDS Routing, FiniteSets

CONSTANTS
  Sender,     \* requests the plugin serves concurrently
  Address,     \* client addresses, the keys of the limiter
  Path,       \* paths the clients ask for
  Bucket,     \* rate.Limiter objects
  NoBucket,
  NoAddress,
  NoPath,
  Burst,      \* 50 in the backend
  Rate,       \* tokens a bucket gains in one unit of time: 100 per second
  MaxKeys,    \* 1000: the cleanup spares a map that is not larger
  LastTick,   \* bound on the clock
  LastEpoch   \* bound on the cleanups

ASSUME RateAssumption ==
  /\ Burst \in Nat \ {0}
  /\ Rate \in Nat \ {0}
  /\ MaxKeys \in Nat
  /\ LastTick \in Nat
  /\ LastEpoch \in Nat
  /\ NoBucket \notin Bucket
  /\ NoAddress \notin Address
  /\ NoPath \notin Path

VARIABLES
  limiting,  \* RateLimiterMiddleware.enabled: "on" or "off"; no lock protects it
  limiters,  \* [Address -> Bucket or NoBucket]: the map
  bucket,    \* [Bucket -> its state]
  call,      \* [Sender -> where its request is]
  epoch,     \* how often the map was thrown away
  ticks      \* the clock

rateVars == <<limiting, limiters, bucket, call, epoch, ticks>>

\* A bucket: whose it is, its tokens at its last admission, and (history) when
\* and in which epoch it was made and how many requests it admitted.
BucketState == [client: Address \cup {NoAddress}, tokens: Nat, last: Nat,
                born: Nat, epoch: Nat, admitted: Nat]
Unused == [client |-> NoAddress, tokens |-> 0, last |-> 0, born |-> 0, epoch |-> 0,
           admitted |-> 0]

\* paid: did the request pass the limiter with a token, as an exempt path, or
\* because the limiter was off; at: when it was answered.
CallFrame == [pc: {"idle", "lookup", "create", "allow", "dispatch", "refused"},
              client: Address \cup {NoAddress}, path: Path \cup {NoPath},
              bucket: Bucket \cup {NoBucket},
              paid: {"open", "token", "exempt", "off"}, at: Nat]
NoCall == [pc |-> "idle", client |-> NoAddress, path |-> NoPath, bucket |-> NoBucket,
           paid |-> "open", at |-> 0]

InUse == {b \in Bucket : bucket[b].client # NoAddress}

RateInit ==
  /\ limiting = "on"
  /\ limiters = [c \in Address |-> NoBucket]
  /\ bucket = [b \in Bucket |-> Unused]
  /\ call = [s \in Sender |-> NoCall]
  /\ epoch = 0
  /\ ticks = 0

-----------------------------------------------------------------------------
(* RateLimit *)

\* First segments that begin with an excluded prefix; "healthz" stands for those
\* that go on after it.
ExcludedPrefix == {"health", "healthz", "version", "api-version", "pool-stats"}

\* Mutation of IsExcluded: a prefix counts wherever it stands in the path.
IsExcludedAnywhere(path) == \E i \in DOMAIN path : path[i] \in ExcludedPrefix

IsExcluded(path) == path[1] \in ExcludedPrefix

Arrive(s, c, path) ==
  /\ call[s].pc = "idle"
  /\ call' = [call EXCEPT ![s] =
       [NoCall EXCEPT !.client = c, !.path = path,
          !.pc = IF limiting = "off" \/ IsExcluded(path) THEN "dispatch" ELSE "lookup",
          !.paid = IF limiting = "off" THEN "off"
                   ELSE IF IsExcluded(path) THEN "exempt" ELSE "open"]]
  /\ UNCHANGED <<limiting, limiters, bucket, epoch, ticks>>

\* getLimiter under the read lock ...
Lookup(s) ==
  LET found == limiters[call[s].client]
  IN
  /\ call[s].pc = "lookup"
  /\ call' = [call EXCEPT ![s].bucket = found,
                          ![s].pc = IF found = NoBucket THEN "create" ELSE "allow"]
  /\ UNCHANGED <<limiting, limiters, bucket, epoch, ticks>>

\* rate.NewLimiter: a full bucket.
NewBucket(c) == [client |-> c, tokens |-> Burst, last |-> ticks, born |-> ticks,
                 epoch |-> epoch, admitted |-> 0]

\* An object nobody has; which one makes no difference.
Fresh == CHOOSE b \in Bucket : b \notin InUse

AddBucket(s) ==
  /\ InUse # Bucket
  /\ bucket' = [bucket EXCEPT ![Fresh] = NewBucket(call[s].client)]
  /\ limiters' = [limiters EXCEPT ![call[s].client] = Fresh]
  /\ call' = [call EXCEPT ![s].bucket = Fresh, ![s].pc = "allow"]

\* Mutation of Create: the map is not looked at again under the write lock.
CreateUnchecked(s) ==
  /\ call[s].pc = "create"
  /\ AddBucket(s)
  /\ UNCHANGED <<limiting, epoch, ticks>>

\* ... and under the write lock, where another request may have been first.
Create(s) ==
  LET found == limiters[call[s].client]
  IN
  /\ call[s].pc = "create"
  /\ \/ /\ found = NoBucket
        /\ AddBucket(s)
     \/ /\ found # NoBucket
        /\ call' = [call EXCEPT ![s].bucket = found, ![s].pc = "allow"]
        /\ UNCHANGED <<limiters, bucket>>
  /\ UNCHANGED <<limiting, epoch, ticks>>

\* What a bucket holds now.
Filled(b) ==
  LET tokens == bucket[b].tokens + Rate * (ticks - bucket[b].last)
  IN  IF tokens > Burst THEN Burst ELSE tokens

\* Limiter.Allow: outside the lock, on the bucket found before.
Admit(s) ==
  LET b == call[s].bucket
  IN
  /\ call[s].pc = "allow"
  /\ Filled(b) > 0
  /\ bucket' = [bucket EXCEPT ![b].tokens = Filled(b) - 1, ![b].last = ticks,
                              ![b].admitted = @ + 1]
  /\ call' = [call EXCEPT ![s].pc = "dispatch", ![s].paid = "token"]
  /\ UNCHANGED <<limiting, limiters, epoch, ticks>>

Refuse(s) ==
  LET b == call[s].bucket
  IN
  /\ call[s].pc = "allow"
  /\ Filled(b) = 0
  /\ call' = [call EXCEPT ![s].pc = "refused", ![s].at = ticks]
  /\ UNCHANGED <<limiting, limiters, bucket, epoch, ticks>>

-----------------------------------------------------------------------------
(* The handler, the cleanup and the clock *)

\* The handler runs and the request is answered.  pathRateLimitConfigWrite takes
\* over `enabled` if it is given, and ignores the rate and the burst.
Dispatch(s) ==
  /\ call[s].pc = "dispatch"
  /\ \/ /\ HandlerOf(call[s].path) = "pathRateLimitConfig"
        /\ limiting' \in {"on", "off"}
     \/ limiting' = limiting
  /\ call' = [call EXCEPT ![s] = NoCall]
  /\ UNCHANGED <<limiters, bucket, epoch, ticks>>

AnswerRefused(s) ==
  /\ call[s].pc = "refused"
  /\ call' = [call EXCEPT ![s] = NoCall]
  /\ UNCHANGED <<limiting, limiters, bucket, epoch, ticks>>

Mapped == {c \in Address : limiters[c] # NoBucket}

\* cleanupExpired: with more than MaxKeys buckets, all of them go.
ThrowAway ==
  /\ epoch < LastEpoch
  /\ \E S \in SUBSET Mapped : Cardinality(S) = MaxKeys + 1
  /\ limiters' = [c \in Address |-> NoBucket]
  /\ epoch' = epoch + 1
  /\ UNCHANGED <<limiting, bucket, call, ticks>>

TimePasses ==
  /\ ticks < LastTick
  /\ ticks' = ticks + 1
  /\ UNCHANGED <<limiting, limiters, bucket, call, epoch>>

CallGoes(s) ==
  \/ Lookup(s) \/ Create(s) \/ Admit(s) \/ Refuse(s) \/ Dispatch(s) \/ AnswerRefused(s)

RateNext ==
  \/ \E s \in Sender : CallGoes(s) \/ \E c \in Address, path \in Path : Arrive(s, c, path)
  \/ ThrowAway
  \/ TimePasses

RateSpec == RateInit /\ [][RateNext]_rateVars

-----------------------------------------------------------------------------
(* What holds of the code *)

RateTypeOK ==
  /\ limiting \in {"on", "off"}
  /\ limiters \in [Address -> Bucket \cup {NoBucket}]
  /\ bucket \in [Bucket -> BucketState]
  /\ call \in [Sender -> CallFrame]
  /\ epoch \in Nat
  /\ ticks \in Nat

\* A request whose token is due, or was refused one, has a bucket of its client.
OwnBucket ==
  \A s \in Sender : call[s].pc \in {"allow", "refused"} =>
    /\ call[s].bucket \in InUse
    /\ bucket[call[s].bucket].client = call[s].client

\* The map names buckets of the present epoch, each client its own.
MappedIsOwn ==
  \A c \in Address : limiters[c] # NoBucket =>
    /\ bucket[limiters[c]].client = c
    /\ bucket[limiters[c]].epoch = epoch

\* Between two cleanups a client has one bucket, however many of its first
\* requests come at once: another bucket would be another burst.
OneBucketPerEpoch ==
  \A a, b \in InUse :
    bucket[a].client = bucket[b].client /\ bucket[a].epoch = bucket[b].epoch => a = b

\* A bucket admits a burst and the rate since it was made, no more, whichever
\* requests use it and even after the map has forgotten it.
WithinBudget ==
  \A b \in InUse :
    /\ bucket[b].born <= bucket[b].last /\ bucket[b].last <= ticks
    /\ bucket[b].tokens <= Burst
    /\ bucket[b].admitted + bucket[b].tokens
         <= Burst + Rate * (bucket[b].last - bucket[b].born)

\* Nobody is refused who has not used up a whole burst, and used a token in the
\* very unit of time of the refusal: being refused costs nothing.
RefusedHasSpent ==
  \A s \in Sender : call[s].pc = "refused" =>
    /\ bucket[call[s].bucket].admitted >= Burst
    /\ bucket[call[s].bucket].last >= call[s].at
    /\ call[s].at <= ticks

\* What the refusals rest on: tokens leave a bucket by admissions only.
NoTokenLost ==
  /\ \A b \in InUse : bucket[b].admitted + bucket[b].tokens >= Burst
  /\ \A b \in InUse : bucket[b].epoch <= epoch
  /\ \A b \in InUse :
       bucket[b].epoch = epoch => limiters[bucket[b].client] = b

\* The limiter keeps its promise to the plugin (one bucket, within budget) and to
\* the client (refused only when spent) through races on the map and cleanups.
RateInv ==
  /\ RateTypeOK /\ OwnBucket /\ MappedIsOwn /\ OneBucketPerEpoch
  /\ WithinBudget /\ NoTokenLost /\ RefusedHasSpent

\* The handlers behind the excluded prefixes, which read and report.
Reporting == {"pathHealth", "pathVersion", "pathAPIVersion", "pathPoolStats", NoRoute}

\* While the limiter was on, no request got past it without a token to a handler
\* that does more than report, whatever its path contains.
ExemptIsHarmless ==
  \A s \in Sender :
    call[s].pc = "dispatch" /\ call[s].paid = "exempt"
      => HandlerOf(call[s].path) \in Reporting
=============================================================================
