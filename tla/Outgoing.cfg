\* Three attempts of two connection tries and two passes; the second statement
\* of a text may be repeated, its first and third may not.  Two users of a
\* connection that is kept alive three times.  One notification: two share
\* only what they read once.
\* A call ends and nothing follows it; StopKeepAlive may wait for ever.
CHECK_DEADLOCK FALSE
SPECIFICATION OutgoingSpec
CONSTANTS
  Text <- MCText
  Repeatable = {2}
  MaxAttempts = 3
  ConnectTries = 2
  MaxPasses = 2
  Caller = {c1, c2}
  Nobody = Nobody
  MaxStarts = 3
  Notice = {m1}
  EventType = {e1, e2}
  RetryCount <- RetryCounts
  DefaultRetries = 3
  NoHook = NoHook
INVARIANTS SplitKeepsLines TakenInOrder KeepAliveInv WebhookInv
PROPERTIES ImplementsCall CallEnds StopReturnsUnlessTicking
