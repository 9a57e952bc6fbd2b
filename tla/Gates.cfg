\* Two requests that write the flags, one creation, two pools, two moments.
\* Two requests of two addresses, a burst of two, and one cleanup, which leaves
\* four buckets to be made.
SPECIFICATION GatesSpec
CONSTANTS
  Operator = {o1, o2}
  Creator = {k1}
  Region = {east, west}
  Default = default
  NoRegion = none
  MaxTime = 2
  Sender = {s1, s2}
  Address = {a1, a2}
  Path <- Paths
  Bucket = {1, 2, 3, 4}
  NoBucket = NoBucket
  NoAddress = NoAddress
  NoPath = NoPath
  Burst = 2
  Rate = 1
  MaxKeys = 1
  LastTick = 1
  LastEpoch = 1
SYMMETRY Symmetry
INVARIANTS DegradationInv HealthyRegionServed DownRegionRefused RateInv 
PROPERTIES SinceIsTheBeginning
