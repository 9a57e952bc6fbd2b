\* Two callers, two users, a credential cache that is full with one entry; two
\* requests, one record, two results, a query cache that is full with two entries.
SPECIFICATION CachesSpec
CONSTANTS
  Thread = {t1, t2}
  User = {u1, u2}
  v1 = v1
  v2 = v2
  Value = {v1, v2}
  RoleOf <- TwoRoles
  TTL = 1
  MaxSize = 1
  MaxTime = 4
  None = None
  Asker = {p1, p2}
  StoredKey = {k1}
  ResultKey = {q1, q2}
  Prefix <- Prefixes
  Datum = {d1, d2}
  KeepFor = 1
  Room = 2
  LastTime = 2
  Nothing = Nothing
INVARIANTS QueryInv
PROPERTIES ImplementsAbstract LiveEntriesStay ExpiredLeave QueryImplementsAbstract RecentlyUsedStays
