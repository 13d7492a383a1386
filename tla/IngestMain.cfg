\* A keyed event and an unkeyed one that workflow params reject, on both kinds of database.
CONSTANTS
  Events = {e1, e2}
  Keyed = {e1}
  Malformed = {e2}
  Targets = {t1}
  Endpoints = {p1}
  Workflows = {w1}
  Strict = {w1}
  Requests = {r1, r2}
  Drivers = {"sqlx", "d1"}
  MaxDisturbances = 2
  RowCap = 2
SPECIFICATION FairSpec
INVARIANTS AckedIsPersisted AtMostOnce RefusalIsExplained
PROPERTIES AckedIsCompleted EventuallyAcked
