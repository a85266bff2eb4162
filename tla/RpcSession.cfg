CONSTANTS
  S1 = s1
  S2 = s2
  T1 = t1
  T2 = t2
  Sessions <- TwoSessions
  Tasks <- TwoTasks
  Home <- HomeOf
  MaxRecords = 1
SPECIFICATION LogsSpec
INVARIANT TypeOK
INVARIANT ExecutesInOpenSession
INVARIANT LeaksHaveCause
PROPERTY RefusedOnlyEarly
PROPERTY CallsReturn
INVARIANT LogsKept
PROPERTY RecordsArrive
CHECK_DEADLOCK FALSE
