CONSTANTS
  S1 = s1
  S2 = s2
  T1 = t1
  T2 = t2
  Sessions <- TwoSessions
  Tasks <- TwoTasks
  Home <- HomeOf
  MaxRecords = 0
SPECIFICATION LogsSpec
INVARIANT CloseFrees
CHECK_DEADLOCK FALSE
