CONSTANTS
  T1 = t1
  T2 = t2
  S1 = s1
  Tasks <- TwoTasks
  Sessions <- OneSession
  Home <- HomeOf
  Parts <- NamesOf
  Path <- PathOf
  Listeners = 1
SPECIFICATION TreeSpec
INVARIANT LatestIsFinal
CHECK_DEADLOCK FALSE
