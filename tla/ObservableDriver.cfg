CONSTANTS
  T1 = t1
  T2 = t2
  S1 = s1
  Tasks <- TwoTasks
  Sessions <- OneSession
  Home <- HomeOf
  Parts <- NamesOf
  Path <- PathOf
  Listeners = 1
SPECIFICATION FairTreeSpec
PROPERTY EveryoneIsTold
PROPERTY CloseReturns
INVARIANT TypeOK
INVARIANT ClosedIsQuiet
INVARIANT ToldExactly
INVARIANT TreeIsRight
CHECK_DEADLOCK FALSE
