CONSTANTS
  p1 = p1
  p2 = p2
  p3 = p3
  s1 = s1
  t1 = t1
  t2 = t2
  build = build
  deploy = deploy
  Plugins = {p1, p2, p3}
  Static = {s1}
  Name <- MCName
  Callers = {t1, t2}
  Tasks = {t1, t2}
  Main = main
  Free = free
  Sessions = {build, deploy}
  Home <- MCHome
  MaxLogs = 1
SPECIFICATION CommandSpec
INVARIANT TypeOK
INVARIANT RunningIsReachable
INVARIANT SessionsPaired
INVARIANT ExitIsClean
PROPERTY CommandReturns
CHECK_DEADLOCK FALSE
