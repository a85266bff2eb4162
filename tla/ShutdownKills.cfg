CONSTANTS
  p1 = p1
  s1 = s1
  Plugins = {p1}
  Static = {s1}
  Name <- MCName
  Callers = {}
  Main = main
  Free = free
SPECIFICATION FairSpec
PROPERTY ShutdownKills
CHECK_DEADLOCK FALSE
