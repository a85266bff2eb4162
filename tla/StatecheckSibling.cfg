CONSTANTS
  T1 = t1
  T2 = t2
  D1 = d1
  D2 = d2
  F = f
  V1 = v1
  V2 = v2
  NoTask = noTask
  NoFile = noFile
  Partial = partial
  Foreign = foreign
  NoState = noState
  Torn = torn
  NoResult = noResult
  Tasks <- TwoTasks
  Sources <- OneSource
  Versions <- OneVersion
  Ids <- TwoIds
  Id <- OwnId
  Parent <- Siblings
  Asks <- AskSibling
  Structured <- NoExecutor
  MaxBuilds = 2
  MaxEdits = 0
SPECIFICATION Spec
PROPERTY SkippedIsUpToDate
CHECK_DEADLOCK FALSE
