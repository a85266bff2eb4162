CONSTANTS
  T1 = t1
  T2 = t2
  D1 = d1
  D2 = d2
  F = f
  V1 = v1
  V2 = v2
  NoTask = noTask
  NoFile = noFile
  Partial = partial
  Foreign = foreign
  NoState = noState
  Torn = torn
  NoResult = noResult
  Tasks <- TwoTasks
  Sources <- OneSource
  Versions <- TwoVersions
  Ids <- TwoIds
  Id <- OwnId
  Parent <- Chain
  Asks <- AskFollowup
  Structured <- SecondExecutor
  MaxBuilds = 3
  MaxEdits = 2
SPECIFICATION Spec
INVARIANT SameAsCleanBuild
INVARIANT TruthfulRecords
PROPERTY NeverAgain
SYMMETRY VersionSymmetry
CHECK_DEADLOCK FALSE
