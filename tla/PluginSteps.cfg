CONSTANTS
  Bonk = "bonk"
  Exact = 8
  Names <- AnyName
  Components <- TwoComponents
  BuildPlans <- SomePlans
  UserArgs <- SomeArgs
SPECIFICATION Spec
INVARIANT GivenAsCreated
INVARIANT AllOrNone
INVARIANT ResourcesWritten
INVARIANT CrashNeedsNil
CHECK_DEADLOCK FALSE
