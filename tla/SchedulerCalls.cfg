CONSTANTS
  Tasks = {t1, t2, t3, t4}
  Caller = caller
  NoError = noError
  Limit = 2
SPECIFICATION FairSpec
PROPERTY Implements
INVARIANT ConcurrencyBounded
INVARIANT QuietWhenReturned
INVARIANT ResultExact
INVARIANT AncestorsSucceeded
INVARIANT WedgeNeedsTasks
PROPERTY ReturnsUnlessWedged
CHECK_DEADLOCK FALSE
