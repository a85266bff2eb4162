CONSTANTS
  Callers = {c1, c2}
  Results = {r1, r2}
  Nobody = Nobody
  MaxCalls = 3
SPECIFICATION FairSpec
INVARIANT NothingLost
INVARIANT SeenInOrder
PROPERTY Implements
PROPERTY CallsReturn
CHECK_DEADLOCK FALSE
