CONSTANTS
  testing = testing
  child = child
  abc = abc
  unrelated = unrelated
  Wildcard = wildcard
  Nameless = nameless
  Segments <- MCSegments
  Names <- MCNames
  Requests <- MCRequests
  Execs = {e1, e2}
  MaxUnregister = 2
SPECIFICATION Spec
INVARIANT TypeOK
INVARIANT RoutesRight
INVARIANT OnlyEmptiedHide
PROPERTY Implements
