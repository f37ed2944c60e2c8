SPECIFICATION Spec
CONSTANTS
  Callers = {t1, t2}
  Depth = 2
  RetryTimes = 1
  MaxRedirects = 2
  MaxLate = 1
INVARIANTS
  TypeOK
  MkdirAllComplete
  FailureExplained
PROPERTY MkdirAllReturns
