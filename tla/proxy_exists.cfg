SPECIFICATION Spec
CONSTANTS
  Callers = {t1}
  Depth = 2
  RetryTimes = 1
  MaxRedirects = 2
  MaxLate = 1
INVARIANT ExistingIsNoFailure
