SPECIFICATION FairSpec
CHECK_DEADLOCK FALSE
CONSTANTS
  t1 = t1
  t2 = t2
  t3 = t3
  Threads = {t1, t2, t3}
  Args = 1
  Calls <- OnceOrTwice
  None = None
INVARIANTS LoggerTypeOK LinesUnmixed OneLineEach FewBroken
PROPERTY CallsReturn
