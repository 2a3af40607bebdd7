\* Any thread may get any handle; the owner removes it.
SPECIFICATION Spec
CONSTANTS
  Threads = {t1, t2}
  Values = {v1}
  None = None
  Fanout = 2
  MaxHandle = 1
  MaxRefs = 2
  GetOthers = TRUE
  RemoveOthers = FALSE
SYMMETRY Symmetry
CHECK_DEADLOCK FALSE
INVARIANT NoUseAfterFree
