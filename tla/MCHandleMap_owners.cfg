\* Two levels of tables; each thread gets and removes only what it inserted.
SPECIFICATION Spec
CONSTANTS
  Threads = {t1, t2}
  Values = {v1, v2, v3}
  None = None
  Fanout = 2
  MaxHandle = 3
  MaxRefs = 2
  GetOthers = FALSE
  RemoveOthers = FALSE
SYMMETRY Symmetry
CHECK_DEADLOCK FALSE
INVARIANTS TypeOK NothingAtFreshHandle InsertedIsFound CountsAreExact NoUseAfterFree HandlesAccounted
