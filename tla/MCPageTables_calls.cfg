\* Two calls on sixteen pages, with tables for about half of them.
SPECIFICATION Spec
CONSTANTS
  Fanout = 2
  Tags = 2
  Frames <- FewFrames
  PhysicalStarts <- TwoStarts
  BootBlocks = 1
  MaxCount = 3
  MaxCalls = 2
  MayCross = FALSE
INVARIANTS TypeOK OldOrNew TablesFormATree NoPanic
CHECK_DEADLOCK FALSE
