\* Three live allocations in two requests for pages.
SPECIFICATION Spec
CONSTANTS
  HeaderSize = 16
  HeaderAlign = 8
  PageSize = 16
  MinPageAllocation = 4
  Pages = 9
  Layouts <- SmallLayouts
  MaxHeld = 3
INVARIANTS ExtentsDisjoint NoPanic
