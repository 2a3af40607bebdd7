\* Pages of four bytes, blocks of four pages and a RAM of two blocks.
SPECIFICATION Spec
CONSTANTS
  PageLen = 4
  BlockLen = 16
  Placements <- WellPlaced
 
PROPERTY AllGiven
