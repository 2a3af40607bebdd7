\* Trees of up to five levels; a 32-bit cell stands for 12 bits.
SPECIFICATION Spec
CONSTANTS
  CellBase = 4096
  MaxProps = 3
  LookUps <- MCLookUps
INVARIANTS NoPanic YieldsInOrder ResultFromNode
PROPERTY LookUpEnds
