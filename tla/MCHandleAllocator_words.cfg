\* Two words, the second one only partly used, and callers that free any handle.
SPECIFICATION FairSpec
CONSTANTS
  Callers = {c1, c2}
  MaxHandle = 3
  WordBits = 2
  AnyFree = TRUE
INVARIANTS TypeOK Exclusive BitsAreOwned
PROPERTIES ImplementsHandleSet SomeCallReturns

