\* The boot core and two others.
SPECIFICATION Spec
CONSTANTS
  Cores = {0, 1, 2}
  Stacks = {16, 32, 48}
INVARIANTS NoUseBeforeInit ResumesOwnExecution
PROPERTY EveryCoreRuns
