SPECIFICATION Spec
CONSTANTS
  Function = {f1, f2}
  MaxDepth = 2
  MaxEpoch = 3
  MaxArt = 2
  MaxGen = 2
  MaxDisabled = 1
  Budget = 1
SYMMETRY Symmetry
CHECK_DEADLOCK FALSE
INVARIANTS
  PinsAreHandles
  TimersMatchCalls
PROPERTIES
  EnteredIsAdmissible
  GrantsRunOut
