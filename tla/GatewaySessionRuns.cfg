\* Two query loops at once, two retries, one restart.
SPECIFICATION FairSpec
CONSTANTS
  l1 = l1
  l2 = l2
  Loops = {l1, l2}
  MaxRetries = 2
  MaxFaults = 1
INVARIANTS WorkingHasLoop
PROPERTIES InterruptStops
CHECK_DEADLOCK FALSE
