\* A GPU node whole and with a disk lost, and a storage node without its shelf, two calls,
\* two faults.
SPECIFICATION FairSpec
CONSTANTS
  Hardware <- MCHardware
  MaxPolls = 2
  MaxCalls = 2
  MaxFaults = 2
INVARIANTS LoginLeft ConfigLogins
PROPERTIES AllocatesConfigured CallsReturn
CHECK_DEADLOCK FALSE
