\* Two sessions, two nodes and one action; two failures within two ticks trip a circuit, for a tick.
SPECIFICATION GuardSpec
CONSTANTS
  s1 = s1
  s2 = s2
  h1 = h1
  h2 = h2
  cordon = cordon
  Callers = {s1, s2}
  Hosts = {h1, h2}
  Actions = {cordon}
  MaxFailures = 2
  Window = 2
  CircuitCooldown = 1
  BlastCooldown = 1
  MaxTime = 2
  MaxGuardCalls = 4
  MaxRestarts = 1
INVARIANTS OneTest FailuresHalt RepeatsSpaced
SYMMETRY Symmetry
CHECK_DEADLOCK FALSE
