\* Two sessions, two examples, two stages.
SPECIFICATION Spec
CONSTANTS
  s1 = s1
  s2 = s2
  e1 = e1
  e2 = e2
  Agents = {s1, s2}
  Examples = {e1, e2}
  Stages = {"log_only", "auto_cordon"}
  MaxCalls = 4
INVARIANTS GatedCodePasses Restorable 
SYMMETRY Symmetry
CHECK_DEADLOCK FALSE
