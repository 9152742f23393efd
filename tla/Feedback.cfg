\* Two sessions, one repair, two findings.
SPECIFICATION Spec
CONSTANTS
  s1 = s1
  s2 = s2
  f1 = f1
  f2 = f2
  c1 = c1
  Agents = {s1, s2}
  Findings = {f1, f2}
  Cases = {c1}
  Asked <- Updates
  MaxRows = 5
  MaxCalls = 5
INVARIANTS NoStageSkipped
PROPERTIES VerdictKept
SYMMETRY Symmetry
CHECK_DEADLOCK FALSE
