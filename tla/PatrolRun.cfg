\* One collector with one or two sources, cron and the tool; the rule finds nodes to cordon.
SPECIFICATION Spec
CONSTANTS
  Targets = {"t1", "t2"}
  Shows <- ShownBy
  Configs = {{"prometheus"}, {"ssh", "prometheus"}}
  Actions = {"cordon_node", "alert"}
  Processes = {1, 2}
  MaxFaults = 1
  MaxTurns = 3
INVARIANTS BoundedRepeats
PROPERTIES DetectsSick ClosesRecovered
CHECK_DEADLOCK FALSE
