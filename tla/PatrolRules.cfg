\* Every built-in rule, signal by signal; two collectors share the cache of attempts.
SPECIFICATION RulesSpec
CONSTANTS
  t1 = t1
  t2 = t2
  n1 = n1
  n2 = n2
  MIN_ERROR_LINES = 2
  MLX5_DELTA_THRESHOLD = 1
  SYMBOL_ERROR_DELTA_THRESHOLD = 1
  MIN_PORT_DELTA = 2
  BULK_FAILURE_THRESHOLD = 1
  SSH_FAILURE_THRESHOLD = 3
  UFM_FAILURE_THRESHOLD = 3
  Jobs <- MCJobs
  Attempts <- MCAttempts
  Nodes <- MCNodes
  Tables <- MCTables
  Filter <- MCFilter
  ALERTED_JOBS = 2
  FIRST_WINDOW = 1
  MAX_ROOTS = 1
  MAX_UNTIMED = 1
  CORDON_THRESHOLD = 2
  CO_FAILURE_THRESHOLD = 2
  Fleet <- MCFleet
  Watched <- MCWatched
  Mine = "mine"
  MaxErrs = 4
  MaxLogs = 2
INVARIANTS AlertedOnceUnlessCrowdedOut
PROPERTIES RestsOnGrowth OutageOpensNothing BlamedAcrossJobs FaultFound
