\* Two operators and a recycler, two tickets, one fault anywhere; any onboard record.
SPECIFICATION FairSpec
CONSTANTS
  ops = ops
  service = service
  recycler = recycler
  t1 = t1
  t2 = t2
  Ops = {ops, service}
  Recyclers = {recycler}
  Targets <- RepairTargets
  Tickets = {t1, t2}
  MaxMoves = 2
  MaxFaults = 1
INVARIANTS StatusHasAction FromWasReal StayCompletedOnce
PROPERTIES RepairedNodeReturns
CHECK_DEADLOCK FALSE
