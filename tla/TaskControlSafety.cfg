\* Two event handlers and a reconciler interleave over a running task and one queued behind it;
\* no call fails.
SPECIFICATION QueuedSpec
CONSTANTS
  r1 = r1
  h1 = h1
  h2 = h2
  rec1 = rec1
  MaxTasks = 2
  MaxLoops = 1
  MaxFaults = 0
  Requests = {}
  Handlers = {h1, h2}
  Reconcilers = {rec1}
  History <- StatusEvents
INVARIANTS OnePromoter
PROPERTIES NeverRequeued ManualCompletedByOwner FirstDecisionWins
