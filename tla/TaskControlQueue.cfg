\* Nobody watches the stream: a request and the reconciler, with one failed call or restart.
SPECIFICATION FairSpec
CONSTANTS
  r1 = r1
  h1 = h1
  h2 = h2
  rec1 = rec1
  MaxTasks = 2
  MaxLoops = 1
  MaxFaults = 1
  Requests = {r1}
  Handlers = {}
  Reconcilers = {rec1}
  History <- NoEvents
INVARIANTS PendingNotSent
PROPERTIES QueueDrains
