\* The cron job over two conditions and an event, cut once at any call.
SPECIFICATION FairSpec
CONSTANTS
  xid = xid
  link = link
  ecc = ecc
  cron = cron
  tool = tool
  Signals = {link, ecc, xid}
  EventSignals = {xid}
  OpenAfter <- OpenPolicy
  CloseAfter <- ClosePolicy
  Runs = {cron}
  CronRuns = {cron}
  MaxFindings = 2
  MaxFaults = 1
INVARIANTS OneActive OneAttemptPerFinding ThresholdLinked
PROPERTIES ImplementsIssue RecoveryCloses
