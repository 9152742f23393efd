--------------------------- MODULE MCPatrolRules ---------------------------
(* The built-in rules over one target each, two for the rules that compare targets; two nodes,   *)
(* three attempts of two jobs; four jobs on a node that remembers two.                           *)
EXTENDS PatrolRules, TLC

CONSTANTS t1, t2, n1, n2

MCFleet == [s \in Signals |-> IF s \in Bulk THEN {t1, t2} ELSE {t1}]
MCWatched == Signals \cup JobSignals
MCJobWatched == {"large_job_failure_root_cause"}

MCJobs == 1 .. 4
MCAttempts == {<<1, 0>>, <<1, 1>>, <<2, 0>>}
MCNodes == {n1, n2}
Ends(k, a) == [kind |-> k, at |-> a]
Pair(x, y) == n1 :> x @@ n2 :> y
MCTables ==
  LET ok == Ends("succeeded", 0)  stop == Ends("cascade", 0)  gone == Ends("failed", 0)
      early == Ends("timed", 0)  late == Ends("timed", 9) IN
  {Pair(early, late), Pair(late, early), Pair(early, early), Pair(early, ok), Pair(gone, stop), Pair(gone, gone)}
MCFilter == [mine |-> [jobs |-> MCJobs, level |-> "attempt"], other |-> [jobs |-> {1}, level |-> "job"]]
\* A filter narrower than another collector's.
MCNarrow == [mine |-> [jobs |-> {1}, level |-> "job"], other |-> [jobs |-> MCJobs, level |-> "attempt"]]
=============================================================================
