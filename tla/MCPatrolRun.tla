----------------------------- MODULE MCPatrolRun -----------------------------
EXTENDS PatrolRun

ShownBy == [t \in Targets |-> IF t = "t1" THEN "ssh" ELSE "prometheus"]
=============================================================================
