--------------------------- MODULE MCNodeLifecycle ---------------------------
EXTENDS NodeLifecycle

\* Around the repair: triage and repair move the node, platform services make it available.
RepairTargets == {"available", "triaged_hardware", "ua"}
=============================================================================
