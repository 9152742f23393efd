------------------------ MODULE MCDetectionLifecycle ------------------------
(* Instances of DetectionLifecycle for TLC.                                *)
EXTENDS DetectionLifecycle

CONSTANTS xid, link, ecc, cron, tool

\* A signal that opens at once and closes after two, one the other way round, and an event.
OpenPolicy  == [s \in Signals |-> IF s = link THEN 2 ELSE 1]
ClosePolicy == [s \in Signals |-> IF s = ecc THEN 2 ELSE 1]
=============================================================================
