----------------------------- MODULE NodeStatus -----------------------------
(***************************************************************************)
(* The life of a cluster node as ltp_storage describes it: sixteen         *)
(* statuses and the transitions STATUS_METADATA allows between them.       *)
(***************************************************************************)

Triaged == {"triaged_hardware", "triaged_user", "triaged_platform", "triaged_unknown"}

Status ==
  {"new", "validating", "available", "available_nodata", "cordoned", "deallocated_capacity",
   "ua", "deallocated_ua", "ready_ua", "allocated_ua",
   "deallocated_platform", "allocated_platform"} \cup Triaged

\* STATUS_METADATA: allowed_transitions of each status.  Every node may leave for capacity.
Elsewhere(s) ==
  CASE s = "new"                  -> {"validating"}
    [] s = "validating"           -> {"available", "cordoned", "available_nodata"} \cup Triaged
    [] s = "available"            -> {"cordoned", "available_nodata"} \cup Triaged
    [] s = "available_nodata"     -> {"available", "cordoned"} \cup Triaged
    [] s = "cordoned"             -> {"available", "available_nodata", "new"} \cup Triaged
    [] s = "deallocated_capacity" -> {"new", "validating"}
    [] s = "triaged_hardware"     -> {"ua", "deallocated_ua", "validating"}
    [] s = "triaged_user"         -> {"validating", "available", "available_nodata"}
    [] s = "triaged_platform"     -> {"deallocated_platform", "allocated_platform", "validating",
                                      "available", "available_nodata", "triaged_hardware",
                                      "cordoned"}
    [] s = "triaged_unknown"      -> {"validating", "cordoned", "available_nodata", "available"}
                                       \cup (Triaged \ {"triaged_unknown"})
    [] s = "ua"                   -> {"deallocated_ua", "ready_ua", "allocated_ua"}
    [] s = "deallocated_ua"       -> {"allocated_ua", "ua", "validating"}
    [] s = "ready_ua"             -> {"allocated_ua", "triaged_unknown"}
    [] s = "allocated_ua"         -> {"validating", "deallocated_ua"}
    [] s = "deallocated_platform" -> {"allocated_platform"}
    [] s = "allocated_platform"   -> {"validating", "deallocated_platform"}

CanTransition(s, t) ==
  t \in Elsewhere(s) \/ (t = "deallocated_capacity" /\ s # "deallocated_capacity")

\* is_valid_action, for the action named s-t.
IsValidAction(s, t) == s \in Status /\ t \in Status /\ CanTransition(s, t)
=============================================================================
