------------------------------ MODULE NodeIssue ------------------------------
(***************************************************************************)
(* What the detection lifecycle promises for one rule, target and action:  *)
(* there is one issue, open or not; the signals that hold it open are its  *)
(* keepers; and it is closed by the recovery of its last keeper only.      *)
(***************************************************************************)
CONSTANT Signals

VARIABLES
  open,     \* there is an active finding
  keepers   \* the signals that hold it open

vars == <<open, keepers>>

Init == ~ open /\ keepers = {}

\* The first signal to reach its threshold opens the issue; it becomes a keeper next.
Open == ~ open /\ open' /\ UNCHANGED keepers

Join(s) == open /\ keepers' = keepers \cup {s} /\ UNCHANGED open

Leave(s) ==
  /\ open /\ s \in keepers /\ keepers # {s}
  /\ keepers' = keepers \ {s} /\ UNCHANGED open

Close(s) ==
  /\ open /\ keepers \subseteq {s}
  /\ ~ open' /\ keepers' = {}

Next == Open \/ \E s \in Signals : Join(s) \/ Leave(s) \/ Close(s)

Spec == Init /\ [][Next]_vars
=============================================================================
