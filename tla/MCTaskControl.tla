---------------------------- MODULE MCTaskControl ----------------------------
(* Instances of TaskControl for TLC.                                       *)
EXTENDS TaskControl

CONSTANTS r1, h1, h2, rec1

Of(type, vals) == [type : {type}, val : vals]

\* Events that move the status to running, waiting_input, completed and error, with output and
\* with decisions.
StatusEvents ==
  Of("message.user", {"approved", "declined"}) \cup Of("message.agent", {"none"})
    \cup Of("session.completed", {"none"}) \cup Of("session.error", {"other"})

NoEvents == {}

\* The owner has queued a second task behind the first.
QueuedInit ==
  /\ status = [t \in Task |-> CASE t = 1 -> "running" [] t = 2 -> "pending" [] OTHER -> "none"]
  /\ \E m \in [{1, 2} -> Mode] : mode = [t \in Task |-> IF t <= 2 THEN m[t] ELSE "auto"]
  /\ ended = [t \in Task |-> FALSE]
  /\ decision = [t \in Task |-> "none"]
  /\ approval = [t \in Task |-> FALSE]
  /\ created = 2
  /\ todo = [a \in Actor |-> <<>>]
  /\ gwStatus \in {"starting", "completed"} /\ accepted = 1 /\ live = 0
  /\ sent = {1}
  /\ faults = MaxFaults

QueuedSpec == QueuedInit /\ [][Next]_vars

\* Two earlier tasks, and a third one queued behind them.  Two POST tasks that both saw no
\* active task made both of them running; events and the reconciler ended the second, and, it
\* being completed, the first.
BehindTwoInit ==
  /\ \E s \in [{1, 2} -> {"running", "interrupted", "completed"}] :
       /\ status = [t \in Task |-> IF t <= 2 THEN s[t] ELSE "pending"]
       /\ ended = [t \in Task |-> t <= 2 /\ s[t] # "running"]
  /\ \E m \in [{1, 2} -> Mode] : mode = [t \in Task |-> IF t <= 2 THEN m[t] ELSE "auto"]
  /\ decision = [t \in Task |-> "none"]
  /\ approval = [t \in Task |-> FALSE]
  /\ created = 3
  /\ todo = [a \in Actor |-> <<>>]
  /\ gwStatus \in {"completed", "interrupted"} /\ accepted = 0 /\ live = 0
  /\ sent = {1, 2}
  /\ faults = MaxFaults

BehindTwoSpec == BehindTwoInit /\ [][Next]_vars /\ Fairness
=============================================================================
