------------------------- MODULE DetectionLifecycle -------------------------
(***************************************************************************)
(* The observation lifecycle of patrol-cron for ONE rule, target and       *)
(* action: the rows of detection_lifecycle_state, one per signal, and the  *)
(* findings they open and close.  Others share no row with them.           *)
(*                                                                         *)
(* A run applies the observations of one collection; each database call is *)
(* a transaction of its own and one step here.  Cron runs exclude each     *)
(* other by flock; test_rule_once(dry_run=False) takes no lock.            *)
(***************************************************************************)
EXTENDS Integers, FiniteSets

CONSTANTS
  Signals,       \* the signal keys of the rule
  EventSignals,  \* those whose lifecycle kind is "event"
  OpenAfter,     \* open_after_consecutive of each signal
  CloseAfter,    \* close_after_healthy of each signal
  Runs,          \* runs in progress: the cron job's, and test_rule_once's
  CronRuns,      \* those of the cron job, which clean up at their end
  MaxFindings,   \* Bound: findings ever opened
  MaxFaults      \* Bound: crashes of a run and failed database calls

ASSUME PolicyAssumption ==
  /\ EventSignals \subseteq Signals /\ CronRuns \subseteq Runs
  /\ OpenAfter \in [Signals -> Nat \ {0}] /\ CloseAfter \in [Signals -> Nat \ {0}]
  /\ MaxFindings \in Nat /\ MaxFaults \in Nat

Status  == {"bad", "healthy", "unknown"}
Finding == 1 .. MaxFindings

\* A row, without what only people read.  The counters saturate at their thresholds, the one
\* value they are compared with; expires says that expires_at is set.
Row(s) == [bad : 0 .. OpenAfter[s], healthy : 0 .. CloseAfter[s],
           link : 0 .. MaxFindings, expires : BOOLEAN]
AnyRow == UNION {Row(s) : s \in Signals}

\* _empty_state, which stands for a row that is not there.
EmptyRow == [bad |-> 0, healthy |-> 0, link |-> 0, expires |-> FALSE]

VARIABLES
  row,       \* detection_lifecycle_state; link is active_finding_id, 0 for NULL
  active,    \* the findings with active = true
  opened,    \* the findings so far, active or not: their ids are 1 .. opened
  attempts,  \* calls of execute_finding so far (history),
  carried,   \*   and those that returned True
  step,      \* the call each run makes next
  left,      \* the signals each run has yet to observe
  signal,    \* the observation each run is applying: its signal,
  status,    \*   its status,
  state,     \*   the row as read and changed since,
  found,     \*   and the active finding, 0 for none
  faults     \* faults left

store == <<row, active, opened, attempts, carried>>
vars  == <<row, active, opened, attempts, carried, step, left, signal, status, state, found, faults>>

Step == {"off", "observe", "find", "execute", "insert", "others", "deactivate", "upsert"}

Goto(r, s) == step' = [step EXCEPT ![r] = s]

\* Saturating increment.
Count(n, limit) == IF n < limit THEN n + 1 ELSE n

-----------------------------------------------------------------------------

\* run_job reaches the rule, or test_rule_once is called.
StartRun(r) ==
  /\ step[r] = "off"
  /\ Goto(r, "observe")
  /\ left' = [left EXCEPT ![r] = Signals]
  /\ UNCHANGED <<store, signal, status, state, found, faults>>

\* A condition is observed in every cycle; an event only when it happens.
\* Mutant: an Observation built without the check of its status.
ReportsUnvalidated(s) == IF s \in EventSignals THEN {"bad"} ELSE Status \cup {"error"}
Reports(s) == IF s \in EventSignals THEN {"bad"} ELSE Status

\* get_lifecycle_state
Observe(r) ==
  /\ step[r] = "observe"
  /\ \E s \in left[r] : \E st \in Reports(s) :
       /\ st = "bad" => opened < MaxFindings \/ active # {}
       /\ left' = [left EXCEPT ![r] = @ \ {s}]
       /\ signal' = [signal EXCEPT ![r] = s]
       /\ status' = [status EXCEPT ![r] = st]
       /\ state' = [state EXCEPT ![r] = row[s]]
  /\ Goto(r, "find")
  /\ UNCHANGED <<store, found, faults>>

NoEvent(r) ==
  /\ step[r] = "observe"
  /\ \E s \in left[r] \cap EventSignals : left' = [left EXCEPT ![r] = @ \ {s}]
  /\ UNCHANGED <<store, step, signal, status, state, found, faults>>

\* find_active_finding: the newest active one, whatever signal opened it.
\* Mutant: the finding the signal's own row is linked to.
ActiveFindingOfRow(s) == IF row[s].link \in active THEN row[s].link ELSE 0
ActiveFinding(s) == IF active = {} THEN 0 ELSE CHOOSE f \in active : \A g \in active : g <= f

\* _open_finding executes the finding's action, then inserts it.
\* Mutant: the finding is inserted first.
OpeningSwapped == [begin |-> "insert", insert |-> "execute", execute |-> "upsert"]
Opening == [begin |-> "execute", execute |-> "insert", insert |-> "upsert"]

\* The row after a bad, a healthy and an unknown observation, f the active finding.
AfterBad(s, x, f) ==
  LET n == Count(x.bad, OpenAfter[s]) IN
  [x EXCEPT !.bad = n, !.healthy = 0, !.link = IF f # 0 THEN f ELSE @,
            !.expires = f = 0 /\ s \notin EventSignals /\ n < OpenAfter[s]]

Recovers(s, x) == x.healthy + 1 >= CloseAfter[s]

\* Mutant: bad observations need not be consecutive.
AfterHealthyKeepingBad(s, x, f) ==
  [x EXCEPT !.healthy = Count(@, CloseAfter[s]),
            !.link = IF f = 0 THEN @ ELSE IF Recovers(s, x) THEN 0 ELSE f,
            !.expires = f = 0 \/ Recovers(s, x)]
AfterHealthy(s, x, f) ==
  [x EXCEPT !.bad = 0, !.healthy = Count(@, CloseAfter[s]),
            !.link = IF f = 0 THEN @ ELSE IF Recovers(s, x) THEN 0 ELSE f,
            !.expires = f = 0 \/ Recovers(s, x)]
AfterUnknown(x, f) == [x EXCEPT !.link = IF f # 0 THEN f ELSE @]

FindActive(r) ==
  LET s == signal[r]  x == state[r]  f == ActiveFinding(s) IN
  /\ step[r] = "find"
  /\ found' = [found EXCEPT ![r] = f]
  /\ \/ /\ status[r] = "bad"
        /\ state' = [state EXCEPT ![r] = AfterBad(s, x, f)]
        /\ Goto(r, IF f = 0 /\ (s \in EventSignals \/ x.bad + 1 >= OpenAfter[s])
                     THEN Opening.begin ELSE "upsert")
     \/ /\ status[r] = "healthy"
        /\ state' = [state EXCEPT ![r] = AfterHealthy(s, x, f)]
        /\ Goto(r, IF f # 0 /\ Recovers(s, x) THEN "others" ELSE "upsert")
     \/ /\ status[r] \notin {"bad", "healthy"}
        /\ state' = [state EXCEPT ![r] = AfterUnknown(x, f)]
        /\ Goto(r, "upsert")
  /\ UNCHANGED <<store, left, signal, status, faults>>

\* execute_finding: a confidence below the stage's, an alert or a task that is refused make it
\* return False, which the caller does not look at.
Execute(r) ==
  /\ step[r] = "execute"
  /\ attempts' = attempts + 1 /\ carried' \in {carried, carried + 1}
  /\ Goto(r, Opening.execute)
  /\ UNCHANGED <<row, active, opened, left, signal, status, state, found, faults>>

InsertFinding(r) ==
  /\ step[r] = "insert" /\ opened < MaxFindings
  /\ opened' = opened + 1
  /\ active' = active \cup {opened'}
  /\ state' = [state EXCEPT ![r].link = opened']
  /\ Goto(r, Opening.insert)
  /\ UNCHANGED <<row, attempts, carried, left, signal, status, found, faults>>

\* has_active_lifecycle_signals
\* Mutants: without exclude_signal_key; and not asked at all.
KeptBySelf(s, f) == \E t \in Signals : row[t].link = f
KeptByNone(s, f) == FALSE
KeptByOthers(s, f) == \E t \in Signals \ {s} : row[t].link = f

CheckOthers(r) ==
  /\ step[r] = "others"
  /\ Goto(r, IF KeptByOthers(signal[r], found[r]) THEN "upsert" ELSE "deactivate")
  /\ UNCHANGED <<store, left, signal, status, state, found, faults>>

Deactivate(r) ==
  /\ step[r] = "deactivate"
  /\ active' = active \ {found[r]}
  /\ Goto(r, "upsert")
  /\ UNCHANGED <<row, opened, attempts, carried, left, signal, status, state, found, faults>>

Upsert(r) ==
  /\ step[r] = "upsert"
  /\ row' = [row EXCEPT ![signal[r]] = state[r]]
  /\ Goto(r, "observe")
  /\ status' = [status EXCEPT ![r] = "none"]
  /\ UNCHANGED <<active, opened, attempts, carried, left, signal, state, found, faults>>

\* delete_expired_lifecycle_state, at the end of run_job: which rows' time has come is open.
EndRun(r) ==
  /\ step[r] = "observe" /\ left[r] = {}
  /\ \E gone \in SUBSET {s \in Signals : row[s].link = 0 /\ row[s].expires} :
       /\ r \notin CronRuns => gone = {}
       /\ row' = [s \in Signals |-> IF s \in gone THEN EmptyRow ELSE row[s]]
  /\ Goto(r, "off")
  /\ UNCHANGED <<active, opened, attempts, carried, left, signal, status, state, found, faults>>

\* A call fails, or the process is killed: the rest of the rule's observations is lost.
Abandon(r) ==
  /\ step[r] # "off" /\ faults > 0 /\ faults' = faults - 1
  /\ left' = [left EXCEPT ![r] = {}]
  /\ status' = [status EXCEPT ![r] = "none"]
  /\ Goto(r, "observe")
  /\ UNCHANGED <<store, signal, state, found>>

Init ==
  /\ row = [s \in Signals |-> EmptyRow] /\ active = {} /\ opened = 0
  /\ attempts = 0 /\ carried = 0
  /\ step = [r \in Runs |-> "off"] /\ left = [r \in Runs |-> {}]
  /\ signal \in [Runs -> Signals] /\ status = [r \in Runs |-> "none"]
  /\ state = [r \in Runs |-> EmptyRow] /\ found = [r \in Runs |-> 0]
  /\ faults = MaxFaults

RunStep(r) ==
  \/ StartRun(r) \/ Observe(r) \/ NoEvent(r) \/ FindActive(r) \/ Execute(r) \/ InsertFinding(r)
  \/ CheckOthers(r) \/ Deactivate(r) \/ Upsert(r) \/ EndRun(r)

Next == \E r \in Runs : RunStep(r) \/ Abandon(r)

Spec == Init /\ [][Next]_vars

\* Cron starts the job again and again, and a run makes progress.
FairSpec == Spec /\ \A r \in Runs : WF_vars(RunStep(r))

-----------------------------------------------------------------------------
(* Properties.                                                             *)

TypeOK ==
  /\ row \in [Signals -> AnyRow] /\ \A s \in Signals : row[s] \in Row(s)
  /\ active \subseteq 1 .. opened /\ opened \in 0 .. MaxFindings
  /\ attempts \in Nat /\ carried \in 0 .. attempts
  /\ step \in [Runs -> Step] /\ left \in [Runs -> SUBSET Signals]
  /\ signal \in [Runs -> Signals] /\ status \in [Runs -> Status \cup {"none"}]
  /\ state \in [Runs -> AnyRow]
  /\ \A r \in Runs : step[r] \notin {"off", "observe"} => state[r] \in Row(signal[r])
  /\ found \in [Runs -> 0 .. MaxFindings]
  /\ faults \in 0 .. MaxFaults

\* "findings dedupe at rule + target + action level": however many signals of a target turn
\* bad, and wherever a run was cut, there is one active finding at most.
OneActive == \A f, g \in active : f = g

\* The action (cordon, alert, task) of every finding was attempted before the finding was
\* inserted, and once for each: only a run that fails or dies between the two, or is still
\* between them, has attempted one more.
Inserting == {r \in Runs : step[r] = "insert"}
OneAttemptPerFinding ==
  /\ opened + Cardinality(Inserting) <= attempts
  /\ attempts <= opened + Cardinality(Inserting) + (MaxFaults - faults)

\* What a reader of the findings may take them for, and the code does not give: an action that
\* was carried out.  A finding whose action failed is refreshed from then on.
ActionCarriedOut == opened <= carried

\* A signal that was bad often enough in a row has a finding, and recovery starts its count
\* again, also when a crash lost one of the updates or an observation was unknown.
ThresholdLinked ==
  \A s \in Signals \ EventSignals : row[s].bad = OpenAfter[s] => row[s].link # 0

\* The lifecycle implements one issue per rule, target and action that only the recovery of
\* its last keeper closes.
keepers == {s \in Signals : row[s].link \in active}
Issue == INSTANCE NodeIssue WITH open <- active # {}
ImplementsIssue == Issue!Spec

\* Once every observation is healthy the finding is closed, whatever crashes came before,
\* unless an event holds it open: silence does not close those.
RecoveryCloses ==
  (<>[] \A r \in Runs : status[r] \in {"none", "healthy"})
    => <>[](active = {} \/ keepers \cap EventSignals # {})
=============================================================================
