------------------------------- MODULE PatrolRun -------------------------------
(***************************************************************************)
(* The runs of ONE collector of patrol-cron and of one rule bound to it, of*)
(* the kind that returns findings (DetectionLifecycle has the rules that   *)
(* return observations): cron_sync keeps the crontab, cron starts          *)
(* run_collector_job under flock -n, the engine asks the sources and merges*)
(* what they answered, the rule judges it, findings of recovered targets are*)
(* closed, and each new one is acted on and inserted.  test_rule_once with *)
(* dry_run=False does the last part from a session, without the lock.      *)
(*                                                                         *)
(* The rule finds the sick targets that the source which shows them        *)
(* answered for.  A source loses targets as its collector does.  Left out: *)
(* snapshots, hashes and texts; what a rule keeps between runs (rule_state).*)
(* ill is history: who was sick when a run asked its sources.              *)
(***************************************************************************)
EXTENDS Integers, FiniteSets

CONSTANTS
  Targets,
  Shows,     \* per target, the source whose payload shows that it is sick
  Configs,   \* the lists of sources the collector is configured with
  Actions,   \* the actions the rule's findings name
  Processes, \* what cron may have started at a time, 1 .. n
  MaxFaults, \* Bound: lost answers, errors and crashes
  MaxTurns   \* Bound: changes of the world, the configuration, calls of the tool

SourceType == {"ssh", "node_logs", "prometheus", "db_query", "job_logs", "job_metadata"}
Stages == {"log_only", "create_task", "submit_alert", "auto_cordon"}
JobActions == {"notify_abnormal_job", "stop_abnormal_job"}
InfraActions == {"cordon_node", "drain_node", "cordon_switch_nodes", "alert", "create_task"}

ASSUME PatrolAssumption ==
  /\ Configs \subseteq SUBSET SourceType /\ Shows \in [Targets -> SourceType]
  /\ Actions \subseteq JobActions \cup InfraActions
  /\ Processes \subseteq Nat \ {0} /\ IsFiniteSet(Processes)
  /\ MaxFaults \in Nat /\ MaxTurns \in Nat

VARIABLES
  coll,       \* collectors: sources, enabled
  crontab,    \* whether the crontab has a line for the collector
  rule,       \* patrol_rules: stage, action of its findings, enabled
  sick,       \* the targets with the fault the rule looks for
  cordoned,   \* the targets that cannot be scheduled
  findings,   \* per target, how many findings are active, and how many were made
  sent,       \* per target, how many actions were carried out
  asked,      \* per target, what alert-manager was asked for
  task,       \* per target, the investigation of it in Task Control
  run,        \* per process, where it is
  faults,     \* faults left
  turns       \* changes left

vars == <<coll, crontab, rule, sick, cordoned, findings, sent, asked, task, run, faults, turns>>
done == <<sent, asked, task>>
config == <<coll, crontab, rule>>
targetVars == <<sick, cordoned>>

Tool == 0
Runs == Processes \cup {Tool}
Idle == [at |-> "idle"]
Set(r, c) == run' = [run EXCEPT ![r] = c]

-----------------------------------------------------------------------------
(* cron_sync, and the tools that change collector and rule.                *)

Turn == turns > 0 /\ turns' = turns - 1

UpdateCollector ==
  /\ Turn /\ \E s \in Configs, e \in BOOLEAN : coll' = [sources |-> s, enabled |-> e]
  /\ UNCHANGED <<crontab, rule, targetVars, findings, done, run, faults>>

UpdateRule ==
  /\ Turn /\ \E s \in Stages, e \in BOOLEAN : rule' = [rule EXCEPT !.stage = s, !.enabled = e]
  /\ UNCHANGED <<coll, crontab, targetVars, findings, done, run, faults>>

SyncCrontab ==
  /\ crontab # coll.enabled /\ crontab' = coll.enabled
  /\ UNCHANGED <<coll, rule, targetVars, findings, done, run, faults, turns>>

\* The world: targets fall ill and recover; alert-manager cordons what an action named, and
\* somebody uncordons it.
Change ==
  /\ Turn
  /\ \E t \in Targets :
       \/ /\ sick' = IF t \in sick THEN sick \ {t} ELSE sick \cup {t}
          /\ UNCHANGED cordoned
       \/ /\ asked[t] \cap {"cordon", "drain"} # {}
          /\ cordoned' = IF t \in cordoned THEN cordoned \ {t} ELSE cordoned \cup {t}
          /\ UNCHANGED sick
  /\ UNCHANGED <<config, findings, done, run, faults>>

\* The agent at work on a task ends its turn; somebody ends the task.
TaskTurns ==
  /\ Turn
  /\ \E t \in Targets : /\ task[t] # "none"
                        /\ task' = [task EXCEPT ![t] = IF @ = "running" THEN "waiting_input" ELSE "none"]
  /\ UNCHANGED <<config, targetVars, findings, sent, asked, run, faults>>

-----------------------------------------------------------------------------
(* Collection.                                                             *)

\* cron starts a job; flock -n lets it go on if no other has the lock.
\* Mutant: no lock.
Unlocked(j) == run[j].at = "idle"
LockFree(j) == \A i \in Processes : run[i].at = "idle"
FirstIdle(j) == run[j].at = "idle" /\ \A i \in Processes : i < j => run[i].at # "idle"

Tick(j) ==
  /\ crontab /\ FirstIdle(j) /\ LockFree(j)
  /\ Set(j, [at |-> "collect", sources |-> coll.sources])
  /\ UNCHANGED <<config, targetVars, findings, done, faults, turns>>

\* What each collector answers for.  ssh asks the targets its resolver lists, one by one; a
\* resolver that fails lists none, and an answer that failed shows nothing.
Schedulable == Targets \ cordoned
SshRun(listed) == SUBSET listed
SshAnswers == SshRun(Schedulable) \cup SshRun({})
NodeLogAnswers == SshAnswers
\* Each job's log is fetched by itself, from the jobs one query returned.
JobLogAnswers == SUBSET Targets
\* One query: a retry later it is answered or it is not.
QueryRange == {Targets, {}}
OpenPaiQuery == {Targets, {}}
DbQueryAnswers == {Targets, {}}

Answers(s) ==
  CASE s = "ssh" -> SshAnswers         [] s = "node_logs" -> NodeLogAnswers
    [] s = "job_logs" -> JobLogAnswers [] s = "prometheus" -> QueryRange
    [] s = "job_metadata" -> OpenPaiQuery [] s = "db_query" -> DbQueryAnswers

\* prometheus does not catch what its client raises, and job_logs stumbles over the list it did
\* not get; the others return their errors.
Raises(s) == s \in {"job_logs", "prometheus"}

\* The engine merges what the sources answered.
Merged(S) == {got \in [S -> SUBSET Targets] : \A s \in S : got[s] \in Answers(s)}
Full(S, got) == \A s \in S : got[s] = IF s \in {"ssh", "node_logs"} THEN Schedulable ELSE Targets

\* The rule: it fires on what shows the fault.
Judged(S, got) == {t \in sick : Shows[t] \in S /\ t \in got[Shows[t]]}

Collect(r) ==
  LET S == run[r].sources IN
  /\ run[r].at = "collect"
  /\ \E got \in Merged(S) :
       /\ faults' = IF Full(S, got) THEN faults ELSE faults - 1
       /\ Set(r, IF r = Tool
                   THEN [at |-> "finding", todo |-> Judged(S, got), rule |-> run[r].rule]
                   ELSE [at |-> "rules", failing |-> Judged(S, got), ill |-> sick])
  /\ faults' >= 0
  /\ UNCHANGED <<config, targetVars, findings, done, turns>>

\* With one source its error is the run's; with more it is noted.
CollectRaises(r) ==
  LET S == run[r].sources IN
  /\ run[r].at = "collect" /\ faults > 0 /\ faults' = faults - 1
  /\ Cardinality(S) = 1 /\ \E s \in S : Raises(s)
  /\ Set(r, Idle)
  /\ UNCHANGED <<config, targetVars, findings, done, turns>>

-----------------------------------------------------------------------------
(* The rule.                                                               *)

\* get_rules_for_collector
LoadRules(j) ==
  /\ run[j].at = "rules"
  /\ Set(j, IF rule.enabled
              THEN [at |-> "recover", failing |-> run[j].failing, rule |-> rule,
                    ill |-> run[j].ill]
              ELSE Idle)
  /\ UNCHANGED <<config, targetVars, findings, done, faults, turns>>

\* The rule's code raises or, in a process of its own, is killed when its time is over.
AnalyzeFails(j) ==
  /\ run[j].at = "rules" /\ rule.enabled /\ faults > 0 /\ faults' = faults - 1
  /\ Set(j, Idle)
  /\ UNCHANGED <<config, targetVars, findings, done, turns>>

\* deactivate_recovered_findings.
\* Mutant: nothing is closed when no target is failing.
RecoveredOfSome(failing) == IF failing = {} THEN {} ELSE Targets \ failing
Recovered(failing) == Targets \ failing

Recover(j) ==
  /\ run[j].at = "recover"
  /\ findings' = [t \in Targets |->
       [findings[t] EXCEPT !.active = IF t \in Recovered(run[j].failing) THEN 0 ELSE @]]
  /\ Set(j, [at |-> "finding", todo |-> run[j].failing, rule |-> run[j].rule])
  /\ UNCHANGED <<config, targetVars, done, faults, turns>>

\* finding_exists.
\* Mutant: a finding that was closed counts.
EverFound(t) == findings[t].made > 0
Exists(t) == findings[t].active > 0

CheckFinding(r) ==
  /\ run[r].at = "finding"
  /\ IF run[r].todo = {} THEN Set(r, Idle)
     ELSE \E t \in run[r].todo :
            Set(r, IF Exists(t) THEN [run[r] EXCEPT !.todo = @ \ {t}]
                   ELSE [at |-> "execute", todo |-> run[r].todo \ {t}, rule |-> run[r].rule,
                         target |-> t])
  /\ UNCHANGED <<config, targetVars, findings, done, faults, turns>>

\* What alert-manager is asked for; a switch whose nodes nobody knows is only reported.
TriageAlert(action) ==
  CASE action = "cordon_node" -> {"cordon"}
    [] action = "drain_node" -> {"drain"}
    [] action = "cordon_switch_nodes" -> {"cordon", "alert"}
    [] action = "alert" -> {"alert"}
JobAlert(action) == IF action = "stop_abnormal_job" THEN {"terminate"} ELSE {"none"}
Alerts(action) == IF action \in JobActions THEN JobAlert(action) ELSE TriageAlert(action)

\* execute_finding: whether the action was carried out depends on the confidence and on whoever
\* was asked, too; the caller does not look.  The stages submit_alert and auto_cordon ask for
\* the same (a stopped job is reported to somebody else).
InvestigatesIt(x) == x.stage = "create_task" \/ (x.stage # "log_only" /\ x.action = "create_task")
AlertsIt(x) == x.stage \in {"submit_alert", "auto_cordon"} /\ x.action # "create_task"

\* Mutant: an alert is sent again whatever the answer.
SentAgain(t) == {[sent EXCEPT ![t] = @ + 1], [sent EXCEPT ![t] = @ + 2]}
Sent(t) == {[sent EXCEPT ![t] = @ + 1]}

SendAlert(t, x) ==
  /\ AlertsIt(x) /\ sent' \in Sent(t)
  /\ \E a \in Alerts(x.action) : asked' = [asked EXCEPT ![t] = @ \cup {a}]
  /\ UNCHANGED <<task, faults>>

\* A task with the same title is found if it waits for an answer, and if the database answers.
CreateTask(t, x) ==
  /\ InvestigatesIt(x)
  /\ IF task[t] = "waiting_input" THEN faults > 0 /\ faults' = faults - 1 ELSE UNCHANGED faults
  /\ task' = [task EXCEPT ![t] = "running"] /\ sent' \in Sent(t) /\ UNCHANGED asked

Execute(r) ==
  /\ run[r].at = "execute"
  /\ \/ SendAlert(run[r].target, run[r].rule)
     \/ CreateTask(run[r].target, run[r].rule)
     \/ UNCHANGED <<done, faults>>
  /\ Set(r, [run[r] EXCEPT !.at = "insert"])
  /\ UNCHANGED <<config, targetVars, findings, turns>>

InsertFinding(r) ==
  /\ run[r].at = "insert"
  /\ findings' = [findings EXCEPT ![run[r].target] = [active |-> @.active + 1, made |-> @.made + 1]]
  /\ Set(r, [at |-> "finding", todo |-> run[r].todo, rule |-> run[r].rule])
  /\ UNCHANGED <<config, targetVars, done, faults, turns>>

\* test_rule_once with dry_run=False, whether or not the rule is enabled.
TestRuleOnce ==
  /\ Turn /\ run[Tool].at = "idle"
  /\ Set(Tool, [at |-> "collect", sources |-> coll.sources, rule |-> rule])
  /\ UNCHANGED <<config, targetVars, findings, done, faults>>

\* A session records what it saw in the rule's name; nothing is done about it.  Its answer to "the
\* same within 24 hours" may be any: the hours pass or not.  Of the actions a session may name the
\* rules use alert.
CreateFinding ==
  /\ Turn /\ rule.action = "alert"
  /\ \E t \in Targets :
       findings' = [findings EXCEPT ![t] = [active |-> @.active + 1, made |-> @.made + 1]]
  /\ UNCHANGED <<config, targetVars, done, run, faults>>

\* The process dies, or a step raises: of the rule nothing more is done.
Abandon(r) ==
  /\ run[r].at # "idle" /\ faults > 0 /\ faults' = faults - 1
  /\ Set(r, Idle)
  /\ UNCHANGED <<config, targetVars, findings, done, turns>>

-----------------------------------------------------------------------------
Init ==
  /\ coll \in [sources : Configs, enabled : BOOLEAN] /\ crontab = FALSE
  /\ rule \in [stage : Stages, action : Actions, enabled : {TRUE}]
  /\ sick = {} /\ cordoned = {}
  /\ findings = [t \in Targets |-> [active |-> 0, made |-> 0]]
  /\ sent = [t \in Targets |-> 0] /\ asked = [t \in Targets |-> {}]
  /\ task = [t \in Targets |-> "none"]
  /\ run = [r \in Runs |-> Idle]
  /\ faults = MaxFaults /\ turns = MaxTurns

Step(r) ==
  \/ Collect(r) \/ CollectRaises(r) \/ LoadRules(r) \/ Recover(r) \/ CheckFinding(r)
  \/ Execute(r) \/ InsertFinding(r)

Next ==
  \/ UpdateCollector \/ UpdateRule \/ SyncCrontab \/ Change \/ TaskTurns \/ TestRuleOnce
  \/ CreateFinding
  \/ \E j \in Processes : Tick(j) \/ AnalyzeFails(j)
  \/ \E r \in Runs : Step(r) \/ Abandon(r)

\* cron ticks every minute, the daemon looks every half minute, and a process that is not
\* killed goes on.
Fairness ==
  /\ WF_vars(SyncCrontab) /\ WF_vars(\E j \in Processes : Tick(j))
  /\ \A r \in Runs : WF_vars(Step(r))

Spec == Init /\ [][Next]_vars /\ Fairness

-----------------------------------------------------------------------------
(* Properties.                                                             *)

Rule == [stage : Stages, action : Actions, enabled : BOOLEAN]
Progress ==
  {Idle} \cup [at : {"collect"}, sources : Configs]
  \cup [at : {"collect"}, sources : Configs, rule : Rule]
  \cup [at : {"rules"}, failing : SUBSET Targets, ill : SUBSET Targets]
  \cup [at : {"recover"}, failing : SUBSET Targets, rule : Rule, ill : SUBSET Targets]
  \cup [at : {"finding"}, todo : SUBSET Targets, rule : Rule]
  \cup [at : {"execute", "insert"}, todo : SUBSET Targets, rule : Rule, target : Targets]

TypeOK ==
  /\ coll \in [sources : Configs, enabled : BOOLEAN] /\ crontab \in BOOLEAN /\ rule \in Rule
  /\ sick \subseteq Targets /\ cordoned \subseteq Targets
  /\ findings \in [Targets -> [active : Nat, made : Nat]] /\ sent \in [Targets -> Nat]
  /\ asked \in [Targets -> SUBSET {"cordon", "drain", "alert", "terminate", "none"}]
  /\ task \in [Targets -> {"none", "running", "waiting_input"}]
  /\ run \in [Runs -> Progress]
  /\ faults \in 0 .. MaxFaults /\ turns \in 0 .. MaxTurns

\* An action is repeated only for a finding that was made again: what was carried out is
\* accounted for by a finding, by the run that is about to insert it, or by a run that was lost
\* in between.
About(t) == Cardinality({r \in Runs : run[r].at = "insert" /\ run[r].target = t})
BoundedRepeats ==
  \A t \in Targets : sent[t] <= findings[t].made + About(t) + MaxFaults - faults

\* A target that falls ill and stays so, in view of an enabled collector, is recorded in the
\* end, also after it was closed before, and stays recorded.
InView(t) ==
  t \in sick /\ t \notin cordoned /\ Shows[t] \in coll.sources /\ coll.enabled /\ rule.enabled
DetectsSick == \A t \in Targets : <>[]InView(t) => <>[](findings[t].active > 0)

\* A target that recovers has no active finding in the end.
ClosesRecovered ==
  \A t \in Targets :
    <>[](t \notin sick /\ coll.enabled /\ rule.enabled) => <>[](findings[t].active = 0)

\* "targets NOT in the findings have recovered": a finding is closed only for a target that was
\* not sick when the run asked its sources.
ClosedMeansRecovered ==
  [][\A j \in Processes : Recover(j) =>
       \A t \in run[j].ill : findings'[t].active = findings[t].active]_vars

\* "submit_alert: Findings -> alert (no cordon)", "stop_abnormal_job demoted to
\* notify_abnormal_job": only a rule of stage auto_cordon cordons, drains or stops anything.
OnlyAutoCordonActs ==
  [][\A r \in Runs, t \in Targets :
       Execute(r) /\ asked'[t] # asked[t] /\ run[r].rule.stage # "auto_cordon" =>
         (asked'[t] \ asked[t]) \cap {"cordon", "drain", "terminate"} = {}]_vars
=============================================================================
