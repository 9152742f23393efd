----------------------------- MODULE PatrolProofs -----------------------------
(***************************************************************************)
(* patrol-cron.  PatrolRun: for any number of targets, processes, faults   *)
(* and changes, an action is repeated only as often as findings were made  *)
(* again or runs were lost.  PatrolRules: what a built-in rule accuses a   *)
(* node or a switch of rests on what happened to it, whatever the fleet,   *)
(* the thresholds and the order of failures.                               *)
(***************************************************************************)
EXTENDS PatrolRun, PatrolRules, FiniteSetTheorems, TLAPS

-----------------------------------------------------------------------------
(* A run of a collector.                                                   *)

\* What the tool is at while it collects: it has taken its rule along.
ToolCollects == [at : {"collect"}, sources : Configs, rule : Rule]
ToolHasRule == run[Tool].at = "collect" => run[Tool] \in ToolCollects

RunInv == TypeOK /\ ToolHasRule /\ BoundedRepeats

LEMMA RunsFinite == IsFiniteSet(Runs)
BY PatrolAssumption, FS_AddElement DEF Runs

LEMMA ToolRuns == Tool \in Runs /\ Tool \notin Processes
BY PatrolAssumption DEF Runs, Tool

\* Where a run is fixes what it has with it.
LEMMA Carries ==
  ASSUME NEW x \in Progress
  PROVE  /\ x.at \in {"idle", "collect", "rules", "recover", "finding", "execute", "insert"}
         /\ x.at = "collect" => x.sources \in Configs
         /\ x.at = "rules" => x.failing \subseteq Targets /\ x.ill \subseteq Targets
         /\ x.at = "recover" => x.failing \subseteq Targets /\ x.rule \in Rule
         /\ x.at = "finding" => x \in [at : {"finding"}, todo : SUBSET Targets, rule : Rule]
         /\ x.at \in {"execute", "insert"} =>
              x \in [at : {"execute", "insert"}, todo : SUBSET Targets, rule : Rule,
                     target : Targets]
<1>1. CASE x = Idle
  BY <1>1 DEF Idle
<1>2. CASE x \in [at : {"collect"}, sources : Configs]
  BY <1>2
<1>3. CASE x \in [at : {"collect"}, sources : Configs, rule : Rule]
  BY <1>3
<1>4. CASE x \in [at : {"rules"}, failing : SUBSET Targets, ill : SUBSET Targets]
  BY <1>4
<1>5. CASE x \in [at : {"recover"}, failing : SUBSET Targets, rule : Rule, ill : SUBSET Targets]
  BY <1>5
<1>6. CASE x \in [at : {"finding"}, todo : SUBSET Targets, rule : Rule]
  BY <1>6
<1>7. CASE x \in [at : {"execute", "insert"}, todo : SUBSET Targets, rule : Rule,
                  target : Targets]
  BY <1>7
<1> QED BY <1>1, <1>2, <1>3, <1>4, <1>5, <1>6, <1>7 DEF Progress

\* A run that goes on to a place it may be at.
LEMMA GoesOn ==
  ASSUME TypeOK, ToolHasRule, NEW r \in Runs, NEW x \in Progress, Set(r, x),
         r = Tool /\ x.at = "collect" => x \in ToolCollects
  PROVE  run' \in [Runs -> Progress] /\ ToolHasRule'
<1>1. run \in [Runs -> Progress]
  BY DEF TypeOK
<1>2. run' = [run EXCEPT ![r] = x]
  BY DEF Set
<1>3. run' \in [Runs -> Progress]
  BY <1>1, <1>2
<1>4. run'[Tool] = IF r = Tool THEN x ELSE run[Tool]
  BY <1>1, <1>2, ToolRuns
<1>5. ToolHasRule'
  BY <1>4, ToolRuns DEF ToolHasRule, ToolCollects
<1> QED BY <1>3, <1>5

\* Who is about to insert a finding of a target.
LEMMA AboutIsFinite ==
  ASSUME NEW t
  PROVE  About(t) \in Nat /\ IsFiniteSet({r \in Runs : run[r].at = "insert" /\ run[r].target = t})
<1> DEFINE S == {r \in Runs : run[r].at = "insert" /\ run[r].target = t}
<1>1. S \subseteq Runs
  OBVIOUS
<1>2. IsFiniteSet(S)
  BY <1>1, RunsFinite, FS_Subset
<1>3. Cardinality(S) \in Nat
  BY <1>2, FS_CardinalityType
<1> QED BY <1>2, <1>3 DEF About

LEMMA AboutKept ==
  ASSUME TypeOK, NEW r \in Runs, NEW x, Set(r, x), run[r].at # "insert", x.at # "insert", NEW t
  PROVE  About(t)' = About(t)
<1>1. {i \in Runs : run'[i].at = "insert" /\ run'[i].target = t}
      = {i \in Runs : run[i].at = "insert" /\ run[i].target = t}
  BY DEF TypeOK, Set
<1> QED BY <1>1 DEF About

LEMMA AboutGrows ==
  ASSUME TypeOK, NEW r \in Runs, NEW x, Set(r, x), run[r].at # "insert", x.at = "insert", NEW t
  PROVE  About(t)' = IF t = x.target THEN About(t) + 1 ELSE About(t)
<1> DEFINE S == {i \in Runs : run[i].at = "insert" /\ run[i].target = t}
           T == {i \in Runs : run'[i].at = "insert" /\ run'[i].target = t}
<1>1. T = IF t = x.target THEN S \cup {r} ELSE S
  BY DEF TypeOK, Set
<1>2. r \notin S /\ IsFiniteSet(S)
  BY AboutIsFinite
<1>3. Cardinality(S \cup {r}) = Cardinality(S) + 1
  BY <1>2, FS_AddElement
<1> QED BY <1>1, <1>3 DEF About

LEMMA AboutShrinks ==
  ASSUME TypeOK, NEW r \in Runs, NEW x, Set(r, x), run[r].at = "insert", x.at # "insert", NEW t
  PROVE  About(t)' = IF t = run[r].target THEN About(t) - 1 ELSE About(t)
<1> DEFINE S == {i \in Runs : run[i].at = "insert" /\ run[i].target = t}
           T == {i \in Runs : run'[i].at = "insert" /\ run'[i].target = t}
<1>1. T = IF t = run[r].target THEN S \ {r} ELSE S
  BY DEF TypeOK, Set
<1>2. t = run[r].target => r \in S
  OBVIOUS
<1>3. IsFiniteSet(S)
  BY AboutIsFinite
<1>4. t = run[r].target => Cardinality(S \ {r}) = Cardinality(S) - 1
  BY <1>2, <1>3, FS_RemoveElement
<1> QED BY <1>1, <1>4 DEF About

\* What the repeats are held against when neither actions nor findings are touched.
LEMMA RepeatsKept ==
  ASSUME TypeOK, BoundedRepeats, UNCHANGED sent,
         \A t \in Targets : findings'[t].made = findings[t].made,
         faults' \in Int, faults' <= faults,
         \A t \in Targets : About(t)' >= About(t) + faults' - faults
  PROVE  BoundedRepeats'
<1> SUFFICES ASSUME NEW t \in Targets
             PROVE  sent'[t] <= findings'[t].made + About(t)' + MaxFaults - faults'
  BY DEF BoundedRepeats
<1>1. sent[t] <= findings[t].made + About(t) + MaxFaults - faults
  BY DEF BoundedRepeats
<1>2. sent[t] \in Nat /\ findings[t].made \in Nat /\ faults \in Int /\ MaxFaults \in Int
  BY PatrolAssumption DEF TypeOK
<1>3. About(t) \in Nat
  BY AboutIsFinite
<1>4. About(t)' \in Nat
  <2>1. {i \in Runs : run'[i].at = "insert" /\ run'[i].target = t} \subseteq Runs
    OBVIOUS
  <2> QED BY <2>1, RunsFinite, FS_Subset, FS_CardinalityType DEF About
<1> QED BY <1>1, <1>2, <1>3, <1>4

\* Configuration and world turn: no run moves.
LEMMA TurnsKeep ==
  ASSUME RunInv, UpdateCollector \/ UpdateRule \/ SyncCrontab \/ Change \/ TaskTurns
  PROVE  RunInv'
<1> USE DEF RunInv
<1>1. UNCHANGED <<findings, sent, run, faults>>
  BY DEF UpdateCollector, UpdateRule, SyncCrontab, Change, TaskTurns, done
<1>2. ToolHasRule' /\ BoundedRepeats'
  BY <1>1 DEF ToolHasRule, BoundedRepeats, About
<1>3. ASSUME Turn PROVE turns' \in 0 .. MaxTurns
  BY <1>3, PatrolAssumption DEF TypeOK, Turn
<1>4. TypeOK'
  <2>1. CASE UpdateCollector
    BY <2>1, <1>3 DEF TypeOK, UpdateCollector, targetVars, done
  <2>2. CASE UpdateRule
    <3>1. PICK s \in Stages, e \in BOOLEAN : rule' = [rule EXCEPT !.stage = s, !.enabled = e]
      BY <2>2 DEF UpdateRule
    <3>2. rule' \in Rule
      BY <3>1 DEF TypeOK, Rule
    <3> QED BY <2>2, <3>2, <1>3 DEF TypeOK, UpdateRule, targetVars, done
  <2>3. CASE SyncCrontab
    <3>1. coll.enabled \in BOOLEAN
      BY DEF TypeOK
    <3> QED BY <2>3, <3>1 DEF TypeOK, SyncCrontab, targetVars, done
  <2>4. CASE Change
    <3>1. sick' \subseteq Targets /\ cordoned' \subseteq Targets
      BY <2>4 DEF Change, TypeOK
    <3> QED BY <2>4, <3>1, <1>3 DEF TypeOK, Change, config, done
  <2>5. CASE TaskTurns
    <3>1. task' \in [Targets -> {"none", "running", "waiting_input"}]
      BY <2>5 DEF TaskTurns, TypeOK
    <3> QED BY <2>5, <3>1, <1>3 DEF TypeOK, TaskTurns, config, targetVars
  <2> QED BY <2>1, <2>2, <2>3, <2>4, <2>5
<1> QED BY <1>2, <1>4

\* A run that moves without acting and without recording.
LEMMA MoveKeeps ==
  ASSUME RunInv, NEW r \in Runs, NEW x \in Progress, Set(r, x),
         r = Tool /\ x.at = "collect" => x \in ToolCollects,
         run[r].at # "insert", x.at # "insert",
         UNCHANGED <<config, targetVars, findings, done>>,
         faults' \in 0 .. faults, turns' \in 0 .. MaxTurns
  PROVE  RunInv'
<1> USE DEF RunInv
<1>1. run' \in [Runs -> Progress] /\ ToolHasRule'
  BY GoesOn
<1>2. faults \in 0 .. MaxFaults /\ faults' \in 0 .. MaxFaults /\ faults' <= faults
  BY PatrolAssumption DEF TypeOK
<1>3. TypeOK'
  BY <1>1, <1>2 DEF TypeOK, config, targetVars, done
<1>4. \A t : About(t)' = About(t) /\ About(t) \in Nat
  BY AboutKept, AboutIsFinite
<1>5. BoundedRepeats'
  <2>1. UNCHANGED <<findings, sent>>
    BY DEF done
  <2>2. \A t \in Targets : About(t)' >= About(t) + faults' - faults
    BY <1>4, <1>2
  <2> QED BY <2>1, <2>2, <1>2, RepeatsKept
<1> QED BY <1>1, <1>3, <1>5

LEMMA TickKeeps ==
  ASSUME RunInv, NEW j \in Processes, Tick(j)
  PROVE  RunInv'
<1> DEFINE x == [at |-> "collect", sources |-> coll.sources]
<1>1. coll.sources \in Configs /\ faults \in 0 .. MaxFaults /\ turns \in 0 .. MaxTurns
  BY DEF RunInv, TypeOK
<1>2. x \in Progress
  BY <1>1 DEF Progress
<1>3. j \in Runs /\ j # Tool
  BY ToolRuns DEF Runs
<1>4. run[j].at = "idle" /\ UNCHANGED <<config, targetVars, findings, done, faults, turns>> /\ Set(j, x)
  BY DEF Tick, FirstIdle
<1>5. faults' \in 0 .. faults
  BY <1>1, <1>4
<1> HIDE DEF x
<1>6. x.at = "collect"
  BY DEF x
<1> QED BY <1>1, <1>2, <1>3, <1>4, <1>5, <1>6, MoveKeeps

LEMMA TestRuleOnceKeeps ==
  ASSUME RunInv, TestRuleOnce
  PROVE  RunInv'
<1> DEFINE x == [at |-> "collect", sources |-> coll.sources, rule |-> rule]
<1>1. /\ coll.sources \in Configs /\ rule \in Rule
      /\ faults \in 0 .. MaxFaults /\ turns \in 0 .. MaxTurns
  BY DEF RunInv, TypeOK
<1>2. x \in Progress /\ x \in ToolCollects /\ x.at = "collect"
  BY <1>1 DEF Progress, ToolCollects
<1>3. Tool \in Runs
  BY ToolRuns
<1>4. run[Tool].at = "idle" /\ UNCHANGED <<config, targetVars, findings, done, faults>> /\ Set(Tool, x)
  BY DEF TestRuleOnce
<1>5. faults' \in 0 .. faults
  BY <1>1, <1>4
<1>6. turns' \in 0 .. MaxTurns
  BY <1>1, PatrolAssumption DEF TestRuleOnce, Turn
<1> HIDE DEF x
<1> QED BY <1>2, <1>3, <1>4, <1>5, <1>6, MoveKeeps

\* A fault ends a run; before an insertion it is paid for by the finding that is not made.
LEMMA IdleKeeps ==
  ASSUME RunInv, NEW r \in Runs, Set(r, Idle), UNCHANGED <<config, targetVars, findings, done, turns>>,
         faults > 0, faults' = faults - 1
  PROVE  RunInv'
<1> USE DEF RunInv
<1>1. Idle \in Progress /\ Idle.at = "idle"
  BY DEF Progress, Idle
<1>2. run' \in [Runs -> Progress] /\ ToolHasRule'
  BY <1>1, GoesOn
<1>3. faults \in 0 .. MaxFaults /\ faults' \in 0 .. MaxFaults /\ faults' <= faults
  BY PatrolAssumption DEF TypeOK
<1>4. TypeOK'
  BY <1>2, <1>3 DEF TypeOK, config, targetVars, done
<1>5. \A t : About(t) \in Nat /\ About(t)' >= About(t) - 1
  <2> TAKE t
  <2>1. About(t) \in Nat
    BY AboutIsFinite
  <2>2. CASE run[r].at = "insert"
    BY <2>1, <2>2, <1>1, AboutShrinks
  <2>3. CASE run[r].at # "insert"
    BY <2>1, <2>3, <1>1, AboutKept
  <2> QED BY <2>1, <2>2, <2>3
<1>6. BoundedRepeats'
  <2>1. UNCHANGED <<findings, sent>>
    BY DEF done
  <2>2. \A t \in Targets : About(t)' >= About(t) + faults' - faults
    BY <1>5, <1>3
  <2> QED BY <2>1, <2>2, <1>3, RepeatsKept
<1> QED BY <1>2, <1>4, <1>6

LEMMA FaultsKeep ==
  ASSUME RunInv, NEW r \in Runs, CollectRaises(r) \/ AnalyzeFails(r) \/ Abandon(r)
  PROVE  RunInv'
<1>1. Set(r, Idle) /\ UNCHANGED <<config, targetVars, findings, done, turns>>
  BY DEF CollectRaises, AnalyzeFails, Abandon
<1>2. faults > 0 /\ faults' = faults - 1
  BY DEF CollectRaises, AnalyzeFails, Abandon
<1> QED BY <1>1, <1>2, IdleKeeps

LEMMA CollectKeeps ==
  ASSUME RunInv, NEW r \in Runs, Collect(r)
  PROVE  RunInv'
<1>1. PICK got \in Merged(run[r].sources) :
        /\ faults' = IF Full(run[r].sources, got) THEN faults ELSE faults - 1
        /\ Set(r, IF r = Tool
                   THEN [at |-> "finding", todo |-> Judged(run[r].sources, got),
                         rule |-> run[r].rule]
                   ELSE [at |-> "rules", failing |-> Judged(run[r].sources, got), ill |-> sick])
  BY DEF Collect
<1>2. /\ run[r].at = "collect" /\ faults' >= 0
      /\ UNCHANGED <<config, targetVars, findings, done, turns>>
  BY DEF Collect
<1>3. /\ sick \subseteq Targets /\ faults \in 0 .. MaxFaults /\ turns \in 0 .. MaxTurns
  BY DEF RunInv, TypeOK
<1>4. faults' \in 0 .. faults /\ turns' \in 0 .. MaxTurns
  BY <1>1, <1>2, <1>3
<1>5. Judged(run[r].sources, got) \subseteq Targets
  BY <1>3 DEF Judged
<1>6. CASE r = Tool
  <2> DEFINE x == [at |-> "finding", todo |-> Judged(run[r].sources, got), rule |-> run[r].rule]
  <2>1. run[r].rule \in Rule
    BY <1>2, <1>6 DEF RunInv, ToolHasRule, ToolCollects
  <2>2. x \in Progress /\ x.at = "finding"
    BY <1>5, <2>1 DEF Progress
  <2>3. Set(r, x)
    BY <1>1, <1>6
  <2> HIDE DEF x
  <2> QED BY <1>2, <1>4, <2>2, <2>3, MoveKeeps
<1>7. CASE r # Tool
  <2> DEFINE x == [at |-> "rules", failing |-> Judged(run[r].sources, got), ill |-> sick]
  <2>1. x \in Progress /\ x.at = "rules"
    BY <1>3, <1>5 DEF Progress
  <2>2. Set(r, x)
    BY <1>1, <1>7
  <2> HIDE DEF x
  <2> QED BY <1>2, <1>4, <2>1, <2>2, MoveKeeps
<1> QED BY <1>6, <1>7

LEMMA LoadRulesKeeps ==
  ASSUME RunInv, NEW r \in Runs, LoadRules(r)
  PROVE  RunInv'
<1> DEFINE x == IF rule.enabled
                  THEN [at |-> "recover", failing |-> run[r].failing, rule |-> rule,
                        ill |-> run[r].ill]
                  ELSE Idle
<1>1. /\ run[r] \in Progress /\ rule \in Rule
      /\ faults \in 0 .. MaxFaults /\ turns \in 0 .. MaxTurns
  BY DEF RunInv, TypeOK
<1>2. /\ run[r].at = "rules" /\ Set(r, x)
      /\ UNCHANGED <<config, targetVars, findings, done, faults, turns>>
  BY DEF LoadRules
<1>3. run[r].failing \subseteq Targets /\ run[r].ill \subseteq Targets
  BY <1>1, <1>2, Carries
<1>4. x \in Progress /\ x.at \in {"recover", "idle"}
  BY <1>1, <1>3 DEF Progress, Idle
<1>5. faults' \in 0 .. faults
  BY <1>1, <1>2
<1> HIDE DEF x
<1> QED BY <1>1, <1>2, <1>4, <1>5, MoveKeeps

LEMMA CheckFindingKeeps ==
  ASSUME RunInv, NEW r \in Runs, CheckFinding(r)
  PROVE  RunInv'
<1>1. /\ run[r] \in Progress /\ run[r].at = "finding"
      /\ UNCHANGED <<config, targetVars, findings, done, faults, turns>>
      /\ faults \in 0 .. MaxFaults /\ turns \in 0 .. MaxTurns
  BY DEF RunInv, TypeOK, CheckFinding
<1>2. run[r] \in [at : {"finding"}, todo : SUBSET Targets, rule : Rule]
  BY <1>1, Carries
<1>3. faults' \in 0 .. faults
  BY <1>1
<1>4. CASE run[r].todo = {}
  <2>1. Set(r, Idle) /\ Idle \in Progress /\ Idle.at = "idle"
    BY <1>4 DEF CheckFinding, Progress, Idle
  <2> QED BY <1>1, <1>3, <2>1, MoveKeeps
<1>5. CASE run[r].todo # {}
  <2>1. PICK t \in run[r].todo :
          Set(r, IF Exists(t) THEN [run[r] EXCEPT !.todo = @ \ {t}]
                 ELSE [at |-> "execute", todo |-> run[r].todo \ {t}, rule |-> run[r].rule,
                       target |-> t])
    BY <1>5 DEF CheckFinding
  <2>2. CASE Exists(t)
    <3> DEFINE x == [run[r] EXCEPT !.todo = @ \ {t}]
    <3>1. x \in [at : {"finding"}, todo : SUBSET Targets, rule : Rule]
      BY <1>2
    <3>2. x \in Progress /\ x.at = "finding" /\ Set(r, x)
      BY <3>1, <2>1, <2>2 DEF Progress
    <3> HIDE DEF x
    <3> QED BY <1>1, <1>3, <3>2, MoveKeeps
  <2>3. CASE ~Exists(t)
    <3> DEFINE x == [at |-> "execute", todo |-> run[r].todo \ {t}, rule |-> run[r].rule,
                     target |-> t]
    <3>1. x \in [at : {"execute", "insert"}, todo : SUBSET Targets, rule : Rule,
                 target : Targets]
      BY <1>2
    <3>2. x \in Progress /\ x.at = "execute" /\ Set(r, x)
      BY <3>1, <2>1, <2>3 DEF Progress
    <3> HIDE DEF x
    <3> QED BY <1>1, <1>3, <3>2, MoveKeeps
  <2> QED BY <2>2, <2>3
<1> QED BY <1>4, <1>5

LEMMA RecoverKeeps ==
  ASSUME RunInv, NEW r \in Runs, Recover(r)
  PROVE  RunInv'
<1> USE DEF RunInv
<1> DEFINE x == [at |-> "finding", todo |-> run[r].failing, rule |-> run[r].rule]
<1>1. /\ run[r] \in Progress /\ run[r].at = "recover" /\ Set(r, x)
      /\ UNCHANGED <<config, targetVars, done, faults, turns>>
  BY DEF TypeOK, Recover
<1>2. run[r].failing \subseteq Targets /\ run[r].rule \in Rule
  BY <1>1, Carries
<1>3. x \in Progress /\ x.at = "finding"
  BY <1>2 DEF Progress
<1>4. /\ findings' \in [Targets -> [active : Nat, made : Nat]]
      /\ \A t \in Targets : findings'[t].made = findings[t].made
  <2>1. findings \in [Targets -> [active : Nat, made : Nat]]
    BY DEF TypeOK
  <2>2. findings' = [t \in Targets |->
          [findings[t] EXCEPT !.active = IF t \in Recovered(run[r].failing) THEN 0 ELSE @]]
    BY DEF Recover
  <2>3. \A t \in Targets :
          /\ findings'[t] \in [active : Nat, made : Nat]
          /\ findings'[t].made = findings[t].made
    <3> TAKE t \in Targets
    <3>1. findings[t] \in [active : Nat, made : Nat]
      BY <2>1
    <3>2. findings'[t] =
            [findings[t] EXCEPT !.active = IF t \in Recovered(run[r].failing) THEN 0 ELSE @]
      BY <2>2
    <3> QED BY <3>1, <3>2
  <2> QED BY <2>2, <2>3
<1> HIDE DEF x
<1>5. run' \in [Runs -> Progress] /\ ToolHasRule'
  BY <1>1, <1>3, GoesOn
<1>6. TypeOK'
  BY <1>1, <1>4, <1>5 DEF TypeOK, config, targetVars, done
<1>7. \A t : About(t)' = About(t) /\ About(t) \in Nat
  BY <1>1, <1>3, AboutKept, AboutIsFinite
<1>8. BoundedRepeats'
  <2>1. UNCHANGED sent /\ faults' \in Int /\ faults' <= faults
    BY <1>1 DEF done, TypeOK
  <2>2. \A t \in Targets : About(t)' >= About(t) + faults' - faults
    BY <1>1, <1>7, <2>1
  <2> QED BY <1>4, <2>1, <2>2, RepeatsKept
<1> QED BY <1>5, <1>6, <1>8

\* What alert-manager is asked for.
LEMMA AlertsTyped ==
  ASSUME NEW x \in Rule, AlertsIt(x)
  PROVE  Alerts(x.action) \subseteq {"cordon", "drain", "alert", "terminate", "none"}
<1>1. x.action \in JobActions \cup {"cordon_node", "drain_node", "cordon_switch_nodes", "alert"}
  BY PatrolAssumption DEF Rule, AlertsIt, InfraActions
<1>2. CASE x.action \in JobActions
  BY <1>2 DEF Alerts, JobAlert
<1>3. CASE x.action \notin JobActions
  <2>1. x.action \in {"cordon_node", "drain_node", "cordon_switch_nodes", "alert"}
    BY <1>1, <1>3
  <2>2. TriageAlert(x.action) \subseteq {"cordon", "drain", "alert"}
    BY <2>1 DEF TriageAlert
  <2> QED BY <1>3, <2>2 DEF Alerts
<1> QED BY <1>2, <1>3

\* One execution carries out at most one action, of its target.
LEMMA ExecuteCounts ==
  ASSUME RunInv, NEW r \in Runs, Execute(r)
  PROVE  /\ sent' \in [Targets -> Nat]
         /\ asked' \in [Targets -> SUBSET {"cordon", "drain", "alert", "terminate", "none"}]
         /\ task' \in [Targets -> {"none", "running", "waiting_input"}]
         /\ faults' \in 0 .. faults
         /\ \A t \in Targets :
              sent'[t] <= sent[t] + (IF t = run[r].target THEN 1 ELSE 0)
<1> DEFINE t0 == run[r].target
           x == run[r].rule
<1>1. /\ sent \in [Targets -> Nat] /\ task \in [Targets -> {"none", "running", "waiting_input"}]
      /\ asked \in [Targets -> SUBSET {"cordon", "drain", "alert", "terminate", "none"}]
      /\ faults \in 0 .. MaxFaults /\ MaxFaults \in Nat
      /\ run[r] \in Progress /\ run[r].at = "execute"
  BY PatrolAssumption DEF RunInv, TypeOK, Execute
<1>2. x \in Rule /\ t0 \in Targets
  BY <1>1, Carries
<1>3. sent' = [sent EXCEPT ![t0] = @ + 1] \/ UNCHANGED sent
  BY DEF Execute, SendAlert, CreateTask, Sent, done
<1>4. /\ sent' \in [Targets -> Nat]
      /\ \A t \in Targets : sent'[t] <= sent[t] + (IF t = t0 THEN 1 ELSE 0)
  BY <1>1, <1>3
<1>5. CASE SendAlert(t0, x)
  <2>1. PICK a \in Alerts(x.action) : asked' = [asked EXCEPT ![t0] = @ \cup {a}]
    BY <1>5 DEF SendAlert
  <2>2. Alerts(x.action) \subseteq {"cordon", "drain", "alert", "terminate", "none"}
    BY <1>2, <1>5, AlertsTyped DEF SendAlert
  <2>3. asked' \in [Targets -> SUBSET {"cordon", "drain", "alert", "terminate", "none"}]
    BY <1>1, <2>1, <2>2
  <2>4. UNCHANGED <<task, faults>>
    BY <1>5 DEF SendAlert
  <2> QED BY <1>1, <1>4, <2>3, <2>4
<1>6. CASE CreateTask(t0, x)
  <2>1. task' \in [Targets -> {"none", "running", "waiting_input"}] /\ UNCHANGED asked
    BY <1>1, <1>6 DEF CreateTask
  <2>2. faults' \in 0 .. faults
    BY <1>1, <1>6 DEF CreateTask
  <2> QED BY <1>1, <1>4, <2>1, <2>2
<1>7. CASE UNCHANGED <<done, faults>>
  BY <1>1, <1>4, <1>7 DEF done
<1> QED BY <1>5, <1>6, <1>7 DEF Execute

LEMMA ExecuteKeeps ==
  ASSUME RunInv, NEW r \in Runs, Execute(r)
  PROVE  RunInv'
<1> USE DEF RunInv
<1> DEFINE x == [run[r] EXCEPT !.at = "insert"]
<1>1. /\ run[r] \in Progress /\ run[r].at = "execute" /\ Set(r, x)
      /\ UNCHANGED <<config, targetVars, findings, turns>>
  BY DEF TypeOK, Execute
<1>2. run[r] \in [at : {"execute", "insert"}, todo : SUBSET Targets, rule : Rule,
                  target : Targets]
  BY <1>1, Carries
<1>3. /\ x \in [at : {"execute", "insert"}, todo : SUBSET Targets, rule : Rule,
                target : Targets]
      /\ x.at = "insert" /\ x.target = run[r].target
  BY <1>2
<1>4. x \in Progress
  BY <1>3 DEF Progress
<1> HIDE DEF x
<1>5. run' \in [Runs -> Progress] /\ ToolHasRule'
  BY <1>1, <1>3, <1>4, GoesOn
<1>6. TypeOK'
  <2>1. faults' \in 0 .. MaxFaults
    BY ExecuteCounts, PatrolAssumption DEF TypeOK
  <2> QED BY <1>1, <1>5, <2>1, ExecuteCounts DEF TypeOK, config, targetVars
<1>7. BoundedRepeats'
  <2> SUFFICES ASSUME NEW t \in Targets
               PROVE  sent'[t] <= findings'[t].made + About(t)' + MaxFaults - faults'
    BY DEF BoundedRepeats
  <2>1. sent[t] <= findings[t].made + About(t) + MaxFaults - faults
    BY DEF BoundedRepeats
  <2>2. (About(t)' = IF t = run[r].target THEN About(t) + 1 ELSE About(t)) /\ About(t) \in Nat
    <3>1. run[r].at # "insert"
      BY <1>1
    <3>2. About(t)' = IF t = x.target THEN About(t) + 1 ELSE About(t)
      BY <1>1, <1>3, <3>1, AboutGrows
    <3> QED BY <1>3, <3>2, AboutIsFinite
  <2>3. sent'[t] <= sent[t] + (IF t = run[r].target THEN 1 ELSE 0) /\ faults' \in 0 .. faults
    BY ExecuteCounts
  <2>4. /\ sent[t] \in Nat /\ sent'[t] \in Nat /\ findings[t].made \in Nat
        /\ faults \in Nat /\ MaxFaults \in Nat
    BY <1>6, PatrolAssumption DEF TypeOK
  <2> QED BY <1>1, <2>1, <2>2, <2>3, <2>4
<1> QED BY <1>5, <1>6, <1>7

\* A finding more.
LEMMA OneFindingMore ==
  ASSUME TypeOK, NEW t \in Targets,
         findings' = [findings EXCEPT ![t] = [active |-> @.active + 1, made |-> @.made + 1]]
  PROVE  /\ findings' \in [Targets -> [active : Nat, made : Nat]]
         /\ \A u \in Targets : findings'[u].made = findings[u].made + (IF u = t THEN 1 ELSE 0)
<1>1. findings \in [Targets -> [active : Nat, made : Nat]]
  BY DEF TypeOK
<1>2. \A u \in Targets :
        findings'[u] = IF u = t THEN [active |-> findings[t].active + 1,
                                      made |-> findings[t].made + 1] ELSE findings[u]
  BY <1>1
<1>3. [active |-> findings[t].active + 1, made |-> findings[t].made + 1]
        \in [active : Nat, made : Nat]
  BY <1>1
<1> QED BY <1>1, <1>2, <1>3

LEMMA InsertFindingKeeps ==
  ASSUME RunInv, NEW r \in Runs, InsertFinding(r)
  PROVE  RunInv'
<1> USE DEF RunInv
<1> DEFINE x == [at |-> "finding", todo |-> run[r].todo, rule |-> run[r].rule]
           t0 == run[r].target
<1>1. /\ run[r] \in Progress /\ run[r].at = "insert" /\ Set(r, x)
      /\ findings' = [findings EXCEPT ![t0] = [active |-> @.active + 1, made |-> @.made + 1]]
      /\ UNCHANGED <<config, targetVars, done, faults, turns>>
  BY DEF TypeOK, InsertFinding
<1>2. run[r].todo \subseteq Targets /\ run[r].rule \in Rule /\ t0 \in Targets
  BY <1>1, Carries
<1>3. x \in Progress /\ x.at = "finding"
  BY <1>2 DEF Progress
<1> HIDE DEF x
<1>4. run' \in [Runs -> Progress] /\ ToolHasRule'
  BY <1>1, <1>3, GoesOn
<1>5. /\ findings' \in [Targets -> [active : Nat, made : Nat]]
      /\ \A u \in Targets : findings'[u].made = findings[u].made + (IF u = t0 THEN 1 ELSE 0)
  BY <1>1, <1>2, OneFindingMore
<1>6. TypeOK'
  BY <1>1, <1>4, <1>5 DEF TypeOK, config, targetVars, done
<1>7. BoundedRepeats'
  <2> SUFFICES ASSUME NEW t \in Targets
               PROVE  sent'[t] <= findings'[t].made + About(t)' + MaxFaults - faults'
    BY DEF BoundedRepeats
  <2>1. sent[t] <= findings[t].made + About(t) + MaxFaults - faults
    BY DEF BoundedRepeats
  <2>2. (About(t)' = IF t = t0 THEN About(t) - 1 ELSE About(t)) /\ About(t) \in Nat
    <3>1. x.at # "insert"
      BY <1>3
    <3>2. About(t)' = IF t = run[r].target THEN About(t) - 1 ELSE About(t)
      BY <1>1, <3>1, AboutShrinks
    <3> QED BY <3>2, AboutIsFinite
  <2>3. sent[t] \in Nat /\ findings[t].made \in Nat /\ faults \in Nat /\ MaxFaults \in Nat
    BY PatrolAssumption DEF TypeOK
  <2>4. sent' = sent /\ faults' = faults
    BY <1>1 DEF done
  <2> QED BY <1>5, <2>1, <2>2, <2>3, <2>4
<1> QED BY <1>4, <1>6, <1>7

LEMMA CreateFindingKeeps ==
  ASSUME RunInv, CreateFinding
  PROVE  RunInv'
<1> USE DEF RunInv
<1>1. PICK t0 \in Targets :
        findings' = [findings EXCEPT ![t0] = [active |-> @.active + 1, made |-> @.made + 1]]
  BY DEF CreateFinding
<1>2. UNCHANGED <<config, targetVars, done, run, faults>> /\ turns' \in 0 .. MaxTurns
  BY PatrolAssumption DEF CreateFinding, Turn, TypeOK
<1>3. /\ findings' \in [Targets -> [active : Nat, made : Nat]]
      /\ \A u \in Targets : findings'[u].made = findings[u].made + (IF u = t0 THEN 1 ELSE 0)
  BY <1>1, OneFindingMore
<1>4. TypeOK' /\ ToolHasRule'
  BY <1>2, <1>3 DEF TypeOK, ToolHasRule, config, targetVars, done
<1>5. BoundedRepeats'
  <2> SUFFICES ASSUME NEW t \in Targets
               PROVE  sent'[t] <= findings'[t].made + About(t)' + MaxFaults - faults'
    BY DEF BoundedRepeats
  <2>1. sent[t] <= findings[t].made + About(t) + MaxFaults - faults
    BY DEF BoundedRepeats
  <2>2. About(t)' = About(t) /\ About(t) \in Nat
    BY <1>2, AboutIsFinite DEF About
  <2>3. sent[t] \in Nat /\ findings[t].made \in Nat /\ faults \in Nat /\ MaxFaults \in Nat
    BY PatrolAssumption DEF TypeOK
  <2>4. sent' = sent /\ faults' = faults
    BY <1>2 DEF done
  <2> QED BY <1>3, <2>1, <2>2, <2>3, <2>4
<1> QED BY <1>4, <1>5

LEMMA RunInit == Init => RunInv
<1> SUFFICES ASSUME Init PROVE RunInv
  OBVIOUS
<1>1. Idle \in Progress /\ Idle.at = "idle"
  BY DEF Progress, Idle
<1>2. run \in [Runs -> Progress]
  BY <1>1 DEF Init
<1>3. rule \in Rule
  BY DEF Init, Rule
<1>4. faults \in 0 .. MaxFaults /\ turns \in 0 .. MaxTurns
  BY PatrolAssumption DEF Init
<1>5. TypeOK
  BY <1>2, <1>3, <1>4 DEF Init, TypeOK
<1>6. ToolHasRule
  BY <1>1, ToolRuns DEF Init, ToolHasRule
<1>7. BoundedRepeats
  <2> SUFFICES ASSUME NEW t \in Targets
               PROVE  sent[t] <= findings[t].made + About(t) + MaxFaults - faults
    BY DEF BoundedRepeats
  <2>1. sent[t] = 0 /\ findings[t].made = 0 /\ faults = MaxFaults
    BY DEF Init
  <2>2. About(t) \in Nat /\ MaxFaults \in Nat
    BY AboutIsFinite, PatrolAssumption
  <2> QED BY <2>1, <2>2
<1> QED BY <1>5, <1>6, <1>7 DEF RunInv

LEMMA RunNext == RunInv /\ [Next]_vars => RunInv'
<1> SUFFICES ASSUME RunInv, [Next]_vars PROVE RunInv'
  OBVIOUS
<1>1. CASE UpdateCollector \/ UpdateRule \/ SyncCrontab \/ Change \/ TaskTurns
  BY <1>1, TurnsKeep
<1>2. CASE TestRuleOnce
  BY <1>2, TestRuleOnceKeeps
<1>3. CASE CreateFinding
  BY <1>3, CreateFindingKeeps
<1>4. ASSUME NEW j \in Processes, Tick(j) \/ AnalyzeFails(j)
      PROVE  RunInv'
  <2>1. j \in Runs
    BY DEF Runs
  <2> QED BY <1>4, <2>1, TickKeeps, FaultsKeep
<1>5. ASSUME NEW r \in Runs, Step(r) \/ Abandon(r)
      PROVE  RunInv'
  BY <1>5, CollectKeeps, FaultsKeep, LoadRulesKeeps, RecoverKeeps, CheckFindingKeeps, ExecuteKeeps,
     InsertFindingKeeps DEF Step
<1>6. CASE UNCHANGED vars
  BY <1>6 DEF RunInv, TypeOK, ToolHasRule, BoundedRepeats, About, vars
<1> QED BY <1>1, <1>2, <1>3, <1>4, <1>5, <1>6 DEF Next

THEOREM RunInvariant == Spec => []RunInv
BY RunInit, RunNext, PTL DEF Spec

\* The records of the runs, the findings and what was asked for stay of their types.
THEOREM RunTypeCorrect == Spec => []TypeOK
<1>1. RunInv => TypeOK
  BY DEF RunInv
<1> QED BY <1>1, RunInvariant, PTL

\* An action is repeated only for a finding that was made again: every execution is accounted
\* for by an insertion, by the run about to insert, or by a fault between the two.
THEOREM RepeatsAreBounded == Spec => []BoundedRepeats
<1>1. RunInv => BoundedRepeats
  BY DEF RunInv
<1> QED BY <1>1, RunInvariant, PTL

\* flock -n: cron's jobs exclude each other, however many cron starts and however they end.
\* (This is the assumption SingleRun of DetectionLifecycleProofs; the tool takes no lock.)
OneCronRun == \A i, j \in Processes : run[i].at # "idle" /\ run[j].at # "idle" => i = j

LEMMA OneCronRunNext == RunInv /\ OneCronRun /\ [Next]_vars => OneCronRun'
<1> SUFFICES ASSUME RunInv, OneCronRun, [Next]_vars PROVE OneCronRun'
  OBVIOUS
<1>1. run \in [Runs -> Progress] /\ Processes \subseteq Runs
  BY DEF RunInv, TypeOK, Runs
<1>2. ASSUME UNCHANGED run PROVE OneCronRun'
  BY <1>2 DEF OneCronRun
<1>3. ASSUME NEW r \in Runs, NEW x, Set(r, x), r = Tool \/ run[r].at # "idle" PROVE OneCronRun'
  <2>1. \A i \in Processes : run'[i].at # "idle" => run[i].at # "idle"
    BY <1>1, <1>3, ToolRuns DEF Set
  <2> QED BY <2>1 DEF OneCronRun
<1>4. ASSUME NEW r \in Runs, Step(r) \/ Abandon(r) PROVE OneCronRun'
  <2>1. run[r].at # "idle"
    BY <1>4 DEF Step, Collect, CollectRaises, LoadRules, Recover, CheckFinding, Execute,
               InsertFinding, Abandon
  <2>2. \E x : Set(r, x)
    BY <1>4 DEF Step, Collect, CollectRaises, LoadRules, Recover, CheckFinding, Execute,
               InsertFinding, Abandon
  <2> QED BY <1>3, <2>1, <2>2
<1>5. ASSUME NEW j \in Processes, AnalyzeFails(j) PROVE OneCronRun'
  <2>1. j \in Runs /\ run[j].at # "idle" /\ Set(j, Idle)
    BY <1>1, <1>5 DEF AnalyzeFails
  <2> QED BY <1>3, <2>1
<1>6. ASSUME NEW j \in Processes, Tick(j) PROVE OneCronRun'
  <2>1. \A i \in Processes : run[i].at = "idle"
    BY <1>6 DEF Tick, LockFree
  <2>2. \E x : Set(j, x)
    BY <1>6 DEF Tick
  <2>3. \A i \in Processes : run'[i].at # "idle" => i = j
    BY <1>1, <2>1, <2>2 DEF Set
  <2> QED BY <2>3 DEF OneCronRun
<1>7. CASE TestRuleOnce
  <2>1. \E x : Set(Tool, x)
    BY <1>7 DEF TestRuleOnce
  <2> QED BY <1>3, <2>1, ToolRuns
<1>8. CASE \/ UpdateCollector \/ UpdateRule \/ SyncCrontab \/ Change \/ TaskTurns
           \/ CreateFinding \/ UNCHANGED vars
  BY <1>2, <1>8 DEF UpdateCollector, UpdateRule, SyncCrontab, Change, TaskTurns, CreateFinding, vars
<1> QED BY <1>4, <1>5, <1>6, <1>7, <1>8 DEF Next

\* No two of cron's runs of a collector are under way at once.
THEOREM CronRunsAlone == Spec => []OneCronRun
<1>1. Init => OneCronRun
  BY DEF Init, OneCronRun, Idle, Runs
<1> QED BY <1>1, OneCronRunNext, RunInvariant, PTL DEF Spec

-----------------------------------------------------------------------------
(* The job rules.                                                          *)

\* What the job rules are given and keep, of whichever of the two is followed.
JobsTyped ==
  /\ cache \subseteq Attempts
  /\ signal = "large_job_failure_root_cause" => present \subseteq Attempts
  /\ signal = "job_failure_investigation" => present \subseteq Jobs /\ alerted \subseteq Jobs

\* The jobs that were in an alert, and those of them with names after j's.
Alerted == {i \in Jobs : told[i] >= 1}
Later(S, j) == {i \in S : i > j}

\* A job that was in an alert is remembered, or crowded out.
ToldAreRemembered ==
  /\ told \in [Jobs -> 0 .. 2]
  /\ signal = "job_failure_investigation" => alerted \subseteq Alerted
  /\ \A j \in Jobs :
       /\ told[j] >= 1 => \/ signal = "job_failure_investigation" /\ j \in alerted
                          \/ CrowdedOut(j)
       /\ told[j] <= 1 \/ CrowdedOut(j)

LEMMA FetchesPresent ==
  ASSUME NEW c \in Collectors, present \subseteq Attempts, NEW got \in Fetches(c, present)
  PROVE  got \subseteq Attempts
BY DEF Fetches, Answered

LEMMA JobsTypedInit == RulesInit => JobsTyped
BY DEF RulesInit, JobsTyped

LEMMA JobsTypedNext == JobsTyped /\ [RulesNext]_rulesVars => JobsTyped'
<1> SUFFICES ASSUME JobsTyped, [RulesNext]_rulesVars PROVE JobsTyped'
  OBVIOUS
<1> USE DEF JobsTyped
<1>1. ASSUME NEW t \in AllTargets, Grow(t) \/ Reboot(t) \/ FaultTurns(t) PROVE JobsTyped'
  BY <1>1 DEF Grow, Reboot, FaultTurns, jobVars
<1>2. CASE Outage \/ Check
  BY <1>2 DEF Outage, Check, jobVars
<1>3. CASE JobTurns
  BY <1>3 DEF JobTurns
<1>4. CASE Investigate
  <2>1. PICK serious \in BOOLEAN : alerted' = JobFailure(present, serious, alerted)
    BY <1>4 DEF Investigate
  <2>2. JobFailure(present, serious, alerted) \subseteq present \cup alerted
    BY DEF JobFailure, Remembered, Trimmed, Alert
  <2> QED BY <1>4, <2>1, <2>2 DEF Investigate
<1>5. CASE AttemptTurns
  BY <1>5 DEF AttemptTurns
<1>6. CASE CacheExpires
  BY <1>6 DEF CacheExpires
<1>7. ASSUME NEW c \in Collectors, Ask(c) PROVE JobsTyped'
  <2>1. PICK got \in IF cache # {} THEN {cache} ELSE Fetches(c, present) :
          cache' \in IF cache # {} THEN {cache} ELSE {got, {}}
    BY <1>7 DEF Ask
  <2>2. signal = "large_job_failure_root_cause" /\ UNCHANGED <<signal, present>>
    BY <1>7 DEF Ask
  <2>3. cache' \subseteq Attempts
    BY <2>1, <2>2, FetchesPresent
  <2> QED BY <2>2, <2>3
<1>8. CASE UNCHANGED rulesVars
  BY <1>8 DEF rulesVars, jobVars
<1> QED BY <1>1, <1>2, <1>3, <1>4, <1>5, <1>6, <1>7, <1>8 DEF RulesNext

LEMMA JobsTypedAlways == RulesSpec => []JobsTyped
BY JobsTypedInit, JobsTypedNext, PTL DEF RulesSpec

\* The more were in alerts, the more have names after a job's.
LEMMA LaterGrow ==
  ASSUME NEW S \in SUBSET Jobs, NEW T \in SUBSET Jobs, S \subseteq T, NEW j \in Jobs
  PROVE  /\ Cardinality(Later(S, j)) <= Cardinality(Later(T, j))
         /\ Cardinality(Later(S, j)) \in Nat /\ Cardinality(Later(T, j)) \in Nat
<1>1. Later(S, j) \subseteq Later(T, j) /\ Later(T, j) \subseteq Jobs /\ IsFiniteSet(Jobs)
  BY JobAssumption DEF Later
<1>2. IsFiniteSet(Later(T, j))
  BY <1>1, FS_Subset
<1>3. IsFiniteSet(Later(S, j)) /\ Cardinality(Later(S, j)) <= Cardinality(Later(T, j))
  BY <1>1, <1>2, FS_Subset
<1> QED BY <1>2, <1>3, FS_CardinalityType

LEMMA ToldInit == RulesInit => ToldAreRemembered
BY DEF RulesInit, ToldAreRemembered, Alerted

LEMMA ToldNext ==
  ASSUME JobsTyped, ToldAreRemembered, [RulesNext]_rulesVars
  PROVE  ToldAreRemembered'
<1>1. ASSUME UNCHANGED <<signal, alerted, told>> PROVE ToldAreRemembered'
  BY <1>1 DEF ToldAreRemembered, Alerted, CrowdedOut
<1>2. ASSUME NEW t \in AllTargets, Grow(t) \/ Reboot(t) \/ FaultTurns(t) PROVE ToldAreRemembered'
  BY <1>1, <1>2 DEF Grow, Reboot, FaultTurns, jobVars
<1>3. CASE Outage \/ Check
  BY <1>1, <1>3 DEF Outage, Check, jobVars
<1>4. CASE JobTurns \/ AttemptTurns \/ CacheExpires
  BY <1>1, <1>4 DEF JobTurns, AttemptTurns, CacheExpires
<1>5. CASE Investigate
  <2>1. PICK serious \in BOOLEAN :
          /\ told' = [j \in Jobs |-> IF j \in Alert(present, serious, alerted)
                                       THEN Count(told[j], 2) ELSE told[j]]
          /\ alerted' = JobFailure(present, serious, alerted)
    BY <1>5 DEF Investigate
  <2> DEFINE new == Alert(present, serious, alerted)
             all == alerted \cup new
             ever == Alerted \cup new
  <2>2. /\ signal = "job_failure_investigation" /\ UNCHANGED signal
        /\ present \subseteq Jobs /\ alerted \subseteq Alerted /\ Alerted \subseteq Jobs
    BY <1>5 DEF Investigate, JobsTyped, ToldAreRemembered, Alerted
  <2>3. new \subseteq Jobs /\ new \cap alerted = {} /\ all \subseteq ever /\ ever \subseteq Jobs
    BY <2>2 DEF Alert
  <2>4. \A j \in Jobs : told[j] \in 0 .. 2 /\ told[j] \in Nat
    BY DEF ToldAreRemembered
  <2>5. /\ told' \in [Jobs -> 0 .. 2]
        /\ \A j \in Jobs : /\ j \notin new => told'[j] = told[j]
                           /\ j \in new => told'[j] = IF told[j] = 0 THEN 1 ELSE 2
    BY <2>1, <2>4 DEF Count
  <2>6. Alerted' = ever
    BY <2>2, <2>3, <2>4, <2>5 DEF Alerted
  <2>7. ASSUME NEW j \in Jobs, Cardinality(Later(Alerted, j)) >= ALERTED_JOBS PROVE CrowdedOut(j)'
    <3>1. Cardinality(Later(Alerted, j)) <= Cardinality(Later(ever, j))
          /\ Cardinality(Later(Alerted, j)) \in Nat /\ Cardinality(Later(ever, j)) \in Nat
      BY <2>2, <2>3, LaterGrow
    <3>2. Later(ever, j) = {i \in Jobs : i > j /\ told'[i] >= 1}
      BY <2>6 DEF Later, Alerted
    <3>3. ALERTED_JOBS \in Nat
      BY JobAssumption
    <3> QED BY <2>7, <3>1, <3>2, <3>3 DEF CrowdedOut
  <2>8. ASSUME NEW j \in Jobs, CrowdedOut(j) PROVE CrowdedOut(j)'
    <3>1. {i \in Jobs : i > j /\ told[i] >= 1} = Later(Alerted, j)
      BY DEF Later, Alerted
    <3> QED BY <2>7, <2>8, <3>1 DEF CrowdedOut
  <2>9. ASSUME NEW j \in all, j \notin alerted' PROVE CrowdedOut(j)'
    <3>1. j \in Jobs /\ alerted' = IF new = {} THEN alerted ELSE Trimmed(all)
      BY <2>1, <2>3, <2>9 DEF JobFailure, Remembered
    <3>2. ~ (Cardinality(Later(all, j)) < ALERTED_JOBS)
      BY <2>9, <3>1 DEF Trimmed, Later
    <3>3. Cardinality(Later(all, j)) <= Cardinality(Later(ever, j))
          /\ Cardinality(Later(all, j)) \in Nat /\ Cardinality(Later(ever, j)) \in Nat
      BY <2>3, <3>1, LaterGrow
    <3>4. Later(ever, j) = {i \in Jobs : i > j /\ told'[i] >= 1}
      BY <2>6 DEF Later, Alerted
    <3>5. ALERTED_JOBS \in Nat
      BY JobAssumption
    <3> QED BY <3>2, <3>3, <3>4, <3>5 DEF CrowdedOut
  <2>10. alerted' \subseteq Alerted'
    BY <2>1, <2>3, <2>6 DEF JobFailure, Remembered, Trimmed
  <2>11. ASSUME NEW j \in Jobs
         PROVE  /\ told'[j] >= 1 => j \in alerted' \/ CrowdedOut(j)'
                /\ told'[j] <= 1 \/ CrowdedOut(j)'
    <3>1. CASE j \in new
      <4>1. j \in all /\ j \notin alerted
        BY <2>3, <3>1
      <4>2. j \in alerted' \/ CrowdedOut(j)'
        BY <2>9, <4>1
      <4>3. told[j] >= 1 => CrowdedOut(j)'
        BY <2>8, <4>1 DEF ToldAreRemembered
      <4>4. told'[j] <= 1 \/ CrowdedOut(j)'
        BY <2>4, <2>5, <3>1, <4>3
      <4> QED BY <4>2, <4>4
    <3>2. CASE j \notin new
      <4>1. told'[j] = told[j]
        BY <2>5, <3>2
      <4>2. told[j] >= 1 => j \in alerted' \/ CrowdedOut(j)'
        BY <2>8, <2>9 DEF ToldAreRemembered
      <4>3. told[j] <= 1 \/ CrowdedOut(j)'
        BY <2>8 DEF ToldAreRemembered
      <4> QED BY <4>1, <4>2, <4>3
    <3> QED BY <3>1, <3>2
  <2> QED BY <2>2, <2>5, <2>10, <2>11 DEF ToldAreRemembered
<1>6. ASSUME NEW c \in Collectors, Ask(c) PROVE ToldAreRemembered'
  BY <1>6 DEF Ask, ToldAreRemembered, CrowdedOut
<1>7. CASE UNCHANGED rulesVars
  BY <1>1, <1>7 DEF rulesVars, jobVars
<1> QED BY <1>2, <1>3, <1>4, <1>5, <1>6, <1>7 DEF RulesNext

\* A failed job is in one alert of JOB_FAILURE_INVESTIGATION only, until as many jobs as the rule
\* remembers, with names after its own, were in alerts: however many jobs fail on a node, and
\* whatever is trimmed of what it keeps.
THEOREM JobsAreAlertedOnce == RulesSpec => []AlertedOnceUnlessCrowdedOut
<1>1. ToldAreRemembered => AlertedOnceUnlessCrowdedOut
  BY DEF ToldAreRemembered, AlertedOnceUnlessCrowdedOut
<1>2. JobsTyped /\ ToldAreRemembered /\ [RulesNext]_rulesVars => ToldAreRemembered'
  BY ToldNext
<1> QED BY <1>1, <1>2, ToldInit, JobsTypedAlways, PTL DEF RulesSpec

\* A blamed job is one of which an attempt that failed first on the node was asked for.
LEMMA BlamedFailedFirst ==
  ASSUME NEW n \in Nodes, NEW got \in SUBSET Attempts
  PROVE  BlamingJobs(n, got, table) \subseteq {j \in Jobs : FirstIn(n, j)}
<1> SUFFICES ASSUME NEW j \in BlamingJobs(n, got, table) PROVE j \in Jobs /\ FirstIn(n, j)
  OBVIOUS
<1>1. PICK a \in got : a[1] = j /\ n \in RootNodes(table[a])
  BY DEF BlamingJobs, RootsOfJob
<1>2. n \in Timed(table[a]) \cup Untimed(table[a])
  BY <1>1 DEF RootNodes, FirstToFail
<1> QED BY <1>1, <1>2 DEF BlamingJobs, FirstIn

\* A node is accused only when it was first to fail in as many different jobs as the threshold
\* asks for, however often each was retried and whichever collector filled the cache.
THEOREM BlameSpansJobs == RulesSpec => BlamedAcrossJobs
<1> DEFINE Blamed ==
      signal = "large_job_failure_root_cause" =>
        \A n \in Nodes : alerted'[n] # alerted[n] =>
          Cardinality({j \in Jobs : FirstIn(n, j)}) >= CORDON_THRESHOLD
<1>1. JobsTyped /\ [RulesNext]_rulesVars => [Blamed]_rulesVars
  <2> SUFFICES ASSUME JobsTyped, RulesNext, signal = "large_job_failure_root_cause",
                      NEW n \in Nodes, alerted'[n] # alerted[n]
               PROVE  Cardinality({j \in Jobs : FirstIn(n, j)}) >= CORDON_THRESHOLD
    OBVIOUS
  <2>1. PICK c \in Collectors : Ask(c)
    BY DEF RulesNext, Grow, Reboot, FaultTurns, Outage, Check, JobTurns, Investigate, AttemptTurns,
           CacheExpires, jobVars
  <2>2. PICK got \in IF cache # {} THEN {cache} ELSE Fetches(c, present) :
          alerted' = IF c = Mine THEN LargeJobFailure(Kept(c, got), table, alerted) ELSE alerted
    BY <2>1 DEF Ask
  <2>3. got \subseteq Attempts
    BY <2>2, FetchesPresent DEF JobsTyped
  <2>4. Kept(c, got) \in SUBSET Attempts
    BY <2>3 DEF Kept
  <2> DEFINE jobs == BlamingJobs(n, Kept(c, got), table)
             first == {j \in Jobs : FirstIn(n, j)}
  <2>5. ~(Cardinality(jobs) < CORDON_THRESHOLD)
    BY <2>2 DEF LargeJobFailure
  <2>6. jobs \subseteq first /\ first \subseteq Jobs
    BY <2>4, BlamedFailedFirst
  <2>7. IsFiniteSet(first) /\ IsFiniteSet(jobs) /\ Cardinality(jobs) <= Cardinality(first)
    BY <2>6, JobAssumption, FS_Subset
  <2>8. Cardinality(first) \in Nat /\ Cardinality(jobs) \in Nat /\ CORDON_THRESHOLD \in Nat
    BY <2>7, JobAssumption, FS_CardinalityType
  <2> QED BY <2>5, <2>7, <2>8
<1> QED BY <1>1, JobsTypedAlways, PTL DEF RulesSpec, BlamedAcrossJobs

-----------------------------------------------------------------------------
(* The rules for nodes and switches.                                       *)

Observation == [status : {"bad", "healthy", "unknown", "none"}, keep : Memory]
Machine == [errs : Nat, log : Nat, fault : BOOLEAN, dead : BOOLEAN, bare : BOOLEAN,
            mute : SUBSET {"count", "log"}]
Row == [bad : Nat, healthy : Nat, open : BOOLEAN]

LEMMA ConditionNames ==
  Conditions = {"b300_nvlink_fm_bad", "b300_nvswitch_tray_failure", "b300_nic_mlx5_errors",
                "b300_nic_ib_down", "h200_nvme_health_issue", "ib_link_flapping",
                "storage_nvme_critical", "storage_nvme_alert", "switch_ib_ssh_unreachable",
                "switch_ib_symbol_errors", "switch_ruijie_port_errors", "switch_ufm_unreachable"}
BY DEF Conditions, OpenAfter

LEMMA Policies ==
  /\ OpenAfter["b300_nic_mlx5_errors"] = 3 /\ OpenAfter["h200_nvme_health_issue"] = 1
  /\ OpenAfter["switch_ib_symbol_errors"] = 3 /\ OpenAfter["switch_ruijie_port_errors"] = 2
  /\ OpenAfter["switch_ib_ssh_unreachable"] = SSH_FAILURE_THRESHOLD
  /\ OpenAfter["switch_ufm_unreachable"] = UFM_FAILURE_THRESHOLD
BY DEF OpenAfter

LEMMA PolicyTyped ==
  ASSUME NEW s \in Conditions
  PROVE  OpenAfter[s] \in Nat \ {0}
BY ConditionNames, ThresholdAssumption DEF OpenAfter

\* What a rule says and keeps, whatever it is given.
LEMMA SawTyped ==
  ASSUME NEW status \in {"bad", "healthy", "unknown", "none"}, NEW m \in Memory
  PROVE  /\ Saw(status, m) \in Observation
         /\ Saw(status, m).status = status /\ Saw(status, m).keep = m
BY DEF Saw, Observation

LEMMA SawParts ==
  ASSUME NEW status, NEW m
  PROVE  Saw(status, m).status = status /\ Saw(status, m).keep = m
BY DEF Saw

LEMMA KeepsTyped ==
  ASSUME NEW m \in Memory, NEW n \in Nat, NEW l \in Nat, NEW c \in 0 .. CONSECUTIVE_REQUIRED
  PROVE  /\ [m EXCEPT !.errs = n] \in Memory
         /\ [m EXCEPT !.errs = n, !.log = l] \in Memory
         /\ [m EXCEPT !.errs = n, !.consecutive = c] \in Memory
         /\ [m EXCEPT !.errs = n, !.consecutive = c, !.fired = l] \in Memory
BY DEF Memory

LEMMA GpuXidTyped ==
  ASSUME NEW p \in Payload, NEW m \in Memory
  PROVE  GpuXid(p, m) \in Observation
<1> DEFINE n == p.errs
           again == IF ~NewEvents(n, m) THEN 0
                    ELSE IF m.consecutive < CONSECUTIVE_REQUIRED THEN m.consecutive + 1
                    ELSE CONSECUTIVE_REQUIRED
           next == [m EXCEPT !.errs = n, !.consecutive = again]
           calm == [m EXCEPT !.errs = n, !.consecutive = 0]
           fire == [next EXCEPT !.consecutive = 0, !.fired = n]
<1>1. n \in Nat /\ again \in 0 .. CONSECUTIVE_REQUIRED /\ 0 \in 0 .. CONSECUTIVE_REQUIRED
  BY DEF Payload, Memory, CONSECUTIVE_REQUIRED
<1>2. next \in Memory /\ calm \in Memory
  BY <1>1, KeepsTyped
<1>3. fire \in Memory
  BY <1>1, <1>2 DEF Memory
<1>4. GpuXid(p, m) \in {Saw("none", m), Saw("none", calm), Saw("none", next), Saw("bad", fire)}
  BY DEF GpuXid
<1> HIDE DEF n, again, next, calm, fire
<1> QED BY <1>2, <1>3, <1>4, SawTyped

LEMMA AnalyzeTyped ==
  ASSUME NEW s \in Signals, NEW got, NEW t, got[t] \in Payload, NEW m \in Memory
  PROVE  Analyze(s, got, t, m) \in Observation
<1> DEFINE p == got[t]
<1>1. /\ p.errs \in Nat /\ p.log \in Nat /\ 0 \in Nat /\ 0 \in 0 .. CONSECUTIVE_REQUIRED
  BY DEF Payload, CONSECUTIVE_REQUIRED
<1>2. /\ [m EXCEPT !.errs = p.errs] \in Memory /\ [m EXCEPT !.errs = p.errs, !.log = p.log] \in Memory
      /\ [m EXCEPT !.errs = 0, !.log = 0] \in Memory
  BY <1>1, KeepsTyped
<1> HIDE DEF p
<1>3. CASE s = "b300_nvlink_fm_bad"
  <2>1. Analyze(s, got, t, m) = NvlinkFm(p, m)
    BY <1>3 DEF Analyze, p
  <2> QED BY <2>1, SawTyped DEF NvlinkFm, Verdict
<1>4. CASE s = "b300_nvswitch_tray_failure"
  <2>1. Analyze(s, got, t, m) = NvswitchTray(p, m)
    BY <1>4 DEF Analyze, p
  <2> QED BY <2>1, SawTyped DEF NvswitchTray, Verdict
<1>5. CASE s = "b300_gpu_xid"
  <2>1. Analyze(s, got, t, m) = GpuXid(p, m)
    BY <1>5 DEF Analyze, p
  <2> QED BY <2>1, GpuXidTyped DEF p
<1>6. CASE s = "b300_nic_mlx5_errors"
  <2>1. Analyze(s, got, t, m) = NicMlx5Errors(p, m)
    BY <1>6 DEF Analyze, p
  <2> QED BY <1>2, <2>1, SawTyped DEF NicMlx5Errors, Verdict
<1>7. CASE s = "b300_nic_ib_down"
  <2>1. Analyze(s, got, t, m) = NicIbDown(p, m)
    BY <1>7 DEF Analyze, p
  <2> QED BY <2>1, SawTyped DEF NicIbDown, Verdict
<1>8. CASE s = "h200_nvme_health_issue"
  <2>1. Analyze(s, got, t, m) = H200Nvme(p, m)
    BY <1>8 DEF Analyze, p
  <2> QED BY <1>2, <2>1, SawTyped DEF H200Nvme, Verdict
<1>9. CASE s = "ib_link_flapping"
  <2>1. Analyze(s, got, t, m) = IbLinkFlapping(p, m)
    BY <1>9 DEF Analyze, p
  <2> QED BY <2>1, SawTyped DEF IbLinkFlapping, Verdict
<1>10. CASE s = "nvidia_ecc_error"
  <2>1. Analyze(s, got, t, m) = NvidiaEcc(p, m)
    BY <1>10 DEF Analyze, p
  <2> QED BY <1>2, <2>1, SawTyped DEF NvidiaEcc
<1>11. CASE s = "storage_nvme_critical"
  <2>1. Analyze(s, got, t, m) = StorageNvmeCritical(p, m)
    BY <1>11 DEF Analyze, p
  <2> QED BY <2>1, SawTyped DEF StorageNvmeCritical, Verdict
<1>12. CASE s = "storage_nvme_alert"
  <2>1. Analyze(s, got, t, m) = StorageNvmeAlert(p, m)
    BY <1>12 DEF Analyze, p
  <2> QED BY <2>1, SawTyped DEF StorageNvmeAlert, Verdict
<1>13. CASE s = "switch_ib_ssh_unreachable"
  <2>1. Analyze(s, got, t, m) = IbUnreachable(p, BulkFailure(got), m)
    BY <1>13 DEF Analyze, p
  <2> QED BY <2>1, SawTyped DEF IbUnreachable
<1>14. CASE s = "switch_ib_symbol_errors"
  <2>1. Analyze(s, got, t, m) = IbSymbolErrors(p, m)
    BY <1>14 DEF Analyze, p
  <2> QED BY <1>2, <2>1, SawTyped DEF IbSymbolErrors, Verdict
<1>15. CASE s = "switch_ruijie_port_errors"
  <2>1. Analyze(s, got, t, m) = RuijiePortErrors(p, m)
    BY <1>15 DEF Analyze, p
  <2> QED BY <1>2, <2>1, SawTyped DEF RuijiePortErrors, Verdict
<1>16. CASE s = "switch_ufm_unreachable"
  <2>1. Analyze(s, got, t, m) = UfmUnreachable(p, AllFailing(got), m)
    BY <1>16 DEF Analyze, p
  <2> QED BY <2>1, SawTyped DEF UfmUnreachable
<1>17. CASE s = "switch_ufm_rebooted"
  <2>1. Analyze(s, got, t, m) = UfmRebooted(p, m)
    BY <1>17 DEF Analyze, p
  <2> QED BY <2>1, SawTyped DEF UfmRebooted
<1> QED BY <1>3, <1>4, <1>5, <1>6, <1>7, <1>8, <1>9, <1>10, <1>11, <1>12, <1>13, <1>14, <1>15,
           <1>16, <1>17, ConditionNames DEF Signals, Events

\* The types of what is followed; outside TwoTexts the texts of a target are lost together.
RulesTyped ==
  /\ signal \in Signals \cup JobSignals
  /\ world \in [AllTargets -> Machine] /\ outage \in {"none", "ssh", "outputs"}
  /\ kept \in [AllTargets -> Memory] /\ row \in [AllTargets -> Row]
  /\ facts \in [AllTargets -> Nat] /\ grew \subseteq AllTargets
  /\ signal \notin TwoTexts => \A t \in AllTargets : world[t].mute \in {{}, {"count", "log"}}

LEMMA CollectedTyped ==
  ASSUME RulesTyped, NEW t \in AllTargets
  PROVE  Collected(t) \in Payload
<1> DEFINE w == world[t]
           ssh == ~w.dead /\ outage # "ssh"
           outputs == ssh /\ ~w.bare /\ outage # "outputs"
           has == IF outputs THEN {"count", "log"} \ w.mute ELSE {}
<1>1. w \in Machine
  BY DEF RulesTyped
<1>2. ssh \in BOOLEAN /\ outputs \in BOOLEAN /\ has \in SUBSET {"count", "log"}
  OBVIOUS
<1>3. /\ (IF "count" \in has THEN w.errs ELSE 0) \in Nat
      /\ (IF "log" \in has THEN w.log ELSE 0) \in Nat
  BY <1>1 DEF Machine
<1>4. (w.fault /\ (ssh => has # {})) \in BOOLEAN
  OBVIOUS
<1>5. Collected(t) = [ssh |-> ssh, outputs |-> outputs, has |-> has,
                      errs |-> IF "count" \in has THEN w.errs ELSE 0,
                      log |-> IF "log" \in has THEN w.log ELSE 0,
                      fault |-> w.fault /\ (ssh => has # {})]
  BY DEF Collected
<1> HIDE DEF w, ssh, outputs, has
<1> QED BY <1>2, <1>3, <1>4, <1>5 DEF Payload

LEMMA CountTyped ==
  ASSUME NEW n \in Nat, NEW limit
  PROVE  Count(n, limit) \in Nat
BY DEF Count

LEMMA FactsTyped ==
  ASSUME RulesTyped, NEW t \in AllTargets, NEW p, NEW status
  PROVE  Facts(t, p, status) \in Nat
<1>1. facts[t] \in Nat
  BY DEF RulesTyped
<1>2. Count(facts[t], 3) \in Nat /\ Count(facts[t], OpenAfter[signal]) \in Nat
  BY <1>1, CountTyped
<1> QED BY <1>1, <1>2 DEF Facts

LEMMA ObservedTyped ==
  ASSUME NEW x \in Row, NEW status \in {"bad", "healthy", "unknown", "none"}, NEW openAfter \in Nat
  PROVE  Observed(x, status, openAfter) \in Row
<1>1. x.bad \in Nat /\ x.healthy \in Nat /\ x.open \in BOOLEAN
  BY DEF Row
<1>2. Count(x.bad, openAfter) \in Nat /\ Count(x.healthy, CloseAfter) \in Nat
  BY <1>1, CountTyped
<1>3. CASE status = "bad"
  <2>1. Observed(x, status, openAfter) =
          [bad |-> Count(x.bad, openAfter), healthy |-> 0,
           open |-> x.open \/ Count(x.bad, openAfter) >= openAfter]
    BY <1>3 DEF Observed
  <2>2. (x.open \/ Count(x.bad, openAfter) >= openAfter) \in BOOLEAN
    OBVIOUS
  <2> QED BY <1>2, <2>1, <2>2 DEF Row
<1>4. CASE status = "healthy"
  <2>1. Observed(x, status, openAfter) =
          [bad |-> 0, healthy |-> Count(x.healthy, CloseAfter),
           open |-> x.open /\ Count(x.healthy, CloseAfter) < CloseAfter]
    BY <1>4 DEF Observed
  <2>2. (x.open /\ Count(x.healthy, CloseAfter) < CloseAfter) \in BOOLEAN
    OBVIOUS
  <2> QED BY <1>2, <2>1, <2>2 DEF Row
<1>5. CASE status \in {"unknown", "none"}
  BY <1>5 DEF Observed, Unchanged
<1> QED BY <1>3, <1>4, <1>5

LEMMA HappenedTyped ==
  ASSUME NEW x \in Row, NEW status
  PROVE  Happened(x, status) \in Row
BY DEF Happened, Row

\* What one run of the rule does about a target of its fleet.
Says(t) == Analyze(signal, [u \in Here |-> Collected(u)], t, kept[t])

LEMMA CheckStep ==
  ASSUME RulesTyped, Check, NEW t \in Here
  PROVE  /\ signal \in Signals /\ t \in AllTargets
         /\ Collected(t) \in Payload /\ Says(t) \in Observation
         /\ UNCHANGED <<signal, world, outage>>
         /\ kept'[t] = Says(t).keep
         /\ row'[t] = IF signal \in Events THEN Happened(row[t], Says(t).status)
                      ELSE Observed(row[t], Says(t).status, OpenAfter[signal])
         /\ facts'[t] = Facts(t, Collected(t), Says(t).status)
         /\ t \in grew' <=> t \in grew /\ ~Reads(Collected(t))
<1> DEFINE got == [u \in Here |-> Collected(u)]
           says == [u \in Here |-> Analyze(signal, got, u, kept[u])]
<1>1. signal \in Signals /\ t \in AllTargets
  BY DEF Here
<1>2. Collected(t) \in Payload /\ got[t] = Collected(t)
  BY <1>1, CollectedTyped
<1>3. kept[t] \in Memory
  BY <1>1 DEF RulesTyped
<1>4. says[t] = Says(t) /\ Says(t) \in Observation
  BY <1>1, <1>2, <1>3, AnalyzeTyped DEF Says
<1>5. /\ kept' = [u \in AllTargets |-> IF u \in Here THEN says[u].keep ELSE kept[u]]
      /\ row' = [u \in AllTargets |->
                   IF u \notin Here THEN row[u]
                   ELSE IF signal \in Events THEN Happened(row[u], says[u].status)
                   ELSE Observed(row[u], says[u].status, OpenAfter[signal])]
      /\ facts' = [u \in AllTargets |->
                     IF u \in Here THEN Facts(u, got[u], says[u].status) ELSE facts[u]]
      /\ grew' = grew \ {u \in Here : Reads(got[u])}
      /\ UNCHANGED <<signal, world, outage>>
  BY DEF Check
<1>6. t \in grew' <=> t \in grew /\ ~Reads(Collected(t))
  BY <1>2, <1>5
<1> HIDE DEF got, says
<1>7. kept'[t] = says[t].keep
  BY <1>1, <1>5
<1>8. facts'[t] = Facts(t, got[t], says[t].status)
  BY <1>1, <1>5
<1>9. row'[t] = IF signal \in Events THEN Happened(row[t], says[t].status)
                ELSE Observed(row[t], says[t].status, OpenAfter[signal])
  BY <1>1, <1>5
<1> QED BY <1>1, <1>2, <1>4, <1>5, <1>6, <1>7, <1>8, <1>9

\* A run of the rule changes nothing of a target it does not collect.
LEMMA CheckElsewhere ==
  ASSUME Check, NEW t \in AllTargets \ Here
  PROVE  kept'[t] = kept[t] /\ row'[t] = row[t] /\ facts'[t] = facts[t]
BY DEF Check

\* A target whose counts, faults or texts turn.
LEMMA BecomesTyped ==
  ASSUME RulesTyped, NEW t \in AllTargets, NEW w \in Machine, Becomes(t, w), UNCHANGED signal,
         signal \notin TwoTexts => w.mute \in {{}, {"count", "log"}}
  PROVE  /\ world' \in [AllTargets -> Machine]
         /\ signal' \notin TwoTexts =>
              \A u \in AllTargets : world'[u].mute \in {{}, {"count", "log"}}
<1>1. world \in [AllTargets -> Machine]
  BY DEF RulesTyped
<1>2. world' \in [AllTargets -> Machine]
  BY <1>1 DEF Becomes
<1>3. \A u \in AllTargets : world'[u] = IF u = t THEN w ELSE world[u]
  BY <1>1 DEF Becomes
<1> QED BY <1>2, <1>3 DEF RulesTyped

LEMMA GrowStep ==
  ASSUME RulesTyped, NEW t \in AllTargets, Grow(t)
  PROVE  /\ RulesTyped' /\ t \in Here /\ UNCHANGED <<signal, outage, kept, row>>
         /\ grew' = grew \cup {t}
         /\ \A u \in AllTargets \ {t} : world'[u] = world[u] /\ facts'[u] = facts[u]
         /\ facts'[t] = IF signal = "b300_gpu_xid" THEN IF facts[t] < 2 THEN facts[t] + 1 ELSE 2
                        ELSE facts[t]
<1>1. t \in Here /\ UNCHANGED <<signal, outage, kept, row>> /\ grew' = grew \cup {t}
  BY DEF Grow
<1>2. world[t] \in Machine /\ world \in [AllTargets -> Machine] /\ facts \in [AllTargets -> Nat]
  BY DEF RulesTyped
<1>3. PICK w \in Machine : Becomes(t, w) /\ w.mute = world[t].mute
  <2>1. CASE Becomes(t, [world[t] EXCEPT !.errs = @ + 1])
    <3>1. /\ [world[t] EXCEPT !.errs = @ + 1] \in Machine
          /\ [world[t] EXCEPT !.errs = @ + 1].mute = world[t].mute
      BY <1>2 DEF Machine
    <3> QED BY <2>1, <3>1
  <2>2. CASE Becomes(t, [world[t] EXCEPT !.log = @ + 1])
    <3>1. /\ [world[t] EXCEPT !.log = @ + 1] \in Machine
          /\ [world[t] EXCEPT !.log = @ + 1].mute = world[t].mute
      BY <1>2 DEF Machine
    <3> QED BY <2>2, <3>1
  <2> QED BY <2>1, <2>2 DEF Grow
<1>4. facts' = IF signal = "b300_gpu_xid"
                 THEN [facts EXCEPT ![t] = IF @ < 2 THEN @ + 1 ELSE 2] ELSE facts
  BY DEF Grow
<1>5. facts' \in [AllTargets -> Nat]
  BY <1>2, <1>4
<1>6. /\ \A u \in AllTargets \ {t} : world'[u] = world[u] /\ facts'[u] = facts[u]
      /\ facts'[t] = IF signal = "b300_gpu_xid" THEN IF facts[t] < 2 THEN facts[t] + 1 ELSE 2
                     ELSE facts[t]
  BY <1>2, <1>3, <1>4 DEF Becomes
<1>7. /\ world' \in [AllTargets -> Machine]
      /\ signal' \notin TwoTexts =>
           \A u \in AllTargets : world'[u].mute \in {{}, {"count", "log"}}
  <2>1. signal \notin TwoTexts => w.mute \in {{}, {"count", "log"}}
    BY <1>3 DEF RulesTyped
  <2> QED BY <1>1, <1>3, <2>1, BecomesTyped
<1>8. RulesTyped'
  BY <1>1, <1>5, <1>7 DEF RulesTyped
<1> QED BY <1>1, <1>6, <1>8

LEMMA RebootStep ==
  ASSUME RulesTyped, NEW t \in AllTargets, Reboot(t)
  PROVE  /\ RulesTyped' /\ UNCHANGED <<signal, outage, kept, row, facts, grew>>
         /\ \A u \in AllTargets \ {t} : world'[u] = world[u]
         /\ world'[t].errs = 0 /\ world'[t].log = 0
<1> DEFINE w == [world[t] EXCEPT !.errs = 0, !.log = 0]
<1>1. UNCHANGED <<signal, outage, kept, row, facts, grew>> /\ Becomes(t, w)
  BY DEF Reboot
<1>2. world[t] \in Machine /\ world \in [AllTargets -> Machine]
  BY DEF RulesTyped
<1>3. w \in Machine /\ w.mute = world[t].mute /\ w.errs = 0 /\ w.log = 0
  BY <1>2 DEF Machine
<1> HIDE DEF w
<1>4. \A u \in AllTargets : world'[u] = IF u = t THEN w ELSE world[u]
  BY <1>1, <1>2 DEF Becomes
<1>5. signal \notin TwoTexts => w.mute \in {{}, {"count", "log"}}
  BY <1>3 DEF RulesTyped
<1>6. RulesTyped'
  <2>1. /\ world' \in [AllTargets -> Machine]
        /\ signal' \notin TwoTexts =>
             \A u \in AllTargets : world'[u].mute \in {{}, {"count", "log"}}
    BY <1>1, <1>3, <1>5, BecomesTyped
  <2> QED BY <1>1, <2>1 DEF RulesTyped
<1> QED BY <1>1, <1>3, <1>4, <1>6

\* A fault comes or goes, a target cannot be read: no count moves.
LEMMA FaultStep ==
  ASSUME RulesTyped, NEW t \in AllTargets, FaultTurns(t)
  PROVE  /\ RulesTyped' /\ UNCHANGED <<signal, outage, kept, row, facts, grew>>
         /\ \A u \in AllTargets : world'[u].errs = world[u].errs /\ world'[u].log = world[u].log
<1>1. UNCHANGED <<signal, outage, kept, row, facts, grew>>
  BY DEF FaultTurns
<1>2. world[t] \in Machine /\ world \in [AllTargets -> Machine]
  BY DEF RulesTyped
<1>3. \A m \in Texts : m \in SUBSET {"count", "log"}
                       /\ (signal \notin TwoTexts => m \in {{}, {"count", "log"}})
  BY DEF Texts
<1>4. PICK w \in Machine : /\ Becomes(t, w)
                           /\ signal \notin TwoTexts => w.mute \in {{}, {"count", "log"}}
                           /\ w.errs = world[t].errs /\ w.log = world[t].log
  <2>0. signal \notin TwoTexts => world[t].mute \in {{}, {"count", "log"}}
    BY DEF RulesTyped
  <2>1. CASE Becomes(t, [world[t] EXCEPT !.fault = ~@])
    <3> DEFINE w == [world[t] EXCEPT !.fault = ~@]
    <3>1. /\ w \in Machine /\ w.mute = world[t].mute
          /\ w.errs = world[t].errs /\ w.log = world[t].log
      BY <1>2 DEF Machine
    <3> QED BY <2>0, <2>1, <3>1
  <2>2. CASE Becomes(t, [world[t] EXCEPT !.dead = ~@])
    <3> DEFINE w == [world[t] EXCEPT !.dead = ~@]
    <3>1. /\ w \in Machine /\ w.mute = world[t].mute
          /\ w.errs = world[t].errs /\ w.log = world[t].log
      BY <1>2 DEF Machine
    <3> QED BY <2>0, <2>2, <3>1
  <2>3. CASE Becomes(t, [world[t] EXCEPT !.bare = ~@])
    <3> DEFINE w == [world[t] EXCEPT !.bare = ~@]
    <3>1. /\ w \in Machine /\ w.mute = world[t].mute
          /\ w.errs = world[t].errs /\ w.log = world[t].log
      BY <1>2 DEF Machine
    <3> QED BY <2>0, <2>3, <3>1
  <2>4. ASSUME NEW m \in Texts, Becomes(t, [world[t] EXCEPT !.mute = m])
        PROVE  \E w \in Machine : /\ Becomes(t, w)
                                  /\ signal \notin TwoTexts => w.mute \in {{}, {"count", "log"}}
                                  /\ w.errs = world[t].errs /\ w.log = world[t].log
    <3> DEFINE w == [world[t] EXCEPT !.mute = m]
    <3>1. w \in Machine /\ w.mute = m /\ w.errs = world[t].errs /\ w.log = world[t].log
      BY <1>2, <1>3 DEF Machine
    <3> QED BY <1>3, <2>4, <3>1
  <2> QED BY <2>1, <2>2, <2>3, <2>4 DEF FaultTurns
<1>5. \A u \in AllTargets : world'[u] = IF u = t THEN w ELSE world[u]
  BY <1>2, <1>4 DEF Becomes
<1>6. /\ world' \in [AllTargets -> Machine]
      /\ signal' \notin TwoTexts =>
           \A u \in AllTargets : world'[u].mute \in {{}, {"count", "log"}}
  BY <1>1, <1>4, BecomesTyped
<1>7. RulesTyped'
  BY <1>1, <1>6 DEF RulesTyped
<1> QED BY <1>1, <1>4, <1>5, <1>7

LEMMA OutageStep ==
  ASSUME RulesTyped, Outage
  PROVE  RulesTyped' /\ UNCHANGED <<signal, world, kept, row, facts, grew>>
BY DEF Outage, RulesTyped

LEMMA CheckKeepsTypes ==
  ASSUME RulesTyped, Check
  PROVE  RulesTyped'
<1>1. UNCHANGED <<signal, world, outage>> /\ grew' \subseteq grew
  BY DEF Check
<1>2. \A t \in AllTargets : kept'[t] \in Memory /\ row'[t] \in Row /\ facts'[t] \in Nat
  <2> TAKE t \in AllTargets
  <2>1. kept[t] \in Memory /\ row[t] \in Row /\ facts[t] \in Nat
    BY DEF RulesTyped
  <2>2. CASE t \in Here
    <3>1. /\ Says(t).keep \in Memory
          /\ Says(t).status \in {"bad", "healthy", "unknown", "none"}
      BY <2>2, CheckStep DEF Observation
    <3>2. facts'[t] \in Nat /\ kept'[t] \in Memory
      BY <2>2, <3>1, CheckStep, FactsTyped
    <3>3. signal \in Events \/ (signal \in Conditions /\ signal \notin Events)
      BY <2>2, CheckStep, ConditionNames DEF Signals, Events
    <3>4. CASE signal \in Events
      <4>1. row'[t] = Happened(row[t], Says(t).status)
        BY <2>2, <3>4, CheckStep
      <4>2. Happened(row[t], Says(t).status) \in Row
        BY <2>1, HappenedTyped
      <4> QED BY <3>2, <4>1, <4>2
    <3>5. CASE signal \in Conditions /\ signal \notin Events
      <4>1. OpenAfter[signal] \in Nat
        BY <3>5, PolicyTyped
      <4>2. Observed(row[t], Says(t).status, OpenAfter[signal]) \in Row
        BY <2>1, <3>1, <4>1, ObservedTyped
      <4>3. row'[t] = Observed(row[t], Says(t).status, OpenAfter[signal])
        BY <2>2, <3>5, CheckStep
      <4> QED BY <3>2, <4>2, <4>3
    <3> QED BY <3>3, <3>4, <3>5
  <2>3. CASE t \notin Here
    BY <2>1, <2>3, CheckElsewhere
  <2> QED BY <2>2, <2>3
<1>3. /\ kept' = [t \in AllTargets |-> kept'[t]] /\ row' = [t \in AllTargets |-> row'[t]]
      /\ facts' = [t \in AllTargets |-> facts'[t]]
  BY DEF Check
<1> QED BY <1>1, <1>2, <1>3 DEF RulesTyped

\* The job rules keep what is known of nodes and switches.
JobStep == JobTurns \/ Investigate \/ AttemptTurns \/ CacheExpires \/ \E c \in Collectors : Ask(c)

LEMMA JobStepKeeps ==
  ASSUME JobStep
  PROVE  UNCHANGED <<signal, nodeVars>>
BY DEF JobStep, JobTurns, Investigate, AttemptTurns, CacheExpires, Ask

LEMMA RulesTypedInit == RulesInit => RulesTyped
<1> SUFFICES ASSUME RulesInit PROVE RulesTyped
  OBVIOUS
<1>1. Sound \in Machine /\ Sound.mute = {}
  BY DEF Sound, Machine
<1>2. NoMemory \in Memory
  BY DEF NoMemory, Memory, CONSECUTIVE_REQUIRED
<1>3. [bad |-> 0, healthy |-> 0, open |-> FALSE] \in Row
  BY DEF Row
<1>4. signal \in Signals \cup JobSignals
  BY FleetAssumption DEF RulesInit
<1> QED BY <1>1, <1>2, <1>3, <1>4 DEF RulesInit, RulesTyped

LEMMA RulesTypedNext == RulesTyped /\ [RulesNext]_rulesVars => RulesTyped'
<1> SUFFICES ASSUME RulesTyped, [RulesNext]_rulesVars PROVE RulesTyped'
  OBVIOUS
<1>1. ASSUME NEW t \in AllTargets, Grow(t) \/ Reboot(t) \/ FaultTurns(t) PROVE RulesTyped'
  BY <1>1, GrowStep, RebootStep, FaultStep
<1>2. CASE Outage \/ Check
  BY <1>2, OutageStep, CheckKeepsTypes
<1>3. CASE JobStep \/ UNCHANGED rulesVars
  BY <1>3, JobStepKeeps DEF rulesVars, nodeVars, RulesTyped
<1> QED BY <1>1, <1>2, <1>3 DEF RulesNext, JobStep

LEMMA RulesTypedAlways == RulesSpec => []RulesTyped
BY RulesTypedInit, RulesTypedNext, PTL DEF RulesSpec

-----------------------------------------------------------------------------
(* Switches nobody can reach.                                              *)

LEMMA BulkFacts ==
  ASSUME signal \in Bulk, NEW t, NEW p, NEW status
  PROVE  Facts(t, p, status) = IF status = "healthy" THEN 0
                               ELSE IF world[t].dead \/ world[t].bare
                                      THEN Count(facts[t], OpenAfter[signal]) ELSE facts[t]
<1>1. signal \notin Growth /\ signal # "b300_gpu_xid"
  BY DEF Bulk, Growth
<1> QED BY <1>1 DEF Facts

LEMMA HereIsFleet ==
  ASSUME signal \in Signals
  PROVE  Here = Fleet[signal]
BY DEF Here, AllTargets

\* A switch is told to be bad only when it is not the way to all of them that is cut.
LEMMA BadIsOwnFault ==
  ASSUME Cardinality(Fleet["switch_ib_ssh_unreachable"]) > BULK_FAILURE_THRESHOLD,
         Cardinality(Fleet["switch_ufm_unreachable"]) > 1,
         RulesTyped, signal \in Bulk, NEW t \in Here, Says(t).status = "bad"
  PROVE  world[t].dead \/ world[t].bare
<1> DEFINE got == [u \in Here |-> Collected(u)]
<1>1. \A u \in Here : got[u] = Collected(u)
  OBVIOUS
<1>2. DOMAIN got = Here
  OBVIOUS
<1>3. \A u \in Here :
        /\ Collected(u).ssh = (~world[u].dead /\ outage # "ssh")
        /\ Collected(u).outputs = (Collected(u).ssh /\ ~world[u].bare /\ outage # "outputs")
  BY DEF Collected
<1>4. Says(t) = Analyze(signal, got, t, kept[t])
  BY DEF Says
<1> HIDE DEF got
<1>5. CASE signal = "switch_ib_ssh_unreachable"
  <2>1. Says(t) = IbUnreachable(Collected(t), BulkFailure(got), kept[t])
    BY <1>1, <1>4, <1>5 DEF Analyze
  <2>2. ~Collected(t).ssh /\ ~BulkFailure(got)
    BY <2>1 DEF IbUnreachable, Saw
  <2>3. outage # "ssh"
    <3> SUFFICES ASSUME outage = "ssh" PROVE BulkFailure(got)
      BY <2>2
    <3>1. {u \in DOMAIN got : ~got[u].ssh} = Here
      BY <1>1, <1>2, <1>3
    <3>2. Here = Fleet["switch_ib_ssh_unreachable"]
      BY <1>5, HereIsFleet, ConditionNames DEF Signals
    <3> QED BY <3>1, <3>2 DEF BulkFailure
  <2> QED BY <1>3, <2>2, <2>3
<1>6. CASE signal = "switch_ufm_unreachable"
  <2>1. Says(t) = UfmUnreachable(Collected(t), AllFailing(got), kept[t])
    BY <1>1, <1>4, <1>6 DEF Analyze
  <2>2. NoAnswer(Collected(t)) /\ ~AllFailing(got)
    BY <2>1 DEF UfmUnreachable, Saw
  <2>3. outage \notin {"ssh", "outputs"}
    <3> SUFFICES ASSUME outage \in {"ssh", "outputs"} PROVE AllFailing(got)
      BY <2>2
    <3>1. \A u \in DOMAIN got : NoAnswer(got[u])
      BY <1>1, <1>2, <1>3 DEF NoAnswer
    <3>2. Here = Fleet["switch_ufm_unreachable"]
      BY <1>6, HereIsFleet, ConditionNames DEF Signals
    <3> QED BY <1>2, <3>1, <3>2 DEF AllFailing
  <2> QED BY <1>3, <2>2, <2>3 DEF NoAnswer
<1> QED BY <1>5, <1>6 DEF Bulk

\* As many bad runs as are counted, the switch was down itself.
DownAsCounted == signal \in Bulk => \A t \in AllTargets : row[t].bad <= facts[t]

LEMMA DownStep ==
  ASSUME Cardinality(Fleet["switch_ib_ssh_unreachable"]) > BULK_FAILURE_THRESHOLD,
         Cardinality(Fleet["switch_ufm_unreachable"]) > 1,
         RulesTyped, DownAsCounted, signal \in Bulk, Check, NEW t \in Here
  PROVE  row'[t].bad <= facts'[t] /\ (Opens(t) => facts'[t] >= OpenAfter[signal])
<1> DEFINE limit == OpenAfter[signal]
           status == Says(t).status
<1>1. signal \in Conditions /\ signal \notin Events
  BY ConditionNames DEF Bulk, Events
<1>2. limit \in Nat \ {0}
  BY <1>1, PolicyTyped
<1>3. /\ t \in AllTargets /\ row'[t] = Observed(row[t], status, limit)
      /\ facts'[t] = Facts(t, Collected(t), status)
      /\ status \in {"bad", "healthy", "unknown", "none"}
  BY <1>1, CheckStep DEF Observation
<1>4. /\ row[t].bad \in Nat /\ row[t].open \in BOOLEAN /\ facts[t] \in Nat
      /\ row[t].bad <= facts[t]
  BY <1>3 DEF RulesTyped, Row, DownAsCounted
<1>5. facts'[t] = IF status = "healthy" THEN 0
                  ELSE IF world[t].dead \/ world[t].bare THEN Count(facts[t], limit) ELSE facts[t]
  BY <1>3, BulkFacts
<1>6. status = "bad" => world[t].dead \/ world[t].bare
  BY BadIsOwnFault
<1> HIDE DEF limit, status
<1>7. CASE status = "bad"
  <2>1. /\ row'[t].bad = Count(row[t].bad, limit)
        /\ row'[t].open = (row[t].open \/ Count(row[t].bad, limit) >= limit)
    BY <1>3, <1>7 DEF Observed
  <2>2. facts'[t] = Count(facts[t], limit)
    BY <1>5, <1>6, <1>7
  <2>3. Count(row[t].bad, limit) <= Count(facts[t], limit)
    BY <1>2, <1>4 DEF Count
  <2>4. Opens(t) => Count(row[t].bad, limit) >= limit
    BY <2>1 DEF Opens
  <2>5. Count(row[t].bad, limit) \in Nat /\ Count(facts[t], limit) \in Nat
    BY <1>4, CountTyped
  <2> QED BY <1>2, <2>1, <2>2, <2>3, <2>4, <2>5 DEF limit
<1>8. CASE status = "healthy"
  <2>1. row'[t].bad = 0 /\ row'[t].open = (row[t].open /\ Count(row[t].healthy, CloseAfter) < CloseAfter)
    BY <1>3, <1>8 DEF Observed
  <2>2. ~Opens(t)
    BY <2>1 DEF Opens
  <2> QED BY <1>5, <1>8, <2>1, <2>2
<1>9. CASE status \in {"unknown", "none"}
  <2>1. row'[t] = row[t]
    BY <1>3, <1>9 DEF Observed, Unchanged
  <2>2. ~Opens(t)
    BY <2>1 DEF Opens
  <2>3. facts'[t] >= facts[t] /\ facts'[t] \in Nat
    BY <1>2, <1>4, <1>5, <1>9 DEF Count
  <2> QED BY <1>4, <2>1, <2>2, <2>3
<1> QED BY <1>3, <1>7, <1>8, <1>9

LEMMA DownInit == RulesInit => DownAsCounted
BY DEF RulesInit, DownAsCounted

LEMMA DownNext ==
  ASSUME Cardinality(Fleet["switch_ib_ssh_unreachable"]) > BULK_FAILURE_THRESHOLD,
         Cardinality(Fleet["switch_ufm_unreachable"]) > 1,
         RulesTyped, DownAsCounted, [RulesNext]_rulesVars
  PROVE  DownAsCounted'
<1>1. ASSUME UNCHANGED <<signal, row, facts>> PROVE DownAsCounted'
  BY <1>1 DEF DownAsCounted
<1>2. ASSUME NEW t \in AllTargets, Grow(t) PROVE DownAsCounted'
  <2>1. signal \in Bulk => signal # "b300_gpu_xid"
    BY DEF Bulk
  <2> QED BY <1>2, <2>1, GrowStep DEF DownAsCounted
<1>3. ASSUME NEW t \in AllTargets, Reboot(t) \/ FaultTurns(t) PROVE DownAsCounted'
  BY <1>1, <1>3 DEF Reboot, FaultTurns
<1>4. CASE Outage
  BY <1>1, <1>4 DEF Outage
<1>5. CASE Check
  <2> SUFFICES ASSUME signal' \in Bulk, NEW t \in AllTargets PROVE row'[t].bad <= facts'[t]
    BY DEF DownAsCounted
  <2>1. signal \in Bulk
    BY <1>5 DEF Check
  <2>2. CASE t \in Here
    BY <1>5, <2>1, <2>2, DownStep
  <2>3. CASE t \notin Here
    BY <1>5, <2>1, <2>3, CheckElsewhere DEF DownAsCounted
  <2> QED BY <2>2, <2>3
<1>6. CASE JobStep \/ UNCHANGED rulesVars
  BY <1>1, <1>6, JobStepKeeps DEF rulesVars, nodeVars
<1> QED BY <1>2, <1>3, <1>4, <1>5, <1>6 DEF RulesNext, JobStep

\* Only a run of the rule opens the finding of a target it collects.
LEMMA OnlyCheckOpens ==
  ASSUME [RulesNext]_rulesVars, NEW t \in AllTargets, Opens(t)
  PROVE  Check /\ t \in Here
<1>1. row' # row
  BY DEF Opens
<1>2. Check
  BY <1>1, JobStepKeeps DEF RulesNext, Grow, Reboot, FaultTurns, Outage, JobStep, rulesVars, nodeVars
<1>3. t \in Here
  BY <1>2, CheckElsewhere DEF Opens
<1> QED BY <1>2, <1>3

\* A switch that is found unreachable was down itself in as many runs as the policy asks for,
\* whatever outages of the way to all of them came between, in a fleet large enough for an
\* outage to be told from single failures.
THEOREM OutagesOpenNothing ==
  ASSUME Cardinality(Fleet["switch_ib_ssh_unreachable"]) > BULK_FAILURE_THRESHOLD,
         Cardinality(Fleet["switch_ufm_unreachable"]) > 1
  PROVE  RulesSpec => OutageOpensNothing
<1> DEFINE Step1 == \A t \in AllTargets :
                      signal \in Bulk /\ Opens(t) => facts'[t] >= OpenAfter[signal]
<1>1. RulesTyped /\ DownAsCounted /\ [RulesNext]_rulesVars => DownAsCounted'
  BY DownNext
<1>2. RulesTyped /\ DownAsCounted /\ [RulesNext]_rulesVars => [Step1]_rulesVars
  BY OnlyCheckOpens, DownStep
<1> QED BY <1>1, <1>2, DownInit, RulesTypedAlways, PTL DEF RulesSpec, OutageOpensNothing

-----------------------------------------------------------------------------
(* Counts that grow.                                                       *)

\* A count that is read is the target's or, of a text that is missing, 0.
LEMMA CollectedCounts ==
  ASSUME RulesTyped, NEW t \in AllTargets
  PROVE  /\ Collected(t).errs \in {0, world[t].errs} /\ Collected(t).log \in {0, world[t].log}
         /\ Collected(t).fault => world[t].fault
         /\ signal \notin TwoTexts =>
              \/ Collected(t).has = {} /\ Collected(t).errs = 0 /\ Collected(t).log = 0
              \/ /\ Collected(t).has = {"count", "log"} /\ Collected(t).ssh
                 /\ Collected(t).errs = world[t].errs /\ Collected(t).log = world[t].log
<1> DEFINE w == world[t]
           p == Collected(t)
<1>1. /\ p.has = IF p.outputs THEN {"count", "log"} \ w.mute ELSE {}
      /\ p.outputs => p.ssh
      /\ p.errs = IF "count" \in p.has THEN w.errs ELSE 0
      /\ p.log = IF "log" \in p.has THEN w.log ELSE 0
      /\ p.fault => w.fault
  BY DEF Collected
<1>2. signal \notin TwoTexts => w.mute \in {{}, {"count", "log"}}
  BY DEF RulesTyped
<1> HIDE DEF w, p
<1>3. signal \notin TwoTexts => p.has = {} \/ (p.has = {"count", "log"} /\ p.outputs)
  BY <1>1, <1>2
<1>4. /\ p.errs \in {0, w.errs} /\ p.log \in {0, w.log}
      /\ signal \notin TwoTexts =>
           \/ p.has = {} /\ p.errs = 0 /\ p.log = 0
           \/ p.has = {"count", "log"} /\ p.ssh /\ p.errs = w.errs /\ p.log = w.log
  BY <1>1, <1>3
<1> QED BY <1>1, <1>4 DEF p, w

LEMMA GrowthFacts ==
  ASSUME signal \in Growth, NEW t, NEW p, NEW status
  PROVE  Facts(t, p, status) = IF Reads(p) THEN IF t \in grew THEN Count(facts[t], 3) ELSE 0
                               ELSE facts[t]
<1>1. signal \notin Bulk /\ signal # "b300_gpu_xid"
  BY DEF Bulk, Growth
<1> QED BY <1>1 DEF Facts

\* What a run does to the row of a condition.
LEMMA RowStep ==
  ASSUME RulesTyped, signal \notin Events, Check, NEW t \in Here
  PROVE  /\ row'[t].bad = IF Says(t).status = "bad" THEN Count(row[t].bad, OpenAfter[signal])
                          ELSE IF Says(t).status = "healthy" THEN 0 ELSE row[t].bad
         /\ Opens(t) => /\ Says(t).status = "bad"
                        /\ Count(row[t].bad, OpenAfter[signal]) >= OpenAfter[signal]
<1> DEFINE status == Says(t).status
           limit == OpenAfter[signal]
<1>1. row'[t] = Observed(row[t], status, limit) /\ status \in {"bad", "healthy", "unknown", "none"}
  BY CheckStep DEF Observation
<1> HIDE DEF status, limit
<1>2. CASE status = "bad"
  <2>1. /\ row'[t].bad = Count(row[t].bad, limit)
        /\ row'[t].open = (row[t].open \/ Count(row[t].bad, limit) >= limit)
    BY <1>1, <1>2 DEF Observed
  <2>2. Opens(t) => Count(row[t].bad, limit) >= limit
    BY <2>1 DEF Opens
  <2> QED BY <1>2, <2>1, <2>2 DEF status, limit
<1>3. CASE status = "healthy"
  <2>1. /\ row'[t].bad = 0
        /\ row'[t].open = (row[t].open /\ Count(row[t].healthy, CloseAfter) < CloseAfter)
    BY <1>1, <1>3 DEF Observed
  <2>2. ~Opens(t)
    BY <2>1 DEF Opens
  <2> QED BY <1>3, <2>1, <2>2 DEF status, limit
<1>4. CASE status \in {"unknown", "none"}
  BY <1>1, <1>4 DEF Observed, Unchanged, Opens, status, limit
<1> QED BY <1>1, <1>2, <1>3, <1>4

\* A target whose counts did not grow is read as not above what is kept of it.
NothingNew(t) == t \notin grew => kept[t].errs = 0 \/ world[t].errs <= kept[t].errs
NoPortNew(t) ==
  t \notin grew => \/ kept[t].errs = 0 /\ kept[t].log = 0
                   \/ world[t].errs <= kept[t].errs /\ world[t].log <= kept[t].log

\* What the counters of each signal rest on.
Mlx5Rests(t) == signal = "b300_nic_mlx5_errors" => NothingNew(t) /\ row[t].bad <= facts[t]
H200Rests(t) == signal = "h200_nvme_health_issue" => NothingNew(t)
SymbolRests(t) ==
  signal = "switch_ib_symbol_errors" =>
    NothingNew(t) /\ row[t].bad <= facts[t] + 1 /\ (row[t].bad > 0 => kept[t].errs > 0)
RuijieRests(t) == signal = "switch_ruijie_port_errors" => NoPortNew(t) /\ row[t].bad <= facts[t]
XidRests(t) ==
  signal = "b300_gpu_xid" =>
    /\ facts[t] <= 2 /\ kept[t].consecutive <= facts[t]
    /\ world[t].errs > kept[t].errs /\ facts[t] < 2 => kept[t].consecutive + 1 <= facts[t]

CountersRest ==
  \A t \in AllTargets :
    Mlx5Rests(t) /\ H200Rests(t) /\ SymbolRests(t) /\ RuijieRests(t) /\ XidRests(t)

\* What the property claims of the target a run opens the finding of.
Rests(t) ==
  /\ /\ signal \in Growth /\ Opens(t)
     /\ signal = "h200_nvme_health_issue" => ~world[t].fault /\ kept'[t].log <= kept[t].log
     => facts'[t] >= Needed
  /\ signal = "b300_gpu_xid" /\ kept'[t].fired # kept[t].fired => facts[t] >= 2

LEMMA CountsTyped ==
  ASSUME RulesTyped, NEW t \in AllTargets
  PROVE  /\ world[t].errs \in Nat /\ world[t].log \in Nat
         /\ kept[t].errs \in Nat /\ kept[t].log \in Nat /\ kept[t].fired \in Nat
         /\ kept[t].consecutive \in 0 .. 2
         /\ row[t].bad \in Nat /\ facts[t] \in Nat
BY DEF RulesTyped, Machine, Memory, Row, CONSECUTIVE_REQUIRED

LEMMA Mlx5Step ==
  ASSUME RulesTyped, signal = "b300_nic_mlx5_errors", NEW t \in Here, Mlx5Rests(t), Check
  PROVE  Mlx5Rests(t)' /\ Rests(t)
<1> DEFINE p == Collected(t)
           m == kept[t]
           worse == p.errs > 0 /\ m.errs > 0 /\ p.errs - m.errs >= MLX5_DELTA_THRESHOLD
<1>1. Says(t) = NicMlx5Errors(p, m)
  <2>1. [u \in Here |-> Collected(u)][t] = p
    OBVIOUS
  <2> QED BY <2>1 DEF Says, Analyze
<1>2. /\ t \in AllTargets /\ UNCHANGED <<signal, world>> /\ kept'[t] = Says(t).keep
      /\ facts'[t] = Facts(t, p, Says(t).status)
      /\ t \in grew' <=> t \in grew /\ ~Reads(p)
  BY CheckStep
<1>3. /\ world[t].errs \in Nat /\ m.errs \in Nat /\ row[t].bad \in Nat /\ facts[t] \in Nat
      /\ m \in Memory
  BY <1>2, CountsTyped DEF RulesTyped
<1>4. p.errs \in {0, world[t].errs}
  BY <1>2, CollectedCounts
<1>5. Reads(p) = p.ssh
  BY DEF Reads
<1>6. facts'[t] = IF Reads(p) THEN IF t \in grew THEN Count(facts[t], 3) ELSE 0 ELSE facts[t]
  BY <1>2, GrowthFacts DEF Growth
<1>7. /\ row'[t].bad = IF Says(t).status = "bad" THEN Count(row[t].bad, 3)
                       ELSE IF Says(t).status = "healthy" THEN 0 ELSE row[t].bad
      /\ Opens(t) => Says(t).status = "bad" /\ Count(row[t].bad, 3) >= 3
  BY RowStep, Policies DEF Events
<1>8. Needed = 3
  BY Policies DEF Needed
<1>9. NothingNew(t) /\ row[t].bad <= facts[t]
  BY DEF Mlx5Rests
<1>10. MLX5_DELTA_THRESHOLD \in Nat /\ MLX5_DELTA_THRESHOLD >= 1
  BY ThresholdAssumption
<1> HIDE DEF p, m
<1>11. CASE ~p.ssh
  <2>1. Says(t).status = "unknown" /\ Says(t).keep = m
    BY <1>1, <1>11 DEF NicMlx5Errors, Saw
  <2>2. NothingNew(t)' /\ row'[t].bad <= facts'[t]
    BY <1>2, <1>5, <1>6, <1>7, <1>9, <1>11, <2>1 DEF NothingNew, m
  <2> QED BY <1>7, <2>1, <2>2 DEF Mlx5Rests, Rests
<1>12. CASE p.ssh
  <2>1. /\ Says(t).status = IF worse THEN "bad" ELSE "healthy"
        /\ Says(t).keep.errs = p.errs
    BY <1>1, <1>3, <1>12 DEF NicMlx5Errors, Saw, Verdict, Memory
  <2>2. worse => t \in grew
    BY <1>3, <1>4, <1>9, <1>10 DEF NothingNew, m
  <2>3. NothingNew(t)'
    BY <1>2, <1>3, <1>4, <2>1 DEF NothingNew
  <2>4. facts'[t] = IF t \in grew THEN Count(facts[t], 3) ELSE 0
    BY <1>5, <1>6, <1>12
  <2> HIDE DEF worse
  <2>5. CASE worse
    <3>1. row'[t].bad = Count(row[t].bad, 3) /\ facts'[t] = Count(facts[t], 3)
      BY <1>7, <2>1, <2>2, <2>4, <2>5
    <3>2. Count(row[t].bad, 3) <= Count(facts[t], 3)
      BY <1>3, <1>9 DEF Count
    <3>3. Opens(t) => Count(facts[t], 3) >= 3
      BY <1>3, <1>7, <1>9 DEF Count
    <3> QED BY <1>8, <2>3, <3>1, <3>2, <3>3 DEF Mlx5Rests, Rests
  <2>6. CASE ~worse
    <3>1. row'[t].bad = 0 /\ ~Opens(t)
      BY <1>7, <2>1, <2>6
    <3>2. facts'[t] >= 0
      BY <1>3, <2>4 DEF Count
    <3> QED BY <2>3, <3>1, <3>2 DEF Mlx5Rests, Rests
  <2> QED BY <2>5, <2>6
<1> QED BY <1>11, <1>12

LEMMA H200Step ==
  ASSUME RulesTyped, signal = "h200_nvme_health_issue", NEW t \in Here, H200Rests(t), Check
  PROVE  H200Rests(t)' /\ Rests(t)
<1> DEFINE p == Collected(t)
           m == kept[t]
<1>1. Says(t) = H200Nvme(p, m)
  <2>1. [u \in Here |-> Collected(u)][t] = p
    OBVIOUS
  <2> QED BY <2>1 DEF Says, Analyze
<1>2. /\ t \in AllTargets /\ UNCHANGED <<signal, world>> /\ kept'[t] = Says(t).keep
      /\ facts'[t] = Facts(t, p, Says(t).status)
      /\ t \in grew' <=> t \in grew /\ ~Reads(p)
  BY CheckStep
<1>3. /\ world[t].errs \in Nat /\ m.errs \in Nat /\ m.log \in Nat /\ facts[t] \in Nat
      /\ m \in Memory /\ p.errs \in Nat /\ p.log \in Nat
  BY <1>2, CountsTyped, CollectedTyped DEF RulesTyped, Payload
<1>4. p.errs \in {0, world[t].errs} /\ (p.fault => world[t].fault)
  BY <1>2, CollectedCounts
<1>5. Reads(p) = p.outputs
  BY DEF Reads
<1>6. facts'[t] = IF Reads(p) THEN IF t \in grew THEN Count(facts[t], 3) ELSE 0 ELSE facts[t]
  BY <1>2, GrowthFacts DEF Growth
<1>7. Opens(t) => Says(t).status = "bad"
  BY RowStep DEF Events
<1>8. Needed = 1
  BY DEF Needed
<1>9. NothingNew(t)
  BY DEF H200Rests
<1> HIDE DEF p, m
<1>10. CASE ~p.outputs
  <2>1. Says(t).status = "unknown" /\ Says(t).keep = m
    BY <1>1, <1>10 DEF H200Nvme, Saw
  <2>2. NothingNew(t)'
    BY <1>2, <1>5, <1>9, <1>10, <2>1 DEF NothingNew, m
  <2> QED BY <1>7, <2>1, <2>2 DEF H200Rests, Rests
<1>11. CASE p.outputs
  <2>1. /\ Says(t).status = IF MediaIncreasing(p, m) \/ p.log > m.log \/ p.fault
                              THEN "bad" ELSE "healthy"
        /\ Says(t).keep.errs = p.errs /\ Says(t).keep.log = p.log
    <3> DEFINE seen == [m EXCEPT !.errs = p.errs, !.log = p.log]
               status == Verdict(MediaIncreasing(p, m) \/ p.log > m.log \/ p.fault)
    <3>1. Says(t) = Saw(status, seen)
      BY <1>1, <1>11 DEF H200Nvme
    <3>2. seen.errs = p.errs /\ seen.log = p.log
      BY <1>3 DEF Memory
    <3>3. status = IF MediaIncreasing(p, m) \/ p.log > m.log \/ p.fault THEN "bad" ELSE "healthy"
      BY DEF Verdict
    <3> HIDE DEF seen, status
    <3> QED BY <3>1, <3>2, <3>3, SawParts
  <2>2. NothingNew(t)'
    BY <1>2, <1>3, <1>4, <2>1 DEF NothingNew
  <2>3. MediaIncreasing(p, m) => t \in grew
    BY <1>3, <1>4, <1>9 DEF MediaIncreasing, NothingNew, m
  <2>4. t \in grew => facts'[t] >= 1
    BY <1>3, <1>5, <1>6, <1>11 DEF Count
  <2>5. ASSUME Opens(t), ~world[t].fault, kept'[t].log <= kept[t].log
        PROVE  facts'[t] >= 1
    <3>1. MediaIncreasing(p, m) \/ p.log > m.log
      BY <1>4, <1>7, <2>1, <2>5
    <3>2. ~(p.log > m.log)
      BY <1>2, <1>3, <2>1, <2>5 DEF m
    <3> QED BY <2>3, <2>4, <3>1, <3>2
  <2> QED BY <1>8, <2>2, <2>5 DEF H200Rests, Rests
<1> QED BY <1>10, <1>11

LEMMA SymbolStep ==
  ASSUME RulesTyped, signal = "switch_ib_symbol_errors", NEW t \in Here, SymbolRests(t), Check
  PROVE  SymbolRests(t)' /\ Rests(t)
<1> DEFINE p == Collected(t)
           m == kept[t]
           worse == p.errs - m.errs >= SYMBOL_ERROR_DELTA_THRESHOLD
<1>1. Says(t) = IbSymbolErrors(p, m)
  <2>1. [u \in Here |-> Collected(u)][t] = p
    OBVIOUS
  <2> QED BY <2>1 DEF Says, Analyze
<1>2. /\ t \in AllTargets /\ UNCHANGED <<signal, world>> /\ kept'[t] = Says(t).keep
      /\ facts'[t] = Facts(t, p, Says(t).status)
      /\ t \in grew' <=> t \in grew /\ ~Reads(p)
  BY CheckStep
<1>3. /\ world[t].errs \in Nat /\ m.errs \in Nat /\ row[t].bad \in Nat /\ facts[t] \in Nat
      /\ m \in Memory
  BY <1>2, CountsTyped DEF RulesTyped
<1>4. p.errs \in {0, world[t].errs}
  BY <1>2, CollectedCounts
<1>5. Reads(p) = p.ssh
  BY DEF Reads
<1>6. facts'[t] = IF Reads(p) THEN IF t \in grew THEN Count(facts[t], 3) ELSE 0 ELSE facts[t]
  BY <1>2, GrowthFacts DEF Growth
<1>7. /\ row'[t].bad = IF Says(t).status = "bad" THEN Count(row[t].bad, 3)
                       ELSE IF Says(t).status = "healthy" THEN 0 ELSE row[t].bad
      /\ Opens(t) => Says(t).status = "bad" /\ Count(row[t].bad, 3) >= 3
  BY RowStep, Policies DEF Events
<1>8. Needed = 2
  BY DEF Needed
<1>9. NothingNew(t) /\ row[t].bad <= facts[t] + 1 /\ (row[t].bad > 0 => m.errs > 0)
  BY DEF SymbolRests
<1>10. SYMBOL_ERROR_DELTA_THRESHOLD \in Nat /\ SYMBOL_ERROR_DELTA_THRESHOLD >= 1
  BY ThresholdAssumption
<1> HIDE DEF p, m
<1>11. CASE ~p.ssh
  <2>1. Says(t).status = "none" /\ Says(t).keep = m
    BY <1>1, <1>11 DEF IbSymbolErrors, Saw
  <2>2. NothingNew(t)'
    BY <1>2, <1>5, <1>9, <1>11, <2>1 DEF NothingNew, m
  <2>3. row'[t].bad = row[t].bad /\ facts'[t] = facts[t] /\ kept'[t].errs = m.errs
    BY <1>2, <1>5, <1>6, <1>7, <1>11, <2>1
  <2> QED BY <1>7, <1>9, <2>1, <2>2, <2>3 DEF SymbolRests, Rests
<1>12. CASE p.ssh
  <2>1. /\ Says(t).status = IF worse THEN "bad" ELSE "healthy"
        /\ Says(t).keep.errs = p.errs
    BY <1>1, <1>3, <1>12 DEF IbSymbolErrors, Saw, Verdict, Memory
  <2>2. worse => p.errs > 0 /\ (t \in grew \/ m.errs = 0)
    BY <1>3, <1>4, <1>9, <1>10 DEF NothingNew, m
  <2>3. NothingNew(t)'
    BY <1>2, <1>3, <1>4, <2>1 DEF NothingNew
  <2>4. facts'[t] = IF t \in grew THEN Count(facts[t], 3) ELSE 0
    BY <1>5, <1>6, <1>12
  <2> HIDE DEF worse
  <2>5. CASE worse
    <3>1. row'[t].bad = Count(row[t].bad, 3) /\ kept'[t].errs = p.errs /\ p.errs > 0
      BY <1>2, <1>7, <2>1, <2>2, <2>5
    <3>2. Count(row[t].bad, 3) <= facts'[t] + 1
      <4>1. CASE t \in grew
        BY <1>3, <1>9, <2>4, <4>1 DEF Count
      <4>2. CASE t \notin grew
        <5>1. m.errs = 0
          BY <2>2, <2>5, <4>2
        <5>2. row[t].bad = 0
          BY <1>3, <1>9, <5>1
        <5> QED BY <2>4, <4>2, <5>2 DEF Count
      <4> QED BY <4>1, <4>2
    <3>3. Opens(t) => facts'[t] >= 2
      <4>1. facts'[t] \in Nat
        BY <1>3, <2>4 DEF Count
      <4>2. Count(row[t].bad, 3) \in Nat
        BY <1>3, CountTyped
      <4> QED BY <1>7, <3>2, <4>1, <4>2
    <3> QED BY <1>8, <2>3, <3>1, <3>2, <3>3 DEF SymbolRests, Rests
  <2>6. CASE ~worse
    <3>1. row'[t].bad = 0 /\ ~Opens(t)
      BY <1>7, <2>1, <2>6
    <3>2. facts'[t] + 1 >= 0
      BY <1>3, <2>4 DEF Count
    <3> QED BY <2>3, <3>1, <3>2 DEF SymbolRests, Rests
  <2> QED BY <2>5, <2>6
<1> QED BY <1>11, <1>12

LEMMA RuijieStep ==
  ASSUME RulesTyped, signal = "switch_ruijie_port_errors", NEW t \in Here, RuijieRests(t), Check
  PROVE  RuijieRests(t)' /\ Rests(t)
<1> DEFINE p == Collected(t)
           m == kept[t]
           seen == [m EXCEPT !.errs = p.errs, !.log = p.log]
           anew == [m EXCEPT !.errs = 0, !.log = 0]
           crc == p.errs - m.errs
           fcs == p.log - m.log
           worse == /\ (m.errs > 0 \/ m.log > 0) /\ (p.errs > 0 \/ p.log > 0)
                    /\ (crc > 0 \/ fcs > 0)
                    /\ crc + fcs >= MIN_PORT_DELTA
<1>1. Says(t) = RuijiePortErrors(p, m)
  <2>1. [u \in Here |-> Collected(u)][t] = p
    OBVIOUS
  <2> QED BY <2>1 DEF Says, Analyze
<1>2. /\ t \in AllTargets /\ UNCHANGED <<signal, world>> /\ kept'[t] = Says(t).keep
      /\ facts'[t] = Facts(t, p, Says(t).status)
      /\ t \in grew' <=> t \in grew /\ ~Reads(p)
  BY CheckStep
<1>3. /\ world[t].errs \in Nat /\ world[t].log \in Nat /\ m.errs \in Nat /\ m.log \in Nat
      /\ row[t].bad \in Nat /\ facts[t] \in Nat /\ m \in Memory
  BY <1>2, CountsTyped DEF RulesTyped
<1>4. \/ p.has = {}
      \/ p.has # {} /\ p.ssh /\ p.errs = world[t].errs /\ p.log = world[t].log
  BY <1>2, CollectedCounts DEF TwoTexts
<1>5. Reads(p) = (p.has # {})
  BY DEF Reads
<1>6. facts'[t] = IF Reads(p) THEN IF t \in grew THEN Count(facts[t], 3) ELSE 0 ELSE facts[t]
  BY <1>2, GrowthFacts DEF Growth
<1>7. /\ row'[t].bad = IF Says(t).status = "bad" THEN Count(row[t].bad, 2)
                       ELSE IF Says(t).status = "healthy" THEN 0 ELSE row[t].bad
      /\ Opens(t) => Says(t).status = "bad" /\ Count(row[t].bad, 2) >= 2
  BY RowStep, Policies DEF Events
<1>8. Needed = 2
  BY Policies DEF Needed
<1>9. NoPortNew(t) /\ row[t].bad <= facts[t]
  BY DEF RuijieRests
<1>10. seen.errs = p.errs /\ seen.log = p.log /\ anew.errs = 0 /\ anew.log = 0
  BY <1>3 DEF Memory
<1>11. p.has = {} => Says(t) \in {Saw("none", anew), Saw("unknown", m)}
  BY <1>1 DEF RuijiePortErrors
<1>12. p.has # {} => Says(t) = Saw(Verdict(worse), seen)
  BY <1>1, <1>4 DEF RuijiePortErrors
<1> HIDE DEF p, m, seen, anew
<1>13. CASE p.has = {}
  <2>1. /\ Says(t).status \in {"unknown", "none"}
        /\ Says(t).keep = m \/ (Says(t).keep.errs = 0 /\ Says(t).keep.log = 0)
    BY <1>10, <1>13, <1>11, SawParts
  <2>2. NoPortNew(t)'
    BY <1>2, <1>5, <1>9, <1>13, <2>1 DEF NoPortNew, m
  <2>3. row'[t].bad = row[t].bad /\ facts'[t] = facts[t] /\ ~Opens(t)
    BY <1>5, <1>6, <1>7, <1>13, <2>1
  <2> QED BY <1>9, <2>2, <2>3 DEF RuijieRests, Rests
<1>14. CASE p.has # {}
  <2>1. /\ Says(t).status = IF worse THEN "bad" ELSE "healthy"
        /\ Says(t).keep.errs = p.errs /\ Says(t).keep.log = p.log
    BY <1>10, <1>14, <1>12, SawParts DEF Verdict
  <2>2. worse => t \in grew
    BY <1>3, <1>4, <1>9, <1>14 DEF NoPortNew, m
  <2>3. NoPortNew(t)'
    <3>1. kept'[t].errs = world'[t].errs /\ kept'[t].log = world'[t].log
      BY <1>2, <1>4, <1>14, <2>1
    <3> QED BY <1>2, <1>3, <3>1 DEF NoPortNew
  <2>4. facts'[t] = IF t \in grew THEN Count(facts[t], 3) ELSE 0
    BY <1>5, <1>6, <1>14
  <2> HIDE DEF worse
  <2>5. CASE worse
    <3>1. row'[t].bad = Count(row[t].bad, 2) /\ facts'[t] = Count(facts[t], 3)
      BY <1>7, <2>1, <2>2, <2>4, <2>5
    <3>2. Count(row[t].bad, 2) <= Count(facts[t], 3)
      BY <1>3, <1>9 DEF Count
    <3>3. Opens(t) => Count(facts[t], 3) >= 2
      BY <1>3, <1>7, <1>9 DEF Count
    <3> QED BY <1>8, <2>3, <3>1, <3>2, <3>3 DEF RuijieRests, Rests
  <2>6. CASE ~worse
    <3>1. row'[t].bad = 0 /\ ~Opens(t)
      BY <1>7, <2>1, <2>6
    <3>2. facts'[t] >= 0
      BY <1>3, <2>4 DEF Count
    <3> QED BY <2>3, <3>1, <3>2 DEF RuijieRests, Rests
  <2> QED BY <2>5, <2>6
<1> QED BY <1>13, <1>14

LEMMA XidStep ==
  ASSUME RulesTyped, signal = "b300_gpu_xid", NEW t \in Here, XidRests(t), Check
  PROVE  XidRests(t)' /\ Rests(t)
<1> DEFINE p == Collected(t)
           m == kept[t]
           n == p.errs
           again == IF ~NewEvents(n, m) THEN 0
                    ELSE IF m.consecutive < CONSECUTIVE_REQUIRED THEN m.consecutive + 1
                    ELSE CONSECUTIVE_REQUIRED
           next == [m EXCEPT !.errs = n, !.consecutive = again]
           calm == [m EXCEPT !.errs = n, !.consecutive = 0]
           fire == [next EXCEPT !.consecutive = 0, !.fired = n]
<1>1. Says(t) = GpuXid(p, m)
  <2>1. [u \in Here |-> Collected(u)][t] = p
    OBVIOUS
  <2> QED BY <2>1 DEF Says, Analyze
<1>2. /\ t \in AllTargets /\ UNCHANGED <<signal, world>> /\ kept'[t] = Says(t).keep
      /\ facts'[t] = Facts(t, p, Says(t).status)
  BY CheckStep
<1>3. /\ world[t].errs \in Nat /\ m.errs \in Nat /\ m.consecutive \in 0 .. 2 /\ m.fired \in Nat
      /\ facts[t] \in Nat /\ m \in Memory
  BY <1>2, CountsTyped DEF RulesTyped
<1>4. \/ p.has = {} /\ n = 0
      \/ p.has # {} /\ p.ssh /\ n = world[t].errs
  BY <1>2, CollectedCounts DEF TwoTexts
<1>5. /\ facts[t] <= 2 /\ m.consecutive <= facts[t]
      /\ world[t].errs > m.errs /\ facts[t] < 2 => m.consecutive + 1 <= facts[t]
  BY DEF XidRests
<1>6. /\ calm.errs = n /\ calm.consecutive = 0 /\ calm.fired = m.fired
      /\ next.errs = n /\ next.consecutive = again /\ next.fired = m.fired
      /\ fire.errs = n /\ fire.consecutive = 0 /\ fire.fired = n
  BY <1>3 DEF Memory
<1>7. again = IF n > m.errs THEN (IF m.consecutive < 2 THEN m.consecutive + 1 ELSE 2) ELSE 0
  BY DEF NewEvents, CONSECUTIVE_REQUIRED
<1>8. signal \notin Growth /\ signal \notin Bulk
  BY DEF Growth, Bulk
<1>9. Says(t) = IF ~p.ssh THEN Saw("none", m)
                 ELSE IF n = 0 \/ n < m.errs THEN Saw("none", calm)
                 ELSE IF n <= m.fired \/ again < 2 \/ ~p.fault THEN Saw("none", next)
                 ELSE Saw("bad", fire)
  BY <1>1 DEF GpuXid, CONSECUTIVE_REQUIRED
<1> HIDE DEF p, m, n, again, next, calm, fire
<1>10. CASE ~p.ssh
  <2>1. Says(t).status = "none" /\ Says(t).keep = m
    BY <1>9, <1>10 DEF Saw
  <2>2. facts'[t] = facts[t]
    BY <1>2, <1>8, <1>10, <2>1 DEF Facts
  <2> QED BY <1>2, <1>5, <1>8, <2>1, <2>2 DEF XidRests, Rests, m
<1>11. CASE p.ssh /\ p.has = {}
  <2>1. Says(t).status = "none" /\ Says(t).keep = calm
    BY <1>4, <1>9, <1>11 DEF Saw
  <2>2. facts'[t] = IF facts[t] = 0 THEN 1 ELSE facts[t]
    BY <1>2, <1>8, <1>11, <2>1 DEF Facts
  <2>3. kept'[t].consecutive = 0 /\ kept'[t].fired = m.fired
    BY <1>2, <1>6, <2>1
  <2>4. facts'[t] \in 1 .. 2
    BY <1>3, <1>5, <2>2
  <2>5. kept'[t].consecutive <= facts'[t] /\ kept'[t].consecutive + 1 <= facts'[t]
    BY <2>3, <2>4
  <2> QED BY <1>8, <2>3, <2>4, <2>5 DEF XidRests, Rests, m
<1>12. CASE p.ssh /\ p.has # {} /\ Says(t).status # "bad"
  <2>1. facts'[t] = facts[t]
    BY <1>2, <1>8, <1>12 DEF Facts
  <2>2. Says(t).keep \in {calm, next}
    BY <1>9, <1>12 DEF Saw
  <2>3. kept'[t].errs = world[t].errs /\ kept'[t].fired = m.fired
    BY <1>2, <1>4, <1>6, <1>12, <2>2
  <2>4. kept'[t].consecutive <= facts[t]
    <3>1. again <= facts[t]
      BY <1>3, <1>4, <1>5, <1>7, <1>12
    <3> QED BY <1>2, <1>3, <1>6, <2>2, <3>1
  <2> QED BY <1>2, <1>3, <1>5, <1>8, <2>1, <2>3, <2>4 DEF XidRests, Rests, m
<1>13. CASE p.ssh /\ p.has # {} /\ Says(t).status = "bad"
  <2>1. Says(t).keep = fire /\ again >= 2
    <3>1. again \in Nat
      BY <1>3, <1>7
    <3> QED BY <1>9, <1>13, <3>1 DEF Saw
  <2>2. facts[t] >= 2
    BY <1>3, <1>4, <1>5, <1>7, <1>13, <2>1
  <2>3. facts'[t] = 0
    BY <1>2, <1>8, <1>13 DEF Facts
  <2>4. kept'[t].consecutive = 0 /\ kept'[t].errs = world'[t].errs
    BY <1>2, <1>4, <1>6, <1>13, <2>1
  <2> QED BY <1>2, <1>3, <1>8, <2>2, <2>3, <2>4 DEF XidRests, Rests
<1> QED BY <1>4, <1>10, <1>11, <1>12, <1>13

LEMMA RestKept ==
  ASSUME NEW t, UNCHANGED <<signal, kept, row>>, facts'[t] = facts[t],
         (t \in grew') = (t \in grew),
         world'[t].errs = world[t].errs /\ world'[t].log = world[t].log,
         Mlx5Rests(t) /\ H200Rests(t) /\ SymbolRests(t) /\ RuijieRests(t) /\ XidRests(t)
  PROVE  (Mlx5Rests(t) /\ H200Rests(t) /\ SymbolRests(t) /\ RuijieRests(t) /\ XidRests(t))'
BY DEF Mlx5Rests, H200Rests, SymbolRests, RuijieRests, XidRests, NothingNew, NoPortNew

LEMMA GrowRests ==
  ASSUME RulesTyped, CountersRest, NEW t \in AllTargets, Grow(t)
  PROVE  CountersRest'
<1> SUFFICES ASSUME NEW u \in AllTargets
             PROVE  (/\ Mlx5Rests(u) /\ H200Rests(u) /\ SymbolRests(u) /\ RuijieRests(u)
                     /\ XidRests(u))'
  BY DEF CountersRest
<1>1. Mlx5Rests(u) /\ H200Rests(u) /\ SymbolRests(u) /\ RuijieRests(u) /\ XidRests(u)
  BY DEF CountersRest
<1>2. CASE u # t
  <2>1. /\ UNCHANGED <<signal, kept, row>> /\ facts'[u] = facts[u] /\ world'[u] = world[u]
        /\ grew' = grew \cup {t}
    BY <1>2, GrowStep
  <2>2. (u \in grew') = (u \in grew)
    BY <1>2, <2>1
  <2> QED BY <1>1, <2>1, <2>2, RestKept
<1>3. CASE u = t
  <2>1. /\ UNCHANGED <<signal, kept, row>> /\ t \in grew'
        /\ facts'[t] = IF signal = "b300_gpu_xid" THEN IF facts[t] < 2 THEN facts[t] + 1 ELSE 2
                       ELSE facts[t]
    BY GrowStep
  <2>2. NothingNew(t)' /\ NoPortNew(t)'
    BY <2>1 DEF NothingNew, NoPortNew
  <2>3. (Mlx5Rests(t) /\ H200Rests(t) /\ SymbolRests(t) /\ RuijieRests(t))'
    BY <1>1, <1>3, <2>1, <2>2 DEF Mlx5Rests, H200Rests, SymbolRests, RuijieRests
  <2>4. XidRests(t)'
    BY <1>1, <1>3, <2>1, CountsTyped DEF XidRests
  <2> QED BY <1>3, <2>3, <2>4
<1> QED BY <1>2, <1>3

\* With a reboot no count is above what is kept of it.
LEMMA RebootRests ==
  ASSUME RulesTyped, CountersRest, NEW t \in AllTargets, Reboot(t)
  PROVE  CountersRest'
<1> SUFFICES ASSUME NEW u \in AllTargets
             PROVE  (/\ Mlx5Rests(u) /\ H200Rests(u) /\ SymbolRests(u) /\ RuijieRests(u)
                     /\ XidRests(u))'
  BY DEF CountersRest
<1>1. Mlx5Rests(u) /\ H200Rests(u) /\ SymbolRests(u) /\ RuijieRests(u) /\ XidRests(u)
  BY DEF CountersRest
<1>2. UNCHANGED <<signal, kept, row, facts, grew>>
  BY RebootStep
<1>3. CASE u # t
  <2>1. world'[u] = world[u]
    BY <1>3, RebootStep
  <2> QED BY <1>1, <1>2, <2>1, RestKept
<1>4. CASE u = t
  <2>1. world'[t].errs = 0 /\ world'[t].log = 0
    BY RebootStep
  <2>2. kept[t].errs \in Nat /\ kept[t].log \in Nat
    BY CountsTyped
  <2>3. NothingNew(t)' /\ NoPortNew(t)'
    BY <1>2, <2>1, <2>2 DEF NothingNew, NoPortNew
  <2> QED BY <1>1, <1>2, <1>4, <2>1, <2>2, <2>3
          DEF Mlx5Rests, H200Rests, SymbolRests, RuijieRests, XidRests
<1> QED BY <1>3, <1>4

LEMMA FaultRests ==
  ASSUME RulesTyped, CountersRest, NEW t \in AllTargets, FaultTurns(t)
  PROVE  CountersRest'
<1> SUFFICES ASSUME NEW u \in AllTargets
             PROVE  (/\ Mlx5Rests(u) /\ H200Rests(u) /\ SymbolRests(u) /\ RuijieRests(u)
                     /\ XidRests(u))'
  BY DEF CountersRest
<1>1. Mlx5Rests(u) /\ H200Rests(u) /\ SymbolRests(u) /\ RuijieRests(u) /\ XidRests(u)
  BY DEF CountersRest
<1>2. /\ UNCHANGED <<signal, kept, row, facts, grew>>
      /\ world'[u].errs = world[u].errs /\ world'[u].log = world[u].log
  BY FaultStep
<1> QED BY <1>1, <1>2, RestKept

LEMMA StaysRests ==
  ASSUME CountersRest, UNCHANGED <<signal, world, kept, row, facts, grew>>
  PROVE  CountersRest'
BY DEF CountersRest, Mlx5Rests, H200Rests, SymbolRests, RuijieRests, XidRests, NothingNew, NoPortNew

\* A run of the rule, for whichever signal.
LEMMA CheckRests ==
  ASSUME RulesTyped, CountersRest, Check, NEW t \in AllTargets
  PROVE  /\ (Mlx5Rests(t) /\ H200Rests(t) /\ SymbolRests(t) /\ RuijieRests(t) /\ XidRests(t))'
         /\ Rests(t)
<1>1. Mlx5Rests(t) /\ H200Rests(t) /\ SymbolRests(t) /\ RuijieRests(t) /\ XidRests(t)
  BY DEF CountersRest
<1>2. UNCHANGED <<signal, world>>
  BY DEF Check
<1>3. CASE t \notin Here
  <2>1. kept'[t] = kept[t] /\ row'[t] = row[t] /\ facts'[t] = facts[t]
    BY <1>3, CheckElsewhere
  <2>2. (t \in grew') = (t \in grew)
    BY <1>3 DEF Check
  <2>3. Rests(t)
    BY <2>1 DEF Rests, Opens
  <2> QED BY <1>1, <1>2, <2>1, <2>2, <2>3
          DEF Mlx5Rests, H200Rests, SymbolRests, RuijieRests, XidRests, NothingNew, NoPortNew
<1>4. CASE t \in Here /\ signal = "b300_nic_mlx5_errors"
  BY <1>1, <1>2, <1>4, Mlx5Step DEF H200Rests, SymbolRests, RuijieRests, XidRests
<1>5. CASE t \in Here /\ signal = "h200_nvme_health_issue"
  BY <1>1, <1>2, <1>5, H200Step DEF Mlx5Rests, SymbolRests, RuijieRests, XidRests
<1>6. CASE t \in Here /\ signal = "switch_ib_symbol_errors"
  BY <1>1, <1>2, <1>6, SymbolStep DEF Mlx5Rests, H200Rests, RuijieRests, XidRests
<1>7. CASE t \in Here /\ signal = "switch_ruijie_port_errors"
  BY <1>1, <1>2, <1>7, RuijieStep DEF Mlx5Rests, H200Rests, SymbolRests, XidRests
<1>8. CASE t \in Here /\ signal = "b300_gpu_xid"
  BY <1>1, <1>2, <1>8, XidStep DEF Mlx5Rests, H200Rests, SymbolRests, RuijieRests
<1>9. CASE signal \notin Growth \cup {"b300_gpu_xid"}
  BY <1>2, <1>9
     DEF Mlx5Rests, H200Rests, SymbolRests, RuijieRests, XidRests, Rests, Growth
<1> QED BY <1>3, <1>4, <1>5, <1>6, <1>7, <1>8, <1>9 DEF Growth

LEMMA CountersInit == RulesInit => CountersRest
<1> SUFFICES ASSUME RulesInit, NEW t \in AllTargets
             PROVE  Mlx5Rests(t) /\ H200Rests(t) /\ SymbolRests(t) /\ RuijieRests(t) /\ XidRests(t)
  BY DEF CountersRest
<1>1. /\ world[t].errs = 0 /\ world[t].log = 0 /\ kept[t].errs = 0 /\ kept[t].log = 0
      /\ kept[t].consecutive = 0 /\ row[t].bad = 0 /\ facts[t] = 0
  BY DEF RulesInit, Sound, NoMemory
<1> QED BY <1>1 DEF Mlx5Rests, H200Rests, SymbolRests, RuijieRests, XidRests, NothingNew, NoPortNew

LEMMA CountersNext == RulesTyped /\ CountersRest /\ [RulesNext]_rulesVars => CountersRest'
<1> SUFFICES ASSUME RulesTyped, CountersRest, [RulesNext]_rulesVars PROVE CountersRest'
  OBVIOUS
<1>1. ASSUME NEW t \in AllTargets, Grow(t) \/ Reboot(t) \/ FaultTurns(t) PROVE CountersRest'
  BY <1>1, GrowRests, RebootRests, FaultRests
<1>2. CASE Outage
  BY <1>2, StaysRests DEF Outage
<1>3. CASE Check
  <2>1. UNCHANGED signal
    BY <1>3 DEF Check
  <2> QED BY <1>3, <2>1, CheckRests DEF CountersRest
<1>4. CASE JobStep \/ UNCHANGED rulesVars
  BY <1>4, StaysRests, JobStepKeeps DEF rulesVars, nodeVars
<1> QED BY <1>1, <1>2, <1>3, <1>4 DEF RulesNext, JobStep

\* A finding about growing errors opens only when the counts really grew before as many
\* successive readings as the policy asks for, whatever reboots, outages and lost texts came
\* between; and a GPU Xid alert has two new events since the one before it.
THEOREM FindingsRestOnGrowth == RulesSpec => RestsOnGrowth
<1> DEFINE Grown == \A t \in AllTargets : Rests(t)
<1>1. RulesTyped /\ CountersRest /\ [RulesNext]_rulesVars => [Grown]_rulesVars
  <2> SUFFICES ASSUME RulesTyped, CountersRest, [RulesNext]_rulesVars, NEW t \in AllTargets
               PROVE  Rests(t)
    OBVIOUS
  <2>1. CASE Check
    BY <2>1, CheckRests
  <2>2. CASE ~Check
    <3>1. ~Opens(t)
      BY <2>2, OnlyCheckOpens
    <3>2. UNCHANGED kept
      BY <2>2, JobStepKeeps
         DEF RulesNext, Grow, Reboot, FaultTurns, Outage, JobStep, rulesVars, nodeVars
    <3> QED BY <3>1, <3>2 DEF Rests
  <2> QED BY <2>1, <2>2
<1>2. [Grown]_rulesVars =>
        [\A t \in AllTargets :
           /\ /\ signal \in Growth /\ Opens(t)
              /\ signal = "h200_nvme_health_issue" => ~world[t].fault /\ kept'[t].log <= kept[t].log
              => facts'[t] >= Needed
           /\ signal = "b300_gpu_xid" /\ kept'[t].fired # kept[t].fired => facts[t] >= 2]_rulesVars
  BY DEF Rests
<1> QED BY <1>1, <1>2, CountersInit, CountersNext, RulesTypedAlways, PTL DEF RulesSpec, RestsOnGrowth
=============================================================================
