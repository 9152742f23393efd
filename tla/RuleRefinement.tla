---------------------------- MODULE RuleRefinement ----------------------------
(***************************************************************************)
(* How ONE patrol rule is corrected from what the repairs of its findings   *)
(* showed: the labels agent-feedback keeps of them, the frozen fixtures     *)
(* patrol-cron makes of labels, the code that is replayed against the       *)
(* fixtures before it is written, the versions it replaces, and rollback.   *)
(*                                                                         *)
(* An example is a repair case with a finding of the rule.  Code is the set *)
(* of examples it fires on: run_sandboxed is a function of the frozen input. *)
(* A transaction is a step, but for the two statements that archive the     *)
(* live code and overwrite it: between them others commit (the SELECT of    *)
(* the first takes no lock).  Counters of attempts, hashes and the baseline *)
(* time decide nothing and are left out; so is the dirty flag, which        *)
(* nothing sets.                                                           *)
(***************************************************************************)
EXTENDS Integers, FiniteSets

CONSTANTS
  Agents,    \* sessions that call the tools
  Examples,
  Stages,    \* the stages that are asked for
  MaxCalls   \* Bound: calls

ASSUME RefinementAssumption ==
  Stages \subseteq {"log_only", "create_task", "submit_alert", "auto_cordon"} /\ MaxCalls \in Nat

VARIABLES
  rule,      \* patrol_rules: code and stage
  versions,  \* patrol_rule_versions: the stage each code was archived with, or None
  link,      \* rma_finding_reconciliations: per example, or NoLink
  fixtures,  \* rule_replay_cases
  call,      \* the call each agent is in
  calls,     \* calls left
  lived,     \* history: what was ever live
  gated,     \* history: code a replay let through, with the fixtures there were at its call
  lost,      \* history: code overwritten while the call that did so had archived other code
  judged     \* history: what repairs attributed to the detection said of their examples

vars == <<rule, versions, link, fixtures, call, calls, lived, gated, lost, judged>>
history == <<lived, gated, lost, judged>>

None == "none"
Codes == SUBSET Examples
Label == {"positive", "negative", "unknown"}
Source == {"rma_bad_feedback", "confirmed_counterexample", "manual_counterexample"}

\* expected_behavior: whether the rule should fire, or nothing.
Expected == {"fire", "quiet", ""}
NoLink == [label |-> None, expected |-> "", detection |-> FALSE]

Idle == [at |-> "idle"]
Set(a, c) == call' = [call EXCEPT ![a] = c]
Begin(a) == call[a].at = "idle" /\ calls > 0 /\ calls' = calls - 1

-----------------------------------------------------------------------------
(* Labels.                                                                 *)

ExpectedOf(label) ==
  CASE label = "positive" -> "fire" [] label = "negative" -> "quiet" [] OTHER -> ""

Fixture == [example : Examples, expected : {"fire", "quiet"}, source : Source]

\* _expected_behavior_from_feedback and _source_from_feedback_label
FromFeedback(e, row) ==
  [example  |-> e,
   expected |-> IF row.expected # "" THEN row.expected ELSE ExpectedOf(row.label),
   source   |-> IF row.label = "positive" THEN "confirmed_counterexample" ELSE "rma_bad_feedback"]

\* _feedback_examples_for_replay.  Mutant: whatever the repair was attributed to.
Labelled == {e \in Examples : link[e].label \in {"positive", "negative"}}
ForReplay == {e \in Examples : link[e].detection /\ link[e].label \in {"positive", "negative"}}

\* What the feedback asks for now.
Asked == {FromFeedback(e, link[e]) : e \in ForReplay}

\* What the repairs attributed to the detection say of their examples (for the history).
Said ==
  {f \in Fixture :
     LET row == link[f.example] IN
     /\ row.detection /\ f.source # "manual_counterexample"
     /\ row.label = IF f.source = "rma_bad_feedback" THEN "negative" ELSE "positive"
     /\ f.expected = IF row.expected = "" THEN ExpectedOf(row.label) ELSE row.expected}

\* expected_behavior is given with a label, or without one, or not at all: the code relates the
\* two only where it has to find a default.
Default(x, otherwise) == IF x # None THEN x ELSE otherwise

\* insert_rma_finding_reconciliation: an outcome is matched, or matched again.  The label is the
\* one given or the outcome's; the attribution that is there stays.
InsertLink(a) ==
  /\ Begin(a)
  /\ \E e \in Examples, l \in Label, x \in Expected \cup {None} :
       link' = [link EXCEPT ![e] = [@ EXCEPT !.label = l, !.expected = Default(x, ExpectedOf(l))]]
  /\ judged' = judged \cup Said'
  /\ UNCHANGED <<rule, versions, fixtures, call, lived, gated, lost>>

\* update_rma_finding_attribution reads the row ...
ReadLink(a) ==
  /\ Begin(a)
  /\ \E e \in Examples : link[e] # NoLink /\ Set(a, [at |-> "attribute", example |-> e, row |-> link[e]])
  /\ UNCHANGED <<rule, versions, link, fixtures, history>>

\* ... and writes it.  A behaviour that is there stays when none is given, whatever the label
\* becomes; {} is none.
Attributed(row, given, x, detection) ==
  LET l == IF given # "" THEN given ELSE IF detection THEN row.label ELSE "unknown"
  IN [label |-> l, detection |-> detection,
      expected |-> Default(x, IF row.expected # "" THEN row.expected ELSE ExpectedOf(l))]

WriteLink(a) ==
  /\ call[a].at = "attribute"
  /\ \E given \in Label \cup {""}, x \in Expected \cup {None}, detection \in BOOLEAN :
       link' = [link EXCEPT ![call[a].example] = Attributed(call[a].row, given, x, detection)]
  /\ Set(a, Idle)
  /\ judged' = judged \cup Said'
  /\ UNCHANGED <<rule, versions, fixtures, calls, lived, gated, lost>>

-----------------------------------------------------------------------------
(* Fixtures.  They are made and never changed.                             *)

\* create_rule_replay_cases_from_feedback lists the examples once ...
ListFeedback(a) ==
  /\ Begin(a)
  /\ Set(a, [at |-> "fixtures", todo |-> Asked])
  /\ UNCHANGED <<rule, versions, link, fixtures, history>>

\* ... skips those with a fixture ...
Made(e) == \E f \in fixtures : f.example = e /\ f.source # "manual_counterexample"

CheckFixture(a) ==
  /\ call[a].at = "fixtures"
  /\ IF call[a].todo = {} THEN Set(a, Idle)
     ELSE \E f \in call[a].todo :
            IF Made(f.example) THEN Set(a, [at |-> "fixtures", todo |-> call[a].todo \ {f}])
            ELSE Set(a, [at |-> "create", todo |-> call[a].todo \ {f}, new |-> f])
  /\ UNCHANGED <<rule, versions, link, fixtures, calls, history>>

\* ... and makes one of each of the others.
CreateFixture(a) ==
  /\ call[a].at = "create"
  /\ fixtures' = fixtures \cup {call[a].new}
  /\ Set(a, [at |-> "fixtures", todo |-> call[a].todo])
  /\ UNCHANGED <<rule, versions, link, calls, history>>

\* create_rule_replay_case: a counterexample somebody chose, without a finding.
CreateManual(a) ==
  /\ Begin(a)
  /\ \E e \in Examples, x \in {"fire", "quiet"} :
       fixtures' = fixtures \cup {[example |-> e, expected |-> x, source |-> "manual_counterexample"]}
  /\ UNCHANGED <<rule, versions, link, call, history>>

-----------------------------------------------------------------------------
(* Code.                                                                   *)

Passes(code, F) == \A f \in F : (f.example \in code) <=> f.expected = "fire"
Covers(F) == \A x \in {"fire", "quiet"} : \E f \in F : f.expected = x

\* update_rule_code in mode finalize.  A reason that names a refinement asks for the replay.
UpdateCode(a) ==
  /\ Begin(a)
  /\ \E code \in Codes, replay \in BOOLEAN :
       Set(a, [at |-> IF replay THEN "replay" ELSE "archive", code |-> code, stage |-> None,
               known |-> IF replay THEN fixtures ELSE {}, replayed |-> replay])
  /\ UNCHANGED <<rule, versions, link, fixtures, history>>

\* run_rule_replay_suite: no fixture, or one that fails, and the code is rejected.
\* Mutant: only the fixtures of bad feedback are replayed.
ReplaysBad(c) == fixtures # {} /\ Passes(c.code, {f \in fixtures : f.source = "rma_bad_feedback"})
Replays(c) == fixtures # {} /\ Passes(c.code, fixtures)

ReplaySuite(a) ==
  /\ call[a].at = "replay"
  /\ Set(a, IF Replays(call[a]) THEN [call[a] EXCEPT !.at = "coverage"] ELSE Idle)
  /\ UNCHANGED <<rule, versions, link, fixtures, calls, history>>

CheckCoverage(a) ==
  /\ call[a].at = "coverage"
  /\ Set(a, IF Covers(fixtures) THEN [call[a] EXCEPT !.at = "live"] ELSE Idle)
  /\ UNCHANGED <<rule, versions, link, fixtures, calls, history>>

\* test_rule_once runs the collector on a sample, dry: it answers, or raises.
LiveTest(a) ==
  /\ call[a].at = "live"
  /\ \E ok \in BOOLEAN : Set(a, IF ok THEN [call[a] EXCEPT !.at = "archive"] ELSE Idle)
  /\ UNCHANGED <<rule, versions, link, fixtures, calls, history>>

\* rollback_rule finds the version; what it writes is not replayed.
Rollback(a) ==
  /\ Begin(a)
  /\ \E code \in Codes :
       /\ versions[code] # None
       /\ Set(a, [at |-> "archive", code |-> code, stage |-> versions[code], known |-> {},
                  replayed |-> FALSE])
  /\ UNCHANGED <<rule, versions, link, fixtures, history>>

\* Both archive what is live ...
Archive(a) ==
  /\ call[a].at = "archive"
  /\ Set(a, [at |-> "write", code |-> call[a].code, stage |-> call[a].stage, known |-> call[a].known,
             replayed |-> call[a].replayed, old |-> rule])
  /\ UNCHANGED <<rule, versions, link, fixtures, calls, history>>

\* ... and overwrite it, in one transaction; a version that is there stays.
\* Mutants: what is archived is read after the code, or after the stage, was overwritten.
ArchivedLate(v, old, new) == [v EXCEPT ![new.code] = IF @ = None THEN new.stage ELSE @]
ArchivedMixed(v, old, new) == [v EXCEPT ![old.code] = IF @ = None THEN new.stage ELSE @]
Archived(v, old, new) == [v EXCEPT ![old.code] = IF @ = None THEN old.stage ELSE @]

Write(a) ==
  LET c == call[a]
      new == [code |-> c.code, stage |-> IF c.stage = None THEN rule.stage ELSE c.stage]
  IN
  /\ c.at = "write"
  /\ rule' = new
  /\ versions' = Archived(versions, c.old, new)
  /\ lived' = lived \cup {new}
  /\ gated' = IF c.replayed THEN gated \cup {[code |-> c.code, known |-> c.known]} ELSE gated
  /\ lost' = IF c.old.code # rule.code THEN lost \cup {rule.code} ELSE lost
  /\ Set(a, Idle)
  /\ UNCHANGED <<link, fixtures, calls, judged>>

\* update_rule_stage; update_rule_code in safe_mode and shadow_mode asks for log_only.
UpdateStage(a) ==
  /\ Begin(a)
  /\ \E s \in Stages : rule' = [rule EXCEPT !.stage = s] /\ lived' = lived \cup {rule'}
  /\ UNCHANGED <<versions, link, fixtures, call, gated, lost, judged>>

-----------------------------------------------------------------------------
\* create_rule: the first code is not archived.
Init ==
  /\ rule \in [code : Codes, stage : Stages]
  /\ versions = [c \in Codes |-> None]
  /\ link = [e \in Examples |-> NoLink]
  /\ fixtures = {}
  /\ call = [a \in Agents |-> Idle] /\ calls = MaxCalls
  /\ lived = {rule} /\ gated = {} /\ lost = {} /\ judged = {}

Next ==
  \E a \in Agents :
    \/ InsertLink(a) \/ ReadLink(a) \/ WriteLink(a)
    \/ ListFeedback(a) \/ CheckFixture(a) \/ CreateFixture(a) \/ CreateManual(a)
    \/ UpdateCode(a) \/ ReplaySuite(a) \/ CheckCoverage(a) \/ LiveTest(a)
    \/ Rollback(a) \/ Archive(a) \/ Write(a) \/ UpdateStage(a)

Spec == Init /\ [][Next]_vars

-----------------------------------------------------------------------------
(* Properties.                                                             *)

Live == [code : Codes, stage : Stages]
CodeCall ==
  [at : {"replay", "coverage", "live", "archive"}, code : Codes, stage : Stages \cup {None},
   known : SUBSET Fixture, replayed : BOOLEAN]
  \cup [at : {"write"}, code : Codes, stage : Stages \cup {None}, known : SUBSET Fixture,
        replayed : BOOLEAN, old : Live]
Attribution == [label : Label \cup {None}, expected : Expected, detection : BOOLEAN]
Call ==
  {Idle} \cup CodeCall \cup [at : {"attribute"}, example : Examples, row : Attribution]
  \cup [at : {"fixtures"}, todo : SUBSET Fixture]
  \cup [at : {"create"}, todo : SUBSET Fixture, new : Fixture]

TypeOK ==
  /\ rule \in Live /\ versions \in [Codes -> Stages \cup {None}]
  /\ link \in [Examples -> Attribution] /\ fixtures \subseteq Fixture
  /\ call \in [Agents -> Call] /\ calls \in 0 .. MaxCalls
  /\ lived \subseteq Live /\ gated \subseteq [code : Codes, known : SUBSET Fixture]
  /\ lost \subseteq Codes /\ judged \subseteq Fixture

\* "Before update_rule_code finalize: must pass replay suite": code that was written as a
\* refinement passes every fixture there was when its call began, whoever adds fixtures, writes
\* or rolls back meanwhile; and a fixture of each kind exists.  Code that fires on everything,
\* or on nothing, never passes as a refinement.
GatedCodePasses ==
  \A g \in gated : Passes(g.code, g.known) /\ Covers(fixtures)

\* rollback_rule is the way back: code that was live is live, is a version, or was
\* overwritten by a call that had archived what was live before it.
Restorable ==
  \A l \in lived : l.code = rule.code \/ versions[l.code] # None \/ l.code \in lost

\* Rollback brings back what once ran: a version is a code with a stage it was live at.
VersionsLived ==
  \A c \in Codes : versions[c] # None => [code |-> c, stage |-> versions[c]] \in lived

\* What gates the rule was said of it: a fixture of the feedback freezes the label and the
\* behaviour one row had at one time, while its repair was attributed to the detection, however
\* many sessions match, correct and attribute the example between the list and the fixture.
FixturesJudged ==
  \A f \in fixtures : f.source # "manual_counterexample" => f \in judged
=============================================================================
