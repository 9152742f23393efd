------------------------------- MODULE Feedback -------------------------------
(***************************************************************************)
(* What agent-feedback keeps of the repairs of ONE node: the cases, how    *)
(* the findings of patrol-cron are judged by them, and the board of problems,  *)
(* whose rows are only appended.  RuleRefinement has the labels.           *)
(*                                                                         *)
(* A statement of SQL is a step.  The updates record_finding_verdict makes *)
(* commit together; rows it holds meanwhile make other writers wait, so    *)
(* they are one step, the commit.  Bookkeeping that no decision reads      *)
(* (texts, diagnosis, case numbers, confidence) is left out.               *)
(***************************************************************************)
EXTENDS Integers, Sequences, FiniteSets

CONSTANTS
  Agents,    \* sessions that call the tools
  Findings,  \* findings of the node, detected before the repair
  Cases,     \* repair tickets of the node
  Asked,     \* Bound: the updates of a problem that are asked for
  MaxRows,   \* Bound: rows of the board
  MaxCalls   \* Bound: calls

Stage == {"open", "patch_created", "monitoring", "resolved", "unresolved", "blocked", "wont_fix"}
Update == [status : Stage \cup {""}, pr : BOOLEAN, commit : {"", "branch", "hash"}]

ASSUME FeedbackAssumption == Asked \subseteq Update /\ MaxRows \in Nat /\ MaxCalls \in Nat

VARIABLES
  rows,     \* analysis_problems; the id of a row is its index
  cases,    \* case_memory: the verdict of the vendor on each ticket, or None
  finding,  \* patrol_findings: verdict, repair_outcome, resolved
  call,     \* the call each agent is in
  calls     \* calls left

vars == <<rows, cases, finding, call, calls>>

None == "none"
Idle == [at |-> "idle"]
Set(a, c) == call' = [call EXCEPT ![a] = c]
Begin(a) == call[a].at = "idle" /\ calls > 0 /\ calls' = calls - 1

-----------------------------------------------------------------------------
(* The board of problems.                                                  *)

\* VALID_TRANSITIONS
Allowed(s) ==
  CASE s = "open"          -> {"open", "patch_created", "blocked", "wont_fix"}
    [] s = "patch_created" -> {"patch_created", "monitoring", "open", "blocked", "wont_fix"}
    [] s = "monitoring"    -> {"monitoring", "resolved", "unresolved", "open", "wont_fix"}
    [] s = "unresolved"    -> {"unresolved", "open", "blocked", "wont_fix"}
    [] s = "blocked"       -> {"blocked", "open", "wont_fix"}
    [] s = "resolved"      -> {"resolved", "open"}
    [] s = "wont_fix"      -> {"wont_fix", "open"}

RowsOf(p) == {i \in DOMAIN rows : rows[i].problem = p}
Latest(p) == {i \in RowsOf(p) : \A j \in RowsOf(p) : j <= i}

InsertProblem(a) ==
  /\ Begin(a) /\ Len(rows) < MaxRows
  /\ rows' = Append(rows, [problem |-> Len(rows) + 1, status |-> "open", pr |-> FALSE,
                           commit |-> ""])
  /\ UNCHANGED <<cases, finding, call>>

\* The transition is checked against the latest row, and monitoring asks for a pull request
\* and a commit.  A number that is no problem's is not checked.
\* Mutant: the row is taken as the update would leave it.
Merge(r, u) ==
  [r EXCEPT !.status = IF u.status = "" THEN @ ELSE u.status, !.pr = @ \/ u.pr,
            !.commit = IF u.commit = "" THEN @ ELSE u.commit]
DeployedAfter(r, u) == Merge(r, u).pr /\ Merge(r, u).commit # ""
Deployed(r, u) == r.pr /\ r.commit = "hash"

Accepts(r, u) ==
  /\ u.status \in Allowed(r.status)
  /\ r.status = "patch_created" /\ u.status = "monitoring" => Deployed(r, u)

\* update_problem, first half: p is a problem's number, or a row's.
CheckProblem(a) ==
  /\ Begin(a)
  /\ \E p \in DOMAIN rows, u \in Asked :
       Set(a, IF u.status = "" \/ RowsOf(p) = {} \/ \E i \in Latest(p) : Accepts(rows[i], u)
                THEN [at |-> "read", p |-> p, u |-> u]
                ELSE Idle)
  /\ UNCHANGED <<rows, cases, finding>>

\* The second half reads the latest row again.
ReadProblem(a) ==
  LET p == call[a].p IN
  /\ call[a].at = "read"
  /\ \E i \in IF RowsOf(p) # {} THEN Latest(p) ELSE {p} :
       Set(a, [at |-> "append", row |-> [Merge(rows[i], call[a].u) EXCEPT !.problem = p]])
  /\ UNCHANGED <<rows, cases, finding, calls>>

AppendProblem(a) ==
  /\ call[a].at = "append" /\ Len(rows) < MaxRows
  /\ rows' = Append(rows, call[a].row)
  /\ Set(a, Idle)
  /\ UNCHANGED <<cases, finding, calls>>

-----------------------------------------------------------------------------
(* Cases and verdicts.                                                     *)

Outcome ==
  {"REPAIR_CONFIRMED", "MISCLASSIFIED", "MAINTENANCE_FIX", "NO_FAULT_FOUND", "CONFIG_TASK"}

\* insert_case, update_case and update_investigation: the row is inserted or overwritten.
WriteCase(a) ==
  /\ Begin(a)
  /\ \E c \in Cases, o \in Outcome : cases' = [cases EXCEPT ![c] = o]
  /\ UNCHANGED <<rows, finding, call>>

\* A vendor that found no fault is believed if the answer says how: reliable.
VerdictFor(o, reliable) ==
  CASE o \in {"REPAIR_CONFIRMED", "MAINTENANCE_FIX", "CONFIG_TASK"} -> "confirmed"
    [] o = "MISCLASSIFIED"  -> "rejected"
    [] o = "NO_FAULT_FOUND" -> IF reliable THEN "rejected" ELSE None

\* record_finding_verdict_from_case selects the findings nobody judged ...
SelectUnjudged(a) ==
  /\ Begin(a)
  /\ \E c \in Cases, reliable \in BOOLEAN :
       /\ cases[c] # None
       /\ Set(a, [at |-> "judge", outcome |-> cases[c], verdict |-> VerdictFor(cases[c], reliable),
                  found |-> {f \in Findings : finding[f].verdict = None /\ ~ finding[f].resolved}])
  /\ UNCHANGED <<rows, cases, finding>>

\* ... and judges those that still have no verdict.  The link it would add is refused for its
\* label_source, and the error swallowed.
\* Mutant: the condition of the update is dropped.
AllFound(c) == c.found
StillUnjudged(c) == {f \in c.found : finding[f].verdict = None}

JudgeFindings(a) ==
  LET c == call[a] IN
  /\ c.at = "judge"
  /\ finding' = [f \in Findings |->
       IF c.verdict # None /\ f \in StillUnjudged(c)
       THEN [verdict |-> c.verdict, outcome |-> c.outcome, resolved |-> TRUE] ELSE finding[f]]
  /\ Set(a, Idle)
  /\ UNCHANGED <<rows, cases, calls>>

\* record_verdict of patrol-cron.
RecordVerdict(a) ==
  /\ Begin(a)
  /\ \E f \in Findings, v \in {"confirmed", "rejected", "rejected_nff"} :
       finding' = [finding EXCEPT ![f].verdict = v, ![f].resolved = TRUE]
  /\ UNCHANGED <<rows, cases, call>>

\* reconcile_finding of patrol-cron, for a finding without an outcome.
ReconcileFinding(a) ==
  /\ Begin(a)
  /\ \E f \in Findings, o \in Outcome :
       /\ finding[f].outcome = None
       /\ finding' = [finding EXCEPT
            ![f] = [verdict  |-> IF o = "NO_FAULT_FOUND" THEN "rejected_nff" ELSE @.verdict,
                    outcome  |-> o,
                    resolved |-> o # "MISCLASSIFIED"]]
  /\ UNCHANGED <<rows, cases, call>>

-----------------------------------------------------------------------------
Init ==
  /\ rows = <<>> /\ cases = [c \in Cases |-> None]
  /\ finding = [f \in Findings |-> [verdict |-> None, outcome |-> None, resolved |-> FALSE]]
  /\ call = [a \in Agents |-> Idle] /\ calls = MaxCalls

Next ==
  \E a \in Agents :
    \/ InsertProblem(a) \/ CheckProblem(a) \/ ReadProblem(a) \/ AppendProblem(a)
    \/ WriteCase(a) \/ SelectUnjudged(a) \/ JudgeFindings(a)
    \/ RecordVerdict(a) \/ ReconcileFinding(a)

Spec == Init /\ [][Next]_vars

-----------------------------------------------------------------------------
(* Properties.                                                             *)

Row == [problem : 1 .. MaxRows, status : Stage, pr : BOOLEAN, commit : {"", "branch", "hash"}]
Verdict == {"confirmed", "rejected", "rejected_nff", None}
Call ==
  {Idle} \cup [at : {"read"}, p : 1 .. MaxRows, u : Update] \cup [at : {"append"}, row : Row]
  \cup [at : {"judge"}, outcome : Outcome, verdict : Verdict, found : SUBSET Findings]

TypeOK ==
  /\ rows \in Seq(Row) /\ Len(rows) <= MaxRows
  /\ cases \in [Cases -> Outcome \cup {None}]
  /\ finding \in [Findings -> [verdict : Verdict, outcome : Outcome \cup {None},
                               resolved : BOOLEAN]]
  /\ call \in [Agents -> Call] /\ calls \in 0 .. MaxCalls

\* What the stages are for: a problem is watched only after a patch of it was deployed, and
\* closed as fixed, or as not fixed, only after it was watched.  No order of the steps of two
\* sessions skips a stage, although each checks one row and writes after another.
\* (A row that update_problem starts from the number of a row is no problem's.)
Opened(p) == rows[p].problem = p
Earned(s, R) ==
  /\ s = "monitoring"
       => \E j \in R : rows[j].status = "patch_created" /\ rows[j].pr /\ rows[j].commit = "hash"
  /\ s \in {"resolved", "unresolved"} => \E j \in R : rows[j].status = "monitoring"

NoStageSkipped ==
  \A i \in DOMAIN rows :
    Opened(rows[i].problem) =>
      Earned(rows[i].status, {j \in 1 .. i - 1 : rows[j].problem = rows[i].problem})

\* "AND verdict IS NULL": the verdict somebody gave while a repair was being matched to the
\* findings of its node is kept.
VerdictKept ==
  [][\A a \in Agents : JudgeFindings(a) =>
       \A f \in Findings : finding[f].verdict # None => finding'[f] = finding[f]]_vars
=============================================================================
