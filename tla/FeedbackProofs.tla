---------------------------- MODULE FeedbackProofs ----------------------------
(***************************************************************************)
(* No stage of a problem is skipped, for any number of sessions, updates   *)
(* and rows.  A call between its two halves must be known to have earned   *)
(* the stage it is about to write: that is the strengthening.              *)
(***************************************************************************)
EXTENDS Feedback, SequenceTheorems, TLAPS

USE FeedbackAssumption

-----------------------------------------------------------------------------
(* Types.                                                                  *)

\* What a call holds, by where it is.
LEMMA CallShape ==
  ASSUME NEW c \in Call
  PROVE  /\ c.at = "read" => c \in [at : {"read"}, p : 1 .. MaxRows, u : Update]
         /\ c.at = "append" => c \in [at : {"append"}, row : Row]
         /\ c.at = "judge" => c \in [at : {"judge"}, outcome : Outcome, verdict : Verdict,
                                     found : SUBSET Findings]
BY DEF Call, Idle

LEMMA SetType ==
  ASSUME TypeOK, NEW a \in Agents, NEW c \in Call, Set(a, c)
  PROVE  call' \in [Agents -> Call]
BY DEF TypeOK, Set

LEMMA IdleType == Idle \in Call
BY DEF Call

LEMMA BeginType ==
  ASSUME TypeOK, NEW a, Begin(a)
  PROVE  calls' \in 0 .. MaxCalls
BY DEF TypeOK, Begin

\* A row that is added keeps the rows there are.
LEMMA Added ==
  ASSUME TypeOK, NEW r \in Row, rows' = Append(rows, r)
  PROVE  /\ rows' \in Seq(Row) /\ Len(rows') = Len(rows) + 1
         /\ rows'[Len(rows) + 1] = r
         /\ \A i \in DOMAIN rows : rows'[i] = rows[i]
BY DEF TypeOK

\* An update of a row is a row.
LEMMA MergeType ==
  ASSUME NEW r \in Row, NEW u \in Update, NEW p \in 1 .. MaxRows
  PROVE  /\ [Merge(r, u) EXCEPT !.problem = p] \in Row
         /\ [Merge(r, u) EXCEPT !.problem = p].problem = p
         /\ [Merge(r, u) EXCEPT !.problem = p].status = IF u.status = "" THEN r.status ELSE u.status
<1>1. (r.pr \/ u.pr) \in BOOLEAN
  OBVIOUS
<1>2. Merge(r, u) \in Row
  BY <1>1 DEF Merge, Row, Update
<1>3. Merge(r, u).status = IF u.status = "" THEN r.status ELSE u.status
  BY DEF Merge, Row, Update
<1> QED BY <1>2, <1>3 DEF Row

\* A call that reads asks for a row that is there.
Known == \A a \in Agents : call[a].at = "read" => call[a].p \in DOMAIN rows

LEMMA SetKnown ==
  ASSUME TypeOK, Known, NEW a \in Agents, NEW c, Set(a, c), DOMAIN rows \subseteq DOMAIN rows',
         c.at = "read" => c.p \in DOMAIN rows
  PROVE  Known'
BY DEF Known, Set, TypeOK

LEMMA InsertTypes ==
  ASSUME TypeOK, Known, NEW a \in Agents, InsertProblem(a)
  PROVE  TypeOK' /\ Known'
<1>n. Len(rows) \in Nat
  BY DEF TypeOK
<1>m. MaxRows \in Nat
  BY DEF FeedbackAssumption
<1>l. Len(rows) < MaxRows
  BY DEF InsertProblem
<1> DEFINE r == [problem |-> Len(rows) + 1, status |-> "open", pr |-> FALSE, commit |-> ""]
<1>2. rows' = Append(rows, r) /\ Len(rows) < MaxRows
  BY DEF InsertProblem
<1>1. r \in Row
  <2> DEFINE n == Len(rows) + 1
  <2>2. n \in 1 .. MaxRows
    BY <1>n, <1>m, <1>l
  <2> HIDE DEF n
  <2>3. [problem |-> n, status |-> "open", pr |-> FALSE, commit |-> ""] \in Row
    BY <2>2 DEF Row, Stage
  <2> QED BY <2>3 DEF n
<1> HIDE DEF r
<1>3. rows' \in Seq(Row) /\ Len(rows') = Len(rows) + 1
  BY <1>1, <1>2, Added
<1>4. Len(rows') <= MaxRows /\ DOMAIN rows \subseteq DOMAIN rows'
  BY <1>2, <1>3 DEF TypeOK
<1>5. UNCHANGED <<cases, finding, call>> /\ calls' \in 0 .. MaxCalls
  BY BeginType DEF InsertProblem
<1> QED BY <1>3, <1>4, <1>5 DEF TypeOK, Known

LEMMA CheckTypes ==
  ASSUME TypeOK, Known, NEW a \in Agents, CheckProblem(a)
  PROVE  TypeOK' /\ Known'
<1>1. PICK p \in DOMAIN rows, u \in Asked :
        \/ Set(a, Idle)
        \/ Set(a, [at |-> "read", p |-> p, u |-> u])
  BY DEF CheckProblem
<1>2. [at |-> "read", p |-> p, u |-> u] \in Call
  BY DEF TypeOK, Call
<1>3. call' \in [Agents -> Call]
  BY <1>1, <1>2, IdleType, SetType
<1>4. UNCHANGED <<rows, cases, finding>> /\ calls' \in 0 .. MaxCalls
  BY BeginType DEF CheckProblem
<1>5. Known'
  BY <1>1, <1>4, SetKnown DEF Idle
<1> QED BY <1>3, <1>4, <1>5 DEF TypeOK

LEMMA ReadTypes ==
  ASSUME TypeOK, Known, NEW a \in Agents, ReadProblem(a)
  PROVE  TypeOK' /\ Known'
<1> DEFINE p == call[a].p
           u == call[a].u
<1>1. p \in 1 .. MaxRows /\ u \in Update /\ p \in DOMAIN rows
  BY CallShape DEF ReadProblem, TypeOK, Known
<1>2. PICK i \in IF RowsOf(p) # {} THEN Latest(p) ELSE {p} :
        Set(a, [at |-> "append", row |-> [Merge(rows[i], u) EXCEPT !.problem = p]])
  BY DEF ReadProblem
<1>3. rows[i] \in Row
  BY <1>1 DEF Latest, RowsOf, TypeOK
<1>4. [Merge(rows[i], u) EXCEPT !.problem = p] \in Row
  BY <1>1, <1>3, MergeType
<1> HIDE DEF p, u
<1>5. [at |-> "append", row |-> [Merge(rows[i], u) EXCEPT !.problem = p]] \in Call
  BY <1>4 DEF Call
<1>6. call' \in [Agents -> Call]
  BY <1>2, <1>5, SetType
<1>7. UNCHANGED <<rows, cases, finding, calls>>
  BY DEF ReadProblem
<1>8. Known'
  BY <1>2, <1>7, SetKnown
<1> QED BY <1>6, <1>7, <1>8 DEF TypeOK

LEMMA AppendTypes ==
  ASSUME TypeOK, Known, NEW a \in Agents, AppendProblem(a)
  PROVE  TypeOK' /\ Known'
<1>1. call[a].row \in Row
  BY CallShape DEF AppendProblem, TypeOK
<1>2. rows' = Append(rows, call[a].row) /\ Len(rows) < MaxRows
  BY DEF AppendProblem
<1>3. rows' \in Seq(Row) /\ Len(rows') = Len(rows) + 1
  BY <1>1, <1>2, Added
<1>4. Len(rows') <= MaxRows /\ DOMAIN rows \subseteq DOMAIN rows'
  BY <1>2, <1>3 DEF TypeOK
<1>5. Set(a, Idle) /\ UNCHANGED <<cases, finding, calls>>
  BY DEF AppendProblem
<1>6. call' \in [Agents -> Call] /\ Known'
  BY <1>4, <1>5, IdleType, SetType, SetKnown DEF Idle
<1> QED BY <1>3, <1>4, <1>5, <1>6 DEF TypeOK

\* Cases and verdicts leave the board alone.
LEMMA VerdictType ==
  ASSUME NEW o \in Outcome, NEW reliable \in BOOLEAN
  PROVE  VerdictFor(o, reliable) \in Verdict
BY DEF Outcome, VerdictFor, Verdict

LEMMA VerdictTypes ==
  ASSUME TypeOK, Known, NEW a \in Agents,
         \/ WriteCase(a) \/ SelectUnjudged(a) \/ JudgeFindings(a)
         \/ RecordVerdict(a) \/ ReconcileFinding(a)
  PROVE  TypeOK' /\ Known' /\ UNCHANGED rows
<1>1. CASE WriteCase(a)
  <2>1. cases' \in [Cases -> Outcome \cup {None}]
    BY <1>1 DEF WriteCase, TypeOK
  <2> QED BY <1>1, <2>1, BeginType DEF WriteCase, TypeOK, Known
<1>2. CASE SelectUnjudged(a)
  <2>1. PICK c \in Cases, reliable \in BOOLEAN :
          /\ cases[c] # None
          /\ Set(a, [at |-> "judge", outcome |-> cases[c], verdict |-> VerdictFor(cases[c], reliable),
                     found |-> {f \in Findings : finding[f].verdict = None /\ ~ finding[f].resolved}])
    BY <1>2 DEF SelectUnjudged
  <2>2. cases[c] \in Outcome
    BY <2>1 DEF TypeOK
  <2> DEFINE S == {f \in Findings : finding[f].verdict = None /\ ~ finding[f].resolved}
  <2>3. S \in SUBSET Findings
    OBVIOUS
  <2> HIDE DEF S
  <2>4. [at |-> "judge", outcome |-> cases[c], verdict |-> VerdictFor(cases[c], reliable),
         found |-> S] \in Call
    BY <2>2, <2>3, VerdictType DEF Call
  <2>5. call' \in [Agents -> Call]
    BY <2>1, <2>4, SetType DEF S
  <2>6. UNCHANGED <<rows, cases, finding>> /\ calls' \in 0 .. MaxCalls
    BY <1>2, BeginType DEF SelectUnjudged
  <2>7. Known'
    BY <2>1, <2>6, SetKnown
  <2> QED BY <2>5, <2>6, <2>7 DEF TypeOK
<1>3. CASE JudgeFindings(a)
  <2>1. call[a] \in [at : {"judge"}, outcome : Outcome, verdict : Verdict, found : SUBSET Findings]
    BY <1>3, CallShape DEF JudgeFindings, TypeOK
  <2>2. [verdict |-> call[a].verdict, outcome |-> call[a].outcome, resolved |-> TRUE]
          \in [verdict : Verdict, outcome : Outcome \cup {None}, resolved : BOOLEAN]
    BY <2>1
  <2>3. finding' \in [Findings -> [verdict : Verdict, outcome : Outcome \cup {None},
                                  resolved : BOOLEAN]]
    BY <1>3, <2>2 DEF JudgeFindings, TypeOK
  <2>4. Set(a, Idle) /\ UNCHANGED <<rows, cases, calls>>
    BY <1>3 DEF JudgeFindings
  <2>5. call' \in [Agents -> Call] /\ Known'
    BY <2>4, IdleType, SetType, SetKnown DEF Idle
  <2> QED BY <2>3, <2>4, <2>5 DEF TypeOK
<1>4. CASE RecordVerdict(a)
  <2>1. finding' \in [Findings -> [verdict : Verdict, outcome : Outcome \cup {None},
                                  resolved : BOOLEAN]]
    BY <1>4 DEF RecordVerdict, TypeOK, Verdict
  <2> QED BY <1>4, <2>1, BeginType DEF RecordVerdict, TypeOK, Known
<1>5. CASE ReconcileFinding(a)
  <2>1. PICK f \in Findings, o \in Outcome :
          finding' = [finding EXCEPT
            ![f] = [verdict  |-> IF o = "NO_FAULT_FOUND" THEN "rejected_nff" ELSE @.verdict,
                    outcome  |-> o,
                    resolved |-> o # "MISCLASSIFIED"]]
    BY <1>5 DEF ReconcileFinding
  <2>2. [verdict  |-> IF o = "NO_FAULT_FOUND" THEN "rejected_nff" ELSE finding[f].verdict,
         outcome  |-> o, resolved |-> o # "MISCLASSIFIED"]
          \in [verdict : Verdict, outcome : Outcome \cup {None}, resolved : BOOLEAN]
    BY DEF TypeOK, Verdict
  <2>3. finding' \in [Findings -> [verdict : Verdict, outcome : Outcome \cup {None},
                                  resolved : BOOLEAN]]
    BY <2>1, <2>2 DEF TypeOK
  <2> QED BY <1>5, <2>3, BeginType DEF ReconcileFinding, TypeOK, Known
<1> QED BY <1>1, <1>2, <1>3, <1>4, <1>5

-----------------------------------------------------------------------------
(* Stages.                                                                 *)

\* A row is about a problem that was there no later than the row.
Rooted == \A i \in DOMAIN rows : rows[i].problem \in 1 .. i

\* Whoever is about to write a stage has seen it earned.
SeenEarned(a) ==
  LET c == call[a] IN
  /\ c.at = "read" => (Opened(c.p) => Earned(c.u.status, RowsOf(c.p)))
  /\ c.at = "append" =>
       /\ c.row.problem \in DOMAIN rows
       /\ Opened(c.row.problem) => Earned(c.row.status, RowsOf(c.row.problem))

AllSeenEarned == \A a \in Agents : SeenEarned(a)

IInv == TypeOK /\ Known /\ Rooted /\ NoStageSkipped /\ AllSeenEarned

\* A row of a problem shows that its stage was earned by the rows of the problem.
LEMMA RowEarned ==
  ASSUME NoStageSkipped, NEW i \in DOMAIN rows, Opened(rows[i].problem), TypeOK
  PROVE  Earned(rows[i].status, RowsOf(rows[i].problem))
<1>1. Earned(rows[i].status, {j \in 1 .. i - 1 : rows[j].problem = rows[i].problem})
  BY DEF NoStageSkipped
<1>2. {j \in 1 .. i - 1 : rows[j].problem = rows[i].problem} \subseteq RowsOf(rows[i].problem)
  BY DEF RowsOf, TypeOK
<1> QED BY <1>1, <1>2 DEF Earned

\* The transition check lets a stage pass only if it was earned.
LEMMA AcceptedEarned ==
  ASSUME TypeOK, NoStageSkipped, NEW p, Opened(p), NEW i \in RowsOf(p), NEW u \in Update,
         Accepts(rows[i], u)
  PROVE  Earned(u.status, RowsOf(p))
<1>1. i \in DOMAIN rows /\ rows[i].problem = p /\ rows[i] \in Row
  BY DEF RowsOf, TypeOK
<1>2. Earned(rows[i].status, RowsOf(p))
  BY <1>1, RowEarned
<1>3. rows[i].status \in Stage
  BY <1>1 DEF Row
<1>4. CASE u.status = "monitoring"
  <2>1. rows[i].status \in {"patch_created", "monitoring"}
    BY <1>3, <1>4 DEF Accepts, Allowed, Stage
  <2>2. CASE rows[i].status = "patch_created"
    <3>1. rows[i].pr /\ rows[i].commit = "hash"
      BY <1>4, <2>2 DEF Accepts, Deployed
    <3> QED BY <1>4, <2>2, <3>1 DEF Earned
  <2>3. CASE rows[i].status = "monitoring"
    BY <1>2, <1>4, <2>3 DEF Earned
  <2> QED BY <2>1, <2>2, <2>3
<1>5. CASE u.status \in {"resolved", "unresolved"}
  <2>1. rows[i].status \in {"monitoring", "resolved", "unresolved"}
    BY <1>3, <1>5 DEF Accepts, Allowed, Stage
  <2> QED BY <1>2, <1>5, <2>1 DEF Earned
<1>6. CASE u.status \notin {"monitoring", "resolved", "unresolved"}
  BY <1>6 DEF Earned
<1> QED BY <1>4, <1>5, <1>6

\* What rows f say earned a stage, kept apart from the state, for the rows before and after a step.
EarnedIn(f, s, R) ==
  /\ s = "monitoring"
       => \E j \in R : f[j].status = "patch_created" /\ f[j].pr /\ f[j].commit = "hash"
  /\ s \in {"resolved", "unresolved"} => \E j \in R : f[j].status = "monitoring"

\* A stage stays earned where the rows that earned it are.
LEMMA EarnedCarries ==
  ASSUME NEW f, NEW g, NEW s, NEW Q, NEW R, EarnedIn(f, s, Q),
         \A j \in Q : j \in R /\ g[j] = f[j]
  PROVE  EarnedIn(g, s, R)
<1>1. ASSUME s = "monitoring"
      PROVE  \E j \in R : g[j].status = "patch_created" /\ g[j].pr /\ g[j].commit = "hash"
  <2>1. PICK j \in Q : f[j].status = "patch_created" /\ f[j].pr /\ f[j].commit = "hash"
    BY <1>1 DEF EarnedIn
  <2>2. j \in R /\ g[j] = f[j]
    OBVIOUS
  <2> WITNESS j \in R
  <2> QED BY <2>1, <2>2
<1>2. ASSUME s \in {"resolved", "unresolved"}
      PROVE  \E j \in R : g[j].status = "monitoring"
  <2>1. PICK j \in Q : f[j].status = "monitoring"
    BY <1>2 DEF EarnedIn
  <2>2. j \in R /\ g[j] = f[j]
    OBVIOUS
  <2> WITNESS j \in R
  <2> QED BY <2>1, <2>2
<1> QED BY <1>1, <1>2 DEF EarnedIn

\* A row that was earned keeps what the rows say, and what was earned stays earned.
LEMMA RowsGrow ==
  ASSUME TypeOK, Rooted, NoStageSkipped, NEW r \in Row, rows' = Append(rows, r),
         r.problem \in 1 .. Len(rows) + 1,
         r.problem = Len(rows) + 1 => r.status = "open",
         r.problem \in DOMAIN rows /\ Opened(r.problem) =>
           Earned(r.status, RowsOf(r.problem))
  PROVE  /\ Rooted' /\ NoStageSkipped'
         /\ \A p \in DOMAIN rows : rows'[p] = rows[p] /\ RowsOf(p) \subseteq RowsOf(p)'
<1> DEFINE n == Len(rows)
<1>1. /\ rows' \in Seq(Row) /\ Len(rows') = n + 1 /\ rows'[n + 1] = r
      /\ \A i \in DOMAIN rows : rows'[i] = rows[i]
  BY Added
<1>2. n \in Nat /\ DOMAIN rows = 1 .. n /\ DOMAIN rows' = 1 .. n + 1
  BY <1>1 DEF TypeOK
<1>r. r.problem \in DOMAIN rows \/ r.problem = n + 1
  BY <1>2
<1> HIDE DEF n
<1>s. \A i \in DOMAIN rows' : i \in DOMAIN rows \/ i = n + 1
  BY <1>2
<1>3. Rooted'
  BY <1>1, <1>2 DEF Rooted, n
<1>4. \A p \in DOMAIN rows : rows'[p] = rows[p] /\ RowsOf(p) \subseteq RowsOf(p)'
  BY <1>1, <1>2 DEF RowsOf
<1>5. NoStageSkipped'
  <2> SUFFICES ASSUME NEW i \in DOMAIN rows', Opened(rows[i].problem)'
               PROVE  Earned(rows[i].status, {j \in 1 .. i - 1 : rows[j].problem = rows[i].problem})'
    BY DEF NoStageSkipped
  <2>1. CASE i \in DOMAIN rows
    <3>1. rows'[i] = rows[i] /\ rows[i].problem \in DOMAIN rows
      BY <2>1, <1>1, <1>2 DEF Rooted
    <3>2. Opened(rows[i].problem)
      BY <3>1, <1>1 DEF Opened
    <3>3. Earned(rows[i].status, {j \in 1 .. i - 1 : rows[j].problem = rows[i].problem})
      BY <2>1, <3>2 DEF NoStageSkipped
    <3>4. \A j \in 1 .. i - 1 : rows'[j] = rows[j]
      BY <2>1, <1>1, <1>2
    <3> DEFINE R == {j \in 1 .. i - 1 : rows[j].problem = rows[i].problem}
    <3>5. R' = R
      BY <3>1, <3>4
    <3>6. \A j \in R : j \in R' /\ rows'[j] = rows[j]
      BY <3>4, <3>5
    <3>7. EarnedIn(rows, rows[i].status, R)
      BY <3>3 DEF Earned, EarnedIn
    <3>8. EarnedIn(rows', rows[i].status, R')
      <4> HIDE DEF R
      <4> QED BY <3>6, <3>7, EarnedCarries
    <3> QED BY <3>1, <3>8 DEF Earned, EarnedIn
  <2>2. CASE i = n + 1
    <3>1. rows'[i] = r
      BY <2>2, <1>1
    <3>2. CASE r.problem = n + 1
      BY <3>1, <3>2 DEF Earned, n
    <3>3. CASE r.problem \in DOMAIN rows
      <4>1. Earned(r.status, RowsOf(r.problem))
        BY <3>1, <3>3, <1>1 DEF Opened
      <4>2. \A j \in RowsOf(r.problem) :
              j \in 1 .. i - 1 /\ rows'[j] = rows[j] /\ rows'[j].problem = r.problem
        BY <2>2, <1>1, <1>2 DEF RowsOf
      <4> DEFINE R == {j \in 1 .. i - 1 : rows[j].problem = rows[i].problem}
                 Q == RowsOf(r.problem)
      <4>3. \A j \in Q : j \in R' /\ rows'[j] = rows[j]
        BY <3>1, <4>2
      <4>4. EarnedIn(rows, r.status, Q)
        BY <4>1 DEF Earned, EarnedIn
      <4>5. EarnedIn(rows', r.status, R')
        <5> HIDE DEF R, Q
        <5> QED BY <4>3, <4>4, EarnedCarries
      <4> QED BY <3>1, <4>5 DEF Earned, EarnedIn
    <3> QED BY <3>2, <3>3, <1>r
  <2> QED BY <2>1, <2>2, <1>s
<1> QED BY <1>3, <1>4, <1>5

\* What a call has seen earned stays earned when a row is added.
LEMMA EarnedStays ==
  ASSUME Known, AllSeenEarned, NEW a \in Agents,
         call'[a] = call[a], DOMAIN rows \subseteq DOMAIN rows',
         \A p \in DOMAIN rows : rows'[p] = rows[p] /\ RowsOf(p) \subseteq RowsOf(p)'
  PROVE  SeenEarned(a)'
<1>1. \A p \in DOMAIN rows : \A s : Opened(p)' /\ (Opened(p) => Earned(s, RowsOf(p)))
                               => Earned(s, RowsOf(p))'
  <2> SUFFICES ASSUME NEW p \in DOMAIN rows, NEW s, Opened(p)', Opened(p) => Earned(s, RowsOf(p))
               PROVE  Earned(s, RowsOf(p))'
    OBVIOUS
  <2>1. Earned(s, RowsOf(p))
    BY DEF Opened
  <2> DEFINE Q == RowsOf(p)
  <2>2. \A j \in Q : j \in Q' /\ rows'[j] = rows[j]
    BY DEF RowsOf
  <2>3. EarnedIn(rows, s, Q)
    BY <2>1 DEF Earned, EarnedIn
  <2>4. EarnedIn(rows', s, Q')
    <3> HIDE DEF Q
    <3> QED BY <2>2, <2>3, EarnedCarries
  <2> QED BY <2>4 DEF Earned, EarnedIn
<1> DEFINE c == call[a]
<1>2. SeenEarned(a)
  BY DEF AllSeenEarned
<1>3. ASSUME c.at = "read"
      PROVE  Opened(c.p)' => Earned(c.u.status, RowsOf(c.p))'
  <2>1. c.p \in DOMAIN rows
    BY <1>3 DEF Known
  <2>2. Opened(c.p) => Earned(c.u.status, RowsOf(c.p))
    BY <1>2, <1>3 DEF SeenEarned
  <2> QED BY <1>1, <2>1, <2>2
<1>4. ASSUME c.at = "append"
      PROVE  /\ c.row.problem \in DOMAIN rows'
             /\ Opened(c.row.problem)' => Earned(c.row.status, RowsOf(c.row.problem))'
  <2>1. /\ c.row.problem \in DOMAIN rows
        /\ Opened(c.row.problem) => Earned(c.row.status, RowsOf(c.row.problem))
    BY <1>2, <1>4 DEF SeenEarned
  <2> QED BY <1>1, <2>1
<1> QED BY <1>3, <1>4 DEF SeenEarned

LEMMA SetEarned ==
  ASSUME TypeOK, Known, AllSeenEarned, NEW a \in Agents, NEW c, Set(a, c),
         DOMAIN rows \subseteq DOMAIN rows',
         \A p \in DOMAIN rows : rows'[p] = rows[p] /\ RowsOf(p) \subseteq RowsOf(p)',
         SeenEarned(a)'
  PROVE  AllSeenEarned'
<1>1. \A b \in Agents \ {a} : call'[b] = call[b]
  BY DEF Set, TypeOK
<1>2. \A b \in Agents \ {a} : SeenEarned(b)'
  BY <1>1, EarnedStays
<1> QED BY <1>2 DEF AllSeenEarned

-----------------------------------------------------------------------------
(* The invariant.                                                          *)

LEMMA InitInv == Init => IInv
BY DEF Init, IInv, TypeOK, Known, Rooted, NoStageSkipped, AllSeenEarned, SeenEarned, Call, Idle,
       Verdict

LEMMA InsertInv ==
  ASSUME IInv, NEW a \in Agents, InsertProblem(a)
  PROVE  IInv'
<1>1. TypeOK' /\ Known'
  BY InsertTypes DEF IInv
<1> DEFINE r == [problem |-> Len(rows) + 1, status |-> "open", pr |-> FALSE, commit |-> ""]
<1>2. rows' = Append(rows, r) /\ call' = call
  BY DEF InsertProblem
<1>3. r.problem = Len(rows) + 1 /\ r.status = "open"
  OBVIOUS
<1> HIDE DEF r
<1>n. Len(rows) \in Nat /\ DOMAIN rows = 1 .. Len(rows) /\ TypeOK
  BY DEF IInv, TypeOK
<1>4. r \in Row
  <2>1. rows' \in Seq(Row) /\ Len(rows) + 1 \in DOMAIN rows' /\ rows'[Len(rows) + 1] = r
    <3>1. r \in {r}
      OBVIOUS
    <3> QED BY <1>1, <1>2, <1>n DEF TypeOK
  <2> QED BY <2>1
<1>5. r.problem \in 1 .. Len(rows) + 1 /\ r.problem \notin DOMAIN rows
  BY <1>3, <1>n
<1>6. /\ Rooted' /\ NoStageSkipped'
      /\ \A p \in DOMAIN rows : rows'[p] = rows[p] /\ RowsOf(p) \subseteq RowsOf(p)'
  BY <1>2, <1>3, <1>4, <1>5, RowsGrow DEF IInv
<1>7. DOMAIN rows \subseteq DOMAIN rows'
  BY <1>2, <1>4, <1>n, Added
<1>8. AllSeenEarned'
  BY <1>2, <1>6, <1>7, EarnedStays DEF IInv, AllSeenEarned
<1> QED BY <1>1, <1>6, <1>8 DEF IInv

\* The transition check, or a number that is no problem's.
LEMMA CheckInv ==
  ASSUME IInv, NEW a \in Agents, CheckProblem(a)
  PROVE  IInv'
<1>1. TypeOK' /\ Known' /\ TypeOK
  BY CheckTypes DEF IInv
<1>2. rows' = rows
  BY DEF CheckProblem
<1>3. PICK p \in DOMAIN rows, u \in Asked :
        Set(a, IF u.status = "" \/ RowsOf(p) = {} \/ \E i \in Latest(p) : Accepts(rows[i], u)
                 THEN [at |-> "read", p |-> p, u |-> u]
                 ELSE Idle)
  BY DEF CheckProblem
<1>4. CASE u.status = "" \/ RowsOf(p) = {} \/ \E i \in Latest(p) : Accepts(rows[i], u)
  <2> DEFINE c == [at |-> "read", p |-> p, u |-> u]
  <2>1. Set(a, c) /\ c.at = "read" /\ c.p = p /\ c.u = u
    BY <1>3, <1>4
  <2> HIDE DEF c
  <2>2. Opened(p) => Earned(u.status, RowsOf(p))
    <3>1. CASE u.status = ""
      BY <3>1 DEF Earned
    <3>2. CASE RowsOf(p) = {}
      BY <3>2 DEF Opened, RowsOf
    <3>3. CASE Opened(p) /\ \E i \in Latest(p) : Accepts(rows[i], u)
      BY <3>3, <1>1, AcceptedEarned DEF Latest, IInv
    <3> QED BY <3>1, <3>2, <3>3, <1>4
  <2>3. call'[a] = c
    BY <2>1, <1>1 DEF Set, TypeOK
  <2>4. SeenEarned(a)'
    BY <2>1, <2>2, <2>3, <1>2 DEF SeenEarned, Opened, Earned, RowsOf
  <2>5. AllSeenEarned'
    BY <2>1, <2>4, <1>2, SetEarned DEF IInv, RowsOf
  <2> QED BY <2>5, <1>1, <1>2 DEF IInv, Rooted, NoStageSkipped, Opened, Earned
<1>5. CASE ~ (u.status = "" \/ RowsOf(p) = {} \/ \E i \in Latest(p) : Accepts(rows[i], u))
  <2>1. Set(a, Idle)
    BY <1>3, <1>5
  <2>2. SeenEarned(a)'
    BY <2>1, <1>1 DEF Set, TypeOK, SeenEarned, Idle
  <2>3. AllSeenEarned'
    BY <2>1, <2>2, <1>2, SetEarned DEF IInv, RowsOf
  <2> QED BY <2>3, <1>1, <1>2 DEF IInv, Rooted, NoStageSkipped, Opened, Earned
<1> QED BY <1>4, <1>5

\* A row read later has earned its stage as well, should the update keep it.
LEMMA ReadInv ==
  ASSUME IInv, NEW a \in Agents, ReadProblem(a)
  PROVE  IInv'
<1>1. TypeOK' /\ Known' /\ TypeOK
  BY ReadTypes DEF IInv
<1>2. rows' = rows /\ call[a].at = "read"
  BY DEF ReadProblem
<1> DEFINE p == call[a].p
           u == call[a].u
<1>3. p \in 1 .. MaxRows /\ u \in Update /\ p \in DOMAIN rows
  BY <1>1, <1>2, CallShape DEF TypeOK, Known, IInv
<1>4. Opened(p) => Earned(u.status, RowsOf(p))
  BY <1>2 DEF IInv, AllSeenEarned, SeenEarned
<1>5. PICK i \in IF RowsOf(p) # {} THEN Latest(p) ELSE {p} :
        Set(a, [at |-> "append", row |-> [Merge(rows[i], u) EXCEPT !.problem = p]])
  BY DEF ReadProblem
<1> HIDE DEF p, u
<1>6. i \in DOMAIN rows /\ rows[i] \in Row
  BY <1>1, <1>3, <1>5 DEF Latest, RowsOf, TypeOK
<1>m. /\ [Merge(rows[i], u) EXCEPT !.problem = p].problem = p
      /\ [Merge(rows[i], u) EXCEPT !.problem = p].status =
           IF u.status = "" THEN rows[i].status ELSE u.status
  <2> DEFINE q == rows[i]
  <2>1. q \in Row
    BY <1>6
  <2> HIDE DEF q
  <2>2. /\ [Merge(q, u) EXCEPT !.problem = p].problem = p
        /\ [Merge(q, u) EXCEPT !.problem = p].status = IF u.status = "" THEN q.status ELSE u.status
    BY <1>3, <2>1 DEF Merge, Row, Update
  <2> QED BY <2>2 DEF q
<1> DEFINE r == [Merge(rows[i], u) EXCEPT !.problem = p]
           c == [at |-> "append", row |-> r]
<1>7. r.problem = p /\ r.status = IF u.status = "" THEN rows[i].status ELSE u.status
  BY <1>m
<1> HIDE DEF r
<1>8. Opened(p) => Earned(r.status, RowsOf(p))
  <2> SUFFICES ASSUME Opened(p) PROVE Earned(r.status, RowsOf(p))
    OBVIOUS
  <2>1. CASE u.status # ""
    BY <1>4, <1>7, <2>1
  <2>2. CASE u.status = ""
    <3>1. i \in RowsOf(p)
      BY <1>3, <1>5 DEF Opened, RowsOf, Latest
    <3>2. rows[i].problem = p
      BY <3>1 DEF RowsOf
    <3> QED BY <1>1, <1>6, <1>7, <2>2, <3>2, RowEarned DEF IInv
  <2> QED BY <2>1, <2>2
<1>9. Set(a, c) /\ c.at = "append" /\ c.row = r
  BY <1>5 DEF r
<1> HIDE DEF c
<1>10. call'[a] = c
  BY <1>1, <1>9 DEF Set, TypeOK
<1>11. SeenEarned(a)'
  BY <1>2, <1>3, <1>7, <1>8, <1>9, <1>10 DEF SeenEarned, Opened, Earned, RowsOf
<1>12. AllSeenEarned'
  BY <1>2, <1>9, <1>11, SetEarned DEF IInv, RowsOf
<1> QED BY <1>1, <1>2, <1>12 DEF IInv, Rooted, NoStageSkipped, Opened, Earned

LEMMA AppendInv ==
  ASSUME IInv, NEW a \in Agents, AppendProblem(a)
  PROVE  IInv'
<1>1. TypeOK' /\ Known' /\ TypeOK
  BY AppendTypes DEF IInv
<1> DEFINE r == call[a].row
<1>2. rows' = Append(rows, r) /\ Set(a, Idle) /\ call[a].at = "append"
  BY DEF AppendProblem
<1>3. r \in Row
  BY <1>1, <1>2, CallShape DEF TypeOK
<1>4. r.problem \in DOMAIN rows /\ (Opened(r.problem) => Earned(r.status, RowsOf(r.problem)))
  BY <1>2 DEF IInv, AllSeenEarned, SeenEarned
<1> HIDE DEF r
<1>5. Len(rows) \in Nat /\ DOMAIN rows = 1 .. Len(rows)
  BY <1>1 DEF TypeOK
<1>6. r.problem \in 1 .. Len(rows) + 1 /\ r.problem # Len(rows) + 1
  BY <1>4, <1>5
<1>7. /\ Rooted' /\ NoStageSkipped'
      /\ \A p \in DOMAIN rows : rows'[p] = rows[p] /\ RowsOf(p) \subseteq RowsOf(p)'
  BY <1>2, <1>3, <1>4, <1>6, RowsGrow DEF IInv
<1>8. DOMAIN rows \subseteq DOMAIN rows'
  BY <1>1, <1>2, <1>3, <1>5, Added
<1>9. SeenEarned(a)'
  BY <1>1, <1>2 DEF Set, TypeOK, SeenEarned, Idle
<1>10. AllSeenEarned'
  BY <1>2, <1>7, <1>8, <1>9, SetEarned DEF IInv
<1> QED BY <1>1, <1>7, <1>10 DEF IInv

\* No call that judges findings holds a stage.
LEMMA VerdictInv ==
  ASSUME IInv, NEW a \in Agents,
         \/ WriteCase(a) \/ SelectUnjudged(a) \/ JudgeFindings(a)
         \/ RecordVerdict(a) \/ ReconcileFinding(a)
  PROVE  IInv'
<1>1. TypeOK' /\ Known' /\ rows' = rows /\ TypeOK
  BY VerdictTypes DEF IInv
<1>2. CASE call' = call
  BY <1>1, <1>2 DEF IInv, Rooted, NoStageSkipped, Opened, Earned, AllSeenEarned, SeenEarned, RowsOf
<1>3. ASSUME NEW c, Set(a, c), c.at \notin {"read", "append"}
      PROVE  IInv'
  <2>1. SeenEarned(a)'
    BY <1>1, <1>3 DEF Set, TypeOK, SeenEarned
  <2>2. AllSeenEarned'
    BY <1>1, <1>3, <2>1, SetEarned DEF IInv, RowsOf
  <2> QED BY <1>1, <2>2 DEF IInv, Rooted, NoStageSkipped, Opened, Earned
<1>4. CASE SelectUnjudged(a)
  <2>1. PICK c \in Cases, reliable \in BOOLEAN :
          Set(a, [at |-> "judge", outcome |-> cases[c], verdict |-> VerdictFor(cases[c], reliable),
                  found |-> {f \in Findings : finding[f].verdict = None /\ ~ finding[f].resolved}])
    BY <1>4 DEF SelectUnjudged
  <2> QED BY <1>3, <2>1
<1>5. CASE JudgeFindings(a)
  BY <1>3, <1>5 DEF JudgeFindings, Idle
<1>6. CASE WriteCase(a) \/ RecordVerdict(a) \/ ReconcileFinding(a)
  BY <1>2, <1>6 DEF WriteCase, RecordVerdict, ReconcileFinding
<1> QED BY <1>4, <1>5, <1>6

LEMMA NextInv == IInv /\ [Next]_vars => IInv'
<1> SUFFICES ASSUME IInv, [Next]_vars PROVE IInv'
  OBVIOUS
<1>1. CASE Next
  <2>1. PICK a \in Agents :
          \/ InsertProblem(a) \/ CheckProblem(a) \/ ReadProblem(a) \/ AppendProblem(a)
          \/ WriteCase(a) \/ SelectUnjudged(a) \/ JudgeFindings(a)
          \/ RecordVerdict(a) \/ ReconcileFinding(a)
    BY <1>1 DEF Next
  <2> QED BY <2>1, InsertInv, CheckInv, ReadInv, AppendInv, VerdictInv
<1>2. CASE UNCHANGED vars
  BY <1>2 DEF vars, IInv, TypeOK, Known, Rooted, NoStageSkipped, Opened, Earned, AllSeenEarned,
              SeenEarned, RowsOf
<1> QED BY <1>1, <1>2

LEMMA Invariant == Spec => []IInv
BY InitInv, NextInv, PTL DEF Spec

-----------------------------------------------------------------------------
(* Theorems.                                                               *)

\* The board, the cases, the findings and the calls keep their types.
THEOREM TypeCorrect == Spec => []TypeOK
<1>1. IInv => TypeOK
  BY DEF IInv
<1> QED BY <1>1, Invariant, PTL

\* update_problem skips no stage of a problem, for any number of sessions and of updates,
\* although it checks one row and writes after another.
THEOREM StagesKept == Spec => []NoStageSkipped
<1>1. IInv => NoStageSkipped
  BY DEF IInv
<1> QED BY <1>1, Invariant, PTL

\* The verdict somebody gave while a repair was being matched to the findings of its node is
\* kept, for any number of sessions and findings.
THEOREM VerdictsKept == Spec => VerdictKept
<1>1. \A a \in Agents : JudgeFindings(a) =>
        \A f \in Findings : finding[f].verdict # None => finding'[f] = finding[f]
  BY DEF JudgeFindings, StillUnjudged
<1> QED BY <1>1, PTL DEF VerdictKept
=============================================================================
