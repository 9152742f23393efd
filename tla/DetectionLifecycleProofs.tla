---------------------- MODULE DetectionLifecycleProofs ----------------------
(***************************************************************************)
(* For any signals, thresholds and bounds: the types of the lifecycle, and *)
(* - when one run at a time works on a rule, as the flock of the cron job  *)
(* intends - one active finding at most, no finding without its action,    *)
(* and the lifecycle as an implementation of NodeIssue, whatever calls     *)
(* fail.                                                                   *)
(***************************************************************************)
EXTENDS DetectionLifecycle, FiniteSetTheorems, TLAPS

USE PolicyAssumption

-----------------------------------------------------------------------------
(* Lemmas about rows.                                                      *)

LEMMA RowsAreAny ==
  ASSUME NEW s \in Signals, NEW x \in Row(s)
  PROVE  x \in AnyRow
BY DEF AnyRow

LEMMA EmptyRowTyped == \A s \in Signals : EmptyRow \in Row(s)
BY DEF EmptyRow, Row

LEMMA CountTyped ==
  ASSUME NEW limit \in Nat, NEW n \in 0 .. limit
  PROVE  Count(n, limit) \in 0 .. limit
BY DEF Count

LEMMA UpdatedTyped ==
  ASSUME NEW s \in Signals, NEW x \in Row(s), NEW b \in 0 .. OpenAfter[s],
         NEW h \in 0 .. CloseAfter[s], NEW l \in 0 .. MaxFindings, NEW e \in BOOLEAN
  PROVE  [x EXCEPT !.bad = b, !.healthy = h, !.link = l, !.expires = e] \in Row(s)
BY DEF Row

\* Applying an observation keeps the row of its signal a row.
LEMMA AfterTyped ==
  ASSUME NEW s \in Signals, NEW x \in Row(s), NEW f \in 0 .. MaxFindings
  PROVE  AfterBad(s, x, f) \in Row(s) /\ AfterHealthy(s, x, f) \in Row(s)
           /\ AfterUnknown(x, f) \in Row(s)
<1>1. /\ x.bad \in 0 .. OpenAfter[s] /\ x.healthy \in 0 .. CloseAfter[s]
      /\ OpenAfter[s] \in Nat /\ CloseAfter[s] \in Nat
  BY DEF Row
<1>2. Count(x.bad, OpenAfter[s]) \in 0 .. OpenAfter[s]
  BY <1>1, CountTyped
<1>3. Count(x.healthy, CloseAfter[s]) \in 0 .. CloseAfter[s]
  BY <1>1, CountTyped
<1>4. AfterBad(s, x, f) \in Row(s)
  <2> DEFINE n == Count(x.bad, OpenAfter[s])
             l == IF f # 0 THEN f ELSE x.link
             e == f = 0 /\ s \notin EventSignals /\ n < OpenAfter[s]
  <2>1. AfterBad(s, x, f)
          = [x EXCEPT !.bad = n, !.healthy = 0, !.link = l, !.expires = e]
    BY DEF AfterBad
  <2>2. l \in 0 .. MaxFindings /\ e \in BOOLEAN /\ n \in 0 .. OpenAfter[s]
    BY <1>2 DEF Row
  <2> HIDE DEF n, l, e
  <2>3. 0 \in 0 .. CloseAfter[s]
    BY <1>1
  <2>4. [x EXCEPT !.bad = n, !.healthy = 0, !.link = l, !.expires = e] \in Row(s)
    BY <2>2, <2>3, UpdatedTyped
  <2> QED BY <2>1, <2>4
<1>5. AfterHealthy(s, x, f) \in Row(s)
  <2> DEFINE n == Count(x.healthy, CloseAfter[s])
             l == IF f = 0 THEN x.link ELSE IF Recovers(s, x) THEN 0 ELSE f
             e == f = 0 \/ Recovers(s, x)
  <2>1. AfterHealthy(s, x, f)
          = [x EXCEPT !.bad = 0, !.healthy = n, !.link = l, !.expires = e]
    BY DEF AfterHealthy
  <2>2. l \in 0 .. MaxFindings /\ e \in BOOLEAN /\ n \in 0 .. CloseAfter[s]
    BY <1>3 DEF Row
  <2> HIDE DEF n, l, e
  <2>3. 0 \in 0 .. OpenAfter[s]
    BY <1>1
  <2>4. [x EXCEPT !.bad = 0, !.healthy = n, !.link = l, !.expires = e] \in Row(s)
    BY <2>2, <2>3, UpdatedTyped
  <2> QED BY <2>1, <2>4
<1>6. AfterUnknown(x, f) \in Row(s)
  BY DEF AfterUnknown, Row
<1> QED BY <1>4, <1>5, <1>6

-----------------------------------------------------------------------------
(* Types.                                                                  *)

\* The active findings, and those of any part of them, have a newest one.
HasNewest ==
  \A S \in SUBSET active : S # {} => \E f \in S : \A g \in S : g <= f

LEMMA ActiveFindingIsActive ==
  ASSUME TypeOK, HasNewest, NEW s \in Signals
  PROVE  /\ ActiveFinding(s) \in 0 .. MaxFindings
         /\ ActiveFinding(s) = 0 <=> active = {}
         /\ active # {} => ActiveFinding(s) \in active
<1>1. CASE active = {}
  BY <1>1 DEF ActiveFinding, TypeOK
<1>2. CASE active # {}
  <2>1. ActiveFinding(s) \in active
    BY <1>2 DEF HasNewest, ActiveFinding
  <2>2. ActiveFinding(s) \in 1 .. opened /\ opened \in 0 .. MaxFindings
    BY <2>1 DEF TypeOK
  <2> QED BY <1>2, <2>1, <2>2
<1> QED BY <1>1, <1>2

LEMMA InitTyped == Init => TypeOK /\ HasNewest
<1> SUFFICES ASSUME Init PROVE TypeOK /\ HasNewest
  OBVIOUS
<1>1. \A s \in Signals : EmptyRow \in Row(s) /\ EmptyRow \in AnyRow
  BY EmptyRowTyped, RowsAreAny
<1>2. \A r \in Runs : signal[r] \in Signals
  BY DEF Init
<1> QED BY <1>1, <1>2 DEF Init, TypeOK, HasNewest, Status, Step

LEMMA StepTyped == TypeOK /\ HasNewest /\ [Next]_vars => TypeOK' /\ HasNewest'
<1> SUFFICES ASSUME TypeOK, HasNewest, [Next]_vars PROVE TypeOK' /\ HasNewest'
  OBVIOUS
<1> USE DEF TypeOK, Goto, store, Status, Step
<1>1. ASSUME NEW r \in Runs, StartRun(r) PROVE TypeOK' /\ HasNewest'
  BY <1>1 DEF StartRun, HasNewest
<1>2. ASSUME NEW r \in Runs, Observe(r) PROVE TypeOK' /\ HasNewest'
  <2>1. PICK s \in left[r] : \E st \in Reports(s) :
          /\ left' = [left EXCEPT ![r] = @ \ {s}]
          /\ signal' = [signal EXCEPT ![r] = s]
          /\ status' = [status EXCEPT ![r] = st]
          /\ state' = [state EXCEPT ![r] = row[s]]
    BY <1>2 DEF Observe
  <2>2. s \in Signals /\ Reports(s) \subseteq Status
    BY DEF Reports
  <2> QED BY <1>2, <2>1, <2>2 DEF Observe, HasNewest
<1>3. ASSUME NEW r \in Runs, NoEvent(r) PROVE TypeOK' /\ HasNewest'
  BY <1>3 DEF NoEvent, HasNewest
<1>4. ASSUME NEW r \in Runs, FindActive(r) PROVE TypeOK' /\ HasNewest'
  <2> DEFINE f == ActiveFinding(signal[r])
  <2>2. signal[r] \in Signals /\ state[r] \in Row(signal[r]) /\ f \in 0 .. MaxFindings
    BY <1>4, ActiveFindingIsActive DEF FindActive
  <2>3. \E x \in Row(signal[r]) : state' = [state EXCEPT ![r] = x]
    BY <1>4, <2>2, AfterTyped DEF FindActive
  <2>4. \E c \in Step \ {"off", "observe"} : step' = [step EXCEPT ![r] = c]
    BY <1>4 DEF FindActive, Opening
  <2>5. found' = [found EXCEPT ![r] = f]
    BY <1>4 DEF FindActive
  <2>6. UNCHANGED <<store, left, signal, status, faults>>
    BY <1>4 DEF FindActive
  <2> HIDE DEF f
  <2>7. PICK x \in Row(signal[r]) : state' = [state EXCEPT ![r] = x]
    BY <2>3
  <2>8. state' \in [Runs -> AnyRow]
    BY <2>7, <2>2, RowsAreAny
  <2>9. \A q \in Runs : step'[q] \notin {"off", "observe"} => state'[q] \in Row(signal'[q])
    BY <2>7, <2>4, <2>6
  <2>10. step' \in [Runs -> Step] /\ found' \in [Runs -> 0 .. MaxFindings]
    BY <2>2, <2>4, <2>5
  <2> QED BY <2>6, <2>8, <2>9, <2>10 DEF HasNewest
<1>5. ASSUME NEW r \in Runs, Execute(r) PROVE TypeOK' /\ HasNewest'
  BY <1>5 DEF Execute, HasNewest, Opening
<1>6. ASSUME NEW r \in Runs, InsertFinding(r) PROVE TypeOK' /\ HasNewest'
  <2>1. [state[r] EXCEPT !.link = opened'] \in Row(signal[r])
    BY <1>6 DEF InsertFinding, Row
  <2>2. state' = [state EXCEPT ![r] = [state[r] EXCEPT !.link = opened']]
    BY <1>6 DEF InsertFinding
  <2>3. signal[r] \in Signals
    OBVIOUS
  <2>4. state' \in [Runs -> AnyRow]
    BY <2>1, <2>2, <2>3, RowsAreAny
  <2>5. \A q \in Runs : step'[q] \notin {"off", "observe"} => state'[q] \in Row(signal'[q])
    BY <1>6, <2>1, <2>2 DEF InsertFinding
  <2>6. /\ active' \subseteq 1 .. opened' /\ opened' \in 0 .. MaxFindings
        /\ active' = active \cup {opened'} /\ \A g \in active' : g <= opened'
    BY <1>6 DEF InsertFinding
  <2>7. ASSUME NEW S \in SUBSET active', S # {} PROVE \E f \in S : \A g \in S : g <= f
    <3>1. CASE opened' \in S
      BY <3>1, <2>6
    <3>2. CASE opened' \notin S
      BY <3>2, <2>6, <2>7 DEF HasNewest
    <3> QED BY <3>1, <3>2
  <2>8. HasNewest'
    BY <2>7 DEF HasNewest
  <2> QED BY <1>6, <2>4, <2>5, <2>6, <2>8 DEF InsertFinding, Opening
<1>7. ASSUME NEW r \in Runs, CheckOthers(r) PROVE TypeOK' /\ HasNewest'
  BY <1>7 DEF CheckOthers, HasNewest
<1>8. ASSUME NEW r \in Runs, Deactivate(r) PROVE TypeOK' /\ HasNewest'
  BY <1>8 DEF Deactivate, HasNewest
<1>9. ASSUME NEW r \in Runs, Upsert(r) PROVE TypeOK' /\ HasNewest'
  BY <1>9 DEF Upsert, HasNewest
<1>10. ASSUME NEW r \in Runs, EndRun(r) PROVE TypeOK' /\ HasNewest'
  <2>1. \A s \in Signals : row'[s] \in Row(s) /\ row'[s] \in AnyRow
    BY <1>10, EmptyRowTyped, RowsAreAny DEF EndRun
  <2> QED BY <1>10, <2>1 DEF EndRun, HasNewest
<1>11. ASSUME NEW r \in Runs, Abandon(r) PROVE TypeOK' /\ HasNewest'
  BY <1>11 DEF Abandon, HasNewest
<1>12. CASE UNCHANGED vars
  BY <1>12 DEF vars, HasNewest
<1> QED BY <1>1, <1>2, <1>3, <1>4, <1>5, <1>6, <1>7, <1>8, <1>9, <1>10, <1>11, <1>12
         DEF Next, RunStep

-----------------------------------------------------------------------------
(* What any number of runs keep: the actions of the findings, and the      *)
(* thresholds.                                                             *)

\* A run that is about to insert its finding has attempted an action no finding has used yet.
ActionInv == IsFiniteSet(Inserting) /\ OneAttemptPerFinding

Linked(s, x) == s \notin EventSignals /\ x.bad = OpenAfter[s] => x.link # 0

\* A run that opens a finding has not written the row that reached its threshold.
LinkInv ==
  /\ \A s \in Signals : Linked(s, row[s])
  /\ \A r \in Runs : step[r] \in {"find", "others", "deactivate", "upsert"}
       => Linked(signal[r], state[r])

LEMMA InitKept == Init => ActionInv /\ LinkInv
<1> SUFFICES ASSUME Init PROVE ActionInv /\ LinkInv
  OBVIOUS
<1>1. Inserting = {}
  BY DEF Init, Inserting
<1>2. ActionInv
  BY <1>1, FS_EmptySet, PolicyAssumption DEF Init, ActionInv, OneAttemptPerFinding
<1>3. \A s \in Signals : Linked(s, EmptyRow)
  BY DEF Linked, EmptyRow
<1> QED BY <1>2, <1>3 DEF Init, LinkInv

\* Inserting and leaving the insertion change the set by one run.
LEMMA ActionStep == TypeOK /\ ActionInv /\ [Next]_vars => ActionInv'
<1> SUFFICES ASSUME TypeOK, ActionInv, [Next]_vars PROVE ActionInv'
  OBVIOUS
<1> USE DEF ActionInv, OneAttemptPerFinding, Goto, store
<1>1. \A r \in Inserting : /\ IsFiniteSet(Inserting \ {r})
                            /\ Cardinality(Inserting \ {r}) = Cardinality(Inserting) - 1
  BY FS_RemoveElement
<1>2. Cardinality(Inserting) \in Nat /\ opened \in Nat /\ attempts \in Nat
      /\ MaxFaults \in Nat /\ faults \in 0 .. MaxFaults
  BY FS_CardinalityType, PolicyAssumption DEF TypeOK
<1>3. ASSUME NEW r \in Runs, Execute(r) PROVE ActionInv'
  <2>1. Inserting' = Inserting \cup {r} /\ r \notin Inserting
    BY <1>3 DEF Execute, Opening, TypeOK, Inserting
  <2>2. IsFiniteSet(Inserting') /\ Cardinality(Inserting') = Cardinality(Inserting) + 1
    BY <2>1, FS_AddElement
  <2> QED BY <1>2, <1>3, <2>2 DEF Execute
<1>4. ASSUME NEW r \in Runs, InsertFinding(r) PROVE ActionInv'
  <2>1. Inserting' = Inserting \ {r} /\ r \in Inserting
    BY <1>4 DEF InsertFinding, Opening, TypeOK, Inserting
  <2>2. IsFiniteSet(Inserting') /\ Cardinality(Inserting') = Cardinality(Inserting) - 1
    BY <1>1, <2>1
  <2>3. opened' = opened + 1 /\ UNCHANGED <<attempts, faults>>
    BY <1>4 DEF InsertFinding
  <2> QED BY <1>2, <2>2, <2>3
<1>5. ASSUME NEW r \in Runs, Abandon(r) PROVE ActionInv'
  <2>1. /\ Inserting' = Inserting \ {r} /\ opened' = opened /\ attempts' = attempts
        /\ faults > 0 /\ faults' = faults - 1
    BY <1>5 DEF Abandon, TypeOK, Inserting
  <2>2. CASE r \in Inserting
    <3>1. IsFiniteSet(Inserting') /\ Cardinality(Inserting') = Cardinality(Inserting) - 1
      BY <1>1, <2>1, <2>2
    <3> QED BY <1>2, <2>1, <3>1
  <2>3. CASE r \notin Inserting
    <3>1. Inserting' = Inserting
      BY <2>1, <2>3
    <3> QED BY <1>2, <3>1, <2>1
  <2> QED BY <2>2, <2>3
<1>6. ASSUME \/ UNCHANGED vars
             \/ \E r \in Runs : \/ StartRun(r) \/ Observe(r) \/ NoEvent(r) \/ FindActive(r)
                              \/ CheckOthers(r) \/ Deactivate(r) \/ Upsert(r) \/ EndRun(r)
      PROVE  ActionInv'
  <2>1. Inserting' = Inserting /\ UNCHANGED <<opened, attempts, faults>>
    BY <1>6 DEF vars, StartRun, Observe, NoEvent, FindActive, Opening, CheckOthers,
                Deactivate, Upsert, EndRun, TypeOK, Inserting
  <2> QED BY <2>1
<1> QED BY <1>3, <1>4, <1>5, <1>6 DEF Next, RunStep

\* Whatever is observed, the row that is written next is linked if it is at its threshold.
LEMMA AfterLinked ==
  ASSUME NEW s \in Signals, NEW x \in Row(s), NEW f \in 0 .. MaxFindings, Linked(s, x)
  PROVE  /\ (f # 0 \/ s \in EventSignals \/ ~ (x.bad + 1 >= OpenAfter[s]))
              => Linked(s, AfterBad(s, x, f))
         /\ Linked(s, AfterHealthy(s, x, f)) /\ Linked(s, AfterUnknown(x, f))
<1>1. x.bad \in 0 .. OpenAfter[s] /\ OpenAfter[s] \in Nat \ {0}
  BY DEF Row
<1>2. AfterBad(s, x, f).bad = Count(x.bad, OpenAfter[s])
      /\ AfterBad(s, x, f).link = IF f # 0 THEN f ELSE x.link
  BY DEF AfterBad, Row
<1>3. AfterHealthy(s, x, f).bad = 0
  BY DEF AfterHealthy, Row
<1>4. AfterUnknown(x, f).bad = x.bad
      /\ AfterUnknown(x, f).link = IF f # 0 THEN f ELSE x.link
  BY DEF AfterUnknown, Row
<1> QED BY <1>1, <1>2, <1>3, <1>4 DEF Linked, Count

LEMMA LinkStep == TypeOK /\ HasNewest /\ LinkInv /\ [Next]_vars => LinkInv'
<1> SUFFICES ASSUME TypeOK, HasNewest, LinkInv, [Next]_vars PROVE LinkInv'
  OBVIOUS
<1> USE DEF LinkInv, Goto, store
<1>1. ASSUME NEW r \in Runs, StartRun(r) \/ NoEvent(r) \/ Execute(r) \/ Abandon(r)
      PROVE  LinkInv'
  BY <1>1 DEF StartRun, NoEvent, Execute, Abandon, Opening, TypeOK
<1>2. ASSUME NEW r \in Runs, Observe(r) PROVE LinkInv'
  <2>1. PICK s \in left[r] : /\ signal' = [signal EXCEPT ![r] = s]
                             /\ state' = [state EXCEPT ![r] = row[s]]
    BY <1>2 DEF Observe
  <2>2. s \in Signals
    BY DEF TypeOK
  <2> QED BY <1>2, <2>1, <2>2 DEF Observe, TypeOK
<1>3. ASSUME NEW r \in Runs, FindActive(r) PROVE LinkInv'
  <2> DEFINE s == signal[r]
             x == state[r]
             f == ActiveFinding(s)
  <2>1. /\ s \in Signals /\ x \in Row(s) /\ f \in 0 .. MaxFindings /\ Linked(s, x)
    BY <1>3, ActiveFindingIsActive DEF FindActive, TypeOK
  <2>2. step'[r] \in {"find", "others", "deactivate", "upsert"} => Linked(s, state'[r])
    BY <1>3, <2>1, AfterLinked DEF FindActive, Opening, TypeOK
  <2> HIDE DEF x, f
  <2>3. \A q \in Runs \ {r} : step'[q] = step[q] /\ state'[q] = state[q]
    BY <1>3 DEF FindActive, TypeOK
  <2>4. UNCHANGED <<row, signal>>
    BY <1>3 DEF FindActive
  <2> QED BY <2>2, <2>3, <2>4
<1>4. ASSUME NEW r \in Runs, InsertFinding(r) PROVE LinkInv'
  <2>1. Linked(signal[r], [state[r] EXCEPT !.link = opened'])
    BY <1>4 DEF InsertFinding, Linked, TypeOK, Row
  <2> QED BY <1>4, <2>1 DEF InsertFinding, TypeOK
<1>5. ASSUME NEW r \in Runs, CheckOthers(r) \/ Deactivate(r) PROVE LinkInv'
  BY <1>5 DEF CheckOthers, Deactivate, TypeOK
<1>6. ASSUME NEW r \in Runs, Upsert(r) PROVE LinkInv'
  BY <1>6 DEF Upsert, TypeOK
<1>7. ASSUME NEW r \in Runs, EndRun(r) PROVE LinkInv'
  <2>1. \A s \in Signals : Linked(s, EmptyRow)
    BY DEF Linked, EmptyRow
  <2> QED BY <1>7, <2>1 DEF EndRun, TypeOK
<1>8. CASE UNCHANGED vars
  BY <1>8 DEF vars
<1> QED BY <1>1, <1>2, <1>3, <1>4, <1>5, <1>6, <1>7, <1>8 DEF Next, RunStep

\* For any number of concurrent runs.
KeptInv == TypeOK /\ HasNewest /\ ActionInv /\ LinkInv

THEOREM Kept == Spec => []KeptInv
<1>1. Init => KeptInv
  BY InitTyped, InitKept DEF KeptInv
<1>2. KeptInv /\ [Next]_vars => KeptInv'
  BY StepTyped, ActionStep, LinkStep DEF KeptInv
<1> QED BY <1>1, <1>2, PTL DEF Spec

\* The rows, the findings and the runs keep their types, for any signals and thresholds.
THEOREM TypeCorrect == Spec => []TypeOK
<1>1. KeptInv => TypeOK
  BY DEF KeptInv
<1> QED BY <1>1, Kept, PTL

\* Every finding has an attempt of its action before it, and only failures add further attempts,
\* however many runs there are.
THEOREM FindingsAreAttempted == Spec => []OneAttemptPerFinding
<1>1. KeptInv => OneAttemptPerFinding
  BY DEF KeptInv, ActionInv
<1> QED BY <1>1, Kept, PTL

\* A row at its threshold is linked to a finding, for any thresholds, runs and faults.
THEOREM ThresholdsAreLinked == Spec => []ThresholdLinked
<1>1. KeptInv => ThresholdLinked
  BY DEF KeptInv, LinkInv, Linked, ThresholdLinked
<1> QED BY <1>1, Kept, PTL

-----------------------------------------------------------------------------
(* What one run at a time keeps: one active finding, which its keepers     *)
(* close.                                                                  *)

\* What the flock of the cron job provides, as long as nobody calls test_rule_once.
SingleRun == \A q, r \in Runs : q = r

LinksOpened ==
  /\ \A s \in Signals : row[s].link <= opened
  /\ \A r \in Runs : step[r] \notin {"off", "observe"} => state[r].link <= opened

\* What the run has read is still true when it acts on it: nothing is active when it opens a
\* finding, and nobody else keeps the finding it closes.
ReadsHold ==
  \A r \in Runs :
    /\ step[r] \in {"execute", "insert"} => active = {}
    /\ step[r] \in {"others", "deactivate"} => found[r] \in active /\ state[r].link = 0
    /\ step[r] = "deactivate" => ~ KeptByOthers(signal[r], found[r])
    /\ step[r] = "upsert" /\ active # {} =>
         state[r].link \in active \/ \E t \in Signals \ {signal[r]} : row[t].link \in active

SingleInv == OneActive /\ LinksOpened /\ ReadsHold

\* A run that knows the active finding either keeps it or leaves it.
LEMMA AfterLinks ==
  ASSUME NEW s \in Signals, NEW x \in Row(s), NEW f \in 0 .. MaxFindings
  PROVE  /\ AfterBad(s, x, f).link = IF f # 0 THEN f ELSE x.link
         /\ AfterUnknown(x, f).link = IF f # 0 THEN f ELSE x.link
         /\ f = 0 => AfterHealthy(s, x, f).link = x.link
         /\ f # 0 /\ Recovers(s, x) => AfterHealthy(s, x, f).link = 0
         /\ f # 0 /\ ~ Recovers(s, x) => AfterHealthy(s, x, f).link = f
BY DEF AfterBad, AfterUnknown, AfterHealthy, Row

LEMMA InitSingle == Init => SingleInv
BY DEF Init, SingleInv, OneActive, LinksOpened, ReadsHold, EmptyRow

LEMMA SingleStep ==
  ASSUME SingleRun, TypeOK, HasNewest, SingleInv, [Next]_vars
  PROVE  SingleInv'
<1> USE DEF SingleInv, Goto, store
<1>1. ASSUME NEW r \in Runs, StartRun(r) \/ NoEvent(r) \/ Abandon(r) PROVE SingleInv'
  <2>1. UNCHANGED store /\ step'[r] = "observe"
    BY <1>1 DEF StartRun, NoEvent, Abandon, TypeOK
  <2> QED BY <2>1, SingleRun DEF SingleRun, OneActive, LinksOpened, ReadsHold
<1>2. ASSUME NEW r \in Runs, Observe(r) PROVE SingleInv'
  <2>1. PICK s \in left[r] : /\ signal' = [signal EXCEPT ![r] = s]
                             /\ state' = [state EXCEPT ![r] = row[s]]
    BY <1>2 DEF Observe
  <2>2. s \in Signals
    BY DEF TypeOK
  <2> QED BY SingleRun, <1>2, <2>1, <2>2
          DEF SingleRun, Observe, OneActive, LinksOpened, ReadsHold, KeptByOthers, TypeOK
<1>3. ASSUME NEW r \in Runs, FindActive(r) PROVE SingleInv'
  <2> DEFINE x == state[r]
             f == ActiveFinding(signal[r])
  <2>1. /\ signal[r] \in Signals /\ x \in Row(signal[r]) /\ f \in 0 .. MaxFindings
        /\ f = 0 <=> active = {}
        /\ active # {} => f \in active
        /\ x.link \in Nat /\ x.link <= opened /\ opened \in Nat /\ active \subseteq 1 .. opened
    BY <1>3, ActiveFindingIsActive DEF FindActive, TypeOK, LinksOpened, Row
  <2>2. UNCHANGED <<store, left, signal, status, faults>> /\ found'[r] = f
    BY <1>3 DEF FindActive, TypeOK
  <2>3. \/ step'[r] \in {"execute", "upsert"} /\ state'[r].link = IF f # 0 THEN f ELSE x.link
        \/ step'[r] = "upsert" /\ f # 0 /\ state'[r].link = f
        \/ step'[r] = "others" /\ f # 0 /\ state'[r].link = 0
    BY <1>3, <2>1, AfterLinks DEF FindActive, Opening, TypeOK
  <2>4. step'[r] = "execute" => f = 0
    BY <1>3 DEF FindActive, Opening, TypeOK
  <2> HIDE DEF x, f
  <2>5. LinksOpened'
    BY <2>1, <2>2, <2>3, SingleRun DEF SingleRun, LinksOpened
  <2>6. ReadsHold'
    BY <2>1, <2>2, <2>3, <2>4, SingleRun DEF SingleRun, ReadsHold
  <2> QED BY <2>2, <2>5, <2>6 DEF OneActive
<1>4. ASSUME NEW r \in Runs, Execute(r) PROVE SingleInv'
  BY <1>4, SingleRun DEF SingleRun, Execute, Opening, OneActive, LinksOpened, ReadsHold,
       KeptByOthers, TypeOK
<1>5. ASSUME NEW r \in Runs, InsertFinding(r) PROVE SingleInv'
  <2>1. active = {} /\ active' = {opened'} /\ opened' = opened + 1 /\ opened \in Nat
    BY <1>5 DEF InsertFinding, ReadsHold, TypeOK
  <2>2. step'[r] = "upsert" /\ state'[r].link = opened'
    BY <1>5, SingleRun DEF InsertFinding, Opening, TypeOK, Row
  <2>3. \A s \in Signals : row'[s] = row[s] /\ row[s].link \in Nat
    BY <1>5 DEF InsertFinding, TypeOK, Row
  <2>4. LinksOpened'
    BY <2>1, <2>2, <2>3, SingleRun DEF SingleRun, LinksOpened
  <2> QED BY <2>1, <2>2, <2>4, SingleRun DEF SingleRun, ReadsHold, OneActive
<1>6. ASSUME NEW r \in Runs, CheckOthers(r) PROVE SingleInv'
  BY <1>6, SingleRun DEF SingleRun, CheckOthers, OneActive, LinksOpened, ReadsHold,
       KeptByOthers, TypeOK
<1>7. ASSUME NEW r \in Runs, Deactivate(r) PROVE SingleInv'
  <2>1. active' = {}
    BY <1>7 DEF Deactivate, ReadsHold, OneActive
  <2>2. /\ step[r] = "deactivate" /\ step'[r] = "upsert"
        /\ row' = row /\ opened' = opened /\ state' = state
    BY <1>7 DEF Deactivate, TypeOK
  <2>3. \A q \in Runs : q = r
    BY SingleRun DEF SingleRun
  <2>4. LinksOpened'
    BY <2>2, <2>3 DEF LinksOpened
  <2>5. ReadsHold'
    BY <2>1, <2>2, <2>3 DEF ReadsHold
  <2> QED BY <2>1, <2>4, <2>5 DEF OneActive
<1>8. ASSUME NEW r \in Runs, Upsert(r) PROVE SingleInv'
  BY <1>8, SingleRun DEF SingleRun, Upsert, OneActive, LinksOpened, ReadsHold, TypeOK
<1>9. ASSUME NEW r \in Runs, EndRun(r) PROVE SingleInv'
  BY <1>9, SingleRun DEF SingleRun, EndRun, OneActive, LinksOpened, ReadsHold, EmptyRow, TypeOK
<1>10. CASE UNCHANGED vars
  BY <1>10 DEF vars, OneActive, LinksOpened, ReadsHold, KeptByOthers
<1> QED BY <1>1, <1>2, <1>3, <1>4, <1>5, <1>6, <1>7, <1>8, <1>9, <1>10 DEF Next, RunStep

THEOREM Single == ASSUME SingleRun PROVE Spec => [](KeptInv /\ SingleInv)
<1>1. Init => SingleInv
  BY InitSingle
<1>2. KeptInv /\ SingleInv /\ [Next]_vars => SingleInv'
  BY SingleRun, SingleStep DEF KeptInv
<1> QED BY <1>1, <1>2, Kept, PTL DEF Spec

\* While one run at a time works on the rule there is one active finding at most, however many
\* signals of the target are bad and wherever a run was cut.
THEOREM FindingsAreUnique == ASSUME SingleRun PROVE Spec => []OneActive
<1>1. SingleInv => OneActive
  BY DEF SingleInv
<1> QED BY <1>1, Single, PTL

\* A run's step is a step of the issue or leaves it as it is.
LEMMA IssueStep ==
  ASSUME SingleRun, KeptInv, SingleInv, [Next]_vars
  PROVE  [Issue!Next]_(Issue!vars)
<1>0. /\ TypeOK /\ ReadsHold /\ LinksOpened /\ OneActive
      /\ \A s \in Signals : row[s].link \in Nat /\ row[s].link <= opened
      /\ active \subseteq 1 .. opened /\ opened \in Nat
  BY DEF KeptInv, SingleInv, TypeOK, LinksOpened, Row
<1> USE DEF Goto, store, keepers
<1>1. ASSUME active' = active, UNCHANGED row PROVE UNCHANGED Issue!vars
  BY <1>1 DEF Issue!vars
<1>2. ASSUME NEW r \in Runs, InsertFinding(r) PROVE Issue!Open
  <2>1. active = {} /\ active' = {opened + 1} /\ row' = row
    BY <1>0, <1>2 DEF InsertFinding, ReadsHold
  <2>2. keepers = {} /\ keepers' = {}
    BY <1>0, <2>1
  <2> QED BY <2>1, <2>2 DEF Issue!Open
<1>3. ASSUME NEW r \in Runs, Deactivate(r) PROVE Issue!Close(signal[r])
  <2>0. found[r] \in active
    BY <1>0, <1>3 DEF Deactivate, ReadsHold
  <2>1. active = {found[r]} /\ active' = {} /\ row' = row
    BY <1>0, <1>3, <2>0 DEF Deactivate, OneActive
  <2>2. keepers \subseteq {signal[r]}
    BY <1>0, <1>3, <2>1 DEF Deactivate, ReadsHold, KeptByOthers
  <2> QED BY <2>1, <2>2 DEF Issue!Close
<1>4. ASSUME NEW r \in Runs, Upsert(r) PROVE [Issue!Next]_(Issue!vars)
  <2> DEFINE s == signal[r]
  <2>1. /\ s \in Signals /\ active' = active
        /\ row'[s] = state[r] /\ \A t \in Signals \ {s} : row'[t] = row[t]
    BY <1>0, <1>4 DEF Upsert, TypeOK
  <2>2. active # {} => state[r].link \in active \/ keepers \ {s} # {}
    BY <1>0, <1>4 DEF Upsert, ReadsHold
  <2> HIDE DEF s
  <2>3. CASE active = {}
    BY <2>1, <2>3 DEF Issue!vars
  <2>4. CASE active # {} /\ state[r].link \in active
    <3>1. keepers' = keepers \cup {s}
      BY <2>1, <2>4
    <3>2. Issue!Join(s)
      BY <2>1, <2>4, <3>1 DEF Issue!Join
    <3> QED BY <2>1, <3>2 DEF Issue!Next, Issue!Join
  <2>5. CASE active # {} /\ state[r].link \notin active
    <3>1. keepers' = keepers \ {s} /\ keepers # {s}
      BY <2>1, <2>2, <2>5
    <3>2. CASE s \in keepers
      <4>1. Issue!Leave(s)
        BY <2>1, <2>5, <3>1, <3>2 DEF Issue!Leave
      <4> QED BY <2>1, <4>1 DEF Issue!Next, Issue!Leave
    <3>3. CASE s \notin keepers
      BY <2>1, <3>1, <3>3 DEF Issue!vars
    <3> QED BY <3>2, <3>3
  <2> QED BY <2>3, <2>4, <2>5
<1>5. ASSUME NEW r \in Runs, EndRun(r) PROVE UNCHANGED Issue!vars
  <2>1. \A s \in Signals : row'[s].link = row[s].link
    BY <1>0, <1>5 DEF EndRun, TypeOK, EmptyRow
  <2> QED BY <1>5, <2>1 DEF EndRun, Issue!vars
<1>6. ASSUME NEW r \in Runs,
             \/ StartRun(r) \/ Observe(r) \/ NoEvent(r) \/ FindActive(r) \/ Execute(r)
             \/ CheckOthers(r) \/ Abandon(r)
      PROVE  UNCHANGED Issue!vars
  BY <1>1, <1>6 DEF StartRun, Observe, NoEvent, FindActive, Execute, CheckOthers, Abandon
<1>7. ASSUME UNCHANGED vars PROVE UNCHANGED Issue!vars
  BY <1>1, <1>7 DEF vars
<1>8. ASSUME NEW r \in Runs, InsertFinding(r) \/ Deactivate(r) PROVE Issue!Next
  <2>1. signal[r] \in Signals
    BY <1>0 DEF TypeOK
  <2> QED BY <1>2, <1>3, <1>8, <2>1 DEF Issue!Next, Issue!Open, Issue!Close
<1> QED BY <1>4, <1>5, <1>6, <1>7, <1>8 DEF Next, RunStep

\* While one run at a time works on the rule, the lifecycle implements NodeIssue: the issue is
\* opened once, and closed by the recovery of the last signal that keeps it, whatever calls
\* fail between the updates of the rows and of the finding.
THEOREM LifecycleImplementsIssue == ASSUME SingleRun PROVE Spec => ImplementsIssue
<1>1. Init => Issue!Init
  BY DEF Init, Issue!Init, keepers, EmptyRow
<1>2. KeptInv /\ SingleInv /\ [Next]_vars => [Issue!Next]_(Issue!vars)
  BY SingleRun, IssueStep
<1> QED BY <1>1, <1>2, Single, PTL DEF Spec, ImplementsIssue, Issue!Spec
=============================================================================
