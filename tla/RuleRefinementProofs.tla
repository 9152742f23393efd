------------------------ MODULE RuleRefinementProofs ------------------------
(***************************************************************************)
(* Refinements pass what they were replayed against, code can be brought   *)
(* back, and what gates a rule was said of it: for any number of sessions,  *)
(* examples and calls.                                                     *)
(***************************************************************************)
EXTENDS RuleRefinement, TLAPS

USE RefinementAssumption

-----------------------------------------------------------------------------
(* Types.                                                                  *)

\* What a call holds, by where it is.
LEMMA CallShape ==
  ASSUME NEW c \in Call
  PROVE  /\ c.at \in {"replay", "coverage", "live", "archive"} =>
              c \in [at : {"replay", "coverage", "live", "archive"}, code : Codes,
                     stage : Stages \cup {None}, known : SUBSET Fixture, replayed : BOOLEAN]
         /\ c.at = "write" =>
              c \in [at : {"write"}, code : Codes, stage : Stages \cup {None},
                     known : SUBSET Fixture, replayed : BOOLEAN, old : Live]
         /\ c.at = "attribute" => c \in [at : {"attribute"}, example : Examples, row : Attribution]
         /\ c.at = "fixtures" => c \in [at : {"fixtures"}, todo : SUBSET Fixture]
         /\ c.at = "create" => c \in [at : {"create"}, todo : SUBSET Fixture, new : Fixture]
BY DEF Call, CodeCall, Idle

\* A call that goes on with a call of the right shape keeps the type of call.
LEMMA SetType ==
  ASSUME TypeOK, NEW a \in Agents, NEW c \in Call, Set(a, c)
  PROVE  call' \in [Agents -> Call]
BY DEF TypeOK, Set

LEMMA IdleType == Idle \in Call
BY DEF Call

LEMMA BeginType ==
  ASSUME TypeOK, NEW a, Begin(a)
  PROVE  calls' \in 0 .. MaxCalls
BY DEF TypeOK, Begin

\* A label asks for a behaviour, or for none.
LEMMA ExpectedOfType == \A l \in Label : ExpectedOf(l) \in Expected
BY DEF ExpectedOf, Label, Expected

\* The types of the labels' columns.
LEMMA AttributedType ==
  ASSUME NEW row \in Attribution, NEW given \in Label \cup {""}, NEW x \in Expected \cup {None},
         NEW detection \in BOOLEAN
  PROVE  Attributed(row, given, x, detection) \in Attribution
BY DEF Attributed, Attribution, Default, ExpectedOf, Label, Expected

\* An example that is listed has a label, and so a behaviour.
LEMMA FromFeedbackType ==
  ASSUME TypeOK, NEW e \in ForReplay
  PROVE  FromFeedback(e, link[e]) \in Fixture
BY DEF TypeOK, ForReplay, FromFeedback, Fixture, Attribution, ExpectedOf, Expected, Source

LEMMA TypeInit == Init => TypeOK
<1> SUFFICES ASSUME Init PROVE TypeOK
  OBVIOUS
<1>1. link \in [Examples -> Attribution]
  BY DEF Init, NoLink, Attribution, Expected
<1>2. call \in [Agents -> Call]
  BY IdleType DEF Init
<1> QED BY <1>1, <1>2 DEF Init, TypeOK, Live

LEMMA LabelTypes ==
  ASSUME TypeOK, NEW a \in Agents, InsertLink(a) \/ ReadLink(a) \/ WriteLink(a)
  PROVE  TypeOK'
<1>1. CASE InsertLink(a)
  <2>1. PICK e \in Examples, l \in Label, x \in Expected \cup {None} :
          link' = [link EXCEPT ![e] = [@ EXCEPT !.label = l, !.expected = Default(x, ExpectedOf(l))]]
    BY <1>1 DEF InsertLink
  <2>2. [link[e] EXCEPT !.label = l, !.expected = Default(x, ExpectedOf(l))] \in Attribution
    BY ExpectedOfType DEF TypeOK, Attribution, Default
  <2>3. judged' \subseteq Fixture
    BY <1>1 DEF InsertLink, TypeOK, Said
  <2> QED BY <1>1, <2>1, <2>2, <2>3, BeginType DEF InsertLink, TypeOK
<1>2. CASE ReadLink(a)
  <2>1. PICK e \in Examples : Set(a, [at |-> "attribute", example |-> e, row |-> link[e]])
    BY <1>2 DEF ReadLink
  <2>2. [at |-> "attribute", example |-> e, row |-> link[e]] \in Call
    BY DEF TypeOK, Call
  <2> QED BY <1>2, <2>1, <2>2, SetType, BeginType DEF ReadLink, history, TypeOK
<1>3. CASE WriteLink(a)
  <2>1. call[a] \in [at : {"attribute"}, example : Examples, row : Attribution]
    BY <1>3, CallShape DEF WriteLink, TypeOK
  <2>2. PICK given \in Label \cup {""}, x \in Expected \cup {None}, detection \in BOOLEAN :
          link' = [link EXCEPT ![call[a].example] = Attributed(call[a].row, given, x, detection)]
    BY <1>3 DEF WriteLink
  <2>3. Attributed(call[a].row, given, x, detection) \in Attribution
    BY <2>1, AttributedType
  <2>4. judged' \subseteq Fixture
    BY <1>3 DEF WriteLink, TypeOK, Said
  <2> QED BY <1>3, <2>2, <2>3, <2>4, IdleType, SetType DEF WriteLink, TypeOK
<1> QED BY <1>1, <1>2, <1>3

LEMMA FixtureTypes ==
  ASSUME TypeOK, NEW a \in Agents,
         ListFeedback(a) \/ CheckFixture(a) \/ CreateFixture(a) \/ CreateManual(a)
  PROVE  TypeOK'
<1>1. CASE ListFeedback(a)
  <2>1. Asked \in SUBSET Fixture
    BY FromFeedbackType DEF Asked
  <2>2. [at |-> "fixtures", todo |-> Asked] \in Call
    BY <2>1 DEF Call
  <2> QED BY <1>1, <2>2, SetType, BeginType DEF ListFeedback, history, TypeOK
<1>2. CASE CheckFixture(a)
  <2>1. call[a] \in [at : {"fixtures"}, todo : SUBSET Fixture]
    BY <1>2, CallShape DEF CheckFixture, TypeOK
  <2>2. call' \in [Agents -> Call]
    <3>1. CASE call[a].todo = {}
      BY <1>2, <3>1, IdleType, SetType DEF CheckFixture
    <3>2. CASE call[a].todo # {}
      <4>1. PICK f \in call[a].todo :
              IF Made(f.example) THEN Set(a, [at |-> "fixtures", todo |-> call[a].todo \ {f}])
              ELSE Set(a, [at |-> "create", todo |-> call[a].todo \ {f}, new |-> f])
        BY <1>2, <3>2 DEF CheckFixture
      <4>2. [at |-> "fixtures", todo |-> call[a].todo \ {f}] \in Call
        BY <2>1 DEF Call
      <4>3. [at |-> "create", todo |-> call[a].todo \ {f}, new |-> f] \in Call
        BY <2>1 DEF Call
      <4> QED BY <4>1, <4>2, <4>3, SetType
    <3> QED BY <3>1, <3>2
  <2> QED BY <1>2, <2>2 DEF CheckFixture, history, TypeOK
<1>3. CASE CreateFixture(a)
  <2>1. call[a] \in [at : {"create"}, todo : SUBSET Fixture, new : Fixture]
    BY <1>3, CallShape DEF CreateFixture, TypeOK
  <2>2. [at |-> "fixtures", todo |-> call[a].todo] \in Call
    BY <2>1 DEF Call
  <2> QED BY <1>3, <2>1, <2>2, SetType DEF CreateFixture, history, TypeOK
<1>4. CASE CreateManual(a)
  BY <1>4, BeginType DEF CreateManual, history, TypeOK, Fixture, Source
<1> QED BY <1>1, <1>2, <1>3, <1>4

\* A call that is checked goes on or ends.
LEMMA CheckTypes ==
  ASSUME TypeOK, NEW a \in Agents, ReplaySuite(a) \/ CheckCoverage(a) \/ LiveTest(a)
  PROVE  TypeOK'
<1>1. call[a] \in [at : {"replay", "coverage", "live", "archive"}, code : Codes,
                   stage : Stages \cup {None}, known : SUBSET Fixture, replayed : BOOLEAN]
  BY CallShape DEF ReplaySuite, CheckCoverage, LiveTest, TypeOK
<1>2. \A at \in {"coverage", "live", "archive"} : [call[a] EXCEPT !.at = at] \in Call
  BY <1>1 DEF Call, CodeCall
<1>3. call' \in [Agents -> Call]
  BY <1>2, IdleType, SetType DEF ReplaySuite, CheckCoverage, LiveTest
<1> QED BY <1>3 DEF ReplaySuite, CheckCoverage, LiveTest, history, TypeOK

LEMMA CodeTypes ==
  ASSUME TypeOK, NEW a \in Agents,
         UpdateCode(a) \/ Rollback(a) \/ Archive(a) \/ Write(a) \/ UpdateStage(a)
  PROVE  TypeOK'
<1>1. CASE UpdateCode(a)
  <2>1. PICK code \in Codes, replay \in BOOLEAN :
          Set(a, [at |-> IF replay THEN "replay" ELSE "archive", code |-> code, stage |-> None,
                  known |-> IF replay THEN fixtures ELSE {}, replayed |-> replay])
    BY <1>1 DEF UpdateCode
  <2>2. [at |-> IF replay THEN "replay" ELSE "archive", code |-> code, stage |-> None,
         known |-> IF replay THEN fixtures ELSE {}, replayed |-> replay] \in Call
    BY DEF Call, CodeCall, TypeOK
  <2> QED BY <1>1, <2>1, <2>2, SetType, BeginType DEF UpdateCode, history, TypeOK
<1>2. CASE Rollback(a)
  <2>1. PICK code \in Codes :
          Set(a, [at |-> "archive", code |-> code, stage |-> versions[code], known |-> {},
                  replayed |-> FALSE])
    BY <1>2 DEF Rollback
  <2>2. [at |-> "archive", code |-> code, stage |-> versions[code], known |-> {},
         replayed |-> FALSE] \in Call
    BY DEF Call, CodeCall, TypeOK
  <2> QED BY <1>2, <2>1, <2>2, SetType, BeginType DEF Rollback, history, TypeOK
<1>3. CASE Archive(a)
  <2>1. call[a] \in [at : {"replay", "coverage", "live", "archive"}, code : Codes,
                     stage : Stages \cup {None}, known : SUBSET Fixture, replayed : BOOLEAN]
    BY <1>3, CallShape DEF Archive, TypeOK
  <2>2. [at |-> "write", code |-> call[a].code, stage |-> call[a].stage,
         known |-> call[a].known, replayed |-> call[a].replayed, old |-> rule] \in Call
    BY <2>1 DEF Call, CodeCall, TypeOK
  <2> QED BY <1>3, <2>2, SetType DEF Archive, history, TypeOK
<1>4. CASE Write(a)
  <2>1. call[a] \in [at : {"write"}, code : Codes, stage : Stages \cup {None},
                     known : SUBSET Fixture, replayed : BOOLEAN, old : Live]
    BY <1>4, CallShape DEF Write, TypeOK
  <2>2. rule' \in Live
    BY <1>4, <2>1 DEF Write, TypeOK, Live
  <2>3. versions' \in [Codes -> Stages \cup {None}]
    BY <1>4, <2>1 DEF Write, TypeOK, Archived, Live
  <2>4. lived' \subseteq Live /\ gated' \subseteq [code : Codes, known : SUBSET Fixture]
    BY <1>4, <2>1, <2>2 DEF Write, TypeOK
  <2>5. lost' \subseteq Codes
    BY <1>4 DEF Write, TypeOK, Live
  <2> QED BY <1>4, <2>2, <2>3, <2>4, <2>5, IdleType, SetType DEF Write, TypeOK
<1>5. CASE UpdateStage(a)
  <2>1. rule' \in Live
    BY <1>5 DEF UpdateStage, TypeOK, Live
  <2> QED BY <1>5, <2>1, BeginType DEF UpdateStage, TypeOK
<1> QED BY <1>1, <1>2, <1>3, <1>4, <1>5

LEMMA TypeStep == TypeOK /\ [Next]_vars => TypeOK'
<1>1. TypeOK /\ UNCHANGED vars => TypeOK'
  BY DEF vars, TypeOK
<1> QED BY <1>1, LabelTypes, FixtureTypes, CheckTypes, CodeTypes DEF Next

\* Every variable keeps its type, for all constants: the row of a call has the columns its next
\* statement reads.
THEOREM TypeCorrect == Spec => []TypeOK
<1> QED BY TypeInit, TypeStep, PTL DEF Spec

-----------------------------------------------------------------------------
(* What gates a rule was said of it.                                        *)

\* What a call still has to make, or makes next, was said before.
CarriesJudged(c, J) ==
  /\ c.at \in {"fixtures", "create"} => c.todo \subseteq J
  /\ c.at = "create" => c.new \in J

JudgedInv ==
  /\ Said \subseteq judged
  /\ \A a \in Agents : CarriesJudged(call[a], judged)
  /\ FixturesJudged

\* What is listed for the replay is what the rows say now.
LEMMA AskedIsSaid ==
  ASSUME TypeOK
  PROVE  Asked \subseteq Said
<1> SUFFICES ASSUME NEW e \in ForReplay PROVE FromFeedback(e, link[e]) \in Said
  BY DEF Asked
<1> DEFINE f == FromFeedback(e, link[e])
<1>1. f \in Fixture
  BY FromFeedbackType
<1>2. link[f.example] = link[e] /\ link[e] \in Attribution /\ e \in Examples
  BY DEF FromFeedback, TypeOK, ForReplay
<1>3. f.source = IF link[e].label = "negative" THEN "rma_bad_feedback" ELSE "confirmed_counterexample"
  BY DEF ForReplay, FromFeedback
<1>4. f.expected = IF link[e].expected = "" THEN ExpectedOf(link[e].label) ELSE link[e].expected
  BY DEF FromFeedback
<1> QED BY <1>1, <1>2, <1>3, <1>4 DEF ForReplay, Said

\* The other calls keep what they carry, and nothing that was said is forgotten.
LEMMA SetJudged ==
  ASSUME TypeOK, JudgedInv, NEW a \in Agents, NEW c, CarriesJudged(c, judged), Set(a, c),
         judged \subseteq judged'
  PROVE  \A b \in Agents : CarriesJudged(call'[b], judged')
BY DEF TypeOK, JudgedInv, Set, CarriesJudged

LEMMA IdleJudged == \A J : CarriesJudged(Idle, J)
BY DEF CarriesJudged, Idle

LEMMA LabelJudged ==
  ASSUME TypeOK, JudgedInv, NEW a \in Agents, InsertLink(a) \/ ReadLink(a) \/ WriteLink(a)
  PROVE  JudgedInv'
<1>1. CASE InsertLink(a)
  <2>1. judged' = judged \cup Said' /\ UNCHANGED <<call, fixtures>>
    BY <1>1 DEF InsertLink
  <2>2. \A b \in Agents : CarriesJudged(call'[b], judged')
    BY <2>1 DEF JudgedInv, CarriesJudged
  <2> QED BY <2>1, <2>2 DEF JudgedInv, FixturesJudged
<1>2. CASE ReadLink(a)
  <2>1. PICK e \in Examples : Set(a, [at |-> "attribute", example |-> e, row |-> link[e]])
    BY <1>2 DEF ReadLink
  <2>2. \A b \in Agents : CarriesJudged(call'[b], judged')
    BY <1>2, <2>1, SetJudged DEF ReadLink, history, CarriesJudged
  <2> QED BY <1>2, <2>2 DEF ReadLink, history, JudgedInv, FixturesJudged, Said
<1>3. CASE WriteLink(a)
  <2>1. judged' = judged \cup Said' /\ UNCHANGED fixtures
    BY <1>3 DEF WriteLink
  <2>2. \A b \in Agents : CarriesJudged(call'[b], judged')
    BY <1>3, <2>1, IdleJudged, SetJudged DEF WriteLink
  <2> QED BY <2>1, <2>2 DEF JudgedInv, FixturesJudged
<1> QED BY <1>1, <1>2, <1>3

LEMMA FixtureJudged ==
  ASSUME TypeOK, JudgedInv, NEW a \in Agents,
         ListFeedback(a) \/ CheckFixture(a) \/ CreateFixture(a) \/ CreateManual(a)
  PROVE  JudgedInv'
<1>1. UNCHANGED <<link, judged>>
  BY DEF ListFeedback, CheckFixture, CreateFixture, CreateManual, history
<1>2. Said' \subseteq judged'
  BY <1>1 DEF Said, JudgedInv
<1>3. CASE ListFeedback(a)
  <2>1. CarriesJudged([at |-> "fixtures", todo |-> Asked], judged)
    BY AskedIsSaid DEF CarriesJudged, JudgedInv
  <2>2. \A b \in Agents : CarriesJudged(call'[b], judged')
    BY <1>1, <1>3, <2>1, SetJudged DEF ListFeedback
  <2> QED BY <1>1, <1>2, <1>3, <2>2 DEF ListFeedback, JudgedInv, FixturesJudged
<1>4. CASE CheckFixture(a)
  <2>1. call[a] \in [at : {"fixtures"}, todo : SUBSET Fixture]
    BY <1>4, CallShape DEF CheckFixture, TypeOK
  <2>2. call[a].todo \subseteq judged
    BY <1>4 DEF CheckFixture, JudgedInv, CarriesJudged
  <2>3. \A b \in Agents : CarriesJudged(call'[b], judged')
    <3>1. CASE call[a].todo = {}
      BY <1>1, <1>4, <3>1, IdleJudged, SetJudged DEF CheckFixture
    <3>2. CASE call[a].todo # {}
      <4>1. PICK f \in call[a].todo :
              IF Made(f.example) THEN Set(a, [at |-> "fixtures", todo |-> call[a].todo \ {f}])
              ELSE Set(a, [at |-> "create", todo |-> call[a].todo \ {f}, new |-> f])
        BY <1>4, <3>2 DEF CheckFixture
      <4>2. CarriesJudged([at |-> "fixtures", todo |-> call[a].todo \ {f}], judged)
        BY <2>2 DEF CarriesJudged
      <4>3. CarriesJudged([at |-> "create", todo |-> call[a].todo \ {f}, new |-> f], judged)
        BY <2>2 DEF CarriesJudged
      <4> QED BY <1>1, <4>1, <4>2, <4>3, SetJudged
    <3> QED BY <3>1, <3>2
  <2> QED BY <1>1, <1>2, <1>4, <2>3 DEF CheckFixture, JudgedInv, FixturesJudged
<1>5. CASE CreateFixture(a)
  <2>1. call[a].new \in judged /\ call[a].todo \subseteq judged
    BY <1>5 DEF CreateFixture, JudgedInv, CarriesJudged
  <2>2. CarriesJudged([at |-> "fixtures", todo |-> call[a].todo], judged)
    BY <2>1 DEF CarriesJudged
  <2>3. \A b \in Agents : CarriesJudged(call'[b], judged')
    BY <1>1, <1>5, <2>2, SetJudged DEF CreateFixture
  <2>4. FixturesJudged'
    BY <1>1, <1>5, <2>1 DEF CreateFixture, JudgedInv, FixturesJudged
  <2> QED BY <1>2, <2>3, <2>4 DEF JudgedInv
<1>6. CASE CreateManual(a)
  <2>1. PICK e \in Examples, x \in {"fire", "quiet"} :
          fixtures' = fixtures \cup {[example |-> e, expected |-> x, source |-> "manual_counterexample"]}
    BY <1>6 DEF CreateManual
  <2> QED BY <1>1, <1>2, <1>6, <2>1 DEF CreateManual, JudgedInv, FixturesJudged
<1> QED BY <1>3, <1>4, <1>5, <1>6

\* A call about code carries nothing that was said.
LEMMA CodeJudged ==
  ASSUME TypeOK, JudgedInv, NEW a \in Agents,
         \/ ReplaySuite(a) \/ CheckCoverage(a) \/ LiveTest(a)
         \/ UpdateCode(a) \/ Rollback(a) \/ Archive(a) \/ Write(a) \/ UpdateStage(a)
  PROVE  JudgedInv'
<1>1. UNCHANGED <<link, fixtures, judged>>
  BY DEF ReplaySuite, CheckCoverage, LiveTest, UpdateCode, Rollback, Archive, Write, UpdateStage,
         history
<1>2. SUFFICES \A b \in Agents : CarriesJudged(call'[b], judged')
  BY <1>1 DEF JudgedInv, Said, FixturesJudged
<1>4. CASE ReplaySuite(a) \/ CheckCoverage(a) \/ LiveTest(a)
  <2>1. call[a] \in [at : {"replay", "coverage", "live", "archive"}, code : Codes,
                     stage : Stages \cup {None}, known : SUBSET Fixture, replayed : BOOLEAN]
    BY <1>4, CallShape DEF ReplaySuite, CheckCoverage, LiveTest, TypeOK
  <2>2. \A at \in {"coverage", "live", "archive"} : [call[a] EXCEPT !.at = at].at = at
    BY <2>1
  <2>3. \A at \in {"coverage", "live", "archive"} :
          CarriesJudged([call[a] EXCEPT !.at = at], judged)
    BY <2>2 DEF CarriesJudged
  <2> QED BY <1>1, <1>4, <2>3, IdleJudged, SetJudged DEF ReplaySuite, CheckCoverage, LiveTest
<1>5. CASE UpdateCode(a)
  <2>1. PICK code \in Codes, replay \in BOOLEAN :
          Set(a, [at |-> IF replay THEN "replay" ELSE "archive", code |-> code, stage |-> None,
                  known |-> IF replay THEN fixtures ELSE {}, replayed |-> replay])
    BY <1>5 DEF UpdateCode
  <2>2. CarriesJudged([at |-> IF replay THEN "replay" ELSE "archive", code |-> code, stage |-> None,
                       known |-> IF replay THEN fixtures ELSE {}, replayed |-> replay], judged)
    BY DEF CarriesJudged
  <2> QED BY <1>1, <2>1, <2>2, SetJudged
<1>6. CASE Rollback(a)
  <2>1. PICK code \in Codes :
          Set(a, [at |-> "archive", code |-> code, stage |-> versions[code], known |-> {},
                  replayed |-> FALSE])
    BY <1>6 DEF Rollback
  <2>2. CarriesJudged([at |-> "archive", code |-> code, stage |-> versions[code], known |-> {},
                       replayed |-> FALSE], judged)
    BY DEF CarriesJudged
  <2> QED BY <1>1, <2>1, <2>2, SetJudged
<1>7. CASE Archive(a)
  <2>1. CarriesJudged([at |-> "write", code |-> call[a].code, stage |-> call[a].stage,
                       known |-> call[a].known, replayed |-> call[a].replayed, old |-> rule], judged)
    BY DEF CarriesJudged
  <2> QED BY <1>1, <1>7, <2>1, SetJudged DEF Archive
<1>8. CASE Write(a)
  BY <1>1, <1>8, IdleJudged, SetJudged DEF Write
<1>9. CASE UpdateStage(a)
  BY <1>1, <1>9 DEF UpdateStage, JudgedInv
<1> QED BY <1>4, <1>5, <1>6, <1>7, <1>8, <1>9

\* A fixture of the feedback is what one row said of its example while the repair was attributed
\* to the detection, however many sessions match, correct and attribute it meanwhile.
THEOREM FixturesWereSaid == Spec => []FixturesJudged
<1>1. Init => JudgedInv
  <2> SUFFICES ASSUME Init PROVE JudgedInv
    OBVIOUS
  <2>1. \A e \in Examples : ~link[e].detection
    BY DEF Init, NoLink
  <2>2. Said = {}
    BY <2>1 DEF Said, Fixture
  <2> QED BY <2>2, IdleJudged DEF Init, JudgedInv, FixturesJudged
<1>2. TypeOK /\ JudgedInv /\ [Next]_vars => JudgedInv'
  <2>1. JudgedInv /\ UNCHANGED vars => JudgedInv'
    BY DEF vars, JudgedInv, FixturesJudged, Said
  <2> QED BY <2>1, LabelJudged, FixtureJudged, CodeJudged DEF Next
<1>3. JudgedInv => FixturesJudged
  BY DEF JudgedInv
<1> QED BY <1>1, <1>2, <1>3, TypeCorrect, PTL DEF Spec

-----------------------------------------------------------------------------
(* What was live can be brought back.                                      *)

Writing(a) == call[a].at = "write"

\* What a call archived was live, and so is what is live now.
VersionInv ==
  /\ rule \in lived
  /\ \A a \in Agents : Writing(a) => call[a].old \in lived
  /\ VersionsLived /\ Restorable

\* A step that changes neither code nor versions, and lets no call write.
LEMMA QuietVersions ==
  ASSUME VersionInv, UNCHANGED <<rule, versions, lived, lost>>,
         \A a \in Agents : Writing(a)' => call'[a] = call[a]
  PROVE  VersionInv'
BY DEF VersionInv, Writing, VersionsLived, Restorable

\* A call that goes on with c, which does not write.
LEMMA SetVersions ==
  ASSUME TypeOK, VersionInv, NEW a \in Agents, NEW c, c.at # "write", Set(a, c),
         UNCHANGED <<rule, versions, lived, lost>>
  PROVE  VersionInv'
BY QuietVersions DEF TypeOK, Set, Writing

LEMMA LabelVersions ==
  ASSUME TypeOK, VersionInv, NEW a \in Agents,
         \/ InsertLink(a) \/ ReadLink(a) \/ WriteLink(a)
         \/ ListFeedback(a) \/ CheckFixture(a) \/ CreateFixture(a) \/ CreateManual(a)
  PROVE  VersionInv'
<1>1. CASE InsertLink(a) \/ CreateManual(a)
  BY <1>1, QuietVersions DEF InsertLink, CreateManual, history
<1>2. CASE ReadLink(a)
  <2>1. PICK e \in Examples : Set(a, [at |-> "attribute", example |-> e, row |-> link[e]])
    BY <1>2 DEF ReadLink
  <2> QED BY <1>2, <2>1, SetVersions DEF ReadLink, history
<1>3. CASE WriteLink(a)
  BY <1>3, SetVersions DEF WriteLink, history, Idle
<1>4. CASE ListFeedback(a)
  BY <1>4, SetVersions DEF ListFeedback, history
<1>5. CASE CheckFixture(a)
  <2>1. CASE call[a].todo = {}
    BY <1>5, <2>1, SetVersions DEF CheckFixture, history, Idle
  <2>2. CASE call[a].todo # {}
    <3>1. PICK f \in call[a].todo :
            IF Made(f.example) THEN Set(a, [at |-> "fixtures", todo |-> call[a].todo \ {f}])
            ELSE Set(a, [at |-> "create", todo |-> call[a].todo \ {f}, new |-> f])
      BY <1>5, <2>2 DEF CheckFixture
    <3>2. UNCHANGED <<rule, versions, lived, lost>>
      BY <1>5 DEF CheckFixture, history
    <3> QED BY <3>1, <3>2, SetVersions
  <2> QED BY <2>1, <2>2
<1>6. CASE CreateFixture(a)
  BY <1>6, SetVersions DEF CreateFixture, history
<1> QED BY <1>1, <1>2, <1>3, <1>4, <1>5, <1>6

LEMMA CheckVersions ==
  ASSUME TypeOK, VersionInv, NEW a \in Agents,
         ReplaySuite(a) \/ CheckCoverage(a) \/ LiveTest(a) \/ UpdateCode(a) \/ Rollback(a)
  PROVE  VersionInv'
<1>1. CASE ReplaySuite(a) \/ CheckCoverage(a) \/ LiveTest(a)
  <2>1. call[a] \in [at : {"replay", "coverage", "live", "archive"}, code : Codes,
                     stage : Stages \cup {None}, known : SUBSET Fixture, replayed : BOOLEAN]
    BY <1>1, CallShape DEF ReplaySuite, CheckCoverage, LiveTest, TypeOK
  <2>2. \A at \in {"coverage", "live", "archive"} : [call[a] EXCEPT !.at = at].at # "write"
    BY <2>1
  <2>3. Idle.at # "write"
    BY DEF Idle
  <2> QED BY <1>1, <2>2, <2>3, SetVersions DEF ReplaySuite, CheckCoverage, LiveTest, history
<1>2. CASE UpdateCode(a)
  <2>1. PICK code \in Codes, replay \in BOOLEAN :
          Set(a, [at |-> IF replay THEN "replay" ELSE "archive", code |-> code, stage |-> None,
                  known |-> IF replay THEN fixtures ELSE {}, replayed |-> replay])
    BY <1>2 DEF UpdateCode
  <2> QED BY <1>2, <2>1, SetVersions DEF UpdateCode, history
<1>3. CASE Rollback(a)
  <2>1. PICK code \in Codes :
          Set(a, [at |-> "archive", code |-> code, stage |-> versions[code], known |-> {},
                  replayed |-> FALSE])
    BY <1>3 DEF Rollback
  <2> QED BY <1>3, <2>1, SetVersions DEF Rollback, history
<1> QED BY <1>1, <1>2, <1>3

LEMMA ArchiveVersions ==
  ASSUME TypeOK, VersionInv, NEW a \in Agents, Archive(a)
  PROVE  VersionInv'
<1>1. call'[a].old = rule
  BY DEF Archive, Set, TypeOK
<1>2. \A b \in Agents : Writing(b)' => call'[b].old \in lived
  BY <1>1 DEF Archive, Set, TypeOK, VersionInv, Writing
<1> QED BY <1>2 DEF Archive, history, VersionInv, VersionsLived, Restorable

\* The write: what it archives lived; what it overwrites was archived, by it or before, or is
\* lost to a call that came in between.
LEMMA WriteVersions ==
  ASSUME TypeOK, VersionInv, NEW a \in Agents, Write(a)
  PROVE  VersionInv'
<1> DEFINE old == call[a].old
<1>1. call[a] \in [at : {"write"}, code : Codes, stage : Stages \cup {None},
                   known : SUBSET Fixture, replayed : BOOLEAN, old : Live]
  BY CallShape DEF Write, TypeOK
<1>2. old \in lived /\ old \in Live
  BY <1>1 DEF Write, VersionInv, Writing
<1>3. versions' = [versions EXCEPT ![old.code] = IF @ = None THEN old.stage ELSE @]
  BY DEF Write, Archived
<1>4. old = [code |-> old.code, stage |-> old.stage] /\ old.stage # None
  BY <1>2 DEF Live, None
<1>5. VersionsLived'
  BY <1>2, <1>3, <1>4 DEF Write, VersionInv, VersionsLived, TypeOK
<1>6. \A c \in Codes : c = old.code \/ versions[c] # None => versions'[c] # None
  BY <1>3, <1>4 DEF TypeOK
<1>7. lived' = lived \cup {rule'} /\ lived \subseteq Live
  BY DEF Write, TypeOK
<1>8. \A l \in lived : versions'[l.code] # None \/ l.code \in lost'
  <2> SUFFICES ASSUME NEW l \in lived PROVE versions'[l.code] # None \/ l.code \in lost'
    OBVIOUS
  <2>1. l.code \in Codes
    BY <1>7 DEF Live
  <2>2. CASE l.code = rule.code /\ old.code = rule.code
    BY <1>6, <2>1, <2>2
  <2>3. CASE l.code = rule.code /\ old.code # rule.code
    BY <2>3 DEF Write
  <2>4. CASE l.code # rule.code
    BY <1>6, <2>1, <2>4 DEF VersionInv, Restorable, Write
  <2> QED BY <2>2, <2>3, <2>4
<1>9. Restorable'
  BY <1>7, <1>8 DEF Restorable
<1>10. \A b \in Agents : Writing(b)' => call'[b].old \in lived'
  BY <1>7 DEF Write, Set, TypeOK, VersionInv, Writing, Idle
<1> QED BY <1>5, <1>7, <1>9, <1>10 DEF VersionInv

LEMMA StageVersions ==
  ASSUME TypeOK, VersionInv, NEW a \in Agents, UpdateStage(a)
  PROVE  VersionInv'
<1>1. rule'.code = rule.code /\ lived' = lived \cup {rule'}
  BY DEF UpdateStage, TypeOK, Live
<1>2. UNCHANGED <<versions, call, lost>>
  BY DEF UpdateStage
<1> QED BY <1>1, <1>2 DEF VersionInv, Writing, VersionsLived, Restorable

\* Code that was live is never gone without trace: it is live, archived, or was overwritten by a
\* call that had archived something else.  And what rollback brings back once ran.
THEOREM CodeRestorable == Spec => [](Restorable /\ VersionsLived)
<1>1. Init => VersionInv
  BY DEF Init, VersionInv, Writing, VersionsLived, Restorable, Idle
<1>2. TypeOK /\ VersionInv /\ [Next]_vars => VersionInv'
  <2>1. VersionInv /\ UNCHANGED vars => VersionInv'
    BY DEF vars, VersionInv, Writing, VersionsLived, Restorable
  <2> QED BY <2>1, LabelVersions, CheckVersions, ArchiveVersions, WriteVersions, StageVersions
          DEF Next
<1>3. VersionInv => Restorable /\ VersionsLived
  BY DEF VersionInv
<1> QED BY <1>1, <1>2, <1>3, TypeCorrect, PTL DEF Spec

-----------------------------------------------------------------------------
(* The gate.                                                               *)

\* How far a call was checked: what it knew are fixtures, its code passes them from the replay
\* on, and there is one of each kind from the check of the coverage on.
Checked(c) ==
  /\ c.at = "replay" => c.known \subseteq fixtures
  /\ c.at \in {"coverage", "live", "archive", "write"} /\ c.replayed => Passes(c.code, c.known)
  /\ c.at \in {"live", "archive", "write"} /\ c.replayed => Covers(fixtures)

GateInv ==
  /\ \A a \in Agents : Checked(call[a])
  /\ GatedCodePasses

\* Fixtures are only added, which takes nothing away that was checked.
LEMMA GrowGate ==
  ASSUME GateInv, fixtures \subseteq fixtures', UNCHANGED <<call, gated>>
  PROVE  GateInv'
BY DEF GateInv, GatedCodePasses, Checked, Covers, Passes

\* A call that goes on with c.
LEMMA SetGate ==
  ASSUME TypeOK, GateInv, NEW a \in Agents, NEW c, Checked(c), Set(a, c),
         fixtures \subseteq fixtures', UNCHANGED gated
  PROVE  GateInv'
<1>1. \A b \in Agents : Checked(call'[b])
  BY DEF TypeOK, GateInv, Set
<1>2. \A b \in Agents : Checked(call[b])'
  BY <1>1 DEF Checked, Covers, Passes
<1>3. GatedCodePasses'
  BY DEF GateInv, GatedCodePasses, Covers, Passes
<1> QED BY <1>2, <1>3 DEF GateInv

\* A call that is not about code was not checked for anything.
LEMMA SetOtherGate ==
  ASSUME TypeOK, GateInv, NEW a \in Agents, NEW c,
         c.at \in {"idle", "attribute", "fixtures", "create"}, Set(a, c),
         fixtures \subseteq fixtures', UNCHANGED gated
  PROVE  GateInv'
BY SetGate DEF Checked

LEMMA LabelGate ==
  ASSUME TypeOK, GateInv, NEW a \in Agents,
         \/ InsertLink(a) \/ ReadLink(a) \/ WriteLink(a)
         \/ ListFeedback(a) \/ CheckFixture(a) \/ CreateFixture(a) \/ CreateManual(a)
  PROVE  GateInv'
<1>1. CASE InsertLink(a) \/ CreateManual(a)
  BY <1>1, GrowGate DEF InsertLink, CreateManual, history
<1>2. CASE ReadLink(a)
  <2>1. PICK e \in Examples : Set(a, [at |-> "attribute", example |-> e, row |-> link[e]])
    BY <1>2 DEF ReadLink
  <2> QED BY <1>2, <2>1, SetOtherGate DEF ReadLink, history
<1>3. CASE WriteLink(a)
  <2>1. Set(a, Idle) /\ UNCHANGED <<fixtures, gated>>
    BY <1>3 DEF WriteLink, history
  <2>2. Idle.at = "idle"
    BY DEF Idle
  <2> QED BY <2>1, <2>2, SetOtherGate
<1>4. CASE ListFeedback(a)
  BY <1>4, SetOtherGate DEF ListFeedback, history
<1>5. CASE CheckFixture(a)
  <2>1. CASE call[a].todo = {}
    BY <1>5, <2>1, SetOtherGate DEF CheckFixture, history, Idle
  <2>2. CASE call[a].todo # {}
    <3>1. PICK f \in call[a].todo :
            IF Made(f.example) THEN Set(a, [at |-> "fixtures", todo |-> call[a].todo \ {f}])
            ELSE Set(a, [at |-> "create", todo |-> call[a].todo \ {f}, new |-> f])
      BY <1>5, <2>2 DEF CheckFixture
    <3>2. UNCHANGED <<fixtures, gated>>
      BY <1>5 DEF CheckFixture, history
    <3> QED BY <3>1, <3>2, SetOtherGate
  <2> QED BY <2>1, <2>2
<1>6. CASE CreateFixture(a)
  BY <1>6, SetOtherGate DEF CreateFixture, history
<1> QED BY <1>1, <1>2, <1>3, <1>4, <1>5, <1>6

\* A call that begins knows the fixtures there are, or was promised nothing.
LEMMA BeginGate ==
  ASSUME TypeOK, GateInv, NEW a \in Agents, UpdateCode(a) \/ Rollback(a)
  PROVE  GateInv'
<1>1. CASE UpdateCode(a)
  <2>1. PICK code \in Codes, replay \in BOOLEAN :
          Set(a, [at |-> IF replay THEN "replay" ELSE "archive", code |-> code, stage |-> None,
                  known |-> IF replay THEN fixtures ELSE {}, replayed |-> replay])
    BY <1>1 DEF UpdateCode
  <2>2. Checked([at |-> IF replay THEN "replay" ELSE "archive", code |-> code, stage |-> None,
                 known |-> IF replay THEN fixtures ELSE {}, replayed |-> replay])
    BY DEF Checked
  <2> QED BY <1>1, <2>1, <2>2, SetGate DEF UpdateCode, history
<1>2. CASE Rollback(a)
  <2>1. PICK code \in Codes :
          Set(a, [at |-> "archive", code |-> code, stage |-> versions[code], known |-> {},
                  replayed |-> FALSE])
    BY <1>2 DEF Rollback
  <2>2. Checked([at |-> "archive", code |-> code, stage |-> versions[code], known |-> {},
                 replayed |-> FALSE])
    BY DEF Checked
  <2> QED BY <1>2, <2>1, <2>2, SetGate DEF Rollback, history
<1> QED BY <1>1, <1>2

\* Each check adds what it checked.
LEMMA CheckGate ==
  ASSUME TypeOK, GateInv, NEW a \in Agents, ReplaySuite(a) \/ CheckCoverage(a) \/ LiveTest(a)
  PROVE  GateInv'
<1> DEFINE c == call[a]
<1>1. c \in [at : {"replay", "coverage", "live", "archive"}, code : Codes,
             stage : Stages \cup {None}, known : SUBSET Fixture, replayed : BOOLEAN]
  BY CallShape DEF ReplaySuite, CheckCoverage, LiveTest, TypeOK
<1>2. Checked(c)
  BY DEF GateInv
<1>3. Checked(Idle)
  BY DEF Checked, Idle
<1>4. CASE ReplaySuite(a)
  <2>1. Replays(c) => Checked([c EXCEPT !.at = "coverage"])
    <3> SUFFICES ASSUME Replays(c) PROVE Checked([c EXCEPT !.at = "coverage"])
      OBVIOUS
    <3>1. Passes(c.code, c.known)
      BY <1>2, <1>4 DEF ReplaySuite, Checked, Replays, Passes
    <3> QED BY <1>1, <3>1 DEF Checked
  <2> QED BY <1>3, <1>4, <2>1, SetGate DEF ReplaySuite, history
<1>5. CASE CheckCoverage(a)
  <2>1. Covers(fixtures) => Checked([c EXCEPT !.at = "live"])
    BY <1>1, <1>2, <1>5 DEF CheckCoverage, Checked
  <2> QED BY <1>3, <1>5, <2>1, SetGate DEF CheckCoverage, history
<1>6. CASE LiveTest(a)
  <2>1. Checked([c EXCEPT !.at = "archive"])
    BY <1>1, <1>2, <1>6 DEF LiveTest, Checked
  <2> QED BY <1>3, <1>6, <2>1, SetGate DEF LiveTest, history
<1> QED BY <1>4, <1>5, <1>6

\* What is written as a refinement was checked.
LEMMA WriteGate ==
  ASSUME TypeOK, GateInv, NEW a \in Agents, Archive(a) \/ Write(a) \/ UpdateStage(a)
  PROVE  GateInv'
<1> DEFINE c == call[a]
<1>1. Checked(c)
  BY DEF GateInv
<1>2. CASE Archive(a)
  <2>1. Checked([at |-> "write", code |-> c.code, stage |-> c.stage, known |-> c.known,
                 replayed |-> c.replayed, old |-> rule])
    BY <1>1, <1>2 DEF Archive, Checked
  <2> QED BY <1>2, <2>1, SetGate DEF Archive, history
<1>3. CASE Write(a)
  <2>1. \A b \in Agents : Checked(call'[b])
    BY <1>3 DEF Write, Set, TypeOK, GateInv, Checked, Idle
  <2>2. c.replayed => Passes(c.code, c.known) /\ Covers(fixtures)
    BY <1>1, <1>3 DEF Write, Checked
  <2>3. GatedCodePasses'
    BY <1>3, <2>2 DEF Write, GateInv, GatedCodePasses
  <2> QED BY <1>3, <2>1, <2>3 DEF Write, GateInv, Checked
<1>4. CASE UpdateStage(a)
  BY <1>4, GrowGate DEF UpdateStage
<1> QED BY <1>2, <1>3, <1>4

\* Nothing passes the gate but code that satisfies every fixture its call could know of and is
\* held to both kinds: fixtures are never taken away, so what was checked stays true to the write.
THEOREM GateHolds == Spec => []GatedCodePasses
<1>1. Init => GateInv
  BY DEF Init, GateInv, GatedCodePasses, Checked, Idle
<1>2. TypeOK /\ GateInv /\ [Next]_vars => GateInv'
  <2>1. GateInv /\ UNCHANGED vars => GateInv'
    BY DEF vars, GateInv, GatedCodePasses, Checked
  <2> QED BY <2>1, LabelGate, BeginGate, CheckGate, WriteGate DEF Next
<1>3. GateInv => GatedCodePasses
  BY DEF GateInv
<1> QED BY <1>1, <1>2, <1>3, TypeCorrect, PTL DEF Spec
=============================================================================
