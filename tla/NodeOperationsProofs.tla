------------------------ MODULE NodeOperationsProofs ------------------------
(***************************************************************************)
(* node-operations.  SkuSpec: what a report decides, whatever else is in   *)
(* it: at most one SKU of a family passes, so the order match tries them   *)
(* in does not matter; and the fuzzy match of the H200 family cannot name  *)
(* its last SKU.  NodePipeline: whatever the hardware, the failures and    *)
(* the order of the calls, the node keeps a login, a configuration goes    *)
(* in as a login there is, and only a configured node is allocated.        *)
(* Guardrails: an undisturbed test is the only one of its trip, failures    *)
(* recorded one at a time halt the calls, repeats are a cooldown apart, for *)
(* any number of sessions, in memory a restart forgets.                    *)
(***************************************************************************)
EXTENDS NodePipeline, Guardrails, FiniteSetTheorems, WellFoundedInduction, TLAPS

-----------------------------------------------------------------------------
(* The known configurations.                                               *)

\* What the disks and the memory of a SKU fix in a report that passes its check.
LEMMA CheckFixes ==
  ASSUME NEW info, NEW sku, Check(info, sku)
  PROVE  /\ DOMAIN info.nvme = DOMAIN sku.disks.nvme
         /\ \A i \in DOMAIN sku.disks.nvme : info.nvme[i].size = sku.disks.nvme[i].size
         /\ info.sd = sku.disks.sd
         /\ Len(info.mem.modules) = sku.mem.count
         /\ info.cpu = sku.cpu
  BY DEF Check, CheckDisks, CheckMem, Accepts

LEMMA H200Unique ==
  ASSUME NEW info, NEW i \in 1 .. 4, NEW j \in 1 .. 4,
         Check(info, H200SkuSpec.skus[i]), Check(info, H200SkuSpec.skus[j])
  PROVE  i = j
<1> DEFINE s(k) == H200SkuSpec.skus[k]
<1>1. /\ DOMAIN s(1).disks.nvme = 0 .. 17
      /\ DOMAIN s(2).disks.nvme = 0 .. 2
      /\ DOMAIN s(3).disks.nvme = 0 .. 4
      /\ DOMAIN s(4).disks.nvme = 0 .. 4
  BY DEF H200SkuSpec, Sku, Disks3t2And15t16, Disks3t2And15t1, Disks960g1And3t4, Disks
<1>2. s(3).mem.count = 16 /\ s(4).mem.count = 32
  BY DEF H200SkuSpec, Sku, Mem128g16, Mem64g32, Mem
<1>3. DOMAIN s(i).disks.nvme = DOMAIN s(j).disks.nvme
  BY CheckFixes
<1>4. s(i).mem.count = s(j).mem.count
  BY CheckFixes
<1>5. 0 .. 17 # 0 .. 2 /\ 0 .. 17 # 0 .. 4 /\ 0 .. 2 # 0 .. 4
  <2>1. 3 \in 0 .. 17 /\ 3 \notin 0 .. 2 /\ 3 \in 0 .. 4 /\ 5 \in 0 .. 17 /\ 5 \notin 0 .. 4
    OBVIOUS
  <2> QED BY <2>1
<1>6. i \in {1, 2, 3, 4} /\ j \in {1, 2, 3, 4}
  OBVIOUS
<1>7. ASSUME NEW k \in {1, 2}, NEW m \in 1 .. 4, DOMAIN s(k).disks.nvme = DOMAIN s(m).disks.nvme
      PROVE  k = m
  <2> HIDE DEF s
  <2>1. CASE k = 1
    BY <2>1, <1>1, <1>5, <1>7
  <2>2. CASE k = 2
    BY <2>2, <1>1, <1>5, <1>7
  <2> QED BY <2>1, <2>2
<1> HIDE DEF s
<1>8. CASE i \in {1, 2}
  BY <1>3, <1>7, <1>8
<1>9. CASE j \in {1, 2}
  BY <1>3, <1>7, <1>9
<1>10. CASE i \in {3, 4} /\ j \in {3, 4}
  BY <1>2, <1>4, <1>10
<1> QED
  BY <1>6, <1>8, <1>9, <1>10

LEMMA CtrlUnique ==
  ASSUME NEW info, NEW i \in 1 .. 3, NEW j \in 1 .. 3,
         Check(info, CtrlSkuSpec.skus[i]), Check(info, CtrlSkuSpec.skus[j])
  PROVE  i = j
<1> DEFINE s(k) == CtrlSkuSpec.skus[k]
<1>1. /\ DOMAIN s(1).disks.nvme = 0 .. 1
      /\ DOMAIN s(2).disks.nvme = 0 .. 3
      /\ DOMAIN s(3).disks.nvme = 0 .. 9
  BY DEF CtrlSkuSpec, Sku, Disks960g1And7t2, Disks960g2And7t2, Disks960g2And7t8, Disks, WithSda
<1>2. DOMAIN s(i).disks.nvme = DOMAIN s(j).disks.nvme
  BY CheckFixes
<1>3. 0 .. 1 # 0 .. 3 /\ 0 .. 1 # 0 .. 9 /\ 0 .. 3 # 0 .. 9
  <2>1. 2 \notin 0 .. 1 /\ 2 \in 0 .. 3 /\ 2 \in 0 .. 9 /\ 4 \notin 0 .. 3 /\ 4 \in 0 .. 9
    OBVIOUS
  <2> QED BY <2>1
<1>4. i \in {1, 2, 3} /\ j \in {1, 2, 3}
  OBVIOUS
<1> HIDE DEF s
<1> QED
  BY <1>1, <1>2, <1>3, <1>4

LEMMA StorageUnique ==
  ASSUME NEW info, NEW i \in 1 .. 4, NEW j \in 1 .. 4,
         Check(info, StorageSkuSpec.skus[i]), Check(info, StorageSkuSpec.skus[j])
  PROVE  i = j
<1> DEFINE s(k) == StorageSkuSpec.skus[k]
<1>1. /\ DOMAIN s(1).disks.nvme = 0 .. 7
      /\ DOMAIN s(2).disks.nvme = 0 .. 20 /\ s(2).disks.nvme[1].size = "3t"
      /\ DOMAIN s(3).disks.nvme = 0 .. 20 /\ s(3).disks.nvme[1].size = "15t"
      /\ DOMAIN s(4).disks.nvme = 0 .. 0
  <2>1. /\ s(1).disks = Disks480g1And7t8 /\ s(2).disks = Disks960g1And3t20
        /\ s(3).disks = Disks960g1And15t20 /\ s(4).disks = Disks960g1
    BY DEF StorageSkuSpec, Sku
  <2>2. DOMAIN Disks480g1And7t8.nvme = 0 .. 7
    BY DEF Disks480g1And7t8, WithSda
  <2>3. DOMAIN Disks960g1And3t20.nvme = 0 .. 20 /\ Disks960g1And3t20.nvme[1].size = "3t"
    BY DEF Disks960g1And3t20, Disks, Data3t, Place
  <2>4. DOMAIN Disks960g1And15t20.nvme = 0 .. 20 /\ Disks960g1And15t20.nvme[1].size = "15t"
    BY DEF Disks960g1And15t20, Disks, Place
  <2>5. DOMAIN Disks960g1.nvme = 0 .. 0
    BY DEF Disks960g1, Disks
  <2> HIDE DEF s
  <2> QED BY <2>1, <2>2, <2>3, <2>4, <2>5
<1>2. /\ DOMAIN s(i).disks.nvme = DOMAIN s(j).disks.nvme
      /\ \A d \in DOMAIN s(i).disks.nvme : s(i).disks.nvme[d].size = s(j).disks.nvme[d].size
  BY CheckFixes
<1>3. 0 .. 7 # 0 .. 20 /\ 0 .. 7 # 0 .. 0 /\ 0 .. 20 # 0 .. 0 /\ 1 \in 0 .. 20
  <2>1. 1 \in 0 .. 7 /\ 8 \notin 0 .. 7 /\ 8 \in 0 .. 20 /\ 1 \in 0 .. 20 /\ 1 \notin 0 .. 0
    OBVIOUS
  <2> QED BY <2>1
<1>4. i \in {1, 2, 3, 4} /\ j \in {1, 2, 3, 4}
  OBVIOUS
<1> HIDE DEF s
<1>5. CASE i \in {1, 4} \/ j \in {1, 4}
  BY <1>1, <1>2, <1>3, <1>4, <1>5
<1>6. CASE i \in {2, 3} /\ j \in {2, 3}
  BY <1>1, <1>2, <1>3, <1>6
<1> QED
  BY <1>4, <1>5, <1>6

Categories == {"h200", "b300", "ctrl", "cpu", "storage"}

LEMMA SpecTable ==
  /\ SpecOf("h200") = H200SkuSpec /\ DOMAIN H200SkuSpec.skus = 1 .. 4
  /\ SpecOf("ctrl") = CtrlSkuSpec /\ DOMAIN CtrlSkuSpec.skus = 1 .. 3
  /\ SpecOf("cpu") = CpuSkuSpec /\ DOMAIN CpuSkuSpec.skus = 1 .. 1
  /\ SpecOf("b300") = B300SkuSpec /\ DOMAIN B300SkuSpec.skus = 1 .. 1
  /\ SpecOf("storage") = StorageSkuSpec /\ DOMAIN StorageSkuSpec.skus = 1 .. 4
<1>1. DOMAIN H200SkuSpec.skus = 1 .. 4
  BY DEF H200SkuSpec
<1>2. DOMAIN CtrlSkuSpec.skus = 1 .. 3
  BY DEF CtrlSkuSpec
<1>3. DOMAIN CpuSkuSpec.skus = 1 .. 1
  BY DEF CpuSkuSpec
<1>4. DOMAIN B300SkuSpec.skus = 1 .. 1
  BY DEF B300SkuSpec
<1>5. DOMAIN StorageSkuSpec.skus = 1 .. 4
  BY DEF StorageSkuSpec
<1> QED
  BY <1>1, <1>2, <1>3, <1>4, <1>5 DEF SpecOf

\* Two SKUs of a category never both pass: each fixes the number, the names and the sizes of the
\* disks, and where these agree the number of memory modules (the checks of sku_spec.py are lists
\* of assertions; nothing there says that they exclude each other).
THEOREM SkuUnique ==
  \A info : \A c \in Categories : \A i, j \in DOMAIN SpecOf(c).skus :
    Check(info, SpecOf(c).skus[i]) /\ Check(info, SpecOf(c).skus[j]) => i = j
<1> SUFFICES ASSUME NEW info, NEW c \in Categories,
                    NEW i \in DOMAIN SpecOf(c).skus, NEW j \in DOMAIN SpecOf(c).skus,
                    Check(info, SpecOf(c).skus[i]), Check(info, SpecOf(c).skus[j])
             PROVE  i = j
  OBVIOUS
<1>1. CASE c = "h200"
  BY <1>1, SpecTable, H200Unique
<1>2. CASE c = "ctrl"
  BY <1>2, SpecTable, CtrlUnique
<1>3. CASE c = "storage"
  BY <1>3, SpecTable, StorageUnique
<1>4. CASE c \in {"cpu", "b300"}
  <2>1. i \in 1 .. 1 /\ j \in 1 .. 1
    BY <1>4, SpecTable
  <2> QED BY <2>1
<1> QED
  BY <1>1, <1>2, <1>3, <1>4 DEF Categories

\* So match answers the SKU that passes, whichever place it has in sku_list.
THEOREM MatchDecides ==
  \A info : \A c \in Categories : \A i \in DOMAIN SpecOf(c).skus :
    Check(info, SpecOf(c).skus[i]) => Match(info, SpecOf(c)) = SpecOf(c).skus[i].name
<1> SUFFICES ASSUME NEW info, NEW c \in Categories, NEW i \in DOMAIN SpecOf(c).skus,
                    Check(info, SpecOf(c).skus[i])
             PROVE  Match(info, SpecOf(c)) = SpecOf(c).skus[i].name
  OBVIOUS
<1> DEFINE passing == {k \in DOMAIN SpecOf(c).skus : Check(info, SpecOf(c).skus[k])}
<1>1. passing = {i}
  BY SkuUnique
<1>2. DOMAIN SpecOf(c).skus \subseteq Int
  BY SpecTable DEF Categories
<1>3. First({i}) = i
  BY <1>2 DEF First
<1> QED
  BY <1>1, <1>3 DEF Match

\* _fuzz_match_with_mem_disk of H200SkuSpec has a row for three of its four SKUs: whatever the report, the last
\* is not the one it names.
THEOREM LastH200NeverNamed == \A info : FuzzyMatch(info, H200SkuSpec) # 4
<1> SUFFICES ASSUME NEW info PROVE FuzzyMatch(info, H200SkuSpec) # 4
  OBVIOUS
<1> DEFINE d(i) == Distance(info, H200SkuSpec, i)
           S == {i \in 1 .. 4 : \A j \in 1 .. 4 : d(i) <= d(j)}
<1>1. FuzzyMatch(info, H200SkuSpec) = First(S)
  BY SpecTable DEF FuzzyMatch
<1>2. DOMAIN H200SkuSpec.fuzzy = 1 .. 3
  BY DEF H200SkuSpec
<1>3. d(4) = 2 /\ \A i \in 1 .. 4 : d(i) \in 0 .. 2
  BY <1>2 DEF Distance
<1> HIDE DEF d
<1>4. 4 \in S => 1 \in S
  BY <1>3
<1>5. S # {}
  <2>1. \/ \E i \in 1 .. 4 : d(i) = 0
        \/ (\A i \in 1 .. 4 : d(i) >= 1) /\ \E i \in 1 .. 4 : d(i) = 1
        \/ \A i \in 1 .. 4 : d(i) = 2
    BY <1>3
  <2> QED BY <2>1, <1>3
<1> HIDE DEF S
<1>6. ASSUME S \subseteq 1 .. 4 PROVE \E i \in S : \A j \in S : i <= j
  <2>1. S \subseteq {1, 2, 3, 4}
    BY <1>6
  <2>2. CASE 1 \in S
    BY <2>1, <2>2
  <2>3. CASE 1 \notin S /\ 2 \in S
    BY <2>1, <2>3
  <2>4. CASE 1 \notin S /\ 2 \notin S /\ 3 \in S
    BY <2>1, <2>4
  <2>5. CASE 1 \notin S /\ 2 \notin S /\ 3 \notin S
    <3>1. \A k \in S : k = 4
      BY <2>1, <2>5
    <3> QED BY <3>1, <1>5
  <2> QED BY <2>2, <2>3, <2>4, <2>5
<1>7. S \subseteq 1 .. 4
  BY DEF S
<1>8. First(S) \in S /\ \A j \in S : First(S) <= j
  BY <1>6, <1>7 DEF First
<1> QED
  BY <1>1, <1>4, <1>7, <1>8

-----------------------------------------------------------------------------
(* Plans: sequences of steps.                                              *)

Item == [run : StepNames, user : Logins]

\* What is run in a plan.
RunsOf(p) == {p[i].run : i \in DOMAIN p}
NamesOf(names) == {names[i] : i \in DOMAIN names}

LEMMA RunsOfJoined ==
  ASSUME NEW p \in Seq(Item), NEW q \in Seq(Item)
  PROVE  p \o q \in Seq(Item) /\ RunsOf(p \o q) = RunsOf(p) \cup RunsOf(q)
<1>1. p \o q \in Seq(Item) /\ Len(p \o q) = Len(p) + Len(q)
  OBVIOUS
<1>2. \A i \in 1 .. Len(p) : (p \o q)[i] = p[i]
  OBVIOUS
<1>3. \A i \in 1 .. Len(q) : (p \o q)[Len(p) + i] = q[i]
  OBVIOUS
<1>4. RunsOf(p \o q) \subseteq RunsOf(p) \cup RunsOf(q)
  <2> SUFFICES ASSUME NEW i \in 1 .. Len(p \o q) PROVE (p \o q)[i].run \in RunsOf(p) \cup RunsOf(q)
    BY <1>1 DEF RunsOf
  <2>1. CASE i <= Len(p)
    <3>1. i \in DOMAIN p /\ (p \o q)[i] = p[i]
      BY <2>1
    <3> QED BY <3>1 DEF RunsOf
  <2>2. CASE i > Len(p)
    <3>1. i - Len(p) \in DOMAIN q /\ (p \o q)[i] = q[i - Len(p)]
      BY <2>2
    <3> QED BY <3>1 DEF RunsOf
  <2> QED BY <2>1, <2>2
<1>5. RunsOf(p) \subseteq RunsOf(p \o q)
  <2> SUFFICES ASSUME NEW i \in DOMAIN p PROVE p[i].run \in RunsOf(p \o q)
    BY Zenon DEF RunsOf
  <2>1. i \in DOMAIN (p \o q)
    BY <1>1
  <2> QED BY <1>2, <2>1 DEF RunsOf
<1>6. RunsOf(q) \subseteq RunsOf(p \o q)
  <2> SUFFICES ASSUME NEW i \in DOMAIN q PROVE q[i].run \in RunsOf(p \o q)
    BY Zenon DEF RunsOf
  <2>1. Len(p) + i \in DOMAIN (p \o q)
    BY <1>1
  <2> QED BY <1>3, <2>1 DEF RunsOf
<1> QED BY <1>1, <1>4, <1>5, <1>6

LEMMA RunsOfNames ==
  ASSUME NEW names \in Seq(StepNames)
  PROVE  AsOperator(names) \in Seq(Item) /\ RunsOf(AsOperator(names)) = NamesOf(names)
<1>1. \A i \in DOMAIN names : As("operator", names[i]) \in Item /\ As("operator", names[i]).run = names[i]
  BY DEF As, Item, Logins
<1>2. DOMAIN AsOperator(names) = 1 .. Len(names)
  BY DEF AsOperator
<1>3. AsOperator(names) \in Seq(Item)
  BY <1>1, <1>2 DEF AsOperator
<1> QED BY <1>1, <1>3 DEF AsOperator, RunsOf, NamesOf

LEMMA NamesOfJoined ==
  ASSUME NEW p \in Seq(StepNames), NEW q \in Seq(StepNames)
  PROVE  p \o q \in Seq(StepNames) /\ NamesOf(p \o q) = NamesOf(p) \cup NamesOf(q)
<1>1. p \o q \in Seq(StepNames) /\ Len(p \o q) = Len(p) + Len(q)
  OBVIOUS
<1>2. \A i \in 1 .. Len(p) : (p \o q)[i] = p[i]
  OBVIOUS
<1>3. \A i \in 1 .. Len(q) : (p \o q)[Len(p) + i] = q[i]
  OBVIOUS
<1>4. NamesOf(p \o q) \subseteq NamesOf(p) \cup NamesOf(q)
  <2> SUFFICES ASSUME NEW i \in 1 .. Len(p \o q) PROVE (p \o q)[i] \in NamesOf(p) \cup NamesOf(q)
    BY <1>1 DEF NamesOf
  <2>1. CASE i <= Len(p)
    <3>1. i \in DOMAIN p /\ (p \o q)[i] = p[i]
      BY <2>1
    <3> QED BY <3>1 DEF NamesOf
  <2>2. CASE i > Len(p)
    <3>1. i - Len(p) \in DOMAIN q /\ (p \o q)[i] = q[i - Len(p)]
      BY <2>2
    <3> QED BY <3>1 DEF NamesOf
  <2> QED BY <2>1, <2>2
<1>5. NamesOf(p) \subseteq NamesOf(p \o q)
  <2> SUFFICES ASSUME NEW i \in DOMAIN p PROVE p[i] \in NamesOf(p \o q)
    BY Zenon DEF NamesOf
  <2>1. i \in DOMAIN (p \o q)
    BY <1>1
  <2> QED BY <1>2, <2>1 DEF NamesOf
<1>6. NamesOf(q) \subseteq NamesOf(p \o q)
  <2> SUFFICES ASSUME NEW i \in DOMAIN q PROVE q[i] \in NamesOf(p \o q)
    BY Zenon DEF NamesOf
  <2>1. Len(p) + i \in DOMAIN (p \o q)
    BY <1>1
  <2> QED BY <1>3, <2>1 DEF NamesOf
<1> QED BY <1>1, <1>4, <1>5, <1>6

LEMMA RunsOfTail ==
  ASSUME NEW p \in Seq(Item), p # <<>>
  PROVE  /\ Tail(p) \in Seq(Item) /\ Len(Tail(p)) = Len(p) - 1 /\ Head(p) = p[1] /\ Head(p) \in Item
         /\ \A i \in 1 .. Len(p) - 1 : Tail(p)[i] = p[i + 1]
         /\ RunsOf(p) = {Head(p).run} \cup RunsOf(Tail(p))
<1>1. /\ Tail(p) \in Seq(Item) /\ Len(Tail(p)) = Len(p) - 1 /\ Head(p) = p[1] /\ Head(p) \in Item
      /\ \A i \in 1 .. Len(p) - 1 : Tail(p)[i] = p[i + 1]
      /\ Len(p) \in Nat \ {0}
  OBVIOUS
<1>2. DOMAIN p = 1 .. Len(p) /\ DOMAIN Tail(p) = 1 .. Len(p) - 1
  BY <1>1
<1>3. RunsOf(Tail(p)) \subseteq RunsOf(p)
  <2> SUFFICES ASSUME NEW i \in 1 .. Len(p) - 1 PROVE Tail(p)[i].run \in RunsOf(p)
    BY <1>2 DEF RunsOf
  <2>1. i + 1 \in DOMAIN p
    BY <1>1, <1>2
  <2> QED BY <1>1, <2>1 DEF RunsOf
<1>4. RunsOf(p) \subseteq {Head(p).run} \cup RunsOf(Tail(p))
  <2> SUFFICES ASSUME NEW i \in 1 .. Len(p), i # 1 PROVE p[i].run \in RunsOf(Tail(p))
    BY <1>1, <1>2 DEF RunsOf
  <2>1. i - 1 \in DOMAIN Tail(p) /\ Tail(p)[i - 1] = p[i]
    BY <1>1, <1>2
  <2> QED BY <2>1 DEF RunsOf
<1>5. Head(p).run \in RunsOf(p)
  <2>1. 1 \in DOMAIN p
    BY <1>1, <1>2
  <2> QED BY <1>1, <2>1 DEF RunsOf
<1> QED BY <1>1, <1>3, <1>4, <1>5

-----------------------------------------------------------------------------
(* The inductive invariant of a node at work.                              *)

Polling == {"queued", "running"}

\* What a node has to go through to be allocated.
Needs == Stages \cup {"check_sku", "scale"} \cup (IF category = "storage" THEN {} ELSE {"check_raid"})

\* After a step that clears the node everything is still to be done.
Ordered(p) ==
  \A i \in DOMAIN p : Wipes(p[i]) => Needs \subseteq {p[j].run : j \in {k \in DOMAIN p : k > i}}

SkuKnown ==
  \E i \in DOMAIN SpecOf(category).skus : Check(Hardware[node].info, SpecOf(category).skus[i])

\* The node is in the cluster, or the last job was taken for having put it there.
Joined == cluster # "out" \/ job = "other"

\* What an allocation asks for was reached or is still to be done.
Owed(p) ==
  /\ \A s \in Stages : s \in done \/ s \in RunsOf(p)
  /\ category = "storage" \/ raid = "active" \/ "check_raid" \in RunsOf(p)
  /\ Joined \/ RunsOf(p) \cap ({"scale"} \cup Polling) # {}
  /\ "operator" \in users \/ "create_user" \in RunsOf(p)
  /\ SkuKnown \/ "check_sku" \in RunsOf(p)

\* Polls are only waited for at once, and only for a job that makes the node a member.
PollsFirst ==
  /\ \A i \in DOMAIN todo : i > 1 => todo[i].run \notin Polling
  /\ todo # <<>> /\ Head(todo).run \in Polling /\ job = "succeeded" => cluster # "out"

AllocatesLast(p) == \A i \in DOMAIN p : p[i].run = "allocate" => i = Len(p)

AllocationPlan ==
  /\ AllocatesLast(todo)
  /\ "allocate" \in RunsOf(todo) => Ordered(todo) /\ Owed(todo)

\* A configuration goes in as a login the node has, makes operator and goes on as operator.
ConfigPlan ==
  tool = "run_full_config" =>
    /\ \A i \in DOMAIN todo : todo[i].run # "clear_node" /\ (i > 1 => todo[i].user = "operator")
    /\ todo # <<>> => /\ Head(todo).user \in users
                      /\ "operator" \in users \/ Head(todo).run = "create_user"

NodeInv == TypeOK /\ LoginLeft /\ PollsFirst /\ AllocationPlan /\ ConfigPlan

-----------------------------------------------------------------------------
(* The ways a plan changes.                                                *)

LEMMA CategoryKnown ==
  ASSUME node \in DOMAIN Hardware
  PROVE  category \in Categories
BY PipelineAssumption DEF category, Categories

\* The call is over.
LEMMA CallOver ==
  ASSUME TypeOK', users' # {}, todo' = <<>>
  PROVE  NodeInv'
<1>1. RunsOf(todo') = {} /\ DOMAIN todo' = {}
  BY DEF RunsOf
<1> QED BY <1>1 DEF NodeInv, LoginLeft, PollsFirst, AllocationPlan, AllocatesLast, ConfigPlan

LEMMA OrderedTail ==
  ASSUME NEW p \in Seq(Item), p # <<>>, Ordered(p)
  PROVE  Ordered(Tail(p)) /\ (Wipes(Head(p)) => Needs \subseteq RunsOf(Tail(p)))
<1>1. /\ Tail(p) \in Seq(Item) /\ Len(Tail(p)) = Len(p) - 1 /\ Head(p) = p[1]
      /\ \A i \in 1 .. Len(p) - 1 : Tail(p)[i] = p[i + 1]
  BY RunsOfTail
<1>2. DOMAIN p = 1 .. Len(p) /\ DOMAIN Tail(p) = 1 .. Len(p) - 1 /\ Len(p) \in Nat \ {0}
  BY <1>1
<1> DEFINE After1(i) == {p[j].run : j \in {k \in DOMAIN p : k > i}}
           Rest(i) == {Tail(p)[j].run : j \in {k \in DOMAIN Tail(p) : k > i}}
<1>3. ASSUME NEW i \in 0 .. Len(p) - 1 PROVE After1(i + 1) \subseteq Rest(i)
  <2> SUFFICES ASSUME NEW j \in DOMAIN p, j > i + 1 PROVE p[j].run \in Rest(i)
    OBVIOUS
  <2>1. j - 1 \in DOMAIN Tail(p) /\ j - 1 > i /\ Tail(p)[j - 1] = p[j]
    BY <1>1, <1>2
  <2> QED BY <2>1
<1>4. ASSUME NEW i \in DOMAIN Tail(p), Wipes(Tail(p)[i]) PROVE Needs \subseteq Rest(i)
  <2>1. i + 1 \in DOMAIN p /\ Wipes(p[i + 1])
    BY <1>1, <1>2, <1>4
  <2>2. Needs \subseteq After1(i + 1)
    BY <2>1 DEF Ordered
  <2>3. i \in 0 .. Len(p) - 1
    BY <1>2
  <2> QED BY <1>3, <2>2, <2>3
<1>5. Wipes(Head(p)) => Needs \subseteq Rest(0)
  <2>1. 1 \in DOMAIN p /\ 0 \in 0 .. Len(p) - 1 /\ 0 + 1 = 1
    BY <1>2
  <2>2. Wipes(Head(p)) => Needs \subseteq After1(1)
    BY <1>1, <2>1 DEF Ordered
  <2> QED BY <1>3, <2>1, <2>2
<1>6. Rest(0) \subseteq RunsOf(Tail(p))
  BY DEF RunsOf
<1> QED BY <1>4, <1>5, <1>6 DEF Ordered

\* The first step of the plan is through; what it is there for is reached.
LEMMA StepThrough ==
  ASSUME NodeInv, TypeOK', users' # {}, todo # <<>>, todo' = Tail(todo), tool' = tool, node' = node,
         Head(todo).run # "clear_node" /\ "operator" \in users => "operator" \in users',
         Head(todo).run = "create_user" => "operator" \in users',
         ~ Wipes(Head(todo)) => /\ done \subseteq done'
                                /\ raid = "active" => raid' = "active"
                                /\ Joined => Joined',
         Head(todo).run \in Stages => Head(todo).run \in done',
         Head(todo).run = "check_raid" => raid' = "active",
         Head(todo).run \in {"scale"} \cup Polling => Joined',
         Head(todo).run = "check_sku" => SkuKnown
  PROVE  NodeInv'
<1> DEFINE h == Head(todo)
           rest == Tail(todo)
<1>1. todo \in Seq(Item) /\ TypeOK
  BY DEF NodeInv, TypeOK, Item
<1>2. /\ rest \in Seq(Item) /\ Len(rest) = Len(todo) - 1 /\ h = todo[1] /\ h \in Item
      /\ \A i \in 1 .. Len(todo) - 1 : rest[i] = todo[i + 1]
      /\ RunsOf(todo) = {h.run} \cup RunsOf(rest)
  BY <1>1, RunsOfTail
<1>3. DOMAIN todo = 1 .. Len(todo) /\ DOMAIN rest = 1 .. Len(todo) - 1 /\ Len(todo) \in Nat \ {0}
  BY <1>1, <1>2
<1>4. \A i \in DOMAIN rest : i + 1 \in DOMAIN todo /\ i + 1 > 1 /\ rest[i] = todo[i + 1]
  BY <1>2, <1>3
<1>5. rest # <<>> => 1 \in DOMAIN rest /\ Head(rest) = rest[1]
  BY <1>2, <1>3
<1>6. PollsFirst'
  BY <1>4, <1>5 DEF NodeInv, PollsFirst
<1>7. category' = category /\ Stages' = Stages /\ Needs' = Needs /\ SkuKnown' = SkuKnown
  BY DEF category, Stages, Needs, SkuKnown
<1>8. ASSUME "allocate" \in RunsOf(rest) PROVE Ordered(todo)' /\ Owed(todo)'
  <2>1. Ordered(todo) /\ Owed(todo)
    BY <1>2, <1>8 DEF NodeInv, AllocationPlan
  <2>2. Ordered(rest) /\ (Wipes(h) => Needs \subseteq RunsOf(rest))
    BY <1>1, <2>1, OrderedTail
  <2>3. Ordered(todo)'
    BY <1>7, <2>2 DEF Ordered, Wipes
  <2>4. CASE Wipes(h)
    <3>1. Stages \subseteq RunsOf(rest) /\ "create_user" \in RunsOf(rest) /\ "scale" \in RunsOf(rest)
          /\ "check_sku" \in RunsOf(rest) /\ (category = "storage" \/ "check_raid" \in RunsOf(rest))
      BY <2>2, <2>4 DEF Needs, Stages
    <3>2. Owed(todo)'
      BY <1>7, <3>1 DEF Owed, RunsOf
    <3> QED BY <2>3, <3>2
  <2>5. CASE ~ Wipes(h)
    <3>1. \A s \in Stages : s \in done' \/ s \in RunsOf(rest)
      BY <1>2, <2>1, <2>5 DEF Owed
    <3>2. category = "storage" \/ raid' = "active" \/ "check_raid" \in RunsOf(rest)
      BY <1>2, <2>1, <2>5 DEF Owed
    <3>3. Joined' \/ RunsOf(rest) \cap ({"scale"} \cup Polling) # {}
      BY <1>2, <2>1, <2>5 DEF Owed
    <3>4. "operator" \in users' \/ "create_user" \in RunsOf(rest)
      BY <1>2, <2>1, <2>5 DEF Owed, Wipes
    <3>5. SkuKnown \/ "check_sku" \in RunsOf(rest)
      BY <1>2, <2>1 DEF Owed
    <3>6. Owed(todo)'
      BY <1>7, <3>1, <3>2, <3>3, <3>4, <3>5 DEF Owed, RunsOf, Polling
    <3> QED BY <2>3, <3>6
  <2> QED BY <2>4, <2>5
<1>9. AllocatesLast(rest)
  BY <1>2, <1>3, <1>4 DEF NodeInv, AllocationPlan, AllocatesLast
<1>10. AllocationPlan'
  BY <1>8, <1>9 DEF AllocationPlan, AllocatesLast, RunsOf
<1>11. ConfigPlan'
  <2> SUFFICES ASSUME tool = "run_full_config" PROVE ConfigPlan'
    BY DEF ConfigPlan
  <2>1. \A i \in DOMAIN rest : rest[i].run # "clear_node" /\ rest[i].user = "operator"
    BY <1>4 DEF NodeInv, ConfigPlan
  <2>2. "operator" \in users'
    <3>1. h.run # "clear_node"
      BY <1>2, <1>3 DEF NodeInv, ConfigPlan
    <3> QED BY <3>1 DEF NodeInv, ConfigPlan
  <2> QED BY <1>5, <2>1, <2>2 DEF ConfigPlan
<1> QED BY <1>6, <1>10, <1>11 DEF NodeInv, LoginLeft

\* The call waits where it is, and the node loses nothing.
LEMMA PlanKept ==
  ASSUME NodeInv, TypeOK', users' = users, todo' = todo, tool' = tool, node' = node, done' = done,
         raid = "active" => raid' = "active", Joined => Joined', cluster # "out" => cluster' # "out",
         job' = "succeeded" => cluster' # "out" \/ job = "succeeded"
  PROVE  NodeInv'
<1>1. category' = category /\ Stages' = Stages /\ Needs' = Needs /\ SkuKnown' = SkuKnown
  BY DEF category, Stages, Needs, SkuKnown
<1>2. PollsFirst'
  BY DEF NodeInv, PollsFirst
<1>3. Ordered(todo) => Ordered(todo)'
  BY <1>1 DEF Ordered, Wipes
<1>4. Owed(todo) => Owed(todo)'
  BY <1>1 DEF Owed, RunsOf
<1>5. AllocationPlan'
  BY <1>3, <1>4 DEF NodeInv, AllocationPlan, AllocatesLast, RunsOf
<1> QED BY <1>2, <1>5 DEF NodeInv, LoginLeft, ConfigPlan

\* The first step becomes a poll of the job.
LEMMA PollNext ==
  ASSUME NodeInv, TypeOK', users' = users, todo # <<>>, NEW s \in Polling,
         todo' = <<As("operator", s)>> \o Tail(todo), tool' = tool, node' = node,
         UNCHANGED <<done, raid, cluster>>, job' # "succeeded",
         Head(todo).run \in {"scale", "queued"}
  PROVE  NodeInv'
<1> DEFINE a == As("operator", s)
<1>1. todo \in Seq(Item) /\ a \in Item /\ a.run = s /\ a.user = "operator"
  BY DEF NodeInv, TypeOK, Item, As, Logins, Polling
<1> HIDE DEF a
<1>2. /\ Tail(todo) \in Seq(Item) /\ Len(Tail(todo)) = Len(todo) - 1 /\ Head(todo) = todo[1]
      /\ \A i \in 1 .. Len(todo) - 1 : Tail(todo)[i] = todo[i + 1]
      /\ RunsOf(todo) = {Head(todo).run} \cup RunsOf(Tail(todo))
  BY <1>1, RunsOfTail
<1>3. todo' = <<a>> \o Tail(todo)
  BY DEF a
<1>4. <<a>> \in Seq(Item) /\ RunsOf(<<a>>) = {s}
  BY <1>1 DEF RunsOf
<1>5. RunsOf(todo') = {s} \cup RunsOf(Tail(todo))
  BY <1>2, <1>3, <1>4, RunsOfJoined
<1>6. /\ DOMAIN todo' = DOMAIN todo /\ DOMAIN todo = 1 .. Len(todo) /\ Len(todo) \in Nat \ {0}
      /\ Len(todo') = Len(todo) /\ todo'[1] = a
      /\ \A i \in DOMAIN todo : i > 1 => todo'[i] = todo[i]
  BY <1>1, <1>2, <1>3
<1>7. Head(todo') = a
  BY <1>3
<1>8. category' = category /\ Stages' = Stages /\ Needs' = Needs /\ SkuKnown' = SkuKnown
  BY DEF category, Stages, Needs, SkuKnown
<1>9. PollsFirst'
  BY <1>6 DEF NodeInv, PollsFirst
<1>10. ASSUME "allocate" \in RunsOf(todo') PROVE Ordered(todo)' /\ Owed(todo)'
  <2>1. "allocate" \in RunsOf(Tail(todo))
    BY <1>5, <1>10 DEF Polling
  <2>2. Ordered(todo) /\ Owed(todo)
    BY <1>2, <2>1 DEF NodeInv, AllocationPlan
  <2>3. ASSUME NEW i \in DOMAIN todo, Wipes(todo'[i])
        PROVE  Needs \subseteq {todo'[j].run : j \in {k \in DOMAIN todo : k > i}}
    <3>1. i > 1 /\ todo'[i] = todo[i]
      BY <1>1, <1>6, <2>3 DEF Wipes, Polling
    <3>2. Needs \subseteq {todo[j].run : j \in {k \in DOMAIN todo : k > i}}
      BY <2>2, <2>3, <3>1 DEF Ordered
    <3>3. \A j \in {k \in DOMAIN todo : k > i} : todo'[j] = todo[j]
      BY <1>6, <3>1
    <3> QED BY <3>2, <3>3
  <2>4. Ordered(todo)'
    BY <1>6, <1>8, <2>3 DEF Ordered, Wipes
  <2>5. \A x : x \in RunsOf(todo) /\ x \notin {"scale", "queued"} => x \in RunsOf(todo')
    BY <1>2, <1>5
  <2>6. Stages \cap {"scale", "queued"} = {}
    BY DEF Stages
  <2>7. s \in RunsOf(todo')
    BY <1>5
  <2>8. Owed(todo)'
    <3>1. \A x \in Stages : x \in done \/ x \in RunsOf(todo')
      BY <2>2, <2>5, <2>6 DEF Owed
    <3>2. category = "storage" \/ raid = "active" \/ "check_raid" \in RunsOf(todo')
      BY <2>2, <2>5 DEF Owed
    <3>3. RunsOf(todo') \cap ({"scale"} \cup Polling) # {}
      BY <2>7
    <3>4. "operator" \in users \/ "create_user" \in RunsOf(todo')
      BY <2>2, <2>5 DEF Owed
    <3>5. SkuKnown \/ "check_sku" \in RunsOf(todo')
      BY <2>2, <2>5 DEF Owed
    <3> QED BY <1>8, <3>1, <3>2, <3>3, <3>4, <3>5 DEF Owed, RunsOf, Polling
  <2> QED BY <2>4, <2>8
<1>11. AllocatesLast(todo)'
  BY <1>1, <1>6 DEF NodeInv, AllocationPlan, AllocatesLast, Polling
<1>12. AllocationPlan'
  BY <1>10, <1>11 DEF AllocationPlan, RunsOf
<1>13. ConfigPlan'
  <2> SUFFICES ASSUME tool = "run_full_config" PROVE ConfigPlan'
    BY DEF ConfigPlan
  <2>1. "operator" \in users
    BY DEF NodeInv, ConfigPlan
  <2>2. \A i \in DOMAIN todo' : todo'[i].run # "clear_node" /\ (i > 1 => todo'[i].user = "operator")
    BY <1>1, <1>6 DEF NodeInv, ConfigPlan, Polling
  <2> QED BY <1>1, <1>7, <2>1, <2>2 DEF ConfigPlan
<1> QED BY <1>9, <1>12, <1>13 DEF NodeInv, LoginLeft

-----------------------------------------------------------------------------
(* The plans of the tools.                                                 *)

\* A plan that polls nothing and allocates, at its end, only what has to go through everything.
GoodPlan(p) ==
  /\ p \in Seq(Item) /\ RunsOf(p) \cap Polling = {} /\ AllocatesLast(p)
  /\ "allocate" \in RunsOf(p) => Ordered(p) /\ Needs \subseteq RunsOf(p)

LEMMA HarmlessPlan ==
  ASSUME NEW p \in Seq(Item), RunsOf(p) \cap (Polling \cup {"allocate"}) = {}
  PROVE  GoodPlan(p)
BY DEF GoodPlan, AllocatesLast, RunsOf

LEMMA AllocatesLastJoined ==
  ASSUME NEW p \in Seq(Item), NEW q \in Seq(Item), "allocate" \notin RunsOf(p), AllocatesLast(q)
  PROVE  AllocatesLast(p \o q)
<1>1. Len(p \o q) = Len(p) + Len(q) /\ Len(p) \in Nat /\ Len(q) \in Nat
  OBVIOUS
<1>2. ASSUME NEW i \in DOMAIN (p \o q), (p \o q)[i].run = "allocate" PROVE i = Len(p \o q)
  <2>1. CASE i <= Len(p)
    BY <1>1, <1>2, <2>1 DEF RunsOf
  <2>2. CASE i > Len(p)
    <3>1. i - Len(p) \in DOMAIN q /\ (p \o q)[i] = q[i - Len(p)]
      BY <1>1, <2>2
    <3>2. i - Len(p) = Len(q)
      BY <1>2, <3>1 DEF AllocatesLast
    <3> QED BY <1>1, <3>2
  <2> QED BY <1>1, <2>1, <2>2
<1> QED BY <1>2 DEF AllocatesLast

\* A call begins.
LEMMA BeginInv ==
  ASSUME NodeInv, NEW name, NEW p, Begin(name, p), GoodPlan(p),
         name = "run_full_config" =>
           /\ \A i \in DOMAIN p : p[i].run # "clear_node" /\ (i > 1 => p[i].user = "operator")
           /\ p # <<>> => Head(p).user \in users /\ Head(p).run = "create_user"
  PROVE  NodeInv'
<1>1. todo' = p /\ UNCHANGED <<machine, job, status, polls, faults>> /\ tool' = name
  BY DEF Begin, Goto
<1>2. UNCHANGED <<node, power, up, users, done, raid, cluster>>
  BY <1>1 DEF machine
<1>3. category' = category /\ Stages' = Stages /\ Needs' = Needs /\ SkuKnown' = SkuKnown
  BY <1>2 DEF category, Stages, Needs, SkuKnown
<1>4. TypeOK'
  <2>1. calls' \in 0 .. MaxCalls
    BY PipelineAssumption DEF Begin, NodeInv, TypeOK
  <2> QED BY <1>1, <1>2, <1>3, <2>1 DEF NodeInv, TypeOK, GoodPlan, Item
<1>5. PollsFirst'
  <2>1. p # <<>> => Head(p).run \in RunsOf(p)
    BY RunsOfTail DEF GoodPlan
  <2> QED BY <1>1, <2>1 DEF PollsFirst, GoodPlan, RunsOf
<1>6. Ordered(p) => Ordered(todo)'
  BY <1>1, <1>3 DEF Ordered, Wipes
<1>7. Needs \subseteq RunsOf(p) => Owed(todo)'
  <2> SUFFICES ASSUME Needs \subseteq RunsOf(p) PROVE Owed(todo)'
    OBVIOUS
  <2>1. Stages \subseteq RunsOf(p) /\ "create_user" \in RunsOf(p) /\ "scale" \in RunsOf(p)
        /\ "check_sku" \in RunsOf(p) /\ (category = "storage" \/ "check_raid" \in RunsOf(p))
    BY DEF Needs, Stages
  <2> QED BY <1>1, <1>3, <2>1 DEF Owed, RunsOf
<1>8. AllocationPlan'
  BY <1>1, <1>6, <1>7 DEF AllocationPlan, GoodPlan, AllocatesLast, RunsOf
<1>9. ConfigPlan'
  BY <1>1, <1>2 DEF ConfigPlan
<1> QED BY <1>2, <1>4, <1>5, <1>8, <1>9 DEF NodeInv, LoginLeft

\* Short lists of names, and of steps.
LEMMA List1 ==
  ASSUME NEW a \in StepNames
  PROVE  <<a>> \in Seq(StepNames) /\ NamesOf(<<a>>) = {a}
<1>1. DOMAIN <<a>> = {1}
  OBVIOUS
<1>2. NamesOf(<<a>>) = {a}
  BY <1>1 DEF NamesOf
<1> QED BY <1>2

LEMMA List2 ==
  ASSUME NEW a \in StepNames, NEW b \in StepNames
  PROVE  <<a, b>> \in Seq(StepNames) /\ NamesOf(<<a, b>>) = {a, b}
<1>1. DOMAIN <<a, b>> = {1, 2}
  OBVIOUS
<1>2. NamesOf(<<a, b>>) = {a, b}
  BY <1>1 DEF NamesOf
<1> QED BY <1>2

LEMMA List3 ==
  ASSUME NEW a \in StepNames, NEW b \in StepNames, NEW c \in StepNames
  PROVE  <<a, b, c>> \in Seq(StepNames) /\ NamesOf(<<a, b, c>>) = {a, b, c}
<1>1. DOMAIN <<a, b, c>> = {1, 2, 3}
  OBVIOUS
<1>2. NamesOf(<<a, b, c>>) = {a, b, c}
  BY <1>1 DEF NamesOf
<1> QED BY <1>2

LEMMA List4 ==
  ASSUME NEW a \in StepNames, NEW b \in StepNames, NEW c \in StepNames, NEW d \in StepNames
  PROVE  <<a, b, c, d>> \in Seq(StepNames) /\ NamesOf(<<a, b, c, d>>) = {a, b, c, d}
<1>1. DOMAIN <<a, b, c, d>> = {1, 2, 3, 4}
  OBVIOUS
<1>2. NamesOf(<<a, b, c, d>>) = {a, b, c, d}
  BY <1>1 DEF NamesOf
<1> QED BY <1>2

LEMMA Names ==
  /\ "create_user" \in StepNames /\ "sync_time" \in StepNames /\ "config_apt" \in StepNames
  /\ "sysinfo" \in StepNames /\ "check_sku" \in StepNames /\ "install_general" \in StepNames
  /\ "harden_node" \in StepNames /\ "install" \in StepNames /\ "config" \in StepNames
  /\ "config_img" \in StepNames /\ "config_raid" \in StepNames /\ "check_raid" \in StepNames
  /\ "delete_pods" \in StepNames /\ "scale" \in StepNames /\ "device_pods" \in StepNames
  /\ "reboot" \in StepNames /\ "power_cycle" \in StepNames /\ "wait_for_boot" \in StepNames
  /\ "teardown" \in StepNames /\ "create_debug_user" \in StepNames /\ "clear_node" \in StepNames
  /\ "allocate" \in StepNames
BY DEF StepNames

LEMMA ItemIs ==
  ASSUME NEW u \in Logins, NEW s \in StepNames
  PROVE  /\ As(u, s) \in Item /\ As(u, s).run = s /\ As(u, s).user = u
         /\ <<As(u, s)>> \in Seq(Item) /\ RunsOf(<<As(u, s)>>) = {s}
<1>1. As(u, s) \in Item /\ As(u, s).run = s /\ As(u, s).user = u
  BY DEF As, Item
<1> DEFINE a == As(u, s)
<1> HIDE DEF a
<1>2. DOMAIN <<a>> = {1} /\ <<a>>[1] = a
  OBVIOUS
<1>3. RunsOf(<<a>>) = {a.run}
  BY <1>2 DEF RunsOf
<1> QED BY <1>1, <1>3 DEF a

LEMMA DevicePodsPlan ==
  DevicePods \in Seq(StepNames) /\ NamesOf(DevicePods) \subseteq {"device_pods"}
<1>1. <<>> \in Seq(StepNames) /\ NamesOf(<<>>) = {}
  BY DEF NamesOf
<1> QED BY <1>1, Names, List1 DEF DevicePods

LEMMA DiskPlan ==
  /\ DiskSteps \in Seq(StepNames)
  /\ NamesOf(DiskSteps) = IF category = "storage" THEN {"config_img"}
                          ELSE {"config_raid", "reboot", "check_raid"}
<1>1. <<"config_img">> \in Seq(StepNames) /\ NamesOf(<<"config_img">>) = {"config_img"}
  BY Names, List1
<1>2. /\ <<"config_raid", "reboot", "check_raid">> \in Seq(StepNames)
      /\ NamesOf(<<"config_raid", "reboot", "check_raid">>) = {"config_raid", "reboot", "check_raid"}
  BY Names, List3
<1> QED BY <1>1, <1>2 DEF DiskSteps

LEMMA ReadSkuPlan ==
  ASSUME NEW u \in Logins
  PROVE  ReadSku(u) \in Seq(Item) /\ RunsOf(ReadSku(u)) = {"sysinfo", "check_sku"}
<1> DEFINE a == As(u, "sysinfo")
           b == As(u, "check_sku")
<1>1. a \in Item /\ b \in Item /\ a.run = "sysinfo" /\ b.run = "check_sku"
  BY Names, ItemIs
<1>2. ReadSku(u) = <<a, b>>
  BY DEF ReadSku
<1> HIDE DEF a, b
<1>3. <<a, b>> \in Seq(Item) /\ DOMAIN <<a, b>> = {1, 2} /\ <<a, b>>[1] = a /\ <<a, b>>[2] = b
  BY <1>1
<1>4. RunsOf(<<a, b>>) = {a.run, b.run}
  BY <1>3 DEF RunsOf
<1> QED BY <1>1, <1>2, <1>3, <1>4

LEMMA ResetPlan ==
  Reset \in Seq(Item) /\ RunsOf(Reset) = {"teardown", "create_debug_user", "clear_node"}
<1> DEFINE a == AsOperator(<<"teardown", "create_debug_user">>)
           b == <<As("ubuntu", "clear_node")>>
<1>1. a \in Seq(Item) /\ RunsOf(a) = {"teardown", "create_debug_user"}
  BY Names, List2, RunsOfNames
<1>2. b \in Seq(Item) /\ RunsOf(b) = {"clear_node"}
  BY Names, ItemIs DEF Logins
<1>3. Reset = a \o b
  BY DEF Reset
<1> HIDE DEF a, b
<1> QED BY <1>1, <1>2, <1>3, RunsOfJoined

\* What a configuration goes through.
ConfigRuns ==
  {"create_user", "sync_time", "config_apt", "sysinfo", "check_sku", "install_general",
   "harden_node", "install", "config", "delete_pods", "scale"} \cup NamesOf(DiskSteps)

\* The first step of a configuration makes operator; the others are those.
LEMMA FullConfigPlan ==
  ASSUME NEW u \in Logins
  PROVE  /\ FullConfig(u) \in Seq(Item) /\ FullConfig(u) # <<>>
         /\ Head(FullConfig(u)) = As(u, "create_user")
         /\ \A i \in DOMAIN FullConfig(u) : i > 1 => FullConfig(u)[i].user = "operator"
         /\ ConfigRuns \subseteq RunsOf(FullConfig(u))
         /\ RunsOf(FullConfig(u)) \subseteq ConfigRuns \cup {"device_pods"}
<1> DEFINE op(x) == x \in Seq(Item) /\ \A i \in DOMAIN x : x[i].user = "operator"
           n1 == <<"sync_time", "config_apt">>
           n2 == <<"install_general", "harden_node">>
           n3 == <<"install", "config", "delete_pods", "scale">>
           a == <<As(u, "create_user")>>
           p1 == AsOperator(n1)
           p2 == ReadSku("operator")
           p3 == AsOperator(n2)
           p4 == AsOperator(DiskSteps)
           p5 == AsOperator(n3 \o DevicePods)
<1>1. ASSUME NEW names \in Seq(StepNames) PROVE op(AsOperator(names))
  BY RunsOfNames DEF AsOperator, As
<1>2. ASSUME NEW x \in Seq(Item), NEW y \in Seq(Item), x # <<>>, op(y),
             \A i \in DOMAIN x : i > 1 => x[i].user = "operator"
      PROVE  /\ x \o y \in Seq(Item) /\ x \o y # <<>> /\ Head(x \o y) = Head(x)
             /\ \A i \in DOMAIN (x \o y) : i > 1 => (x \o y)[i].user = "operator"
             /\ RunsOf(x \o y) = RunsOf(x) \cup RunsOf(y)
  <2>1. Len(x \o y) = Len(x) + Len(y) /\ Len(x) \in Nat \ {0} /\ Len(y) \in Nat
    BY <1>2
  <2>2. \A i \in DOMAIN (x \o y) : i > 1 => (x \o y)[i].user = "operator"
    BY <1>2, <2>1
  <2> QED BY <1>2, <2>1, <2>2, RunsOfJoined
<1>3. /\ n1 \in Seq(StepNames) /\ NamesOf(n1) = {"sync_time", "config_apt"}
      /\ n2 \in Seq(StepNames) /\ NamesOf(n2) = {"install_general", "harden_node"}
      /\ n3 \in Seq(StepNames) /\ NamesOf(n3) = {"install", "config", "delete_pods", "scale"}
  BY Names, List2, List4
<1>4. /\ a \in Seq(Item) /\ a # <<>> /\ Head(a) = As(u, "create_user") /\ RunsOf(a) = {"create_user"}
      /\ \A i \in DOMAIN a : i > 1 => a[i].user = "operator"
  BY Names, ItemIs
<1>5. op(p1) /\ RunsOf(p1) = {"sync_time", "config_apt"}
  BY <1>1, <1>3, RunsOfNames
<1>6. op(p2) /\ RunsOf(p2) = {"sysinfo", "check_sku"}
  BY ReadSkuPlan DEF ReadSku, As, Logins
<1>7. op(p3) /\ RunsOf(p3) = {"install_general", "harden_node"}
  BY <1>1, <1>3, RunsOfNames
<1>8. op(p4) /\ RunsOf(p4) = NamesOf(DiskSteps)
  BY <1>1, DiskPlan, RunsOfNames
<1>9. op(p5) /\ RunsOf(p5) = {"install", "config", "delete_pods", "scale"} \cup NamesOf(DevicePods)
  <2>1. /\ n3 \o DevicePods \in Seq(StepNames)
        /\ NamesOf(n3 \o DevicePods) = NamesOf(n3) \cup NamesOf(DevicePods)
    BY <1>3, DevicePodsPlan, NamesOfJoined
  <2> QED BY <1>1, <1>3, <2>1, RunsOfNames
<1>10. FullConfig(u) = a \o p1 \o p2 \o p3 \o p4 \o p5
  BY DEF FullConfig
<1> HIDE DEF a, p1, p2, p3, p4, p5
<1> DEFINE good(x) == /\ x \in Seq(Item) /\ x # <<>> /\ Head(x) = As(u, "create_user")
                      /\ \A i \in DOMAIN x : i > 1 => x[i].user = "operator"
<1>11. good(a \o p1) /\ RunsOf(a \o p1) = RunsOf(a) \cup RunsOf(p1)
  BY <1>2, <1>4, <1>5
<1>12. good(a \o p1 \o p2) /\ RunsOf(a \o p1 \o p2) = RunsOf(a \o p1) \cup RunsOf(p2)
  BY <1>2, <1>11, <1>6
<1>13. good(a \o p1 \o p2 \o p3) /\ RunsOf(a \o p1 \o p2 \o p3) = RunsOf(a \o p1 \o p2) \cup RunsOf(p3)
  BY <1>2, <1>12, <1>7
<1>14. /\ good(a \o p1 \o p2 \o p3 \o p4)
       /\ RunsOf(a \o p1 \o p2 \o p3 \o p4) = RunsOf(a \o p1 \o p2 \o p3) \cup RunsOf(p4)
  BY <1>2, <1>13, <1>8
<1>15. /\ good(a \o p1 \o p2 \o p3 \o p4 \o p5)
       /\ RunsOf(a \o p1 \o p2 \o p3 \o p4 \o p5) = RunsOf(a \o p1 \o p2 \o p3 \o p4) \cup RunsOf(p5)
  BY <1>2, <1>14, <1>9
<1>16. RunsOf(FullConfig(u)) = ConfigRuns \cup NamesOf(DevicePods)
  BY <1>4, <1>5, <1>6, <1>7, <1>8, <1>9, <1>10, <1>11, <1>12, <1>13, <1>14, <1>15 DEF ConfigRuns
<1> QED BY <1>10, <1>15, <1>16, DevicePodsPlan

\* What a reallocation ends with.
LEMMA AllocationPlanOfTool ==
  /\ Allocation \in Seq(Item) /\ RunsOf(Allocation) = {"sysinfo", "check_sku", "allocate"}
  /\ AllocatesLast(Allocation)
<1> DEFINE r == ReadSku("operator")
           l == AsOperator(<<"allocate">>)
<1>1. <<"allocate">> \in Seq(StepNames) /\ NamesOf(<<"allocate">>) = {"allocate"}
  BY Names, List1
<1>2. l \in Seq(Item) /\ RunsOf(l) = {"allocate"}
  BY <1>1, RunsOfNames
<1>3. AllocatesLast(l)
  BY DEF AsOperator, AllocatesLast
<1>4. r \in Seq(Item) /\ RunsOf(r) = {"sysinfo", "check_sku"}
  BY ReadSkuPlan DEF Logins
<1>5. Allocation = r \o l
  BY DEF Allocation
<1> HIDE DEF r, l
<1>6. r \o l \in Seq(Item) /\ RunsOf(r \o l) = {"sysinfo", "check_sku", "allocate"}
  BY <1>2, <1>4, RunsOfJoined
<1>7. AllocatesLast(r \o l)
  BY <1>2, <1>3, <1>4, AllocatesLastJoined
<1> QED BY <1>5, <1>6, <1>7

Clears == {"teardown", "clear_node"}

\* A configuration goes through all an allocation needs, and clears nothing.
LEMMA ConfigGoesThrough ==
  ASSUME NEW u \in Logins
  PROVE  /\ Needs \subseteq RunsOf(FullConfig(u))
         /\ RunsOf(FullConfig(u)) \cap (Clears \cup Polling \cup {"allocate"}) = {}
<1>1. Needs \subseteq ConfigRuns
  BY DiskPlan DEF Needs, Stages, ConfigRuns
<1>2. ConfigRuns \cap (Clears \cup Polling \cup {"allocate"}) = {}
  BY DiskPlan DEF ConfigRuns, Clears, Polling
<1> QED BY <1>1, <1>2, FullConfigPlan DEF Clears, Polling

\* What is cleared before everything is gone through is cleared in time.
LEMMA OrderedBefore ==
  ASSUME NEW p \in Seq(Item), NEW q \in Seq(Item), Needs \subseteq RunsOf(q), RunsOf(q) \cap Clears = {}
  PROVE  Ordered(p \o q)
<1> DEFINE r == p \o q
<1>1. /\ Len(r) = Len(p) + Len(q) /\ Len(p) \in Nat /\ Len(q) \in Nat
      /\ \A i \in 1 .. Len(q) : r[Len(p) + i] = q[i]
  OBVIOUS
<1>2. ASSUME NEW i \in DOMAIN r, Wipes(r[i]) PROVE i <= Len(p)
  <2> SUFFICES ASSUME i > Len(p) PROVE FALSE
    BY <1>1
  <2>1. i - Len(p) \in DOMAIN q /\ r[i] = q[i - Len(p)]
    BY <1>1
  <2>2. r[i].run \in RunsOf(q)
    BY <2>1 DEF RunsOf
  <2> QED BY <1>2, <2>2 DEF Wipes, Clears
<1>3. ASSUME NEW i \in DOMAIN r, i <= Len(p), NEW n \in Needs
      PROVE  n \in {r[j].run : j \in {k \in DOMAIN r : k > i}}
  <2>1. PICK j \in DOMAIN q : q[j].run = n
    BY DEF RunsOf
  <2>2. Len(p) + j \in DOMAIN r /\ Len(p) + j > i /\ r[Len(p) + j] = q[j]
    BY <1>1, <1>3
  <2> QED BY <2>1, <2>2
<1> QED BY <1>2, <1>3 DEF Ordered

LEMMA OrderedAfter ==
  ASSUME NEW p \in Seq(Item), NEW q \in Seq(Item), Ordered(p), RunsOf(q) \cap Clears = {}
  PROVE  Ordered(p \o q)
<1> DEFINE r == p \o q
<1>1. /\ Len(r) = Len(p) + Len(q) /\ Len(p) \in Nat /\ Len(q) \in Nat
      /\ \A i \in 1 .. Len(p) : r[i] = p[i]
  OBVIOUS
<1>2. ASSUME NEW i \in DOMAIN r, Wipes(r[i]) PROVE i \in DOMAIN p
  <2> SUFFICES ASSUME i > Len(p) PROVE FALSE
    BY <1>1
  <2>1. i - Len(p) \in DOMAIN q /\ r[i] = q[i - Len(p)]
    BY <1>1
  <2>2. r[i].run \in RunsOf(q)
    BY <2>1 DEF RunsOf
  <2> QED BY <1>2, <2>2 DEF Wipes, Clears
<1>3. ASSUME NEW i \in DOMAIN p, Wipes(p[i])
      PROVE  Needs \subseteq {r[j].run : j \in {k \in DOMAIN r : k > i}}
  <2>1. Needs \subseteq {p[j].run : j \in {k \in DOMAIN p : k > i}}
    BY <1>3 DEF Ordered
  <2>2. \A j \in DOMAIN p : j \in DOMAIN r /\ r[j] = p[j]
    BY <1>1
  <2> QED BY <2>1, <2>2
<1>4. ASSUME NEW i \in DOMAIN r, Wipes(r[i])
      PROVE  Needs \subseteq {r[j].run : j \in {k \in DOMAIN r : k > i}}
  <2>1. i \in DOMAIN p /\ Wipes(p[i])
    BY <1>1, <1>2, <1>4
  <2> QED BY <1>3, <2>1
<1> QED BY <1>4 DEF Ordered

\* The plans of reallocate_node, after anything that allocates nothing.
LEMMA ReallocationPlan ==
  ASSUME NEW u \in Logins, NEW p \in Seq(Item), RunsOf(p) \cap (Polling \cup {"allocate"}) = {}
  PROVE  GoodPlan(p \o FullConfig(u) \o Allocation)
<1> DEFINE f == FullConfig(u)
           a == Allocation
<1>1. /\ f \in Seq(Item) /\ Needs \subseteq RunsOf(f)
      /\ RunsOf(f) \cap (Clears \cup Polling \cup {"allocate"}) = {}
  BY FullConfigPlan, ConfigGoesThrough
<1>2. /\ a \in Seq(Item) /\ RunsOf(a) \cap (Clears \cup Polling) = {} /\ AllocatesLast(a)
  BY AllocationPlanOfTool DEF Clears, Polling
<1> HIDE DEF f, a
<1>3. p \o f \in Seq(Item) /\ RunsOf(p \o f) = RunsOf(p) \cup RunsOf(f) /\ Ordered(p \o f)
  BY <1>1, RunsOfJoined, OrderedBefore
<1>4. p \o f \o a \in Seq(Item) /\ RunsOf(p \o f \o a) = RunsOf(p \o f) \cup RunsOf(a)
  BY <1>2, <1>3, RunsOfJoined
<1>5. Ordered(p \o f \o a)
  BY <1>2, <1>3, OrderedAfter
<1>6. AllocatesLast(p \o f \o a)
  BY <1>1, <1>2, <1>3, AllocatesLastJoined
<1>7. GoodPlan(p \o f \o a)
  BY <1>1, <1>2, <1>3, <1>4, <1>5, <1>6 DEF GoodPlan
<1> QED BY <1>7 DEF f, a

-----------------------------------------------------------------------------
(* Each tool and each step preserves the invariant.                        *)

LEMMA ReachableLogins ==
  ASSUME NodeInv, NEW first \in Logins
  PROVE  Reachable(first) \subseteq users /\ Reachable(first) \subseteq Logins
BY DEF Reachable, NodeInv, TypeOK

\* The calls with a plan of names.
LEMMA NamesPlan ==
  ASSUME NEW names \in Seq(StepNames), NamesOf(names) \cap (Polling \cup {"allocate"}) = {}
  PROVE  GoodPlan(AsOperator(names))
BY RunsOfNames, HarmlessPlan

LEMMA ToolsInv ==
  ASSUME NodeInv, Tools
  PROVE  NodeInv'
<1>1. CASE ResetNode
  <2>1. GoodPlan(Reset)
    BY ResetPlan, HarmlessPlan DEF Polling
  <2>2. GoodPlan(<<>>)
    <3>1. <<>> \in Seq(Item) /\ RunsOf(<<>>) = {}
      BY DEF RunsOf
    <3> QED BY <3>1, HarmlessPlan
  <2> QED BY <1>1, <2>1, <2>2, BeginInv DEF ResetNode
<1>2. CASE RunConfigStage
  <2>1. PICK s \in Stages \cup {"check_raid", "clear_node"}, u \in Reachable("ubuntu") :
          Begin("run_config_stage", <<As(u, s)>>)
    BY <1>2 DEF RunConfigStage
  <2>2. u \in Logins /\ s \in StepNames /\ s \notin Polling \cup {"allocate"}
    BY ReachableLogins DEF Logins, Stages, StepNames, Polling
  <2>3. GoodPlan(<<As(u, s)>>)
    <3>1. <<As(u, s)>> \in Seq(Item) /\ RunsOf(<<As(u, s)>>) = {s}
      BY <2>2, ItemIs
    <3>2. RunsOf(<<As(u, s)>>) \cap (Polling \cup {"allocate"}) = {}
      BY <2>2, <3>1
    <3> QED BY <3>1, <3>2, HarmlessPlan
  <2> QED BY <2>1, <2>3, BeginInv
<1>3. CASE RunFullConfig
  <2>1. PICK u \in Reachable("ubuntu") : Begin("run_full_config", FullConfig(u))
    BY <1>3 DEF RunFullConfig
  <2>2. u \in Logins /\ u \in users
    BY ReachableLogins DEF Logins
  <2>3. GoodPlan(FullConfig(u))
    BY <2>2, FullConfigPlan, ConfigGoesThrough, HarmlessPlan
  <2>4. \A i \in DOMAIN FullConfig(u) :
          FullConfig(u)[i].run # "clear_node" /\ (i > 1 => FullConfig(u)[i].user = "operator")
    BY <2>2, FullConfigPlan, ConfigGoesThrough DEF RunsOf, Clears
  <2>5. Head(FullConfig(u)).user \in users /\ Head(FullConfig(u)).run = "create_user"
    <3>1. Head(FullConfig(u)) = As(u, "create_user")
      BY <2>2, FullConfigPlan
    <3> QED BY <2>2, <3>1 DEF As
  <2> QED BY <2>1, <2>3, <2>4, <2>5, BeginInv
<1>4. CASE CheckSkuTool \/ CollectSysinfo
  <2>1. \A u \in Logins : GoodPlan(ReadSku(u))
    BY ReadSkuPlan, HarmlessPlan DEF Polling
  <2>2. Reachable("operator") \subseteq Logins /\ "operator" \in Logins
    BY ReachableLogins DEF Logins
  <2> QED BY <1>4, <2>1, <2>2, BeginInv DEF CheckSkuTool, CollectSysinfo
<1>5. CASE ScaleK8sNode
  <2>1. <<"scale">> \in Seq(StepNames) /\ NamesOf(<<"scale">>) = {"scale"}
    BY Names, List1
  <2>2. GoodPlan(AsOperator(<<"scale">> \o DevicePods))
    BY <2>1, DevicePodsPlan, NamesOfJoined, NamesPlan DEF Polling
  <2> QED BY <1>5, <2>2, BeginInv DEF ScaleK8sNode
<1>6. CASE BmcPowerCycle
  <2>1. GoodPlan(AsOperator(<<"power_cycle">>))
    BY Names, List1, NamesPlan DEF Polling
  <2> QED BY <1>6, <2>1, BeginInv DEF BmcPowerCycle
<1>7. CASE WaitForBootTool
  <2>1. GoodPlan(AsOperator(<<"wait_for_boot">>))
    BY Names, List1, NamesPlan DEF Polling
  <2> QED BY <1>7, <2>1, BeginInv DEF WaitForBootTool
<1>8. CASE ReallocateNode
  <2>1. ASSUME NEW u \in Reachable("operator"), Begin("reallocate_node", FullConfig(u) \o Allocation)
        PROVE  NodeInv'
    <3>1. u \in Logins
      BY ReachableLogins DEF Logins
    <3>2. <<>> \in Seq(Item) /\ RunsOf(<<>>) = {}
      BY DEF RunsOf
    <3>3. <<>> \o FullConfig(u) = FullConfig(u)
      BY <3>1, FullConfigPlan
    <3>4. GoodPlan(FullConfig(u) \o Allocation)
      BY <3>1, <3>2, <3>3, ReallocationPlan
    <3> QED BY <2>1, <3>4, BeginInv
  <2>2. ASSUME Begin("reallocate_node", AsOperator(<<"power_cycle", "wait_for_boot">>) \o Reset
                                          \o FullConfig("ubuntu") \o Allocation)
        PROVE  NodeInv'
    <3> DEFINE p == AsOperator(<<"power_cycle", "wait_for_boot">>)
    <3>1. p \in Seq(Item) /\ RunsOf(p) = {"power_cycle", "wait_for_boot"}
      BY Names, List2, RunsOfNames
    <3>2. p \o Reset \in Seq(Item) /\ RunsOf(p \o Reset) = RunsOf(p) \cup RunsOf(Reset)
      BY <3>1, ResetPlan, RunsOfJoined
    <3>3. RunsOf(p \o Reset) \cap (Polling \cup {"allocate"}) = {}
      BY <3>1, <3>2, ResetPlan DEF Polling
    <3>4. GoodPlan(p \o Reset \o FullConfig("ubuntu") \o Allocation)
      BY <3>2, <3>3, ReallocationPlan DEF Logins
    <3> QED BY <2>2, <3>4, BeginInv
  <2> QED BY <1>8, <2>1, <2>2 DEF ReallocateNode
<1> QED BY <1>1, <1>2, <1>3, <1>4, <1>5, <1>6, <1>7, <1>8 DEF Tools

\* How a step ends, and what it costs.
LEMMA StepEnds ==
  ASSUME TypeOK, todo # <<>>, Passes \/ Raise
  PROVE  /\ todo' \in Seq(Item) /\ status' \in {"ready_ua", "allocated_ua", "triaged_unknown"}
         /\ Passes => todo' = Tail(todo)
         /\ Raise => todo' = <<>>
<1>1. todo \in Seq(Item) /\ status \in {"ready_ua", "allocated_ua", "triaged_unknown"}
  BY DEF TypeOK, Item
<1>2. Tail(todo) \in Seq(Item) /\ <<>> \in Seq(Item)
  BY <1>1
<1>3. Passes => todo' = Tail(todo) /\ status' = status
  BY DEF Passes, Continue, Goto
<1>4. Raise => todo' = <<>> /\ status' \in {status, "triaged_unknown"}
  BY DEF Raise, Goto
<1> QED BY <1>1, <1>2, <1>3, <1>4

LEMMA StepCosts ==
  ASSUME TypeOK, Fault \/ NoFault
  PROVE  calls' \in 0 .. MaxCalls /\ faults' \in 0 .. MaxFaults
BY PipelineAssumption DEF TypeOK, Fault, NoFault, bounds

LEMMA NextStep ==
  ASSUME NodeInv, NEW names, Running(names)
  PROVE  /\ todo # <<>> /\ Head(todo).run \in names /\ Head(todo) \in Item
         /\ Head(todo).run \in StepNames /\ Head(todo).user \in Logins
<1>1. todo \in Seq(Item) /\ todo # <<>> /\ Head(todo).run \in names
  BY DEF NodeInv, TypeOK, Item, Running
<1>2. Head(todo) \in Item
  BY <1>1
<1> QED BY <1>1, <1>2 DEF Item

\* A step that changes neither the logins nor what the node went through.
LEMMA QuietStep ==
  ASSUME NodeInv, todo # <<>>, Fault \/ NoFault,
         UNCHANGED <<node, users, done, cluster, tool>>,
         job' \in {"none", "queued", "running", "succeeded", "failed", "other"},
         polls' \in 0 .. MaxPolls, power' \in BOOLEAN, up' \in BOOLEAN, up' => power',
         raid' \in {"none", "defined", "active"}, raid = "active" => raid' = "active",
         \/ Raise
         \/ /\ Passes /\ job' = job /\ Head(todo).run \notin Stages \cup {"create_user", "clear_node"}
            /\ Head(todo).run = "check_raid" => raid' = "active"
            /\ Head(todo).run \in {"scale"} \cup Polling => Joined
            /\ Head(todo).run = "check_sku" => SkuKnown
  PROVE  NodeInv'
<1>1. TypeOK'
  <2>1. Stages' = Stages /\ node' \in DOMAIN Hardware
    BY DEF Stages, category, NodeInv, TypeOK
  <2>2. todo' \in Seq(Item) /\ status' \in {"ready_ua", "allocated_ua", "triaged_unknown"}
    BY StepEnds DEF NodeInv
  <2>3. calls' \in 0 .. MaxCalls /\ faults' \in 0 .. MaxFaults
    BY StepCosts DEF NodeInv
  <2> QED BY <2>1, <2>2, <2>3 DEF NodeInv, TypeOK, Item
<1>2. users' # {}
  BY DEF NodeInv, LoginLeft
<1>3. CASE ~ Raise
  <2>1. todo' = Tail(todo)
    BY <1>3, StepEnds DEF NodeInv
  <2>2. Joined => Joined'
    BY <1>3 DEF Joined
  <2> QED BY <1>1, <1>2, <1>3, <2>1, <2>2, StepThrough
<1>4. CASE Raise
  <2>1. todo' = <<>>
    BY <1>4, StepEnds DEF NodeInv
  <2> QED BY <1>1, <1>2, <2>1, CallOver
<1> QED BY <1>3, <1>4

\* A script never removes the login it runs as, nor stops with none left.
LEMMA ScriptLeavesLogin ==
  ASSUME users \subseteq Logins, NEW s \in Item, s.user \in users, ~ SelfDefeating(s)
  PROVE  /\ After(s) \subseteq Logins /\ After(s) # {} /\ \A x \in HalfWay(s) : x \subseteq Logins /\ x # {}
         /\ s.run # "clear_node" /\ "operator" \in users => "operator" \in After(s)
         /\ s.run = "create_user" => "operator" \in After(s)
<1>1. /\ s.run = "harden_node" => s.user = "operator"
      /\ s.run = "create_debug_user" => s.user = "operator"
      /\ s.run = "clear_node" => s.user = "ubuntu"
  BY DEF SelfDefeating, Logins
<1>2. CASE s.run = "create_user"
  BY <1>2 DEF After, HalfWay, Logins
<1>3. CASE s.run = "create_debug_user"
  BY <1>1, <1>3 DEF After, HalfWay, Logins
<1>4. CASE s.run = "harden_node"
  BY <1>1, <1>4 DEF After, HalfWay, Logins
<1>5. CASE s.run = "clear_node"
  BY <1>1, <1>5 DEF After, HalfWay, Logins
<1>6. CASE s.run \notin {"create_user", "create_debug_user", "harden_node", "clear_node"}
  <2>1. After(s) = users /\ \A x \in HalfWay(s) : x = users
    BY <1>6 DEF After, HalfWay
  <2> QED BY <1>6, <2>1
<1> QED BY <1>2, <1>3, <1>4, <1>5, <1>6

LEMMA ScriptInv ==
  ASSUME NodeInv, Script
  PROVE  NodeInv'
<1> DEFINE s == Head(todo)
<1>1. /\ todo # <<>> /\ s \in Item /\ s.run \in StepNames
      /\ s.run \in Stages \cup {"sysinfo", "check_raid", "teardown", "create_debug_user", "clear_node"}
  BY NextStep DEF Script
<1>2. UNCHANGED <<node, power, up, job, tool, polls>> /\ Stages' = Stages
  BY DEF Script, Stages, category
<1>3. users \subseteq Logins /\ users # {}
  BY DEF NodeInv, TypeOK, LoginLeft
<1>4. ASSUME up, s.user \in users, ~ SelfDefeating(s), s.run = "check_raid" => raid = "active",
             users' = After(s), Passes, NoFault,
             IF Wipes(s) THEN done' = {} /\ raid' = "none" /\ cluster' = IF s.run # "teardown" THEN cluster ELSE "out"
             ELSE /\ done' = done \cup ({s.run} \cap Stages)
                  /\ raid' = IF s.run = "config_raid" /\ raid = "none" THEN "defined" ELSE raid
                  /\ UNCHANGED cluster
      PROVE  NodeInv'
  <2>1. /\ users' \subseteq Logins /\ users' # {}
        /\ s.run # "clear_node" /\ "operator" \in users => "operator" \in users'
        /\ s.run = "create_user" => "operator" \in users'
    BY <1>1, <1>3, <1>4, ScriptLeavesLogin
  <2>2. done' \subseteq Stages' /\ raid' \in {"none", "defined", "active"} /\ cluster' \in {"out", "silent", "ready"}
    BY <1>2, <1>4 DEF NodeInv, TypeOK
  <2>3. TypeOK'
    <3>1. /\ todo' \in Seq(Item) /\ status' \in {"ready_ua", "allocated_ua", "triaged_unknown"}
          /\ calls' \in 0 .. MaxCalls /\ faults' \in 0 .. MaxFaults
      BY <1>1, <1>4, StepEnds, StepCosts DEF NodeInv
    <3> QED BY <1>2, <2>1, <2>2, <3>1 DEF NodeInv, TypeOK, Item
  <2>4. todo' = Tail(todo)
    BY <1>1, <1>4, StepEnds DEF NodeInv
  <2>5. ~ Wipes(s) => /\ done \subseteq done'
                      /\ raid = "active" => raid' = "active"
                      /\ Joined => Joined'
    BY <1>2, <1>4 DEF Joined, Wipes
  <2>6. s.run \in Stages => s.run \in done'
    <3>1. s.run \in Stages => ~ Wipes(s)
      BY DEF Stages, Wipes
    <3> QED BY <1>4, <3>1
  <2>7. s.run = "check_raid" => raid' = "active"
    BY <1>4 DEF Wipes
  <2>8. s.run \notin {"scale", "check_sku"} \cup Polling
    BY <1>1 DEF Stages, Polling
  <2> QED BY <1>1, <1>2, <2>1, <2>3, <2>4, <2>5, <2>6, <2>7, <2>8, StepThrough
<1>5. ASSUME Raise, Fault \/ NoFault, users' \subseteq Logins, users' # {}, done' \subseteq Stages,
             raid' \in {"none", "defined", "active"}, cluster' \in {"out", "silent", "ready"}
      PROVE  NodeInv'
  <2>1. TypeOK'
    <3>1. /\ todo' \in Seq(Item) /\ status' \in {"ready_ua", "allocated_ua", "triaged_unknown"}
          /\ calls' \in 0 .. MaxCalls /\ faults' \in 0 .. MaxFaults
      BY <1>1, <1>5, StepEnds, StepCosts DEF NodeInv
    <3> QED BY <1>2, <1>5, <3>1 DEF NodeInv, TypeOK, Item
  <2>2. todo' = <<>>
    BY <1>1, <1>5, StepEnds DEF NodeInv
  <2> QED BY <1>5, <2>1, <2>2, CallOver
<1>6. ASSUME s.user \in users, ~ SelfDefeating(s), users' \in HalfWay(s), Fault, Raise,
             \/ UNCHANGED <<done, raid, cluster>>
             \/ done' = {} /\ raid' = "none" /\ cluster' \in {cluster, "out"}
      PROVE  NodeInv'
  <2>1. users' \subseteq Logins /\ users' # {}
    BY <1>1, <1>3, <1>6, ScriptLeavesLogin
  <2>2. done' \subseteq Stages /\ raid' \in {"none", "defined", "active"} /\ cluster' \in {"out", "silent", "ready"}
    BY <1>6 DEF NodeInv, TypeOK
  <2> QED BY <1>5, <1>6, <2>1, <2>2
<1>7. ASSUME Raise, NoFault, UNCHANGED <<users, done, raid, cluster>> PROVE NodeInv'
  BY <1>3, <1>5, <1>7 DEF NodeInv, TypeOK
<1> QED BY <1>4, <1>6, <1>7 DEF Script

LEMMA QuietStepsInv ==
  ASSUME NodeInv, SyncTime \/ CheckSku \/ WaitForBoot \/ DeletePods \/ RestartDevicePods \/ Allocate
  PROVE  NodeInv'
<1>1. node \in DOMAIN Hardware /\ polls \in 0 .. MaxPolls /\ power \in BOOLEAN /\ up \in BOOLEAN
      /\ (up => power) /\ raid \in {"none", "defined", "active"}
      /\ job \in {"none", "queued", "running", "succeeded", "failed", "other"}
  BY DEF NodeInv, TypeOK
<1>2. ASSUME NEW n \in {"sync_time", "wait_for_boot", "delete_pods", "device_pods", "allocate"},
             Running({n}), Passes \/ Raise, Fault \/ NoFault, UNCHANGED <<machine, job, tool, polls>>
      PROVE  NodeInv'
  <2>1. todo # <<>> /\ Head(todo).run = n
    BY <1>2, NextStep
  <2>2. UNCHANGED <<node, power, up, users, done, raid, cluster, job, tool, polls>>
    BY <1>2 DEF machine
  <2>3. n \notin Stages \cup {"create_user", "clear_node", "check_raid", "scale", "check_sku"} \cup Polling
    BY DEF Stages, Polling
  <2> QED BY <1>1, <1>2, <2>1, <2>2, <2>3, QuietStep
<1>3. CASE CheckSku
  <2>1. todo # <<>> /\ Head(todo).run = "check_sku"
    <3>1. Running({"check_sku"})
      BY <1>3 DEF CheckSku
    <3> QED BY <3>1, NextStep
  <2>2. UNCHANGED <<node, power, up, users, done, raid, cluster, job, tool, polls>>
    BY <1>3 DEF CheckSku, machine
  <2>3. SkuOf[node] # "match failed" => SkuKnown
    <3>1. SkuOf[node] = Match(Hardware[node].info, SpecOf(category))
      BY <1>1 DEF SkuOf, category
    <3> QED BY <3>1 DEF Match, SkuKnown
  <2>4. Raise \/ (Passes /\ SkuKnown)
    BY <1>3, <2>3 DEF CheckSku
  <2>5. "check_sku" \notin Stages \cup {"create_user", "clear_node", "check_raid", "scale"} \cup Polling
    BY DEF Stages, Polling
  <2> QED BY <1>1, <1>3, <2>1, <2>2, <2>4, <2>5, QuietStep DEF CheckSku
<1>4. CASE Allocate
  <2>1. todo # <<>> /\ Head(todo).run = "allocate"
    BY <1>4, NextStep DEF Allocate
  <2>2. UNCHANGED <<node, power, up, users, done, raid, cluster, job, tool, polls>>
    BY <1>4 DEF Allocate, machine
  <2>3. ASSUME status' = "allocated_ua", Continue, NoFault PROVE NodeInv'
    <3>1. todo' = Tail(todo) /\ Tail(todo) \in Seq(Item)
      BY <2>1, <2>3 DEF Continue, Goto, NodeInv, TypeOK, Item
    <3>2. TypeOK'
      <4>1. Stages' = Stages
        BY <2>2 DEF Stages, category
      <4>2. calls' \in 0 .. MaxCalls /\ faults' \in 0 .. MaxFaults
        BY <2>3, StepCosts DEF NodeInv
      <4> QED BY <2>2, <2>3, <3>1, <4>1, <4>2 DEF NodeInv, TypeOK, Item
    <3>3. "allocate" \notin Stages \cup {"create_user", "clear_node", "check_raid", "scale", "check_sku"}
                              \cup Polling
      BY DEF Stages, Polling
    <3>4. Joined => Joined'
      BY <2>2 DEF Joined
    <3> QED BY <2>1, <2>2, <3>1, <3>2, <3>3, <3>4, StepThrough DEF NodeInv, LoginLeft
  <2>4. ASSUME Raise, Fault PROVE NodeInv'
    BY <1>2, <1>4, <2>4 DEF Allocate
  <2> QED BY <1>4, <2>3, <2>4 DEF Allocate, Allocated
<1> QED BY <1>2, <1>3, <1>4 DEF SyncTime, WaitForBoot, DeletePods, RestartDevicePods, NoFault, bounds

LEMMA BootsInv ==
  ASSUME NodeInv, RebootAndWait \/ PowerCycle
  PROVE  NodeInv'
<1>1. /\ power \in BOOLEAN /\ up \in BOOLEAN /\ (up => power) /\ polls \in 0 .. MaxPolls
      /\ raid \in {"none", "defined", "active"}
      /\ job \in {"none", "queued", "running", "succeeded", "failed", "other"}
  BY DEF NodeInv, TypeOK
<1>2. CASE RebootAndWait
  <2>1. todo # <<>> /\ Head(todo).run = "reboot"
    <3>1. Running({"reboot"})
      BY <1>2 DEF RebootAndWait
    <3> QED BY <3>1, NextStep
  <2>2. "reboot" \notin Stages \cup {"create_user", "clear_node", "check_raid", "scale", "check_sku"}
                        \cup Polling
    BY DEF Stages, Polling
  <2>3. UNCHANGED <<node, users, done, cluster, job, tool, polls>>
    BY <1>2 DEF RebootAndWait
  <2>4. /\ power' \in BOOLEAN /\ up' \in BOOLEAN /\ (up' => power')
        /\ raid' \in {"none", "defined", "active"} /\ (raid = "active" => raid' = "active")
    <3>1. \/ up' = TRUE /\ up /\ power' = power
          \/ up' = up /\ power' = power
          \/ up' = FALSE /\ power' \in BOOLEAN
      BY <1>2 DEF RebootAndWait, Boots
    <3>2. raid' = raid \/ raid' = "active"
      BY <1>2 DEF RebootAndWait, Boots
    <3>3. CASE up' = TRUE /\ up /\ power' = power
      BY <1>1, <3>2, <3>3
    <3>4. CASE up' = up /\ power' = power
      BY <1>1, <3>2, <3>4
    <3>5. CASE up' = FALSE /\ power' \in BOOLEAN
      BY <1>1, <3>2, <3>5
    <3> QED BY <3>1, <3>3, <3>4, <3>5
  <2>5. (Fault \/ NoFault) /\ (Passes \/ Raise)
    BY <1>2 DEF RebootAndWait
  <2> QED BY <1>1, <2>1, <2>2, <2>3, <2>4, <2>5, QuietStep
<1>3. CASE PowerCycle
  <2>1. todo # <<>> /\ Head(todo).run = "power_cycle"
    <3>1. Running({"power_cycle"})
      BY <1>3 DEF PowerCycle
    <3> QED BY <3>1, NextStep
  <2>2. "power_cycle" \notin Stages \cup {"create_user", "clear_node", "check_raid", "scale", "check_sku"}
                             \cup Polling
    BY DEF Stages, Polling
  <2>3. UNCHANGED <<node, users, done, raid, cluster, job, tool, polls>>
    BY <1>3 DEF PowerCycle
  <2>4. power' \in BOOLEAN /\ up' \in BOOLEAN /\ (up' => power')
    <3>1. \/ up' = up /\ power' = power
          \/ up' = FALSE /\ power' \in BOOLEAN
          \/ up' = (up /\ power') /\ power' \in BOOLEAN
      BY <1>3 DEF PowerCycle
    <3>2. CASE up' = up /\ power' = power
      BY <1>1, <3>2
    <3>3. CASE up' = FALSE /\ power' \in BOOLEAN
      BY <3>3
    <3>4. CASE up' = (up /\ power') /\ power' \in BOOLEAN
      BY <1>1, <3>4
    <3> QED BY <3>1, <3>2, <3>3, <3>4
  <2>5. (Fault \/ NoFault) /\ (Passes \/ Raise)
    BY <1>3 DEF PowerCycle
  <2> QED BY <1>1, <2>1, <2>2, <2>3, <2>4, <2>5, QuietStep
<1> QED BY <1>2, <1>3

\* The steps of Kubernetes.
LEMMA ScaleInv ==
  ASSUME NodeInv, ScaleNode
  PROVE  NodeInv'
<1>1. todo # <<>> /\ Head(todo).run = "scale" /\ Head(todo) \in Item
  <2>1. Running({"scale"})
    BY DEF ScaleNode
  <2> QED BY <2>1, NextStep
<1>2. UNCHANGED <<node, power, up, users, done, raid, cluster, tool, polls>> /\ TypeOK
  BY DEF ScaleNode, machine, NodeInv
<1>3. Stages' = Stages /\ todo \in Seq(Item) /\ Tail(todo) \in Seq(Item)
  BY <1>1, <1>2 DEF Stages, category, TypeOK, Item
<1>4. ASSUME cluster = "ready", Passes, NoFault, UNCHANGED job PROVE NodeInv'
  <2>1. "scale" \notin Stages \cup {"create_user", "clear_node", "check_raid", "check_sku"} \cup Polling
    BY DEF Stages, Polling
  <2>2. Joined
    BY <1>4 DEF Joined
  <2> QED BY <1>1, <1>2, <1>4, <2>1, <2>2, QuietStep DEF TypeOK
<1>5. ASSUME job' = "queued", Goto(<<As("operator", "queued")>> \o Tail(todo)), NoFault,
             UNCHANGED status
      PROVE  NodeInv'
  <2>1. <<As("operator", "queued")>> \in Seq(Item)
    <3>1. "operator" \in Logins /\ "queued" \in StepNames
      BY DEF Logins, StepNames
    <3> QED BY <3>1, ItemIs
  <2>2. todo' \in Seq(Item) /\ todo' = <<As("operator", "queued")>> \o Tail(todo)
    BY <1>3, <1>5, <2>1 DEF Goto
  <2>3. TypeOK'
    BY <1>2, <1>3, <1>5, <2>2 DEF TypeOK, Item, NoFault, bounds
  <2>4. "queued" \in Polling
    BY DEF Polling
  <2> QED BY <1>1, <1>2, <1>5, <2>2, <2>3, <2>4, PollNext
<1>6. ASSUME Fault, Raise, job' \in {job, "queued"} PROVE NodeInv'
  <2>1. job' \in {"none", "queued", "running", "succeeded", "failed", "other"}
    BY <1>2, <1>6 DEF TypeOK
  <2> QED BY <1>1, <1>2, <1>6, <2>1, QuietStep DEF TypeOK
<1> QED BY <1>4, <1>5, <1>6 DEF ScaleNode

LEMMA PollQueuedInv ==
  ASSUME NodeInv, PollQueued
  PROVE  NodeInv'
<1>1. todo # <<>> /\ Head(todo).run = "queued"
  <2>1. Running({"queued"})
    BY DEF PollQueued
  <2> QED BY <2>1, NextStep
<1>2. UNCHANGED <<node, power, up, users, done, raid, cluster, tool, job>> /\ TypeOK
  BY DEF PollQueued, machine, NodeInv
<1>3. Stages' = Stages /\ todo \in Seq(Item) /\ Tail(todo) \in Seq(Item)
  BY <1>1, <1>2 DEF Stages, category, TypeOK, Item
<1>4. ASSUME Raise, Fault \/ NoFault, UNCHANGED polls PROVE NodeInv'
  BY <1>1, <1>2, <1>4, QuietStep DEF TypeOK
<1>5. ASSUME job = "running", Goto(<<As("operator", "running")>> \o Tail(todo)), polls' = 0,
             NoFault, UNCHANGED status
      PROVE  NodeInv'
  <2>1. <<As("operator", "running")>> \in Seq(Item)
    <3>1. "operator" \in Logins /\ "running" \in StepNames
      BY DEF Logins, StepNames
    <3> QED BY <3>1, ItemIs
  <2>2. todo' \in Seq(Item) /\ todo' = <<As("operator", "running")>> \o Tail(todo)
    BY <1>3, <1>5, <2>1 DEF Goto
  <2>3. polls' \in 0 .. MaxPolls
    BY <1>5, PipelineAssumption
  <2>4. TypeOK'
    BY <1>2, <1>3, <1>5, <2>2, <2>3 DEF TypeOK, Item, NoFault, bounds
  <2>5. "running" \in Polling /\ job' # "succeeded"
    BY <1>2, <1>5 DEF Polling
  <2> QED BY <1>1, <1>2, <2>2, <2>4, <2>5, PollNext
<1>6. ASSUME job \in {"succeeded", "other"}, Passes, NoFault, UNCHANGED polls PROVE NodeInv'
  <2>1. Joined
    BY <1>1, <1>6 DEF NodeInv, PollsFirst, Polling, Joined
  <2>2. "queued" \notin Stages \cup {"create_user", "clear_node", "check_raid", "check_sku"}
    BY DEF Stages
  <2> QED BY <1>1, <1>2, <1>6, <2>1, <2>2, QuietStep DEF TypeOK
<1> QED BY <1>4, <1>5, <1>6 DEF PollQueued

LEMMA PollRunningInv ==
  ASSUME NodeInv, PollRunning
  PROVE  NodeInv'
<1>1. todo # <<>> /\ Head(todo).run = "running"
  <2>1. Running({"running"})
    BY DEF PollRunning
  <2> QED BY <2>1, NextStep
<1>2. UNCHANGED <<node, power, up, users, done, raid, cluster, tool, job>> /\ TypeOK
  BY DEF PollRunning, machine, NodeInv
<1>3. ASSUME Raise, UNCHANGED polls, Fault \/ NoFault PROVE NodeInv'
  BY <1>1, <1>2, <1>3, QuietStep DEF TypeOK
<1>4. ASSUME job = "succeeded", Passes, NoFault, UNCHANGED polls PROVE NodeInv'
  <2>1. Joined
    BY <1>1, <1>4 DEF NodeInv, PollsFirst, Polling, Joined
  <2>2. "running" \notin Stages \cup {"create_user", "clear_node", "check_raid", "check_sku"}
    BY DEF Stages
  <2> QED BY <1>1, <1>2, <1>4, <2>1, <2>2, QuietStep DEF TypeOK
<1>5. ASSUME PollsLeft, Counted, NoFault, UNCHANGED <<todo, status>> PROVE NodeInv'
  <2>1. polls' \in 0 .. MaxPolls
    BY <1>2, <1>5, PipelineAssumption DEF TypeOK, PollsLeft, Counted
  <2>2. Stages' = Stages
    BY <1>2 DEF Stages, category
  <2>3. TypeOK'
    BY <1>2, <1>5, <2>1, <2>2 DEF TypeOK, NoFault, bounds
  <2>4. Joined => Joined'
    BY <1>2 DEF Joined
  <2> QED BY <1>2, <1>5, <2>3, <2>4, PlanKept
<1> QED BY <1>3, <1>4, <1>5 DEF PollRunning, GivesUp

LEMMA StepInv ==
  ASSUME NodeInv, Step
  PROVE  NodeInv'
BY ScriptInv, QuietStepsInv, BootsInv, ScaleInv, PollQueuedInv, PollRunningInv DEF Step, Goes

\* The service, the node itself, and whoever ends a call.
LEMMA OthersInv ==
  ASSUME NodeInv, JobStarts \/ JobEnds \/ Heartbeat \/ BootsUp \/ Killed \/ Crash
  PROVE  NodeInv'
<1>1. CASE Killed
  <2>1. calls' \in 0 .. MaxCalls /\ faults' \in 0 .. MaxFaults
    BY <1>1, StepCosts DEF Killed, NodeInv
  <2>2. todo' = <<>> /\ <<>> \in Seq(Item)
    BY <1>1 DEF Killed, Goto
  <2>3. UNCHANGED <<node, power, up, users, done, raid, cluster, job, status, tool, polls>>
    BY <1>1 DEF Killed, machine
  <2>4. Stages' = Stages
    BY <2>3 DEF Stages, category
  <2>5. TypeOK'
    BY <2>1, <2>2, <2>3, <2>4 DEF NodeInv, TypeOK, Item
  <2> QED BY <2>2, <2>3, <2>5, CallOver DEF NodeInv, LoginLeft
<1>2. CASE JobStarts \/ JobEnds \/ Heartbeat \/ BootsUp
  <2>1. UNCHANGED <<node, power, users, done, status, tool, todo, polls, calls, faults>>
    BY <1>2 DEF JobStarts, JobEnds, Heartbeat, BootsUp, machine, bounds
  <2>2. /\ up' \in BOOLEAN /\ (up' => power) /\ raid' \in {"none", "defined", "active"}
        /\ raid = "active" => raid' = "active"
    <3>1. up \in BOOLEAN /\ (up => power) /\ raid \in {"none", "defined", "active"}
      BY DEF NodeInv, TypeOK
    <3>2. CASE JobStarts \/ JobEnds \/ Heartbeat
      BY <3>1, <3>2 DEF JobStarts, JobEnds, Heartbeat, machine
    <3>3. CASE BootsUp
      <4>1. up' = TRUE /\ power /\ (raid' = raid \/ raid' = "active")
        BY <3>3 DEF BootsUp, Boots
      <4> QED BY <3>1, <4>1
    <3> QED BY <1>2, <3>2, <3>3
  <2>3. /\ cluster' \in {"out", "silent", "ready"}
        /\ job' \in {"none", "queued", "running", "succeeded", "failed", "other"}
        /\ cluster # "out" => cluster' # "out"
        /\ job = "other" => job' = "other"
        /\ job' = "succeeded" => cluster' # "out" \/ job = "succeeded"
    <3>1. /\ cluster \in {"out", "silent", "ready"}
          /\ job \in {"none", "queued", "running", "succeeded", "failed", "other"}
      BY DEF NodeInv, TypeOK
    <3>2. CASE JobStarts
      BY <3>1, <3>2 DEF JobStarts, machine
    <3>3. CASE JobEnds
      BY <3>1, <3>3 DEF JobEnds
    <3>4. CASE Heartbeat
      BY <3>1, <3>4 DEF Heartbeat
    <3>5. CASE BootsUp
      BY <3>1, <3>5 DEF BootsUp
    <3> QED BY <1>2, <3>2, <3>3, <3>4, <3>5
  <2>4. Stages' = Stages /\ (Joined => Joined')
    BY <2>1, <2>3 DEF Stages, category, Joined
  <2>5. TypeOK'
    BY <2>1, <2>2, <2>3, <2>4 DEF NodeInv, TypeOK
  <2> QED BY <2>1, <2>2, <2>3, <2>4, <2>5, PlanKept
<1>3. CASE Crash
  <2>1. calls' \in 0 .. MaxCalls /\ faults' \in 0 .. MaxFaults
    BY <1>3, StepCosts DEF Crash, NodeInv
  <2>2. UNCHANGED <<node, users, done, raid, cluster, job, status, tool, todo, polls>>
        /\ up' = FALSE /\ power' \in BOOLEAN
    BY <1>3 DEF Crash
  <2>3. Stages' = Stages /\ (Joined => Joined')
    BY <2>2 DEF Stages, category, Joined
  <2>4. TypeOK'
    BY <2>1, <2>2, <2>3 DEF NodeInv, TypeOK
  <2> QED BY <2>2, <2>3, <2>4, PlanKept
<1> QED BY <1>1, <1>2, <1>3

LEMMA NodeStutterInv ==
  ASSUME NodeInv, UNCHANGED vars
  PROVE  NodeInv'
<1>1. UNCHANGED <<node, power, up, users, done, raid, cluster, job, status, tool, todo, polls, calls, faults>>
  BY DEF vars, machine, bounds
<1>2. Stages' = Stages /\ (Joined => Joined')
  BY <1>1 DEF Stages, category, Joined
<1>3. TypeOK'
  BY <1>1, <1>2 DEF NodeInv, TypeOK
<1> QED BY <1>1, <1>2, <1>3, PlanKept

LEMMA NodeInit ==
  ASSUME Init
  PROVE  NodeInv
<1>1. users \subseteq Logins /\ users # {} /\ todo = <<>> /\ <<>> \in Seq(Item)
  BY DEF Init
<1>2. DOMAIN todo = {} /\ RunsOf(todo) = {}
  BY <1>1 DEF RunsOf
<1>3. power \in BOOLEAN /\ up \in BOOLEAN /\ (up => power)
  <2>1. power \in BOOLEAN /\ (up = FALSE \/ up = power)
    BY DEF Init
  <2>2. CASE up = FALSE
    BY <2>1, <2>2
  <2>3. CASE up = power
    BY <2>1, <2>3
  <2> QED BY <2>1, <2>2, <2>3
<1>4. polls \in 0 .. MaxPolls /\ calls \in 0 .. MaxCalls /\ faults \in 0 .. MaxFaults
  BY PipelineAssumption DEF Init
<1>5. TypeOK
  BY <1>1, <1>3, <1>4 DEF Init, TypeOK, Item
<1> QED BY <1>1, <1>2, <1>5
        DEF NodeInv, LoginLeft, PollsFirst, AllocationPlan, AllocatesLast, ConfigPlan

THEOREM NodeInvariant == Spec => []NodeInv
<1>1. NodeInv /\ [Next]_vars => NodeInv'
  BY StepInv, ToolsInv, OthersInv, NodeStutterInv DEF Next
<1> QED BY NodeInit, <1>1, PTL DEF Spec

\* Type correctness: what is left of a call is always steps the tools know, run as logins
\* there are, whatever was put before it.
THEOREM NodeTypeCorrect == Spec => []TypeOK
BY NodeInvariant, PTL DEF NodeInv

\* Whatever step of whatever tool stops half-way, and whatever tool is called next on the node,
\* the node keeps a login (create_user, create_debug_user, harden_node and clear_node scripts).
THEOREM LoginsAreLeft == Spec => []LoginLeft
BY NodeInvariant, PTL DEF NodeInv

\* run_full_config goes in as a login the node has and goes on as operator, which none of its
\* steps removes: it never locks itself out (_run_pipeline).
THEOREM ConfigurationsHaveLogins == Spec => []ConfigLogins
<1>1. NodeInv => ConfigLogins
  <2> SUFFICES ASSUME NodeInv, tool = "run_full_config", todo # <<>> PROVE Head(todo).user \in users
    BY DEF ConfigLogins
  <2> QED BY DEF NodeInv, ConfigPlan
<1> QED BY NodeInvariant, <1>1, PTL

\* The step that allocates is the last of a plan that owes nothing any more.
LEMMA AllocatingStep ==
  ASSUME NodeInv, Running({"allocate"})
  PROVE  Configured
<1>1. todo \in Seq(Item) /\ todo # <<>> /\ Head(todo).run = "allocate"
  BY NextStep DEF NodeInv, TypeOK, Item
<1>2. Len(todo) \in Nat \ {0} /\ DOMAIN todo = 1 .. Len(todo) /\ Head(todo) = todo[1]
  BY <1>1
<1>3. Len(todo) = 1
  BY <1>1, <1>2 DEF NodeInv, AllocationPlan, AllocatesLast
<1>4. RunsOf(todo) = {"allocate"}
  BY <1>1, <1>2, <1>3 DEF RunsOf
<1>5. Owed(todo)
  BY <1>4 DEF NodeInv, AllocationPlan
<1>6. "allocate" \notin Stages \cup {"create_user", "check_raid", "scale", "check_sku"} \cup Polling
  BY DEF Stages, Polling
<1> QED BY <1>4, <1>5, <1>6 DEF Owed, SkuKnown, Joined, Prepared, Configured

\* reallocate_node allocates only a node that went through every stage, for every category of
\* hardware and wherever earlier calls stopped: what a reset or a tool in between cleared is
\* behind the steps that rebuild it.  That the node is in the cluster is shown but for a job that
\* ended in a way the code has no name for.
THEOREM AllocatedNodesAreConfigured == Spec => AllocatesConfigured
<1>1. NodeInv /\ [Next]_vars => [Running({"allocate"}) /\ Allocated => Configured]_vars
  BY AllocatingStep
<1> QED BY NodeInvariant, <1>1, PTL DEF Spec, AllocatesConfigured

-----------------------------------------------------------------------------
(* The guardrails: what a call and an alert may be.                        *)

IdleCall == [at : {"idle"}]
CheckCall ==
  [at : {"count", "test", "use"}, action : Actions, host : Hosts, halted : BOOLEAN, alone : BOOLEAN]
FailureCall ==
  [at : {"prune", "size", "trip"}, action : Actions, failure : Failure, alone : BOOLEAN]
WriteCall ==
  [at : {"write"}, action : Actions, failure : Failure, alone : BOOLEAN, kept : SUBSET Failure]
SuccessCall == [at : {"find", "close"}, action : Actions, alone : BOOLEAN]
ResetCall == [at : {"halt", "reset"}, action : Actions]
CircuitCall ==
  [at : {"circuit"}, action : Actions, host : Hosts, halted : BOOLEAN, alone : BOOLEAN, trip : Nat]
DispatchCall ==
  [at : {"dispatch"}, action : Actions, host : Hosts, halted : BOOLEAN, alone : BOOLEAN, trip : Nat,
   seen : SUBSET Nat, since : Nat]
RecordCall == [at : {"record"}, action : Actions, host : Hosts, n : Nat]
VerifyCall == [at : {"verify"}, action : Actions, verified : BOOLEAN, n : Nat]
GuardCall ==
  IdleCall \cup CheckCall \cup FailureCall \cup WriteCall \cup SuccessCall \cup ResetCall
  \cup CircuitCall \cup DispatchCall \cup RecordCall \cup VerifyCall

Alert ==
  [action : Actions, host : Hosts, halted : BOOLEAN, alone : BOOLEAN, trip : Nat,
   seen : SUBSET Nat, since : Nat, at : Nat]

GuardTyped ==
  /\ GuardTypeOK
  /\ call \in [Callers -> GuardCall] /\ sent \in Seq(Alert) /\ trips \in [Actions -> Nat]

LEMMA CallKinds ==
  ASSUME NEW r \in GuardCall
  PROVE  /\ r.at \in {"idle", "circuit", "dispatch", "record", "verify"} \cup Inside
         /\ r.at \in Checks => r \in CheckCall
         /\ r.at \in {"prune", "size", "trip"} => r \in FailureCall
         /\ r.at = "write" => r \in WriteCall
         /\ r.at \in {"find", "close"} => r \in SuccessCall
         /\ r.at \in Resets => r \in ResetCall
         /\ r.at = "circuit" => r \in CircuitCall
         /\ r.at = "dispatch" => r \in DispatchCall
         /\ r.at = "record" => r \in RecordCall
         /\ r.at = "verify" => r \in VerifyCall
         /\ r.at # "idle" => r.action \in Actions
BY DEF GuardCall, IdleCall, CheckCall, FailureCall, WriteCall, SuccessCall, ResetCall, CircuitCall,
       DispatchCall, RecordCall, VerifyCall, Inside, Checks, Records, Resets

LEMMA IdleIs == Idle \in GuardCall /\ Idle.at = "idle"
BY DEF Idle, GuardCall, IdleCall

LEMMA CallTyped ==
  ASSUME GuardTyped, NEW c \in Callers
  PROVE  /\ call[c] \in GuardCall
         /\ call[c].at \in {"idle", "circuit", "dispatch", "record", "verify"} \cup Inside
         /\ call[c].at \in Checks => call[c] \in CheckCall
         /\ call[c].at \in {"prune", "size", "trip"} => call[c] \in FailureCall
         /\ call[c].at = "write" => call[c] \in WriteCall
         /\ call[c].at \in {"find", "close"} => call[c] \in SuccessCall
         /\ call[c].at \in Resets => call[c] \in ResetCall
         /\ call[c].at = "circuit" => call[c] \in CircuitCall
         /\ call[c].at = "dispatch" => call[c] \in DispatchCall
         /\ call[c].at = "record" => call[c] \in RecordCall
         /\ call[c].at = "verify" => call[c] \in VerifyCall
         /\ call[c].at # "idle" => call[c].action \in Actions
<1>1. call[c] \in GuardCall
  BY DEF GuardTyped
<1> QED BY <1>1, CallKinds

\* Only the call of c changes.
LEMMA SetCall ==
  ASSUME call \in [Callers -> GuardCall], NEW c \in Callers, NEW r \in GuardCall, Set(c, r)
  PROVE  /\ call' \in [Callers -> GuardCall] /\ call'[c] = r
         /\ \A d \in Callers \ {c} : call'[d] = call[d]
BY DEF Set

\* A call that is disturbed is no longer alone, and the same otherwise.
Disturbed(r) == [r EXCEPT !.alone = FALSE]

LEMMA DisturbedIs ==
  ASSUME NEW r \in GuardCall, r.at \in Checks \cup Records
  PROVE  /\ Disturbed(r) \in GuardCall /\ Disturbed(r).alone = FALSE
         /\ Disturbed(r).at = r.at /\ Disturbed(r).action = r.action
         /\ r.at \in Checks => Disturbed(r).host = r.host /\ Disturbed(r).halted = r.halted
         /\ r.at \in {"prune", "size", "trip", "write"} => Disturbed(r).failure = r.failure
         /\ r.at = "write" => Disturbed(r).kept = r.kept
<1>1. r \in CheckCall \cup FailureCall \cup WriteCall \cup SuccessCall
  BY CallKinds DEF Checks, Records
<1>2. /\ Disturbed(r) \in CheckCall \cup FailureCall \cup WriteCall \cup SuccessCall
      /\ Disturbed(r).alone = FALSE
      /\ Disturbed(r).at = r.at /\ Disturbed(r).action = r.action
      /\ r.at \in Checks => Disturbed(r).host = r.host /\ Disturbed(r).halted = r.halted
      /\ r.at \in {"prune", "size", "trip", "write"} => Disturbed(r).failure = r.failure
      /\ r.at = "write" => Disturbed(r).kept = r.kept
  BY <1>1 DEF Disturbed, CheckCall, FailureCall, WriteCall, SuccessCall, Checks
<1> QED BY <1>2 DEF GuardCall

\* What entering a function of the breaker does to the calls.
LEMMA EnterCall ==
  ASSUME call \in [Callers -> GuardCall], NEW c \in Callers, NEW r \in GuardCall,
         r.at \in Checks \cup Records, NEW meets, NEW disturbs \in SUBSET (Checks \cup Records),
         Enter(c, r, meets, disturbs)
  PROVE  /\ call' \in [Callers -> GuardCall]
         /\ call'[c] = [r EXCEPT !.alone = ~ Meets(c, r.action, meets)]
         /\ \A d \in Callers \ {c} :
              call'[d] = IF At(d, r.action, disturbs) THEN Disturbed(call[d]) ELSE call[d]
<1> DEFINE v == ~ Meets(c, r.action, meets)
<1>1. call'[c] = [r EXCEPT !.alone = v] /\ DOMAIN call' = Callers
  BY DEF Enter
<1>2. \A d \in Callers \ {c} :
        call'[d] = IF At(d, r.action, disturbs) THEN Disturbed(call[d]) ELSE call[d]
  BY DEF Enter, Disturbed
<1>3. v \in BOOLEAN
  BY DEF Meets
<1>4. [r EXCEPT !.alone = v] \in GuardCall
  <2> HIDE DEF v
  <2>1. r \in CheckCall \cup FailureCall \cup WriteCall \cup SuccessCall
    BY CallKinds DEF Checks, Records
  <2>2. [r EXCEPT !.alone = v] \in CheckCall \cup FailureCall \cup WriteCall \cup SuccessCall
    BY <1>3, <2>1 DEF CheckCall, FailureCall, WriteCall, SuccessCall
  <2> QED BY <2>2 DEF GuardCall
<1>5. \A d \in Callers \ {c} : call'[d] \in GuardCall
  <2> SUFFICES ASSUME NEW d \in Callers \ {c} PROVE call'[d] \in GuardCall
    OBVIOUS
  <2>1. At(d, r.action, disturbs) => call[d].at \in Checks \cup Records
    BY DEF At
  <2> QED BY <1>2, <2>1, DisturbedIs
<1>6. call' \in [Callers -> GuardCall]
  <2>1. \A d \in Callers : call'[d] \in GuardCall
    BY <1>1, <1>4, <1>5
  <2> DEFINE g(d) == call'[d]
  <2>2. call' = [d \in Callers |-> g(d)]
    BY DEF Enter
  <2>3. \A d \in Callers : g(d) \in GuardCall
    BY <2>1
  <2> HIDE DEF g
  <2> QED BY <2>2, <2>3
<1> QED BY <1>1, <1>2, <1>6

LEMMA MoreValues ==
  ASSUME NEW S, NEW T, S \subseteq T, NEW s \in Seq(S)
  PROVE  s \in Seq(T)
<1>1. \A i \in 1 .. Len(s) : s[i] \in T
  OBVIOUS
<1> QED BY <1>1

\* The parts of the type invariant, put together.
LEMMA TypedAgain ==
  ASSUME lastRun' \in [Actions \X Hosts -> Nat \cup {Never}],
         failureLog' \in [Actions -> SUBSET Failure], failed' \in [Actions -> SUBSET Failure],
         circuit' \in [Actions -> Nat \cup {Closed}], testDone' \in [Actions -> BOOLEAN],
         clock' \in 0 .. MaxTime, callsLeft' \in 0 .. MaxGuardCalls,
         restarts' \in 0 .. MaxRestarts, recorded' \subseteq 1 .. Len(sent'),
         call' \in [Callers -> GuardCall], sent' \in Seq(Alert), trips' \in [Actions -> Nat]
  PROVE  GuardTyped'
<1>1. ASSUME NEW c \in Callers
      PROVE  call'[c].at \in {"idle", "circuit", "dispatch", "record", "verify"} \cup Inside
  BY CallKinds
<1> QED BY <1>1 DEF GuardTyped, GuardTypeOK, Never, Closed

\* Only the breaker and the calls change.
LEMMA BreakerTyped ==
  ASSUME GuardTyped, UNCHANGED <<lastRun, clock, restarts, sent, recorded>>,
         callsLeft' \in 0 .. MaxGuardCalls, call' \in [Callers -> GuardCall],
         failureLog' \in [Actions -> SUBSET Failure], failed' \in [Actions -> SUBSET Failure],
         circuit' \in [Actions -> Nat \cup {Closed}], testDone' \in [Actions -> BOOLEAN],
         trips' \in [Actions -> Nat]
  PROVE  GuardTyped'
BY TypedAgain DEF GuardTyped, GuardTypeOK

\* Only the calls change.
LEMMA CallsTyped ==
  ASSUME GuardTyped, UNCHANGED <<memory, clock, restarts, history>>,
         callsLeft' \in 0 .. MaxGuardCalls, call' \in [Callers -> GuardCall]
  PROVE  GuardTyped'
BY BreakerTyped DEF GuardTyped, GuardTypeOK, memory, history

LEMMA BeginTyped ==
  ASSUME GuardTyped, NEW c, BeginCall(c)
  PROVE  callsLeft' \in 0 .. MaxGuardCalls /\ callsLeft \in Nat
BY GuardAssumption DEF GuardTyped, GuardTypeOK, BeginCall

\* check_circuit: where the call goes on.
LEMMA ReadStateEffect ==
  ASSUME GuardTyped, NEW c \in Callers, ReadState(c)
  PROVE  /\ call' \in [Callers -> GuardCall] /\ call[c].at = "idle"
         /\ UNCHANGED <<memory, clock, restarts, history>>
         /\ \/ UNCHANGED call
            \/ \E a \in Actions :
                 /\ call'[c].at = IF circuit[a] = Closed THEN "count" ELSE "test"
                 /\ circuit[a] = Closed \/ ~ (clock - circuit[a] < CircuitCooldown)
                 /\ call'[c].action = a /\ call'[c].halted = Halted(a)
                 /\ call'[c].alone = ~ Meets(c, a, Inside)
                 /\ \A d \in Callers \ {c} :
                      call'[d] = IF At(d, a, Checks) THEN Disturbed(call[d]) ELSE call[d]
<1>1. PICK a \in Actions, h \in Hosts :
        IF circuit[a] # Closed /\ clock - circuit[a] < CircuitCooldown THEN UNCHANGED call
        ELSE Enter(c, [at |-> IF circuit[a] = Closed THEN "count" ELSE "test", action |-> a,
                       host |-> h, halted |-> Halted(a), alone |-> TRUE], Inside, Checks)
  BY DEF ReadState
<1> DEFINE r == [at |-> IF circuit[a] = Closed THEN "count" ELSE "test", action |-> a,
                 host |-> h, halted |-> Halted(a), alone |-> TRUE]
<1>2. Halted(a) \in BOOLEAN
  BY DEF Halted
<1>3. r \in CheckCall
  BY <1>2 DEF CheckCall
<1>4. r \in GuardCall /\ r.at \in Checks \cup Records /\ r.action = a
  BY <1>3 DEF GuardCall, Checks
<1>5. UNCHANGED <<memory, clock, restarts, history>> /\ call[c].at = "idle"
  BY DEF ReadState, BeginCall
<1>6. CASE UNCHANGED call
  BY <1>5, <1>6 DEF GuardTyped
<1>7. CASE Enter(c, r, Inside, Checks) /\ (circuit[a] = Closed \/ ~ (clock - circuit[a] < CircuitCooldown))
  <2> DEFINE v == ~ Meets(c, a, Inside)
  <2>1. /\ call' \in [Callers -> GuardCall]
        /\ call'[c] = [r EXCEPT !.alone = v]
        /\ \A d \in Callers \ {c} :
             call'[d] = IF At(d, a, Checks) THEN Disturbed(call[d]) ELSE call[d]
    <3> HIDE DEF r
    <3>1. Checks \in SUBSET (Checks \cup Records)
      OBVIOUS
    <3>2. call \in [Callers -> GuardCall] /\ Enter(c, r, Inside, Checks)
      BY <1>7 DEF GuardTyped
    <3>3. /\ call' \in [Callers -> GuardCall]
          /\ call'[c] = [r EXCEPT !.alone = ~ Meets(c, r.action, Inside)]
          /\ \A d \in Callers \ {c} :
               call'[d] = IF At(d, r.action, Checks) THEN Disturbed(call[d]) ELSE call[d]
      BY <1>4, <3>1, <3>2, EnterCall
    <3> QED BY <1>4, <3>3
  <2>2. /\ [r EXCEPT !.alone = v].at = IF circuit[a] = Closed THEN "count" ELSE "test"
        /\ [r EXCEPT !.alone = v].action = a /\ [r EXCEPT !.alone = v].halted = Halted(a)
        /\ [r EXCEPT !.alone = v].alone = v
    <3> HIDE DEF v
    <3> QED OBVIOUS
  <2> HIDE DEF r
  <2> QED BY <1>5, <1>7, <2>1, <2>2
<1> QED BY <1>1, <1>6, <1>7

\* The three steps that go on to the Alert Manager, or end.
LEMMA PassTyped ==
  ASSUME GuardTyped, NEW c \in Callers, NEW t \in Nat, call[c].at \in Checks, Pass(c, t)
  PROVE  /\ call' \in [Callers -> GuardCall]
         /\ call'[c].at = "circuit" /\ call'[c].action = call[c].action
         /\ call'[c].halted = call[c].halted /\ call'[c].alone = call[c].alone
         /\ call'[c].trip = t /\ \A d \in Callers \ {c} : call'[d] = call[d]
<1> DEFINE r == call[c]
           p == [at |-> "circuit", action |-> r.action, host |-> r.host, halted |-> r.halted,
                 alone |-> r.alone, trip |-> t]
<1>1. r \in CheckCall
  BY CallTyped
<1>2. p \in CircuitCall
  BY <1>1 DEF CheckCall, CircuitCall
<1>3. p \in GuardCall
  BY <1>2 DEF GuardCall
<1>4. Set(c, p)
  BY DEF Pass
<1>5. /\ p.at = "circuit" /\ p.action = r.action /\ p.halted = r.halted /\ p.alone = r.alone
      /\ p.trip = t
  OBVIOUS
<1> HIDE DEF p
<1> QED BY <1>3, <1>4, <1>5, SetCall DEF GuardTyped

\* A call goes to another step of the same function, with what it knows, and nobody else moves.
LEMMA MoveTyped ==
  ASSUME GuardTyped, NEW c \in Callers, NEW r \in GuardCall, Set(c, r),
         UNCHANGED callsLeft
  PROVE  /\ call' \in [Callers -> GuardCall] /\ call'[c] = r /\ callsLeft' \in 0 .. MaxGuardCalls
         /\ \A d \in Callers \ {c} : call'[d] = call[d]
BY SetCall DEF GuardTyped, GuardTypeOK

LEMMA ResetIs ==
  ASSUME NEW a \in Actions, NEW at \in Resets
  PROVE  [at |-> at, action |-> a] \in GuardCall
<1>1. [at |-> at, action |-> a] \in ResetCall
  BY DEF ResetCall, Resets
<1> QED BY <1>1 DEF GuardCall

LEMMA StageIs ==
  ASSUME NEW r \in GuardCall
  PROVE  /\ r.at \in Checks => [r EXCEPT !.at = "use"] \in GuardCall
         /\ r.at = "size" => [r EXCEPT !.at = "trip"] \in GuardCall
         /\ r.at = "find" => [r EXCEPT !.at = "close"] \in GuardCall
<1>1. ASSUME r.at \in Checks PROVE [r EXCEPT !.at = "use"] \in CheckCall
  <2>1. r \in CheckCall
    BY <1>1, CallKinds
  <2> QED BY <2>1 DEF CheckCall
<1>2. ASSUME r.at = "size" PROVE [r EXCEPT !.at = "trip"] \in FailureCall
  <2>1. r \in FailureCall
    BY <1>2, CallKinds
  <2> QED BY <2>1 DEF FailureCall
<1>3. ASSUME r.at = "find" PROVE [r EXCEPT !.at = "close"] \in SuccessCall
  <2>1. r \in SuccessCall
    BY <1>3, CallKinds
  <2> QED BY <2>1 DEF SuccessCall
<1> QED BY <1>1, <1>2, <1>3 DEF GuardCall

LEMMA TripTyped ==
  ASSUME GuardTyped, NEW a \in Actions, NEW t \in Nat, TripAt(a, t)
  PROVE  circuit' \in [Actions -> Nat \cup {Closed}] /\ trips' \in [Actions -> Nat]
BY DEF TripAt, GuardTyped, GuardTypeOK

LEMMA CheckTyped ==
  ASSUME GuardTyped, NEW c \in Callers,
         \/ ReadState(c) \/ CountFailures(c) \/ HaltCircuit(c) \/ ReadTest(c) \/ UseTest(c)
         \/ ResetTest(c)
  PROVE  GuardTyped'
<1> DEFINE a == call[c].action
<1>1. /\ call \in [Callers -> GuardCall] /\ trips \in [Actions -> Nat] /\ clock \in Nat
      /\ testDone \in [Actions -> BOOLEAN] /\ circuit \in [Actions -> Nat \cup {Closed}]
      /\ failureLog \in [Actions -> SUBSET Failure] /\ failed \in [Actions -> SUBSET Failure]
      /\ callsLeft \in 0 .. MaxGuardCalls
  BY DEF GuardTyped, GuardTypeOK
<1>2. call[c].at # "idle" => a \in Actions
  BY CallTyped
<1>3. CASE ReadState(c)
  <2>1. callsLeft' \in 0 .. MaxGuardCalls
    BY <1>3, BeginTyped DEF ReadState
  <2> QED BY <1>3, <2>1, ReadStateEffect, CallsTyped
<1>4. CASE CountFailures(c)
  <2>1. [at |-> "halt", action |-> a] \in GuardCall
    BY <1>2, <1>4, ResetIs DEF CountFailures, Resets
  <2>2. call' \in [Callers -> GuardCall]
    BY <1>1, <1>4, <2>1, SetCall, PassTyped DEF CountFailures, Checks
  <2> QED BY <1>1, <1>4, <2>2, CallsTyped DEF CountFailures, guardBounds
<1>5. CASE HaltCircuit(c)
  <2>1. [at |-> "reset", action |-> a] \in GuardCall
    BY <1>2, <1>5, ResetIs DEF HaltCircuit, Resets
  <2>2. call' \in [Callers -> GuardCall]
    BY <1>1, <1>5, <2>1, SetCall DEF HaltCircuit
  <2>3. circuit' \in [Actions -> Nat \cup {Closed}] /\ trips' \in [Actions -> Nat]
    BY <1>1, <1>2, <1>5, TripTyped DEF HaltCircuit
  <2> QED BY <1>1, <1>5, <2>2, <2>3, BreakerTyped DEF HaltCircuit, guardBounds
<1>6. CASE ReadTest(c)
  <2>1. [call[c] EXCEPT !.at = "use"] \in GuardCall
    BY <1>1, <1>6, StageIs DEF ReadTest, Checks
  <2>2. call' \in [Callers -> GuardCall]
    BY <1>1, <1>6, <2>1, SetCall, IdleIs DEF ReadTest
  <2> QED BY <1>1, <1>6, <2>2, CallsTyped DEF ReadTest, guardBounds
<1>7. CASE UseTest(c)
  <2>1. call' \in [Callers -> GuardCall]
    BY <1>1, <1>2, <1>7, PassTyped DEF UseTest, Checks
  <2>2. testDone' \in [Actions -> BOOLEAN]
    BY <1>1, <1>7 DEF UseTest, TestUsed
  <2> QED BY <1>1, <1>7, <2>1, <2>2, BreakerTyped DEF UseTest, guardBounds, history
<1>8. CASE ResetTest(c)
  <2>1. call' \in [Callers -> GuardCall]
    BY <1>1, <1>8, SetCall, IdleIs DEF ResetTest
  <2>2. testDone' \in [Actions -> BOOLEAN]
    BY <1>1, <1>8 DEF ResetTest
  <2> QED BY <1>1, <1>8, <2>1, <2>2, BreakerTyped DEF ResetTest, guardBounds, history
<1> QED BY <1>3, <1>4, <1>5, <1>6, <1>7, <1>8

\* Recording an outcome: the call goes on alone, or with those it meets.
LEMMA StartEffect ==
  ASSUME GuardTyped, NEW c \in Callers, NEW r \in GuardCall, r.at \in Records, StartRecord(c, r)
  PROVE  /\ call' \in [Callers -> GuardCall]
         /\ call'[c] = [r EXCEPT !.alone = ~ Meets(c, r.action, Records)]
         /\ \A d \in Callers \ {c} :
              call'[d] = IF At(d, r.action, Checks \cup Records) THEN Disturbed(call[d]) ELSE call[d]
         /\ UNCHANGED <<lastRun, circuit, testDone, clock, callsLeft, restarts, sent, recorded, trips>>
<1> DEFINE S == Checks \cup Records
<1>1. call \in [Callers -> GuardCall] /\ r.at \in S /\ Enter(c, r, Records, S)
  BY DEF GuardTyped, StartRecord
<1>2. S = Checks \cup Records
  OBVIOUS
<1> HIDE DEF S
<1>3. S \in SUBSET (Checks \cup Records)
  BY <1>2
<1>4. r.at \in Checks \cup Records
  BY <1>1, <1>2
<1>5. /\ call' \in [Callers -> GuardCall]
      /\ call'[c] = [r EXCEPT !.alone = ~ Meets(c, r.action, Records)]
      /\ \A d \in Callers \ {c} :
           call'[d] = IF At(d, r.action, S) THEN Disturbed(call[d]) ELSE call[d]
  BY <1>1, <1>3, <1>4, EnterCall
<1>6. UNCHANGED <<lastRun, circuit, testDone, clock, callsLeft, restarts, sent, recorded, trips>>
  BY DEF StartRecord, guardBounds
<1> QED BY <1>2, <1>5, <1>6

\* record_failure appends.
LEMMA AppendEffect ==
  ASSUME GuardTyped, NEW c \in Callers, AppendFailure(c)
  PROVE  \E a \in Actions, f \in Failure :
           LET alone == ~ Meets(c, a, Records) IN
           /\ f.at = clock /\ call[c].at = "verify"
           /\ call' \in [Callers -> GuardCall]
           /\ call'[c].at = "prune" /\ call'[c].action = a /\ call'[c].failure = f
           /\ call'[c].alone = alone
           /\ \A d \in Callers \ {c} :
                call'[d] = IF At(d, a, Checks \cup Records) THEN Disturbed(call[d]) ELSE call[d]
           /\ failureLog' = [failureLog EXCEPT ![a] = @ \cup {f}]
           /\ failed' = [failed EXCEPT ![a] = IF alone THEN @ ELSE {}]
           /\ UNCHANGED <<lastRun, circuit, testDone, clock, callsLeft, restarts, sent, recorded, trips>>
<1> DEFINE q == call[c]
           a == q.action
           f == [call |-> q.n, at |-> clock]
           alone == ~ Meets(c, a, Records)
           r == [at |-> "prune", action |-> a, failure |-> f, alone |-> TRUE]
<1>1. q \in VerifyCall /\ q.at = "verify"
  BY CallTyped DEF AppendFailure
<1>2. a \in Actions /\ f \in Failure /\ f.at = clock /\ alone \in BOOLEAN
  BY <1>1 DEF VerifyCall, Failure, GuardTyped, GuardTypeOK, Meets
<1>3. r \in FailureCall
  BY <1>2 DEF FailureCall
<1>4. r \in GuardCall /\ r.at \in Records /\ r.action = a
  BY <1>3 DEF GuardCall, Records
<1>5. /\ failureLog' = [failureLog EXCEPT ![a] = @ \cup {f}]
      /\ failed' = [failed EXCEPT ![a] = IF alone THEN @ ELSE {}]
      /\ StartRecord(c, r)
  BY DEF AppendFailure
<1>6. /\ [r EXCEPT !.alone = alone].at = "prune" /\ [r EXCEPT !.alone = alone].action = a
      /\ [r EXCEPT !.alone = alone].failure = f /\ [r EXCEPT !.alone = alone].alone = alone
  <2> HIDE DEF f, a, alone
  <2> QED OBVIOUS
<1> HIDE DEF r, f, q
<1>7. /\ call' \in [Callers -> GuardCall]
      /\ call'[c] = [r EXCEPT !.alone = alone]
      /\ \A d \in Callers \ {c} :
           call'[d] = IF At(d, a, Checks \cup Records) THEN Disturbed(call[d]) ELSE call[d]
      /\ UNCHANGED <<lastRun, circuit, testDone, clock, callsLeft, restarts, sent, recorded, trips>>
  BY SMTT(30), <1>4, <1>5, StartEffect
<1> QED BY <1>1, <1>2, <1>5, <1>6, <1>7 DEF q

\* record_success empties the list.
LEMMA ClearEffect ==
  ASSUME GuardTyped, NEW c \in Callers, ClearFailures(c)
  PROVE  \E a \in Actions :
           /\ call[c].at = "verify"
           /\ call' \in [Callers -> GuardCall]
           /\ call'[c].at = "find" /\ call'[c].action = a
           /\ call'[c].alone = ~ Meets(c, a, Records)
           /\ \A d \in Callers \ {c} :
                call'[d] = IF At(d, a, Checks \cup Records) THEN Disturbed(call[d]) ELSE call[d]
           /\ failureLog' = [failureLog EXCEPT ![a] = {}] /\ failed' = [failed EXCEPT ![a] = {}]
           /\ UNCHANGED <<lastRun, circuit, testDone, clock, callsLeft, restarts, sent, recorded, trips>>
<1> DEFINE q == call[c]
           a == q.action
           alone == ~ Meets(c, a, Records)
           r == [at |-> "find", action |-> a, alone |-> TRUE]
<1>1. q \in VerifyCall /\ q.at = "verify"
  BY CallTyped DEF ClearFailures
<1>2. a \in Actions /\ alone \in BOOLEAN
  BY <1>1 DEF VerifyCall, Meets
<1>3. r \in SuccessCall
  BY <1>2 DEF SuccessCall
<1>4. r \in GuardCall /\ r.at \in Records /\ r.action = a
  BY <1>3 DEF GuardCall, Records
<1>5. /\ failureLog' = [failureLog EXCEPT ![a] = {}] /\ failed' = [failed EXCEPT ![a] = {}]
      /\ StartRecord(c, r)
  BY DEF ClearFailures
<1>6. /\ [r EXCEPT !.alone = alone].at = "find" /\ [r EXCEPT !.alone = alone].action = a
      /\ [r EXCEPT !.alone = alone].alone = alone
  <2> HIDE DEF a, alone
  <2> QED OBVIOUS
<1> HIDE DEF r, q
<1>7. /\ call' \in [Callers -> GuardCall]
      /\ call'[c] = [r EXCEPT !.alone = alone]
      /\ \A d \in Callers \ {c} :
           call'[d] = IF At(d, a, Checks \cup Records) THEN Disturbed(call[d]) ELSE call[d]
      /\ UNCHANGED <<lastRun, circuit, testDone, clock, callsLeft, restarts, sent, recorded, trips>>
  BY <1>4, <1>5, StartEffect
<1> QED BY <1>1, <1>2, <1>5, <1>6, <1>7 DEF q

\* The steps in between move the call, and write what it knows.
LEMMA PruneEffect ==
  ASSUME GuardTyped, NEW c \in Callers, PruneFailures(c)
  PROVE  /\ call[c] \in FailureCall /\ call[c].at = "prune"
         /\ call' \in [Callers -> GuardCall]
         /\ call'[c].at = "write" /\ call'[c].action = call[c].action
         /\ call'[c].failure = call[c].failure /\ call'[c].alone = call[c].alone
         /\ call'[c].kept = Recent(failureLog[call[c].action], call[c].failure.at)
         /\ \A d \in Callers \ {c} : call'[d] = call[d]
         /\ UNCHANGED <<memory, guardBounds, history>>
<1> DEFINE q == call[c]
           k == Recent(failureLog[q.action], q.failure.at)
           r == [at |-> "write", action |-> q.action, failure |-> q.failure, alone |-> q.alone,
                 kept |-> k]
<1>1. q \in FailureCall /\ q.at = "prune"
  BY CallTyped DEF PruneFailures
<1>2. k \in SUBSET Failure
  BY <1>1 DEF FailureCall, Recent, GuardTyped, GuardTypeOK
<1> HIDE DEF k
<1>3. r \in WriteCall
  BY <1>1, <1>2 DEF FailureCall, WriteCall
<1>4. r \in GuardCall
  BY <1>3 DEF GuardCall
<1>5. Set(c, r) /\ UNCHANGED <<memory, guardBounds, history>>
  BY DEF PruneFailures, k
<1>6. /\ r.at = "write" /\ r.action = q.action /\ r.failure = q.failure /\ r.alone = q.alone
      /\ r.kept = k
  OBVIOUS
<1> HIDE DEF r
<1>7. call \in [Callers -> GuardCall]
  BY DEF GuardTyped
<1>8. call' \in [Callers -> GuardCall] /\ call'[c] = r /\ \A d \in Callers \ {c} : call'[d] = call[d]
  BY <1>4, <1>5, <1>7, SetCall
<1> QED BY <1>1, <1>5, <1>6, <1>8 DEF k

LEMMA WriteEffect ==
  ASSUME GuardTyped, NEW c \in Callers, WriteFailures(c)
  PROVE  /\ call[c] \in WriteCall /\ call[c].at = "write"
         /\ call' \in [Callers -> GuardCall]
         /\ call'[c].at = "size" /\ call'[c].action = call[c].action
         /\ call'[c].failure = call[c].failure /\ call'[c].alone = call[c].alone
         /\ \A d \in Callers \ {c} : call'[d] = call[d]
         /\ failureLog' = [failureLog EXCEPT ![call[c].action] = call[c].kept]
         /\ UNCHANGED <<lastRun, circuit, testDone, guardBounds, history>>
<1> DEFINE q == call[c]
           r == [at |-> "size", action |-> q.action, failure |-> q.failure, alone |-> q.alone]
<1>1. q \in WriteCall /\ q.at = "write"
  BY CallTyped DEF WriteFailures
<1>2. r \in FailureCall
  BY <1>1 DEF FailureCall, WriteCall
<1>3. r \in GuardCall
  BY <1>2 DEF GuardCall
<1>4. /\ Set(c, r) /\ failureLog' = [failureLog EXCEPT ![q.action] = q.kept]
      /\ UNCHANGED <<lastRun, circuit, testDone, guardBounds, history>>
  BY DEF WriteFailures
<1>5. r.at = "size" /\ r.action = q.action /\ r.failure = q.failure /\ r.alone = q.alone
  OBVIOUS
<1> HIDE DEF r
<1>6. call \in [Callers -> GuardCall]
  BY DEF GuardTyped
<1>7. call' \in [Callers -> GuardCall] /\ call'[c] = r /\ \A d \in Callers \ {c} : call'[d] = call[d]
  BY <1>3, <1>4, <1>6, SetCall
<1> QED BY <1>1, <1>4, <1>5, <1>7

LEMMA CountEffect ==
  ASSUME GuardTyped, NEW c \in Callers, CountLog(c)
  PROVE  /\ call[c] \in FailureCall /\ call[c].at = "size"
         /\ call' \in [Callers -> GuardCall] /\ \A d \in Callers \ {c} : call'[d] = call[d]
         /\ \/ /\ Trips(failureLog[call[c].action]) /\ UNCHANGED failed
               /\ call'[c].at = "trip" /\ call'[c].action = call[c].action
               /\ call'[c].failure = call[c].failure /\ call'[c].alone = call[c].alone
            \/ ~ Trips(failureLog[call[c].action]) /\ Count(call[c]) /\ call'[c].at = "idle"
         /\ UNCHANGED <<memory, guardBounds, sent, recorded, trips>>
<1> DEFINE q == call[c]
           r == [q EXCEPT !.at = "trip"]
<1>1. q \in FailureCall /\ q.at = "size"
  BY CallTyped DEF CountLog
<1>2. r \in GuardCall
  BY <1>1, CallTyped, StageIs
<1>3. r.at = "trip" /\ r.action = q.action /\ r.failure = q.failure /\ r.alone = q.alone
  BY <1>1 DEF FailureCall
<1>4. \/ Trips(failureLog[q.action]) /\ Set(c, r) /\ UNCHANGED failed
      \/ ~ Trips(failureLog[q.action]) /\ Set(c, Idle) /\ Count(q)
  BY DEF CountLog
<1>5. UNCHANGED <<memory, guardBounds, sent, recorded, trips>> /\ call \in [Callers -> GuardCall]
  BY DEF CountLog, GuardTyped
<1> HIDE DEF r, q
<1>6. Set(c, r) => call' \in [Callers -> GuardCall] /\ call'[c] = r
                   /\ \A d \in Callers \ {c} : call'[d] = call[d]
  BY <1>2, <1>5, SetCall
<1>7. Set(c, Idle) => call' \in [Callers -> GuardCall] /\ call'[c] = Idle
                      /\ \A d \in Callers \ {c} : call'[d] = call[d]
  BY <1>5, SetCall, IdleIs
<1> QED BY <1>1, <1>3, <1>4, <1>5, <1>6, <1>7, IdleIs DEF q

\* Failures keep their type when one is counted.
LEMMA CountTyped ==
  ASSUME GuardTyped, NEW r \in FailureCall, Count(r)
  PROVE  failed' \in [Actions -> SUBSET Failure]
BY DEF GuardTyped, GuardTypeOK, FailureCall, Count

\* The circuit is tripped, by a check or a failure, or found and deleted by a success.
LEMMA TripEffect ==
  ASSUME GuardTyped, NEW c \in Callers, TripCircuit(c)
  PROVE  /\ call[c] \in FailureCall /\ call[c].at = "trip"
         /\ call' \in [Callers -> GuardCall] /\ \A d \in Callers \ {c} : call'[d] = call[d]
         /\ call'[c].at = "reset" /\ call'[c].action = call[c].action
         /\ TripAt(call[c].action, call[c].failure.at) /\ Count(call[c])
         /\ UNCHANGED <<lastRun, failureLog, testDone, guardBounds, sent, recorded>>
<1> DEFINE q == call[c]
           r == [at |-> "reset", action |-> q.action]
<1>1. q \in FailureCall /\ q.at = "trip"
  BY CallTyped DEF TripCircuit
<1>2. r \in GuardCall
  BY <1>1, ResetIs DEF FailureCall, Resets
<1>3. /\ Set(c, r) /\ TripAt(q.action, q.failure.at) /\ Count(q)
      /\ UNCHANGED <<lastRun, failureLog, testDone, guardBounds, sent, recorded>>
  BY DEF TripCircuit
<1>4. r.at = "reset" /\ r.action = q.action /\ call \in [Callers -> GuardCall]
  BY DEF GuardTyped
<1> HIDE DEF r
<1>5. call' \in [Callers -> GuardCall] /\ call'[c] = r /\ \A d \in Callers \ {c} : call'[d] = call[d]
  BY <1>2, <1>3, <1>4, SetCall
<1> QED BY <1>1, <1>3, <1>4, <1>5

LEMMA CloseEffect ==
  ASSUME GuardTyped, NEW c \in Callers, FindCircuit(c) \/ CloseCircuit(c)
  PROVE  /\ call[c] \in SuccessCall
         /\ call' \in [Callers -> GuardCall] /\ \A d \in Callers \ {c} : call'[d] = call[d]
         /\ \/ /\ call'[c].at = "close" /\ call'[c].action = call[c].action
               /\ call'[c].alone = call[c].alone
               /\ UNCHANGED circuit
            \/ /\ call'[c].at = "reset" /\ call'[c].action = call[c].action
               /\ circuit'[call[c].action] = Closed
            \/ call'[c].at = "idle"
         /\ \A b \in Actions : circuit'[b] = circuit[b] \/ (b = call[c].action /\ circuit'[b] = Closed)
         /\ circuit' \in [Actions -> Nat \cup {Closed}]
         /\ UNCHANGED <<lastRun, failureLog, testDone, guardBounds, history>>
<1> DEFINE q == call[c]
           r == [at |-> "reset", action |-> q.action]
           s == [q EXCEPT !.at = "close"]
<1>1. q \in SuccessCall
  BY CallTyped DEF FindCircuit, CloseCircuit
<1>2. r \in GuardCall /\ q.action \in Actions
  BY <1>1, ResetIs DEF SuccessCall, Resets
<1>3. /\ call \in [Callers -> GuardCall] /\ circuit \in [Actions -> Nat \cup {Closed}]
      /\ r.at = "reset" /\ r.action = q.action
  BY DEF GuardTyped, GuardTypeOK
<1>4. s.at = "close" /\ s.action = q.action /\ s.alone = q.alone
  BY <1>1 DEF SuccessCall
<1>5. CASE FindCircuit(c)
  <2>1. s \in GuardCall
    BY <1>5, CallTyped, StageIs DEF FindCircuit
  <2>2. /\ (Set(c, r) /\ circuit[q.action] = Closed) \/ Set(c, s)
        /\ UNCHANGED <<memory, guardBounds, history>>
    BY <1>5 DEF FindCircuit
  <2> HIDE DEF q, r, s
  <2>3. call' \in [Callers -> GuardCall] /\ \A d \in Callers \ {c} : call'[d] = call[d]
    BY <1>2, <1>3, <2>1, <2>2, SetCall
  <2>4. (call'[c] = r /\ circuit[q.action] = Closed) \/ call'[c] = s
    BY <1>2, <1>3, <2>1, <2>2, SetCall
  <2>5. UNCHANGED <<lastRun, failureLog, circuit, testDone, guardBounds, history>>
    BY <2>2 DEF memory
  <2>6. \/ /\ call'[c].at = "close" /\ call'[c].action = q.action /\ call'[c].alone = q.alone
        \/ /\ call'[c].at = "reset" /\ call'[c].action = q.action /\ circuit'[q.action] = Closed
    <3>1. CASE call'[c] = s
      BY <1>4, <3>1
    <3>2. CASE call'[c] = r /\ circuit[q.action] = Closed
      <4>1. circuit' = circuit
        BY <2>5
      <4> QED BY <1>3, <3>2, <4>1
    <3> QED BY <2>4, <3>1, <3>2
  <2> QED BY <1>1, <1>3, <2>3, <2>5, <2>6 DEF q
<1>6. CASE CloseCircuit(c)
  <2>1. /\ circuit' = [circuit EXCEPT ![q.action] = Closed]
        /\ Set(c, r) \/ Set(c, Idle)
        /\ UNCHANGED <<lastRun, failureLog, testDone, guardBounds, history>>
    BY <1>6 DEF CloseCircuit
  <2> HIDE DEF q, r, s
  <2>2. call' \in [Callers -> GuardCall] /\ \A d \in Callers \ {c} : call'[d] = call[d]
    BY <1>2, <1>3, <2>1, SetCall, IdleIs
  <2>3. call'[c] = r \/ call'[c] = Idle
    BY <1>2, <1>3, <2>1, SetCall, IdleIs
  <2>4. \/ call'[c].at = "idle"
        \/ /\ call'[c].at = "reset" /\ call'[c].action = q.action /\ circuit'[q.action] = Closed
    <3>1. circuit'[q.action] = Closed
      BY <1>2, <1>3, <2>1
    <3> QED BY <1>3, <2>3, <3>1, IdleIs
  <2>5. /\ circuit' \in [Actions -> Nat \cup {Closed}]
        /\ \A b \in Actions : circuit'[b] = circuit[b] \/ (b = q.action /\ circuit'[b] = Closed)
    <3> DEFINE x == q.action
    <3>1. x \in Actions /\ circuit' = [circuit EXCEPT ![x] = Closed]
      BY <1>2, <2>1
    <3> HIDE DEF x
    <3>2. /\ circuit' \in [Actions -> Nat \cup {Closed}]
          /\ \A b \in Actions : circuit'[b] = circuit[b] \/ (b = x /\ circuit'[b] = Closed)
      BY <1>3, <3>1
    <3> QED BY <3>2 DEF x
  <2> QED BY <1>1, <2>1, <2>2, <2>4, <2>5 DEF q
<1> QED BY <1>5, <1>6

LEMMA OutcomeTyped ==
  ASSUME GuardTyped, NEW c \in Callers,
         \/ AppendFailure(c) \/ PruneFailures(c) \/ WriteFailures(c) \/ CountLog(c)
         \/ TripCircuit(c) \/ ClearFailures(c) \/ FindCircuit(c) \/ CloseCircuit(c)
  PROVE  GuardTyped'
<1>1. /\ failureLog \in [Actions -> SUBSET Failure] /\ failed \in [Actions -> SUBSET Failure]
      /\ circuit \in [Actions -> Nat \cup {Closed}] /\ testDone \in [Actions -> BOOLEAN]
      /\ trips \in [Actions -> Nat] /\ callsLeft \in 0 .. MaxGuardCalls
  BY DEF GuardTyped, GuardTypeOK
<1>2. CASE AppendFailure(c)
  <2>1. PICK a \in Actions, f \in Failure :
           /\ call' \in [Callers -> GuardCall]
           /\ failureLog' = [failureLog EXCEPT ![a] = @ \cup {f}]
           /\ failed' = [failed EXCEPT ![a] = IF ~ Meets(c, a, Records) THEN @ ELSE {}]
           /\ UNCHANGED <<lastRun, circuit, testDone, clock, callsLeft, restarts, sent, recorded, trips>>
    BY <1>2, AppendEffect
  <2> QED BY <1>1, <2>1, BreakerTyped
<1>3. CASE PruneFailures(c)
  BY <1>1, <1>3, PruneEffect, CallsTyped DEF guardBounds
<1>4. CASE WriteFailures(c)
  <2>1. call[c].action \in Actions /\ call[c].kept \in SUBSET Failure
    BY <1>4, WriteEffect DEF WriteCall
  <2>2. failureLog' \in [Actions -> SUBSET Failure]
    BY <1>1, <1>4, <2>1, WriteEffect
  <2> QED BY <1>1, <1>4, <2>2, WriteEffect, BreakerTyped DEF guardBounds, history
<1>5. CASE CountLog(c)
  <2>1. failed' \in [Actions -> SUBSET Failure]
    BY <1>1, <1>5, CountEffect, CountTyped
  <2> QED BY <1>1, <1>5, <2>1, CountEffect, BreakerTyped DEF memory, guardBounds
<1>6. CASE TripCircuit(c)
  <2>1. failed' \in [Actions -> SUBSET Failure]
    BY <1>6, TripEffect, CountTyped
  <2>2. call[c].action \in Actions /\ call[c].failure.at \in Nat
    BY <1>6, TripEffect DEF FailureCall, Failure
  <2>3. circuit' \in [Actions -> Nat \cup {Closed}] /\ trips' \in [Actions -> Nat]
    BY <1>6, <2>2, TripEffect, TripTyped
  <2> QED BY <1>1, <1>6, <2>1, <2>3, TripEffect, BreakerTyped DEF guardBounds
<1>7. CASE ClearFailures(c)
  <2>1. PICK a \in Actions :
           /\ call' \in [Callers -> GuardCall]
           /\ failureLog' = [failureLog EXCEPT ![a] = {}] /\ failed' = [failed EXCEPT ![a] = {}]
           /\ UNCHANGED <<lastRun, circuit, testDone, clock, callsLeft, restarts, sent, recorded, trips>>
    BY <1>7, ClearEffect
  <2> QED BY <1>1, <2>1, BreakerTyped
<1>8. CASE FindCircuit(c) \/ CloseCircuit(c)
  BY <1>1, <1>8, CloseEffect, BreakerTyped DEF guardBounds, history
<1> QED BY <1>2, <1>3, <1>4, <1>5, <1>6, <1>7, <1>8

\* check_action: the call goes on to the Alert Manager, or is over.
LEMMA CheckActionEffect ==
  ASSUME GuardTyped, NEW c \in Callers, CheckAction(c)
  PROVE  /\ call[c] \in CircuitCall /\ call[c].at = "circuit"
         /\ call' \in [Callers -> GuardCall] /\ \A d \in Callers \ {c} : call'[d] = call[d]
         /\ \/ call'[c].at = "idle"
            \/ /\ call'[c].at = "dispatch" /\ call'[c].action = call[c].action
               /\ call'[c].host = call[c].host /\ call'[c].halted = call[c].halted
               /\ call'[c].alone = call[c].alone /\ call'[c].trip = call[c].trip
               /\ call'[c].seen = recorded /\ call'[c].since = clock
               /\ ~ Cooling(call[c].action, call[c].host)
         /\ UNCHANGED <<memory, guardBounds, history>>
<1> DEFINE r == call[c]
           d == [at |-> "dispatch", action |-> r.action, host |-> r.host, halted |-> r.halted,
                 alone |-> r.alone, trip |-> r.trip, seen |-> recorded, since |-> clock]
<1>1. r \in CircuitCall /\ r.at = "circuit"
  BY CallTyped DEF CheckAction
<1>2. d \in GuardCall
  <2>1. recorded \subseteq Nat /\ clock \in Nat
    BY DEF GuardTyped, GuardTypeOK
  <2>2. d \in DispatchCall
    BY <1>1, <2>1 DEF CircuitCall, DispatchCall
  <2> QED BY <2>2 DEF GuardCall
<1>3. /\ Set(c, Idle) \/ (Set(c, d) /\ ~ Cooling(r.action, r.host))
      /\ UNCHANGED <<memory, guardBounds, history>>
  BY DEF CheckAction
<1>4. /\ d.at = "dispatch" /\ d.action = r.action /\ d.host = r.host /\ d.halted = r.halted
      /\ d.alone = r.alone /\ d.trip = r.trip /\ d.seen = recorded /\ d.since = clock
  OBVIOUS
<1>5. call \in [Callers -> GuardCall]
  BY DEF GuardTyped
<1> HIDE DEF d
<1>6. CASE Set(c, Idle)
  <2>1. /\ call' \in [Callers -> GuardCall] /\ call'[c] = Idle
        /\ \A e \in Callers \ {c} : call'[e] = call[e]
    BY <1>5, <1>6, SetCall, IdleIs
  <2> QED BY <1>1, <1>3, <2>1, IdleIs DEF r
<1>7. CASE Set(c, d) /\ ~ Cooling(r.action, r.host)
  <2>1. /\ call' \in [Callers -> GuardCall] /\ call'[c] = d
        /\ \A e \in Callers \ {c} : call'[e] = call[e]
    BY <1>2, <1>5, <1>7, SetCall
  <2> QED BY <1>1, <1>3, <1>4, <1>7, <2>1 DEF r
<1> QED BY <1>3, <1>6, <1>7

\* The Alert Manager takes the alert, or not; either way the call goes on or is over.
LEMMA SubmitEffect ==
  ASSUME GuardTyped, NEW c \in Callers, SubmitTriageAlert(c)
  PROVE  /\ call[c] \in DispatchCall /\ call[c].at = "dispatch"
         /\ call' \in [Callers -> GuardCall] /\ \A d \in Callers \ {c} : call'[d] = call[d]
         /\ \/ /\ sent' = Append(sent, [action |-> call[c].action, host |-> call[c].host,
                                        halted |-> call[c].halted, alone |-> call[c].alone,
                                        trip |-> call[c].trip, seen |-> call[c].seen,
                                        since |-> call[c].since, at |-> clock])
               /\ \/ /\ call'[c].at = "record" /\ call'[c].action = call[c].action
                     /\ call'[c].host = call[c].host /\ call'[c].n = Len(sent) + 1
                  \/ call'[c].at = "idle"
            \/ sent' = sent /\ call'[c].at = "idle"
         /\ UNCHANGED <<memory, guardBounds, recorded, failed, trips>>
<1> DEFINE r == call[c]
           m == [action |-> r.action, host |-> r.host, halted |-> r.halted, alone |-> r.alone,
                 trip |-> r.trip, seen |-> r.seen, since |-> r.since, at |-> clock]
           q == [at |-> "record", action |-> r.action, host |-> r.host, n |-> Len(sent) + 1]
<1>1. r \in DispatchCall /\ r.at = "dispatch"
  BY CallTyped DEF SubmitTriageAlert
<1>2. sent \in Seq(Alert) /\ call \in [Callers -> GuardCall]
  BY DEF GuardTyped
<1>3. sent' = Append(sent, m) => Len(sent') = Len(sent) + 1
  <2> HIDE DEF m
  <2> QED BY <1>2
<1>4. /\ \/ sent' = Append(sent, m) /\ (Set(c, q) \/ Set(c, Idle))
         \/ sent' = sent /\ Set(c, Idle)
      /\ UNCHANGED <<memory, guardBounds, recorded, failed, trips>>
  BY <1>3 DEF SubmitTriageAlert
<1>5. q \in RecordCall
  BY <1>1, <1>2 DEF DispatchCall, RecordCall
<1>6. q \in GuardCall /\ q.at = "record" /\ q.action = r.action /\ q.host = r.host /\ q.n = Len(sent) + 1
  BY <1>5 DEF GuardCall
<1> HIDE DEF q
<1>7. Set(c, q) => /\ call' \in [Callers -> GuardCall] /\ call'[c] = q
                   /\ \A e \in Callers \ {c} : call'[e] = call[e]
  BY <1>2, <1>6, SetCall
<1>8. Set(c, Idle) => /\ call' \in [Callers -> GuardCall] /\ call'[c] = Idle
                      /\ \A e \in Callers \ {c} : call'[e] = call[e]
  BY <1>2, SetCall, IdleIs
<1> QED BY <1>1, <1>4, <1>6, <1>7, <1>8, IdleIs

LEMMA SubmitTyped ==
  ASSUME GuardTyped, NEW c \in Callers, SubmitTriageAlert(c)
  PROVE  GuardTyped'
<1> DEFINE r == call[c]
           m == [action |-> r.action, host |-> r.host, halted |-> r.halted, alone |-> r.alone,
                 trip |-> r.trip, seen |-> r.seen, since |-> r.since, at |-> clock]
<1>1. r \in DispatchCall
  BY SubmitEffect
<1>2. sent \in Seq(Alert) /\ clock \in Nat /\ recorded \subseteq 1 .. Len(sent)
  BY DEF GuardTyped, GuardTypeOK
<1>3. m \in Alert
  BY <1>1, <1>2 DEF DispatchCall, Alert
<1>4. sent' \in Seq(Alert) /\ Len(sent') >= Len(sent)
  <2>1. sent' = sent \/ sent' = Append(sent, m)
    BY SubmitEffect
  <2> HIDE DEF m
  <2> QED BY <1>2, <1>3, <2>1
<1>5. UNCHANGED <<memory, guardBounds, recorded, failed, trips>> /\ call' \in [Callers -> GuardCall]
  BY SubmitEffect
<1>6. recorded' \subseteq 1 .. Len(sent')
  BY <1>2, <1>4, <1>5
<1> QED BY <1>4, <1>5, <1>6, TypedAgain DEF GuardTyped, GuardTypeOK, memory, guardBounds

LEMMA RecordEffect ==
  ASSUME GuardTyped, NEW c \in Callers, RecordAction(c)
  PROVE  /\ call[c] \in RecordCall /\ call[c].at = "record"
         /\ call' \in [Callers -> GuardCall] /\ call'[c].at = "idle"
         /\ \A d \in Callers \ {c} : call'[d] = call[d]
         /\ lastRun' = [lastRun EXCEPT ![<<call[c].action, call[c].host>>] = clock]
         /\ recorded' = recorded \cup {call[c].n}
         /\ UNCHANGED <<failureLog, circuit, testDone, guardBounds, sent, failed, trips>>
<1>1. call[c] \in RecordCall /\ call[c].at = "record"
  BY CallTyped DEF RecordAction
<1>2. call \in [Callers -> GuardCall] /\ Set(c, Idle)
  BY DEF GuardTyped, RecordAction
<1>3. call' \in [Callers -> GuardCall] /\ call'[c] = Idle /\ \A d \in Callers \ {c} : call'[d] = call[d]
  BY <1>2, SetCall, IdleIs
<1> QED BY <1>1, <1>3, IdleIs DEF RecordAction, Remember

LEMMA RecordActionTyped ==
  ASSUME GuardTyped, NEW c \in Callers, RecordAction(c), call[c].n \in 1 .. Len(sent)
  PROVE  GuardTyped'
<1>1. lastRun' \in [Actions \X Hosts -> Nat \cup {Never}]
  <2>1. lastRun \in [Actions \X Hosts -> Nat \cup {Never}] /\ clock \in Nat
    BY DEF GuardTyped, GuardTypeOK
  <2> QED BY <2>1, RecordEffect
<1>2. recorded' \subseteq 1 .. Len(sent')
  BY RecordEffect DEF GuardTyped, GuardTypeOK
<1>3. call' \in [Callers -> GuardCall]
      /\ UNCHANGED <<failureLog, circuit, testDone, guardBounds, sent, failed, trips>>
  BY RecordEffect
<1> QED BY <1>1, <1>2, <1>3, TypedAgain DEF GuardTyped, GuardTypeOK, guardBounds

LEMMA VerifyEffect ==
  ASSUME GuardTyped, NEW c \in Callers, VerifyNodeAction(c)
  PROVE  /\ call[c].at = "idle" /\ callsLeft' \in 0 .. MaxGuardCalls
         /\ call' \in [Callers -> GuardCall] /\ call'[c].at \in {"idle", "verify"}
         /\ \A d \in Callers \ {c} : call'[d] = call[d]
         /\ UNCHANGED <<memory, clock, restarts, history>>
<1>1. callsLeft \in Nat /\ callsLeft' \in 0 .. MaxGuardCalls
  BY BeginTyped DEF VerifyNodeAction
<1>2. call[c].at = "idle" /\ UNCHANGED <<memory, clock, restarts, history>>
  BY DEF VerifyNodeAction, BeginCall
<1>3. call \in [Callers -> GuardCall]
  BY DEF GuardTyped
<1>4. CASE UNCHANGED call
  BY <1>1, <1>2, <1>3, <1>4
<1>5. ASSUME NEW a \in Actions, NEW v \in BOOLEAN,
             Set(c, [at |-> "verify", action |-> a, verified |-> v, n |-> callsLeft])
      PROVE  /\ call' \in [Callers -> GuardCall] /\ call'[c].at = "verify"
             /\ \A d \in Callers \ {c} : call'[d] = call[d]
  <2> DEFINE r == [at |-> "verify", action |-> a, verified |-> v, n |-> callsLeft]
  <2>1. r \in VerifyCall
    BY <1>1 DEF VerifyCall
  <2>2. r \in GuardCall /\ r.at = "verify" /\ Set(c, r)
    BY <1>5, <2>1 DEF GuardCall
  <2> HIDE DEF r
  <2> QED BY <1>3, <2>2, SetCall
<1> QED BY <1>1, <1>2, <1>4, <1>5 DEF VerifyNodeAction

LEMMA RestartTyped ==
  ASSUME GuardTyped, Restart
  PROVE  GuardTyped'
<1>1. restarts' \in 0 .. MaxRestarts /\ UNCHANGED <<clock, callsLeft, sent, trips>> /\ recorded' = {}
  BY GuardAssumption DEF Restart, GuardTyped, GuardTypeOK
<1>2. /\ lastRun' \in [Actions \X Hosts -> Nat \cup {Never}]
      /\ failureLog' \in [Actions -> SUBSET Failure] /\ failed' \in [Actions -> SUBSET Failure]
      /\ circuit' \in [Actions -> Nat \cup {Closed}] /\ testDone' \in [Actions -> BOOLEAN]
      /\ call' \in [Callers -> GuardCall]
  BY IdleIs DEF Restart, PerAction
<1> QED BY <1>1, <1>2, TypedAgain DEF GuardTyped, GuardTypeOK

LEMMA TickTyped ==
  ASSUME GuardTyped, Tick
  PROVE  GuardTyped'
<1>1. clock' \in 0 .. MaxTime
  BY GuardAssumption DEF Tick, GuardTyped, GuardTypeOK
<1>2. UNCHANGED <<memory, call, callsLeft, restarts, history>>
  BY DEF Tick
<1> QED BY <1>1, <1>2, TypedAgain DEF GuardTyped, GuardTypeOK, memory, history

LEMMA GuardStartTyped ==
  ASSUME GuardInit
  PROVE  GuardTyped
<1>1. <<>> \in Seq(Alert) /\ 0 \in 0 .. MaxTime
  BY GuardAssumption
<1>2. \A c \in Callers : call[c].at = "idle" /\ call[c] \in GuardCall
  BY IdleIs DEF GuardInit
<1>3. /\ callsLeft \in 0 .. MaxGuardCalls /\ restarts \in 0 .. MaxRestarts
      /\ recorded \subseteq 1 .. Len(sent)
  BY GuardAssumption DEF GuardInit
<1> QED BY <1>1, <1>2, <1>3 DEF GuardInit, GuardTyped, GuardTypeOK, PerAction

LEMMA GuardStutterTyped ==
  ASSUME GuardTyped, UNCHANGED guardVars
  PROVE  GuardTyped'
<1>1. UNCHANGED <<lastRun, failureLog, circuit, testDone, call, clock, callsLeft, restarts, sent, recorded,
                  failed, trips>>
  BY DEF guardVars, memory, guardBounds, history
<1> QED BY <1>1, TypedAgain DEF GuardTyped, GuardTypeOK

\* A call that was sent is numbered as the alert it sent (proved below as part of the cooldown).
LEMMA GuardStepTyped ==
  ASSUME GuardTyped, NEW c \in Callers, CallStep(c),
         call[c].at = "record" => call[c].n \in 1 .. Len(sent)
  PROVE  GuardTyped'
<1>1. CASE CheckAction(c)
  BY <1>1, CheckActionEffect, CallsTyped DEF guardBounds, GuardTyped, GuardTypeOK
<1>2. CASE VerifyNodeAction(c)
  BY <1>2, VerifyEffect, CallsTyped
<1>3. CASE RecordAction(c)
  BY <1>3, RecordActionTyped DEF RecordAction
<1> QED BY <1>1, <1>2, <1>3, CheckTyped, OutcomeTyped, SubmitTyped DEF CallStep

-----------------------------------------------------------------------------
(* Who is alone in the breaker.                                            *)

\* A check that is alone has met nobody in the breaker, and an outcome that is alone no other
\* outcome; and while two outcomes are recorded at once, or a success, no failure is counted.
ChecksAlone ==
  \A c \in Callers, d \in Callers :
    c # d /\ call[c].at \in Checks /\ call[c].alone => ~ At(d, call[c].action, Inside)
RecordsAlone ==
  \A c \in Callers, d \in Callers :
    c # d /\ call[c].at \in Records /\ call[c].alone => ~ At(d, call[c].action, Records)
NoneCounted ==
  \A c \in Callers :
    call[c].at \in Records /\ (~ call[c].alone \/ call[c].at \in {"find", "close"})
      => failed[call[c].action] = {}

AloneKept == ChecksAlone /\ RecordsAlone /\ NoneCounted

LEMMA StagesApart ==
  /\ Checks \cap Records = {} /\ Checks \cap Resets = {} /\ Records \cap Resets = {}
  /\ Inside = Checks \cup Records \cup Resets
  /\ Inside \cap {"idle", "circuit", "dispatch", "record", "verify"} = {}
  /\ "find" \in Records /\ "close" \in Records /\ "prune" \in Records /\ "write" \in Records
  /\ "size" \in Records /\ "trip" \in Records
  /\ "count" \in Checks /\ "test" \in Checks /\ "use" \in Checks
  /\ "halt" \in Resets /\ "reset" \in Resets
BY DEF Checks, Records, Resets, Inside

\* A call that is disturbed stays where it is.
LEMMA OthersStay ==
  ASSUME GuardTyped, NEW d \in Callers, NEW a, NEW S \in SUBSET (Checks \cup Records),
         call'[d] = IF At(d, a, S) THEN Disturbed(call[d]) ELSE call[d]
  PROVE  /\ call'[d].at = call[d].at
         /\ call[d].at \in Inside => call'[d].action = call[d].action
         /\ call'[d] = call[d] \/ call'[d].alone = FALSE
         /\ At(d, a, S) => call'[d].alone = FALSE
         /\ ~ At(d, a, S) => call'[d] = call[d]
         /\ call[d].at \in Checks => call'[d].halted = call[d].halted
         /\ call[d].at \in {"prune", "size", "trip", "write"} => call'[d].failure = call[d].failure
         /\ call[d].at = "write" => call'[d].kept = call[d].kept
<1>1. call[d] \in GuardCall
  BY CallTyped
<1>2. CASE At(d, a, S)
  <2>1. call[d].at \in Checks \cup Records
    BY <1>2 DEF At
  <2> QED BY <1>1, <1>2, <2>1, DisturbedIs
<1> QED BY <1>2

\* One call moves on inside a function of the breaker, or out of it.
Moves(c) ==
  /\ \A d \in Callers \ {c} : call'[d] = call[d]
  /\ call'[c].at \in Checks =>
       call[c].at \in Checks /\ call'[c].action = call[c].action /\ call'[c].alone = call[c].alone
  /\ call'[c].at \in Records =>
       call[c].at \in Records /\ call'[c].action = call[c].action /\ call'[c].alone = call[c].alone
  /\ call'[c].at \in {"find", "close"} => call[c].at \in {"find", "close"}
  /\ call'[c].at \in Inside => call[c].at \in Inside /\ call'[c].action = call[c].action

LEMMA AloneMoves ==
  ASSUME GuardTyped, AloneKept, NEW c \in Callers, Moves(c),
         \A a \in Actions :
           \/ failed'[a] = failed[a]
           \/ /\ call[c].at \in Records /\ call[c].alone /\ call[c].action = a
              /\ call'[c].at \notin Records
  PROVE  AloneKept'
<1> USE StagesApart
<1>1. ASSUME NEW e \in Callers, NEW d \in Callers, e # d, call'[e].at \in Checks, call'[e].alone,
             call'[d].at \in Inside, call'[d].action = call'[e].action
      PROVE  FALSE
  BY <1>1 DEF Moves, AloneKept, ChecksAlone, At
<1>2. ASSUME NEW e \in Callers, NEW d \in Callers, e # d, call'[e].at \in Records, call'[e].alone,
             call'[d].at \in Records, call'[d].action = call'[e].action
      PROVE  FALSE
  BY <1>2 DEF Moves, AloneKept, RecordsAlone, At
<1>3. ASSUME NEW e \in Callers, call'[e].at \in Records,
             ~ call'[e].alone \/ call'[e].at \in {"find", "close"}
      PROVE  failed'[call'[e].action] = {}
  <2>1. /\ call[e].at \in Records /\ call[e].action = call'[e].action
        /\ ~ call[e].alone \/ call[e].at \in {"find", "close"}
    BY <1>3 DEF Moves
  <2>2. call[e].action \in Actions /\ failed[call[e].action] = {}
    BY <2>1, CallTyped DEF AloneKept, NoneCounted
  <2>3. CASE failed'[call[e].action] = failed[call[e].action]
    BY <2>1, <2>2, <2>3
  <2>4. CASE /\ call[c].at \in Records /\ call[c].alone /\ call[c].action = call[e].action
             /\ call'[c].at \notin Records
    BY <1>3, <2>1, <2>4 DEF AloneKept, RecordsAlone, At
  <2> QED BY <2>2, <2>3, <2>4
<1> QED BY <1>1, <1>2, <1>3 DEF AloneKept, ChecksAlone, RecordsAlone, NoneCounted, At

\* A check begins.
LEMMA AloneChecks ==
  ASSUME GuardTyped, AloneKept, NEW c \in Callers, NEW a \in Actions, UNCHANGED failed,
         call'[c].at \in Checks, call'[c].action = a, call'[c].alone = ~ Meets(c, a, Inside),
         \A d \in Callers \ {c} :
           call'[d] = IF At(d, a, Checks) THEN Disturbed(call[d]) ELSE call[d]
  PROVE  AloneKept'
<1> USE StagesApart
<1> DEFINE S == Checks
<1>1. S \in SUBSET (Checks \cup Records) /\ S = Checks
  OBVIOUS
<1>2. \A d \in Callers \ {c} : call'[d] = IF At(d, a, S) THEN Disturbed(call[d]) ELSE call[d]
  OBVIOUS
<1> HIDE DEF S
<1>3. \A d \in Callers \ {c} :
        /\ call'[d].at = call[d].at
        /\ call[d].at \in Inside => call'[d].action = call[d].action
        /\ call'[d] = call[d] \/ call'[d].alone = FALSE
        /\ At(d, a, S) => call'[d].alone = FALSE
  BY <1>1, <1>2, OthersStay
<1>4. ASSUME NEW e \in Callers, NEW d \in Callers, e # d, call'[e].at \in Checks, call'[e].alone,
             call'[d].at \in Inside, call'[d].action = call'[e].action
      PROVE  FALSE
  <2>1. CASE e = c
    BY <1>3, <1>4, <2>1 DEF Meets, At
  <2>2. CASE e # c
    <3>1. call'[e] = call[e] /\ ~ At(e, a, Checks)
      BY <1>1, <1>3, <1>4, <2>2
    <3> QED BY <1>3, <1>4, <2>2, <3>1 DEF AloneKept, ChecksAlone, At
  <2> QED BY <2>1, <2>2
<1>5. ASSUME NEW e \in Callers, NEW d \in Callers, e # d, call'[e].at \in Records, call'[e].alone,
             call'[d].at \in Records, call'[d].action = call'[e].action
      PROVE  FALSE
  <2>1. e # c /\ d # c
    BY <1>5
  <2>2. call'[e] = call[e] /\ call[d].at \in Records /\ call[d].action = call[e].action
    BY <1>3, <1>5, <2>1
  <2> QED BY <1>5, <2>1, <2>2 DEF AloneKept, RecordsAlone, At
<1>6. ASSUME NEW e \in Callers, call'[e].at \in Records,
             ~ call'[e].alone \/ call'[e].at \in {"find", "close"}
      PROVE  failed'[call'[e].action] = {}
  <2>1. e # c /\ call[e].at \in Records
    BY <1>3, <1>6
  <2>2. call'[e] = call[e]
    <3>1. ~ At(e, a, Checks)
      BY <2>1 DEF At
    <3> QED BY <1>1, <1>2, <2>1, <3>1
  <2> QED BY <1>6, <2>1, <2>2 DEF AloneKept, NoneCounted
<1> QED BY <1>4, <1>5, <1>6 DEF AloneKept, ChecksAlone, RecordsAlone, NoneCounted, At

\* An outcome is recorded.
LEMMA AloneRecords ==
  ASSUME GuardTyped, AloneKept, NEW c \in Callers, NEW a \in Actions,
         call'[c].at \in Records, call'[c].action = a, call'[c].alone = ~ Meets(c, a, Records),
         \A d \in Callers \ {c} :
           call'[d] = IF At(d, a, Checks \cup Records) THEN Disturbed(call[d]) ELSE call[d],
         \A b \in Actions : b # a => failed'[b] = failed[b],
         failed'[a] = {} \/ (call'[c].alone /\ call'[c].at \notin {"find", "close"})
  PROVE  AloneKept'
<1> USE StagesApart
<1> DEFINE S == Checks \cup Records
<1>1. S \in SUBSET (Checks \cup Records) /\ S = Checks \cup Records
  OBVIOUS
<1>2. \A d \in Callers \ {c} : call'[d] = IF At(d, a, S) THEN Disturbed(call[d]) ELSE call[d]
  OBVIOUS
<1> HIDE DEF S
<1>3. \A d \in Callers \ {c} :
        /\ call'[d].at = call[d].at
        /\ call[d].at \in Inside => call'[d].action = call[d].action
        /\ call'[d] = call[d] \/ call'[d].alone = FALSE
        /\ At(d, a, S) => call'[d].alone = FALSE
        /\ ~ At(d, a, S) => call'[d] = call[d]
  BY <1>1, <1>2, OthersStay
<1>4. ASSUME NEW e \in Callers, NEW d \in Callers, e # d, call'[e].at \in Checks, call'[e].alone,
             call'[d].at \in Inside, call'[d].action = call'[e].action
      PROVE  FALSE
  <2>1. e # c /\ call'[e] = call[e] /\ ~ At(e, a, S)
    BY <1>3, <1>4
  <2>2. call[e].action # a
    BY <1>1, <1>4, <2>1 DEF At
  <2> QED BY <1>3, <1>4, <2>1, <2>2 DEF AloneKept, ChecksAlone, At
<1>5. ASSUME NEW e \in Callers, NEW d \in Callers, e # d, call'[e].at \in Records, call'[e].alone,
             call'[d].at \in Records, call'[d].action = call'[e].action
      PROVE  FALSE
  <2>1. CASE e = c
    BY <1>3, <1>5, <2>1 DEF Meets, At
  <2>2. CASE e # c
    <3>1. call'[e] = call[e] /\ ~ At(e, a, S)
      BY <1>3, <1>5, <2>2
    <3>2. call[e].action # a
      BY <1>1, <1>5, <3>1 DEF At
    <3> QED BY <1>3, <1>5, <2>2, <3>1, <3>2 DEF AloneKept, RecordsAlone, At
  <2> QED BY <2>1, <2>2
<1>6. ASSUME NEW e \in Callers, call'[e].at \in Records,
             ~ call'[e].alone \/ call'[e].at \in {"find", "close"}
      PROVE  failed'[call'[e].action] = {}
  <2>1. CASE e = c
    BY <1>6, <2>1
  <2>2. CASE e # c /\ At(e, a, S)
    <3>1. Meets(c, a, Records) /\ call'[e].action = a
      BY <1>3, <1>6, <2>2 DEF Meets, At
    <3> QED BY <3>1
  <2>3. CASE e # c /\ ~ At(e, a, S)
    <3>1. call'[e] = call[e] /\ call[e].action # a
      BY <1>1, <1>3, <1>6, <2>3 DEF At
    <3>2. call[e].action \in Actions /\ failed[call[e].action] = {}
      BY <1>6, <3>1, CallTyped DEF AloneKept, NoneCounted
    <3> QED BY <3>1, <3>2
  <2> QED BY <2>1, <2>2, <2>3
<1> QED BY <1>4, <1>5, <1>6 DEF AloneKept, ChecksAlone, RecordsAlone, NoneCounted, At

LEMMA AloneSteps ==
  ASSUME GuardTyped, AloneKept, NEW c \in Callers, CallStep(c)
  PROVE  AloneKept'
<1> USE StagesApart
<1> DEFINE Same == \A a \in Actions : failed'[a] = failed[a]
<1>1. call \in [Callers -> GuardCall] /\ trips \in [Actions -> Nat] /\ failed \in [Actions -> SUBSET Failure]
  BY DEF GuardTyped, GuardTypeOK
<1>2. CASE ReadState(c)
  <2>1. CASE UNCHANGED call
    BY <1>2, <2>1, AloneMoves, ReadStateEffect DEF history, Moves
  <2>2. CASE ~ UNCHANGED call
    <3>1. PICK a \in Actions :
            /\ call'[c].at = IF circuit[a] = Closed THEN "count" ELSE "test"
            /\ call'[c].action = a /\ call'[c].alone = ~ Meets(c, a, Inside)
            /\ \A d \in Callers \ {c} :
                 call'[d] = IF At(d, a, Checks) THEN Disturbed(call[d]) ELSE call[d]
      BY <1>2, <2>2, ReadStateEffect
    <3>2. UNCHANGED failed
      BY <1>2, ReadStateEffect DEF history
    <3> QED BY <3>1, <3>2, AloneChecks
  <2> QED BY <2>1, <2>2
<1>3. CASE CountFailures(c)
  <2> DEFINE r == [at |-> "halt", action |-> call[c].action]
  <2>1. call[c].at = "count" /\ call[c].action \in Actions /\ UNCHANGED failed
    BY <1>3, CallTyped DEF CountFailures, history
  <2>2. Set(c, r) \/ Pass(c, 0)
    BY <1>3 DEF CountFailures
  <2>3. ASSUME Set(c, r) PROVE Moves(c)
    <3>1. r \in GuardCall /\ r.at = "halt" /\ r.action = call[c].action
      BY <2>1, ResetIs
    <3> HIDE DEF r
    <3>2. call'[c] = r /\ \A d \in Callers \ {c} : call'[d] = call[d]
      BY <1>1, <2>3, <3>1, SetCall
    <3> QED BY <2>1, <3>1, <3>2 DEF Moves
  <2>4. ASSUME Pass(c, 0) PROVE Moves(c)
    <3>1. call'[c].at = "circuit" /\ \A d \in Callers \ {c} : call'[d] = call[d]
      BY <2>1, <2>4, PassTyped
    <3> QED BY <3>1 DEF Moves
  <2> QED BY <2>1, <2>2, <2>3, <2>4, AloneMoves
<1>4. CASE HaltCircuit(c) \/ ResetTest(c) \/ ReadTest(c)
  <2> DEFINE r == [at |-> "reset", action |-> call[c].action]
             u == [call[c] EXCEPT !.at = "use"]
  <2>1. call[c].at \in Inside /\ call[c].action \in Actions /\ UNCHANGED failed
    BY <1>4, CallTyped DEF HaltCircuit, ResetTest, ReadTest, history
  <2>2. ASSUME NEW q \in GuardCall, Set(c, q),
               q.at = "idle" \/ (q.at = "reset" /\ q.action = call[c].action)
        PROVE  Moves(c)
    <3>1. call'[c] = q /\ \A d \in Callers \ {c} : call'[d] = call[d]
      BY <1>1, <2>2, SetCall
    <3> QED BY <2>1, <2>2, <3>1 DEF Moves
  <2>3. r \in GuardCall /\ r.at = "reset" /\ r.action = call[c].action
    BY <2>1, ResetIs
  <2>4. ASSUME ReadTest(c), Set(c, u) PROVE Moves(c)
    <3>1. call[c] \in CheckCall /\ call[c].at = "test"
      BY <2>4, CallTyped DEF ReadTest
    <3>2. u.at = "use" /\ u.action = call[c].action /\ u.alone = call[c].alone
      BY <3>1 DEF CheckCall
    <3>3. u \in GuardCall
      BY <1>1, <3>1, StageIs
    <3> HIDE DEF u
    <3>4. call'[c] = u /\ \A d \in Callers \ {c} : call'[d] = call[d]
      BY <1>1, <2>4, <3>3, SetCall
    <3> QED BY <2>1, <3>1, <3>2, <3>4 DEF Moves
  <2>5. Set(c, r) \/ Set(c, Idle) \/ (ReadTest(c) /\ Set(c, u))
    BY <1>4 DEF HaltCircuit, ResetTest, ReadTest
  <2> HIDE DEF r, u
  <2>6. Moves(c)
    BY <2>2, <2>3, <2>4, <2>5, IdleIs
  <2> QED BY <2>1, <2>6, AloneMoves
<1>5. CASE UseTest(c)
  <2>1. call'[c].at = "circuit" /\ \A d \in Callers \ {c} : call'[d] = call[d]
    BY <1>1, <1>5, PassTyped, CallTyped DEF UseTest
  <2>2. UNCHANGED failed
    BY <1>5 DEF UseTest, history
  <2> QED BY <2>1, <2>2, AloneMoves DEF Moves
<1>6. CASE CheckAction(c) \/ SubmitTriageAlert(c) \/ RecordAction(c) \/ VerifyNodeAction(c)
  <2>1. /\ call'[c].at \in {"idle", "circuit", "dispatch", "record", "verify"} /\ UNCHANGED failed
        /\ \A d \in Callers \ {c} : call'[d] = call[d]
    BY <1>6, CheckActionEffect, SubmitEffect, RecordEffect, VerifyEffect DEF history
  <2> QED BY <2>1, AloneMoves DEF Moves
<1>7. CASE AppendFailure(c)
  <2>1. PICK a \in Actions, f \in Failure :
           /\ call'[c].at = "prune" /\ call'[c].action = a
           /\ call'[c].alone = ~ Meets(c, a, Records)
           /\ \A d \in Callers \ {c} :
                call'[d] = IF At(d, a, Checks \cup Records) THEN Disturbed(call[d]) ELSE call[d]
           /\ failed' = [failed EXCEPT ![a] = IF ~ Meets(c, a, Records) THEN @ ELSE {}]
    BY <1>7, AppendEffect
  <2>2. \A b \in Actions : b # a => failed'[b] = failed[b]
    BY <1>1, <2>1
  <2>3. failed'[a] = {} \/ (call'[c].alone /\ call'[c].at \notin {"find", "close"})
    BY <1>1, <2>1
  <2> QED BY <2>1, <2>2, <2>3, AloneRecords
<1>8. CASE ClearFailures(c)
  <2>1. PICK a \in Actions :
           /\ call'[c].at = "find" /\ call'[c].action = a
           /\ call'[c].alone = ~ Meets(c, a, Records)
           /\ \A d \in Callers \ {c} :
                call'[d] = IF At(d, a, Checks \cup Records) THEN Disturbed(call[d]) ELSE call[d]
           /\ failed' = [failed EXCEPT ![a] = {}]
    BY <1>8, ClearEffect
  <2>2. failed'[a] = {} /\ \A b \in Actions : b # a => failed'[b] = failed[b]
    BY <1>1, <2>1
  <2> QED BY <2>1, <2>2, AloneRecords
<1>9. CASE PruneFailures(c) \/ WriteFailures(c)
  <2>1. /\ call[c].at \in Records /\ call'[c].at \in {"write", "size"}
        /\ call'[c].action = call[c].action /\ call'[c].alone = call[c].alone
        /\ \A d \in Callers \ {c} : call'[d] = call[d]
        /\ UNCHANGED failed
    BY <1>9, PruneEffect, WriteEffect DEF history
  <2> QED BY <2>1, AloneMoves DEF Moves
<1>10. CASE CountLog(c) \/ TripCircuit(c)
  <2>1. call[c].at \in Records /\ call[c].action \in Actions
    BY <1>10, CallTyped DEF CountLog, TripCircuit
  <2>2. \/ /\ call'[c].at = "trip" /\ call'[c].action = call[c].action
           /\ call'[c].alone = call[c].alone /\ UNCHANGED failed
        \/ (call'[c].at = "idle" \/ (call'[c].at = "reset" /\ call'[c].action = call[c].action))
           /\ Count(call[c])
    BY <1>10, CountEffect, TripEffect
  <2>3. \A d \in Callers \ {c} : call'[d] = call[d]
    BY <1>10, CountEffect, TripEffect
  <2>4. Moves(c)
    BY <2>1, <2>2, <2>3 DEF Moves
  <2>5. ASSUME Count(call[c]), NEW a \in Actions
        PROVE  failed'[a] = failed[a] \/ (call[c].alone /\ call[c].action = a)
    BY <1>1, <2>1, <2>5 DEF Count
  <2> QED BY <2>1, <2>2, <2>4, <2>5, AloneMoves
<1>11. CASE FindCircuit(c) \/ CloseCircuit(c)
  <2>1. /\ call[c].at \in {"find", "close"} /\ call[c] \in SuccessCall
        /\ \A d \in Callers \ {c} : call'[d] = call[d]
        /\ UNCHANGED failed
    BY <1>11, CloseEffect DEF history, FindCircuit, CloseCircuit
  <2>2. \/ call'[c].at = "close" /\ call'[c].action = call[c].action
           /\ call'[c].alone = call[c].alone
        \/ call'[c].at = "reset" /\ call'[c].action = call[c].action
        \/ call'[c].at = "idle"
    BY <1>11, CloseEffect
  <2> QED BY <2>1, <2>2, AloneMoves DEF Moves
<1> QED BY <1>2, <1>3, <1>4, <1>5, <1>6, <1>7, <1>8, <1>9, <1>10, <1>11 DEF CallStep

LEMMA AloneOthers ==
  ASSUME GuardTyped, AloneKept, Tick \/ Restart \/ UNCHANGED guardVars
  PROVE  AloneKept'
<1> USE StagesApart
<1>1. CASE Tick \/ UNCHANGED guardVars
  <2>1. UNCHANGED <<call, failed>>
    BY <1>1 DEF Tick, guardVars, history
  <2> QED BY <2>1 DEF AloneKept, ChecksAlone, RecordsAlone, NoneCounted, At
<1>2. CASE Restart
  <2>1. \A c \in Callers : call'[c].at = "idle"
    BY <1>2, IdleIs DEF Restart
  <2> QED BY <2>1 DEF AloneKept, ChecksAlone, RecordsAlone, NoneCounted, At
<1> QED BY <1>1, <1>2

LEMMA AloneInit ==
  ASSUME GuardInit
  PROVE  AloneKept
<1>1. \A c \in Callers : call[c].at = "idle"
  BY IdleIs DEF GuardInit
<1> QED BY <1>1, StagesApart DEF AloneKept, ChecksAlone, RecordsAlone, NoneCounted

-----------------------------------------------------------------------------
(* One test of a circuit for each time it trips.                           *)

Passing(c) == call[c].at \in {"circuit", "dispatch"}

\* The call, or the alert, is the test of the trip t of a, and was alone when it passed.
CallTests(c, a, t) ==
  Passing(c) /\ call[c].action = a /\ call[c].trip = t /\ call[c].alone
SentTests(i, a, t) ==
  sent[i].action = a /\ sent[i].trip = t /\ sent[i].alone

Tested(a, t) ==
  \/ \E c \in Callers : CallTests(c, a, t)
  \/ \E i \in DOMAIN sent : SentTests(i, a, t)

\* No call and no alert knows a trip to come.
TripsKnown ==
  /\ \A c \in Callers : Passing(c) => call[c].trip <= trips[call[c].action]
  /\ \A i \in DOMAIN sent : sent[i].trip <= trips[sent[i].action]

\* A circuit that was tested since it tripped has its test marked, and nobody will reset it.
TestMarked(a, t) ==
  trips[a] = t /\ Tested(a, t) /\ circuit[a] # Closed =>
    testDone[a] /\ \A c \in Callers : ~ At(c, a, {"reset"})

\* A check that is alone with an open circuit sees it stay so, and untested.
HalfOpen(c, a, t) ==
  At(c, a, {"test", "use"}) /\ call[c].alone =>
    /\ circuit[a] # Closed
    /\ call[c].at = "use" /\ trips[a] = t => ~ Tested(a, t)

\* A trip has one test at most.
TestsApart(a, t) ==
  /\ \A c \in Callers, d \in Callers : CallTests(c, a, t) /\ CallTests(d, a, t) => c = d
  /\ \A c \in Callers, i \in DOMAIN sent : ~ (CallTests(c, a, t) /\ SentTests(i, a, t))
  /\ \A i \in DOMAIN sent, j \in DOMAIN sent : SentTests(i, a, t) /\ SentTests(j, a, t) => i = j

TestsKept ==
  /\ TripsKnown
  /\ \A a \in Actions, t \in Nat \ {0} :
       /\ TestMarked(a, t) /\ TestsApart(a, t)
       /\ \A c \in Callers : HalfOpen(c, a, t)

NoLoneCheck(a) == \A c \in Callers : At(c, a, Checks) => ~ call[c].alone

LEMMA ResetMeets ==
  ASSUME AloneKept, NEW d \in Callers, NEW a, At(d, a, Resets)
  PROVE  NoLoneCheck(a)
BY StagesApart DEF AloneKept, ChecksAlone, NoLoneCheck, At

LEMMA PassingTyped ==
  ASSUME GuardTyped
  PROVE  /\ \A c \in Callers : Passing(c) => call[c].action \in Actions /\ call[c].trip \in Nat
         /\ sent \in Seq(Alert)
         /\ \A i \in DOMAIN sent : sent[i].action \in Actions /\ sent[i].trip \in Nat
         /\ \A a \in Actions : trips[a] \in Nat
<1>1. sent \in Seq(Alert)
  BY DEF GuardTyped
<1>2. \A i \in DOMAIN sent : sent[i] \in Alert
  BY <1>1
<1>3. \A c \in Callers : Passing(c) => call[c].action \in Actions /\ call[c].trip \in Nat
  BY CallTyped DEF Passing, CircuitCall, DispatchCall
<1> QED BY <1>1, <1>2, <1>3 DEF Alert, GuardTyped

\* No test is new.
LEMMA NoNewTest ==
  ASSUME GuardTyped, GuardTyped', TestsKept, sent' = sent,
         \A c \in Callers : Passing(c)' =>
           \/ /\ Passing(c) /\ call'[c].action = call[c].action
              /\ call'[c].trip = call[c].trip /\ call'[c].alone = call[c].alone
           \/ call'[c].trip = 0,
         \A a \in Actions :
           \/ /\ circuit'[a] = circuit[a] /\ testDone'[a] = testDone[a] /\ trips'[a] = trips[a]
              /\ \A c \in Callers : At(c, a, {"reset"})' => At(c, a, {"reset"})
           \/ /\ circuit'[a] = circuit[a] /\ trips'[a] = trips[a]
              /\ \E c \in Callers : At(c, a, {"reset"})
           \/ /\ circuit'[a] = Closed /\ trips'[a] = trips[a]
              /\ circuit'[a] = circuit[a] \/ NoLoneCheck(a)'
           \/ trips'[a] = trips[a] + 1 /\ NoLoneCheck(a)',
         \A c \in Callers : call'[c].at \in {"test", "use"} /\ call'[c].alone =>
           \/ call'[c].at = "test" /\ circuit'[call'[c].action] # Closed
           \/ /\ call[c].at \in {"test", "use"} /\ call[c].alone /\ call'[c].action = call[c].action
              /\ call'[c].at = "use" /\ call[c].at # "use" => ~ testDone[call[c].action]
  PROVE  TestsKept'
<1>1. /\ \A c \in Callers : Passing(c) => call[c].action \in Actions /\ call[c].trip \in Nat
      /\ sent \in Seq(Alert)
      /\ \A i \in DOMAIN sent : sent[i].action \in Actions /\ sent[i].trip \in Nat
      /\ \A a \in Actions : trips[a] \in Nat
  BY PassingTyped
<1>2. /\ \A c \in Callers : Passing(c)' => call'[c].action \in Actions /\ call'[c].trip \in Nat
      /\ \A a \in Actions : trips'[a] \in Nat
  <2>1. \A c \in Callers : call'[c] \in GuardCall
    BY DEF GuardTyped
  <2>2. \A a \in Actions : trips'[a] \in Nat
    BY DEF GuardTyped
  <2> QED BY <2>1, <2>2, CallKinds DEF Passing, CircuitCall, DispatchCall
<1>3. \A a \in Actions : trips[a] <= trips'[a]
  BY <1>1
<1>4. ASSUME NEW c \in Callers, NEW a, NEW t \in Nat \ {0}, CallTests(c, a, t)'
      PROVE  CallTests(c, a, t)
  BY <1>4 DEF CallTests
<1>5. \A i, a, t : SentTests(i, a, t)' <=> SentTests(i, a, t)
  BY DEF SentTests
<1>6. ASSUME NEW a, NEW t \in Nat \ {0}, Tested(a, t)' PROVE Tested(a, t)
  BY <1>4, <1>5, <1>6 DEF Tested
<1>7. TripsKnown'
  <2>1. ASSUME NEW c \in Callers, Passing(c)' PROVE call'[c].trip <= trips'[call'[c].action]
    <3>1. CASE call'[c].trip = 0
      BY <1>2, <2>1, <3>1
    <3>2. CASE Passing(c) /\ call'[c].action = call[c].action /\ call'[c].trip = call[c].trip
      <4>1. call[c].trip <= trips[call[c].action]
        BY <3>2 DEF TestsKept, TripsKnown
      <4> QED BY <1>1, <1>2, <1>3, <3>2, <4>1
    <3> QED BY <2>1, <3>1, <3>2
  <2>2. ASSUME NEW i \in DOMAIN sent PROVE sent[i].trip <= trips'[sent[i].action]
    <3>1. sent[i].trip <= trips[sent[i].action]
      BY DEF TestsKept, TripsKnown
    <3> QED BY <1>1, <1>2, <1>3, <3>1
  <2> QED BY <2>1, <2>2 DEF TripsKnown
<1>8. ASSUME NEW a \in Actions, NEW t \in Nat \ {0} PROVE TestMarked(a, t)'
  <2> SUFFICES ASSUME trips'[a] = t, Tested(a, t)', circuit'[a] # Closed
               PROVE  testDone'[a] /\ \A c \in Callers : ~ At(c, a, {"reset"})'
    BY DEF TestMarked
  <2>1. Tested(a, t) /\ TestMarked(a, t)
    BY <1>6 DEF TestsKept
  <2>2. CASE trips'[a] = trips[a]
    BY <2>1, <2>2 DEF TestMarked
  <2>3. CASE trips'[a] = trips[a] + 1
    <3>1. \A c \in Callers : CallTests(c, a, t) => t <= trips[a]
      BY DEF TestsKept, TripsKnown, CallTests
    <3>2. \A i \in DOMAIN sent : SentTests(i, a, t) => t <= trips[a]
      BY DEF TestsKept, TripsKnown, SentTests
    <3> QED BY <1>1, <2>1, <2>3, <3>1, <3>2 DEF Tested
  <2> QED BY <2>2, <2>3
<1>9. ASSUME NEW a \in Actions, NEW t \in Nat \ {0}, NEW c \in Callers PROVE HalfOpen(c, a, t)'
  <2> SUFFICES ASSUME call'[c].at \in {"test", "use"}, call'[c].action = a, call'[c].alone
               PROVE  /\ circuit'[a] # Closed
                      /\ call'[c].at = "use" /\ trips'[a] = t => ~ Tested(a, t)'
    BY DEF HalfOpen, At
  <2>1. CASE call'[c].at = "test" /\ circuit'[a] # Closed
    BY <2>1
  <2>2. CASE /\ call[c].at \in {"test", "use"} /\ call[c].alone /\ a = call[c].action
             /\ call'[c].at = "use" /\ call[c].at # "use" => ~ testDone[call[c].action]
    <3>1. HalfOpen(c, a, t) /\ TestMarked(a, t)
      BY DEF TestsKept
    <3>2. circuit[a] # Closed
      BY <2>2, <3>1 DEF HalfOpen, At
    <3>3. ~ NoLoneCheck(a)'
      BY StagesApart DEF NoLoneCheck, At
    <3>4. circuit'[a] = circuit[a] /\ trips'[a] = trips[a]
      BY <3>2, <3>3
    <3>5. ASSUME call'[c].at = "use", trips[a] = t PROVE ~ Tested(a, t)
      <4>1. CASE call[c].at = "use"
        BY <2>2, <3>1, <3>5, <4>1 DEF HalfOpen, At
      <4>2. CASE call[c].at # "use"
        BY <2>2, <3>1, <3>2, <3>5, <4>2 DEF TestMarked
      <4> QED BY <4>1, <4>2
    <3>6. Tested(a, t)' => Tested(a, t)
      BY <1>6
    <3> QED BY <3>2, <3>4, <3>5, <3>6
  <2> QED BY <2>1, <2>2
<1>10. ASSUME NEW a \in Actions, NEW t \in Nat \ {0} PROVE TestsApart(a, t)'
  <2>1. TestsApart(a, t)
    BY DEF TestsKept
  <2>2. \A c \in Callers : CallTests(c, a, t)' => CallTests(c, a, t)
    BY <1>4
  <2>3. \A i : SentTests(i, a, t)' <=> SentTests(i, a, t)
    BY <1>5
  <2> HIDE DEF CallTests, SentTests
  <2> QED BY <2>1, <2>2, <2>3 DEF TestsApart
<1> QED BY <1>7, <1>8, <1>9, <1>10 DEF TestsKept

\* A check that uses the test of a circuit is the first since it tripped, if it is alone.
LEMMA PassingTest ==
  ASSUME GuardTyped, GuardTyped', TestsKept, AloneKept, NEW c \in Callers, UseTest(c)
  PROVE  TestsKept'
<1>1. /\ \A d \in Callers : Passing(d) => call[d].action \in Actions /\ call[d].trip \in Nat
      /\ \A b \in Actions : trips[b] \in Nat
  BY PassingTyped
<1>2. call[c].at = "use" /\ call[c].action \in Actions /\ ~ Passing(c)
  BY <1>1, CallTyped DEF UseTest, Passing
<1> PICK a \in Actions, t \in Nat : a = call[c].action /\ t = trips[a]
  BY <1>1, <1>2
<1>3. /\ call'[c].at = "circuit" /\ call'[c].action = a /\ call'[c].alone = call[c].alone
      /\ call'[c].trip = t /\ \A d \in Callers \ {c} : call'[d] = call[d]
  BY <1>2, PassTyped DEF UseTest, Checks
<1>4. UNCHANGED <<circuit, trips, sent>> /\ testDone' = [testDone EXCEPT ![a] = TRUE]
      /\ testDone \in [Actions -> BOOLEAN]
  BY DEF UseTest, TestUsed, history, GuardTyped, GuardTypeOK
<1>5. \A i, b, s : SentTests(i, b, s)' <=> SentTests(i, b, s)
  BY <1>4 DEF SentTests
<1>6. \A d \in Callers \ {c} : \A b, s : CallTests(d, b, s)' <=> CallTests(d, b, s)
  BY <1>3 DEF CallTests, Passing
<1>7. \A b, s : CallTests(c, b, s)' <=> (b = a /\ s = t /\ call[c].alone)
  BY <1>3 DEF CallTests, Passing
<1>8. \A b, s : ~ CallTests(c, b, s)
  BY <1>2 DEF CallTests
<1>9. \A b, s : Tested(b, s)' <=> (Tested(b, s) \/ (b = a /\ s = t /\ call[c].alone))
  BY <1>4, <1>5, <1>6, <1>7, <1>8 DEF Tested
<1>10. call[c].alone => circuit[a] # Closed /\ (t # 0 => ~ Tested(a, t))
  <2>1. t # 0 => HalfOpen(c, a, t)
    BY DEF TestsKept
  <2>2. HalfOpen(c, a, 1)
    BY DEF TestsKept
  <2> QED BY <1>2, <2>1, <2>2 DEF HalfOpen, At
<1>11. call[c].alone => \A d \in Callers \ {c} : ~ At(d, a, Inside)
  BY <1>2, StagesApart DEF AloneKept, ChecksAlone
<1>12. TripsKnown'
  <2>1. ASSUME NEW d \in Callers, Passing(d)' PROVE call'[d].trip <= trips'[call'[d].action]
    <3>1. CASE d = c
      BY <1>2, <1>3, <1>4, <3>1
    <3>2. CASE d # c
      BY <1>3, <1>4, <2>1, <3>2 DEF TestsKept, TripsKnown, Passing
    <3> QED BY <3>1, <3>2
  <2> QED BY <1>4, <2>1 DEF TestsKept, TripsKnown
<1>13. ASSUME NEW b \in Actions, NEW s \in Nat \ {0} PROVE TestMarked(b, s)'
  <2>1. SUFFICES ASSUME trips[b] = s, Tested(b, s)', circuit[b] # Closed
                 PROVE  testDone'[b] /\ \A d \in Callers : ~ At(d, b, {"reset"})'
    BY <1>4 DEF TestMarked
  <2>2. CASE Tested(b, s)
    <3>1. testDone[b] /\ \A d \in Callers : ~ At(d, b, {"reset"})
      BY <2>1, <2>2 DEF TestsKept, TestMarked
    <3> QED BY <1>3, <1>4, <3>1 DEF At
  <2>3. CASE b = a /\ call[c].alone
    <3>1. testDone'[b]
      BY <1>4, <2>3
    <3>2. ASSUME NEW d \in Callers, At(d, b, {"reset"})' PROVE FALSE
      <4>1. d # c /\ At(d, a, Inside)
        BY <1>3, <2>3, <3>2, StagesApart DEF At
      <4> QED BY <1>11, <2>3, <4>1
    <3> QED BY <3>1, <3>2
  <2>4. Tested(b, s) \/ (b = a /\ call[c].alone)
    BY <1>9, <2>1
  <2> QED BY <2>2, <2>3, <2>4
<1>14. ASSUME NEW d \in Callers, NEW b \in Actions, NEW s \in Nat \ {0} PROVE HalfOpen(d, b, s)'
  <2>1. SUFFICES ASSUME call'[d].at \in {"test", "use"}, call'[d].action = b, call'[d].alone
                 PROVE  /\ circuit[b] # Closed
                        /\ call'[d].at = "use" /\ trips[b] = s => ~ Tested(b, s)'
    BY <1>4 DEF HalfOpen, At
  <2>2. d # c /\ call'[d] = call[d]
    BY <1>3, <2>1
  <2>3. HalfOpen(d, b, s)
    BY DEF TestsKept
  <2>4. b # a
    <3>1. At(c, a, Inside)
      BY <1>2, StagesApart DEF At
    <3> QED BY <2>1, <2>2, <3>1, StagesApart DEF AloneKept, ChecksAlone
  <2>5. Tested(b, s)' => Tested(b, s)
    BY <1>9, <2>4
  <2> QED BY <2>1, <2>2, <2>3, <2>5 DEF HalfOpen, At
<1>15. ASSUME NEW b \in Actions, NEW s \in Nat \ {0} PROVE TestsApart(b, s)'
  <2>1. TestsApart(b, s)
    BY DEF TestsKept
  <2>2. CASE b = a /\ s = t /\ call[c].alone
    <3>1. ~ Tested(b, s)
      BY <1>10, <2>2
    <3>2. /\ \A d \in Callers \ {c} : ~ CallTests(d, b, s)'
          /\ \A i \in DOMAIN sent : ~ SentTests(i, b, s)'
      BY <1>5, <1>6, <3>1 DEF Tested
    <3> QED BY <1>4, <3>2 DEF TestsApart
  <2>3. CASE ~ (b = a /\ s = t /\ call[c].alone)
    <3>1. \A d \in Callers : CallTests(d, b, s)' => CallTests(d, b, s)
      BY <1>6, <1>7, <2>3
    <3> QED BY <1>4, <1>5, <2>1, <3>1 DEF TestsApart
  <2> QED BY <2>2, <2>3
<1> QED BY <1>12, <1>13, <1>14, <1>15 DEF TestsKept

\* An alert is the test its call was.
LEMMA SentTest ==
  ASSUME GuardTyped, TestsKept, NEW c \in Callers, Passing(c), NEW m,
         m.action = call[c].action, m.trip = call[c].trip, m.alone = call[c].alone,
         sent' = Append(sent, m), UNCHANGED <<circuit, testDone, trips>>,
         call'[c].at \in {"idle", "record"}, \A d \in Callers \ {c} : call'[d] = call[d]
  PROVE  TestsKept'
<1>1. sent \in Seq(Alert)
  BY DEF GuardTyped
<1> PICK n \in Nat : n = Len(sent) + 1
  BY <1>1
<1>2. /\ DOMAIN sent' = DOMAIN sent \cup {n} /\ sent'[n] = m /\ n \notin DOMAIN sent
      /\ \A i \in DOMAIN sent : sent'[i] = sent[i]
  BY <1>1
<1>3. \A i \in DOMAIN sent : \A b, s : SentTests(i, b, s)' <=> SentTests(i, b, s)
  BY <1>2 DEF SentTests
<1>4. \A b, s : SentTests(n, b, s)' <=> CallTests(c, b, s)
  BY <1>2 DEF SentTests, CallTests
<1>5. \A d \in Callers \ {c} : (Passing(d)' <=> Passing(d)) /\ ~ Passing(c)'
  BY DEF Passing
<1>6. \A d \in Callers \ {c} : \A b, s : CallTests(d, b, s)' <=> CallTests(d, b, s)
  BY DEF CallTests, Passing
<1>7. \A b, s : ~ CallTests(c, b, s)'
  BY DEF CallTests, Passing
<1>8. \A b, s : Tested(b, s)' => Tested(b, s)
  BY <1>2, <1>3, <1>4, <1>6, <1>7 DEF Tested
<1>9. TripsKnown'
  <2>1. ASSUME NEW d \in Callers, Passing(d)' PROVE call'[d].trip <= trips'[call'[d].action]
    <3>1. d # c
      BY <2>1 DEF Passing
    <3> QED BY <2>1, <3>1 DEF TestsKept, TripsKnown, Passing
  <2>2. ASSUME NEW i \in DOMAIN sent' PROVE sent'[i].trip <= trips'[sent'[i].action]
    BY <1>2, <2>2 DEF TestsKept, TripsKnown
  <2> QED BY <2>1, <2>2 DEF TripsKnown
<1>10. ASSUME NEW b \in Actions, NEW s \in Nat \ {0} PROVE TestMarked(b, s)'
  <2>1. TestMarked(b, s)
    BY DEF TestsKept
  <2>2. \A d \in Callers : At(d, b, {"reset"})' => At(d, b, {"reset"})
    BY DEF At
  <2>3. Tested(b, s)' => Tested(b, s)
    BY <1>8
  <2> QED BY <2>1, <2>2, <2>3 DEF TestMarked
<1>11. ASSUME NEW d \in Callers, NEW b \in Actions, NEW s \in Nat \ {0} PROVE HalfOpen(d, b, s)'
  <2>1. CASE d = c
    BY <2>1 DEF HalfOpen, At
  <2>2. CASE d # c
    <3>1. HalfOpen(d, b, s) /\ call'[d] = call[d]
      BY <2>2 DEF TestsKept
    <3>2. Tested(b, s)' => Tested(b, s)
      BY <1>8
    <3> QED BY <3>1, <3>2 DEF HalfOpen, At
  <2> QED BY <2>1, <2>2
<1>12. ASSUME NEW b \in Actions, NEW s \in Nat \ {0} PROVE TestsApart(b, s)'
  <2>1. TestsApart(b, s)
    BY DEF TestsKept
  <2>2. \A d \in Callers : CallTests(d, b, s)' => d # c /\ CallTests(d, b, s)
    BY <1>6, <1>7
  <2>3. \A i \in DOMAIN sent' :
          SentTests(i, b, s)' => (i \in DOMAIN sent /\ SentTests(i, b, s)) \/ (i = n /\ CallTests(c, b, s))
    BY <1>2, <1>3, <1>4
  <2> QED BY <2>1, <2>2, <2>3 DEF TestsApart
<1> QED BY <1>9, <1>10, <1>11, <1>12 DEF TestsKept

\* A step that touches neither the circuits nor their tests, nor the calls in a check.
LEMMA TestsUntouched ==
  ASSUME GuardTyped, GuardTyped', TestsKept, UNCHANGED <<circuit, testDone, trips, sent>>,
         \A c \in Callers :
           /\ Passing(c)' =>
                /\ Passing(c) /\ call'[c].action = call[c].action
                /\ call'[c].trip = call[c].trip /\ call'[c].alone = call[c].alone
           /\ call'[c].at = "reset" => call[c].at = "reset" /\ call'[c].action = call[c].action
           /\ call'[c].at \in {"test", "use"} /\ call'[c].alone =>
                call[c].at = call'[c].at /\ call[c].alone /\ call'[c].action = call[c].action
  PROVE  TestsKept'
BY NoNewTest DEF At

LEMMA TestsSteps ==
  ASSUME GuardTyped, GuardTyped', AloneKept, AloneKept', TestsKept, NEW c \in Callers, CallStep(c)
  PROVE  TestsKept'
<1>1. /\ call \in [Callers -> GuardCall] /\ trips \in [Actions -> Nat]
      /\ circuit \in [Actions -> Nat \cup {Closed}] /\ testDone \in [Actions -> BOOLEAN]
  BY DEF GuardTyped, GuardTypeOK
<1>2. CASE ReadState(c)
  <2>1. UNCHANGED <<circuit, testDone, trips, sent>> /\ call[c].at = "idle"
    BY <1>2, ReadStateEffect DEF memory, history
  <2>2. CASE UNCHANGED call
    BY <2>1, <2>2, TestsUntouched DEF Passing
  <2>3. CASE ~ UNCHANGED call
    <3>1. PICK a \in Actions :
            /\ call'[c].at = IF circuit[a] = Closed THEN "count" ELSE "test"
            /\ call'[c].action = a
            /\ \A d \in Callers \ {c} :
                 call'[d] = IF At(d, a, Checks) THEN Disturbed(call[d]) ELSE call[d]
      BY <1>2, <2>3, ReadStateEffect
    <3> DEFINE S == Checks
    <3>2. S \in SUBSET (Checks \cup Records)
      OBVIOUS
    <3>3. \A d \in Callers \ {c} : call'[d] = IF At(d, a, S) THEN Disturbed(call[d]) ELSE call[d]
      BY <3>1
    <3> HIDE DEF S
    <3>4. \A d \in Callers \ {c} :
            /\ call'[d].at = call[d].at
            /\ call[d].at \in Inside => call'[d].action = call[d].action
            /\ call'[d] = call[d] \/ call'[d].alone = FALSE
            /\ ~ At(d, a, S) => call'[d] = call[d]
      BY <3>2, <3>3, OthersStay
    <3>5. ASSUME NEW d \in Callers \ {c}, Passing(d)' PROVE Passing(d) /\ call'[d] = call[d]
      <4>1. call[d].at \in {"circuit", "dispatch"}
        BY <3>4, <3>5 DEF Passing
      <4>2. ~ At(d, a, S)
        BY <3>2, <4>1, StagesApart DEF At
      <4> QED BY <3>4, <4>1, <4>2 DEF Passing
    <3>6. ~ Passing(c)' /\ call'[c].at # "reset" /\ call'[c].at # "use"
      BY <3>1 DEF Passing
    <3>7. \A d \in Callers, b \in Actions : At(d, b, {"reset"})' => At(d, b, {"reset"})
      BY <3>4, <3>6, StagesApart DEF At
    <3>8. ASSUME NEW d \in Callers, call'[d].at \in {"test", "use"}, call'[d].alone
          PROVE  \/ call'[d].at = "test" /\ circuit'[call'[d].action] # Closed
                 \/ /\ call[d].at \in {"test", "use"} /\ call[d].alone
                    /\ call'[d].action = call[d].action
                    /\ call'[d].at = "use" /\ call[d].at # "use" => ~ testDone[call[d].action]
      <4>1. CASE d = c
        BY <2>1, <3>1, <3>6, <3>8, <4>1
      <4>2. CASE d # c
        BY <3>4, <3>8, <4>2, StagesApart
      <4> QED BY <4>1, <4>2
    <3> QED BY <2>1, <3>5, <3>6, <3>7, <3>8, NoNewTest
  <2> QED BY <2>2, <2>3
<1>3. CASE CountFailures(c)
  <2> DEFINE r == [at |-> "halt", action |-> call[c].action]
  <2>1. call[c].at = "count" /\ UNCHANGED <<circuit, testDone, trips, sent>> /\ call[c].action \in Actions
    BY <1>3, CallTyped DEF CountFailures, memory, history
  <2>2. Set(c, r) \/ Pass(c, 0)
    BY <1>3 DEF CountFailures
  <2>3. CASE Set(c, r)
    <3>1. r \in GuardCall /\ r.at = "halt"
      BY <2>1, ResetIs DEF Resets
    <3> HIDE DEF r
    <3>2. call'[c] = r /\ \A d \in Callers \ {c} : call'[d] = call[d]
      BY <1>1, <2>3, <3>1, SetCall
    <3> QED BY <2>1, <3>1, <3>2, TestsUntouched DEF Passing
  <2>4. CASE Pass(c, 0)
    <3>1. call'[c].at = "circuit" /\ call'[c].trip = 0 /\ \A d \in Callers \ {c} : call'[d] = call[d]
      BY <2>1, <2>4, PassTyped DEF Checks
    <3> QED BY <2>1, <3>1, NoNewTest DEF Passing, At
  <2> QED BY <2>2, <2>3, <2>4
<1>4. CASE HaltCircuit(c) \/ TripCircuit(c)
  <2>0. call[c].action \in Actions
    BY <1>4, CallTyped DEF HaltCircuit, TripCircuit
  <2> PICK a \in Actions : a = call[c].action
    BY <2>0
  <2> DEFINE r == [at |-> "reset", action |-> a]
  <2>1. UNCHANGED <<testDone, sent>>
    BY <1>4 DEF HaltCircuit, TripCircuit
  <2>2. r \in GuardCall /\ r.at = "reset" /\ r.action = a /\ Set(c, r)
    BY <1>4, <2>1, ResetIs DEF HaltCircuit, TripCircuit, Resets
  <2>3. \E t : TripAt(a, t)
    BY <1>4 DEF HaltCircuit, TripCircuit
  <2> HIDE DEF r
  <2>4. call'[c].at = "reset" /\ call'[c].action = a /\ \A d \in Callers \ {c} : call'[d] = call[d]
    BY <1>1, <2>2, SetCall
  <2>5. trips'[a] = trips[a] + 1 /\ \A b \in Actions \ {a} :
          circuit'[b] = circuit[b] /\ trips'[b] = trips[b]
    BY <1>1, <2>1, <2>3 DEF TripAt
  <2>6. NoLoneCheck(a)'
    <3>1. \A d \in Callers : d # c /\ call'[d].at \in Checks /\ call'[d].alone => call'[d].action # a
      BY <2>4, StagesApart DEF AloneKept, ChecksAlone, At
    <3>2. call'[c].at \notin Checks
      BY <2>4, StagesApart
    <3> QED BY <3>1, <3>2 DEF NoLoneCheck, At
  <2>7. \A b \in Actions :
          \/ /\ circuit'[b] = circuit[b] /\ testDone'[b] = testDone[b] /\ trips'[b] = trips[b]
             /\ \A d \in Callers : At(d, b, {"reset"})' => At(d, b, {"reset"})
          \/ trips'[b] = trips[b] + 1 /\ NoLoneCheck(b)'
    <3> SUFFICES ASSUME NEW b \in Actions
                 PROVE  \/ /\ circuit'[b] = circuit[b] /\ testDone'[b] = testDone[b]
                           /\ trips'[b] = trips[b]
                           /\ \A d \in Callers : At(d, b, {"reset"})' => At(d, b, {"reset"})
                        \/ trips'[b] = trips[b] + 1 /\ NoLoneCheck(b)'
      OBVIOUS
    <3>1. CASE b = a
      BY <2>5, <2>6, <3>1
    <3>2. CASE b # a
      <4>1. \A d \in Callers : At(d, b, {"reset"})' => At(d, b, {"reset"})
        BY <2>4, <3>2 DEF At
      <4> QED BY <2>1, <2>5, <3>2, <4>1
    <3> QED BY <3>1, <3>2
  <2> QED BY <2>1, <2>4, <2>7, NoNewTest DEF Passing
<1>5. CASE ReadTest(c)
  <2> DEFINE u == [call[c] EXCEPT !.at = "use"]
  <2>1. /\ UNCHANGED <<circuit, testDone, trips, sent>> /\ call[c].at = "test"
        /\ (testDone[call[c].action] /\ Set(c, Idle)) \/ (~ testDone[call[c].action] /\ Set(c, u))
    BY <1>5 DEF ReadTest, memory, history
  <2>2. CASE Set(c, Idle)
    <3>1. call'[c].at = "idle" /\ \A d \in Callers \ {c} : call'[d] = call[d]
      BY <1>1, <2>2, SetCall, IdleIs
    <3> QED BY <2>1, <3>1, TestsUntouched DEF Passing
  <2>3. CASE ~ testDone[call[c].action] /\ Set(c, u)
    <3>1. call[c] \in CheckCall
      BY <2>1, CallTyped DEF Checks
    <3>2. u \in GuardCall /\ u.at = "use" /\ u.action = call[c].action /\ u.alone = call[c].alone
      BY <1>1, <2>1, <3>1, StageIs DEF CheckCall, Checks
    <3> HIDE DEF u
    <3>3. call'[c] = u /\ \A d \in Callers \ {c} : call'[d] = call[d]
      BY <1>1, <2>3, <3>2, SetCall
    <3>4. \A d \in Callers : Passing(d)' => d # c /\ Passing(d) /\ call'[d] = call[d]
      BY <3>2, <3>3 DEF Passing
    <3>5. \A d \in Callers : \A b : At(d, b, {"reset"})' => At(d, b, {"reset"})
      BY <3>2, <3>3 DEF At
    <3>6. ASSUME NEW d \in Callers, call'[d].at \in {"test", "use"}, call'[d].alone
          PROVE  /\ call[d].at \in {"test", "use"} /\ call[d].alone
                 /\ call'[d].action = call[d].action
                 /\ call'[d].at = "use" /\ call[d].at # "use" => ~ testDone[call[d].action]
      BY <2>1, <2>3, <3>2, <3>3, <3>6
    <3> QED BY <2>1, <3>4, <3>5, <3>6, NoNewTest
  <2> QED BY <2>1, <2>2, <2>3
<1>6. CASE UseTest(c)
  BY <1>6, PassingTest
<1>7. CASE ResetTest(c)
  <2> DEFINE a == call[c].action
  <2>1. /\ UNCHANGED <<circuit, trips, sent>> /\ testDone' = [testDone EXCEPT ![a] = FALSE]
        /\ Set(c, Idle) /\ At(c, a, {"reset"})
    BY <1>7 DEF ResetTest, history, At
  <2>2. call'[c].at = "idle" /\ \A d \in Callers \ {c} : call'[d] = call[d]
    BY <1>1, <2>1, SetCall, IdleIs
  <2>3. \A b \in Actions :
          \/ testDone'[b] = testDone[b]
          \/ \E d \in Callers : At(d, b, {"reset"})
    BY <1>1, <2>1
  <2>4. \A d \in Callers : \A b : At(d, b, {"reset"})' => At(d, b, {"reset"})
    BY <2>2 DEF At
  <2> QED BY <2>1, <2>2, <2>3, <2>4, NoNewTest DEF Passing
<1>8. CASE CheckAction(c)
  <2>1. UNCHANGED <<circuit, testDone, trips, sent>> /\ call[c].at = "circuit"
    BY <1>8, CheckActionEffect DEF memory, history
  <2> QED BY <1>8, <2>1, CheckActionEffect, TestsUntouched DEF Passing
<1>9. CASE SubmitTriageAlert(c)
  <2> DEFINE m == [action |-> call[c].action, host |-> call[c].host, halted |-> call[c].halted,
                   alone |-> call[c].alone, trip |-> call[c].trip, seen |-> call[c].seen,
                   since |-> call[c].since, at |-> clock]
  <2>1. /\ sent' = sent \/ sent' = Append(sent, m)
        /\ call[c].at = "dispatch" /\ UNCHANGED <<circuit, testDone, trips>>
        /\ call'[c].at \in {"idle", "record"} /\ \A d \in Callers \ {c} : call'[d] = call[d]
    BY <1>9, SubmitEffect DEF memory
  <2>2. m.action = call[c].action /\ m.trip = call[c].trip /\ m.alone = call[c].alone
    OBVIOUS
  <2>3. Passing(c)
    BY <2>1 DEF Passing
  <2> HIDE DEF m
  <2>4. CASE sent' = sent
    BY <2>1, <2>4, TestsUntouched DEF Passing
  <2>5. CASE sent' = Append(sent, m)
    BY <2>1, <2>2, <2>3, <2>5, SentTest
  <2> QED BY <2>1, <2>4, <2>5
<1>10. CASE RecordAction(c) \/ VerifyNodeAction(c)
  <2>1. /\ UNCHANGED <<circuit, testDone, trips, sent>> /\ call'[c].at \in {"idle", "verify"}
        /\ \A d \in Callers \ {c} : call'[d] = call[d]
    BY <1>10, RecordEffect, VerifyEffect DEF memory, history
  <2> QED BY <2>1, TestsUntouched DEF Passing
<1>11. CASE AppendFailure(c) \/ ClearFailures(c)
  <2>1. PICK a \in Actions :
          /\ call'[c].at \in {"prune", "find"}
          /\ \A d \in Callers \ {c} :
               call'[d] = IF At(d, a, Checks \cup Records) THEN Disturbed(call[d]) ELSE call[d]
    BY <1>11, AppendEffect, ClearEffect
  <2>2. UNCHANGED <<circuit, testDone, trips, sent>>
    BY <1>11, AppendEffect, ClearEffect
  <2> DEFINE S == Checks \cup Records
  <2>3. S \in SUBSET (Checks \cup Records) /\ S = Checks \cup Records
    OBVIOUS
  <2>4. \A d \in Callers \ {c} : call'[d] = IF At(d, a, S) THEN Disturbed(call[d]) ELSE call[d]
    BY <2>1
  <2> HIDE DEF S
  <2>5. \A d \in Callers \ {c} :
          /\ call'[d].at = call[d].at
          /\ call[d].at \in Inside => call'[d].action = call[d].action
          /\ call'[d] = call[d] \/ call'[d].alone = FALSE
          /\ ~ At(d, a, S) => call'[d] = call[d]
    BY <2>3, <2>4, OthersStay
  <2>6. ASSUME NEW d \in Callers, Passing(d)' PROVE d # c /\ Passing(d) /\ call'[d] = call[d]
    <3>1. d # c /\ call[d].at \in {"circuit", "dispatch"}
      BY <2>1, <2>5, <2>6 DEF Passing
    <3>2. ~ At(d, a, S)
      BY <2>3, <3>1, StagesApart DEF At
    <3> QED BY <2>5, <3>1, <3>2 DEF Passing
  <2>7. \A d \in Callers : call'[d].at = "reset" => call[d].at = "reset" /\ call'[d].action = call[d].action
    BY <2>1, <2>5, StagesApart
  <2>8. \A d \in Callers : call'[d].at \in {"test", "use"} /\ call'[d].alone =>
          d # c /\ call'[d] = call[d]
    BY <2>1, <2>5
  <2> QED BY <2>2, <2>6, <2>7, <2>8, TestsUntouched
<1>12. CASE PruneFailures(c) \/ WriteFailures(c) \/ CountLog(c)
  <2>1. /\ UNCHANGED <<circuit, testDone, trips, sent>>
        /\ call'[c].at \in {"write", "size", "trip", "idle"}
        /\ \A d \in Callers \ {c} : call'[d] = call[d]
    BY <1>12, PruneEffect, WriteEffect, CountEffect DEF memory, history
  <2> QED BY <2>1, TestsUntouched DEF Passing
<1>13. CASE FindCircuit(c) \/ CloseCircuit(c)
  <2> DEFINE a == call[c].action
  <2>1. /\ \/ call'[c].at = "close"
           \/ call'[c].at = "reset" /\ call'[c].action = a /\ circuit'[a] = Closed
           \/ call'[c].at = "idle"
        /\ \A d \in Callers \ {c} : call'[d] = call[d]
        /\ \A b \in Actions : circuit'[b] = circuit[b] \/ (b = a /\ circuit'[b] = Closed)
        /\ UNCHANGED <<testDone, trips, sent>>
    BY <1>13, CloseEffect DEF history
  <2>2. circuit'[a] = circuit[a] \/ (call'[c].at = "reset" /\ call'[c].action = a)
    <3>1. call[c] \in SuccessCall /\ a \in Actions
      BY <1>13, CloseEffect DEF SuccessCall
    <3>2. CASE FindCircuit(c)
      BY <3>2 DEF FindCircuit, memory
    <3>3. CASE CloseCircuit(c)
      <4>1. circuit' = [circuit EXCEPT ![a] = Closed]
        BY <3>3 DEF CloseCircuit
      <4>2. CASE circuit[a] = Closed
        BY <1>1, <3>1, <4>1, <4>2
      <4>3. CASE circuit[a] # Closed
        <5>1. Set(c, [at |-> "reset", action |-> a])
          BY <3>3, <4>3 DEF CloseCircuit
        <5>2. call'[c] = [at |-> "reset", action |-> a]
          BY <1>1, <5>1 DEF Set
        <5> QED BY <5>2
      <4> QED BY <4>2, <4>3
    <3> QED BY <1>13, <3>2, <3>3
  <2> HIDE DEF a
  <2>3. ASSUME NEW b \in Actions
        PROVE  \/ /\ circuit'[b] = circuit[b] /\ testDone'[b] = testDone[b] /\ trips'[b] = trips[b]
                  /\ \A d \in Callers : At(d, b, {"reset"})' => At(d, b, {"reset"})
               \/ /\ circuit'[b] = Closed /\ trips'[b] = trips[b]
                  /\ circuit'[b] = circuit[b] \/ NoLoneCheck(b)'
    <3>1. CASE call'[c].at = "reset" /\ b = a
      <4>1. call'[c].action = a /\ circuit'[a] = Closed
        BY <2>1, <3>1
      <4>2. NoLoneCheck(b)'
        <5>1. \A d \in Callers : d # c /\ call'[d].at \in Checks /\ call'[d].alone => call'[d].action # a
          BY <3>1, <4>1, StagesApart DEF AloneKept, ChecksAlone, At
        <5>2. call'[c].at \notin Checks
          BY <3>1, StagesApart
        <5> QED BY <3>1, <5>1, <5>2 DEF NoLoneCheck, At
      <4> QED BY <2>1, <3>1, <4>1, <4>2
    <3>2. CASE ~ (call'[c].at = "reset" /\ b = a)
      <4>1. circuit'[b] = circuit[b]
        BY <2>1, <2>2, <3>2
      <4>2. \A d \in Callers : At(d, b, {"reset"})' => At(d, b, {"reset"})
        BY <2>1, <3>2 DEF At
      <4> QED BY <2>1, <4>1, <4>2
    <3> QED BY <3>1, <3>2
  <2> QED BY <2>1, <2>3, NoNewTest DEF Passing
<1> QED BY <1>2, <1>3, <1>4, <1>5, <1>6, <1>7, <1>8, <1>9, <1>10, <1>11, <1>12, <1>13 DEF CallStep

LEMMA TestsOthers ==
  ASSUME GuardTyped, GuardTyped', TestsKept, Tick \/ Restart \/ UNCHANGED guardVars
  PROVE  TestsKept'
<1>1. CASE Tick \/ UNCHANGED guardVars
  <2>1. UNCHANGED <<circuit, testDone, trips, call, sent>>
    BY <1>1 DEF Tick, guardVars, memory, history
  <2> QED BY <2>1, TestsUntouched DEF Passing
<1>2. CASE Restart
  <2>1. UNCHANGED <<trips, sent>> /\ \A c \in Callers : call'[c].at = "idle"
    BY <1>2, IdleIs DEF Restart
  <2>2. \A a \in Actions : circuit'[a] = Closed
    BY <1>2 DEF Restart, PerAction
  <2>3. \A a : NoLoneCheck(a)'
    BY <2>1, StagesApart DEF NoLoneCheck, At
  <2> QED BY <2>1, <2>2, <2>3, NoNewTest DEF Passing
<1> QED BY <1>1, <1>2

LEMMA TestsInit ==
  ASSUME GuardInit
  PROVE  TestsKept
<1>1. /\ \A c \in Callers : call[c].at = "idle"
      /\ \A a \in Actions : trips[a] = 0 /\ circuit[a] = Closed
      /\ DOMAIN sent = {}
  BY IdleIs DEF GuardInit, PerAction
<1> QED BY <1>1 DEF TestsKept, TripsKnown, TestMarked, HalfOpen, TestsApart, Tested, CallTests,
                    SentTests, Passing, At

\* The invariant is what the run checks.
LEMMA TestsAreOne ==
  ASSUME GuardTyped, TestsKept
  PROVE  OneTest
<1> SUFFICES ASSUME NEW i \in 1 .. Len(sent), NEW j \in 1 .. Len(sent), i # j,
                    sent[i].action = sent[j].action, sent[i].trip = sent[j].trip,
                    sent[i].alone, sent[j].alone
             PROVE  sent[i].trip = 0
  BY DEF OneTest
<1>1. sent \in Seq(Alert) /\ \A k \in DOMAIN sent : sent[k].action \in Actions /\ sent[k].trip \in Nat
  BY PassingTyped
<1>2. i \in DOMAIN sent /\ j \in DOMAIN sent
  BY <1>1
<1>3. PICK a \in Actions, t \in Nat : a = sent[i].action /\ t = sent[i].trip
  BY <1>1, <1>2
<1>4. t # 0 => TestsApart(a, t)
  BY DEF TestsKept
<1> QED BY <1>2, <1>3, <1>4 DEF TestsApart, SentTests

-----------------------------------------------------------------------------
(* Failures halt an action.                                                *)

Failing == {"prune", "write", "size", "trip"}

\* The failures of F in the window that ends with f.
InWindow(F, f) == {g \in F : f.at - Window < g.at /\ g.at <= f.at}

\* The log holds what was counted and is in the window.
LogKept(a) ==
  /\ IsFiniteSet(failureLog[a])
  /\ \A f \in failed[a] : f.at <= clock /\ (clock - f.at < Window => f \in failureLog[a])

\* MaxFailures in a window tripped the circuit, as of the last of them or later.
HaltKept(a) ==
  \A f \in failed[a] :
    Cardinality(InWindow(failed[a], f)) >= MaxFailures => circuit[a] # Closed /\ circuit[a] >= f.at

\* A failure that is recorded alone is the last, and what is in its window is in the list that
\* the call will count.
ListKept(c) ==
  LET r == call[c]
      list == IF r.at = "write" THEN r.kept ELSE failureLog[r.action] IN
  /\ r.at = "write" => IsFiniteSet(r.kept)
  /\ r.at \in Failing /\ r.alone =>
       /\ r.failure.at <= clock
       /\ \A g \in failed[r.action] \cup {r.failure} :
            g.at <= r.failure.at /\ (r.failure.at - g.at < Window => g \in list)

\* No call that goes on should be halted.
PassKept ==
  /\ \A c \in Callers : call[c].at \in Checks \/ Passing(c) => ~ call[c].halted
  /\ FailuresHalt

FailuresKept ==
  /\ \A a \in Actions : LogKept(a) /\ HaltKept(a)
  /\ \A c \in Callers : ListKept(c)

\* A circuit that lets a call pass is not one that should halt it.
LEMMA NotHalted ==
  ASSUME GuardTyped, FailuresKept, NEW a \in Actions,
         circuit[a] = Closed \/ ~ (clock - circuit[a] < CircuitCooldown)
  PROVE  ~ Halted(a)
<1> SUFFICES ASSUME Halted(a) PROVE FALSE
  OBVIOUS
<1>1. clock \in Nat /\ failed[a] \in SUBSET Failure /\ circuit[a] \in Nat \cup {Closed}
  BY DEF GuardTyped, GuardTypeOK
<1>2. PICK f \in failed[a] :
        clock - f.at < CircuitCooldown /\ Cardinality(InWindow(failed[a], f)) >= MaxFailures
  BY DEF Halted, InWindow
<1>3. circuit[a] # Closed /\ circuit[a] >= f.at
  BY <1>2 DEF FailuresKept, HaltKept
<1>4. f.at \in Nat
  BY <1>1 DEF Failure
<1> QED BY <1>1, <1>2, <1>3, <1>4, GuardAssumption DEF Closed

LEMMA PassSteps ==
  ASSUME GuardTyped, PassKept, FailuresKept, NEW c \in Callers, CallStep(c)
  PROVE  PassKept'
<1> USE StagesApart
<1>1. call \in [Callers -> GuardCall]
  BY DEF GuardTyped
<1>2. ASSUME UNCHANGED sent, \A d \in Callers \ {c} : call'[d] = call[d],
             call'[c].at \in Checks \/ Passing(c)' => ~ call'[c].halted
      PROVE  PassKept'
  BY <1>2 DEF PassKept, Passing, FailuresHalt
<1>3. CASE ReadState(c)
  <2>1. UNCHANGED sent /\ call[c].at = "idle"
    BY <1>3, ReadStateEffect DEF history
  <2>2. CASE UNCHANGED call
    BY <1>2, <2>1, <2>2 DEF PassKept, Passing
  <2>3. CASE ~ UNCHANGED call
    <3>1. PICK a \in Actions :
            /\ call'[c].at \in {"count", "test"}
            /\ circuit[a] = Closed \/ ~ (clock - circuit[a] < CircuitCooldown)
            /\ call'[c].halted = Halted(a)
            /\ \A d \in Callers \ {c} :
                 call'[d] = IF At(d, a, Checks) THEN Disturbed(call[d]) ELSE call[d]
      BY <1>3, <2>3, ReadStateEffect
    <3>2. ~ call'[c].halted
      BY <3>1, NotHalted
    <3> DEFINE S == Checks
    <3>3. S \in SUBSET (Checks \cup Records)
      OBVIOUS
    <3>4. \A d \in Callers \ {c} : call'[d] = IF At(d, a, S) THEN Disturbed(call[d]) ELSE call[d]
      BY <3>1
    <3> HIDE DEF S
    <3>5. \A d \in Callers \ {c} :
            /\ call'[d].at = call[d].at
            /\ call[d].at \in Checks => call'[d].halted = call[d].halted
            /\ ~ At(d, a, S) => call'[d] = call[d]
      BY <3>3, <3>4, OthersStay
    <3>6. \A d \in Callers \ {c} : Passing(d)' => Passing(d) /\ ~ At(d, a, S)
      BY <3>3, <3>5 DEF Passing, At
    <3>7. \A d \in Callers : call'[d].at \in Checks \/ Passing(d)' => ~ call'[d].halted
      BY <3>2, <3>5, <3>6 DEF PassKept
    <3> QED BY <2>1, <3>7 DEF PassKept, FailuresHalt
  <2> QED BY <2>2, <2>3
<1>4. CASE CountFailures(c)
  <2>1. call[c].at = "count" /\ UNCHANGED sent /\ call[c].action \in Actions
    BY <1>4, CallTyped DEF CountFailures, history
  <2> DEFINE r == [at |-> "halt", action |-> call[c].action]
  <2>2. Set(c, r) \/ Pass(c, 0)
    BY <1>4 DEF CountFailures
  <2>3. CASE Set(c, r)
    <3>1. r \in GuardCall /\ r.at = "halt"
      BY <2>1, ResetIs
    <3> HIDE DEF r
    <3>2. call'[c] = r /\ \A d \in Callers \ {c} : call'[d] = call[d]
      BY <1>1, <2>3, <3>1, SetCall
    <3> QED BY <1>2, <2>1, <3>1, <3>2 DEF Passing
  <2>4. CASE Pass(c, 0)
    <3>1. call'[c].halted = call[c].halted /\ \A d \in Callers \ {c} : call'[d] = call[d]
      BY <2>1, <2>4, PassTyped
    <3> QED BY <1>2, <2>1, <3>1 DEF PassKept
  <2> QED BY <2>2, <2>3, <2>4
<1>5. CASE HaltCircuit(c) \/ ResetTest(c)
  <2>1. UNCHANGED sent /\ call[c].action \in Actions
    BY <1>5, CallTyped DEF HaltCircuit, ResetTest, history
  <2> DEFINE r == [at |-> "reset", action |-> call[c].action]
  <2>2. Set(c, r) \/ Set(c, Idle)
    BY <1>5 DEF HaltCircuit, ResetTest
  <2>3. r \in GuardCall /\ r.at = "reset"
    BY <2>1, ResetIs
  <2> HIDE DEF r
  <2>4. call'[c].at \in {"reset", "idle"} /\ \A d \in Callers \ {c} : call'[d] = call[d]
    BY <1>1, <2>2, <2>3, SetCall, IdleIs
  <2> QED BY <1>2, <2>1, <2>4 DEF Passing
<1>6. CASE ReadTest(c)
  <2> DEFINE u == [call[c] EXCEPT !.at = "use"]
  <2>1. UNCHANGED sent /\ call[c].at = "test" /\ call[c] \in CheckCall
    BY <1>6, CallTyped DEF ReadTest, history
  <2>2. Set(c, Idle) \/ Set(c, u)
    BY <1>6 DEF ReadTest
  <2>3. u \in GuardCall /\ u.at = "use" /\ u.halted = call[c].halted
    BY <1>1, <2>1, StageIs DEF CheckCall
  <2>4. ~ call[c].halted
    BY <2>1 DEF PassKept
  <2> HIDE DEF u
  <2>5. /\ call'[c].at = "idle" \/ (call'[c].at = "use" /\ ~ call'[c].halted)
        /\ \A d \in Callers \ {c} : call'[d] = call[d]
    BY <1>1, <2>2, <2>3, <2>4, SetCall, IdleIs
  <2> QED BY <1>2, <2>1, <2>5 DEF Passing
<1>7. CASE UseTest(c)
  <2>1. UNCHANGED sent /\ call[c].at = "use" /\ call[c].action \in Actions
    BY <1>7, CallTyped DEF UseTest, history
  <2>2. trips[call[c].action] \in Nat
    BY <2>1 DEF GuardTyped
  <2>3. call'[c].halted = call[c].halted /\ \A d \in Callers \ {c} : call'[d] = call[d]
    BY <1>7, <2>1, <2>2, PassTyped DEF UseTest
  <2> QED BY <1>2, <2>1, <2>3 DEF PassKept
<1>8. CASE CheckAction(c)
  <2>1. call[c].at = "circuit" /\ UNCHANGED sent
    BY <1>8, CheckActionEffect DEF history
  <2>2. ~ call[c].halted
    BY <2>1 DEF PassKept, Passing
  <2> QED BY <1>2, <1>8, <2>1, <2>2, CheckActionEffect DEF Passing
<1>9. CASE SubmitTriageAlert(c)
  <2> DEFINE m == [action |-> call[c].action, host |-> call[c].host, halted |-> call[c].halted,
                   alone |-> call[c].alone, trip |-> call[c].trip, seen |-> call[c].seen,
                   since |-> call[c].since, at |-> clock]
  <2>1. /\ sent' = sent \/ sent' = Append(sent, m)
        /\ call[c].at = "dispatch" /\ call'[c].at \in {"idle", "record"}
        /\ \A d \in Callers \ {c} : call'[d] = call[d]
    BY <1>9, SubmitEffect
  <2>2. ~ m.halted
    BY <2>1 DEF PassKept, Passing
  <2> HIDE DEF m
  <2>3. FailuresHalt'
    <3>1. CASE sent' = sent
      BY <3>1 DEF PassKept, FailuresHalt
    <3>2. CASE sent' = Append(sent, m)
      <4>1. sent \in Seq(Alert)
        BY DEF GuardTyped
      <4>2. /\ Len(sent') = Len(sent) + 1 /\ Len(sent) \in Nat /\ sent'[Len(sent) + 1] = m
            /\ \A i \in 1 .. Len(sent) : sent'[i] = sent[i]
        BY <3>2, <4>1
      <4> SUFFICES ASSUME NEW i \in 1 .. Len(sent') PROVE ~ sent'[i].halted
        BY DEF FailuresHalt
      <4>3. CASE i \in 1 .. Len(sent)
        BY <4>2, <4>3 DEF PassKept, FailuresHalt
      <4>4. CASE i = Len(sent) + 1
        BY <2>2, <4>2, <4>4
      <4> QED BY <4>2, <4>3, <4>4
    <3> QED BY <2>1, <3>1, <3>2
  <2> QED BY <2>1, <2>3 DEF PassKept, Passing
<1>10. CASE RecordAction(c) \/ VerifyNodeAction(c)
  <2>1. /\ UNCHANGED sent /\ call'[c].at \in {"idle", "verify"}
        /\ \A d \in Callers \ {c} : call'[d] = call[d]
    BY <1>10, RecordEffect, VerifyEffect DEF history
  <2> QED BY <1>2, <2>1 DEF Passing
<1>11. CASE AppendFailure(c) \/ ClearFailures(c)
  <2>1. PICK a \in Actions :
          /\ call'[c].at \in {"prune", "find"}
          /\ \A d \in Callers \ {c} :
               call'[d] = IF At(d, a, Checks \cup Records) THEN Disturbed(call[d]) ELSE call[d]
    BY <1>11, AppendEffect, ClearEffect
  <2>2. UNCHANGED sent
    BY <1>11, AppendEffect, ClearEffect
  <2> DEFINE S == Checks \cup Records
  <2>3. S \in SUBSET (Checks \cup Records)
    OBVIOUS
  <2>4. \A d \in Callers \ {c} : call'[d] = IF At(d, a, S) THEN Disturbed(call[d]) ELSE call[d]
    BY <2>1
  <2> HIDE DEF S
  <2>5. \A d \in Callers \ {c} :
          /\ call'[d].at = call[d].at
          /\ call[d].at \in Checks => call'[d].halted = call[d].halted
          /\ ~ At(d, a, S) => call'[d] = call[d]
    BY <2>3, <2>4, OthersStay
  <2>6. \A d \in Callers \ {c} : Passing(d)' => Passing(d) /\ ~ At(d, a, S)
    BY <2>3, <2>5 DEF Passing, At
  <2>7. \A d \in Callers : call'[d].at \in Checks \/ Passing(d)' => ~ call'[d].halted
    BY <2>1, <2>5, <2>6 DEF PassKept, Passing
  <2> QED BY <2>2, <2>7 DEF PassKept, FailuresHalt
<1>12. CASE \/ PruneFailures(c) \/ WriteFailures(c) \/ CountLog(c) \/ TripCircuit(c)
            \/ FindCircuit(c) \/ CloseCircuit(c)
  <2>1. /\ UNCHANGED sent /\ call'[c].at \in Records \cup {"reset", "idle"}
        /\ \A d \in Callers \ {c} : call'[d] = call[d]
    BY <1>12, PruneEffect, WriteEffect, CountEffect, TripEffect, CloseEffect DEF history
  <2> QED BY <1>2, <2>1 DEF Passing
<1> QED BY <1>3, <1>4, <1>5, <1>6, <1>7, <1>8, <1>9, <1>10, <1>11, <1>12 DEF CallStep

LEMMA PassOthers ==
  ASSUME GuardTyped, PassKept, Tick \/ Restart \/ UNCHANGED guardVars
  PROVE  PassKept'
<1>1. CASE Tick \/ UNCHANGED guardVars
  <2>1. UNCHANGED <<call, sent>>
    BY <1>1 DEF Tick, guardVars, history
  <2> QED BY <2>1 DEF PassKept, Passing, FailuresHalt
<1>2. CASE Restart
  <2>1. UNCHANGED sent /\ \A c \in Callers : call'[c].at = "idle"
    BY <1>2, IdleIs DEF Restart
  <2> QED BY <2>1, StagesApart DEF PassKept, Passing, FailuresHalt
<1> QED BY <1>1, <1>2

\* A failure is counted: what it adds to a window is in the list, and what was in one already is
\* as it was.
LEMMA OneMore ==
  ASSUME NEW F \in SUBSET Failure, NEW f \in Failure, NEW log \in SUBSET Failure, IsFiniteSet(log),
         \A g \in F \cup {f} : g.at <= f.at /\ (f.at - g.at < Window => g \in log),
         NEW h \in F \cup {f}, Cardinality(InWindow(F \cup {f}, h)) >= MaxFailures
  PROVE  Trips(log) \/ (h \in F /\ Cardinality(InWindow(F, h)) >= MaxFailures)
<1>1. \A g \in F \cup {f} : g.at \in Nat
  BY DEF Failure
<1>2. h.at <= f.at
  OBVIOUS
<1>3. CASE h.at = f.at
  <2>1. InWindow(F \cup {f}, h) \subseteq log
    BY <1>1, <1>3, GuardAssumption DEF InWindow
  <2> HIDE DEF InWindow
  <2>2. /\ Cardinality(InWindow(F \cup {f}, h)) <= Cardinality(log)
        /\ Cardinality(log) \in Nat /\ Cardinality(InWindow(F \cup {f}, h)) \in Nat
    <3> DEFINE W == InWindow(F \cup {f}, h)
    <3>1. W \in SUBSET log
      BY <2>1
    <3> HIDE DEF W
    <3>2. IsFiniteSet(W) /\ Cardinality(W) <= Cardinality(log)
      BY <3>1, FS_Subset
    <3>3. Cardinality(log) \in Nat /\ Cardinality(W) \in Nat
      BY <3>2, FS_CardinalityType
    <3> QED BY <3>2, <3>3 DEF W
  <2>3. Cardinality(log) >= MaxFailures
    BY <2>2, GuardAssumption
  <2> QED BY <2>3 DEF Trips
<1>4. CASE h.at # f.at
  <2>1. ~ (f.at <= h.at)
    BY <1>1, <1>2, <1>4
  <2>2. InWindow(F \cup {f}, h) = InWindow(F, h)
    BY <2>1 DEF InWindow
  <2>3. h \in F
    BY <1>4
  <2> QED BY <2>2, <2>3
<1> QED BY <1>3, <1>4

\* What a failure adds changes nothing once it is counted: the circuit is as of it, or need not be.
LEMMA CountedHalts ==
  ASSUME GuardTyped, FailuresKept, NEW c \in Callers, call[c].at \in {"size", "trip"},
         Count(call[c]), NEW a \in Actions, a = call[c].action, circuit'[a] \in Nat \cup {Closed},
         \/ ~ Trips(failureLog[a]) /\ circuit'[a] = circuit[a]
         \/ circuit'[a] = call[c].failure.at,
         UNCHANGED <<clock, failureLog>>
  PROVE  LogKept(a)' /\ (call[c].alone \/ circuit'[a] = circuit[a] \/ failed[a] = {} => HaltKept(a)')
<1> DEFINE r == call[c]
           f == r.failure
           F == failed[a]
           log == failureLog[a]
<1>1. r \in FailureCall /\ f \in Failure /\ f.at \in Nat
  BY CallTyped DEF FailureCall, Failure
<1>2. F \in SUBSET Failure /\ log \in SUBSET Failure /\ failed \in [Actions -> SUBSET Failure]
      /\ clock \in Nat /\ circuit[a] \in Nat \cup {Closed}
  BY DEF GuardTyped, GuardTypeOK
<1>3. failed'[a] = IF r.alone THEN F \cup {f} ELSE F
  BY <1>2 DEF Count
<1>4. LogKept(a) /\ HaltKept(a) /\ IsFiniteSet(log)
  BY DEF FailuresKept, LogKept
<1>5. r.alone => /\ f.at <= clock
                 /\ \A g \in F \cup {f} : g.at <= f.at /\ (f.at - g.at < Window => g \in log)
  BY DEF FailuresKept, ListKept, Failing
<1> HIDE DEF r, f, F, log
<1>6. CASE ~ r.alone
  <2>1. failed'[a] = F /\ failureLog'[a] = log
    BY <1>3, <1>6 DEF log
  <2>2. LogKept(a)'
    BY <1>4, <2>1 DEF LogKept, F, log
  <2>3. circuit'[a] = circuit[a] \/ F = {} => HaltKept(a)'
    BY <1>4, <2>1 DEF HaltKept, F
  <2> QED BY <1>6, <2>2, <2>3 DEF r, F
<1>7. CASE r.alone
  <2>1. failed'[a] = F \cup {f} /\ failureLog'[a] = log
    BY <1>3, <1>7 DEF log
  <2>2. ASSUME NEW g \in F \cup {f}, clock - g.at < Window PROVE g \in log
    <3>1. g.at \in Nat /\ f.at - g.at < Window
      BY <1>1, <1>2, <1>5, <1>7, <2>2, GuardAssumption DEF Failure
    <3> QED BY <1>5, <1>7, <3>1
  <2>3. \A g \in F \cup {f} : g.at <= clock
    BY <1>1, <1>2, <1>5, <1>7 DEF Failure
  <2>4. LogKept(a)'
    BY <1>4, <2>1, <2>2, <2>3 DEF LogKept
  <2>5. ASSUME NEW h \in F \cup {f}, Cardinality(InWindow(F \cup {f}, h)) >= MaxFailures
        PROVE  circuit'[a] # Closed /\ circuit'[a] >= h.at
    <3>1. CASE circuit'[a] = f.at
      <4>1. h.at <= f.at
        BY <1>5, <1>7
      <4> QED BY <1>1, <3>1, <4>1 DEF Closed
    <3>2. CASE ~ Trips(log) /\ circuit'[a] = circuit[a]
      <4>1. h \in F /\ Cardinality(InWindow(F, h)) >= MaxFailures
        BY <1>1, <1>2, <1>4, <1>5, <1>7, <2>5, <3>2, OneMore
      <4> QED BY <1>4, <3>2, <4>1 DEF HaltKept, F
    <3> QED BY <3>1, <3>2 DEF f, log, r
  <2>6. HaltKept(a)'
    BY <2>1, <2>5 DEF HaltKept
  <2> QED BY <2>4, <2>6
<1> QED BY <1>6, <1>7

\* No failure is counted and no list changes: time may go on, and circuits trip.
LEMMA FailuresUntouched ==
  ASSUME GuardTyped, FailuresKept, UNCHANGED <<failed, failureLog>>, clock' \in Nat, clock <= clock',
         \A a \in Actions :
           circuit'[a] = circuit[a] \/ circuit'[a] = clock \/ failed[a] = {},
         \A c \in Callers : call'[c].at \in Failing =>
           /\ call[c].at \in Failing /\ call'[c].action = call[c].action
           /\ call'[c].failure = call[c].failure /\ (call'[c].alone => call[c].alone)
           /\ call'[c].at = "write" <=> call[c].at = "write"
           /\ call'[c].at = "write" => call'[c].kept = call[c].kept
  PROVE  FailuresKept'
<1>1. clock \in Nat /\ failed \in [Actions -> SUBSET Failure]
  BY DEF GuardTyped, GuardTypeOK
<1>2. \A a \in Actions : \A f \in failed[a] : f.at \in Nat
  BY <1>1 DEF Failure
<1>3. ASSUME NEW a \in Actions PROVE LogKept(a)' /\ HaltKept(a)'
  <2>1. LogKept(a) /\ HaltKept(a)
    BY DEF FailuresKept
  <2>2. \A f \in failed[a] : f.at <= clock' /\ (clock' - f.at < Window => f \in failureLog[a])
    <3> SUFFICES ASSUME NEW f \in failed[a]
                 PROVE  f.at <= clock' /\ (clock' - f.at < Window => f \in failureLog[a])
      OBVIOUS
    <3>1. f.at \in Nat /\ f.at <= clock /\ (clock - f.at < Window => f \in failureLog[a])
      BY <1>2, <2>1 DEF LogKept
    <3> QED BY <1>1, <3>1, GuardAssumption
  <2>3. LogKept(a)'
    BY <2>1, <2>2 DEF LogKept
  <2>4. HaltKept(a)'
    <3>1. CASE circuit'[a] = circuit[a] \/ failed[a] = {}
      BY <2>1, <3>1 DEF HaltKept
    <3>2. CASE circuit'[a] = clock
      <4>1. circuit'[a] # Closed /\ \A f \in failed[a] : circuit'[a] >= f.at
        BY <1>1, <1>2, <2>1, <3>2 DEF LogKept, Closed
      <4> QED BY <4>1 DEF HaltKept
    <3> QED BY <3>1, <3>2
  <2> QED BY <2>3, <2>4
<1>4. ASSUME NEW c \in Callers PROVE ListKept(c)'
  <2>1. CASE call'[c].at \notin Failing
    BY <2>1 DEF ListKept, Failing
  <2>2. CASE call'[c].at \in Failing
    <3>1. /\ call[c].at \in Failing /\ call'[c].action = call[c].action
          /\ call'[c].failure = call[c].failure /\ (call'[c].alone => call[c].alone)
          /\ call'[c].at = "write" <=> call[c].at = "write"
          /\ call'[c].at = "write" => call'[c].kept = call[c].kept
      BY <2>2
    <3>2. ListKept(c)
      BY DEF FailuresKept
    <3>3. call'[c].at = "write" => IsFiniteSet(call'[c].kept)
      BY <3>1, <3>2 DEF ListKept
    <3> DEFINE l(k) == IF call[k].at = "write" THEN call[k].kept ELSE failureLog[call[k].action]
    <3>4. (IF call'[c].at = "write" THEN call'[c].kept ELSE failureLog'[call'[c].action]) = l(c)
      BY <3>1
    <3>5. ASSUME call'[c].alone
          PROVE  /\ call'[c].failure.at <= clock'
                 /\ \A g \in failed'[call'[c].action] \cup {call'[c].failure} :
                      /\ g.at <= call'[c].failure.at
                      /\ call'[c].failure.at - g.at < Window => g \in l(c)
      <4>1. /\ call[c].failure.at <= clock
            /\ \A g \in failed[call[c].action] \cup {call[c].failure} :
                 g.at <= call[c].failure.at /\ (call[c].failure.at - g.at < Window => g \in l(c))
        BY <3>1, <3>2, <3>5 DEF ListKept
      <4>2. call[c].failure \in Failure
        BY <3>1, CallTyped DEF Failing, FailureCall, WriteCall
      <4>3. call[c].failure.at \in Nat
        BY <4>2 DEF Failure
      <4> HIDE DEF l
      <4>4. call[c].failure.at <= clock'
        BY <1>1, <4>1, <4>3
      <4> QED BY <3>1, <4>1, <4>4
    <3> HIDE DEF l
    <3> QED BY <3>3, <3>4, <3>5 DEF ListKept
  <2> QED BY <2>1, <2>2
<1> QED BY <1>3, <1>4 DEF FailuresKept

\* The list of one action changes, or what was counted of it.
LEMMA FailuresOf ==
  ASSUME GuardTyped, FailuresKept, NEW a \in Actions, UNCHANGED clock,
         \A b \in Actions \ {a} :
           failed'[b] = failed[b] /\ failureLog'[b] = failureLog[b] /\ circuit'[b] = circuit[b],
         LogKept(a)', HaltKept(a)',
         \A d \in Callers :
           \/ call'[d].at \notin Failing
           \/ call'[d].at # "write" /\ ~ call'[d].alone
           \/ call[d].action # a /\ call'[d] = call[d]
           \/ call[d].at = "write" /\ ~ call'[d].alone /\ call'[d].kept = call[d].kept
           \/ ListKept(d)'
  PROVE  FailuresKept'
<1>1. ASSUME NEW b \in Actions PROVE LogKept(b)' /\ HaltKept(b)'
  <2>1. CASE b = a
    BY <2>1
  <2>2. CASE b # a
    BY <2>2 DEF FailuresKept, LogKept, HaltKept
  <2> QED BY <2>1, <2>2
<1>2. ASSUME NEW d \in Callers PROVE ListKept(d)'
  <2>1. CASE call'[d].at \notin Failing \/ (call'[d].at # "write" /\ ~ call'[d].alone)
    BY <2>1 DEF ListKept, Failing
  <2>2. CASE call[d].action # a /\ call'[d] = call[d] /\ call'[d].at \in Failing
    <3>1. call[d].action \in Actions \ {a}
      BY <2>2, CallTyped DEF Failing
    <3>2. ListKept(d)
      BY DEF FailuresKept
    <3>3. failed'[call'[d].action] = failed[call[d].action]
          /\ failureLog'[call'[d].action] = failureLog[call[d].action]
      BY <2>2, <3>1
    <3> QED BY <2>2, <3>2, <3>3 DEF ListKept
  <2>3. CASE call[d].at = "write" /\ ~ call'[d].alone /\ call'[d].kept = call[d].kept
    BY <2>3 DEF FailuresKept, ListKept
  <2> QED BY <2>1, <2>2, <2>3
<1> QED BY <1>1, <1>2 DEF FailuresKept

LEMMA FailuresSteps ==
  ASSUME GuardTyped, GuardTyped', AloneKept, FailuresKept, NEW c \in Callers, CallStep(c)
  PROVE  FailuresKept'
<1> USE StagesApart
<1>1. /\ call \in [Callers -> GuardCall] /\ clock \in Nat
      /\ failed \in [Actions -> SUBSET Failure] /\ failureLog \in [Actions -> SUBSET Failure]
      /\ circuit \in [Actions -> Nat \cup {Closed}] /\ circuit' \in [Actions -> Nat \cup {Closed}]
  BY DEF GuardTyped, GuardTypeOK
<1>2. CASE ReadState(c)
  <2>1. UNCHANGED <<failed, failureLog, circuit, clock>>
    BY <1>2, ReadStateEffect DEF memory, history
  <2>2. CASE UNCHANGED call
    BY <1>1, <2>1, <2>2, FailuresUntouched
  <2>3. CASE ~ UNCHANGED call
    <3>1. PICK a \in Actions :
            /\ call'[c].at \in {"count", "test"}
            /\ \A d \in Callers \ {c} :
                 call'[d] = IF At(d, a, Checks) THEN Disturbed(call[d]) ELSE call[d]
      BY <1>2, <2>3, ReadStateEffect
    <3> DEFINE S == Checks
    <3>2. S \in SUBSET (Checks \cup Records) /\ \A d : At(d, a, S) => call[d].at \in Checks
      BY DEF At
    <3>3. \A d \in Callers \ {c} : call'[d] = IF At(d, a, S) THEN Disturbed(call[d]) ELSE call[d]
      BY <3>1
    <3> HIDE DEF S
    <3>4. \A d \in Callers \ {c} : call'[d].at = call[d].at /\ (~ At(d, a, S) => call'[d] = call[d])
      BY <3>2, <3>3, OthersStay
    <3>5. \A d \in Callers : call'[d].at \in Failing => call'[d] = call[d]
      BY <3>1, <3>2, <3>4 DEF Failing
    <3> QED BY <1>1, <2>1, <3>5, FailuresUntouched
  <2> QED BY <2>2, <2>3
<1>3. CASE \/ CountFailures(c) \/ ReadTest(c) \/ UseTest(c) \/ ResetTest(c) \/ CheckAction(c)
           \/ SubmitTriageAlert(c) \/ RecordAction(c) \/ VerifyNodeAction(c)
  <2>1. UNCHANGED <<failed, failureLog, circuit, clock>>
    BY <1>3, CheckActionEffect, SubmitEffect, RecordEffect, VerifyEffect
       DEF CountFailures, ReadTest, UseTest, ResetTest, memory, history, guardBounds
  <2>2. call'[c].at \notin Failing /\ \A d \in Callers \ {c} : call'[d] = call[d]
    <3>1. CASE CountFailures(c)
      <4> DEFINE r == [at |-> "halt", action |-> call[c].action]
      <4>1. call[c].at \in Checks /\ call[c].action \in Actions /\ (Set(c, r) \/ Pass(c, 0))
        BY <3>1, CallTyped DEF CountFailures
      <4>2. r \in GuardCall /\ r.at = "halt"
        BY <4>1, ResetIs
      <4> HIDE DEF r
      <4> QED BY <1>1, <4>1, <4>2, SetCall, PassTyped DEF Failing
    <3>2. CASE ReadTest(c)
      <4> DEFINE u == [call[c] EXCEPT !.at = "use"]
      <4>1. call[c] \in CheckCall /\ call[c].at = "test" /\ (Set(c, Idle) \/ Set(c, u))
        BY <3>2, CallTyped DEF ReadTest
      <4>2. u \in GuardCall /\ u.at = "use"
        BY <1>1, <4>1, StageIs DEF CheckCall
      <4> HIDE DEF u
      <4> QED BY <1>1, <4>1, <4>2, SetCall, IdleIs DEF Failing
    <3>3. CASE UseTest(c)
      <4>1. call[c].at \in Checks /\ call[c].action \in Actions /\ Pass(c, trips[call[c].action])
        BY <3>3, CallTyped DEF UseTest
      <4>2. trips[call[c].action] \in Nat
        BY <4>1 DEF GuardTyped
      <4> QED BY <4>1, <4>2, PassTyped DEF Failing
    <3>4. CASE ResetTest(c)
      BY <1>1, <3>4, SetCall, IdleIs DEF ResetTest, Failing
    <3>5. CASE CheckAction(c) \/ SubmitTriageAlert(c) \/ RecordAction(c) \/ VerifyNodeAction(c)
      BY <3>5, CheckActionEffect, SubmitEffect, RecordEffect, VerifyEffect DEF Failing
    <3> QED BY <1>3, <3>1, <3>2, <3>3, <3>4, <3>5
  <2> QED BY <1>1, <2>1, <2>2, FailuresUntouched
<1>4. CASE HaltCircuit(c)
  <2> DEFINE r == [at |-> "reset", action |-> call[c].action]
  <2>1. /\ UNCHANGED <<failed, failureLog, clock>> /\ Set(c, r) /\ call[c].action \in Actions
        /\ circuit' = [circuit EXCEPT ![call[c].action] = clock]
    BY <1>4, CallTyped DEF HaltCircuit, TripAt, guardBounds
  <2>2. r \in GuardCall /\ r.at = "reset"
    BY <2>1, ResetIs
  <2> HIDE DEF r
  <2>3. call'[c].at \notin Failing /\ \A d \in Callers \ {c} : call'[d] = call[d]
    BY <1>1, <2>1, <2>2, SetCall DEF Failing
  <2>4. \A b \in Actions : circuit'[b] = circuit[b] \/ circuit'[b] = clock
    BY <1>1, <2>1
  <2> QED BY <1>1, <2>1, <2>3, <2>4, FailuresUntouched
<1>5. CASE FindCircuit(c) \/ CloseCircuit(c)
  <2>1. /\ call[c].at \in {"find", "close"} /\ call[c].action \in Actions
        /\ UNCHANGED <<failed, failureLog, clock>>
        /\ call'[c].at \in {"close", "reset", "idle"} /\ \A d \in Callers \ {c} : call'[d] = call[d]
        /\ \A b \in Actions : circuit'[b] = circuit[b] \/ b = call[c].action
    BY <1>5, CloseEffect, CallTyped DEF FindCircuit, CloseCircuit, history, guardBounds
  <2>2. failed[call[c].action] = {}
    BY <2>1 DEF AloneKept, NoneCounted
  <2> QED BY <1>1, <2>1, <2>2, FailuresUntouched DEF Failing
<1>6. CASE AppendFailure(c)
  <2>1. PICK a \in Actions, f \in Failure :
           /\ f.at = clock
           /\ call'[c].at = "prune" /\ call'[c].action = a /\ call'[c].failure = f
           /\ \A d \in Callers \ {c} :
                call'[d] = IF At(d, a, Checks \cup Records) THEN Disturbed(call[d]) ELSE call[d]
           /\ failureLog' = [failureLog EXCEPT ![a] = @ \cup {f}]
           /\ failed' = [failed EXCEPT ![a] = IF ~ Meets(c, a, Records) THEN @ ELSE {}]
           /\ UNCHANGED <<circuit, clock>>
    BY SMTT(30), <1>6, AppendEffect
  <2> DEFINE S == Checks \cup Records
  <2>2. S \in SUBSET (Checks \cup Records) /\ S = Checks \cup Records
    OBVIOUS
  <2>3. \A d \in Callers \ {c} : call'[d] = IF At(d, a, S) THEN Disturbed(call[d]) ELSE call[d]
    BY <2>1
  <2> HIDE DEF S
  <2>4. \A d \in Callers \ {c} :
          /\ call'[d].at = call[d].at
          /\ At(d, a, S) => call'[d].alone = FALSE
          /\ ~ At(d, a, S) => call'[d] = call[d]
          /\ call[d].at = "write" => call'[d].kept = call[d].kept
    BY <2>2, <2>3, OthersStay
  <2>5. /\ failureLog'[a] = failureLog[a] \cup {f} /\ failed'[a] \subseteq failed[a]
        /\ failed'[a] = failed[a] \/ failed'[a] = {}
        /\ \A b \in Actions \ {a} : failed'[b] = failed[b] /\ failureLog'[b] = failureLog[b]
    BY <1>1, <2>1
  <2>6. LogKept(a) /\ HaltKept(a)
    BY DEF FailuresKept
  <2>7. IsFiniteSet(failureLog[a] \cup {f})
    BY <2>6, FS_AddElement DEF LogKept
  <2>8. LogKept(a)'
    BY <2>1, <2>5, <2>6, <2>7 DEF LogKept
  <2>9. HaltKept(a)'
    BY <2>1, <2>5, <2>6 DEF HaltKept
  <2>10. ListKept(c)'
    <3>1. f.at \in Nat /\ f.at <= clock'
      BY <1>1, <2>1
    <3>2. ASSUME NEW g \in failed'[a] \cup {f}
          PROVE  g.at <= f.at /\ (f.at - g.at < Window => g \in failureLog'[a])
      BY <1>1, <2>1, <2>5, <2>6, <3>1 DEF LogKept
    <3> QED BY <2>1, <3>1, <3>2 DEF ListKept
  <2>11. ASSUME NEW d \in Callers
         PROVE  \/ call'[d].at \notin Failing
                \/ call'[d].at # "write" /\ ~ call'[d].alone
                \/ call[d].action # a /\ call'[d] = call[d]
                \/ call[d].at = "write" /\ ~ call'[d].alone /\ call'[d].kept = call[d].kept
                \/ ListKept(d)'
    <3>1. CASE d = c
      BY <2>10, <3>1
    <3>2. CASE d # c /\ At(d, a, S)
      BY <2>4, <3>2
    <3>3. CASE d # c /\ ~ At(d, a, S) /\ call'[d].at \in Failing
      BY <2>2, <2>4, <3>3 DEF At, Failing
    <3> QED BY <3>1, <3>2, <3>3
  <2> QED BY <2>1, <2>5, <2>8, <2>9, <2>11, FailuresOf
<1>7. CASE ClearFailures(c)
  <2>1. PICK a \in Actions :
           /\ call'[c].at = "find" /\ call'[c].action = a
           /\ \A d \in Callers \ {c} :
                call'[d] = IF At(d, a, Checks \cup Records) THEN Disturbed(call[d]) ELSE call[d]
           /\ failureLog' = [failureLog EXCEPT ![a] = {}] /\ failed' = [failed EXCEPT ![a] = {}]
           /\ UNCHANGED <<circuit, clock>>
    BY <1>7, ClearEffect
  <2> DEFINE S == Checks \cup Records
  <2>2. S \in SUBSET (Checks \cup Records) /\ S = Checks \cup Records
    OBVIOUS
  <2>3. \A d \in Callers \ {c} : call'[d] = IF At(d, a, S) THEN Disturbed(call[d]) ELSE call[d]
    BY <2>1
  <2> HIDE DEF S
  <2>4. \A d \in Callers \ {c} :
          /\ call'[d].at = call[d].at
          /\ At(d, a, S) => call'[d].alone = FALSE
          /\ ~ At(d, a, S) => call'[d] = call[d]
          /\ call[d].at = "write" => call'[d].kept = call[d].kept
    BY <2>2, <2>3, OthersStay
  <2>5. /\ failureLog'[a] = {} /\ failed'[a] = {}
        /\ \A b \in Actions \ {a} : failed'[b] = failed[b] /\ failureLog'[b] = failureLog[b]
    BY <1>1, <2>1
  <2>6. LogKept(a)' /\ HaltKept(a)'
    BY <2>5, FS_EmptySet DEF LogKept, HaltKept
  <2>7. ASSUME NEW d \in Callers
        PROVE  \/ call'[d].at \notin Failing
               \/ call'[d].at # "write" /\ ~ call'[d].alone
               \/ call[d].action # a /\ call'[d] = call[d]
               \/ call[d].at = "write" /\ ~ call'[d].alone /\ call'[d].kept = call[d].kept
    <3>1. CASE d = c
      BY <2>1, <3>1 DEF Failing
    <3>2. CASE d # c /\ At(d, a, S)
      BY <2>4, <3>2
    <3>3. CASE d # c /\ ~ At(d, a, S) /\ call'[d].at \in Failing
      BY <2>2, <2>4, <3>3 DEF At, Failing
    <3> QED BY <3>1, <3>2, <3>3
  <2> QED BY <2>1, <2>5, <2>6, <2>7, FailuresOf
<1>8. CASE PruneFailures(c)
  <2>1. PICK a \in Actions : a = call[c].action
    BY <1>8, PruneEffect DEF FailureCall
  <2>2. /\ call[c].at = "prune" /\ call'[c].at = "write" /\ call'[c].action = a
        /\ call'[c].failure = call[c].failure /\ call'[c].alone = call[c].alone
        /\ call'[c].kept = Recent(failureLog[a], call[c].failure.at)
        /\ \A d \in Callers \ {c} : call'[d] = call[d]
        /\ UNCHANGED <<failed, failureLog, circuit, clock>>
    BY <1>8, <2>1, PruneEffect DEF memory, guardBounds, history
  <2>3. LogKept(a) /\ HaltKept(a) /\ ListKept(c)
    BY DEF FailuresKept
  <2>4. LogKept(a)' /\ HaltKept(a)'
    BY <2>2, <2>3 DEF LogKept, HaltKept
  <2>5. IsFiniteSet(call'[c].kept)
    <3>1. call'[c].kept \in SUBSET failureLog[a]
      BY <2>2 DEF Recent
    <3> QED BY <2>3, <3>1, FS_Subset DEF LogKept
  <2>6. ASSUME call'[c].alone
        PROVE  /\ call[c].failure.at <= clock
               /\ \A g \in failed[a] \cup {call[c].failure} :
                    g.at <= call[c].failure.at /\ (call[c].failure.at - g.at < Window => g \in call'[c].kept)
    <3>1. /\ call[c].failure.at <= clock
          /\ \A g \in failed[a] \cup {call[c].failure} :
               g.at <= call[c].failure.at /\ (call[c].failure.at - g.at < Window => g \in failureLog[a])
      BY <2>1, <2>2, <2>3, <2>6 DEF ListKept, Failing
    <3> QED BY <2>2, <3>1 DEF Recent
  <2>7. ListKept(c)'
    BY <2>2, <2>5, <2>6 DEF ListKept
  <2>8. ASSUME NEW d \in Callers, d # c, call'[d].at \in Failing
        PROVE  \/ call'[d].at # "write" /\ ~ call'[d].alone
               \/ call[d].action # a /\ call'[d] = call[d]
               \/ call[d].at = "write" /\ ~ call'[d].alone /\ call'[d].kept = call[d].kept
               \/ ListKept(d)'
    <3>1. ListKept(d)
      BY DEF FailuresKept
    <3>2. ListKept(d)'
      BY <2>2, <2>8, <3>1 DEF ListKept
    <3> QED BY <3>2
  <2> QED BY <2>2, <2>4, <2>7, <2>8, FailuresOf
<1>9. CASE WriteFailures(c)
  <2>1. PICK a \in Actions : a = call[c].action
    BY <1>9, WriteEffect DEF WriteCall
  <2>2. /\ call[c].at = "write" /\ call'[c].at = "size" /\ call'[c].action = a
        /\ call'[c].failure = call[c].failure /\ call'[c].alone = call[c].alone
        /\ \A d \in Callers \ {c} : call'[d] = call[d]
        /\ failureLog' = [failureLog EXCEPT ![a] = call[c].kept]
        /\ UNCHANGED <<failed, circuit, clock>>
    BY <1>9, <2>1, WriteEffect DEF guardBounds, history
  <2>3. LogKept(a) /\ HaltKept(a) /\ ListKept(c)
    BY DEF FailuresKept
  <2>4. /\ failureLog'[a] = call[c].kept
        /\ \A b \in Actions \ {a} : failureLog'[b] = failureLog[b]
    BY <1>1, <2>2
  <2>5. call[c].failure \in Failure
    BY <1>9, WriteEffect DEF WriteCall
  <2>6. call[c].failure.at \in Nat /\ \A g \in failed[a] : g.at \in Nat
    BY <1>1, <2>5 DEF Failure
  <2>7. call[c].alone =>
          /\ call[c].failure.at <= clock
          /\ \A g \in failed[a] \cup {call[c].failure} :
               g.at <= call[c].failure.at /\ (call[c].failure.at - g.at < Window => g \in call[c].kept)
    BY <2>1, <2>2, <2>3 DEF ListKept, Failing
  <2>8. ~ call[c].alone => failed[a] = {}
    BY <2>1, <2>2 DEF AloneKept, NoneCounted
  <2>9. LogKept(a)'
    <3>1. \A g \in failed[a] : g.at <= clock
      BY <2>3 DEF LogKept
    <3>2. ASSUME NEW g \in failed[a], clock - g.at < Window PROVE g \in call[c].kept
      <4>1. call[c].alone
        BY <2>8
      <4>2. call[c].failure.at - g.at < Window
        BY <1>1, <2>6, <2>7, <3>2, <4>1, GuardAssumption
      <4> QED BY <2>7, <4>1, <4>2
    <3>3. IsFiniteSet(call[c].kept)
      BY <2>2, <2>3 DEF ListKept
    <3> QED BY <2>2, <2>4, <3>1, <3>2, <3>3 DEF LogKept
  <2>10. HaltKept(a)'
    BY <2>2, <2>3 DEF HaltKept
  <2>11. ListKept(c)'
    BY <2>2, <2>4, <2>7 DEF ListKept
  <2>12. ASSUME NEW d \in Callers, d # c, call'[d].at \in Failing
         PROVE  \/ call'[d].at # "write" /\ ~ call'[d].alone
                \/ call[d].action # a /\ call'[d] = call[d]
                \/ call[d].at = "write" /\ ~ call'[d].alone /\ call'[d].kept = call[d].kept
    <3>1. call'[d] = call[d]
      BY <2>2, <2>12
    <3>2. call[d].action = a => ~ call[d].alone
      BY <2>1, <2>2, <2>12, <3>1 DEF AloneKept, RecordsAlone, At, Failing
    <3> QED BY <3>1, <3>2
  <2> QED BY <2>2, <2>4, <2>9, <2>10, <2>11, <2>12, FailuresOf
<1>10. CASE CountLog(c) \/ TripCircuit(c)
  <2>1. PICK a \in Actions : a = call[c].action
    BY <1>10, CountEffect, TripEffect DEF FailureCall
  <2>2. /\ call[c].at \in {"size", "trip"}
        /\ \A d \in Callers \ {c} : call'[d] = call[d]
        /\ UNCHANGED <<failureLog, clock>>
    BY <1>10, CountEffect, TripEffect DEF memory, guardBounds
  <2>3. CASE /\ call'[c].at = "trip" /\ call'[c].action = a /\ UNCHANGED <<failed, circuit>>
             /\ call'[c].failure = call[c].failure /\ call'[c].alone = call[c].alone
    <3>1. call[c].at \in Failing /\ call[c].at # "write"
      BY <2>2 DEF Failing
    <3>2. \A b \in Actions : circuit'[b] = circuit[b]
      BY <2>3
    <3>3. clock' \in Nat /\ clock <= clock'
      BY <1>1, <2>2
    <3> QED BY <2>1, <2>2, <2>3, <3>1, <3>2, <3>3, FailuresUntouched
  <2>4. CASE /\ call'[c].at \in {"idle", "reset"} /\ Count(call[c])
             /\ \/ ~ Trips(failureLog[a]) /\ UNCHANGED circuit
                \/ circuit' = [circuit EXCEPT ![a] = call[c].failure.at]
    <3>1. /\ circuit'[a] \in Nat \cup {Closed}
          /\ \/ ~ Trips(failureLog[a]) /\ circuit'[a] = circuit[a]
             \/ circuit'[a] = call[c].failure.at
          /\ \A b \in Actions \ {a} : circuit'[b] = circuit[b]
      BY <1>1, <2>4
    <3>2. call[c].alone \/ failed[a] = {}
      BY <2>1, <2>2 DEF AloneKept, NoneCounted
    <3>3. LogKept(a)' /\ HaltKept(a)'
      BY <2>1, <2>2, <2>4, <3>1, <3>2, CountedHalts
    <3>4. \A b \in Actions \ {a} : failed'[b] = failed[b]
      BY <1>1, <2>1, <2>4 DEF Count
    <3>5. ASSUME NEW d \in Callers, call'[d].at \in Failing
          PROVE  \/ call'[d].at # "write" /\ ~ call'[d].alone
                 \/ call[d].action # a /\ call'[d] = call[d]
                 \/ call[d].at = "write" /\ ~ call'[d].alone /\ call'[d].kept = call[d].kept
                 \/ ListKept(d)'
      <4>1. d # c /\ call'[d] = call[d]
        BY <2>2, <2>4, <3>5 DEF Failing
      <4>2. CASE call[d].action # a
        BY <4>1, <4>2
      <4>3. CASE call[d].action = a /\ call[d].alone
        <5>1. At(c, a, Records) /\ At(d, a, Records)
          BY <2>1, <2>2, <3>5, <4>1, <4>3 DEF At, Failing
        <5> QED BY <4>1, <4>3, <5>1 DEF AloneKept, RecordsAlone, At
      <4>4. CASE ~ call[d].alone
        BY <4>1, <4>4
      <4> QED BY <4>2, <4>3, <4>4
    <3> QED BY <2>2, <3>1, <3>3, <3>4, <3>5, FailuresOf
  <2>5. CASE CountLog(c)
    BY <2>1, <2>3, <2>4, <2>5, CountEffect DEF memory
  <2>6. CASE TripCircuit(c)
    BY <2>1, <2>4, <2>6, TripEffect DEF TripAt
  <2> QED BY <1>10, <2>5, <2>6
<1> QED BY <1>2, <1>3, <1>4, <1>5, <1>6, <1>7, <1>8, <1>9, <1>10 DEF CallStep

LEMMA FailuresOthers ==
  ASSUME GuardTyped, FailuresKept, Tick \/ Restart \/ UNCHANGED guardVars
  PROVE  FailuresKept'
<1>1. CASE Tick \/ UNCHANGED guardVars
  <2>1. UNCHANGED <<failed, failureLog, circuit, call>>
    BY <1>1 DEF Tick, guardVars, memory, history
  <2>2. clock' \in Nat /\ clock <= clock'
    BY <1>1 DEF Tick, guardVars, guardBounds, GuardTyped, GuardTypeOK
  <2> QED BY <2>1, <2>2, FailuresUntouched
<1>2. CASE Restart
  <2>1. \A c \in Callers : call'[c].at = "idle"
    BY <1>2, IdleIs DEF Restart
  <2>2. \A a \in Actions : failed'[a] = {} /\ failureLog'[a] = {}
    BY <1>2 DEF Restart, PerAction
  <2> QED BY <2>1, <2>2, FS_EmptySet DEF FailuresKept, LogKept, HaltKept, ListKept, Failing
<1> QED BY <1>1, <1>2

LEMMA FailuresInit ==
  ASSUME GuardInit
  PROVE  FailuresKept /\ PassKept
<1>1. \A c \in Callers : call[c].at = "idle"
  BY IdleIs DEF GuardInit
<1>2. \A a \in Actions : failed[a] = {} /\ failureLog[a] = {}
  BY DEF GuardInit, PerAction
<1>3. sent = <<>>
  BY DEF GuardInit
<1>4. FailuresKept
  BY <1>1, <1>2, FS_EmptySet DEF FailuresKept, LogKept, HaltKept, ListKept, Failing
<1>5. FailuresHalt
  BY <1>3 DEF FailuresHalt
<1>6. \A c \in Callers : call[c].at \notin Checks /\ ~ Passing(c)
  BY <1>1 DEF Checks, Passing
<1> QED BY <1>4, <1>5, <1>6 DEF PassKept

-----------------------------------------------------------------------------
(* An alert is repeated after the cooldown.                                *)

\* Whoever asked at r.since knew of the alert s, and found it a cooldown old.
Spaced(r, s) ==
  r.action = s.action /\ r.host = s.host => r.since - s.at >= BlastCooldown

CallSpaced(c) ==
  LET r == call[c] IN
  /\ r.at = "dispatch" => \A i \in r.seen : i \in DOMAIN sent /\ Spaced(r, sent[i])
  /\ r.at = "record" =>
       r.n \in DOMAIN sent /\ sent[r.n].action = r.action /\ sent[r.n].host = r.host

\* What was recorded is remembered; what a call or an alert knew of was a cooldown old.
SpacingKept ==
  /\ \A i \in recorded : lastRun[<<sent[i].action, sent[i].host>>] >= sent[i].at
  /\ \A i \in DOMAIN sent : sent[i].at <= clock
  /\ \A c \in Callers : CallSpaced(c)
  /\ \A j \in DOMAIN sent : \A i \in sent[j].seen : i \in DOMAIN sent /\ Spaced(sent[j], sent[i])

LEMMA AppendIs ==
  ASSUME NEW S, NEW s \in Seq(S), NEW m
  PROVE  /\ DOMAIN Append(s, m) = 1 .. Len(s) + 1 /\ Append(s, m)[Len(s) + 1] = m
         /\ Len(s) \in Nat /\ DOMAIN s = 1 .. Len(s)
OBVIOUS

LEMMA SpacingGrows ==
  ASSUME GuardTyped, SpacingKept, clock' \in Nat, clock <= clock',
         \/ sent' = sent
         \/ \E m : /\ sent' = Append(sent, m) /\ m.at = clock
                   /\ \A i \in m.seen : i \in DOMAIN sent /\ Spaced(m, sent[i]),
         \A i \in recorded' : i \in DOMAIN sent
                                /\ lastRun'[<<sent[i].action, sent[i].host>>] >= sent[i].at,
         \A c \in Callers : call'[c] = call[c] \/ CallSpaced(c)'
  PROVE  SpacingKept'
<1>1. sent \in Seq(Alert) /\ clock \in Nat /\ DOMAIN sent = 1 .. Len(sent)
  BY DEF GuardTyped, GuardTypeOK
<1>2. \A i \in DOMAIN sent : i \in DOMAIN sent' /\ sent'[i] = sent[i]
  BY <1>1
<1>3. \A i \in recorded' : lastRun'[<<sent'[i].action, sent'[i].host>>] >= sent'[i].at
  BY <1>2
<1>4. \A i \in DOMAIN sent : sent[i].at \in Nat
  <2>1. \A i \in DOMAIN sent : sent[i] \in Alert
    BY <1>1
  <2> QED BY <2>1 DEF Alert
<1>5. ASSUME NEW j \in DOMAIN sent' \ DOMAIN sent
      PROVE  /\ sent'[j].at = clock
             /\ \A i \in sent'[j].seen : i \in DOMAIN sent /\ Spaced(sent'[j], sent[i])
  <2>1. PICK m : /\ sent' = Append(sent, m) /\ m.at = clock
                 /\ \A i \in m.seen : i \in DOMAIN sent /\ Spaced(m, sent[i])
    BY <1>5
  <2>2. j = Len(sent) + 1 /\ sent'[j] = m
    <3>1. sent' = Append(sent, m)
      BY <2>1
    <3>2. /\ DOMAIN sent' = 1 .. Len(sent) + 1 /\ sent'[Len(sent) + 1] = m
          /\ Len(sent) \in Nat /\ DOMAIN sent = 1 .. Len(sent)
      BY <1>1, <3>1, AppendIs
    <3>3. j \in 1 .. Len(sent) + 1 /\ ~ (j \in 1 .. Len(sent))
      BY <1>5, <3>2
    <3> QED BY <3>2, <3>3
  <2> QED BY <2>1, <2>2
<1>6. \A i \in DOMAIN sent' : sent'[i].at <= clock'
  <2> SUFFICES ASSUME NEW i \in DOMAIN sent' PROVE sent'[i].at <= clock'
    OBVIOUS
  <2>1. CASE i \in DOMAIN sent
    <3>1. sent[i].at <= clock
      BY <2>1 DEF SpacingKept
    <3> QED BY <1>1, <1>2, <1>4, <2>1, <3>1
  <2>2. CASE i \notin DOMAIN sent
    BY <1>5, <2>2
  <2> QED BY <2>1, <2>2
<1>7. \A c \in Callers : CallSpaced(c)'
  <2> SUFFICES ASSUME NEW c \in Callers, call'[c] = call[c] PROVE CallSpaced(c)'
    OBVIOUS
  <2>1. CallSpaced(c)
    BY DEF SpacingKept
  <2>2. call[c].at = "dispatch" => \A i \in call[c].seen : i \in DOMAIN sent' /\ Spaced(call[c], sent'[i])
    BY <1>2, <2>1 DEF CallSpaced
  <2>3. call[c].at = "record" =>
          /\ call[c].n \in DOMAIN sent'
          /\ sent'[call[c].n].action = call[c].action /\ sent'[call[c].n].host = call[c].host
    BY <1>2, <2>1 DEF CallSpaced
  <2> QED BY <2>2, <2>3 DEF CallSpaced, Spaced
<1>8. \A j \in DOMAIN sent' : \A i \in sent'[j].seen : i \in DOMAIN sent' /\ Spaced(sent'[j], sent'[i])
  <2> SUFFICES ASSUME NEW j \in DOMAIN sent', NEW i \in sent'[j].seen
               PROVE  i \in DOMAIN sent' /\ Spaced(sent'[j], sent'[i])
    OBVIOUS
  <2>1. i \in DOMAIN sent /\ Spaced(sent'[j], sent[i])
    <3>1. CASE j \in DOMAIN sent
      BY <1>2, <3>1 DEF SpacingKept
    <3>2. CASE j \notin DOMAIN sent
      BY <1>5, <3>2
    <3> QED BY <3>1, <3>2
  <2> QED BY <1>2, <2>1
<1> QED BY <1>3, <1>6, <1>7, <1>8 DEF SpacingKept, Spaced

\* A step of the breaker sends nothing, records nothing, and makes no call ready to be sent.
LEMMA SpacingUntouched ==
  ASSUME GuardTyped, SpacingKept, UNCHANGED <<lastRun, clock, sent, recorded>>,
         \A d \in Callers : call'[d] = call[d] \/ call'[d].at \notin {"dispatch", "record"}
  PROVE  SpacingKept'
<1>1. clock \in Nat /\ \A i \in recorded : i \in DOMAIN sent
  BY DEF GuardTyped, GuardTypeOK
<1>2. \A i \in recorded' : i \in DOMAIN sent /\ lastRun'[<<sent[i].action, sent[i].host>>] >= sent[i].at
  BY <1>1 DEF SpacingKept
<1>3. \A d \in Callers : call'[d] = call[d] \/ CallSpaced(d)'
  BY DEF CallSpaced
<1> QED BY <1>1, <1>2, <1>3, SpacingGrows

LEMMA SpacingBreaker ==
  ASSUME GuardTyped, SpacingKept, NEW c \in Callers, CallStep(c),
         ~ (CheckAction(c) \/ SubmitTriageAlert(c) \/ RecordAction(c))
  PROVE  SpacingKept'
<1> DEFINE Quiet == UNCHANGED <<lastRun, clock, sent, recorded>>
           Stays(d) == call'[d] = call[d] \/ call'[d].at \notin {"dispatch", "record"}
<1>1. \A a, S : \A d \in Callers : S \in SUBSET (Checks \cup Records) =>
        (call'[d] = (IF At(d, a, S) THEN Disturbed(call[d]) ELSE call[d]) => Stays(d))
  <2> SUFFICES ASSUME NEW a, NEW S \in SUBSET (Checks \cup Records), NEW d \in Callers,
                      call'[d] = IF At(d, a, S) THEN Disturbed(call[d]) ELSE call[d]
               PROVE  Stays(d)
    OBVIOUS
  <2>1. call'[d].at = call[d].at /\ (~ At(d, a, S) => call'[d] = call[d])
    BY OthersStay
  <2>2. At(d, a, S) => call[d].at \in Inside
    BY StagesApart DEF At
  <2> QED BY <2>1, <2>2, StagesApart
<1> DEFINE Out == Checks \cup Records
<1>2. Checks \in SUBSET Out /\ Out \in SUBSET Out /\ Out = Checks \cup Records
  OBVIOUS
<1> HIDE DEF Out
<1>3. CASE ReadState(c)
  <2>1. CASE UNCHANGED call
    BY <1>3, <2>1, ReadStateEffect, SpacingUntouched DEF memory, history
  <2>2. CASE ~ UNCHANGED call
    <3>1. PICK a \in Actions :
            /\ call'[c].at = IF circuit[a] = Closed THEN "count" ELSE "test"
            /\ \A d \in Callers \ {c} :
                 call'[d] = IF At(d, a, Checks) THEN Disturbed(call[d]) ELSE call[d]
      BY <1>3, <2>2, ReadStateEffect
    <3>2. \A d \in Callers : Stays(d)
      BY <1>1, <1>2, <3>1
    <3>3. Quiet
      BY <1>3, ReadStateEffect DEF memory, history
    <3> QED BY <3>2, <3>3, SpacingUntouched
  <2> QED BY <2>1, <2>2
<1>4. CASE AppendFailure(c)
  <2>1. PICK a \in Actions, f \in Failure :
          /\ call'[c].at = "prune"
          /\ \A d \in Callers \ {c} :
               call'[d] = IF At(d, a, Checks \cup Records) THEN Disturbed(call[d]) ELSE call[d]
          /\ Quiet
    BY <1>4, AppendEffect
  <2>2. \A d \in Callers : Stays(d)
    BY <1>1, <1>2, <2>1
  <2> QED BY <2>1, <2>2, SpacingUntouched
<1>5. CASE ClearFailures(c)
  <2>1. PICK a \in Actions :
          /\ call'[c].at = "find"
          /\ \A d \in Callers \ {c} :
               call'[d] = IF At(d, a, Checks \cup Records) THEN Disturbed(call[d]) ELSE call[d]
          /\ Quiet
    BY <1>5, ClearEffect
  <2>2. \A d \in Callers : Stays(d)
    BY <1>1, <1>2, <2>1
  <2> QED BY <2>1, <2>2, SpacingUntouched
<1>6. CASE PruneFailures(c)
  BY <1>6, PruneEffect, SpacingUntouched DEF memory, guardBounds, history
<1>7. CASE WriteFailures(c)
  BY <1>7, WriteEffect, SpacingUntouched DEF guardBounds, history
<1>8. CASE CountLog(c)
  BY <1>8, CountEffect, SpacingUntouched DEF memory, guardBounds
<1>9. CASE TripCircuit(c)
  BY <1>9, TripEffect, SpacingUntouched DEF guardBounds
<1>10. CASE FindCircuit(c) \/ CloseCircuit(c)
  BY <1>10, CloseEffect, SpacingUntouched DEF guardBounds, history
<1>11. CASE VerifyNodeAction(c)
  BY <1>11, VerifyEffect, SpacingUntouched DEF memory, history
<1>12. ASSUME NEW r \in GuardCall, Set(c, r), r.at \notin {"dispatch", "record"}, Quiet
       PROVE  SpacingKept'
  <2>1. call \in [Callers -> GuardCall]
    BY DEF GuardTyped
  <2>2. call'[c] = r /\ \A d \in Callers \ {c} : call'[d] = call[d]
    BY <1>12, <2>1, SetCall
  <2> QED BY <1>12, <2>2, SpacingUntouched
<1>13. ASSUME NEW t \in Nat, call[c].at \in Checks, Pass(c, t), Quiet PROVE SpacingKept'
  <2>1. call'[c].at = "circuit" /\ \A d \in Callers \ {c} : call'[d] = call[d]
    BY <1>13, PassTyped
  <2> QED BY <1>13, <2>1, SpacingUntouched
<1>14. CASE CountFailures(c)
  <2> DEFINE r == [at |-> "halt", action |-> call[c].action]
  <2>1. call[c].at \in Checks /\ call[c].action \in Actions /\ (Set(c, r) \/ Pass(c, 0)) /\ Quiet
    <3>1. call[c].at = "count" /\ (Set(c, r) \/ Pass(c, 0)) /\ UNCHANGED <<memory, guardBounds, history>>
      BY <1>14 DEF CountFailures
    <3> QED BY <3>1, CallTyped DEF Checks, memory, guardBounds, history
  <2>2. r \in GuardCall /\ r.at = "halt"
    BY <2>1, ResetIs DEF Resets
  <2> HIDE DEF r
  <2> QED BY <1>12, <1>13, <2>1, <2>2
<1>15. CASE HaltCircuit(c)
  <2> DEFINE r == [at |-> "reset", action |-> call[c].action]
  <2>1. call[c].action \in Actions /\ Set(c, r) /\ Quiet
    <3>1. call[c].at = "halt" /\ Set(c, r) /\ UNCHANGED <<lastRun, guardBounds, sent, recorded>>
      BY <1>15 DEF HaltCircuit
    <3> QED BY <3>1, CallTyped DEF guardBounds
  <2>2. r \in GuardCall /\ r.at = "reset"
    BY <2>1, ResetIs DEF Resets
  <2> HIDE DEF r
  <2> QED BY <1>12, <2>1, <2>2
<1>16. CASE ReadTest(c)
  <2> DEFINE u == [call[c] EXCEPT !.at = "use"]
  <2>1. call[c] \in CheckCall /\ call[c].at = "test" /\ (Set(c, Idle) \/ Set(c, u)) /\ Quiet
    BY <1>16, CallTyped DEF ReadTest, Checks, memory, guardBounds, history
  <2>2. call[c] \in GuardCall
    BY CallTyped
  <2>3. u \in GuardCall /\ u.at = "use"
    BY <2>1, <2>2, StageIs DEF CheckCall, Checks
  <2> HIDE DEF u
  <2> QED BY <1>12, <2>1, <2>3, IdleIs
<1>17. CASE UseTest(c)
  <2>1. call[c].at \in Checks /\ call[c].action \in Actions /\ Pass(c, trips[call[c].action]) /\ Quiet
    BY <1>17, CallTyped DEF UseTest, Checks, guardBounds, history
  <2>2. trips[call[c].action] \in Nat
    BY <2>1 DEF GuardTyped
  <2> QED BY <1>13, <2>1, <2>2
<1>18. CASE ResetTest(c)
  BY <1>12, <1>18, IdleIs DEF ResetTest, guardBounds, history
<1> QED BY <1>3, <1>4, <1>5, <1>6, <1>7, <1>8, <1>9, <1>10, <1>11, <1>14, <1>15, <1>16, <1>17, <1>18
        DEF CallStep

LEMMA SpacingSteps ==
  ASSUME GuardTyped, SpacingKept, NEW c \in Callers, CallStep(c)
  PROVE  SpacingKept'
<1>1. /\ call \in [Callers -> GuardCall] /\ clock \in Nat /\ sent \in Seq(Alert)
      /\ recorded \subseteq DOMAIN sent /\ DOMAIN sent = 1 .. Len(sent)
      /\ lastRun \in [Actions \X Hosts -> Nat \cup {Never}]
  BY DEF GuardTyped, GuardTypeOK
<1>2. \A i \in DOMAIN sent : sent[i].at \in Nat /\ sent[i].action \in Actions /\ sent[i].host \in Hosts
  <2>1. \A i \in DOMAIN sent : sent[i] \in Alert
    BY <1>1
  <2> QED BY <2>1 DEF Alert
<1>3. ASSUME UNCHANGED <<recorded, lastRun>>, NEW i \in recorded'
      PROVE  i \in DOMAIN sent /\ lastRun'[<<sent[i].action, sent[i].host>>] >= sent[i].at
  BY <1>1, <1>3 DEF SpacingKept
<1>4. CASE CheckAction(c)
  <2>1. /\ call[c] \in CircuitCall /\ \A d \in Callers \ {c} : call'[d] = call[d]
        /\ UNCHANGED <<lastRun, clock, sent, recorded>>
    BY <1>4, CheckActionEffect DEF memory, history, guardBounds
  <2>2. PICK a \in Actions, h \in Hosts : a = call[c].action /\ h = call[c].host
    BY <2>1 DEF CircuitCall
  <2>3. \/ call'[c].at = "idle"
        \/ /\ call'[c].at = "dispatch" /\ call'[c].action = a /\ call'[c].host = h
           /\ call'[c].seen = recorded /\ call'[c].since = clock /\ ~ Cooling(a, h)
    BY <1>4, <2>2, CheckActionEffect
  <2>4. ASSUME ~ Cooling(a, h), NEW i \in recorded, a = sent[i].action, h = sent[i].host
        PROVE  clock - sent[i].at >= BlastCooldown
    <3> DEFINE t == lastRun[<<a, h>>]
    <3>1. t >= sent[i].at
      BY <2>4 DEF SpacingKept
    <3>2. ~ (clock - t < BlastCooldown)
      BY <2>4 DEF Cooling
    <3>3. t \in Int
      <4>1. <<a, h>> \in Actions \X Hosts /\ Nat \cup {Never} \subseteq Int
        BY GuardAssumption DEF Never
      <4> QED BY <1>1, <4>1
    <3>4. sent[i].at \in Nat
      BY <1>1, <1>2
    <3> HIDE DEF t
    <3> QED BY <1>1, <3>1, <3>2, <3>3, <3>4, GuardAssumption
  <2>5. CallSpaced(c)'
    BY <1>1, <2>1, <2>3, <2>4 DEF CallSpaced, Spaced
  <2>6. \A d \in Callers : call'[d] = call[d] \/ CallSpaced(d)'
    BY <2>1, <2>5
  <2> QED BY <1>1, <1>3, <2>1, <2>6, SpacingGrows
<1>5. CASE SubmitTriageAlert(c)
  <2> DEFINE m == [action |-> call[c].action, host |-> call[c].host, halted |-> call[c].halted,
                   alone |-> call[c].alone, trip |-> call[c].trip, seen |-> call[c].seen,
                   since |-> call[c].since, at |-> clock]
  <2>1. /\ \/ /\ sent' = Append(sent, m)
              /\ \/ /\ call'[c].at = "record" /\ call'[c].action = call[c].action
                    /\ call'[c].host = call[c].host /\ call'[c].n = Len(sent) + 1
                 \/ call'[c].at = "idle"
           \/ sent' = sent /\ call'[c].at = "idle"
        /\ call[c].at = "dispatch" /\ UNCHANGED <<lastRun, clock, recorded>>
        /\ \A d \in Callers \ {c} : call'[d] = call[d]
    BY <1>5, SubmitEffect DEF memory, guardBounds
  <2>2. /\ m.at = clock /\ m.seen = call[c].seen /\ m.action = call[c].action
        /\ m.host = call[c].host /\ m.since = call[c].since
    OBVIOUS
  <2> HIDE DEF m
  <2>3. \A i \in m.seen : i \in DOMAIN sent /\ Spaced(m, sent[i])
    BY <2>1, <2>2 DEF SpacingKept, CallSpaced, Spaced
  <2>4. ASSUME sent' = Append(sent, m), call'[c].at = "record"
        PROVE  CallSpaced(c)'
    <3>1. Len(sent) + 1 \in DOMAIN sent' /\ sent'[Len(sent) + 1] = m
      BY <1>1, <2>4
    <3>2. /\ call'[c].action = call[c].action /\ call'[c].host = call[c].host
          /\ call'[c].n = Len(sent) + 1
      BY <2>1, <2>4
    <3> QED BY <2>2, <2>4, <3>1, <3>2 DEF CallSpaced
  <2>5. call'[c].at = "idle" => CallSpaced(c)'
    BY DEF CallSpaced
  <2>6. \A d \in Callers : call'[d] = call[d] \/ CallSpaced(d)'
    BY <2>1, <2>4, <2>5
  <2>7. sent' = sent \/ (sent' = Append(sent, m) /\ m.at = clock)
    BY <2>1, <2>2
  <2> QED BY <1>1, <1>3, <2>1, <2>3, <2>6, <2>7, SpacingGrows
<1>6. CASE RecordAction(c)
  <2>1. call[c] \in RecordCall /\ call[c].at = "record"
    BY <1>6, RecordEffect
  <2>2. PICK a \in Actions, h \in Hosts, n \in Nat :
          a = call[c].action /\ h = call[c].host /\ n = call[c].n
    BY <2>1 DEF RecordCall
  <2>3. n \in DOMAIN sent /\ sent[n].action = a /\ sent[n].host = h
    BY <2>1, <2>2 DEF SpacingKept, CallSpaced
  <2>4. /\ lastRun' = [lastRun EXCEPT ![<<a, h>>] = clock] /\ recorded' = recorded \cup {n}
        /\ call'[c].at = "idle" /\ \A d \in Callers \ {c} : call'[d] = call[d]
        /\ UNCHANGED <<clock, sent>>
    BY <1>6, <2>2, RecordEffect DEF guardBounds
  <2>5. \A i \in DOMAIN sent : <<sent[i].action, sent[i].host>> \in Actions \X Hosts
    BY <1>2
  <2>6. \A i \in DOMAIN sent : sent[i].at <= clock
    BY DEF SpacingKept
  <2>7. ASSUME NEW i \in recorded'
        PROVE  i \in DOMAIN sent /\ lastRun'[<<sent[i].action, sent[i].host>>] >= sent[i].at
    <3>1. i \in DOMAIN sent
      BY <1>1, <2>3, <2>4
    <3>2. CASE <<sent[i].action, sent[i].host>> = <<a, h>>
      <4>1. lastRun'[<<sent[i].action, sent[i].host>>] = clock
        BY <1>1, <2>4, <2>5, <3>1, <3>2
      <4> QED BY <1>1, <1>2, <2>6, <3>1, <4>1
    <3>3. CASE <<sent[i].action, sent[i].host>> # <<a, h>>
      <4>1. lastRun'[<<sent[i].action, sent[i].host>>] = lastRun[<<sent[i].action, sent[i].host>>]
        BY <1>1, <2>4, <2>5, <3>1, <3>3
      <4>2. i \in recorded
        BY <2>3, <2>4, <3>3
      <4> QED BY <3>1, <4>1, <4>2 DEF SpacingKept
    <3> QED BY <3>2, <3>3
  <2>8. \A d \in Callers : call'[d] = call[d] \/ CallSpaced(d)'
    BY <2>4 DEF CallSpaced
  <2> QED BY <1>1, <2>4, <2>7, <2>8, SpacingGrows
<1> QED BY <1>4, <1>5, <1>6, SpacingBreaker

LEMMA SpacingOthers ==
  ASSUME GuardTyped, SpacingKept, Tick \/ Restart \/ UNCHANGED guardVars
  PROVE  SpacingKept'
<1>1. clock' \in Nat /\ clock <= clock' /\ sent' = sent
  <2>1. clock \in Nat
    BY DEF GuardTyped, GuardTypeOK
  <2>2. (clock' = clock + 1 \/ clock' = clock) /\ sent' = sent
    BY DEF Tick, Restart, guardVars, history, guardBounds
  <2> QED BY <2>1, <2>2
<1>2. CASE Tick \/ UNCHANGED guardVars
  <2>1. UNCHANGED <<lastRun, recorded, call>>
    BY <1>2 DEF Tick, guardVars, memory, history
  <2>2. \A i \in recorded : i \in DOMAIN sent
    BY DEF GuardTyped, GuardTypeOK
  <2>3. \A i \in recorded' :
          i \in DOMAIN sent /\ lastRun'[<<sent[i].action, sent[i].host>>] >= sent[i].at
    BY <2>1, <2>2 DEF SpacingKept
  <2> QED BY <1>1, <2>1, <2>3, SpacingGrows
<1>3. CASE Restart
  <2>1. recorded' = {} /\ \A c \in Callers : CallSpaced(c)'
    BY <1>3, IdleIs DEF Restart, CallSpaced
  <2> QED BY <1>1, <2>1, SpacingGrows
<1> QED BY <1>2, <1>3

LEMMA SpacingInit ==
  ASSUME GuardInit
  PROVE  SpacingKept
<1>1. recorded = {} /\ DOMAIN sent = {}
  BY DEF GuardInit
<1>2. \A c \in Callers : CallSpaced(c)
  BY IdleIs DEF GuardInit, CallSpaced
<1> QED BY <1>1, <1>2 DEF SpacingKept

-----------------------------------------------------------------------------
(* The guardrails hold.                                                    *)

GuardInv == GuardTyped /\ AloneKept /\ TestsKept /\ FailuresKept /\ PassKept /\ SpacingKept

LEMMA GuardNextTyped ==
  ASSUME GuardInv, [GuardNext]_guardVars
  PROVE  GuardTyped'
<1>1. ASSUME NEW c \in Callers, CallStep(c) PROVE GuardTyped'
  <2>1. DOMAIN sent = 1 .. Len(sent)
    BY DEF GuardInv, GuardTyped
  <2>2. call[c].at = "record" => call[c].n \in 1 .. Len(sent)
    BY <2>1 DEF GuardInv, SpacingKept, CallSpaced
  <2> QED BY <1>1, <2>2, GuardStepTyped DEF GuardInv
<1> QED BY <1>1, TickTyped, RestartTyped, GuardStutterTyped DEF GuardNext, GuardInv

THEOREM GuardInvariant == GuardSpec => []GuardInv
<1>1. GuardInit => GuardInv
  BY GuardStartTyped, AloneInit, TestsInit, FailuresInit, SpacingInit DEF GuardInv
<1>2. GuardInv /\ [GuardNext]_guardVars => GuardInv'
  <2> SUFFICES ASSUME GuardInv, [GuardNext]_guardVars PROVE GuardInv'
    OBVIOUS
  <2>1. GuardTyped'
    BY GuardNextTyped
  <2>2. ASSUME NEW c \in Callers, CallStep(c)
        PROVE  AloneKept' /\ TestsKept' /\ FailuresKept' /\ PassKept' /\ SpacingKept'
    <3>1. AloneKept'
      BY <2>2, AloneSteps DEF GuardInv
    <3>2. TestsKept'
      BY <2>1, <2>2, <3>1, TestsSteps DEF GuardInv
    <3>3. FailuresKept'
      BY <2>1, <2>2, <3>1, FailuresSteps DEF GuardInv
    <3>4. PassKept' /\ SpacingKept'
      BY <2>2, PassSteps, SpacingSteps DEF GuardInv
    <3> QED BY <3>1, <3>2, <3>3, <3>4
  <2>3. ASSUME Tick \/ Restart \/ UNCHANGED guardVars
        PROVE  AloneKept' /\ TestsKept' /\ FailuresKept' /\ PassKept' /\ SpacingKept'
    BY <2>1, <2>3, AloneOthers, TestsOthers, FailuresOthers, PassOthers, SpacingOthers DEF GuardInv
  <2> QED BY <2>1, <2>2, <2>3 DEF GuardNext, GuardInv
<1> QED BY <1>1, <1>2, PTL DEF GuardSpec

\* Of the alerts that test one trip of a circuit, one at most comes from a check_circuit that met
\* no other call in the breaker, whichever of the reads and writes of the others it runs between
\* and whenever the server restarts.  (Two checks that overlap can both take the test:
\* blast_radius.py reads the flag at 178 and sets it at 184 without a lock.)
THEOREM TestsAreSingle == GuardSpec => []OneTest
<1>1. GuardInv => OneTest
  BY TestsAreOne DEF GuardInv
<1> QED BY GuardInvariant, <1>1, PTL

\* Checks read the log and the circuit between any two accesses of record_failure and
\* record_success, and no alert is sent for one that came when MaxFailures failures lay within a
\* window, the last a cooldown back: failures recorded one at a time, since a concurrent one is
\* lost when the log is rebuilt (blast_radius.py 199-203).
THEOREM FailuresHaltCalls == GuardSpec => []FailuresHalt
<1>1. GuardInv => FailuresHalt
  BY DEF GuardInv, PassKept
<1> QED BY GuardInvariant, <1>1, PTL

\* An alert follows one it could know of for the same node by a cooldown (check_action and
\* record_action), whatever other sessions sent in between.
THEOREM RepeatsAreSpaced == GuardSpec => []RepeatsSpaced
<1>1. GuardInv => RepeatsSpaced
  <2> SUFFICES ASSUME GuardInv PROVE RepeatsSpaced
    OBVIOUS
  <2>1. DOMAIN sent = 1 .. Len(sent)
    BY DEF GuardInv, GuardTyped
  <2> QED BY <2>1 DEF GuardInv, SpacingKept, Spaced, RepeatsSpaced
<1> QED BY GuardInvariant, <1>1, PTL
=============================================================================
