---------------------------- MODULE GatewayProofs ----------------------------
(***************************************************************************)
(* The agent gateway.  EventLog: ids are unique, streams complete and in   *)
(* order and pages complete for any number of readers, any sizes of the    *)
(* ring buffer and of the page, and any number of restarts and failed      *)
(* writes.  GatewaySession: no session is left at work without a loop, for *)
(* any number of query loops, retries and restarts.                        *)
(***************************************************************************)
EXTENDS EventLog, GatewaySession, FiniteSetTheorems, TLAPS

USE SizesAssumption

-----------------------------------------------------------------------------
(* The inductive invariant.                                                *)

\* A set of events that is not empty has an event with the largest seq.
HasTop(S) == S # {} => \E e \in S : \A f \in S : f.seq <= e.seq

TopsExist == HasTop(buffer) /\ HasTop(disk) /\ \A r \in Readers : HasTop(got[r])

\* What the reader of an open stream has was published before the next event, or comes from
\* an earlier process and is not behind its position.
ReadersBehind ==
  \A r \in on : \A e \in got[r] : e.seq <= counter \/ e.seq <= after[r]

LogInv == LogTypeOK /\ SeqsUnique /\ TopsExist /\ StreamComplete /\ ReadersBehind

-----------------------------------------------------------------------------
(* Lemmas about sets of events.                                            *)

LEMMA TopIsLargest ==
  ASSUME NEW S, S \subseteq Event, HasTop(S)
  PROVE  Top(S) \in Nat /\ \A e \in S : e.seq <= Top(S)
<1>1. CASE S = {}
  BY <1>1 DEF Top
<1>2. CASE S # {}
  <2>1. PICK e \in S : \A f \in S : f.seq <= e.seq
    BY <1>2 DEF HasTop
  <2>2. e.seq \in Seqs(S) /\ \A m \in Seqs(S) : m <= e.seq
    BY <2>1 DEF Seqs
  <2>3. Top(S) \in Seqs(S) /\ \A m \in Seqs(S) : m <= Top(S)
    BY <2>2, <1>2 DEF Top
  <2>4. Seqs(S) \subseteq Nat /\ \A f \in S : f.seq \in Seqs(S)
    BY DEF Seqs, Event
  <2> QED BY <2>3, <2>4
<1> QED BY <1>1, <1>2

\* The ring buffer drops no event that is the largest.
LEMMA NewestKeepsTop ==
  ASSUME NEW S, S \subseteq Event, NEW e \in S, \A f \in S : f.seq <= e.seq
  PROVE  e \in Newest(S, MaxEvents) /\ Newest(S, MaxEvents) \subseteq S
<1>1. {f \in S : f.seq > e.seq} = {}
  BY DEF Event
<1>2. Cardinality({f \in S : f.seq > e.seq}) = 0
  BY <1>1, FS_EmptySet
<1> QED BY <1>2 DEF Newest

LEMMA NewestHasTop ==
  ASSUME NEW S, S \subseteq Event, HasTop(S)
  PROVE  HasTop(Newest(S, MaxEvents)) /\ Newest(S, MaxEvents) \subseteq S
<1>1. Newest(S, MaxEvents) \subseteq S
  BY DEF Newest
<1>2. CASE S = {}
  BY <1>1, <1>2 DEF HasTop
<1>3. CASE S # {}
  <2>1. PICK e \in S : \A f \in S : f.seq <= e.seq
    BY <1>3 DEF HasTop
  <2> QED BY <1>1, <2>1, NewestKeepsTop DEF HasTop
<1> QED BY <1>1, <1>2, <1>3

\* The events a reader is sent when it opens its stream have a last one.
LEMMA SinceHasTop ==
  ASSUME LogTypeOK, HasTop(buffer), NEW a \in Nat
  PROVE  HasTop(Since(a)) /\ Since(a) = {e \in buffer : e.seq > a}
<1>1. Since(a) = {e \in buffer : e.seq > a}
  BY DEF Since, Follows
<1>2. CASE Since(a) = {}
  BY <1>1, <1>2 DEF HasTop
<1>3. CASE Since(a) # {}
  <2>1. PICK e \in buffer : \A f \in buffer : f.seq <= e.seq
    BY <1>1, <1>3 DEF HasTop
  <2>2. PICK g \in buffer : g.seq > a
    BY <1>1, <1>3
  <2>3. e.seq \in Nat /\ g.seq \in Nat /\ g.seq <= e.seq
    BY <2>1, <2>2 DEF LogTypeOK, Event
  <2>4. e \in Since(a)
    BY <1>1, <2>2, <2>3
  <2> QED BY <1>1, <2>1, <2>4 DEF HasTop
<1> QED BY <1>1, <1>2, <1>3

-----------------------------------------------------------------------------
(* Each action preserves the invariant.                                    *)

LEMMA LogInitInv == LogInit => LogInv
BY DEF LogInit, LogInv, LogTypeOK, SeqsUnique, TopsExist, HasTop, StreamComplete, ReadersBehind

\* What Append adds: an event with a larger seq than any there is.
LEMMA NewEvent ==
  ASSUME LogInv, NEW live \in BOOLEAN, NEW saved \in BOOLEAN, Append(live, saved)
  PROVE  \E e \in Event :
           /\ e.seq = counter + 1 /\ e.live = live
           /\ \A f \in buffer \cup disk : f.seq < e.seq
           /\ e \in buffer' /\ buffer' \subseteq buffer \cup {e}
           /\ disk' \in {disk, disk \cup {e}}
           /\ \A r \in Readers :
                got'[r] = IF live /\ r \in on /\ e.seq > after[r] THEN got[r] \cup {e} ELSE got[r]
<1> DEFINE e == [seq |-> counter + 1, epoch |-> epoch, live |-> live]
<1>1. e \in Event /\ e.seq = counter + 1 /\ e.live = live
  BY DEF LogInv, LogTypeOK, Event
<1>2. \A f \in buffer \cup disk : f.seq \in Nat /\ f.seq <= counter
  BY DEF LogInv, LogTypeOK, SeqsUnique, Event
<1>3. \A f \in buffer \cup disk : f.seq < e.seq
  BY <1>1, <1>2 DEF LogInv, LogTypeOK
<1>4. buffer \cup {e} \subseteq Event
  BY <1>1 DEF LogInv, LogTypeOK
<1>5. \A f \in buffer \cup {e} : f.seq <= e.seq
  BY <1>1, <1>2 DEF LogInv, LogTypeOK
<1>6. buffer' = Newest(buffer \cup {e}, MaxEvents)
  BY DEF Append
<1>7. e \in buffer' /\ buffer' \subseteq buffer \cup {e}
  BY <1>4, <1>5, <1>6, NewestKeepsTop
<1>8. disk' \in {disk, disk \cup {e}}
  BY DEF Append
<1>9. \A r \in Readers :
        got'[r] = IF live /\ r \in on /\ e.seq > after[r] THEN got[r] \cup {e} ELSE got[r]
  BY DEF Append, Follows
<1> HIDE DEF e
<1> QED BY <1>1, <1>3, <1>7, <1>8, <1>9

LEMMA AppendInv ==
  ASSUME LogInv, NEW live \in BOOLEAN, NEW saved \in BOOLEAN, Append(live, saved),
         logFaults' \in 0 .. MaxLogFaults
  PROVE  LogInv'
<1>1. PICK e \in Event :
        /\ e.seq = counter + 1 /\ e.live = live
        /\ \A f \in buffer \cup disk : f.seq < e.seq
        /\ e \in buffer' /\ buffer' \subseteq buffer \cup {e}
        /\ disk' \in {disk, disk \cup {e}}
        /\ \A r \in Readers :
             got'[r] = IF live /\ r \in on /\ e.seq > after[r] THEN got[r] \cup {e} ELSE got[r]
  BY NewEvent
<1>2. counter \in Nat /\ counter' = counter + 1 /\ on' = on /\ after' = after /\ epoch' = epoch
      /\ on \subseteq Readers /\ after \in [Readers -> Nat]
  BY DEF Append, LogInv, LogTypeOK
<1>3. \A f \in buffer \cup disk \cup {e} : f \in Event /\ f.seq \in Nat /\ f.seq <= e.seq
  BY <1>1 DEF LogInv, LogTypeOK, Event
<1>4. LogTypeOK'
  <2>1. buffer' \subseteq Event /\ disk' \subseteq Event
    BY <1>1, <1>3
  <2>2. \A r \in Readers : got'[r] \subseteq Event
    BY <1>1 DEF LogInv, LogTypeOK
  <2>3. got' \in [Readers -> SUBSET Event]
    BY <2>2 DEF Append
  <2> QED BY <1>2, <2>1, <2>3 DEF LogInv, LogTypeOK
<1>5. SeqsUnique'
  <2>1. buffer' \cup disk' \subseteq buffer \cup disk \cup {e}
    BY <1>1
  <2>2. \A f \in buffer \cup disk \cup {e} : f.seq <= counter'
    BY <1>1, <1>2, <1>3
  <2>3. \A f, g \in buffer \cup disk \cup {e} : f.seq = g.seq => f = g
    BY <1>1, <1>3 DEF LogInv, SeqsUnique
  <2> QED BY <2>1, <2>2, <2>3 DEF SeqsUnique
<1>6. TopsExist'
  <2>1. HasTop(buffer')
    BY <1>1, <1>3 DEF HasTop
  <2>2. HasTop(disk')
    BY <1>1, <1>3 DEF HasTop, LogInv, TopsExist
  <2>3. ASSUME NEW r \in Readers PROVE HasTop(got'[r])
    <3>1. CASE got'[r] = got[r]
      BY <3>1 DEF LogInv, TopsExist
    <3>2. CASE got'[r] = got[r] \cup {e}
      <4>1. \A f \in got[r] \cup {e} : f.seq \in Nat
        BY <1>3 DEF LogInv, LogTypeOK, Event
      <4>2. CASE got[r] = {}
        BY <3>2, <4>1, <4>2 DEF HasTop
      <4>3. CASE got[r] # {}
        <5>1. PICK t \in got[r] : \A f \in got[r] : f.seq <= t.seq
          BY <4>3 DEF LogInv, TopsExist, HasTop
        <5>2. CASE t.seq <= e.seq
          BY <3>2, <4>1, <5>1, <5>2 DEF HasTop
        <5>3. CASE e.seq <= t.seq
          BY <3>2, <4>1, <5>1, <5>3 DEF HasTop
        <5> QED BY <4>1, <5>1, <5>2, <5>3
      <4> QED BY <4>2, <4>3
    <3> QED BY <1>1, <3>1, <3>2
  <2> QED BY <2>1, <2>2, <2>3 DEF TopsExist
<1>7. StreamComplete'
  BY <1>1, <1>2 DEF LogInv, StreamComplete
<1>8. ReadersBehind'
  <2> SUFFICES ASSUME NEW r \in on, NEW f \in got'[r]
               PROVE  f.seq <= counter + 1 \/ f.seq <= after[r]
    BY <1>2 DEF ReadersBehind
  <2>1. CASE f = e
    BY <1>1, <1>2, <2>1
  <2>2. CASE f \in got[r]
    <3>1. f.seq <= counter \/ f.seq <= after[r]
      BY <2>2 DEF LogInv, ReadersBehind
    <3>2. f.seq \in Nat
      BY <1>2, <2>2 DEF LogInv, LogTypeOK, Event
    <3> QED BY <1>2, <3>1, <3>2
  <2>3. f = e \/ f \in got[r]
    <3>1. got'[r] \in {got[r], got[r] \cup {e}}
      BY <1>1, <1>2
    <3> QED BY <3>1
  <2> QED BY <2>1, <2>2, <2>3
<1> QED BY <1>4, <1>5, <1>6, <1>7, <1>8 DEF LogInv

\* A reader opens its stream at a, keeps K of what it has, and is sent the rest of the buffer.
LEMMA OpenInv ==
  ASSUME LogInv, NEW r \in Readers, NEW a \in Nat, Open(r, a),
         NEW K \in SUBSET Event, \A e \in K : e.seq <= a, HasTop(K),
         got' = [got EXCEPT ![r] = K \cup Since(a)]
  PROVE  LogInv'
<1>1. /\ buffer' = buffer /\ counter' = counter /\ disk' = disk /\ epoch' = epoch
      /\ logFaults' = logFaults /\ on' = on \cup {r} /\ after' = [after EXCEPT ![r] = a]
  BY DEF Open
<1>2. HasTop(Since(a)) /\ Since(a) = {e \in buffer : e.seq > a}
  BY SinceHasTop DEF LogInv, TopsExist
<1>3. Since(a) \subseteq Event /\ counter \in Nat
  BY <1>2 DEF LogInv, LogTypeOK
<1>4. got'[r] = K \cup Since(a) /\ after'[r] = a
  BY <1>1 DEF LogInv, LogTypeOK
<1>5. \A q \in Readers : q # r => got'[q] = got[q] /\ after'[q] = after[q]
  BY <1>1 DEF LogInv, LogTypeOK
<1>6. LogTypeOK'
  BY <1>1, <1>3 DEF LogInv, LogTypeOK
<1>7. SeqsUnique'
  BY <1>1 DEF LogInv, SeqsUnique
<1>8. HasTop(got'[r])
  <2>1. CASE Since(a) = {}
    BY <1>4, <2>1
  <2>2. CASE Since(a) # {}
    <3>1. PICK t \in Since(a) : \A f \in Since(a) : f.seq <= t.seq
      BY <1>2, <2>2 DEF HasTop
    <3>2. t.seq \in Nat /\ t.seq > a /\ \A f \in K : f.seq \in Nat
      BY <1>2, <1>3 DEF Event
    <3>3. \A f \in K : f.seq <= t.seq
      BY <3>2
    <3> QED BY <1>4, <3>1, <3>3 DEF HasTop
  <2> QED BY <2>1, <2>2
<1>9. TopsExist'
  BY <1>1, <1>5, <1>8 DEF LogInv, TopsExist
<1>10. StreamComplete'
  BY <1>1, <1>2, <1>4, <1>5 DEF LogInv, StreamComplete, LogTypeOK
<1>11. ReadersBehind'
  BY <1>1, <1>2, <1>4, <1>5 DEF LogInv, ReadersBehind, LogTypeOK, SeqsUnique
<1> QED BY <1>6, <1>7, <1>9, <1>10, <1>11 DEF LogInv

LEMMA ConnectInv ==
  ASSUME LogInv, NEW r \in Readers, Connect(r)
  PROVE  LogInv'
<1>1. Open(r, 0) /\ got' = [got EXCEPT ![r] = {} \cup Since(0)]
  BY DEF Connect
<1>2. HasTop({}) /\ {} \in SUBSET Event /\ 0 \in Nat /\ \A e \in {} : e.seq <= 0
  BY DEF HasTop
<1> QED BY <1>1, <1>2, OpenInv

LEMMA ReconnectInv ==
  ASSUME LogInv, NEW r \in Readers, Reconnect(r)
  PROVE  LogInv' /\ \A e \in got'[r] \ got[r], f \in got[r] : f.seq < e.seq
<1>1. got[r] \subseteq Event /\ HasTop(got[r])
  BY DEF LogInv, LogTypeOK, TopsExist
<1>2. Top(got[r]) \in Nat /\ \A e \in got[r] : e.seq <= Top(got[r])
  BY <1>1, TopIsLargest
<1>3. Open(r, Top(got[r])) /\ got' = [got EXCEPT ![r] = got[r] \cup Since(Top(got[r]))]
  BY DEF Reconnect
<1>4. LogInv'
  BY <1>1, <1>2, <1>3, OpenInv
<1>5. \A e \in got'[r] \ got[r] : e \in Since(Top(got[r]))
  BY <1>3 DEF LogInv, LogTypeOK
<1>6. \A e \in Since(Top(got[r])) : e.seq \in Nat /\ e.seq > Top(got[r])
  BY <1>2, SinceHasTop DEF LogInv, TopsExist, LogTypeOK, Event
<1>7. \A f \in got[r] : f.seq \in Nat
  BY <1>1 DEF Event
<1> QED BY <1>2, <1>4, <1>5, <1>6, <1>7

LEMMA RestoreLogInv ==
  ASSUME LogInv, RestoreLog
  PROVE  LogInv'
<1>1. disk \subseteq Event /\ HasTop(disk)
  BY DEF LogInv, LogTypeOK, TopsExist
<1>2. counter' \in Nat /\ \A e \in disk : e.seq <= counter'
  BY <1>1, TopIsLargest DEF RestoreLog, RestoredCounter
<1>3. HasTop(buffer') /\ buffer' \subseteq disk
  BY <1>1, NewestHasTop DEF RestoreLog
<1>4. disk' = disk /\ got' = got /\ after' = after /\ on' = {} /\ epoch' = epoch + 1
      /\ logFaults' \in 0 .. MaxLogFaults
  BY DEF RestoreLog, Fault, LogInv, LogTypeOK
<1>5. LogTypeOK'
  BY <1>1, <1>2, <1>3, <1>4 DEF LogInv, LogTypeOK
<1>6. SeqsUnique'
  BY <1>2, <1>3, <1>4 DEF LogInv, SeqsUnique
<1>7. TopsExist'
  BY <1>3, <1>4 DEF LogInv, TopsExist
<1>8. StreamComplete' /\ ReadersBehind'
  BY <1>4 DEF StreamComplete, ReadersBehind
<1> QED BY <1>5, <1>6, <1>7, <1>8 DEF LogInv

LEMMA DisconnectInv ==
  ASSUME LogInv, NEW r \in Readers, Disconnect(r)
  PROVE  LogInv'
BY DEF Disconnect, LogInv, LogTypeOK, SeqsUnique, TopsExist, StreamComplete, ReadersBehind

LEMMA LogStutterInv ==
  ASSUME LogInv, UNCHANGED logVars
  PROVE  LogInv'
BY DEF logVars, LogInv, LogTypeOK, SeqsUnique, TopsExist, StreamComplete, ReadersBehind

LEMMA PublishAppends ==
  ASSUME LogInv, Publish \/ AppendStatus
  PROVE  \E live, saved \in BOOLEAN : Append(live, saved) /\ logFaults' \in 0 .. MaxLogFaults
<1>1. CASE Append(TRUE, TRUE) /\ UNCHANGED logFaults
  BY <1>1 DEF LogInv, LogTypeOK
<1>2. CASE Append(TRUE, FALSE) /\ Fault
  <2>1. logFaults' \in 0 .. MaxLogFaults
    BY <1>2 DEF Fault, LogInv, LogTypeOK
  <2> QED BY <1>2, <2>1
<1>3. CASE Append(FALSE, FALSE) /\ UNCHANGED logFaults
  BY <1>3 DEF LogInv, LogTypeOK
<1> QED BY <1>1, <1>2, <1>3 DEF Publish, AppendStatus

LEMMA LogNextInv == LogInv /\ [LogNext]_logVars => LogInv'
<1> SUFFICES ASSUME LogInv, [LogNext]_logVars PROVE LogInv'
  OBVIOUS
<1>1. CASE Publish \/ AppendStatus
  BY <1>1, PublishAppends, AppendInv
<1>2. CASE RestoreLog
  BY <1>2, RestoreLogInv
<1>3. ASSUME NEW r \in Readers, Connect(r) PROVE LogInv'
  BY <1>3, ConnectInv
<1>4. ASSUME NEW r \in Readers, Reconnect(r) PROVE LogInv'
  BY <1>4, ReconnectInv
<1>5. ASSUME NEW r \in Readers, Disconnect(r) PROVE LogInv'
  BY <1>5, DisconnectInv
<1>6. CASE UNCHANGED logVars
  BY <1>6, LogStutterInv
<1> QED BY <1>1, <1>2, <1>3, <1>4, <1>5, <1>6 DEF LogNext

-----------------------------------------------------------------------------
(* The pages.                                                              *)

\* What the ring buffer has dropped of the file is older than all it holds; it never drops all.
DropsOldest ==
  /\ IsFiniteSet(buffer) /\ IsFiniteSet(disk)
  /\ \A e \in buffer \cup disk : e.seq > 0
  /\ buffer = {} => disk = {}
  /\ \A e \in disk \ buffer, f \in buffer : e.seq < f.seq

\* The events of S before e, and those after it.
Below(S, e) == {f \in S : f.seq < e.seq}
Above(S, e) == {f \in S : f.seq > e.seq}

LEMMA CountsGrow ==
  ASSUME NEW S, NEW T, IsFiniteSet(T), S \subseteq T, NEW n \in Nat, Cardinality(T) < n
  PROVE  Cardinality(S) < n
<1>1. Cardinality(S) <= Cardinality(T) /\ IsFiniteSet(S)
  BY FS_Subset
<1>2. Cardinality(S) \in Nat /\ Cardinality(T) \in Nat
  BY <1>1, FS_CardinalityType
<1> QED BY <1>1, <1>2

\* A page has with an event all that come before it.
LEMMA FirstIsPrefix ==
  ASSUME NEW S \in SUBSET Event, IsFiniteSet(S), NEW n \in Nat,
         NEW e \in First(S, n), NEW f \in S, f.seq <= e.seq
  PROVE  f \in First(S, n)
<1>1. e \in S /\ Cardinality(Below(S, e)) < n
  BY DEF First, Below
<1>2. Below(S, f) \subseteq Below(S, e)
  BY <1>1 DEF Below, Event
<1>3. IsFiniteSet(Below(S, e))
  BY FS_Subset DEF Below
<1>4. Cardinality(Below(S, f)) < n
  BY <1>1, <1>2, <1>3, CountsGrow
<1> QED BY <1>4 DEF First, Below

\* Of events with different ids, the buffer keeps those after what it drops.
LEMMA NewestIsSuffix ==
  ASSUME NEW S \in SUBSET Event, IsFiniteSet(S), NEW n \in Nat,
         \A e, f \in S : e.seq = f.seq => e = f,
         NEW e \in S \ Newest(S, n), NEW f \in Newest(S, n)
  PROVE  e.seq < f.seq
<1>1. f \in S /\ Cardinality(Above(S, f)) < n
  BY DEF Newest, Above
<1>2. ~ Cardinality(Above(S, e)) < n
  BY DEF Newest, Above
<1>3. IsFiniteSet(Above(S, f))
  BY FS_Subset DEF Above
<1>4. ~ Above(S, e) \subseteq Above(S, f)
  BY <1>1, <1>2, <1>3, CountsGrow
<1> QED BY <1>1, <1>4 DEF Above, Event

\* A set of naturals that is not empty has a least one.
LEMMA LeastOfNaturals ==
  ASSUME NEW T \in SUBSET Nat, T # {}
  PROVE  \E k \in T : \A m \in T : k <= m
<1> DEFINE R == {p \in Nat \X Nat : p[1] < p[2]}
<1>1. IsWellFoundedOn(R, Nat)
  BY NatLessThanWellFounded DEF OpToRel
<1>2. \A m, k \in Nat : m < k => <<m, k>> \in R
  OBVIOUS
<1> HIDE DEF R
<1>3. PICK k \in T : \A m \in T : ~ (<<m, k>> \in R)
  BY <1>1, WFMin
<1>4. ASSUME NEW m \in T PROVE k <= m
  <2>1. k \in Nat /\ m \in Nat
    OBVIOUS
  <2>2. ~ (m < k)
    BY <1>2, <1>3, <2>1, Zenon
  <2> QED BY <2>1, <2>2
<1> QED BY <1>4

\* A page of a set of events that is not empty has one.
LEMMA FirstExists ==
  ASSUME NEW S \in SUBSET Event, IsFiniteSet(S), S # {}, NEW n \in Nat \ {0}
  PROVE  First(S, n) # {}
<1> SUFFICES \E e \in S : Below(S, e) = {}
  BY FS_EmptySet DEF First, Below
<1>1. PICK e \in S : \A f \in S : e.seq <= f.seq
  <2>1. Seqs(S) # {} /\ Seqs(S) \in SUBSET Nat
    BY DEF Seqs, Event
  <2>2. \E k \in Seqs(S) : \A m \in Seqs(S) : k <= m
    BY <2>1, LeastOfNaturals
  <2> QED BY <2>2 DEF Seqs
<1>2. Below(S, e) = {}
  BY <1>1 DEF Below, Event
<1> QED BY <1>2

\* Only the last events matter: of older events and a page of newer ones, the page is that of all.
LEMMA FirstOfParts ==
  ASSUME NEW O \in SUBSET Event, NEW B \in SUBSET Event, IsFiniteSet(O), IsFiniteSet(B),
         NEW n \in Nat, \A f \in O, g \in B : f.seq < g.seq
  PROVE  First(O \cup First(B, n), n) = First(O \cup B, n)
<1> DEFINE S == O \cup First(B, n)
           T == O \cup B
<1>1. S \subseteq T /\ First(B, n) \subseteq B
  BY DEF First
<1>2. IsFiniteSet(T) /\ IsFiniteSet(S)
  BY <1>1, FS_Union, FS_Subset
<1>3. ASSUME NEW e \in First(T, n) PROVE e \in First(S, n)
  <2>1. e \in T /\ Cardinality(Below(T, e)) < n /\ IsFiniteSet(Below(T, e))
    BY <1>2, FS_Subset DEF First, Below
  <2>2. Below(S, e) \subseteq Below(T, e) /\ Below(B, e) \subseteq Below(T, e)
    BY <1>1 DEF Below
  <2>3. Cardinality(Below(S, e)) < n /\ Cardinality(Below(B, e)) < n
    BY <2>1, <2>2, CountsGrow
  <2>4. e \in S
    BY <2>1, <2>3 DEF First, Below
  <2> QED BY <2>3, <2>4 DEF First, Below
<1>4. ASSUME NEW e \in First(S, n) PROVE e \in First(T, n)
  <2>1. e \in S /\ Cardinality(Below(S, e)) < n /\ IsFiniteSet(Below(S, e))
    BY <1>2, FS_Subset DEF First, Below
  <2>2. ASSUME NEW f \in T, f.seq < e.seq PROVE f \in S
    <3>1. CASE f \in O
      BY <3>1
    <3>2. CASE f \in B
      <4>1. e \in First(B, n)
        BY <2>1, <2>2, <3>2 DEF Event
      <4>2. f.seq <= e.seq
        BY <2>2, <3>2, <4>1 DEF First, Event
      <4> QED BY <3>2, <4>1, <4>2, FirstIsPrefix
    <3> QED BY <3>1, <3>2
  <2>3. Below(T, e) \subseteq Below(S, e)
    BY <2>2 DEF Below
  <2>4. Cardinality(Below(T, e)) < n
    BY <2>1, <2>3, CountsGrow
  <2> QED BY <1>1, <2>1, <2>4 DEF First, Below
<1> QED BY <1>1, <1>3, <1>4 DEF First

\* What the buffer, full or not, does not keep of S was dropped for newer events.
LEMMA NewestDropsOldest ==
  ASSUME NEW S \in SUBSET Event, IsFiniteSet(S), NEW D \in SUBSET Event, IsFiniteSet(D),
         \A e, f \in S : e.seq = f.seq => e = f,
         \A e \in S \cup D : e.seq > 0,
         \A e \in D \ S, f \in S : e.seq < f.seq,
         NEW t \in S, \A f \in S : f.seq <= t.seq,
         buffer' = Newest(S, MaxEvents), disk' = D
  PROVE  DropsOldest'
<1>1. t \in buffer' /\ buffer' \subseteq S /\ IsFiniteSet(buffer')
  BY NewestKeepsTop, FS_Subset
<1>2. ASSUME NEW e \in D \ buffer', NEW f \in buffer' PROVE e.seq < f.seq
  <2>1. CASE e \in S
    BY <1>1, <2>1, NewestIsSuffix
  <2>2. CASE e \notin S
    BY <1>1, <2>2
  <2> QED BY <2>1, <2>2
<1> QED BY <1>1, <1>2 DEF DropsOldest

LEMMA DropsOldestInv == LogInv /\ DropsOldest /\ [LogNext]_logVars => DropsOldest'
<1> SUFFICES ASSUME LogInv, DropsOldest, [LogNext]_logVars PROVE DropsOldest'
  OBVIOUS
<1>1. ASSUME NEW live \in BOOLEAN, NEW saved \in BOOLEAN, Append(live, saved)
      PROVE  DropsOldest'
  <2> DEFINE e == [seq |-> counter + 1, epoch |-> epoch, live |-> live]
  <2>1. e \in Event /\ e.seq = counter + 1 /\ e.seq > 0
    BY DEF LogInv, LogTypeOK, Event
  <2>2. \A f \in buffer \cup disk : f \in Event /\ f.seq \in Nat /\ f.seq < e.seq
    BY <2>1 DEF LogInv, LogTypeOK, SeqsUnique, Event
  <2>3. buffer' = Newest(buffer \cup {e}, MaxEvents) /\ disk' \in {disk, disk \cup {e}}
    BY <1>1 DEF Append
  <2> HIDE DEF e
  <2>4. IsFiniteSet(buffer \cup {e}) /\ IsFiniteSet(disk')
    BY <2>3, FS_AddElement DEF DropsOldest
  <2>5. buffer \cup {e} \in SUBSET Event /\ disk' \in SUBSET Event
    BY <2>1, <2>2, <2>3
  <2>6. \A f, g \in buffer \cup {e} : f.seq = g.seq => f = g
    BY <2>1, <2>2 DEF LogInv, SeqsUnique
  <2>7. \A f \in (buffer \cup {e}) \cup disk' : f.seq > 0
    BY <2>1, <2>3 DEF DropsOldest
  <2>8. \A f \in disk' \ (buffer \cup {e}), g \in buffer \cup {e} : f.seq < g.seq
    BY <2>2, <2>3 DEF DropsOldest
  <2>9. e \in buffer \cup {e} /\ \A f \in buffer \cup {e} : f.seq <= e.seq
    BY <2>1, <2>2 DEF LogInv, LogTypeOK
  <2> QED BY <2>3, <2>4, <2>5, <2>6, <2>7, <2>8, <2>9, NewestDropsOldest
<1>2. CASE RestoreLog
  <2>1. disk \in SUBSET Event /\ IsFiniteSet(disk) /\ \A e \in disk \cup disk : e.seq > 0
    BY DEF LogInv, LogTypeOK, DropsOldest
  <2>2. buffer' = Newest(disk, MaxEvents) /\ disk' = disk
    BY <1>2 DEF RestoreLog
  <2>3. \A e, f \in disk : e.seq = f.seq => e = f
    BY DEF LogInv, SeqsUnique
  <2>4. CASE disk = {}
    BY <2>1, <2>2, <2>4, FS_EmptySet DEF DropsOldest, Newest
  <2>5. CASE disk # {}
    <3>1. PICK t \in disk : \A f \in disk : f.seq <= t.seq
      BY <2>5 DEF LogInv, TopsExist, HasTop
    <3>2. \A e \in disk \ disk, f \in disk : e.seq < f.seq
      OBVIOUS
    <3> QED BY <2>1, <2>2, <2>3, <3>1, <3>2, NewestDropsOldest
  <2> QED BY <2>4, <2>5
<1>3. CASE UNCHANGED <<buffer, disk>>
  BY <1>3 DEF DropsOldest
<1>4. ASSUME NEW r \in Readers, Connect(r) \/ Reconnect(r) \/ Disconnect(r)
      PROVE  UNCHANGED <<buffer, disk>>
  BY <1>4 DEF Connect, Reconnect, Disconnect, Open
<1> QED BY <1>1, <1>2, <1>3, <1>4, PublishAppends DEF LogNext, logVars

\* What DropsOldest says of the events behind a reader's position.
LEMMA PageIsComplete ==
  ASSUME LogInv, DropsOldest, NEW a \in 0 .. counter
  PROVE  Page(a) = First(Behind(buffer \cup disk, a), PageLimit)
<1> DEFINE B == Since(a)
           O == Behind(disk, a) \ buffer
           E == First(B, PageLimit)
           gap == Before(Behind(disk, a), E)
<1>1. a \in Nat /\ buffer \in SUBSET Event /\ disk \in SUBSET Event
  BY DEF LogInv, LogTypeOK
<1>2. B = Behind(buffer, a) /\ B \in SUBSET Event /\ O \in SUBSET Event
  BY <1>1 DEF Since, Follows, Behind
<1>3. IsFiniteSet(B) /\ IsFiniteSet(O)
  BY FS_Subset DEF DropsOldest, Since, Behind
<1>4. Behind(buffer \cup disk, a) = O \cup B
  BY <1>2 DEF Behind
<1>5. \A f \in O, g \in buffer : f.seq < g.seq
  BY DEF DropsOldest, Behind
<1>6. E = {} <=> B = {}
  BY <1>2, <1>3, FirstExists DEF First
<1>7. E \subseteq B
  BY DEF First
<1>8. CASE B = {}
  <2>1. O = {}
    <3> SUFFICES ASSUME NEW f \in O PROVE FALSE
      OBVIOUS
    <3>1. PICK g \in buffer : TRUE
      BY DEF DropsOldest, Behind
    <3>2. f.seq < g.seq /\ f.seq > a /\ f.seq \in Nat /\ g.seq \in Nat
      BY <1>1, <1>5 DEF Behind, Event
    <3>3. g \in B
      BY <1>1, <1>2, <3>2 DEF Behind
    <3> QED BY <1>8, <3>3
  <2>2. First({}, PageLimit) = {}
    BY DEF First
  <2>3. a = 0 => disk = {}
    BY <1>2, <1>8 DEF DropsOldest, Behind
  <2> QED BY <1>4, <1>6, <1>8, <2>1, <2>2, <2>3 DEF Page
<1>9. CASE B # {} /\ a + 1 \in Seqs(E)
  <2>1. PICK e \in E : e.seq = a + 1
    BY <1>9 DEF Seqs
  <2>2. O = {}
    <3> SUFFICES ASSUME NEW f \in O PROVE FALSE
      OBVIOUS
    <3>1. f.seq < a + 1 /\ f.seq > a /\ f.seq \in Nat
      BY <1>1, <1>2, <1>5, <1>7, <2>1 DEF Behind, Event
    <3> QED BY <1>1, <3>1
  <2> QED BY <1>4, <1>6, <1>9, <2>2 DEF Page
<1>10. CASE B # {} /\ a + 1 \notin Seqs(E)
  <2>1. gap = O
    <3>1. O \subseteq gap
      BY <1>2, <1>5, <1>7 DEF Before, Behind
    <3>2. ASSUME NEW f \in gap PROVE f \notin buffer
      <4> SUFFICES ASSUME f \in buffer PROVE FALSE
        OBVIOUS
      <4>1. f \in B /\ f.seq \in Nat /\ \A e \in E : f.seq < e.seq
        BY <1>1, <1>2 DEF Before, Behind, Event
      <4>2. PICK e \in E : TRUE
        BY <1>6, <1>10
      <4>3. f \in E
        BY <1>2, <1>3, <4>1, <4>2, FirstIsPrefix, <1>7 DEF Event
      <4> QED BY <4>1, <4>3
    <3> QED BY <3>1, <3>2 DEF Before
  <2>2. Page(a) = First(O \cup E, PageLimit)
    BY <1>6, <1>10, <2>1 DEF Page
  <2>3. \A f \in O, g \in B : f.seq < g.seq
    BY <1>2, <1>5 DEF Behind
  <2>4. First(O \cup E, PageLimit) = First(O \cup B, PageLimit)
    <3> HIDE DEF O, B
    <3>1. PageLimit \in Nat
      OBVIOUS
    <3> QED BY <1>2, <1>3, <2>3, <3>1, FirstOfParts
  <2> QED BY <1>4, <2>2, <2>4
<1> QED BY <1>8, <1>9, <1>10

LEMMA AllEventsAreAll ==
  ASSUME LogInv, DropsOldest
  PROVE  AllEvents = buffer \cup disk
<1>1. CASE buffer = {}
  BY <1>1 DEF AllEvents, DropsOldest
<1>2. CASE buffer # {} /\ 1 \notin Seqs(buffer)
  BY <1>2 DEF AllEvents, DropsOldest, Before
<1>3. CASE buffer # {} /\ 1 \in Seqs(buffer)
  <2>1. PICK g \in buffer : g.seq = 1
    BY <1>3 DEF Seqs
  <2>2. \A f \in disk \ buffer : f.seq \in Nat /\ f.seq > 0 /\ f.seq < 1
    BY <2>1 DEF DropsOldest, LogInv, LogTypeOK, Event
  <2>3. disk \subseteq buffer
    BY <2>2
  <2> QED BY <1>3, <2>3 DEF AllEvents
<1> QED BY <1>1, <1>2, <1>3

-----------------------------------------------------------------------------
(* The theorems.                                                           *)

\* The inductive invariant holds in every reachable state.
THEOREM LogInvariant == LogSpec => []LogInv
BY LogInitInv, LogNextInv, PTL DEF LogSpec

\* The variables keep their types; the counter in particular is a number after a restart.
THEOREM LogTypeCorrect == LogSpec => []LogTypeOK
<1>1. LogInv => LogTypeOK
  BY DEF LogInv
<1> QED BY <1>1, LogInvariant, PTL

\* Ids are unique and grow, over restarts and failed writes.
THEOREM IdsAreUnique == LogSpec => []SeqsUnique
<1>1. LogInv => SeqsUnique
  BY DEF LogInv
<1> QED BY <1>1, LogInvariant, PTL

\* Nothing falls between the replay of a stream and its subscription.
THEOREM StreamsAreComplete == LogSpec => []StreamComplete
<1>1. LogInv => StreamComplete
  BY DEF LogInv
<1> QED BY <1>1, LogInvariant, PTL

\* Streams deliver in order and once, over reconnections.
THEOREM StreamsAreOrdered == LogSpec => DeliveredInOrder
<1> DEFINE Ordered ==
      \A r \in on' : r \in on \/ after'[r] # 0 =>
        /\ got[r] \subseteq got'[r]
        /\ \A e \in got'[r] \ got[r], f \in got[r] : f.seq < e.seq
<1>1. LogInv /\ [LogNext]_logVars => [Ordered]_logVars
  <2> SUFFICES ASSUME LogInv, LogNext, NEW r \in on', r \in on \/ after'[r] # 0
               PROVE  /\ got[r] \subseteq got'[r]
                      /\ \A e \in got'[r] \ got[r], f \in got[r] : f.seq < e.seq
    OBVIOUS
  <2>1. CASE Publish \/ AppendStatus
    <3>1. PICK live \in BOOLEAN, saved \in BOOLEAN : Append(live, saved)
      BY <2>1, PublishAppends
    <3>2. on' = on /\ r \in on /\ r \in Readers /\ counter \in Nat /\ after[r] \in Nat
      BY <3>1 DEF Append, LogInv, LogTypeOK
    <3>3. PICK e \in Event :
            /\ e.seq = counter + 1
            /\ got'[r] = IF live /\ r \in on /\ e.seq > after[r] THEN got[r] \cup {e} ELSE got[r]
      BY <3>1, <3>2, NewEvent
    <3>4. \A f \in got[r] : f.seq \in Nat /\ (f.seq <= counter \/ f.seq <= after[r])
      BY <3>2 DEF LogInv, ReadersBehind, LogTypeOK, Event
    <3> QED BY <3>2, <3>3, <3>4
  <2>2. CASE RestoreLog
    BY <2>2 DEF RestoreLog
  <2>3. ASSUME NEW q \in Readers, Connect(q)
        PROVE  got'[r] = got[r]
    BY <2>3 DEF Connect, Open, LogInv, LogTypeOK
  <2>4. ASSUME NEW q \in Readers, Reconnect(q)
        PROVE  /\ got[r] \subseteq got'[r]
               /\ \A e \in got'[r] \ got[r], f \in got[r] : f.seq < e.seq
    <3>1. CASE q = r
      BY <2>4, <3>1, ReconnectInv DEF Reconnect, LogInv, LogTypeOK
    <3>2. CASE q # r
      BY <2>4, <3>2 DEF Reconnect, LogInv, LogTypeOK
    <3> QED BY <3>1, <3>2
  <2>5. ASSUME NEW q \in Readers, Disconnect(q)
        PROVE  got'[r] = got[r]
    BY <2>5 DEF Disconnect
  <2> QED BY <2>1, <2>2, <2>3, <2>4, <2>5 DEF LogNext
<1> QED BY <1>1, LogInvariant, PTL DEF LogSpec, DeliveredInOrder

\* Pages skip and repeat nothing, for every size of the buffer and of the page, and the
\* conversation's rounds miss no event that is still kept.
THEOREM PagesAreComplete == LogSpec => []PagingComplete
<1>1. LogInit => DropsOldest
  BY FS_EmptySet DEF LogInit, DropsOldest
<1>2. LogInv /\ DropsOldest => PagingComplete
  BY PageIsComplete, AllEventsAreAll DEF PagingComplete
<1> QED BY <1>1, <1>2, DropsOldestInv, LogInvariant, PTL DEF LogSpec

-----------------------------------------------------------------------------
(* The session.                                                            *)

\* A loop that has not had its result: it will still settle the session.
Live == {"starting", "querying", "running", "backoff"}

\* The inductive invariant; WorkingHasLoop is inductive with the types.
IInv == TypeOK /\ WorkingHasLoop

\* A settled status asks for no loop.
LEMMA SettledInv ==
  ASSUME TypeOK', status' \notin Working
  PROVE  IInv'
BY DEF IInv, WorkingHasLoop

\* A step of l that leaves it live keeps the invariant.
LEMMA LiveInv ==
  ASSUME TypeOK', NEW l \in Loops, phase'[l] \in Live
  PROVE  IInv'
BY DEF IInv, WorkingHasLoop, Live

\* Finish keeps the types of the loops' variables.
LEMMA FinishTypes ==
  ASSUME TypeOK, NEW l \in Loops, Finish(l)
  PROVE  /\ phase' \in [Loops -> Phase] /\ attempt' \in [Loops -> 0 .. MaxRetries]
         /\ fresh' \in [Loops -> BOOLEAN] /\ resumed' \in [Loops -> BOOLEAN]
BY RetriesAssumption DEF TypeOK, Finish, Phase

\* A session in the store takes the status given; one that is not keeps its own, not working.
LEMMA SetStatusSettles ==
  ASSUME TypeOK, NEW s \in Status, SetStatus(s)
  PROVE  status' \in Status /\ (s \notin Working => status' \notin Working)
BY DEF TypeOK, SetStatus, Exists, Status, Working

LEMMA CloseInv ==
  ASSUME IInv, NEW l \in Loops, Close(l), UNCHANGED <<aborted, meta, faults>>
  PROVE  IInv'
<1>1. status' \in Status /\ status' \notin Working
  BY SetStatusSettles DEF IInv, Close, Status, Resumable, Working
<1>2. TypeOK'
  BY <1>1, FinishTypes DEF IInv, Close, TypeOK
<1> QED BY <1>1, <1>2, SettledInv

LEMMA StopOnEventInv ==
  ASSUME IInv, NEW l \in Loops, StopOnEvent(l)
  PROVE  IInv'
<1>1. status' \in Status /\ status' \notin Working
  BY SetStatusSettles DEF IInv, StopOnEvent, Status, Resumable, Working
<1>2. TypeOK'
  BY <1>1, FinishTypes DEF IInv, StopOnEvent, TypeOK
<1> QED BY <1>1, <1>2, SettledInv

LEMMA ResultEventInv ==
  ASSUME IInv, NEW l \in Loops, ResultEvent(l)
  PROVE  IInv'
<1>1. status' \in Status /\ status' \notin Working
  BY SetStatusSettles DEF IInv, ResultEvent, Status, Resumable, Working
<1>2. TypeOK'
  BY <1>1 DEF IInv, ResultEvent, TypeOK, Phase
<1> QED BY <1>1, <1>2, SettledInv

\* The steps that leave the loop live.
LEMMA LiveStepsInv ==
  ASSUME IInv, NEW l \in Loops, BeginQuery(l) \/ InitEvent(l) \/ ToolEvent(l)
  PROVE  IInv'
<1>1. CASE BeginQuery(l)
  <2>1. TypeOK' /\ phase'[l] = "querying"
    BY <1>1 DEF BeginQuery, session, IInv, TypeOK, Phase
  <2> QED BY <2>1, LiveInv DEF Live
<1>2. CASE InitEvent(l)
  <2>1. status' \in Status
    BY <1>2, SetStatusSettles DEF InitEvent, IInv, Status, Working
  <2>2. TypeOK' /\ phase'[l] = "running"
    BY <1>2, <2>1 DEF InitEvent, IInv, TypeOK, Phase
  <2> QED BY <2>2, LiveInv DEF Live
<1>3. CASE ToolEvent(l)
  <2>1. status' \in Status
    BY <1>3, SetStatusSettles DEF ToolEvent, IInv, Status, Working
  <2>2. TypeOK' /\ phase'[l] = "running"
    BY <1>3, <2>1 DEF ToolEvent, loops, IInv, TypeOK, Phase
  <2> QED BY <2>2, LiveInv DEF Live
<1> QED BY <1>1, <1>2, <1>3

LEMMA ThrowInv ==
  ASSUME IInv, NEW l \in Loops, Throw(l)
  PROVE  IInv'
<1>1. CASE Retry(l)
  <2>1. attempt[l] + 1 \in 0 .. MaxRetries
    BY <1>1, RetriesAssumption DEF Retry, MoreRetries, IInv, TypeOK
  <2>2. TypeOK' /\ phase'[l] = "backoff"
    BY <1>1, <2>1 DEF Throw, Retry, IInv, TypeOK, Phase
  <2> QED BY <2>2, LiveInv DEF Live
<1>2. CASE QueryFresh(l)
  <2>1. TypeOK' /\ phase'[l] = "querying"
    BY <1>2 DEF Throw, QueryFresh, IInv, TypeOK
  <2> QED BY <2>1, LiveInv DEF Live
<1>3. CASE Close(l)
  BY <1>3, CloseInv DEF Throw
<1> QED BY <1>1, <1>2, <1>3 DEF Throw

\* A loop that ends after its result leaves the loop that keeps the session at work.
LEMMA StreamEndsInv ==
  ASSUME IInv, NEW l \in Loops, StreamEnds(l)
  PROVE  IInv'
<1>1. TypeOK'
  BY FinishTypes DEF StreamEnds, session, IInv, TypeOK
<1>2. CASE status \notin Working
  BY <1>1, <1>2, SettledInv DEF StreamEnds, session
<1>3. CASE status \in Working
  <2>1. PICK k \in Loops : phase[k] \in Live
    BY <1>3 DEF IInv, WorkingHasLoop, Live
  <2>2. k # l
    BY <2>1 DEF StreamEnds, Live
  <2>3. phase'[k] \in Live
    BY <2>1, <2>2 DEF StreamEnds, Finish, IInv, TypeOK
  <2> QED BY <1>1, <2>3, LiveInv
<1> QED BY <1>2, <1>3

LEMMA BackoffEndsInv ==
  ASSUME IInv, NEW l \in Loops, BackoffEnds(l)
  PROVE  IInv'
<1>1. CASE SetStatus("interrupted") /\ Finish(l)
  <2>1. status' \in Status /\ status' \notin Working
    BY <1>1, SetStatusSettles DEF IInv, Status, Resumable, Working
  <2>2. TypeOK'
    BY <1>1, <2>1, FinishTypes DEF BackoffEnds, IInv, TypeOK
  <2> QED BY <2>1, <2>2, SettledInv
<1>2. CASE /\ phase' = [phase EXCEPT ![l] = "querying"]
           /\ resumed' = [resumed EXCEPT ![l] = conv]
           /\ UNCHANGED <<status, attempt, fresh>>
  <2>1. TypeOK' /\ phase'[l] = "querying"
    BY <1>2 DEF BackoffEnds, IInv, TypeOK, Phase
  <2> QED BY <2>1, LiveInv DEF Live
<1> QED BY <1>1, <1>2 DEF BackoffEnds

LEMMA LoopStepInv ==
  ASSUME IInv, NEW l \in Loops, LoopStep(l)
  PROVE  IInv'
<1>1. CASE StartFails(l)
  BY <1>1, CloseInv DEF StartFails
<1> QED
  BY <1>1, LiveStepsInv, StopOnEventInv, ResultEventInv, ThrowInv, StreamEndsInv, BackoffEndsInv
  DEF LoopStep

\* A request that starts a loop.
LEMMA StartLoopInv ==
  ASSUME IInv, Create \/ PostMessage \/ Resume
  PROVE  IInv'
<1>1. StartLoop /\ status' \in Status /\ aborted' \in BOOLEAN /\ conv' = conv
      /\ UNCHANGED <<meta, faults>>
  BY DEF Create, PostMessage, Resume, IInv, TypeOK, Status, Working
<1>2. PICK l \in Loops : phase' = [phase EXCEPT ![l] = "starting"]
  BY <1>1 DEF StartLoop
<1>3. TypeOK' /\ phase'[l] = "starting"
  BY <1>1, <1>2 DEF StartLoop, IInv, TypeOK, Phase
<1> QED BY <1>3, LiveInv DEF Live

\* The requests and timers that leave the loops alone.
LEMMA OtherInv ==
  ASSUME IInv, Interrupt \/ Delete \/ TakeSnapshot \/ Shutdown \/ UNCHANGED vars
  PROVE  IInv'
<1>1. UNCHANGED <<conv, phase, attempt, fresh, resumed, faults>>
  BY DEF Interrupt, Delete, TakeSnapshot, Shutdown, vars, session, loops
<1>2. aborted' \in BOOLEAN
  BY DEF Interrupt, Delete, TakeSnapshot, Shutdown, vars, session, IInv, TypeOK
<1>3. meta' \in Snapshot
  BY DEF Interrupt, Delete, TakeSnapshot, Shutdown, vars, IInv, TypeOK, Snapshot
<1>4. status' = status \/ status' = "gone"
  BY DEF Interrupt, Delete, TakeSnapshot, Shutdown, vars, session
<1>5. TypeOK'
  BY <1>1, <1>2, <1>3, <1>4 DEF IInv, TypeOK, Status
<1> QED BY <1>1, <1>4, <1>5 DEF IInv, WorkingHasLoop, Working

LEMMA RestartInv ==
  ASSUME IInv, Restart
  PROVE  IInv'
<1>1. status' \in Status /\ status' \notin Working
  BY DEF Restart, Recovered, Status, Working, Resumable, Terminal
<1>2. conv' \in BOOLEAN /\ aborted' \in BOOLEAN /\ meta' \in Snapshot /\ faults' \in 0 .. MaxFaults
  <2>1. meta.conv \in BOOLEAN /\ meta \in Snapshot
    BY DEF IInv, TypeOK, Snapshot
  <2>2. faults - 1 \in 0 .. MaxFaults
    BY RetriesAssumption DEF Restart, IInv, TypeOK
  <2> QED BY <2>1, <2>2 DEF Restart
<1>3. /\ phase' \in [Loops -> Phase] /\ attempt' \in [Loops -> 0 .. MaxRetries]
      /\ fresh' \in [Loops -> BOOLEAN] /\ resumed' \in [Loops -> BOOLEAN]
  BY RetriesAssumption DEF Restart, Phase
<1>4. TypeOK'
  BY <1>1, <1>2, <1>3 DEF TypeOK
<1> QED BY <1>1, <1>4, SettledInv

-----------------------------------------------------------------------------
\* The inductive invariant holds in every reachable state.
THEOREM Invariant == Spec => []IInv
<1>1. ASSUME Init PROVE IInv
  <2>1. /\ phase \in [Loops -> Phase] /\ attempt \in [Loops -> 0 .. MaxRetries]
        /\ fresh \in [Loops -> BOOLEAN] /\ resumed \in [Loops -> BOOLEAN]
    BY <1>1, RetriesAssumption DEF Init, Phase
  <2>2. status \in Status /\ status \notin Working /\ aborted \in BOOLEAN /\ conv \in BOOLEAN
    BY <1>1 DEF Init, Status, Working
  <2>3. meta \in Snapshot /\ faults \in 0 .. MaxFaults
    BY <1>1, RetriesAssumption DEF Init, Snapshot, NoMeta, Status
  <2> QED BY <2>1, <2>2, <2>3 DEF IInv, TypeOK, WorkingHasLoop
<1>2. IInv /\ [Next]_vars => IInv'
  BY LoopStepInv, StartLoopInv, OtherInv, RestartInv DEF Next
<1> QED BY <1>1, <1>2, PTL DEF Spec

\* The variables keep their types: no loop makes more than MaxRetries attempts.
THEOREM TypeCorrect == Spec => []TypeOK
<1>1. IInv => TypeOK
  BY DEF IInv
<1> QED BY <1>1, Invariant, PTL

\* A session that says it is at work has a loop that will settle it.
THEOREM WorkIsDoneByLoop == Spec => []WorkingHasLoop
<1>1. IInv => WorkingHasLoop
  BY DEF IInv
<1> QED BY <1>1, Invariant, PTL
=============================================================================
