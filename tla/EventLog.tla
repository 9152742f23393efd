------------------------------ MODULE EventLog ------------------------------
(***************************************************************************)
(* The events of one gateway session: the ring buffer and the sequence     *)
(* counter of SessionStore, the events.jsonl of FsPersistence, and the two *)
(* ways to read them, the SSE stream and the paged GET /events.            *)
(*                                                                         *)
(* Events are pushed in the order of their seq, so the buffer and the file *)
(* are sets of events ordered by seq; SeqsUnique is what makes that        *)
(* abstraction sound.  The gateway is single-threaded and each handler     *)
(* here runs without an await: one action per handler.                     *)
(***************************************************************************)
EXTENDS Integers, FiniteSets

CONSTANTS
  MaxEvents,  \* maxEventsPerSession, the size of the ring buffer
  PageLimit,  \* limit of GET /events
  MaxSeq,     \* Bound: the counter stops here
  MaxLogFaults,  \* Bound: restarts of the gateway and failed writes of events.jsonl
  Readers     \* clients of the SSE stream

ASSUME SizesAssumption ==
  /\ MaxEvents \in Nat \ {0} /\ PageLimit \in Nat \ {0}
  /\ MaxSeq \in Nat /\ MaxLogFaults \in Nat

\* epoch tells apart events of two gateway processes that got the same seq; live events are
\* published on the bus, the others (session.state_changed) only appended to the buffer.
Event == [seq : Nat, epoch : Nat, live : BOOLEAN]

VARIABLES
  buffer,   \* eventBuffers
  counter,  \* seqCounters
  disk,     \* events.jsonl
  epoch,    \* restarts of the gateway so far (history)
  on,       \* the readers whose stream is open
  after,    \* the after_seq each reader opened its stream with
  got,      \* the events each reader has, over its reconnections
  logFaults \* faults left

logVars == <<buffer, counter, disk, epoch, on, after, got, logFaults>>

-----------------------------------------------------------------------------

\* while (buf.length > maxEvents) buf.shift(), and events.slice(-maxEvents)
Newest(S, n) == {e \in S : Cardinality({f \in S : f.seq > e.seq}) < n}
\* slice(0, limit)
First(S, n)  == {e \in S : Cardinality({f \in S : f.seq < e.seq}) < n}

Seqs(S) == {e.seq : e \in S}
Top(S) == IF S = {} THEN 0 ELSE CHOOSE n \in Seqs(S) : \A m \in Seqs(S) : m <= n
Behind(S, a) == {e \in S : e.seq > a}
Before(S, E) == {e \in S : \A f \in E : e.seq < f.seq}

\* Mutant: an event lost when it is the one right after the reader's position.
FollowsOffByOne(e, a) == e.seq > a + 1
\* The subscriber's test, and the filter of getEventsSince.
Follows(e, a) == e.seq > a
Since(a) == {e \in buffer : Follows(e, a)}

\* GET /events?after_seq=a: the buffer, and the file for what the buffer has dropped.
\* Mutant: the file is read only from the beginning.
PageOfBuffer(a) ==
  LET events == First(Since(a), PageLimit)
  IN IF events = {} /\ a = 0 THEN First(disk, PageLimit) ELSE events
Page(a) ==
  LET events == First(Since(a), PageLimit)
      gap    == Before(Behind(disk, a), events)
  IN IF events = {} /\ a = 0 THEN First(disk, PageLimit)
     ELSE IF events # {} /\ a + 1 \notin Seqs(events) THEN First(gap \cup events, PageLimit)
     ELSE events

\* getAllEvents, from which GET /rounds lists the prompts of the conversation.
AllEvents ==
  IF buffer = {} THEN disk
  ELSE IF 1 \notin Seqs(buffer) THEN Before(disk, buffer) \cup buffer
  ELSE buffer

-----------------------------------------------------------------------------

\* appendEvent; a live event is then saved, unless the write fails, and handed to the
\* subscribers by EventBus.publish.
Append(live, saved) ==
  LET e == [seq |-> counter + 1, epoch |-> epoch, live |-> live]
      receives(r) == live /\ r \in on /\ Follows(e, after[r])
  IN /\ counter < MaxSeq
     /\ counter' = counter + 1
     /\ buffer' = Newest(buffer \cup {e}, MaxEvents)
     /\ disk' = IF saved THEN disk \cup {e} ELSE disk
     /\ got'  = [r \in Readers |-> IF receives(r) THEN got[r] \cup {e} ELSE got[r]]
     /\ UNCHANGED <<epoch, on, after>>

Fault == logFaults > 0 /\ logFaults' = logFaults - 1

Publish ==
  \/ Append(TRUE, TRUE) /\ UNCHANGED logFaults
  \/ Append(TRUE, FALSE) /\ Fault   \* the write of events.jsonl failed, and was caught

\* setStatus appends its event without publishing it.
AppendStatus == Append(FALSE, FALSE) /\ UNCHANGED logFaults

\* GET /events/stream: replay from the buffer, then subscribe.
Open(r, a) ==
  /\ r \notin on
  /\ on' = on \cup {r}
  /\ after' = [after EXCEPT ![r] = a]
  /\ UNCHANGED <<buffer, counter, disk, epoch, logFaults>>

\* A page load starts from nothing; a reader that comes back sends the id it saw last.
Connect(r)   == Open(r, 0) /\ got' = [got EXCEPT ![r] = Since(0)]
Reconnect(r) ==
  /\ got[r] # {}
  /\ Open(r, Top(got[r]))
  /\ got' = [got EXCEPT ![r] = @ \cup Since(Top(@))]

Disconnect(r) ==
  /\ r \in on
  /\ on' = on \ {r}
  /\ UNCHANGED <<buffer, counter, disk, epoch, after, got, logFaults>>

\* Mutant: the counter restored from the index of the last event instead of its seq.
RestoredCounterByIndex == Cardinality(disk) - 1
RestoredCounter == Top(disk)

\* A new gateway process: restoreSession replays events.jsonl.
RestoreLog ==
  /\ Fault
  /\ buffer' = Newest(disk, MaxEvents)
  /\ counter' = RestoredCounter
  /\ epoch' = epoch + 1
  /\ on' = {}
  /\ UNCHANGED <<disk, after, got>>

LogInit ==
  /\ buffer = {} /\ counter = 0 /\ disk = {} /\ epoch = 0
  /\ on = {} /\ after = [r \in Readers |-> 0] /\ got = [r \in Readers |-> {}]
  /\ logFaults = MaxLogFaults

LogNext ==
  \/ Publish \/ AppendStatus \/ RestoreLog
  \/ \E r \in Readers : Connect(r) \/ Reconnect(r) \/ Disconnect(r)

LogSpec == LogInit /\ [][LogNext]_logVars

-----------------------------------------------------------------------------
(* Properties.                                                             *)

LogTypeOK ==
  /\ buffer \subseteq Event /\ disk \subseteq Event
  /\ counter \in Nat /\ epoch \in Nat /\ logFaults \in 0 .. MaxLogFaults
  /\ on \subseteq Readers
  /\ after \in [Readers -> Nat] /\ got \in [Readers -> SUBSET Event]

\* An event's id identifies it among all that can still be read, and the next event will get
\* a larger one, over restarts that lose the unpublished events and over failed writes.
SeqsUnique ==
  /\ \A e \in buffer \cup disk : e.seq <= counter
  /\ \A e, f \in buffer \cup disk : e.seq = f.seq => e = f

\* An open stream has handed over every published event of the buffer behind its after_seq:
\* nothing falls between the replay and the subscription.
StreamComplete ==
  \A r \in on : \A e \in buffer : e.live /\ e.seq > after[r] => e \in got[r]

\* A reader gets events in the order of seq and none twice, on a stream and when it comes back
\* (after is 0 on a page load): its last id stands for all it has.
DeliveredInOrder ==
  [][\A r \in on' : r \in on \/ after'[r] # 0 =>
       /\ got[r] \subseteq got'[r]
       /\ \A e \in got'[r] \ got[r], f \in got[r] : f.seq < e.seq]_logVars

\* Paging with next_after_seq skips and repeats nothing that is still in the buffer or in the
\* file: a page is the first PageLimit of those behind its after_seq, and GET /rounds sees all.
PagingComplete ==
  /\ \A a \in 0 .. counter : Page(a) = First(Behind(buffer \cup disk, a), PageLimit)
  /\ AllEvents = buffer \cup disk

\* "Last-Event-ID header skips already-seen events": what a returning reader is refused of
\* the published events are those it has.
SkipsOnlySeen ==
  [][\A r \in on' \ on : \A e \in buffer : e.live /\ e.seq <= after'[r] => e \in got'[r]]_logVars
=============================================================================
