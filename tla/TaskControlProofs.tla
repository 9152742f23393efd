-------------------------- MODULE TaskControlProofs --------------------------
(***************************************************************************)
(* The safety properties of TaskControl hold for any number of tasks,      *)
(* requests, handlers, reconcilers, loops and faults, and any history.     *)
(***************************************************************************)
EXTENDS TaskControl, TLAPS

USE DEF Task

-----------------------------------------------------------------------------
(* Sequences of calls.  S is a set of calls: "every call of an actor is in *)
(* S" is todo \in [Actor -> Seq(S)].                                       *)

LEMMA ShortSeqs ==
  ASSUME NEW S
  PROVE  /\ << >> \in Seq(S)
         /\ \A x \in S : <<x>> \in Seq(S)
         /\ \A x, y \in S : <<x, y>> \in Seq(S)
         /\ \A s, u \in Seq(S) : s \o u \in Seq(S)
OBVIOUS

LEMMA HeadTail ==
  ASSUME NEW S, NEW s \in Seq(S), s # << >>
  PROVE  Head(s) \in S /\ Tail(s) \in Seq(S)
OBVIOUS

\* An actor that has executed its first call still has calls of S only.
LEMMA ContinueIn ==
  ASSUME NEW S, todo \in [Actor -> Seq(S)], NEW a \in Actor, todo[a] # << >>,
         NEW calls \in Seq(S), Continue(a, calls)
  PROVE  todo' \in [Actor -> Seq(S)]
<1>1. calls \o Tail(todo[a]) \in Seq(S)
  BY HeadTail, ShortSeqs
<1> QED BY <1>1 DEF Continue

LEMMA StartIn ==
  ASSUME NEW S, todo \in [Actor -> Seq(S)], NEW a \in Actor,
         NEW calls \in Seq(S), Start(a, calls)
  PROVE  todo' \in [Actor -> Seq(S)]
BY DEF Start

LEMMA SeqMonotone ==
  ASSUME NEW S, NEW T, S \subseteq T, NEW f \in [Actor -> Seq(S)]
  PROVE  f \in [Actor -> Seq(T)]
OBVIOUS

LEMMA AppendedOrOld ==
  ASSUME NEW S, NEW s \in Seq(S), s # << >>, NEW calls \in Seq(S),
         NEW i \in DOMAIN (calls \o Tail(s))
  PROVE  \/ \E j \in DOMAIN calls : (calls \o Tail(s))[i] = calls[j]
         \/ \E j \in DOMAIN s : (calls \o Tail(s))[i] = s[j]
<1>1. CASE i \in DOMAIN calls
  BY <1>1, HeadTail
<1>2. CASE i \notin DOMAIN calls
  <2>1. Tail(s) \in Seq(S) /\ Len(Tail(s)) = Len(s) - 1
    OBVIOUS
  <2>2. /\ i \in 1 .. Len(calls) + Len(Tail(s)) /\ i > Len(calls)
        /\ (calls \o Tail(s))[i] = Tail(s)[i - Len(calls)]
    BY <1>2, <2>1
  <2>3. Tail(s)[i - Len(calls)] = s[i - Len(calls) + 1]
    BY <2>1, <2>2
  <2>4. i - Len(calls) + 1 \in DOMAIN s
    BY <2>1, <2>2
  <2> QED BY <2>2, <2>3, <2>4
<1> QED BY <1>1, <1>2

-----------------------------------------------------------------------------
(* The inductive invariant.  A property of the rows alone is not inductive: *)
(* what an actor writes was decided when it read the row, some steps ago.   *)
(* GoodCalls says what is still true of such a call when it is executed.    *)

RowCalls == {"updateStatus", "set", "decide", "output", "send", "resend", "reopenSet",
             "getState", "resume"}

GoodCalls ==
  {c \in CallType :
     /\ c.call \in RowCalls => c.task \in 1 .. created
     /\ c.call \in {"send", "resend", "getState", "resume"} => status[c.task] # "pending"
     /\ c.call \in {"updateStatus", "set"} =>
          /\ c.val \in TaskStatus \ {"pending"}
          /\ c.val \in TerminalStatuses => c.end = "now"
          /\ c.val = "completed" => mode[c.task] = "auto"
     /\ c.call \in {"insertRunning", "insertPending"} => c.val \in Mode
     /\ c.call = "getState" => c.val \in TaskStatus
     /\ c.call = "decide" => c.val \in Decision}

RowsOK  == \A t \in Task : status[t] = "none" <=> t > created
CallsOK == todo \in [Actor -> Seq(GoodCalls)]
SentOK  == \A t \in sent : status[t] \notin {"pending", "none"}

IInv == TypeOK /\ RowsOK /\ CallsOK /\ SentOK /\ TerminalHasEnd /\ OnePromoter

\* What a step does to the rows: it inserts at the end, never requeues a task and never
\* changes a completion_mode.
Evolves ==
  /\ created' \in Nat /\ created' >= created
  /\ \A t \in 1 .. created :
       /\ mode'[t] = mode[t]
       /\ status'[t] = "pending" => status[t] = "pending"

\* So a good call stays good.
LEMMA GoodCallsGrow ==
  ASSUME TypeOK, Evolves
  PROVE  GoodCalls \subseteq GoodCalls'
<1>1. created \in Nat
  BY BoundsAssumption DEF TypeOK
<1> SUFFICES ASSUME NEW c \in GoodCalls PROVE c \in GoodCalls'
  OBVIOUS
<1>2. c \in CallType'
  BY DEF GoodCalls, CallType
<1>3. c.call \in RowCalls => c.task \in 1 .. created /\ c.task \in 1 .. created'
  BY <1>1 DEF GoodCalls, Evolves
<1>4. c.call \in {"send", "resend", "getState", "resume"} => status'[c.task] # "pending"
  BY <1>3 DEF GoodCalls, Evolves, RowCalls
<1>5. c.call \in {"updateStatus", "set"} /\ c.val = "completed" => mode'[c.task] = "auto"
  BY <1>3 DEF GoodCalls, Evolves, RowCalls
<1> QED BY <1>2, <1>3, <1>4, <1>5 DEF GoodCalls

LEMMA GoodCallsTyped == GoodCalls \subseteq CallType
BY DEF GoodCalls

\* The actors after one of them executed its call, or started.
LEMMA CallsAfter ==
  ASSUME IInv, Evolves, NEW a \in Actor, NEW calls \in Seq(GoodCalls'),
         \/ todo[a] # << >> /\ Continue(a, calls)
         \/ Start(a, calls)
  PROVE  CallsOK'
<1>1. GoodCalls \subseteq GoodCalls'
  BY GoodCallsGrow DEF IInv
<1>2. todo \in [Actor -> Seq(GoodCalls')]
  BY <1>1, SeqMonotone DEF IInv, CallsOK
<1>3. todo' \in [Actor -> Seq(GoodCalls')]
  BY <1>2, ContinueIn, StartIn
<1>4. QED BY <1>3 DEF CallsOK, Actor

\* A call that sends and was not there before is one of those just added.
LEMMA PromotersAfter ==
  ASSUME NEW a \in Actor, NEW calls \in Seq(CallType), todo \in [Actor -> Seq(CallType)],
         \/ todo[a] # << >> /\ Continue(a, calls)
         \/ Start(a, calls),
         NEW t \in Task, NEW b \in Promoters(t)'
  PROVE  b \in Promoters(t) \/ (b = a /\ \E j \in DOMAIN calls : Sends(calls[j], t))
<1>1. PICK i \in DOMAIN todo'[b] : Sends(todo'[b][i], t)
  BY DEF Promoters
<1>2. b \in Actor
  BY DEF Promoters
<1>3. CASE b # a
  <2>1. todo'[b] = todo[b]
    BY <1>2, <1>3 DEF Continue, Start
  <2> QED BY <1>1, <1>2, <2>1 DEF Promoters
<1>4. CASE b = a /\ todo[a] # << >> /\ Continue(a, calls)
  <2>1. todo'[a] = calls \o Tail(todo[a])
    BY <1>4 DEF Continue
  <2>2. \/ \E j \in DOMAIN calls : todo'[a][i] = calls[j]
        \/ \E j \in DOMAIN todo[a] : todo'[a][i] = todo[a][j]
    BY <1>1, <1>4, <2>1, AppendedOrOld
  <2> QED BY <1>1, <1>2, <1>4, <2>2 DEF Promoters
<1>5. CASE b = a /\ Start(a, calls)
  <2>1. todo'[a] = calls
    BY <1>5 DEF Start
  <2> QED BY <1>1, <1>5, <2>1
<1> QED BY <1>3, <1>4, <1>5

-----------------------------------------------------------------------------
(* One step, in two halves: what it does to the rows, and the calls it     *)
(* leaves to its actor.                                                    *)

RowTypes ==
  /\ status \in [Task -> TaskStatus \cup {"none"}]
  /\ mode \in [Task -> Mode]
  /\ ended \in [Task -> BOOLEAN]
  /\ decision \in [Task -> Decision \cup {"none"}]
  /\ approval \in [Task -> BOOLEAN]
  /\ created \in Task
GatewayTypes ==
  /\ gwStatus \in GatewayStatus
  /\ accepted \in Nat /\ live \in Nat
  /\ sent \in SUBSET Task
  /\ faults \in 0 .. MaxFaults
Rows == RowTypes /\ RowsOK /\ TerminalHasEnd

LEMMA TypeParts == TypeOK <=> RowTypes /\ GatewayTypes /\ todo \in [Actor -> Seq(CallType)]
BY DEF TypeOK, RowTypes, GatewayTypes

LEMMA RowsUnchanged ==
  ASSUME IInv, UNCHANGED taskVars
  PROVE  Rows' /\ Evolves
BY BoundsAssumption
   DEF IInv, TypeOK, taskVars, rowVars, Rows, RowTypes, RowsOK, TerminalHasEnd, Evolves

LEMMA RowsWritten ==
  ASSUME IInv, NEW t \in 1 .. created, NEW s \in TaskStatus \ {"pending"}, NEW e,
         s \in TerminalStatuses => e = "now",
         Write(t, s, e), UNCHANGED rowVars
  PROVE  Rows' /\ Evolves
<1>1. created \in Nat /\ t \in Task /\ UNCHANGED <<mode, decision, approval, created>>
  BY BoundsAssumption DEF IInv, TypeOK, rowVars
<1>2. status' = [status EXCEPT ![t] = s] /\ s # "none"
  BY DEF Write, TaskStatus
<1>3. ended' = [ended EXCEPT ![t] = IF e = "keep" THEN ended[t] ELSE e = "now"]
  BY DEF Write
<1>4. RowTypes'
  BY <1>1, <1>2, <1>3 DEF IInv, TypeOK, RowTypes
<1>5. RowsOK'
  BY <1>1, <1>2 DEF IInv, TypeOK, RowsOK
<1>6. TerminalHasEnd'
  BY <1>1, <1>2, <1>3 DEF IInv, TypeOK, TerminalHasEnd
<1>7. Evolves
  BY <1>1, <1>2 DEF IInv, TypeOK, Evolves
<1> QED BY <1>4, <1>5, <1>6, <1>7 DEF Rows

\* A step of an actor: its calls are good in the new state, it goes on to send only prompts
\* that nobody else was about to send, and marks as sent only prompts that left the queue.
LEMMA ActorStep ==
  ASSUME IInv, Rows', Evolves, GatewayTypes',
         NEW a \in Actor, NEW calls \in Seq(GoodCalls'),
         \/ todo[a] # << >> /\ Continue(a, calls)
         \/ Start(a, calls),
         \A t \in sent' \ sent : status'[t] \notin {"pending", "none"},
         \A t \in Task : (\E j \in DOMAIN calls : Sends(calls[j], t))
                          => Promoters(t) \subseteq {a}
  PROVE  IInv'
<1>1. CallsOK'
  BY CallsAfter
<1>2. GoodCalls' \subseteq CallType
  BY DEF GoodCalls
<1>3. todo' \in [Actor -> Seq(CallType)]
  BY <1>1, <1>2 DEF CallsOK
<1>4. SentOK'
  <2> SUFFICES ASSUME NEW t \in sent' PROVE status'[t] \notin {"pending", "none"}
    BY DEF SentOK
  <2>1. CASE t \in sent
    <3>1. t \in Task /\ t \in 1 .. created /\ status[t] # "pending"
      BY <2>1, BoundsAssumption DEF IInv, TypeOK, SentOK, RowsOK
    <3>2. status'[t] # "pending"
      BY <3>1 DEF Evolves
    <3>3. t <= created'
      BY <3>1, BoundsAssumption DEF Evolves, IInv, TypeOK
    <3>4. created' \in Nat /\ ~(t > created')
      BY <3>1, <3>3 DEF Evolves
    <3> QED BY <3>1, <3>2, <3>4 DEF Rows, RowsOK
  <2>2. CASE t \notin sent
    BY <2>2
  <2> QED BY <2>1, <2>2
<1>5. OnePromoter'
  <2> SUFFICES ASSUME NEW t \in Task, NEW b \in Promoters(t)', NEW c \in Promoters(t)'
               PROVE  b = c
    BY DEF OnePromoter
  <2>1. todo \in [Actor -> Seq(CallType)] /\ calls \in Seq(CallType)
    BY <1>2 DEF IInv, TypeOK
  <2>2. b \in Promoters(t) \/ (b = a /\ \E j \in DOMAIN calls : Sends(calls[j], t))
    BY <2>1, PromotersAfter
  <2>3. c \in Promoters(t) \/ (c = a /\ \E j \in DOMAIN calls : Sends(calls[j], t))
    BY <2>1, PromotersAfter
  <2> QED BY <2>2, <2>3 DEF IInv, OnePromoter
<1> QED BY <1>1, <1>3, <1>4, <1>5, TypeParts DEF IInv, Rows, TypeOK, RowTypes, GatewayTypes

\* The usual case: the new calls were good before the step, and send nothing.
NoSend(calls) == \A j \in DOMAIN calls : calls[j].call \notin {"send", "resend"}

LEMMA SilentStep ==
  ASSUME IInv, Rows', Evolves, GatewayTypes',
         NEW a \in Actor, NEW calls \in Seq(GoodCalls), NoSend(calls),
         \/ todo[a] # << >> /\ Continue(a, calls)
         \/ Start(a, calls),
         \A t \in sent' \ sent : status'[t] \notin {"pending", "none"}
  PROVE  IInv'
<1>1. calls \in Seq(GoodCalls')
  BY GoodCallsGrow DEF IInv
<1>2. ~ \E t \in Task, j \in DOMAIN calls : Sends(calls[j], t)
  BY DEF NoSend, Sends
<1> QED BY <1>1, <1>2, ActorStep

-----------------------------------------------------------------------------
(* The calls computed from what an actor has read are good, and only a     *)
(* promotion or an insertion sends.                                        *)

Silent(calls) == calls \in Seq(GoodCalls) /\ NoSend(calls)

LEMMA SilentSeqs ==
  /\ Silent(<< >>)
  /\ \A c \in GoodCalls : c.call \notin {"send", "resend"} => Silent(<<c>>)
  /\ \A c, d \in GoodCalls :
       c.call \notin {"send", "resend"} /\ d.call \notin {"send", "resend"} => Silent(<<c, d>>)
BY DEF Silent, NoSend

LEMMA SilentConcat ==
  ASSUME NEW s, NEW u, Silent(s), Silent(u)
  PROVE  Silent(s \o u)
BY DEF Silent, NoSend

\* The calls about a row t that exists.
LEMMA RowCall ==
  ASSUME IInv, NEW t \in 1 .. created
  PROVE  t \in 0 .. MaxTasks
BY BoundsAssumption DEF IInv, TypeOK

LEMMA StatusCall ==
  ASSUME IInv, NEW t \in 1 .. created,
         NEW s \in TaskStatus \ {"pending"}, NEW e \in {"keep", "clear", "now"},
         s \in TerminalStatuses => e = "now",
         s = "completed" => mode[t] = "auto"
  PROVE  /\ SetStatus(t, s, e) \in GoodCalls /\ SetStatus(t, s, e).call = "set"
         /\ UpdateStatus(t, s, e) \in GoodCalls /\ UpdateStatus(t, s, e).call = "updateStatus"
         /\ Silent(<<SetStatus(t, s, e)>>) /\ Silent(<<UpdateStatus(t, s, e)>>)
<1>1. t \in 0 .. MaxTasks
  BY RowCall
<1>2. /\ SetStatus(t, s, e) \in GoodCalls /\ SetStatus(t, s, e).call = "set"
      /\ UpdateStatus(t, s, e) \in GoodCalls /\ UpdateStatus(t, s, e).call = "updateStatus"
  BY <1>1 DEF SetStatus, UpdateStatus, Call, GoodCalls, CallType
<1> QED BY <1>2, SilentSeqs

LEMMA OtherCalls ==
  ASSUME IInv
  PROVE  /\ Promote \in GoodCalls /\ Promote.call = "promote"
         /\ PassB \in GoodCalls /\ PassB.call = "passB"
         /\ Chat \in GoodCalls /\ Chat.call = "chat"
         /\ ContinueSession \in GoodCalls /\ ContinueSession.call = "continue"
BY BoundsAssumption DEF Promote, PassB, Chat, ContinueSession, Call, GoodCalls, CallType, RowCalls

LEMMA GuardedWriteSilent ==
  ASSUME IInv, NEW c \in GoodCalls, c.call = "updateStatus", NEW current
  PROVE  Silent(GuardedWrite(current, c))
<1>1. /\ c.task \in 1 .. created /\ c.val \in TaskStatus \ {"pending"}
      /\ c.end \in {"keep", "clear", "now"}
      /\ c.val \in TerminalStatuses => c.end = "now"
      /\ c.val = "completed" => mode[c.task] = "auto"
  BY DEF GoodCalls, RowCalls, CallType
<1>2. Silent(<<SetStatus(c.task, c.val, c.end)>>)
  BY <1>1, StatusCall
<1>3. CASE c.val \in {"running", "waiting_input"}
  <2>1. c.val \in TaskStatus \ {"pending"} /\ c.val \notin TerminalStatuses
        /\ c.val # "completed"
    BY <1>3 DEF TaskStatus, TerminalStatuses
  <2>2. Silent(<<SetStatus(c.task, c.val, "clear")>>)
    BY <1>1, <2>1, StatusCall
  <2> QED BY <1>2, <2>2, SilentSeqs DEF GuardedWrite
<1> QED BY <1>2, <1>3 DEF GuardedWrite

LEMMA SyncTerminalSilent ==
  ASSUME IInv, NEW t \in 1 .. created, status[t] # "pending",
         NEW listed \in TaskStatus, NEW full,
         NEW gw \in {"completed", "error", "interrupted"}
  PROVE  Silent(SyncTerminal(t, listed, mode[t], gw, full))
<1>1. mode[t] \in {"auto", "manual"}
  BY BoundsAssumption DEF IInv, TypeOK, Mode
<1>2. Silent(<<SetStatus(t, "waiting_input", "clear")>>)
  BY StatusCall DEF TaskStatus, TerminalStatuses
<1>3. Silent(<<SetStatus(t, "interrupted", "now")>>) /\ Silent(<<SetStatus(t, "error", "now")>>)
  BY StatusCall DEF TaskStatus
<1>4. mode[t] = "auto" => Silent(<<SetStatus(t, "completed", "now")>>)
  BY StatusCall DEF TaskStatus
<1>5. Silent(<<Call("resume", t, listed, "keep")>>)
  <2>1. Call("resume", t, listed, "keep") \in GoodCalls
    BY RowCall DEF Call, GoodCalls, CallType
  <2> QED BY <2>1, SilentSeqs DEF Call
<1> QED BY <1>1, <1>2, <1>3, <1>4, <1>5, SilentSeqs DEF SyncTerminal

LEMMA SyncSilent ==
  ASSUME IInv, NEW t \in 1 .. created, status[t] # "pending",
         NEW listed \in TaskStatus, NEW full, NEW stale
  PROVE  Silent(Sync(t, listed, mode[t], gwStatus, full, stale))
<1>0. Silent(<<SetStatus(t, "error", "now")>>)
  BY StatusCall DEF TaskStatus
<1>1. CASE gwStatus \in ActiveStatuses
  <2>1. Recovered(gwStatus) \in {"running", "waiting_input", "pending_approval"}
    BY <1>1 DEF ActiveStatuses, Recovered
  <2>2. /\ Silent(<<SetStatus(t, Recovered(gwStatus), "clear")>>)
        /\ Silent(<<SetStatus(t, Recovered(gwStatus), "keep")>>)
    BY <2>1, StatusCall DEF TaskStatus, TerminalStatuses
  <2> QED BY <1>0, <1>1, <2>2, SilentSeqs DEF Sync
<1>2. CASE gwStatus \notin ActiveStatuses
  BY <1>0, <1>2, SyncTerminalSilent, SilentSeqs DEF Sync
<1> QED BY <1>1, <1>2

LEMMA EventCallsSilent ==
  ASSUME IInv, NEW e \in Event
  PROVE  Silent(EventCalls(e, created))
<1> DEFINE t == created
<1>1. t \in 1 .. created /\ t \in Task
  BY BoundsAssumption DEF IInv, TypeOK
<1>2. Silent(<<UpdateStatus(t, "running", "clear")>>)
      /\ Silent(<<UpdateStatus(t, "waiting_input", "clear")>>)
      /\ Silent(<<UpdateStatus(t, "pending_approval", "clear")>>)
  BY <1>1, StatusCall DEF TaskStatus, TerminalStatuses
<1>3. \A from : Silent(RunningAgain(t, from))
  BY <1>2, SilentSeqs DEF RunningAgain
<1>4. \A d \in Decision \cup {"none"} : \A asked : Silent(Decide(t, d, asked))
  <2>1. \A d \in Decision : Call("decide", t, d, "keep") \in GoodCalls
    BY <1>1, RowCall DEF Call, GoodCalls, CallType
  <2>2. \A d \in Decision : Silent(<<Call("decide", t, d, "keep")>>)
    BY <2>1, SilentSeqs DEF Call
  <2> QED BY <2>2, SilentSeqs DEF Decide
<1>5. Silent(FailTask(t))
  <2>1. UpdateStatus(t, "error", "now") \in GoodCalls
        /\ UpdateStatus(t, "error", "now").call = "updateStatus"
    BY <1>1, StatusCall DEF TaskStatus
  <2> QED BY <2>1, OtherCalls, SilentSeqs DEF FailTask
<1>6. Silent(CompletedCalls(t))
  <2>1. mode[t] = "auto" => /\ UpdateStatus(t, "completed", "now") \in GoodCalls
                            /\ UpdateStatus(t, "completed", "now").call = "updateStatus"
    BY <1>1, StatusCall DEF TaskStatus
  <2> QED BY <1>2, <2>1, OtherCalls, SilentSeqs DEF CompletedCalls
<1>7. \A kind : Silent(ErrorCalls(t, kind))
  BY <1>2, <1>5, SilentSeqs DEF ErrorCalls
<1>8. Silent(<<UpdateStatus(t, "interrupted", "now"), Promote>>)
  <2>1. UpdateStatus(t, "interrupted", "now") \in GoodCalls
        /\ UpdateStatus(t, "interrupted", "now").call = "updateStatus"
    BY <1>1, StatusCall DEF TaskStatus
  <2> QED BY <2>1, OtherCalls, SilentSeqs
<1>9. \A v \in {"none", "marker"} : Silent(<<Call("output", t, v, "keep")>>)
  <2>1. \A v \in {"none", "marker"} : Call("output", t, v, "keep") \in GoodCalls
    BY <1>1, RowCall DEF Call, GoodCalls, CallType
  <2> QED BY <2>1, SilentSeqs DEF Call
<1>10. CASE e.type = "session.started" \/ e.type = "session.error"
            \/ e.type = "session.completed" \/ e.type = "session.interrupted"
  BY <1>3, <1>6, <1>7, <1>8, <1>10 DEF EventCalls
<1>11. CASE e.type = "session.waiting_input"
  BY <1>2, <1>11 DEF EventCalls
<1>12. CASE e.type = "session.state_changed"
  <2>1. Silent(Decide(t, "overridden", status[t] = "completed" /\ mode[t] = "auto"))
    BY <1>4 DEF Decision
  <2> QED BY <1>3, <1>12, <2>1, SilentConcat DEF EventCalls
<1>13. CASE e.type = "message.user"
  <2>1. Silent(Decide(t, e.val, TRUE))
    BY <1>4, <1>13 DEF Event
  <2> QED BY <1>3, <1>13, <2>1, SilentConcat DEF EventCalls
<1>14. CASE e.type = "message.agent"
  <2>1. Silent(<<Call("output", t, e.val, "keep")>>)
    BY <1>9, <1>14 DEF Event
  <2> QED BY <1>3, <1>14, <2>1, SilentConcat DEF EventCalls
<1> QED BY <1>10, <1>11, <1>12, <1>13, <1>14 DEF Event

-----------------------------------------------------------------------------
(* The steps of Next, one lemma for each group of actions that disturb the *)
(* same conjuncts.                                                         *)

LEMMA GatewayUnchanged ==
  ASSUME IInv, UNCHANGED gwVars, UNCHANGED faults \/ Fault
  PROVE  GatewayTypes' /\ sent' = sent
BY BoundsAssumption DEF IInv, TypeOK, gwVars, Fault, GatewayTypes

\* The call an actor is about to make.
LEMMA FirstCall ==
  ASSUME IInv, NEW a \in Actor, NEW c, IsNext(a, c)
  PROVE  /\ todo[a] \in Seq(GoodCalls) /\ todo[a] # << >>
         /\ Head(todo[a]) \in GoodCalls /\ Head(todo[a]).call = c
BY HeadTail DEF IInv, CallsOK, IsNext

LEMMA InsertStep ==
  ASSUME IInv, NEW a \in Actor,
         NEW c \in {"insertRunning", "insertPending"}, NEW s \in {"running", "pending"},
         Insert(a, c, s)
  PROVE  IInv' /\ Evolves
<1>1. GatewayTypes' /\ sent' = sent
  BY GatewayUnchanged DEF Insert, NoFault
<1>2. /\ todo[a] # << >> /\ Head(todo[a]) \in GoodCalls /\ Head(todo[a]).call = c
  BY FirstCall DEF Insert
<1>3. CASE created = MaxTasks
  <2>1. Rows' /\ Evolves
    BY <1>3, RowsUnchanged DEF Insert
  <2> QED BY <1>1, <1>2, <1>3, <2>1, SilentSeqs, SilentStep DEF Insert, Silent
<1>4. CASE created # MaxTasks
  <2> DEFINE t == created + 1
  <2>1. /\ created' = t /\ Write(t, s, "clear")
        /\ mode' = [mode EXCEPT ![t] = Head(todo[a]).val]
        /\ UNCHANGED <<decision, approval>>
        /\ Continue(a, << >>) \/ (s = "running" /\ Continue(a, <<Send(t)>>))
    BY <1>4 DEF Insert
  <2>2. t \in Task /\ created \in Nat /\ status[t] = "none" /\ t \notin 1 .. created
    BY <1>4, BoundsAssumption DEF IInv, TypeOK, RowsOK
  <2>3. Head(todo[a]).val \in Mode
    BY <1>2 DEF GoodCalls
  <2>4. /\ status' = [status EXCEPT ![t] = s]
        /\ ended' = [ended EXCEPT ![t] = FALSE]
    BY <2>1 DEF Write
  <2>5. RowTypes'
    BY <2>1, <2>2, <2>3, <2>4 DEF IInv, TypeOK, RowTypes, TaskStatus
  <2>6. RowsOK' /\ TerminalHasEnd'
    BY <2>1, <2>2, <2>4 DEF IInv, TypeOK, RowsOK, TerminalHasEnd, TerminalStatuses
  <2>7. Evolves
    BY <2>1, <2>2, <2>4 DEF IInv, TypeOK, Evolves
  <2>8. Promoters(t) = {}
    <3> SUFFICES ASSUME NEW b \in Actor, NEW i \in DOMAIN todo[b],
                        Sends(todo[b][i], t)
                 PROVE  FALSE
      BY DEF Promoters
    <3>1. todo[b][i] \in GoodCalls
      BY DEF IInv, CallsOK
    <3> QED BY <2>2, <3>1 DEF GoodCalls, Sends, RowCalls
  <2>9. s = "running" => Send(t) \in GoodCalls'
    BY <2>1, <2>2, <2>4 DEF GoodCalls, Send, Call, CallType, IInv, TypeOK, RowCalls
  <2>10. \A u \in Task : Sends(Send(t), u) => u = t
    BY DEF Sends, Send, Resend, Call
  <2>11. CASE Continue(a, << >>)
    BY <1>1, <1>2, <2>5, <2>6, <2>7, <2>11, SilentSeqs, SilentStep DEF Rows, Silent
  <2>12. CASE s = "running" /\ Continue(a, <<Send(t)>>)
    <3>1. <<Send(t)>> \in Seq(GoodCalls')
      BY <2>9, <2>12
    <3>2. \A u \in Task : (\E j \in DOMAIN <<Send(t)>> : Sends(<<Send(t)>>[j], u))
                            => Promoters(u) \subseteq {a}
      BY <2>8, <2>10
    <3> QED BY <1>1, <1>2, <2>5, <2>6, <2>7, <2>12, <3>1, <3>2, ActorStep DEF Rows
  <2> QED BY <2>1, <2>7, <2>11, <2>12
<1> QED BY <1>3, <1>4

LEMMA PromoteStep ==
  ASSUME IInv, NEW a \in Actor, PromoteNextPending(a)
  PROVE  IInv' /\ Evolves
<1>1. GatewayTypes' /\ sent' = sent
  BY GatewayUnchanged DEF PromoteNextPending, NoFault
<1>2. todo[a] # << >>
  BY FirstCall DEF PromoteNextPending
<1>3. CASE Continue(a, << >>) /\ UNCHANGED <<status, ended>>
  <2>1. Rows' /\ Evolves
    BY <1>3, RowsUnchanged DEF PromoteNextPending, taskVars
  <2> QED BY <1>1, <1>2, <1>3, <2>1, SilentSeqs, SilentStep DEF Silent
<1>4. ASSUME NEW t \in Task, Oldest(t, Promotable), Write(t, "running", "keep"),
             Continue(a, <<Send(t)>>)
      PROVE  IInv' /\ Evolves
  <2>1. status[t] = "pending" /\ t \in 1 .. created
    BY <1>4, BoundsAssumption DEF Oldest, Promotable, WithStatus, IInv, TypeOK, RowsOK
  <2>2. Rows' /\ Evolves
    BY <1>4, <2>1, RowsWritten DEF PromoteNextPending, TaskStatus, TerminalStatuses
  <2>3. Promoters(t) = {}
    <3> SUFFICES ASSUME NEW b \in Actor, NEW i \in DOMAIN todo[b],
                        Sends(todo[b][i], t)
                 PROVE  FALSE
      BY DEF Promoters
    <3>1. todo[b][i] \in GoodCalls
      BY DEF IInv, CallsOK
    <3> QED BY <2>1, <3>1 DEF GoodCalls, Sends, RowCalls
  <2>4. status' = [status EXCEPT ![t] = "running"] /\ created' = created
    BY <1>4 DEF Write, PromoteNextPending, rowVars
  <2>5. Send(t) \in GoodCalls'
    BY <2>1, <2>4, BoundsAssumption DEF GoodCalls, Send, Call, CallType, IInv, TypeOK, RowCalls
  <2>6. \A u \in Task : (\E j \in DOMAIN <<Send(t)>> : Sends(<<Send(t)>>[j], u))
                          => Promoters(u) \subseteq {a}
    BY <2>3 DEF Sends, Send, Call
  <2>7. <<Send(t)>> \in Seq(GoodCalls')
    BY <2>5
  <2> QED BY <1>1, <1>2, <1>4, <2>2, <2>6, <2>7, ActorStep
<1> QED BY <1>3, <1>4 DEF PromoteNextPending

\* Calls that only read, and compute the calls that follow.
LEMMA ReadStep ==
  ASSUME IInv, NEW a \in Actor, ReadForUpdate(a) \/ Reopen(a) \/ PassBQuery(a)
  PROVE  IInv' /\ Evolves
<1>1. GatewayTypes' /\ sent' = sent
  BY GatewayUnchanged DEF ReadForUpdate, Reopen, PassBQuery, NoFault
<1>2. Rows' /\ Evolves
  BY RowsUnchanged DEF ReadForUpdate, Reopen, PassBQuery
<1> SUFFICES ASSUME NEW calls, Silent(calls), todo[a] # << >>, Continue(a, calls)
             PROVE  IInv'
  <2>1. CASE ReadForUpdate(a)
    BY <2>1, FirstCall, GuardedWriteSilent, <1>2 DEF ReadForUpdate
  <2>2. CASE Reopen(a)
    <3>1. created \in 1 .. created
      BY BoundsAssumption DEF IInv, TypeOK
    <3>2. Call("reopenSet", created, "none", "keep") \in GoodCalls
      BY <3>1, RowCall DEF Call, GoodCalls, CallType
    <3>3. Silent(<<Chat>>) /\ Silent(<<Call("reopenSet", created, "none", "keep"), Chat>>)
      BY <3>2, OtherCalls, SilentSeqs DEF Call
    <3> QED BY <2>2, <3>3, FirstCall, <1>2 DEF Reopen
  <2>3. CASE PassBQuery(a)
    BY <2>3, FirstCall, OtherCalls, SilentSeqs, <1>2 DEF PassBQuery
  <2> QED BY <2>1, <2>2, <2>3
<1> QED BY <1>1, <1>2, SilentStep DEF Silent

LEMMA WriteStep ==
  ASSUME IInv, NEW a \in Actor, WriteStatus(a) \/ ReopenWrite(a)
  PROVE  IInv' /\ Evolves
<1>1. GatewayTypes' /\ sent' = sent
  BY GatewayUnchanged DEF WriteStatus, ReopenWrite, NoFault
<1>2. Rows' /\ Evolves
  <2>1. CASE WriteStatus(a)
    <3> DEFINE c == Head(todo[a])
    <3>1. c \in GoodCalls /\ c.call = "set"
      BY <2>1, FirstCall DEF WriteStatus
    <3>2. /\ c.task \in 1 .. created /\ c.val \in TaskStatus \ {"pending"}
          /\ c.val \in TerminalStatuses => c.end = "now"
      BY <3>1 DEF GoodCalls, RowCalls
    <3> QED BY <2>1, <3>2, RowsWritten DEF WriteStatus
  <2>2. CASE ReopenWrite(a)
    <3> DEFINE t == Head(todo[a]).task
    <3>1. t \in 1 .. created
      BY <2>2, FirstCall DEF ReopenWrite, GoodCalls, RowCalls
    <3>2. CASE status[t] \in TerminalStatuses
      BY <2>2, <3>1, <3>2, RowsWritten DEF ReopenWrite, TaskStatus, TerminalStatuses
    <3>3. CASE status[t] \notin TerminalStatuses
      BY <2>2, <3>3, RowsUnchanged DEF ReopenWrite, taskVars
    <3> QED BY <3>2, <3>3
  <2> QED BY <2>1, <2>2
<1>3. todo[a] # << >> /\ Continue(a, << >>)
  BY FirstCall DEF WriteStatus, ReopenWrite
<1> QED BY <1>1, <1>2, <1>3, SilentSeqs, SilentStep DEF Silent

\* Calls on the other columns.
LEMMA ColumnStep ==
  ASSUME IInv, NEW a \in Actor, RecordDecision(a) \/ StoreOutput(a)
  PROVE  IInv' /\ Evolves
<1>1. GatewayTypes' /\ sent' = sent
  BY GatewayUnchanged DEF RecordDecision, StoreOutput, NoFault
<1>2. todo[a] # << >> /\ Continue(a, << >>)
  BY FirstCall DEF RecordDecision, StoreOutput
<1>3. UNCHANGED <<status, ended, mode, created>>
  BY DEF RecordDecision, StoreOutput
<1>4. RowTypes'
  <2>1. CASE RecordDecision(a)
    <3>1. Head(todo[a]).val \in Decision
      BY <2>1, FirstCall DEF RecordDecision, GoodCalls
    <3> QED BY <1>3, <2>1, <3>1 DEF RecordDecision, FirstWins, IInv, TypeOK, RowTypes
  <2>2. CASE StoreOutput(a)
    BY <1>3, <2>2 DEF StoreOutput, IInv, TypeOK, RowTypes
  <2> QED BY <2>1, <2>2
<1>5. RowsOK' /\ TerminalHasEnd' /\ Evolves
  BY <1>3, BoundsAssumption DEF IInv, TypeOK, RowsOK, TerminalHasEnd, Evolves
<1> QED BY <1>1, <1>2, <1>4, <1>5, SilentSeqs, SilentStep DEF Silent, Rows

LEMMA ListStep ==
  ASSUME IInv, NEW a \in Reconcilers, ListTask(a)
  PROVE  IInv' /\ Evolves
<1>1. GatewayTypes' /\ sent' = sent
  BY GatewayUnchanged DEF ListTask, NoFault
<1>2. Rows' /\ Evolves
  BY RowsUnchanged DEF ListTask
<1>3. a \in Actor
  BY DEF Actor
<1>4. CASE Start(a, <<PassB>>)
  BY <1>1, <1>2, <1>3, <1>4, OtherCalls, SilentSeqs, SilentStep DEF Silent
<1>5. ASSUME NEW t \in Task, Latest(t, Reconcilable),
             Start(a, <<Call("getState", t, status[t], "keep"), PassB>>)
      PROVE  IInv'
  <2>1. status[t] \in TaskStatus \ {"pending"} /\ t \in 1 .. created
    BY <1>5, BoundsAssumption
       DEF Latest, Reconcilable, WithStatus, TaskStatus, IInv, TypeOK, RowsOK
  <2>2. Call("getState", t, status[t], "keep") \in GoodCalls
    BY <2>1, RowCall DEF Call, GoodCalls, CallType
  <2>3. Silent(<<Call("getState", t, status[t], "keep"), PassB>>)
    BY <2>2, OtherCalls, SilentSeqs DEF Call
  <2> QED BY <1>1, <1>2, <1>3, <1>5, <2>3, SilentStep DEF Silent
<1> QED BY <1>2, <1>4, <1>5 DEF ListTask

\* The calls about a task that was listed, or whose prompt is being sent.
LEMMA ListedCall ==
  ASSUME IInv, NEW a \in Actor, NEW c \in {"getState", "send", "resend", "resume"}, IsNext(a, c)
  PROVE  /\ Head(todo[a]).task \in 1 .. created /\ Head(todo[a]).task \in Task
         /\ status[Head(todo[a]).task] \notin {"pending", "none"}
<1>1. Head(todo[a]).task \in 1 .. created /\ status[Head(todo[a]).task] # "pending"
  BY FirstCall DEF GoodCalls, RowCalls
<1> QED BY <1>1, BoundsAssumption DEF IInv, TypeOK, RowsOK

LEMMA GetStateStep ==
  ASSUME IInv, NEW a \in Actor, GetState(a)
  PROVE  IInv' /\ Evolves
<1> DEFINE t == Head(todo[a]).task
           listed == Head(todo[a]).val
<1>1. GatewayTypes' /\ sent' = sent
  BY GatewayUnchanged DEF GetState, NoFault
<1>2. Rows' /\ Evolves
  BY RowsUnchanged DEF GetState
<1>3. t \in 1 .. created /\ status[t] # "pending"
  BY ListedCall DEF GetState
<1>4. listed \in TaskStatus /\ todo[a] # << >>
  BY FirstCall DEF GetState, GoodCalls
<1>5. \A full, stale : Silent(Sync(t, listed, mode[t], gwStatus, full, stale))
  BY <1>3, <1>4, SyncSilent
<1>6. Silent(GatewayDown(t, listed))
  <2>1. Silent(<<SetStatus(t, "interrupted", "now")>>)
    BY <1>3, StatusCall DEF TaskStatus
  <2> QED BY <2>1, SilentSeqs DEF GatewayDown
<1>7. PICK calls : Silent(calls) /\ Continue(a, calls)
  BY <1>5, <1>6, SilentSeqs DEF GetState
<1> QED BY <1>1, <1>2, <1>4, <1>7, SilentStep DEF Silent

\* What the gateway's answer to a prompt does.
LEMMA PromptTypes ==
  ASSUME IInv, NEW from,
         (AcceptPrompt(from) /\ (NoFault \/ Fault)) \/ Refuse(from),
         sent' \in SUBSET Task
  PROVE  GatewayTypes'
<1>1. faults' \in 0 .. MaxFaults
  BY BoundsAssumption DEF IInv, TypeOK, AcceptPrompt, Refuse, Fault, NoFault
<1>2. gwStatus' = gwStatus /\ accepted' \in Nat /\ live' \in Nat
  BY DEF IInv, TypeOK, AcceptPrompt, Refuse
<1> QED BY <1>1, <1>2 DEF IInv, TypeOK, GatewayTypes

\* A prompt given to the gateway, when no call that follows sends.
LEMMA GiveStep ==
  ASSUME IInv, NEW a \in Actor, NEW c \in {"send", "resend", "resume"}, NEW from,
         NEW done, NEW failed, GivePrompt(a, c, from, done, failed), Silent(done), Silent(failed)
  PROVE  IInv' /\ Evolves
<1> DEFINE t == Head(todo[a]).task
<1>1. Rows' /\ Evolves
  BY RowsUnchanged DEF GivePrompt
<1>2. /\ t \in Task /\ status[t] \notin {"pending", "none"}
      /\ todo[a] # << >>
  BY ListedCall, FirstCall DEF GivePrompt
<1>3. PICK calls : Silent(calls) /\ Continue(a, calls)
  BY DEF GivePrompt
<1>4. status' = status /\ sent' \subseteq sent \cup {t}
  BY DEF GivePrompt, taskVars
<1>5. GatewayTypes'
  BY <1>2, <1>4, PromptTypes DEF GivePrompt, IInv, TypeOK
<1> QED BY <1>1, <1>2, <1>3, <1>4, <1>5, SilentStep DEF Silent

\* A sender whose sendMessage failed still is the only one.
LEMMA SendStep ==
  ASSUME IInv, NEW a \in Actor, SendPrompt(a)
  PROVE  IInv' /\ Evolves
<1> DEFINE t == Head(todo[a]).task
<1>1. Rows' /\ Evolves
  BY RowsUnchanged DEF SendPrompt, GivePrompt
<1>2. /\ t \in 1 .. created /\ t \in Task /\ status[t] \notin {"pending", "none"}
      /\ todo[a] # << >> /\ Head(todo[a]).call = "send" /\ todo[a] \in Seq(GoodCalls)
  BY ListedCall, FirstCall DEF SendPrompt, GivePrompt
<1>3. status' = status /\ sent' \subseteq sent \cup {t} /\ UNCHANGED created
  BY DEF SendPrompt, GivePrompt, taskVars, rowVars
<1>4. GatewayTypes'
  BY <1>2, <1>3, PromptTypes DEF SendPrompt, GivePrompt, IInv, TypeOK
<1>5. CASE Continue(a, << >>)
  BY <1>1, <1>2, <1>3, <1>4, <1>5, SilentSeqs, SilentStep DEF Silent
<1>6. CASE Continue(a, <<Resend(t)>>)
  <2>1. Resend(t) \in GoodCalls'
    BY <1>2, <1>3, RowCall DEF GoodCalls, Resend, Call, CallType, RowCalls
  <2>2. <<Resend(t)>> \in Seq(GoodCalls')
    BY <2>1
  <2>3. \A u \in Task : (\E j \in DOMAIN <<Resend(t)>> : Sends(<<Resend(t)>>[j], u))
                          => u = t
    BY DEF Sends, Send, Resend, Call
  <2>4. a \in Promoters(t)
    <3>1. todo[a][1] \in CallType /\ 1 \in DOMAIN todo[a] /\ Head(todo[a]) = todo[a][1]
      BY <1>2 DEF GoodCalls
    <3> QED BY <1>2, <3>1 DEF Promoters, Sends
  <2>5. Promoters(t) \subseteq {a}
    BY <1>2, <2>4 DEF IInv, OnePromoter
  <2> QED BY <1>1, <1>2, <1>3, <1>4, <1>6, <2>2, <2>3, <2>5, ActorStep
<1> QED BY <1>5, <1>6 DEF SendPrompt, GivePrompt

LEMMA ResendStep ==
  ASSUME IInv, NEW a \in Actor, ResendPrompt(a)
  PROVE  IInv' /\ Evolves
<1> DEFINE t == Head(todo[a]).task
<1>1. t \in 1 .. created
  BY ListedCall DEF ResendPrompt, GivePrompt
<1>2. Silent(AfterFailedSend(t)) /\ Silent(<< >>)
  BY <1>1, StatusCall, SilentSeqs DEF AfterFailedSend, TaskStatus
<1> QED BY <1>2, GiveStep DEF ResendPrompt

LEMMA ResumeStep ==
  ASSUME IInv, NEW a \in Actor, ResumePrompt(a)
  PROVE  IInv' /\ Evolves
<1> DEFINE t == Head(todo[a]).task
<1>1. t \in 1 .. created
  BY ListedCall DEF ResumePrompt, GivePrompt
<1>2. /\ Silent(<<SetStatus(t, "interrupted", "now")>>)
      /\ Silent(<<SetStatus(t, "running", "clear")>>)
      /\ Silent(<< >>)
  BY <1>1, StatusCall, SilentSeqs DEF TaskStatus, TerminalStatuses
<1> QED BY <1>2, GiveStep DEF ResumePrompt

LEMMA ChatStep ==
  ASSUME IInv, NEW a \in Actor, SendChat(a) \/ ContinueChat(a)
  PROVE  IInv' /\ Evolves
<1>1. Rows' /\ Evolves
  BY RowsUnchanged DEF SendChat, ContinueChat, GiveMessage
<1>2. GatewayTypes' /\ sent' = sent
  BY PromptTypes DEF SendChat, ContinueChat, GiveMessage, IInv, TypeOK
<1>3. Silent(<<ContinueSession>>) /\ Silent(<< >>)
  BY OtherCalls, SilentSeqs
<1>4. todo[a] # << >> /\ \E calls : Silent(calls) /\ Continue(a, calls)
  BY <1>3, FirstCall DEF SendChat, ContinueChat, GiveMessage
<1> QED BY <1>1, <1>2, <1>4, SilentStep DEF Silent

\* Requests and events start their actor's calls.
LEMMA StartStep ==
  ASSUME IInv,
         \/ \E h \in Handlers : ReceiveEvent(h)
         \/ \E r \in Requests : \/ SendMessage(r) \/ ResumeSession(r)
                                \/ \E m \in Mode : SubmitTask(r, m)
  PROVE  IInv' /\ Evolves
<1>1. Rows' /\ Evolves
  BY RowsUnchanged DEF ReceiveEvent, SendMessage, ResumeSession, SubmitTask
<1>2. GatewayTypes' /\ sent' = sent
  BY GatewayUnchanged DEF ReceiveEvent, SendMessage, ResumeSession, SubmitTask, NoFault
<1>3. \E a \in Actor : \E calls : Silent(calls) /\ Start(a, calls)
  <2>1. CASE \E h \in Handlers : ReceiveEvent(h)
    BY <2>1, EventCallsSilent, HistoryAssumption DEF ReceiveEvent, Actor
  <2>2. CASE \E r \in Requests : SendMessage(r)
    <3>1. Call("reopen", 0, "none", "keep") \in GoodCalls
      BY BoundsAssumption DEF Call, GoodCalls, CallType, RowCalls
    <3>2. Silent(<<Chat>>) /\ Silent(<<Call("reopen", 0, "none", "keep")>>)
      BY <3>1, OtherCalls, SilentSeqs DEF Call
    <3> QED BY <2>2, <3>2 DEF SendMessage, Actor
  <2>3. CASE \E r \in Requests, m \in Mode : SubmitTask(r, m)
    <3>1. \A m \in Mode : /\ Call("insertPending", 0, m, "keep") \in GoodCalls
                          /\ Call("insertRunning", 0, m, "keep") \in GoodCalls
      BY BoundsAssumption DEF Call, GoodCalls, CallType, RowCalls
    <3>2. \A m \in Mode : /\ Silent(<<Call("insertPending", 0, m, "keep")>>)
                          /\ Silent(<<Call("insertRunning", 0, m, "keep")>>)
      BY <3>1, SilentSeqs DEF Call
    <3> QED BY <2>3, <3>2 DEF SubmitTask, Actor
  <2>4. CASE \E r \in Requests : ResumeSession(r)
    BY <2>4, OtherCalls, SilentSeqs DEF ResumeSession, Actor
  <2> QED BY <2>1, <2>2, <2>3, <2>4
<1> QED BY <1>1, <1>2, <1>3, SilentStep DEF Silent

LEMMA OwnerStep ==
  ASSUME IInv, NEW t \in Task, CancelTask(t) \/ \E r \in Requests : CompleteTask(r, t)
  PROVE  IInv' /\ Evolves
<1>1. GatewayTypes' /\ sent' = sent
  BY GatewayUnchanged DEF CancelTask, CompleteTask, NoFault
<1>2. t \in 1 .. created
  BY BoundsAssumption DEF CancelTask, CompleteTask, IInv, TypeOK, RowsOK
<1>3. Rows' /\ Evolves
  BY <1>2, RowsWritten DEF CancelTask, CompleteTask, TaskStatus, TerminalStatuses
<1>4. CASE \E r \in Requests : CompleteTask(r, t)
  BY <1>1, <1>3, <1>4, OtherCalls, SilentSeqs, SilentStep DEF CompleteTask, Silent, Actor
<1>5. CASE CancelTask(t)
  <2>1. todo' = todo
    BY <1>5 DEF CancelTask
  <2>2. CallsOK' /\ todo' \in [Actor -> Seq(CallType)]
    <3>1. GoodCalls \subseteq GoodCalls'
      BY <1>3, GoodCallsGrow DEF IInv
    <3> QED BY <2>1, <3>1, SeqMonotone DEF IInv, CallsOK, TypeOK
  <2>3. OnePromoter'
    BY <2>1 DEF IInv, OnePromoter, Promoters
  <2>4. SentOK'
    <3>1. status' = [status EXCEPT ![t] = "cancelled"]
      BY <1>5 DEF CancelTask, Write
    <3> QED BY <1>1, <3>1 DEF IInv, SentOK, TypeOK
  <2> QED BY <1>1, <1>3, <2>2, <2>3, <2>4, TypeParts
          DEF IInv, Rows, TypeOK, RowTypes, GatewayTypes
<1> QED BY <1>3, <1>4, <1>5

\* The gateway moves, Task Control restarts, or nothing happens.
LEMMA OtherStep ==
  ASSUME IInv, Loop \/ GatewayRestart \/ ServerRestart \/ UNCHANGED vars
  PROVE  IInv' /\ Evolves
<1>1. UNCHANGED taskVars /\ sent' = sent
  BY DEF Loop, LoopInit, LoopTool, LoopEnds, LoopInterrupted, GatewayRestart, ServerRestart,
         vars, gwVars
<1>2. Rows' /\ Evolves
  BY <1>1, RowsUnchanged
<1>3. GatewayTypes'
  <2>1. faults' \in 0 .. MaxFaults
    BY BoundsAssumption
       DEF Loop, LoopInit, LoopTool, LoopEnds, LoopInterrupted, GatewayRestart, ServerRestart,
           vars, NoFault, Fault, IInv, TypeOK
  <2>2. gwStatus' \in GatewayStatus /\ accepted' \in Nat /\ live' \in Nat
    BY DEF Loop, LoopInit, LoopTool, LoopEnds, LoopInterrupted, GatewayRestart, ServerRestart,
           vars, gwVars, IInv, TypeOK, GatewayStatus
  <2> QED BY <1>1, <2>1, <2>2 DEF IInv, TypeOK, GatewayTypes
<1>4. GoodCalls' = GoodCalls
  BY <1>1 DEF GoodCalls, taskVars, rowVars
<1>5. \/ todo' = todo
      \/ todo' = [a \in Actor |-> << >>]
  BY DEF Loop, LoopInit, LoopTool, LoopEnds, LoopInterrupted, GatewayRestart, ServerRestart, vars
<1>6. CallsOK' /\ todo' \in [Actor -> Seq(CallType)]
  <2>1. CASE todo' = todo
    BY <1>4, <2>1 DEF IInv, CallsOK, TypeOK
  <2>2. CASE todo' = [a \in Actor |-> << >>]
    <3>1. \A S : << >> \in Seq(S)
      OBVIOUS
    <3>2. \A S : todo' \in [Actor -> Seq(S)]
      BY <2>2, <3>1
    <3> QED BY <3>2 DEF CallsOK, Actor
  <2> QED BY <1>5, <2>1, <2>2
<1>7. OnePromoter'
  BY <1>5 DEF IInv, OnePromoter, Promoters
<1>8. SentOK'
  BY <1>1 DEF IInv, SentOK, taskVars
<1> QED BY <1>2, <1>3, <1>6, <1>7, <1>8, TypeParts DEF IInv, Rows, TypeOK, RowTypes, GatewayTypes

-----------------------------------------------------------------------------

LEMMA InitInvariant == Init => IInv
<1> SUFFICES ASSUME Init PROVE IInv
  OBVIOUS
<1>1. 1 \in Task /\ MaxFaults \in 0 .. MaxFaults
  BY BoundsAssumption
<1>2. todo = [a \in Actor |-> << >>]
  BY DEF Init
<1>3. CallsOK /\ todo \in [Actor -> Seq(CallType)]
  BY <1>2 DEF CallsOK
<1>4. OnePromoter
  BY <1>2 DEF OnePromoter, Promoters
<1>5. RowTypes /\ GatewayTypes
  BY <1>1 DEF Init, RowTypes, GatewayTypes, TaskStatus, Mode, GatewayStatus
<1>6. RowsOK /\ SentOK /\ TerminalHasEnd
  BY <1>1, BoundsAssumption DEF Init, RowsOK, SentOK, TerminalHasEnd, TerminalStatuses
<1> QED BY <1>3, <1>4, <1>5, <1>6, TypeParts DEF IInv

LEMMA StepInvariant == IInv /\ [Next]_vars => IInv' /\ Evolves
<1> SUFFICES ASSUME IInv, [Next]_vars PROVE IInv' /\ Evolves
  OBVIOUS
<1>1. ASSUME NEW a \in Actor, NextCall(a) PROVE IInv' /\ Evolves
  BY <1>1, InsertStep, ReadStep, WriteStep, ColumnStep, PromoteStep, SendStep, ResendStep,
     ChatStep, GetStateStep, ResumeStep DEF NextCall
<1>2. CASE \E a \in Reconcilers : ListTask(a)
  BY <1>2, ListStep
<1>3. CASE \/ \E h \in Handlers : ReceiveEvent(h)
           \/ \E r \in Requests : \/ SendMessage(r) \/ ResumeSession(r)
                                  \/ \E m \in Mode : SubmitTask(r, m)
  BY <1>3, StartStep
<1>4. CASE \E t \in Task : CancelTask(t) \/ \E r \in Requests : CompleteTask(r, t)
  BY <1>4, OwnerStep
<1>5. CASE Loop \/ GatewayRestart \/ ServerRestart \/ UNCHANGED vars
  BY <1>5, OtherStep
<1> QED BY <1>1, <1>2, <1>3, <1>4, <1>5 DEF Next

THEOREM Invariant == Spec => []IInv
BY InitInvariant, StepInvariant, PTL DEF Spec

\* The state of the rows, of the actors' calls and of the gateway is well formed.
THEOREM TypeCorrect == Spec => []TypeOK
BY Invariant, PTL DEF IInv

\* A terminal task has its ended_at, from whichever of its five writers it got its status.
THEOREM TerminalTasksHaveEnd == Spec => []TerminalHasEnd
BY Invariant, PTL DEF IInv

\* The prompt of a queued task is not sent before it leaves the queue.
THEOREM PendingPromptNotSent == Spec => []PendingNotSent
<1>1. IInv => PendingNotSent
  <2> SUFFICES ASSUME IInv, NEW t \in Task, status[t] \in {"pending", "none"}
               PROVE  t \notin sent /\ \A a \in Actor : Dispatches(a, t) = {}
    BY DEF PendingNotSent
  <2>1. t \notin sent
    BY DEF IInv, SentOK
  <2>2. ASSUME NEW a \in Actor, NEW i \in DOMAIN todo[a],
               todo[a][i].call \in {"send", "resend", "resume"}, todo[a][i].task = t
        PROVE  FALSE
    <3>1. todo[a][i] \in GoodCalls
      BY DEF IInv, CallsOK
    <3>2. t \in 1 .. created /\ status[t] # "pending"
      BY <2>2, <3>1 DEF GoodCalls, RowCalls
    <3> QED BY <3>2, BoundsAssumption DEF IInv, RowsOK, TypeOK
  <2> QED BY <2>1, <2>2 DEF Dispatches
<1> QED BY <1>1, Invariant, PTL

\* However many promotions run at once, one of them takes a task out of the queue and sends
\* its prompt.
THEOREM OneActorPromotes == Spec => []OnePromoter
BY Invariant, PTL DEF IInv

\* A task that left the queue never returns to it.
THEOREM TasksNeverRequeued == Spec => NeverRequeued
<1>1. IInv /\ [Next]_vars =>
        [\A t \in Task : status'[t] = "pending" => status[t] \in {"none", "pending"}]_vars
  <2> SUFFICES ASSUME IInv, [Next]_vars, NEW t \in Task, status'[t] = "pending"
               PROVE  status[t] \in {"none", "pending"}
    OBVIOUS
  <2>1. Evolves
    BY StepInvariant
  <2> QED BY <2>1, BoundsAssumption DEF Evolves, IInv, RowsOK, TypeOK
<1> QED BY <1>1, Invariant, PTL DEF Spec, NeverRequeued

-----------------------------------------------------------------------------
(* Action properties of the columns an actor may write from a stale read.  *)

\* Only these steps end in a status of completed.
LEMMA CompletingStep ==
  ASSUME IInv, [Next]_vars, NEW t \in Task,
         mode'[t] = "manual", status'[t] = "completed", status[t] # "completed"
  PROVE  \E r \in Requests : CompleteTask(r, t)
<1>0. created \in Nat
  BY BoundsAssumption DEF IInv, TypeOK
<1>1. t \in 1 .. created => mode[t] = "manual"
  BY StepInvariant DEF Evolves
<1>2. ASSUME NEW a \in Actor, NextCall(a) PROVE FALSE
  <2>1. ~ WriteStatus(a)
    <3> SUFFICES ASSUME WriteStatus(a) PROVE FALSE
      OBVIOUS
    <3> DEFINE c == Head(todo[a])
    <3>1. c \in GoodCalls /\ c.call = "set"
      BY FirstCall DEF WriteStatus
    <3>2. c.task \in 1 .. created /\ (c.val = "completed" => mode[c.task] = "auto")
      BY <3>1 DEF GoodCalls, RowCalls
    <3>3. status' = [status EXCEPT ![c.task] = c.val]
      BY DEF WriteStatus, Write
    <3> QED BY <1>1, <3>2, <3>3 DEF IInv, TypeOK
  <2>2. ASSUME NEW c, NEW s \in {"running", "pending"}, Insert(a, c, s) PROVE FALSE
    BY <2>2 DEF Insert, Write, taskVars, IInv, TypeOK
  <2>3. ~ PromoteNextPending(a) /\ ~ ReopenWrite(a)
    BY DEF PromoteNextPending, ReopenWrite, Write, IInv, TypeOK
  <2>4. status' = status \/ WriteStatus(a) \/ PromoteNextPending(a) \/ ReopenWrite(a)
        \/ Insert(a, "insertRunning", "running") \/ Insert(a, "insertPending", "pending")
    BY <1>2 DEF NextCall, ReadForUpdate, RecordDecision, StoreOutput, SendPrompt, ResendPrompt,
       ResumePrompt, GivePrompt, SendChat, ContinueChat, GiveMessage, Reopen, GetState,
       PassBQuery, taskVars
  <2> QED BY <2>1, <2>2, <2>3, <2>4
<1>3. ASSUME NEW u \in Task, NEW r \in Requests, CompleteTask(r, u)
      PROVE  CompleteTask(r, t)
  <2>1. u = t
    BY <1>3 DEF CompleteTask, Write, IInv, TypeOK
  <2> QED BY <1>3, <2>1
<1>4. ASSUME NEW u \in Task, CancelTask(u) PROVE FALSE
  BY <1>4 DEF CancelTask, Write, IInv, TypeOK
<1>5. CASE \/ \E a \in Reconcilers : ListTask(a)
           \/ \E h \in Handlers : ReceiveEvent(h)
           \/ \E r \in Requests : \/ SendMessage(r) \/ ResumeSession(r)
                                  \/ \E m \in Mode : SubmitTask(r, m)
           \/ Loop \/ GatewayRestart \/ ServerRestart \/ UNCHANGED vars
  BY <1>5 DEF ListTask, ReceiveEvent, SendMessage, ResumeSession, SubmitTask, Loop,
     LoopInit, LoopTool, LoopEnds, LoopInterrupted, GatewayRestart, ServerRestart, vars, taskVars
<1> QED BY <1>2, <1>3, <1>4, <1>5 DEF Next

\* Only its owner completes a task with completion_mode manual.
THEOREM OwnerCompletesManualTasks == Spec => ManualCompletedByOwner
<1>1. IInv /\ [Next]_vars =>
        [\A t \in Task :
           mode'[t] = "manual" /\ status'[t] = "completed" /\ status[t] # "completed"
             => \E r \in Requests : CompleteTask(r, t)]_vars
  BY CompletingStep
<1> QED BY <1>1, Invariant, PTL DEF Spec, ManualCompletedByOwner

\* human_decision is written once.
THEOREM DecisionsNeverChange == Spec => FirstDecisionWins
<1>1. TypeOK /\ [Next]_vars =>
        [\A t \in Task : decision[t] # "none" => decision'[t] = decision[t]]_vars
  <2> SUFFICES ASSUME TypeOK, [Next]_vars, NEW t \in Task, decision[t] # "none"
               PROVE  decision'[t] = decision[t]
    OBVIOUS
  <2>1. ASSUME NEW a \in Actor, RecordDecision(a) PROVE decision'[t] = decision[t]
    BY <2>1 DEF RecordDecision, FirstWins, TypeOK
  <2>2. CASE decision' = decision
    BY <2>2
  <2>3. decision' = decision \/ \E a \in Actor : RecordDecision(a)
    BY DEF Next, NextCall, Insert, ReadForUpdate, WriteStatus, StoreOutput, PromoteNextPending,
       SendPrompt, ResendPrompt, GivePrompt, SendChat, ContinueChat, GiveMessage, Reopen,
       ReopenWrite, GetState, ResumePrompt, PassBQuery, ListTask,
       ReceiveEvent, SendMessage, ResumeSession, SubmitTask, CompleteTask, CancelTask, Loop,
       LoopInit, LoopTool, LoopEnds, LoopInterrupted, GatewayRestart, ServerRestart, vars,
       taskVars, rowVars
  <2> QED BY <2>1, <2>2, <2>3
<1> QED BY <1>1, TypeCorrect, PTL DEF Spec, FirstDecisionWins
=============================================================================
