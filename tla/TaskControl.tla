----------------------------- MODULE TaskControl -----------------------------
(***************************************************************************)
(* Task Control, the console server's queue of tasks of ONE agent session. *)
(*                                                                         *)
(* Rows of the tasks table are written by HTTP requests, by the handlers   *)
(* of gateway events and by the periodic reconciler.  Each of them is an   *)
(* async function: SQL statements and gateway calls with an await between  *)
(* any two, so they interleave at every call.  An actor is therefore       *)
(* modelled by the calls it still has to make (todo), computed from what   *)
(* it has read, and one step executes the first of them.                   *)
(*                                                                         *)
(* Sessions share no task row, so one session stands for all of them.      *)
(***************************************************************************)
EXTENDS Integers, Sequences, FiniteSets

CONSTANTS
  MaxTasks,     \* Bound: tasks ever submitted to the session
  MaxLoops,     \* Bound: query loops the gateway runs at once for the session
  MaxFaults,    \* Bound: restarts, user interrupts and failed calls
  Requests,     \* HTTP requests in progress
  Handlers,     \* gateway events being applied; {} while no browser has the stream open
  Reconcilers,  \* reconcileOnce calls in progress (setInterval can overlap them)
  History       \* events of the session's history: a reconnecting stream replays them

Task     == 1 .. MaxTasks
Actor    == Requests \cup Handlers \cup Reconcilers
Decision == {"approved", "overridden", "declined"}
ErrorKind == {"lost", "recoverable", "overflow", "other"}

ASSUME BoundsAssumption ==
  MaxTasks \in Nat \ {0} /\ MaxLoops \in Nat \ {0} /\ MaxFaults \in Nat
TaskStatus == {"pending", "running", "busy", "waiting_input", "pending_approval",
               "approved", "completed", "error", "interrupted", "cancelled"}
TerminalStatuses == {"completed", "error", "interrupted", "cancelled"}

\* Mutant: the gateway's own active statuses taken for task statuses.
ActiveStatusesOfGateway ==
  {"starting", "running", "busy", "waiting_input", "pending_approval"}
ActiveStatuses == {"running", "busy", "waiting_input", "pending_approval"}

Mode == {"auto", "manual"}
GatewayStatus == {"starting", "running", "busy", "waiting_input",
                  "interrupted", "completed", "error"}

\* What applyEventToTask distinguishes: val is the kind of a session.error, what a message.user
\* says of the agent's work, and whether a message.agent holds the approval marker.
Event ==
  [type : {"session.started", "session.state_changed", "session.waiting_input",
           "session.completed", "session.interrupted"}, val : {"none"}]
    \cup [type : {"message.user"}, val : Decision \cup {"none"}]
    \cup [type : {"message.agent"}, val : {"none", "marker"}]
    \cup [type : {"session.error"}, val : ErrorKind]
ASSUME HistoryAssumption == History \subseteq Event

VARIABLES
  status,     \* tasks.status; "none" before the row is inserted
  mode,       \* tasks.completion_mode
  ended,      \* tasks.ended_at IS NOT NULL
  decision,   \* tasks.human_decision, "none" for NULL
  approval,   \* tasks.output holds the AWAITING_APPROVAL marker
  created,    \* the number of rows: the latest task is task number created
  todo,       \* the calls each actor still has to make
  gwStatus,   \* status of the gateway session
  accepted,   \* prompts the gateway accepted, their query loop not yet initialised
  live,       \* query loops that run
  sent,       \* tasks whose prompt the gateway accepted (history)
  faults      \* faults left

rowVars  == <<mode, decision, approval, created>>
taskVars == <<status, ended, rowVars>>
gwVars   == <<gwStatus, accepted, live, sent>>
vars     == <<taskVars, todo, gwVars, faults>>

-----------------------------------------------------------------------------
(* The calls.  "updateStatus" is TaskStore.updateStatus, which reads the   *)
(* row before it writes; "set" is one unconditional UPDATE, whose end says *)
(* what it does to ended_at; "resend" and "continue" are the client.resume *)
(* that follows a failed sendMessage; "getState" and "resume" carry the    *)
(* status the reconciler listed the task with.                             *)

CallType ==
  [call : {"insertRunning", "insertPending", "updateStatus", "set", "decide", "output",
           "promote", "send", "resend", "reopen", "reopenSet", "chat", "continue",
           "getState", "resume", "passB"},
   task : 0 .. MaxTasks,
   val  : TaskStatus \cup Decision \cup Mode \cup {"none", "marker", "starting"},
   end  : {"keep", "clear", "now"}]

Call(c, t, v, e) == [call |-> c, task |-> t, val |-> v, end |-> e]
UpdateStatus(t, s, e) == Call("updateStatus", t, s, e)
SetStatus(t, s, e)    == Call("set", t, s, e)
Send(t)               == Call("send", t, "none", "keep")
Resend(t)             == Call("resend", t, "none", "keep")
Promote               == Call("promote", 0, "none", "keep")
PassB                 == Call("passB", 0, "none", "keep")
Chat                  == Call("chat", 0, "none", "keep")
ContinueSession       == Call("continue", 0, "none", "keep")

Start(a, calls) == todo[a] = <<>> /\ todo' = [todo EXCEPT ![a] = calls]
IsNext(a, c)    == todo[a] # <<>> /\ Head(todo[a]).call = c
Continue(a, calls) == todo' = [todo EXCEPT ![a] = calls \o Tail(@)]
Fault == faults > 0 /\ faults' = faults - 1
NoFault == UNCHANGED faults

Latest(t, S) == t \in S /\ \A u \in S : u <= t
Oldest(t, S) == t \in S /\ \A u \in S : t <= u
WithStatus(S) == {t \in Task : status[t] \in S}

Write(t, s, e) ==
  /\ status' = [status EXCEPT ![t] = s]
  /\ ended'  = [ended EXCEPT ![t] = IF e = "keep" THEN @ ELSE e = "now"]

-----------------------------------------------------------------------------
(* One call of the task store each.                                        *)

Insert(a, c, s) ==
  /\ IsNext(a, c)
  /\ IF created = MaxTasks
       THEN Continue(a, <<>>) /\ UNCHANGED taskVars
       ELSE LET t == created + 1 IN
            /\ created' = t
            /\ Write(t, s, "clear")
            /\ mode' = [mode EXCEPT ![t] = Head(todo[a]).val]
            /\ \/ s = "running" /\ Continue(a, <<Send(t)>>)
               \/ Continue(a, <<>>)   \* pending, or the agent is not configured
            /\ UNCHANGED <<decision, approval>>
  /\ NoFault /\ UNCHANGED gwVars

\* TaskStore.updateStatus: read the row (first await), then write it.
GuardedWrite(current, c) ==
  IF current \in TerminalStatuses /\ c.val \in {"running", "waiting_input"}
    THEN IF current \in {"error", "completed"}
           THEN <<SetStatus(c.task, c.val, "clear")>>
           ELSE <<>>
    ELSE <<SetStatus(c.task, c.val, c.end)>>

ReadForUpdate(a) ==
  /\ IsNext(a, "updateStatus")
  /\ Continue(a, GuardedWrite(status[Head(todo[a]).task], Head(todo[a])))
  /\ NoFault /\ UNCHANGED <<taskVars, gwVars>>

WriteStatus(a) ==
  /\ IsNext(a, "set")
  /\ Write(Head(todo[a]).task, Head(todo[a]).val, Head(todo[a]).end)
  /\ Continue(a, <<>>)
  /\ NoFault /\ UNCHANGED <<rowVars, gwVars>>

\* Mutant: autoSetHumanDecision without human_decision IS NULL.
Overwrite(old, new) == new
FirstWins(old, new) == IF old = "none" THEN new ELSE old

RecordDecision(a) ==
  /\ IsNext(a, "decide")
  /\ decision' = [decision EXCEPT ![Head(todo[a]).task] = FirstWins(@, Head(todo[a]).val)]
  /\ Continue(a, <<>>)
  /\ NoFault /\ UNCHANGED <<status, ended, mode, approval, created, gwVars>>

StoreOutput(a) ==
  /\ IsNext(a, "output")
  /\ approval' = [approval EXCEPT ![Head(todo[a]).task] = Head(todo[a]).val = "marker"]
  /\ Continue(a, <<>>)
  /\ NoFault /\ UNCHANGED <<status, ended, mode, decision, created, gwVars>>

\* Mutant: the UPDATE of promoteNextPending without its status check, as if the id had been
\* read by an earlier statement.
PromotableStale == {t \in Task : status[t] \in {"pending", "running"} /\ ~ended[t]}
Promotable == WithStatus({"pending"})

PromoteNextPending(a) ==
  /\ IsNext(a, "promote")
  /\ \/ /\ Promotable = {}
        /\ Continue(a, <<>>) /\ UNCHANGED <<status, ended>>
     \/ \E t \in Task : /\ Oldest(t, Promotable)
                         /\ Write(t, "running", "keep")
                         /\ Continue(a, <<Send(t)>>)
  /\ NoFault /\ UNCHANGED <<rowVars, gwVars>>

\* reopenLatestForSession: an active latest task is used as it is; otherwise an UPDATE
\* reopens it if it is still terminal.
Reopen(a) ==
  /\ IsNext(a, "reopen")
  /\ Continue(a, IF status[created] \in ActiveStatuses
                   THEN <<Chat>>
                   ELSE <<Call("reopenSet", created, "none", "keep"), Chat>>)
  /\ NoFault /\ UNCHANGED <<taskVars, gwVars>>

ReopenWrite(a) ==
  /\ IsNext(a, "reopenSet")
  /\ LET t == Head(todo[a]).task IN
     IF status[t] \in TerminalStatuses THEN Write(t, "running", "clear")
                                       ELSE UNCHANGED <<status, ended>>
  /\ Continue(a, <<>>)
  /\ NoFault /\ UNCHANGED <<rowVars, gwVars>>

-----------------------------------------------------------------------------
(* Calls to the gateway.  A prompt is accepted at once; its query loop     *)
(* initialises later, and until then the session keeps its old status.     *)
(* sendMessage is refused while starting or busy, resume while running     *)
(* too; whoever sends tries sendMessage, and resume when it failed.  A     *)
(* fault is a call without an answer, before or after the gateway accepted *)
(* the prompt: the retry may then deliver the prompt a second time.        *)

Deliverable == {"running", "waiting_input", "interrupted", "completed", "error"}
Resumable   == {"waiting_input", "interrupted", "completed", "error"}

AcceptPrompt(from) ==
  /\ gwStatus \in from /\ accepted + live < MaxLoops
  /\ accepted' = accepted + 1
  /\ UNCHANGED <<gwStatus, live>>

Refuse(from) ==
  /\ \/ gwStatus \notin from /\ NoFault
     \/ Fault
  /\ UNCHANGED <<gwStatus, accepted, live>>

\* Mutant: a prompt the gateway refused goes back to the queue.
AfterFailedSendRequeue(t) == <<SetStatus(t, "pending", "clear")>>
AfterFailedSend(t) == <<SetStatus(t, "error", "now")>>

\* The prompt of the task is given to the gateway: done and failed are the calls that follow
\* when the answer says so.
GivePrompt(a, c, from, done, failed) ==
  /\ IsNext(a, c)
  /\ \/ /\ AcceptPrompt(from) /\ sent' = sent \cup {Head(todo[a]).task}
        /\ \/ Continue(a, done) /\ NoFault
           \/ Continue(a, failed) /\ Fault
     \/ Refuse(from) /\ Continue(a, failed) /\ UNCHANGED sent
  /\ UNCHANGED taskVars

SendPrompt(a) == GivePrompt(a, "send", Deliverable, <<>>, <<Resend(Head(todo[a]).task)>>)
ResendPrompt(a) ==
  GivePrompt(a, "resend", Resumable, <<>>, AfterFailedSend(Head(todo[a]).task))

\* A message of the owner: POST messages (chat), and POST resume or the second try of the
\* former (continue).  When it fails the answer is 502, and a task that was reopened for it
\* stays so.
GiveMessage(a, c, from, failed) ==
  /\ IsNext(a, c)
  /\ \/ /\ AcceptPrompt(from)
        /\ \/ Continue(a, <<>>) /\ NoFault
           \/ Continue(a, failed) /\ Fault
     \/ Refuse(from) /\ Continue(a, failed)
  /\ UNCHANGED <<taskVars, sent>>

SendChat(a)     == GiveMessage(a, "chat", Deliverable, <<ContinueSession>>)
ContinueChat(a) == GiveMessage(a, "continue", Resumable, <<>>)

-----------------------------------------------------------------------------
(* Pass A and pass B of reconcileOnce.                                     *)

Recovered(gw) == IF gw = "busy" THEN "running" ELSE gw

\* Mutant: a task completed in the gateway is completed whatever its completion_mode.
SyncIgnoringMode(t, listed, m, gw, full) ==
  IF listed # gw THEN <<SetStatus(t, gw, "now")>> ELSE <<>>

\* Mutant: the UPDATE to interrupted leaves ended_at alone.
GatewayDownKeepingEnd(t, listed) ==
  IF listed \in {"running", "waiting_input"}
    THEN <<SetStatus(t, "interrupted", "keep")>> ELSE <<>>

\* The gateway is unreachable.
GatewayDown(t, listed) ==
  IF listed \in {"running", "waiting_input"}
    THEN <<SetStatus(t, "interrupted", "now")>> ELSE <<>>

\* The gateway session ended: full says that its last message tells of a full context.
SyncTerminal(t, listed, m, gw, full) ==
  IF m = "manual" /\ gw = "completed"
    THEN IF listed # "waiting_input" THEN <<SetStatus(t, "waiting_input", "clear")>> ELSE <<>>
  ELSE IF m = "manual" /\ gw = "interrupted"
    THEN IF listed # "interrupted" THEN <<SetStatus(t, "interrupted", "now")>> ELSE <<>>
  ELSE IF gw = "interrupted"
    THEN <<Call("resume", t, listed, "keep")>>
  ELSE IF listed = gw
    THEN <<>>
  ELSE IF gw = "error" /\ full
    THEN <<SetStatus(t, "waiting_input", "clear")>>
    ELSE <<SetStatus(t, gw, "now")>>

\* What reconcileOnce does with a task it listed as `listed` once getState answered gw:
\* stale says that both have been running for 30 minutes without activity.
Sync(t, listed, m, gw, full, stale) ==
  IF listed = "running" /\ gw = "running" /\ stale
    THEN <<SetStatus(t, "error", "now")>>
  ELSE IF gw \in ActiveStatuses
    THEN IF listed \in {"interrupted", "error"}
           THEN <<SetStatus(t, Recovered(gw), "clear")>>
         ELSE IF listed # Recovered(gw)
           THEN <<SetStatus(t, Recovered(gw), "keep")>>
           ELSE <<>>
  ELSE IF gw \in {"completed", "error", "interrupted"}
    THEN SyncTerminal(t, listed, m, gw, full)
    ELSE <<>>

\* Mutant: the latest task of the session whatever its status, pending included.
ReconcilableAny == {t \in Task : status[t] # "none"}
Reconcilable == WithStatus({"running", "busy", "waiting_input", "interrupted", "error"})

ListTask(a) ==
  /\ \/ Reconcilable = {} /\ Start(a, <<PassB>>)
     \/ \E t \in Task : /\ Latest(t, Reconcilable)
                         /\ Start(a, <<Call("getState", t, status[t], "keep"), PassB>>)
  /\ NoFault /\ UNCHANGED <<taskVars, gwVars>>

\* getState answers, throws, or is not called because the agent is not configured.
GetState(a) ==
  /\ IsNext(a, "getState")
  /\ LET t == Head(todo[a]).task  listed == Head(todo[a]).val IN
     \/ /\ \E full, stale \in BOOLEAN :
             Continue(a, Sync(t, listed, mode[t], gwStatus, full, stale))
        /\ NoFault
     \/ Continue(a, GatewayDown(t, listed)) /\ Fault
     \/ Continue(a, <<>>) /\ Fault
  /\ UNCHANGED <<taskVars, gwVars>>

\* Auto-resume: the prompt of an interrupted session's task is given to it again.
ResumePrompt(a) ==
  LET c == Head(todo[a]) IN
  GivePrompt(a, "resume", Resumable, <<SetStatus(c.task, "running", "clear")>>,
             IF c.val # "interrupted" THEN <<SetStatus(c.task, "interrupted", "now")>> ELSE <<>>)

\* Mutant: an interrupted task counted as active, as in the gateway-facing queries.
SomeActiveOrInterrupted == WithStatus({"running", "busy", "waiting_input", "interrupted"}) # {}
SomeActive == WithStatus({"running", "busy", "waiting_input"}) # {}

PassBQuery(a) ==
  /\ IsNext(a, "passB")
  /\ Continue(a, IF WithStatus({"pending"}) # {} /\ ~SomeActive THEN <<Promote>> ELSE <<>>)
  /\ NoFault /\ UNCHANGED <<taskVars, gwVars>>

-----------------------------------------------------------------------------
(* applyEventToTask: the latest task of the session is read, and what it   *)
(* was decides the calls.  The stream's pump starts the handler of every   *)
(* event without awaiting the one before, and a client chooses after_seq   *)
(* and reconnects: any event of the history can come at any time, and      *)
(* again.  The session is taken to have a past that holds all of History.  *)

FailTask(t) == <<UpdateStatus(t, "error", "now"), Promote>>

ErrorCalls(t, kind) ==
  IF kind = "recoverable" \/ status[t] = "running"
    THEN <<>>
  ELSE IF kind = "overflow" /\ status[t] \in {"error", "interrupted"}
    THEN <<UpdateStatus(t, "waiting_input", "clear")>>
    ELSE FailTask(t)

\* Mutant: session.completed completes the task without asking for its completion_mode.
CompletedCallsAnyMode(t) == <<UpdateStatus(t, "completed", "now"), Promote>>
CompletedCalls(t) ==
  IF mode[t] = "auto"
    THEN <<UpdateStatus(t, "completed", "now"), Promote>>
  ELSE IF status[t] \notin {"pending_approval", "approved"}
    THEN <<UpdateStatus(t, "waiting_input", "clear")>>
    ELSE <<>>

RunningAgain(t, from) ==
  IF status[t] \in from THEN <<UpdateStatus(t, "running", "clear")>> ELSE <<>>
Decide(t, d, asked) ==
  IF asked /\ decision[t] = "none" /\ d # "none"
    THEN <<Call("decide", t, d, "keep")>> ELSE <<>>

EventCalls(e, t) ==
  CASE e.type = "session.started" -> RunningAgain(t, {"error", "interrupted"})
    [] e.type = "session.state_changed" ->
         Decide(t, "overridden", status[t] = "completed" /\ mode[t] = "auto")
           \o RunningAgain(t, {"completed"})
    [] e.type = "message.user" ->
         RunningAgain(t, {"waiting_input", "error", "interrupted"}) \o Decide(t, e.val, TRUE)
    [] e.type = "message.agent" ->
         <<Call("output", t, e.val, "keep")>>
           \o RunningAgain(t, TaskStatus \ {"running", "completed", "cancelled"})
    [] e.type = "session.waiting_input" ->
         <<UpdateStatus(t, IF approval[t] THEN "pending_approval" ELSE "waiting_input", "clear")>>
    [] e.type = "session.completed" -> CompletedCalls(t)
    [] e.type = "session.error" -> ErrorCalls(t, e.val)
    [] e.type = "session.interrupted" -> <<UpdateStatus(t, "interrupted", "now"), Promote>>

ReceiveEvent(h) ==
  /\ \E e \in History : Start(h, EventCalls(e, created))
  /\ NoFault /\ UNCHANGED <<taskVars, gwVars>>

-----------------------------------------------------------------------------
(* HTTP requests of the session's owner.                                   *)

\* POST /sessions/:id/tasks: queue behind an active task, or run at once.
SubmitTask(r, m) ==
  /\ created < MaxTasks
  /\ Start(r, <<Call(IF SomeActive THEN "insertPending" ELSE "insertRunning", 0, m, "keep")>>)
  /\ NoFault /\ UNCHANGED <<taskVars, gwVars>>

\* POST /sessions/:id/messages
SendMessage(r) ==
  /\ Start(r, IF SomeActive THEN <<Chat>> ELSE <<Call("reopen", 0, "none", "keep")>>)
  /\ NoFault /\ UNCHANGED <<taskVars, gwVars>>

\* POST /sessions/:id/resume
ResumeSession(r) ==
  /\ Start(r, <<ContinueSession>>)
  /\ NoFault /\ UNCHANGED <<taskVars, gwVars>>

\* POST /tasks/:id/complete
CompleteTask(r, t) ==
  /\ status[t] \in {"running", "busy", "waiting_input", "interrupted"}
  /\ Write(t, "completed", "now")
  /\ Start(r, <<Promote>>)
  /\ NoFault /\ UNCHANGED <<rowVars, gwVars>>

\* DELETE /tasks/:id
CancelTask(t) ==
  /\ status[t] = "pending"
  /\ Write(t, "cancelled", "now")
  /\ NoFault /\ UNCHANGED <<rowVars, todo, gwVars>>

-----------------------------------------------------------------------------
(* The gateway session as Task Control sees it (its own module, with the   *)
(* abort controllers and the event buffer, is GatewaySession).             *)

LoopInit ==
  /\ accepted > 0 /\ accepted' = accepted - 1 /\ live' = live + 1
  /\ gwStatus' = "running"
  /\ NoFault /\ UNCHANGED <<taskVars, todo, sent>>

LoopTool ==
  /\ live > 0 /\ gwStatus' \in {"running", "busy"}
  /\ NoFault /\ UNCHANGED <<taskVars, todo, accepted, live, sent>>

LoopEnds ==
  /\ live > 0 /\ live' = live - 1
  /\ gwStatus' \in {"completed", "waiting_input", "error"}
  /\ NoFault /\ UNCHANGED <<taskVars, todo, accepted, sent>>

LoopInterrupted ==
  /\ live > 0 /\ live' = live - 1
  /\ gwStatus' = "interrupted"
  /\ Fault /\ UNCHANGED <<taskVars, todo, accepted, sent>>

\* The gateway restarts from a metadata snapshot up to 10 s old, which may show an earlier
\* end of the session.
GatewayRestart ==
  /\ accepted' = 0 /\ live' = 0
  /\ gwStatus' \in {"interrupted", "completed", "error"}
  /\ Fault /\ UNCHANGED <<taskVars, todo, sent>>

\* Task Control restarts: whatever its actors had left to do is lost.
ServerRestart ==
  /\ \E a \in Actor : todo[a] # <<>>
  /\ todo' = [a \in Actor |-> <<>>]
  /\ Fault /\ UNCHANGED <<taskVars, gwVars>>

-----------------------------------------------------------------------------
\* A prompt was just sent for the first task of interest; earlier tasks of the session are
\* completed, and no code touches them again.
Init ==
  /\ status = [t \in Task |-> IF t = 1 THEN "running" ELSE "none"]
  /\ \E m \in Mode : mode = [t \in Task |-> IF t = 1 THEN m ELSE "auto"]
  /\ ended = [t \in Task |-> FALSE]
  /\ decision = [t \in Task |-> "none"]
  /\ approval = [t \in Task |-> FALSE]
  /\ created = 1
  /\ todo = [a \in Actor |-> <<>>]
  /\ gwStatus \in {"starting", "completed"} /\ accepted = 1 /\ live = 0
  /\ sent = {1}
  /\ faults = MaxFaults

NextCall(a) ==
  \/ Insert(a, "insertRunning", "running") \/ Insert(a, "insertPending", "pending")
  \/ ReadForUpdate(a) \/ WriteStatus(a) \/ RecordDecision(a) \/ StoreOutput(a)
  \/ PromoteNextPending(a) \/ SendPrompt(a) \/ ResendPrompt(a)
  \/ Reopen(a) \/ ReopenWrite(a) \/ SendChat(a) \/ ContinueChat(a)
  \/ GetState(a) \/ ResumePrompt(a) \/ PassBQuery(a)

Loop == LoopInit \/ LoopTool \/ LoopEnds \/ LoopInterrupted

Next ==
  \/ \E a \in Actor : NextCall(a)
  \/ \E a \in Reconcilers : ListTask(a)
  \/ \E h \in Handlers : ReceiveEvent(h)
  \/ \E r \in Requests : \/ SendMessage(r) \/ ResumeSession(r)
                         \/ \E m \in Mode : SubmitTask(r, m)
                         \/ \E t \in Task : CompleteTask(r, t)
  \/ \E t \in Task : CancelTask(t)
  \/ Loop \/ GatewayRestart \/ ServerRestart

Spec == Init /\ [][Next]_vars

-----------------------------------------------------------------------------
(* Properties.                                                             *)

TypeOK ==
  /\ status \in [Task -> TaskStatus \cup {"none"}]
  /\ mode \in [Task -> Mode]
  /\ ended \in [Task -> BOOLEAN]
  /\ decision \in [Task -> Decision \cup {"none"}]
  /\ approval \in [Task -> BOOLEAN]
  /\ created \in Task
  /\ todo \in [Actor -> Seq(CallType)]
  /\ gwStatus \in GatewayStatus
  /\ accepted \in Nat /\ live \in Nat
  /\ sent \in SUBSET Task
  /\ faults \in 0 .. MaxFaults

\* Whoever ends a task stamps it: a terminal task has its ended_at, which the dashboard's
\* completed_today and every usage report count by.  Status and ended_at are written by
\* five functions from stale reads, one of which leaves ended_at alone.
TerminalHasEnd == \A t \in Task : status[t] \in TerminalStatuses => ended[t]

\* The calls that still give task t's prompt to the gateway.
Dispatches(a, t) ==
  {i \in DOMAIN todo[a] : todo[a][i].call \in {"send", "resend", "resume"} /\ todo[a][i].task = t}

\* A queued prompt is not sent, and nobody is about to send it, before a promotion or a
\* submission made its task running: the reconciler's resume, which sends prompts too,
\* never picks a pending task.
PendingNotSent ==
  \A t \in Task : status[t] \in {"pending", "none"} =>
    t \notin sent /\ \A a \in Actor : Dispatches(a, t) = {}

\* However many promotions run at once (the reconciler, event handlers, POST complete), at
\* most one of them took a task out of the queue, and sends its prompt.  This is no promise
\* that the prompt is sent once: the retry after a lost answer, and the reconciler's
\* auto-resume of a task that already left the queue, send it again.
Sends(c, t) == c.call \in {"send", "resend"} /\ c.task = t
Promoters(t) == {a \in Actor : \E i \in DOMAIN todo[a] : Sends(todo[a][i], t)}
OnePromoter == \A t \in Task : \A a, b \in Promoters(t) : a = b

\* A task that left the queue never returns to it, so it is promoted at most once.
NeverRequeued ==
  [][\A t \in Task : status'[t] = "pending" => status[t] \in {"none", "pending"}]_vars

\* A task with completion_mode manual is completed by its owner's POST complete and by
\* nothing else, whatever gateway events arrive and whatever the reconciler had listed.
ManualCompletedByOwner ==
  [][\A t \in Task : mode'[t] = "manual" /\ status'[t] = "completed" /\ status[t] # "completed"
        => \E r \in Requests : CompleteTask(r, t)]_vars

\* First decision wins: once recorded, human_decision never changes, however many handlers
\* decided from a row in which it was still NULL.
FirstDecisionWins ==
  [][\A t \in Task : decision[t] # "none" => decision'[t] = decision[t]]_vars

-----------------------------------------------------------------------------
(* Liveness.  The event loop finishes what was begun, the reconciler's     *)
(* timer fires, a prompt that was accepted starts, and a turn ends.        *)

Fairness ==
  /\ \A a \in Actor : WF_vars(NextCall(a))
  /\ \A a \in Reconcilers : WF_vars(ListTask(a))
  /\ WF_vars(LoopInit) /\ WF_vars(LoopEnds)

FairSpec == Spec /\ Fairness

AwaitsOwner == WithStatus({"waiting_input"}) # {}
OwnerTalks  == \E a \in Requests : IsNext(a, "chat") \/ IsNext(a, "continue")

\* Pass A lists the latest task that is neither pending nor done.  An earlier one that is
\* active is never looked at while the later one is listed, and keeps pass B from promoting.
Shadowed ==
  \E t \in WithStatus({"running", "busy", "waiting_input"}) :
    \E u \in Reconcilable : t < u /\ status[u] \in {"interrupted", "error"}

\* With nobody watching the stream the reconciler alone drains the queue: a pending task
\* leaves it, unless an active task is shadowed by a later one, or the session keeps waiting
\* for its owner, keeps being talked to by its owner, or has failed.
QueueDrains ==
  \A t \in Task : status[t] = "pending" ~>
    status[t] # "pending" \/ Shadowed \/ AwaitsOwner \/ OwnerTalks \/ gwStatus = "error"

\* The same without the shadow: false of three tasks, the first running, the second
\* interrupted and the third pending.
QueueNeverShadowed ==
  \A t \in Task : status[t] = "pending" ~>
    status[t] # "pending" \/ AwaitsOwner \/ OwnerTalks \/ gwStatus = "error"

\* "... or the reconciler will eventually detect the stale state": a task does not stay
\* running in a session that failed for good.
FailureDetected ==
  \A t \in Task :
    status[t] = "running" /\ gwStatus = "error" ~> status[t] # "running" \/ gwStatus # "error"

\* "Earlier tasks may have their own terminal state from SSE events (error, interrupted, etc.)
\* that should not be overridden": a terminal task the reconciler syncs against the gateway is
\* the latest task of the session.
EarlierTerminalKept ==
  [][\A a \in Reconcilers :
       ListTask(a) /\ todo'[a][1].call = "getState" /\ todo'[a][1].val \in TerminalStatuses
         => todo'[a][1].task = created]_vars
=============================================================================
