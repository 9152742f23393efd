--------------------------- MODULE GatewaySession ---------------------------
(***************************************************************************)
(* One session of the agent gateway: its status, its abort signal, the     *)
(* query loops that ClaudeAdapter runs for it, the meta.json snapshot and  *)
(* the recovery from it.                                                   *)
(*                                                                         *)
(* A loop runs between two awaits without interruption: one action per     *)
(* event the SDK yields, per exception it throws and per timer.  The SDK   *)
(* is external: it may yield events for ever, throws at any time, and ends *)
(* its stream only after a result.  The published events are EventLog's.   *)
(***************************************************************************)
EXTENDS Integers

CONSTANTS
  Loops,       \* Bound: the query loops that can be under way at once
  MaxRetries,  \* maxRetries of retryAfterTransientError
  MaxFaults    \* Bound: crashes and restarts of the gateway

ASSUME RetriesAssumption == MaxRetries \in Nat \ {0} /\ MaxFaults \in Nat

Terminal   == {"completed", "error"}
Working    == {"starting", "running", "busy"}
Accepting  == {"running", "waiting_input", "interrupted", "completed", "error"}
Restarting == {"interrupted", "completed", "error"}
Resumable  == {"interrupted", "waiting_input", "completed", "error"}
\* "none": not created yet.  "gone": deleted, or forgotten by a restart.
Status == Working \cup Resumable \cup {"none", "gone"}

\* Where a loop is: resolveQueryFn, before and after the init event, after the result, waiting
\* to retry.
Phase == {"idle", "starting", "querying", "running", "resulted", "backoff"}

Snapshot == [status : Status, conv : BOOLEAN]
NoMeta == [status |-> "none", conv |-> FALSE]

VARIABLES
  status,   \* session.status
  aborted,  \* session.abortController.signal.aborted: the loops read it when they check
  conv,     \* session.claudeSessionId is set
  phase,    \* where each loop is
  attempt,  \* the attempt of retryAfterTransientError each loop is in, 0 before
  fresh,    \* the loop lost its conversation and queries again without resume
  resumed,  \* options.resume of each loop
  meta,     \* meta.json
  faults    \* faults left

session == <<status, aborted, conv>>
loops   == <<phase, attempt, fresh, resumed>>
vars    == <<status, aborted, conv, phase, attempt, fresh, resumed, meta, faults>>

Exists == status \notin {"none", "gone"}

\* setStatus does nothing for a session that is no longer in the store.
SetStatus(to) == status' = IF Exists THEN to ELSE status

\* Mutant: a retry does not look at the signal.
AbortedBeforeRetries(l) == aborted /\ attempt[l] = 0
\* The check before an event is handled, in each of the three loops over the SDK's stream.
Aborted(l) == aborted

-----------------------------------------------------------------------------
(* The end of a loop.                                                      *)

Finish(l) ==
  /\ phase'   = [phase EXCEPT ![l] = "idle"]
  /\ attempt' = [attempt EXCEPT ![l] = 0]
  /\ fresh'   = [fresh EXCEPT ![l] = FALSE]
  /\ resumed' = [resumed EXCEPT ![l] = FALSE]

\* emitErrorAndClose
Close(l) == SetStatus("error") /\ Finish(l) /\ UNCHANGED conv

\* Mutant: one attempt too many.
MoreRetriesInclusive(l) == attempt[l] <= MaxRetries
MoreRetries(l) == attempt[l] < MaxRetries

\* A transient error starts the next attempt; the loop without resume and the last attempt close.
Retry(l) ==
  /\ ~ fresh[l] /\ MoreRetries(l)
  /\ attempt' = [attempt EXCEPT ![l] = @ + 1]
  /\ phase' = [phase EXCEPT ![l] = "backoff"]
  /\ UNCHANGED <<status, conv, fresh, resumed>>

\* "No conversation found": query again without resume, once.
QueryFresh(l) ==
  /\ attempt[l] = 0 /\ ~ fresh[l] /\ resumed[l] /\ phase[l] = "querying"
  /\ conv' = FALSE
  /\ fresh' = [fresh EXCEPT ![l] = TRUE]
  /\ resumed' = [resumed EXCEPT ![l] = FALSE]
  /\ UNCHANGED <<status, phase, attempt>>

-----------------------------------------------------------------------------
(* The steps of a loop.                                                    *)

\* resolveQueryFn answers: message.user is published and the query begins ...
BeginQuery(l) ==
  /\ phase[l] = "starting"
  /\ phase' = [phase EXCEPT ![l] = "querying"]
  /\ resumed' = [resumed EXCEPT ![l] = conv]
  /\ UNCHANGED <<session, attempt, fresh, meta, faults>>

\* ... or the SDK cannot be loaded.
StartFails(l) ==
  /\ phase[l] = "starting"
  /\ Close(l)
  /\ UNCHANGED <<aborted, meta, faults>>

\* The SDK yields an event and the signal is aborted.
StopOnEvent(l) ==
  /\ phase[l] \in {"querying", "running"} /\ Aborted(l)
  /\ SetStatus("interrupted")
  /\ Finish(l)
  /\ UNCHANGED <<aborted, conv, meta, faults>>

InitEvent(l) ==
  /\ phase[l] = "querying" /\ ~ Aborted(l)
  /\ conv' = TRUE
  /\ SetStatus("running")
  /\ phase' = [phase EXCEPT ![l] = "running"]
  /\ UNCHANGED <<aborted, attempt, fresh, resumed, meta, faults>>

\* A tool starts (busy) or gives its result (running).
ToolEvent(l) ==
  /\ phase[l] = "running" /\ ~ Aborted(l)
  /\ \E s \in {"busy", "running"} : SetStatus(s)
  /\ UNCHANGED <<aborted, conv, loops, meta, faults>>

\* A result that is not a transient error; that one is thrown.
ResultEvent(l) ==
  /\ phase[l] \in {"querying", "running"} /\ ~ Aborted(l)
  /\ \E s \in {"completed", "waiting_input", "error"} : SetStatus(s)
  /\ phase' = [phase EXCEPT ![l] = "resulted"]
  /\ UNCHANGED <<aborted, conv, attempt, fresh, resumed, meta, faults>>

\* The stream throws, before or after its result: no check of the signal on this path.
Throw(l) ==
  /\ phase[l] \in {"querying", "running", "resulted"}
  /\ Retry(l) \/ QueryFresh(l) \/ Close(l)
  /\ UNCHANGED <<aborted, meta, faults>>

StreamEnds(l) ==
  /\ phase[l] = "resulted"
  /\ Finish(l)
  /\ UNCHANGED <<session, meta, faults>>

\* The backoff is over: interrupted meanwhile, or the query is resumed.
BackoffEnds(l) ==
  /\ phase[l] = "backoff"
  /\ \/ aborted /\ SetStatus("interrupted") /\ Finish(l)
     \/ /\ ~ aborted
        /\ phase' = [phase EXCEPT ![l] = "querying"]
        /\ resumed' = [resumed EXCEPT ![l] = conv]
        /\ UNCHANGED <<status, attempt, fresh>>
  /\ UNCHANGED <<aborted, conv, meta, faults>>

LoopStep(l) ==
  \/ BeginQuery(l) \/ StartFails(l) \/ StopOnEvent(l) \/ InitEvent(l) \/ ToolEvent(l)
  \/ ResultEvent(l) \/ Throw(l) \/ StreamEnds(l) \/ BackoffEnds(l)

-----------------------------------------------------------------------------
(* Requests.                                                               *)

\* adapter.startSession
StartLoop ==
  /\ \E l \in Loops : phase[l] = "idle" /\ phase' = [phase EXCEPT ![l] = "starting"]
  /\ UNCHANGED <<attempt, fresh, resumed>>

\* POST /sessions
Create ==
  /\ status = "none"
  /\ status' = "starting"
  /\ StartLoop
  /\ UNCHANGED <<aborted, conv, meta, faults>>

\* POST /sessions/:id/messages
PostMessage ==
  /\ status \in Accepting
  /\ aborted' = (aborted /\ status \notin Restarting)
  /\ StartLoop
  /\ UNCHANGED <<status, conv, meta, faults>>

\* POST /sessions/:id/resume
Resume ==
  /\ status \in Resumable
  /\ aborted' = FALSE
  /\ StartLoop
  /\ UNCHANGED <<status, conv, meta, faults>>

\* POST /sessions/:id/interrupt
Interrupt ==
  /\ Exists
  /\ aborted' = TRUE
  /\ UNCHANGED <<status, conv, loops, meta, faults>>

\* DELETE /sessions/:id leaves the loops, which keep the session object, and meta.json.
Delete ==
  /\ Exists
  /\ aborted' = TRUE /\ status' = "gone"
  /\ UNCHANGED <<conv, loops, meta, faults>>

-----------------------------------------------------------------------------
(* Snapshots and restarts.                                                 *)

\* upsertMeta, every META_SNAPSHOT_INTERVAL_MS
TakeSnapshot ==
  /\ Exists
  /\ meta' = [status |-> status, conv |-> conv]
  /\ UNCHANGED <<session, loops, faults>>

\* SIGTERM: interrupt what is under way, snapshot; the process exits some time later.
Shutdown ==
  /\ Exists
  /\ aborted' = (aborted \/ status \notin Terminal)
  /\ meta' = [status |-> status, conv |-> conv]
  /\ UNCHANGED <<status, conv, loops, faults>>

\* Mutant: the status is restored as it was saved.
RecoveredAsSaved(m) == m.status
\* Non-terminal sessions become "interrupted".
Recovered(m) == IF m.status \in Terminal THEN m.status ELSE "interrupted"

\* A new process after a crash or an exit restores what meta.json has.
Restart ==
  /\ faults > 0 /\ faults' = faults - 1
  /\ status # "none"
  /\ status' = IF meta = NoMeta THEN "gone" ELSE Recovered(meta)
  /\ aborted' = FALSE
  /\ conv' = meta.conv
  /\ phase' = [l \in Loops |-> "idle"] /\ attempt' = [l \in Loops |-> 0]
  /\ fresh' = [l \in Loops |-> FALSE] /\ resumed' = [l \in Loops |-> FALSE]
  /\ UNCHANGED meta

Init ==
  /\ status = "none" /\ aborted = FALSE /\ conv = FALSE
  /\ phase = [l \in Loops |-> "idle"] /\ attempt = [l \in Loops |-> 0]
  /\ fresh = [l \in Loops |-> FALSE] /\ resumed = [l \in Loops |-> FALSE]
  /\ meta = NoMeta /\ faults = MaxFaults

Next ==
  \/ \E l \in Loops : LoopStep(l)
  \/ Create \/ PostMessage \/ Resume \/ Interrupt \/ Delete
  \/ TakeSnapshot \/ Shutdown \/ Restart

Spec == Init /\ [][Next]_vars

\* The SDK yields, throws or ends some day, and timers fire.
FairSpec == Spec /\ \A l \in Loops : WF_vars(LoopStep(l))

-----------------------------------------------------------------------------
(* Properties.                                                             *)

TypeOK ==
  /\ status \in Status /\ aborted \in BOOLEAN /\ conv \in BOOLEAN
  /\ phase \in [Loops -> Phase] /\ attempt \in [Loops -> 0 .. MaxRetries]
  /\ fresh \in [Loops -> BOOLEAN] /\ resumed \in [Loops -> BOOLEAN]
  /\ meta \in Snapshot /\ faults \in 0 .. MaxFaults

\* A session that says it is at work has a loop that will settle it: however a loop ends
\* (result, error, retries used up, interrupt, crash) and whatever other loops run, no session
\* is left running for ever, which Task Control would never take for finished.
WorkingHasLoop ==
  status \in Working => \E l \in Loops : phase[l] \in {"starting", "querying", "running", "backoff"}

\* An interrupt stops every loop of the session, in whatever phase it finds them, or is
\* revoked by a restart of the session.
InterruptStops == aborted ~> (~ aborted \/ \A l \in Loops : phase[l] = "idle")

\* "Reset abort controller for sessions being restarted": a prompt accepted when no loop is
\* under way is not stopped by an interrupt that came before it.
FreshPromptRuns ==
  [][\A l \in Loops :
       phase[l] = "idle" /\ phase'[l] = "starting" /\ (\A k \in Loops : phase[k] = "idle")
         => ~ aborted']_vars

\* "On restart, non-terminal sessions are restored as interrupted".
RestartInterrupts ==
  [][faults' < faults /\ status \in Working /\ status' # "gone" => status' = "interrupted"]_vars
=============================================================================
