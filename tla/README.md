# A TLA+ verification of Incidara's control plane

Incidara runs AI agents that watch, triage and repair the nodes of a GPU
cluster. This directory models the parts of it that decide what happens next
and that several actors write at once, checks them with TLC on small
instances, and proves their main invariants with TLAPS for every size.

Paths below are relative to the repository. `gateway` is
`incidara_agents/agents/claude-agent`, `patrol` is
`incidara_agents/mcp_servers/patrol-cron/patrol_cron`.

## 1. The system

### Inventory

| Component | State | Operations | What makes it correct |
|---|---|---|---|
| **A. Task Control**: the task queue of a session (`console/server/src/task-store.ts`, `sse-task-updater.ts`, `task-reconciler.ts`, `routes/tasks.ts`, `routes/messages.ts`, the stream pump of `routes/proxy.ts`) | rows of `tasks` in PostgreSQL | submit, message, resume, complete, cancel; apply a gateway event; the reconciler's two passes every 30 s | a task is queued once and sent once, ends with a timestamp, is completed by whom its mode says, and a queued task does not wait for ever |
| **B. Gateway session** (`gateway/src/claude-adapter.ts`, `routes/messages.ts`, `routes/sessions.ts`, `server.ts`) | the session object in memory, `meta.json` | create, message, interrupt, resume, delete; the query loop with retries; snapshot, shutdown, recovery | no session is left at work with nobody working; an interrupt stops what runs |
| **C. Event log** (`gateway/src/session-store.ts`, `event-bus.ts`, `persistence.ts`, `routes/events.ts`) | ring buffer, sequence counter, `events.jsonl`, open streams | append, publish, stream with replay, page, restore | every event has one id, readers get each once and in order |
| **D. Observation lifecycle** (`patrol/lifecycle.py`, `db.py`, `run_collector_job.py`) | `detection_lifecycle_state`, `patrol_findings` | apply a bad, healthy or unknown observation, or an event; clean up | one finding per rule, target and action, opened at a threshold, acted on, closed by recovery |
| **E. Collector runs** (`patrol/run_collector_job.py`, `engine.py`, `actions.py`, `cron_sync.py`, `analyzer.py`) | `patrol_collectors`, `patrol_rules`, the crontab, `patrol_findings`, flock | cron's run, `test_rule_once`, `create_finding`, enabling and editing, synchronising the crontab | a lasting fault is found, a recovered target is closed, an action is not carried out for nothing |
| **F. Built-in rules** (`patrol/rule_sources.py`, `collectors/nfd_data_sources.py`) | `rule_state`, the file of cached attempts | judge what was collected | an alert rests on facts: growth, not a first reading; a fault of one, not an outage of all |
| **G. Refinement of rules** (`patrol/mcp_tools.py`, labels of `agent_feedback/knowledge_db.py`) | rules, versions, replay fixtures, attributions | update with a gate, roll back, label, make fixtures | a refined rule agrees with the feedback, and what ran can be restored |
| **H. Feedback** (`agent_feedback/knowledge_db.py`, `agent-feedback/mcp_server.py`) | `analysis_problems`, `case_memory`, verdicts of findings | update a problem, write a case, judge findings | a patch skips no stage, a verdict is kept |
| **I. Status and repair of nodes** (`node-operations/mcp_server.py`, `node_operations/db_write.py`, `ltp_storage`, the SDK's node_status and node_action) | `node_status`, `node_actions`, `physical_node_actions`, the vendor's tickets | move, validate, submit an RMA, complete it, reallocate, clone | every status is explained, a repair is completed once, a repaired node returns |
| **J. Guarded actions** (`node_operations/blast_radius.py`, `execute_node_action`, `verify_node_action`) | failure log, circuit, cooldowns, in the memory of one server, without a lock | execute, verify | failures stop automatic actions, one test follows |
| **K. Configuration of a node** (`node_operations/config.py`, `reset.py`, `bmc.py`, `init_stage.py`, the bundles) | the machine: power, logins, stages done, RAID, cluster | reset, stages, full configuration, reallocation | a node keeps a login, and only a configured one is allocated |
| **L. SKUs** (`bundles/ltp_bundle/sku_spec.py`) | none | check, match, fuzzy match | hardware is one SKU or none |
| M. Scheduler (`scheduler.ts`, `schedule-store.ts`, `routes/schedules.ts`) | `schedules` | tick, fire, run now | a due schedule fires once |
| N. Gateway permissions and questions (`permission-manager.ts`, `question-manager.ts`) | pending requests, timers | ask, answer, time out | a request is settled once |
| O. Console: sessions, proxy, agents, identity, groups, usage, pricing, reports | their tables | create, list, filter, grant, aggregate | pure decisions and arithmetic |
| P. Delegation (`node_operations/delegation.py`) | tasks of other agents | delegate | a node is delegated once |
| Q. agent-evidence, switch-operations, feishu-bitable, skills, web client, deployment | none of their own | | |

### How they interact

A user or a schedule submits a task; Task Control (A) inserts a row and, if
the session has no active task, posts the prompt to the gateway (B). B starts
a query loop, sets the session's status and publishes events (C). While a
browser has the stream open, A's pump reads C's stream and applies each event
to the latest task of the session. Whatever nobody watched, the reconciler of
A finds by polling B's status. On the detection side cron starts a collector
job (E), which collects, lets the rules judge (F) and hands their observations
to D, or their findings to the database; a finding that opens executes its
action: an alert, a cordon, or a task for an agent (A). Agents act on nodes
through J, move them through triage and repair (I), and a recycler configures
(K, L) and reallocates what comes back. What the vendor found comes back as a
case (H), gives verdicts to findings, labels to examples and through them
fixtures that gate the next version of the rule (G).

### What is hard about it

- A is made of async functions over a database, without transactions: any two
  statements of two actors can interleave. Handlers of events that follow
  each other run concurrently, and history is replayed after a reconnection.
- B is single-threaded, but a loop awaits the SDK between any two events, and
  two loops of one session share its status and its abort signal.
- C keeps its counter in memory and some of its events on disk.
- D calls the database once per statement, and the action it executes cannot
  be rolled back.
- E overlaps with the tool that runs a rule at once, and its collector, rule and
  crontab change under it; F must not take silence for health or for a fault.
- G and H check in one transaction and write in another; sessions are many.
- I writes two tables of a foreign SDK with a fallback to SQL, and reads the
  current status a moment before; J is shared by the threads of a server and
  forgotten by its restart; K acts on a machine that reboots, hangs and loses
  the very login the next script needs.
- All of them are restarted, at any point, from whatever was stored.

`PROJECT.json` lists under `hazards` each of these at its line, with the
properties that would catch it going wrong, or the reason why none does yet.

## 2. Modules

| Module | What it is |
|---|---|
| `TaskControl` | A, with the gateway as its calls see it |
| `GatewaySession` | B |
| `EventLog` | C |
| `NodeIssue` | abstract specification: what D promises for a rule, a target and an action |
| `DetectionLifecycle` | D, with the refinement mapping to `NodeIssue` |
| `PatrolRun` | E, with rules that return findings |
| `RuleSources`, `JobRules` | F: the rules as operators, of nodes and switches, and of jobs |
| `PatrolRules` | F at work: the rules over readings, reboots, outages and retried jobs |
| `RuleRefinement` | G |
| `Feedback` | H |
| `NodeStatus` | I: the statuses and their transitions |
| `NodeLifecycle` | I: the tools that write them |
| `Guardrails` | J |
| `SkuSpec` | L: the tables and checks as operators |
| `NodePipeline` | K, with L's match |
| `MC...` | the instances TLC runs: model values and small sets |
| `...Proofs` | theorems and their proofs: of the module it is named after; `GatewayProofs` of B and C, `PatrolProofs` of E and F, `NodeOperationsProofs` of J, K and L |

A definition named "Mutant" in a comment is never used by a specification. It
is how a plausible bug would read, kept beside the definition it would
replace to show that the properties see the difference.

### TaskControl

One session stands for all: sessions share no row. An actor (a request, the
handler of an event, a call of `reconcileOnce`) is the sequence of calls it
still has to make, `todo[a]`; a step executes the first and may put others in
its place. So each SQL statement and each gateway call is one step, whatever
the actor had read is frozen in the calls, and every interleaving of the code
is one of the model.

| Action | Code |
|---|---|
| `SubmitTask`, `Insert` | `routes/tasks.ts` POST /sessions/:id/tasks: look for an active task, then insert |
| `SendMessage`, `Reopen`, `ReopenWrite`, `SendChat`, `ContinueChat` | `routes/messages.ts`, `reopenLatestForSession` |
| `ResumeSession`, `CompleteTask`, `CancelTask` | `routes/proxy.ts`, `routes/tasks.ts` |
| `ReadForUpdate`, `WriteStatus` | the two halves of `TaskStore.updateStatus` |
| `PromoteNextPending`, `SendPrompt`, `ResendPrompt` | `promoteNext`: `sendMessage`, then `resume` when it failed |
| `ReceiveEvent` | the pump starts `applyEventToTask`; `EventCalls` is its switch |
| `ListTask`, `GetState`, `Sync`, `ResumePrompt`, `PassBQuery` | `reconcileOnce`, with the task that has run for 30 minutes without activity |
| `LoopInit` ... `GatewayRestart` | the gateway, reduced to its status and to prompts accepted and loops running |
| `ServerRestart` | the process ends: what actors had left to do is lost |

`History` is the set of events of the session's past. A reader chooses
`after_seq` and streams are replayed after a reconnection, so any of them may
be applied at any time and again. A fault is a call that fails, before or
after the gateway acted on it, a user's interrupt or a restart. `sendMessage` and
the `resume` that follows its failure are two calls, so a prompt whose answer was
lost is delivered twice, or is at work while its task goes on to `error`.

Left out: `message_senders`, output previews and usage columns, on which no
decision depends. The gateway answering 404 is a call that throws.
`promoteNext`'s missing agent or session is its failed send: both put the task
in error.

### GatewaySession

One session, `Loops` the query loops that can be under way at once. A loop
runs between two awaits without interruption: one action per event the SDK
yields, per exception and per timer. The SDK is external: it may yield for
ever, may throw at any time (after its result too) and ends its stream only
after a result. `conv` is whether the session has a conversation to resume;
`fresh` a loop that found none and queries anew. `meta` is `meta.json`.
Published events are `EventLog`'s.

### EventLog

The ring buffer, the counter and the file of one session. Events are pushed in
the order of their seq, so buffer and file are sets ordered by seq; the proved
invariant says that this is sound (`SeqsUnique`). `epoch` is a history variable that tells
apart two events to which two processes gave the same seq. `live` events are
published (saved and handed to the open streams); the others,
`session.state_changed`, are only appended. A handler here has no await: one
action each. Paging with `before_seq` and the deletion of a session are left
out.

### NodeIssue and DetectionLifecycle

One rule, target and action; its signals share findings and nothing else does.
Each database call is a step, because each is a transaction of its own;
`Execute` is the action of a new finding: `attempts` counts how often it was
tried and `carried` how often it was carried out (both history), because
`execute_finding` may answer False and `lifecycle.py:66` goes on all the same.
Counters saturate at their
thresholds, the one value they are compared with, and `expires_at` is whether
it is set, with the choice of when it has passed. A condition is observed in
every cycle (`incidara_agents/skills/automate-detection-pattern/references/schema.md:212`),
an event when it happens. `Abandon` is a failed call or a killed process. What
`refresh_active_finding` writes is evidence and a heartbeat that nothing in
the lifecycle reads.

`NodeIssue` has two variables: whether there is an open issue, and the signals
that keep it open. It says that a signal joins an open issue, leaves it if
another stays, and that only the recovery of the last keeper closes it.
`DetectionLifecycle` implements it with `open` the existence of an active
finding and `keepers` the signals whose row is linked to one.

### PatrolRun

One collector and one rule. `run[j]` is how far a process has come; each
database call, the collection, the judgement and the action is a step
(`Collect`, `LoadRules`, `Recover`, `CheckFinding`, `Execute`,
`InsertFinding`), and a process may be killed between any two (`Abandon`).
`Tick` is cron with `flock -n`; `TestRuleOnce` is the tool, which takes no
lock; `CreateFinding` a session's own finding; `SyncCrontab` the daemon.
`Execute` is `execute_finding` by stage, with the task that an action creates.
A source that does not answer loses the targets it would have shown. What a
rule keeps between runs is left to `PatrolRules`.

### RuleSources, JobRules and PatrolRules

Each rule of `rule_sources.py` that keeps state or counts is an operator: from
what was collected from a target (which texts came back, what they count, whether
they name a fault) and what the rule kept, to its observation and what it keeps.
Texts are abstracted to that; a target stands for one of each part a rule loops
over. Thresholds carry the code's names, so that an instance can scale them.
`PatrolRules` follows one signal per behaviour: rows of two signals meet only in
the finding, which is `DetectionLifecycle`'s. `Check` is a run over the whole
fleet. `facts` and `grew` record what the world did.
`JobRules` has the job rules and the attempts they are given, cached in a file
that all processes share; a job is its rank, a retry an attempt of its own.

### RuleRefinement

One rule. An example is a repair case with a finding; code is the set of examples
it fires on, because the sandbox computes from the frozen input. A call of
`update_rule_code` is `UpdateCode`, `ReplaySuite`, `CheckCoverage`, `LiveTest`,
`Archive`, `Write`, each its own step: the two statements of the last transaction
are apart because the SELECT of the first takes no lock. `InsertLink`,
`ReadLink`, `WriteLink` attribute a label; `ListFeedback`, `CheckFixture`,
`CreateFixture` freeze labels into fixtures. The behaviour a label expects is a
parameter of its own: given, or, as the tools leave it by default, the one a new
row derives from its label and an existing row keeps. `lived`, `gated`, `lost`
and `judged` are history.

### Feedback

The board of problems, of which rows are only appended: `CheckProblem` and
`ReadProblem`, `AppendProblem` are the two transactions of `update_problem`.
`SelectUnjudged` and `JudgeFindings` are the statements of
`record_finding_verdict_from_case`.

### NodeStatus and NodeLifecycle

`NodeStatus` is `STATUS_METADATA` and the actions it derives. `NodeLifecycle` is
one node: a call takes its time, reads the current status, and inserts an action
and a status (`Resolve`, `WriteAction`, `WriteStatus`), or after a refusal both by
SQL (`WriteRaw`). Rows carry the time their call took, so a later row can have an
earlier time, and the current status is the latest by time, as the SDK reads it.
A completion takes its time in one step and commits in another (`CompleteRMA`,
`StoreComplete`; `InitiateRMA`, `StoreInitiate`). The tools that look for the
node's onboard record (`onboard`) answer `not_found` and write nothing when there
is none, or none with an address. Operators may call `complete_rma` and
`reallocate_node` without a poll, whatever the status of the node is (`CallComplete`,
`CallReallocate`). `stay` and `again` are history: the stay a completion was decided
for, and whether it had been completed already.
`Work` is the whole of a reallocation's work, which `NodePipeline` has.

### Guardrails

One server process, whose threads take no lock. Each access to the dictionaries of
the breaker is a step: a check reads the state, counts the failures and trips, or
reads the test and takes it (`ReadState`, `CountFailures`, `HaltCircuit`, `ReadTest`,
`UseTest`, `ResetTest`); a failure is appended, the list read and replaced, counted,
and the circuit tripped (`AppendFailure`, `PruneFailures`, `WriteFailures`, `CountLog`,
`TripCircuit`); a success clears both (`ClearFailures`, `FindCircuit`, `CloseCircuit`).
So two calls that take the same test, a failure that the rebuild of another loses,
and a test reset late are behaviours. `alone` is history: the call met no other in
the breaker. `halted`, `trip`, `seen`, `since` are what the call that sent an alert
saw, and `failed` the failures that were recorded one at a time.

### SkuSpec and NodePipeline

`SkuSpec` translates the tables and every check of `sku_spec.py` over an abstract
report of the hardware; versions are their rank among those the code compares
with. In `NodePipeline` a call is the sequence of scripts, polls and requests it
still has to make; each may fail half-way and the call may be killed. To Kubernetes
a node is out, a member that is silent, or one that is ready (`cluster`), and its
heartbeat comes and goes. A kubespray job waits for its turn as long as it takes:
this poll loop repeats failing polls and has no limit; the ones of a running job
and of a node that joins give up. A job status the code has no name for ends the
wait as a success does. What a script does to logins, RAID and later stages is
taken from `bundles/`. One agent works on a node at a time, as the skills prescribe.

## 3. What is checked

| Run | Bounds | Shows |
|---|---|---|
| `TaskControlSafety` | a running and a queued task, 2 handlers, 1 reconciler, no fault, one loop | `OnePromoter`, `NeverRequeued`, `ManualCompletedByOwner`, `FirstDecisionWins` under all interleavings of handlers and reconciler |
| `TaskControlQueue` | 2 tasks, 1 request, 1 reconciler, 1 fault, fairness | `QueueDrains`, `PendingNotSent` |
| `EventLogStream` | ring of 2, pages of 2, 5 events, 1 reader, 2 faults | `StreamComplete`, `PagingComplete`, `DeliveredInOrder` |
| `GatewaySessionRuns` | 2 loops, 2 retries, 1 restart, fairness | `WorkingHasLoop`, `InterruptStops` |
| `DetectionCron` | 2 conditions and an event with different thresholds, 2 findings, 1 fault, fairness | `OneActive`, `OneAttemptPerFinding`, `ThresholdLinked`, `ImplementsIssue`, `RecoveryCloses` |
| `PatrolRun` | 2 targets shown by different sources, 2 processes and the tool, 1 fault, 3 changes, fairness | `BoundedRepeats`, `DetectsSick`, `ClosesRecovered` |
| `PatrolRules` | every rule; 2 targets for the rules that compare targets; counts up to 4; attempts of 4 jobs on 2 nodes, of which a node remembers 2 | `RestsOnGrowth`, `OutageOpensNothing`, `FaultFound`, `AlertedOnceUnlessCrowdedOut`, `BlamedAcrossJobs` |
| `RuleRefinement` | 2 sessions, 2 examples, 2 stages, 4 calls | `GatedCodePasses`, `Restorable`, `FixturesJudged` |
| `Feedback` | 2 sessions, 2 findings, 1 case, 5 rows, 5 calls | `NoStageSkipped`, `VerdictKept` |
| `NodeRepair` | 2 operators and a recycler, 2 tickets, 2 moves, 1 fault, any onboard record, fairness | `StatusHasAction`, `FromWasReal`, `StayCompletedOnce`, `RepairedNodeReturns` |
| `Guardrails` | 2 sessions, 2 nodes, 1 action, 2 failures trip, 4 calls, 1 restart, 2 ticks | `OneTest`, `FailuresHalt`, `RepeatsSpaced` |
| `NodePipeline` | an H200 as sold, one with a disk lost, a storage node without its shelf; 2 calls, 2 faults, fairness | `LoginLeft`, `ConfigLogins`, `AllocatesConfigured`, `CallsReturn` |

A run checks the properties that could really be wrong. The type invariants are
proved, and `TerminalHasEnd`, `SeqsUnique`, `VersionsLived` and `OneCronRun` are
proved and not run again.

**Why the bounds are enough.** In A every decision concerns one task and the
latest of the session, so two tasks give an earlier and a later one, a queued
and an active one; the code compares ids only for order. Two are not enough for
`QueueDrains`, where an active task, a later one that pass A lists in its stead
and a queued one are three: `Shadowed` is that state, `TaskControlBehindTwo`,
run by hand, checks the property for a task queued behind two, and
`QueueNeverShadowed` that it fails without the exception. Interleavings that go
wrong in such code need two actors; the safety run has two handlers of any
events against a reconciler, the queue run a request against it with a fault.
The product of them is out of reach; for the safety properties the proofs cover
it. In C a ring of two overflows after the third event, pages of two leave a
remainder, and two faults allow two restarts, or a lost write and a restart.
Readers do not interact, so one is enough. In B two loops are what a second
prompt while running gives, and two retries show the first, a middle and the
last attempt. In D the two conditions have thresholds 1 and 2 the opposite way
round, and two findings give one that was closed and one opened later. In E two
targets of which one is shown by the source that may be missing, and three
changes: fall ill, recover, and a change of collector, rule or task between. In
F a count up to 4 holds two growths and a reboot; thresholds are scaled to the
smallest values that keep "below", "at" and "above" apart, and 3 is the larger
of the numbers of consecutive failures; four jobs crowd two out of what a node
remembers. In G and H two sessions are a check and a write overtaken by another;
four calls are two labels, their fixtures and an update, or two fixtures made by
hand, an update and a rollback, and five rows are every stage of a patch with
one more update between. In I other agents may write between any two steps of
the first; two moves bring a node to repair and away, or complete one stay
twice. In J four calls are two failures, and two checks that meet at the test;
time runs past a window and a cooldown. In K the second call finds what a first
that failed anywhere left behind, and each can meet a fault of its own.

**Bounds that stop a counter** are `MaxTasks`, `MaxLoops`, `MaxFaults` (A),
`MaxSeq`, `MaxLogFaults` (C), `Loops`, `MaxFaults` (B), `MaxFindings`,
`MaxFaults` (D), `MaxFaults`, `MaxTurns` (E), `MaxErrs`, `MaxLogs` (F),
`MaxCalls` (G, H, K), `MaxGuardCalls` (J), `MaxRows` (H), `MaxMoves`, `Tickets`,
`MaxFaults` (I), `MaxTime`, `MaxRestarts` (J), `MaxFaults` (K). `Observe`
reports nothing bad when the bound on findings would stop the run in the middle
of opening one. `MaxRetries`, `MaxEvents`, `PageLimit` and the thresholds are
parameters of the program itself.

**Deadlock** is checked in `TaskControl`, `EventLog`, `DetectionLifecycle` and
`PatrolRules`. A deleted session of `GatewaySession` has nothing left to do; the
other modules are tools that stop when nobody calls them any more.

**Fairness.** A: the event loop runs every pending continuation
(`WF(NextCall)`), the reconciler's interval fires (`WF(ListTask)`), a prompt
the gateway accepted begins and a turn ends; nothing is assumed of users, of
events, of interrupts or of restarts. B: the SDK yields, throws or ends some
day and timers fire (`WF(LoopStep)`); nothing is assumed of requests. That the
loop does end is not assumed: `InterruptStops` holds because the next event,
whatever it is, ends it. D: cron starts the job again and a run makes
progress (`WF(RunStep)`). E: cron ticks, the daemon that keeps the crontab looks
again, and a process that is not killed goes on. F: the job comes back
(`WF(Check)`); that a target can be read is not assumed but a premise of
`FaultFound`. I: a call once begun goes on and the recycler's job comes back
(`WF(Step)`); of the vendor nothing is assumed. K: a call goes on (`WF(Goes)`), but
for the wait for the turn of its job: that a job starts or ends is not assumed, and
that no call waits for the turn of its job for ever is a premise of `CallsReturn`.

`QueueDrains` is conditional, as the code is: an active task that is not looked
at because a later one is listed (`Shadowed`) holds the queue for ever, a task
that waits for its owner holds it, an owner who keeps chatting keeps the session
active, and a session in error is not prompted again by the reconciler.

The properties of J are about what the code gives without a lock: `OneTest`
counts the tests of checks that met no other call in the breaker, and
`FailuresHalt` the failures that were recorded one at a time.
`StayCompletedOnce` is about the polls of the recycler, which see the status; a
completion that is called directly asks for nothing, and counts as one that
later polls have to respect. `RepairedNodeReturns` is about nodes whose onboard
record is found.

### Where the code disagrees with what is said of it

While modelling, these sentences turned out not to hold. Each has a property that
states it and a cfg that is run by hand; TLC answers with a trace. Where the cfg has a
star it is the one of the run above, with the property in place of its own.

| cfg | Property | Said | Does |
|---|---|---|---|
| `TaskControlStaleFailure` | `FailureDetected` | `sse-task-updater.ts:269-270`: the reconciler will eventually detect the stale state | an earlier task left running behind a later failed one is never listed (`task-reconciler.ts:40-45`) |
| `TaskControlEarlierTask` | `EarlierTerminalKept` | `task-reconciler.ts:33-36`: only the latest task is synced, earlier terminal states are not overridden | the filter by status comes before the choice of the latest |
| `EventLogReconnect` | `SkipsOnlySeen` | `tests/routes-events-reconnect.test.ts:8`: Last-Event-ID skips events already seen | after a restart a seq is reused (`session-store.ts:97-103`), and the event that has it is skipped unseen |
| `GatewaySessionPrompt` | `FreshPromptRuns` | `gateway/src/routes/messages.ts:26-27`: the abort controller of a session being restarted is reset | not of a session in `waiting_input`: the prompt is accepted and stopped |
| `GatewaySessionRestart` | `RestartInterrupts` | `gateway/README.md:56`: non-terminal sessions are restored as interrupted | one at work comes back as completed, from a snapshot up to 10 s old |
| `DetectionTool` | `OneActive` | `automate-detection-pattern/references/schema.md:231`: findings dedupe at rule, target and action | `test_rule_once(dry_run=False)` takes no lock and opens a second |
| `PatrolRecovered` | `ClosedMeansRecovered` | `run_collector_job.py:186-188`: targets not in the findings have recovered | so are targets that were not collected: a source that is down closes their findings |
| `PatrolStages` | `OnlyAutoCordonActs` | `automate-detection-pattern/SKILL.md:33`: submit_alert sends alerts, no cordon | `actions.py:65-69` carries out cordon and drain at that stage |
| `PatrolCache` | `OnlyOwnJobs` | `nfd_data_sources.py:901-902`: completed jobs do not change, so caching is safe | the file is keyed by the time window, not by the filter: a collector is given jobs it excludes |
| `NodeRepair` * | `NothingHalfWritten` | `db_write.py:118-119`: action and status are written in one transaction, both or neither | they are two inserts of two clients (`:147-148`): a refused status leaves its action |
| `NodeRepair` * | `CompletedInUa` | `mcp_server.py:2046`: complete_rma moves a node ua -> ready_ua | it asks for no status: a node that left ua is moved all the same |
| `Guardrails` * | `OneTestEver` | `blast_radius.py:157`: exactly one test execution is allowed | two calls read the flag (`:178`) before either sets it (`:184`) |
| `NodePipeline` * | `AllocatesMembers` | `mcp_server.py:2804`: all stages and the Kubernetes scale-up completed | a job status without a name of its own leaves the wait as a success (`config.py:318-339`, `:365-368`) |
| `NodeEscalation` | `AnomalousEscalated` | `check_completed_tickets` (`mcp_server.py:2543-2546`): an anomalous ticket escalates to triaged_unknown | `STATUS_METADATA` allows no such move from ua, and `move_node_status` has no fallback |

Two more show, in the same way, what no sentence denies. `ActionCarriedOut`, of
`DetectionCron`: an action that failed is not tried again, because its finding
is inserted all the same (`lifecycle.py:66`). `QueueNeverShadowed`, of
`TaskControlBehindTwo`: a task left running behind a later interrupted one is
not listed by pass A (`task-reconciler.ts:40-45`) and active for pass B
(`:240`), so a third waits for ever.

Other things noticed, that are facts about one line and need no model: a label
corrected without a behaviour keeps that of the label before
(`knowledge_db.py:323-327`), so that the fixture of a bad finding may ask the
rule to fire; a job crowded out of the 50 last names by later ones is alerted in
every run (`rule_sources.py:602`); the update of a problem fails on a database
made by `infra/postgresql/init.sql`, whose `UNIQUE(problem_id)` contradicts rows
that are appended; the link `record_finding_verdict_from_case` would add is
refused for its `label_source`; `_k8s_restart_device_pods` passes a keyword its
callee does not have, and the error is swallowed (`config.py:391-393`); nothing
sets `reconciliation_dirty`; after a failed half-open test within a window as
long as the cooldown the circuit stays open until a verified success or a
restart (`blast_radius.py:178`); a storage node that lost its whole shelf of
disks is another SKU and is allocated as such (an `ASSUME` of `MCNodePipeline`
shows it); `_fuzz_match` of the H200 has three rows for four SKUs.

## 4. What is proved

TLAPS checks the theorems of the eight `...Proofs` modules for every value of
the constants under the named assumptions of the modules: sizes are natural
numbers, thresholds at least 1, `History` a set of events.

- **TaskControl.** `IInv` says of the rows that the submitted ones are the first
  `created`, that a task whose prompt was sent has left the queue, and
  `TerminalHasEnd` and `OnePromoter`; and of what each actor still has to do that
  it consists of `GoodCalls`: a send, resume or getState is about a task that
  left the queue, a status that is going to be written is never `pending`, is
  `completed` only for an auto task, and is stamped if it is terminal. The
  properties alone are not inductive, because what an actor writes was decided
  from what it read some steps ago; `GoodCalls` says what is still true of such
  a decision when it is executed, and holds of it because a task never goes
  back to the queue and never changes its mode (`Evolves`). From `IInv` follow
  `TypeCorrect`, `TerminalTasksHaveEnd`, `PendingPromptNotSent` and
  `OneActorPromotes` (which counts a sender and its second try, but not the
  auto-resume of a task that left the queue before), and from a step of it `TasksNeverRequeued`,
  `OwnerCompletesManualTasks` and `DecisionsNeverChange`, for any number of
  requests, handlers and overlapping reconcilers.
- **EventLog** (`GatewayProofs`). `LogInv` adds to `SeqsUnique` and `StreamComplete`
  that every set of events has a last one (needed to speak of the last id) and
  `ReadersBehind`: what the reader of an open stream has is older than the next
  event, or not beyond its position. `IdsAreUnique`, `StreamsAreComplete`,
  `StreamsAreOrdered`. `PagesAreComplete`, for every size of ring and page, rests
  on facts about finite sets of distinct numbers (the first and the newest `n` of
  a set, and that pages of them in turn leave nothing between) and on
  `DropsOldest`: what the ring has lost is older than all that it still holds.
- **GatewaySession** (`GatewayProofs`). `WorkingHasLoop` is inductive together with
  the types: a loop ends only where it settles the status or has settled it before,
  and recovery settles every status it restores. `WorkIsDoneByLoop`, for any number
  of loops, retries and restarts.
- **DetectionLifecycle.** For any number of runs, locked or not: the findings and
  the runs about to insert one are together no more than the attempted actions, and
  what is more of these is accounted for by failed runs (`ActionInv`, hence
  `FindingsAreAttempted`), and the state a run carries is linked
  when its count is at the threshold, except while it is opening the finding
  (`LinkInv`, hence `ThresholdsAreLinked`). With one run at a time, which the flock
  gives the cron job, `ReadsHold` adds that what the run read is still true when
  it acts on it, and `FindingsAreUnique` and the refinement
  `LifecycleImplementsIssue` follow. The assumption `SingleRun` is in the statement
  of these two; `CronRunsAlone` below proves it of the cron job, and `DetectionTool`
  shows that it is needed.
- **PatrolRun** (`PatrolProofs`). `BoundedRepeats` counts executions against
  insertions, faults and the runs that are about to insert, so its proof counts the
  runs of a target that stand at their insertion: a step changes their number by at
  most one, and by one only together with an execution, an insertion or a fault.
  With the types and the rule the tool carries (`ToolHasRule`) it is inductive:
  `RepeatsAreBounded`, for any number of processes, targets and changes of the
  configuration. `CronRunsAlone`: the lock that a tick takes only when it is free is
  held by whoever runs, however runs end.
- **PatrolRules** (`PatrolProofs`). What a rule keeps between runs is worth what it
  was computed from, whatever happened to the machine since: `CountersRest` ties the
  remembered counts and the row to the growths the world made between readings
  (`FindingsRestOnGrowth`, rule by rule, across reboots, outages and lost texts), and
  `DownAsCounted` the row of a switch to the runs in which the switch itself was
  down. `OutagesOpenNothing` assumes fleets larger than `BULK_FAILURE_THRESHOLD`, and
  than one switch for UFM: the code tells an outage of the way from failures of
  switches by their number, and in a smaller fleet it cannot. `ToldAreRemembered`
  says that a job that was in an alert is remembered by its node, or crowded out by
  as many later ones as the rule remembers (`ALERTED_JOBS`), whatever is trimmed:
  `JobsAreAlertedOnce` follows for any number of jobs. `BlameSpansJobs` needs
  nothing: whatever the cache holds was an
  attempt once.
- **NodeLifecycle.** For any number of agents, tickets and faults. A call that is
  about to write a status has its action in the table already (`ExplainedInv`,
  hence `StatusExplained`). A call that is about to write an action took its `from`
  from a status the node had, and had earlier: the statuses only grow, so it is
  there still when the row is written (`SourceInv`, hence `SourcesReal`). A
  completion that is stored is later than the stay it was decided on, and the status
  has moved on: a poll afterwards decides on a later row, so `again` is never set for
  what a poll decided (`StayInv`, hence `StayNotCompletedAgain`).
- **RuleRefinement.** `GateInv`: a call past its replay passes the fixtures it
  began with, which only grow (`GateHolds`). `VersionInv`: whoever is going to
  overwrite code has archived what was live, and the only code that escapes was
  written in between, which `lost` records (`CodeRestorable`). `JudgedInv`: what
  the rows say now, the fixtures that calls carry and those that were made of
  feedback were all said by one row at one time (`FixturesWereSaid`).
- **Feedback.** The two halves of `update_problem` see different rows, so the
  property is not inductive: `SeenEarned` says of a call between them that the
  stage it asks for was earned by rows there were, and rows are never taken away.
  A stage kept by the merge was earned by the row it is taken from
  (`StagesKept`, for any number of sessions, updates and rows). `VerdictsKept`: the
  statement that writes verdicts chooses among the unjudged findings again, whatever
  the session selected before.
- **Guardrails** (`NodeOperationsProofs`). `GuardInv`, for any number of sessions,
  actions and nodes and over the single reads and writes, is five invariants over the
  types. `AloneKept`: a check that is alone meets nobody in the breaker until it leaves
  it, and a failure that is alone meets no other outcome. `TestsKept`: no call or alert
  knows of a trip to come, and while the test of a trip can still be taken no undisturbed
  call has it (`TestsAreSingle`). `FailuresKept`: of failures recorded one at a time the
  log holds all that lie in the window, and a circuit is open since the last of them
  whenever the last `MaxFailures` lie in one window; `PassKept`: so a call that passed
  was not halted (`FailuresHaltCalls`). `SpacingKept`: the cooldown remembers whatever
  was recorded, and what a call saw recorded is a cooldown old (`RepeatsAreSpaced`).
- **NodePipeline** (`NodeOperationsProofs`). `NodeInv` is about what a call has still
  to do, because a call that stops half-way leaves the node to the next. `LoginLeft`
  is inductive with the types: whatever removes a login leaves another
  (`LoginsAreLeft`). `ConfigPlan`: the first step of a configuration goes in as a login
  there is and makes `operator`, the others go in as that and none removes it
  (`ConfigurationsHaveLogins`). `AllocationPlan`: as long as an allocation is to come,
  everything that is not done is among the steps before it (`Owed`), and behind a step
  that clears the node everything is done again (`Ordered`); polls come first and end
  only with a job that made the node a member (`Joined`) or whose status has no name
  in the code (`PollsFirst`). So nothing is owed when `allocate` is reached
  (`AllocatedNodesAreConfigured`), for every table of nodes.
- **SkuSpec** (`NodeOperationsProofs`). About the tables themselves, for every report a
  node could give: no two SKUs of a category pass (`SkuUnique`), so `match` does not depend on the
  order of the list (`MatchDecides`); the fuzzy match of the H200 never names its
  last SKU (`LastH200NeverNamed`).

Every invariant and action property that a run checks is so stated by a theorem,
and `ImplementsIssue` with it. Only model-checked are the eight liveness properties:
`QueueDrains`, `InterruptStops`, `RecoveryCloses`, `DetectsSick`, `ClosesRecovered`,
`FaultFound`, `RepairedNodeReturns` and `CallsReturn`. Liveness under fairness and
ENABLED are beyond this prover.

## 5. Not modelled, and the plan

Not modelled of the modelled components is what `PROJECT.json` says per component:
texts, evidence, listings, statistics, read-only tools and routes, and the two
rules that match one pattern without state. What the shell scripts install, and
how SSH, Prometheus, UFM, Kubernetes and the vendor work inside, is external.

What follows, in order of importance:

1. `Scheduler`: ticks that overlap, a fire with a failed session, reuse mode,
   run-now against the tick. Abstract specification: a due schedule fires once.
2. `PermissionManager`: ask, answer, timeout; a request is settled once.
3. `Delegation`: the check for an open task and its creation, over `TaskControl`.
4. A composition of `TaskControl` with `GatewaySession` through an abstract
   gateway service that both sides are shown to fit, so that the gateway
   actions inside `TaskControl` are derived and no longer stated.
5. Proofs of what the first four add: that the composition keeps the invariants of
   both sides, and that a schedule fires once under the guard of `claimDue`.

Not planned: identity and permissions, usage and pricing, reports, the web
client, switch-operations, agent-evidence, feishu-bitable, skills and deployment.
They are pure functions of one request, input and output, or text; none has a
protocol.

## 6. Running it

    tlc -workers 2 -config TaskControlSafety.cfg MCTaskControl
    tlapm TaskControlProofs.tla

A cfg is run with the `MC` module named in `PROJECT.json`.
