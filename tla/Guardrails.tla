------------------------------ MODULE Guardrails ------------------------------
(***************************************************************************)
(* What stands between an agent and the cluster in node-operations: the    *)
(* per-node cooldown and the circuit breaker of blast_radius.py, as        *)
(* execute_node_action and verify_node_action use them.                    *)
(*                                                                         *)
(* All sessions of a role share one server, which runs each call in a      *)
(* thread, and no function takes a lock: each access to the breaker's       *)
(* dictionaries is a step, with the time it is made at.  A request to the   *)
(* Alert Manager and a kubectl command are steps.  The effect window is     *)
(* started and read by nobody: it is left out.                             *)
(***************************************************************************)
EXTENDS Integers, Sequences, FiniteSets

CONSTANTS
  Callers,          \* sessions of agents
  Hosts, Actions,   \* Actions: cordon, drain and alert
  MaxFailures,      \* CIRCUIT_BREAKER_MAX_FAILURES
  Window,           \* CIRCUIT_BREAKER_WINDOW_S
  CircuitCooldown,  \* CIRCUIT_BREAKER_COOLDOWN_S
  BlastCooldown,    \* BLAST_RADIUS_COOLDOWN_S
  MaxTime,          \* Bound: the last time
  MaxGuardCalls,    \* Bound: calls of execute_node_action and verify_node_action
  MaxRestarts       \* Bound: restarts of the server

ASSUME GuardAssumption ==
  /\ MaxFailures \in Nat \ {0} /\ Window \in Nat \ {0} /\ MaxTime \in Nat
  /\ CircuitCooldown \in Nat /\ BlastCooldown \in Nat
  /\ MaxGuardCalls \in Nat /\ MaxRestarts \in Nat

VARIABLES
  lastRun,      \* _cooldown_tracker
  failureLog,   \* _failure_log: failures; nothing depends on their order
  circuit,      \* _circuit_state: Closed, or when it tripped
  testDone,     \* _half_open_test_done
  call,         \* what each caller is doing
  clock, callsLeft, restarts,
  sent,         \* history: the alerts the Alert Manager took, with what their call knew
  recorded,     \* history: those of sent that record_action was called for
  failed,       \* history: the failures of an action since its last success, or since two
                \* outcomes of it were recorded at once
  trips         \* history: how often each circuit tripped

memory  == <<lastRun, failureLog, circuit, testDone>>
guardBounds == <<clock, callsLeft, restarts>>
history == <<sent, recorded, failed, trips>>
guardVars == <<memory, call, guardBounds, history>>

Closed == -1
Never == -BlastCooldown

Idle == [at |-> "idle"]
Set(c, r) == call' = [call EXCEPT ![c] = r]
BeginCall(c) == call[c].at = "idle" /\ callsLeft > 0 /\ callsLeft' = callsLeft - 1

\* Where a call is: in check_circuit, in record_failure or record_success, or about to trip the
\* circuit in a check, or to reset its test.
Checks == {"count", "test", "use"}
Records == {"prune", "write", "size", "trip", "find", "close"}
Resets == {"halt", "reset"}
Inside == Checks \cup Records \cup Resets
At(c, a, stages) == call[c].at \in stages /\ call[c].action = a

\* c goes on with r, alone if it meets no other call in those stages, and those it disturbs are
\* no longer alone.  (alone is history.)
Meets(c, a, stages) == \E d \in Callers \ {c} : At(d, a, stages)
Enter(c, r, meets, disturbs) ==
  call' = [d \in Callers |->
             IF d = c THEN [r EXCEPT !.alone = ~ Meets(c, r.action, meets)]
             ELSE IF At(d, r.action, disturbs) THEN [call[d] EXCEPT !.alone = FALSE]
             ELSE call[d]]

-----------------------------------------------------------------------------
(* The circuit breaker.                                                    *)

Recent(log, now) == {f \in log : now - f.at < Window}

\* Mutant: the circuit trips one failure late.
TripsLate(log) == Cardinality(log) > MaxFailures
Trips(log) == Cardinality(log) >= MaxFailures

TripAt(a, when) ==
  /\ circuit' = [circuit EXCEPT ![a] = when]
  /\ trips' = [trips EXCEPT ![a] = @ + 1]

\* MaxFailures failures fell in one window, the last of them a cooldown ago or less.
Halted(a) ==
  \E f \in failed[a] :
    /\ clock - f.at < CircuitCooldown
    /\ Cardinality({g \in failed[a] : f.at - Window < g.at /\ g.at <= f.at}) >= MaxFailures

\* check_circuit reads the state (halted, history: the circuit should stop this call) ...
ReadState(c) ==
  \E a \in Actions, h \in Hosts :
    /\ BeginCall(c)
    /\ IF circuit[a] # Closed /\ clock - circuit[a] < CircuitCooldown THEN UNCHANGED call
       ELSE Enter(c, [at |-> IF circuit[a] = Closed THEN "count" ELSE "test", action |-> a,
                      host |-> h, halted |-> Halted(a), alone |-> TRUE], Inside, Checks)
    /\ UNCHANGED <<memory, clock, restarts, history>>

\* trip (history): the trip whose test this call is.
Pass(c, trip) ==
  LET r == call[c] IN
  Set(c, [at |-> "circuit", action |-> r.action, host |-> r.host, halted |-> r.halted,
          alone |-> r.alone, trip |-> trip])

\* ... counts the failures of a closed circuit (_check_trip) ...
CountFailures(c) ==
  LET a == call[c].action IN
  /\ call[c].at = "count"
  /\ IF Trips(Recent(failureLog[a], clock)) THEN Set(c, [at |-> "halt", action |-> a])
     ELSE Pass(c, 0)
  /\ UNCHANGED <<memory, guardBounds, history>>

\* ... and trips it ...
HaltCircuit(c) ==
  LET a == call[c].action IN
  /\ call[c].at = "halt"
  /\ TripAt(a, clock)
  /\ Set(c, [at |-> "reset", action |-> a])
  /\ UNCHANGED <<lastRun, failureLog, testDone, guardBounds, sent, recorded, failed>>

\* ... or, half open, reads whether the test was used ...
ReadTest(c) ==
  /\ call[c].at = "test"
  /\ Set(c, IF testDone[call[c].action] THEN Idle ELSE [call[c] EXCEPT !.at = "use"])
  /\ UNCHANGED <<memory, guardBounds, history>>

\* ... and uses it.  Mutant: the test is not marked as used.
TestUnmarked(a) == UNCHANGED testDone
TestUsed(a) == testDone' = [testDone EXCEPT ![a] = TRUE]

UseTest(c) ==
  /\ call[c].at = "use"
  /\ TestUsed(call[c].action) /\ Pass(c, trips[call[c].action])
  /\ UNCHANGED <<lastRun, failureLog, circuit, guardBounds, history>>

\* Whoever trips the circuit resets its test afterwards; a success deletes it last.
ResetTest(c) ==
  /\ call[c].at = "reset"
  /\ testDone' = [testDone EXCEPT ![call[c].action] = FALSE]
  /\ Set(c, Idle)
  /\ UNCHANGED <<lastRun, failureLog, circuit, guardBounds, history>>

\* Outcomes that are recorded at once are not counted in failed.
StartRecord(c, r) ==
  /\ Enter(c, r, Records, Checks \cup Records)
  /\ UNCHANGED <<lastRun, circuit, testDone, guardBounds, sent, recorded, trips>>

\* record_failure appends.  (A list that is made or replaced between its lookup and the append
\* loses the failure, as a rebuild below does.)
AppendFailure(c) ==
  LET r == call[c]  f == [call |-> r.n, at |-> clock] IN
  /\ r.at = "verify" /\ ~ r.verified
  /\ failureLog' = [failureLog EXCEPT ![r.action] = @ \cup {f}]
  /\ failed' = [failed EXCEPT ![r.action] = IF Meets(c, r.action, Records) THEN {} ELSE @]
  /\ StartRecord(c, [at |-> "prune", action |-> r.action, failure |-> f, alone |-> TRUE])

\* It reads what is still in the window, and writes it as the new list.
PruneFailures(c) ==
  LET r == call[c] IN
  /\ r.at = "prune"
  /\ Set(c, [at |-> "write", action |-> r.action, failure |-> r.failure, alone |-> r.alone,
             kept |-> Recent(failureLog[r.action], r.failure.at)])
  /\ UNCHANGED <<memory, guardBounds, history>>

WriteFailures(c) ==
  LET r == call[c] IN
  /\ r.at = "write"
  /\ failureLog' = [failureLog EXCEPT ![r.action] = r.kept]
  /\ Set(c, [at |-> "size", action |-> r.action, failure |-> r.failure, alone |-> r.alone])
  /\ UNCHANGED <<lastRun, circuit, testDone, guardBounds, history>>

\* It counts the list, and trips the circuit as of the failure.
Count(r) == failed' = [failed EXCEPT ![r.action] = IF r.alone THEN @ \cup {r.failure} ELSE @]

CountLog(c) ==
  LET r == call[c] IN
  /\ r.at = "size"
  /\ IF Trips(failureLog[r.action])
     THEN Set(c, [r EXCEPT !.at = "trip"]) /\ UNCHANGED failed
     ELSE Set(c, Idle) /\ Count(r)
  /\ UNCHANGED <<memory, guardBounds, sent, recorded, trips>>

TripCircuit(c) ==
  LET r == call[c] IN
  /\ r.at = "trip"
  /\ TripAt(r.action, r.failure.at) /\ Count(r)
  /\ Set(c, [at |-> "reset", action |-> r.action])
  /\ UNCHANGED <<lastRun, failureLog, testDone, guardBounds, sent, recorded>>

\* record_success empties the list, and deletes the circuit if it finds one; two successes may
\* find the same, and the second raises.
ClearFailures(c) ==
  LET r == call[c] IN
  /\ r.at = "verify" /\ r.verified
  /\ failureLog' = [failureLog EXCEPT ![r.action] = {}]
  /\ failed' = [failed EXCEPT ![r.action] = {}]
  /\ StartRecord(c, [at |-> "find", action |-> r.action, alone |-> TRUE])

FindCircuit(c) ==
  LET r == call[c] IN
  /\ r.at = "find"
  /\ Set(c, IF circuit[r.action] = Closed THEN [at |-> "reset", action |-> r.action]
            ELSE [r EXCEPT !.at = "close"])
  /\ UNCHANGED <<memory, guardBounds, history>>

CloseCircuit(c) ==
  LET a == call[c].action IN
  /\ call[c].at = "close"
  /\ circuit' = [circuit EXCEPT ![a] = Closed]
  /\ Set(c, IF circuit[a] = Closed THEN Idle ELSE [at |-> "reset", action |-> a])
  /\ UNCHANGED <<lastRun, failureLog, testDone, guardBounds, history>>

-----------------------------------------------------------------------------
(* execute_node_action, once the circuit lets it pass.  seen (history): the *)
(* alerts whose cooldown the call could know of, at the time since.         *)

\* check_action for one node.  Blocked, the call leaves the test of the circuit used.
Cooling(a, h) == clock - lastRun[<<a, h>>] < BlastCooldown

CheckAction(c) ==
  LET r == call[c] IN
  /\ r.at = "circuit"
  /\ IF Cooling(r.action, r.host) THEN Set(c, Idle)
     ELSE Set(c, [at |-> "dispatch", action |-> r.action, host |-> r.host,
                  halted |-> r.halted, alone |-> r.alone, trip |-> r.trip,
                  seen |-> recorded, since |-> clock])
  /\ UNCHANGED <<memory, guardBounds, history>>

\* submit_triage_alert: the Alert Manager takes the alert, or the request fails, before or
\* after the Alert Manager took it.  The failure is counted for the tool, not for the action.
SubmitTriageAlert(c) ==
  LET r == call[c]
      Taken == sent' = Append(sent, [action |-> r.action, host |-> r.host, halted |-> r.halted,
                                     alone |-> r.alone, trip |-> r.trip, seen |-> r.seen,
                                     since |-> r.since, at |-> clock])
  IN
  /\ r.at = "dispatch"
  /\ \/ Taken /\ Set(c, [at |-> "record", action |-> r.action, host |-> r.host, n |-> Len(sent')])
     \/ (Taken \/ UNCHANGED sent) /\ Set(c, Idle)
  /\ UNCHANGED <<memory, guardBounds, recorded, failed, trips>>

\* Mutant: nothing is remembered.
Forgotten(a, h) == UNCHANGED lastRun
Remember(a, h) == lastRun' = [lastRun EXCEPT ![<<a, h>>] = clock]

RecordAction(c) ==
  LET r == call[c] IN
  /\ r.at = "record"
  /\ Remember(r.action, r.host)
  /\ recorded' = recorded \cup {r.n}
  /\ Set(c, Idle)
  /\ UNCHANGED <<failureLog, circuit, testDone, guardBounds, sent, failed, trips>>

-----------------------------------------------------------------------------
(* verify_node_action.                                                     *)

\* kubectl get node; if it fails the call raises, and nothing is counted for the action.  The
\* platform cordons the node (it handles every alert as a cordon), or not, and people uncordon
\* it: either answer is possible at any time.
VerifyNodeAction(c) ==
  /\ BeginCall(c)
  /\ \/ \E a \in Actions, unschedulable \in BOOLEAN :
          Set(c, [at |-> "verify", action |-> a, verified |-> unschedulable, n |-> callsLeft])
     \/ UNCHANGED call
  /\ UNCHANGED <<memory, clock, restarts, history>>

-----------------------------------------------------------------------------
(* Time and restarts.                                                      *)

Tick ==
  /\ clock < MaxTime /\ clock' = clock + 1
  /\ UNCHANGED <<memory, call, callsLeft, restarts, history>>

PerAction(x) == [a \in Actions |-> x]

\* Everything the guardrails know is in memory.
Restart ==
  /\ restarts > 0 /\ restarts' = restarts - 1
  /\ lastRun' = [p \in Actions \X Hosts |-> Never]
  /\ failureLog' = PerAction({}) /\ failed' = PerAction({})
  /\ circuit' = PerAction(Closed) /\ testDone' = PerAction(FALSE)
  /\ call' = [c \in Callers |-> Idle] /\ recorded' = {}
  /\ UNCHANGED <<clock, callsLeft, sent, trips>>

GuardInit ==
  /\ lastRun = [p \in Actions \X Hosts |-> Never]
  /\ failureLog = PerAction({}) /\ failed = PerAction({})
  /\ circuit = PerAction(Closed) /\ testDone = PerAction(FALSE)
  /\ call = [c \in Callers |-> Idle] /\ recorded = {}
  /\ clock = 0 /\ callsLeft = MaxGuardCalls /\ restarts = MaxRestarts
  /\ sent = <<>> /\ trips = PerAction(0)

CallStep(c) ==
  \/ ReadState(c) \/ CountFailures(c) \/ HaltCircuit(c) \/ ReadTest(c) \/ UseTest(c)
  \/ ResetTest(c) \/ CheckAction(c) \/ SubmitTriageAlert(c) \/ RecordAction(c)
  \/ VerifyNodeAction(c) \/ AppendFailure(c) \/ PruneFailures(c) \/ WriteFailures(c)
  \/ CountLog(c) \/ TripCircuit(c) \/ ClearFailures(c) \/ FindCircuit(c) \/ CloseCircuit(c)

GuardNext ==
  \/ \E c \in Callers : CallStep(c)
  \/ Tick \/ Restart

GuardSpec == GuardInit /\ [][GuardNext]_guardVars

-----------------------------------------------------------------------------
(* Properties.                                                             *)

Failure == [call : Nat, at : Nat]

GuardTypeOK ==
  /\ lastRun \in [Actions \X Hosts -> Nat \cup {Never}]
  /\ failureLog \in [Actions -> SUBSET Failure] /\ failed \in [Actions -> SUBSET Failure]
  /\ circuit \in [Actions -> Nat \cup {Closed}] /\ testDone \in [Actions -> BOOLEAN]
  /\ \A c \in Callers : call[c].at \in {"idle", "circuit", "dispatch", "record", "verify"} \cup Inside
  /\ clock \in 0 .. MaxTime /\ callsLeft \in 0 .. MaxGuardCalls /\ restarts \in 0 .. MaxRestarts
  /\ recorded \subseteq 1 .. Len(sent)

\* "exactly one test execution is allowed": of the alerts that test one trip of the circuit,
\* one at most comes from a check that met no other call in the breaker.  Those that did can
\* both find the test unused, or find it reset by the call that tripped the circuit long ago.
OneTest ==
  \A i, j \in 1 .. Len(sent) :
    /\ i # j /\ sent[i].action = sent[j].action /\ sent[i].trip = sent[j].trip
    /\ sent[i].alone /\ sent[j].alone
    => sent[i].trip = 0

\* The docstring as it stands, which two threads break (see the README).
OneTestEver ==
  \A i, j \in 1 .. Len(sent) :
    i # j /\ sent[i].action = sent[j].action /\ sent[i].trip = sent[j].trip => sent[i].trip = 0

\* "If the failure threshold is exceeded within the window, the circuit trips", as long as
\* outcomes are recorded one at a time: no alert is sent for a call that came when MaxFailures
\* such failures lay within a window, the last a cooldown back, whatever checks run beside them.
FailuresHalt == \A i \in 1 .. Len(sent) : ~ sent[i].halted

\* An action is not repeated on a node within the cooldown, except by a call that checked
\* before the first was recorded.
RepeatsSpaced ==
  \A j \in 1 .. Len(sent) : \A i \in sent[j].seen :
    sent[i].action = sent[j].action /\ sent[i].host = sent[j].host
      => sent[j].since - sent[i].at >= BlastCooldown
=============================================================================
