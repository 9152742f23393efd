----------------------------- MODULE PatrolRules -----------------------------
(***************************************************************************)
(* The built-in rules at work: one signal of one rule is followed while    *)
(* cron collects and judges again and again, counts grow and start over    *)
(* with a reboot, faults come and go, targets and texts are missing.  The  *)
(* rows of two signals meet in the finding only, which DetectionLifecycle  *)
(* is about; so each signal is followed in a behaviour of its own.         *)
(*                                                                         *)
(* facts and grew are history: what the world did, against which the       *)
(* properties hold what the rules said.                                    *)
(***************************************************************************)
EXTENDS RuleSources, JobRules

CONSTANTS
  Fleet,     \* per signal, the targets that are collected
  Watched,   \* the signals to follow
  Mine,      \* the collector of LARGE_JOB_FAILURE
  MaxErrs,   \* Bounds: how far the counts go before a reboot
  MaxLogs

JobSignals == {"job_failure_investigation", "large_job_failure_root_cause"}
AllTargets == UNION {Fleet[s] : s \in Signals}

ASSUME FleetAssumption ==
  /\ Watched \subseteq Signals \cup JobSignals /\ Mine \in Collectors /\ MaxErrs \in Nat /\ MaxLogs \in Nat
  /\ DOMAIN Fleet = Signals /\ \A s \in Signals : IsFiniteSet(Fleet[s])

VARIABLES
  signal,    \* the signal that is followed
  world,     \* per target, its counts and faults, and what of it cannot be read
  outage,    \* what no target answers now
  kept,      \* rule_state of the rule, per target
  row,       \* detection_lifecycle_state of the signal, and whether its finding is active
  facts,     \* history, per target: see Facts
  grew,      \* history: the targets whose counts grew since they were last read
  table,     \* the tasks each attempt ends with (fixed from the start)
  present,   \* the attempts and, for JOB_FAILURE, the jobs, within the time window
  cache,     \* the file with the attempts
  alerted,   \* rule_state of the job rules
  told       \* history: how often a job was in an alert

nodeVars == <<world, outage, kept, row, facts, grew>>
jobVars == <<present, cache, alerted, told>>
rulesVars == <<signal, nodeVars, table, jobVars>>

-----------------------------------------------------------------------------
(* The world.                                                              *)

Errs == {"b300_nvswitch_tray_failure", "b300_gpu_xid", "b300_nic_mlx5_errors",
         "h200_nvme_health_issue", "nvidia_ecc_error", "storage_nvme_critical",
         "storage_nvme_alert", "switch_ib_symbol_errors", "switch_ruijie_port_errors"}
Logs == {"h200_nvme_health_issue", "storage_nvme_alert", "switch_ruijie_port_errors"}
Faults == Signals \ ({"b300_nic_mlx5_errors", "switch_ib_symbol_errors"} \cup Bulk)
Dicts == {"b300_nvswitch_tray_failure", "h200_nvme_health_issue", "storage_nvme_critical",
          "storage_nvme_alert", "switch_ufm_unreachable", "switch_ufm_rebooted"}
TwoTexts == {"b300_nvswitch_tray_failure", "h200_nvme_health_issue"}
Texts == IF signal \in TwoTexts THEN SUBSET {"count", "log"} ELSE {{}, {"count", "log"}}

Sound == [errs |-> 0, log |-> 0, fault |-> FALSE, dead |-> FALSE, bare |-> FALSE, mute |-> {}]
Becomes(t, w) == world' = [world EXCEPT ![t] = w]
Here == {t \in AllTargets : signal \in Signals /\ t \in Fleet[signal]}

Grow(t) ==
  LET w == world[t] IN
  /\ t \in Here
  /\ \/ signal \in Errs /\ w.errs < MaxErrs /\ Becomes(t, [w EXCEPT !.errs = @ + 1])
     \/ signal \in Logs /\ w.log < MaxLogs /\ Becomes(t, [w EXCEPT !.log = @ + 1])
  /\ grew' = grew \cup {t}
  /\ facts' = IF signal = "b300_gpu_xid" THEN [facts EXCEPT ![t] = IF @ < 2 THEN @ + 1 ELSE 2]
              ELSE facts
  /\ UNCHANGED <<signal, outage, kept, row, table, jobVars>>

\* Counts and kernel log start over.
Reboot(t) ==
  /\ t \in Here
  /\ Becomes(t, [world[t] EXCEPT !.errs = 0, !.log = 0])
  /\ UNCHANGED <<signal, outage, kept, row, facts, grew, table, jobVars>>

\* A fault comes or goes; a target, its outputs or one text can no longer be read, or can again.
FaultTurns(t) ==
  LET w == world[t] IN
  /\ t \in Here
  /\ \/ signal \in Faults /\ Becomes(t, [w EXCEPT !.fault = ~@])
     \/ Becomes(t, [w EXCEPT !.dead = ~@])
     \/ signal \in Dicts /\ Becomes(t, [w EXCEPT !.bare = ~@])
     \/ signal \notin Bulk /\ \E m \in Texts : Becomes(t, [w EXCEPT !.mute = m])
  /\ UNCHANGED <<signal, outage, kept, row, facts, grew, table, jobVars>>

\* The way to all of them is cut, or it is theirs to say nothing.
Outage ==
  /\ signal \in Bulk /\ \E o \in {"none", "ssh", "outputs"} : outage' = o
  /\ UNCHANGED <<signal, world, kept, row, facts, grew, table, jobVars>>

-----------------------------------------------------------------------------
(* A run of the rule over its fleet.                                       *)

Collected(t) ==
  LET w == world[t]
      ssh == ~w.dead /\ outage # "ssh"
      outputs == ssh /\ ~w.bare /\ outage # "outputs"
      has == IF outputs THEN {"count", "log"} \ w.mute ELSE {} IN
  [ssh |-> ssh, outputs |-> outputs, has |-> has,
   errs |-> IF "count" \in has THEN w.errs ELSE 0,
   log |-> IF "log" \in has THEN w.log ELSE 0,
   fault |-> w.fault /\ (ssh => has # {})]

\* _apply_condition_observation; the counters saturate at the values they are compared with.
Count(n, limit) == IF n < limit THEN n + 1 ELSE n

\* Mutant: an unknown observation ends a row of bad ones.
Forgotten(x) == [x EXCEPT !.bad = 0]
Unchanged(x) == x

Observed(x, status, openAfter) ==
  CASE status = "bad" ->
         LET n == Count(x.bad, openAfter) IN [bad |-> n, healthy |-> 0, open |-> x.open \/ n >= openAfter]
    [] status = "healthy" ->
         LET n == Count(x.healthy, CloseAfter) IN [bad |-> 0, healthy |-> n, open |-> x.open /\ n < CloseAfter]
    [] status = "unknown" -> Unchanged(x)
    [] status = "none" -> x

\* _apply_event_observation
Happened(x, status) == IF status = "bad" THEN [x EXCEPT !.open = TRUE] ELSE x

\* The successive readings with growth before each, of the signals about growth; the new events
\* since the last alert, of GPU Xids (a log that came back empty makes one of the old ones new);
\* the runs in which a switch was down itself since its last answer.
Growth == {"b300_nic_mlx5_errors", "h200_nvme_health_issue", "switch_ib_symbol_errors",
           "switch_ruijie_port_errors"}
Reads(p) == IF signal = "h200_nvme_health_issue" THEN p.outputs
            ELSE IF signal = "switch_ruijie_port_errors" THEN p.has # {} ELSE p.ssh
Facts(t, p, status) ==
  CASE signal \in Growth /\ Reads(p) -> IF t \in grew THEN Count(facts[t], 3) ELSE 0
    [] signal = "b300_gpu_xid" /\ status = "bad" -> 0
    [] signal = "b300_gpu_xid" /\ p.ssh /\ p.has = {} /\ facts[t] = 0 -> 1
    [] signal \in Bulk /\ status = "healthy" -> 0
    [] signal \in Bulk /\ status # "healthy" /\ (world[t].dead \/ world[t].bare)
         -> Count(facts[t], OpenAfter[signal])
    [] OTHER -> facts[t]

Check ==
  LET got == [t \in Here |-> Collected(t)]
      says == [t \in Here |-> Analyze(signal, got, t, kept[t])] IN
  /\ Here # {}
  /\ kept' = [t \in AllTargets |-> IF t \in Here THEN says[t].keep ELSE kept[t]]
  /\ row' = [t \in AllTargets |->
               IF t \notin Here THEN row[t]
               ELSE IF signal \in Events THEN Happened(row[t], says[t].status)
               ELSE Observed(row[t], says[t].status, OpenAfter[signal])]
  /\ facts' = [t \in AllTargets |-> IF t \in Here THEN Facts(t, got[t], says[t].status) ELSE facts[t]]
  /\ grew' = grew \ {t \in Here : Reads(got[t])}
  /\ UNCHANGED <<signal, world, outage, table, jobVars>>

-----------------------------------------------------------------------------
(* The job rules.                                                          *)

\* A job fails on the node, or leaves the window.
JobTurns ==
  /\ signal = "job_failure_investigation"
  /\ \E j \in Jobs : present' = IF j \in present THEN present \ {j} ELSE present \cup {j}
  /\ UNCHANGED <<signal, nodeVars, table, cache, alerted, told>>

Investigate ==
  /\ signal = "job_failure_investigation"
  /\ \E serious \in BOOLEAN :
       /\ told' = [j \in Jobs |-> IF j \in Alert(present, serious, alerted)
                                    THEN Count(told[j], 2) ELSE told[j]]
       /\ alerted' = JobFailure(present, serious, alerted)
  /\ UNCHANGED <<signal, nodeVars, table, present, cache>>

AttemptTurns ==
  /\ signal = "large_job_failure_root_cause"
  /\ \E a \in Attempts : present' = IF a \in present THEN present \ {a} ELSE present \cup {a}
  /\ UNCHANGED <<signal, nodeVars, table, cache, alerted, told>>

\* A cached answer serves whoever asks for about the same window within five minutes.
CacheExpires ==
  /\ cache # {} /\ cache' = {}
  /\ UNCHANGED <<signal, nodeVars, table, present, alerted, told>>

\* The rule's collector asks, and the rule judges; or another collector asks.
Ask(c) ==
  /\ signal = "large_job_failure_root_cause"
  /\ \E got \in IF cache # {} THEN {cache} ELSE Fetches(c, present) :
       /\ cache' \in IF cache # {} THEN {cache} ELSE {got, {}}
       /\ alerted' = IF c = Mine THEN LargeJobFailure(Kept(c, got), table, alerted) ELSE alerted
  /\ UNCHANGED <<signal, nodeVars, table, present, told>>

-----------------------------------------------------------------------------

RulesInit ==
  /\ signal \in Watched
  /\ world = [t \in AllTargets |-> Sound] /\ outage = "none"
  /\ kept = [t \in AllTargets |-> NoMemory]
  /\ row = [t \in AllTargets |-> [bad |-> 0, healthy |-> 0, open |-> FALSE]]
  /\ facts = [t \in AllTargets |-> 0] /\ grew = {}
  /\ IF signal = "large_job_failure_root_cause"
       THEN table \in [Attempts -> Tables] /\ alerted = [n \in Nodes |-> {}]
       ELSE table = <<>> /\ alerted = {}
  /\ present = {} /\ cache = {} /\ told = [j \in Jobs |-> 0]

RulesNext ==
  \/ \E t \in AllTargets : Grow(t) \/ Reboot(t) \/ FaultTurns(t)
  \/ Outage \/ Check
  \/ JobTurns \/ Investigate
  \/ AttemptTurns \/ CacheExpires \/ \E c \in Collectors : Ask(c)

\* cron comes back.
RulesSpec == RulesInit /\ [][RulesNext]_rulesVars /\ WF_rulesVars(Check)

-----------------------------------------------------------------------------
(* Properties.                                                             *)

Opens(t) == ~row[t].open /\ row'[t].open

\* A finding about growing errors opens only when the counts really grew before as many
\* successive readings as the policy asks for (the first reading of a symbol count compares with
\* 0), whatever reboots and lost texts came between; and a GPU Xid alert has two new events, seen
\* in two runs, since the one before it.
Needed == CASE signal = "h200_nvme_health_issue" -> 1
            [] signal = "switch_ib_symbol_errors" -> 2
            [] OTHER -> OpenAfter[signal]
RestsOnGrowth ==
  [][\A t \in AllTargets :
       /\ /\ signal \in Growth /\ Opens(t)
          /\ signal = "h200_nvme_health_issue" => ~world[t].fault /\ kept'[t].log <= kept[t].log
          => facts'[t] >= Needed
       /\ signal = "b300_gpu_xid" /\ kept'[t].fired # kept[t].fired => facts[t] >= 2]_rulesVars

\* When nobody answers because the way to all of them is cut, no switch is found unreachable: a
\* switch that is was down itself in as many runs as the policy asks for.
OutageOpensNothing ==
  [][\A t \in AllTargets :
       signal \in Bulk /\ Opens(t) => facts'[t] >= OpenAfter[signal]]_rulesVars

\* Runs in which the target cannot be read neither hide a lasting fault nor put it off for ever:
\* if it is read now and then, its finding opens and stays.
Steady == {"b300_nvlink_fm_bad", "b300_nvswitch_tray_failure", "b300_nic_ib_down",
           "h200_nvme_health_issue", "storage_nvme_critical"}
Legible(t) == Collected(t).has # {}
FaultFound ==
  \A t \in AllTargets :
    /\ <>[](signal \in Steady /\ t \in Here /\ world[t].fault /\ world[t].mute = {})
    /\ []<><<Check /\ Legible(t)>>_rulesVars
    => <>[](row[t].open)

\* A failed job is in one alert only, unless as many jobs as the rule remembers, with names after
\* its own, were in alerts too: then it is forgotten, and alerted again in run after run for as
\* long as it is within the window.
CrowdedOut(j) == Cardinality({i \in Jobs : i > j /\ told[i] >= 1}) >= ALERTED_JOBS
AlertedOnceUnlessCrowdedOut == \A j \in Jobs : told[j] <= 1 \/ CrowdedOut(j)

\* A node is accused only when it was first to fail in so many different jobs, however often they
\* were retried, and whichever collector filled the cache.
FirstIn(n, j) ==
  \E a \in Attempts : a[1] = j /\ n \in Timed(table[a]) \cup Untimed(table[a])
BlamedAcrossJobs ==
  [][signal = "large_job_failure_root_cause" =>
       \A n \in Nodes : alerted'[n] # alerted[n] =>
         Cardinality({j \in Jobs : FirstIn(n, j)}) >= CORDON_THRESHOLD]_rulesVars

\* The attempts a collector is given are those its filter selects.  (Not so: the cache file is
\* that of whoever fetched last.)
OnlyOwnJobs ==
  [][signal = "large_job_failure_root_cause" =>
       \A n \in Nodes : alerted'[n] # alerted[n] => alerted'[n] \subseteq Filter[Mine].jobs]_rulesVars
=============================================================================
