----------------------------- MODULE RuleSources -----------------------------
(***************************************************************************)
(* The built-in rules of patrol-cron (rule_sources.py) for nodes and       *)
(* switches: what each says of a target, and what it keeps for the next    *)
(* run, given what was collected and what it kept.                         *)
(*                                                                         *)
(* A target stands for one of each part a rule loops over (GPU, port,      *)
(* drive).  Texts are abstracted to what the rules read from them: two     *)
(* error counts and one other fault.  Thresholds keep the code's names, so *)
(* that an instance may scale them down.                                   *)
(***************************************************************************)
EXTENDS Integers, FiniteSets

CONSTANTS
  MIN_ERROR_LINES, MLX5_DELTA_THRESHOLD, SYMBOL_ERROR_DELTA_THRESHOLD, MIN_PORT_DELTA,
  BULK_FAILURE_THRESHOLD, SSH_FAILURE_THRESHOLD, UFM_FAILURE_THRESHOLD

CONSECUTIVE_REQUIRED == 2

ASSUME ThresholdAssumption ==
  /\ \A n \in {MIN_ERROR_LINES, MLX5_DELTA_THRESHOLD, SYMBOL_ERROR_DELTA_THRESHOLD,
               MIN_PORT_DELTA, BULK_FAILURE_THRESHOLD, SSH_FAILURE_THRESHOLD,
               UFM_FAILURE_THRESHOLD} : n \in Nat \ {0}

(* What was collected from a target.  has: which of the texts came back not*)
(* empty.  errs is read from "count", log and fault from "log".            *)
Payload == [ssh : BOOLEAN, outputs : BOOLEAN, has : SUBSET {"count", "log"},
            errs : Nat, log : Nat, fault : BOOLEAN]

(* What a rule keeps of a target: the counts it saw last; for GPU Xids also*)
(* the successive checks with new events and the count it last fired at.   *)
Memory == [errs : Nat, log : Nat, consecutive : 0 .. CONSECUTIVE_REQUIRED, fired : Nat]
NoMemory == [errs |-> 0, log |-> 0, consecutive |-> 0, fired |-> 0]

Verdict(isBad) == IF isBad THEN "bad" ELSE "healthy"
\* The observation of one signal ("none": the rule makes none), and what is kept.
Saw(status, m) == [status |-> status, keep |-> m]

-----------------------------------------------------------------------------
(* Nodes.                                                                  *)

\* An empty text is a healthy one.
NvlinkFm(p, m) == Saw(IF ~p.ssh THEN "unknown" ELSE Verdict(p.fault), m)

\* errs: the RxDetect lines of dmesg; fault: nvidia-smi hung.
NvswitchTray(p, m) ==
  Saw(IF ~p.ssh \/ ~p.outputs THEN "unknown"
      ELSE Verdict(p.errs >= MIN_ERROR_LINES \/ p.fault), m)

\* errs: the Xid lines of dmesg; fault: one of them is not transient, or three GPUs have some.
\* Mutant: a check without new events counts.
NewOrOldEvents(n, m) == n >= m.errs
NewEvents(n, m) == n > m.errs
GpuXid(p, m) ==
  LET n == p.errs
      again == IF ~NewEvents(n, m) THEN 0
               ELSE IF m.consecutive < CONSECUTIVE_REQUIRED THEN m.consecutive + 1
               ELSE CONSECUTIVE_REQUIRED
      next == [m EXCEPT !.errs = n, !.consecutive = again] IN
  IF ~p.ssh THEN Saw("none", m)
  ELSE IF n = 0 \/ n < m.errs THEN Saw("none", [m EXCEPT !.errs = n, !.consecutive = 0])
  ELSE IF n <= m.fired \/ again < CONSECUTIVE_REQUIRED \/ ~p.fault THEN Saw("none", next)
  ELSE Saw("bad", [next EXCEPT !.consecutive = 0, !.fired = n])

\* A count of 0, a missing text among them, starts over.
NicMlx5Errors(p, m) ==
  IF ~p.ssh THEN Saw("unknown", m)
  ELSE Saw(Verdict(p.errs > 0 /\ m.errs > 0 /\ p.errs - m.errs >= MLX5_DELTA_THRESHOLD),
           [m EXCEPT !.errs = p.errs])

\* fault: a port is down that is not a disabled Ethernet port.
NicIbDown(p, m) == Saw(IF ~p.ssh THEN "unknown" ELSE Verdict(p.fault), m)

\* errs: media errors; log: controller errors in dmesg; fault: a critical warning, little spare,
\* a degraded array, a failed disk.  What is not seen is forgotten.
\* Mutant: media errors of a drive never seen before are new ones.
MediaFirstSight(p, m) == p.errs > m.errs
MediaIncreasing(p, m) == p.errs > m.errs /\ m.errs > 0
H200Nvme(p, m) ==
  IF ~p.outputs THEN Saw("unknown", m)
  ELSE Saw(Verdict(MediaIncreasing(p, m) \/ p.log > m.log \/ p.fault),
           [m EXCEPT !.errs = p.errs, !.log = p.log])

\* fault: Prometheus, asked instead of the node, lists a port that is down.  No answer lists none.
IbLinkFlapping(p, m) == Saw(Verdict(p.ssh /\ p.fault), m)

\* errs: uncorrectable errors; fault: job logs mention one.  nvidia-smi that fails is passed over.
NvidiaEcc(p, m) ==
  LET read == p.ssh /\ "count" \in p.has IN
  Saw(IF p.fault \/ (read /\ p.errs > m.errs) THEN "bad" ELSE "none",
      IF read THEN [m EXCEPT !.errs = p.errs] ELSE m)

\* errs: bits of critical_warning; log: media errors and wear; fault: dmesg shows a dead drive,
\* before which the warning of another does not count.
StorageNvmeCritical(p, m) ==
  Saw(IF ~p.outputs THEN "unknown" ELSE Verdict(p.errs > 0 \/ p.fault), m)
StorageNvmeAlert(p, m) ==
  Saw(IF ~p.outputs THEN "unknown" ELSE Verdict(p.log > 0 /\ (p.errs = 0 \/ p.fault)), m)

-----------------------------------------------------------------------------
(* Switches.  A failure of many at once is taken for one of the network.   *)

NoAnswer(p) == ~p.ssh \/ ~p.outputs

\* got: what was collected from each switch.
BulkFailure(got) == Cardinality({t \in DOMAIN got : ~got[t].ssh}) > BULK_FAILURE_THRESHOLD
\* Mutant: outputs that are missing are not counted.
AllSilent(got) == (\A t \in DOMAIN got : ~got[t].ssh) /\ Cardinality(DOMAIN got) > 1
AllFailing(got) == (\A t \in DOMAIN got : NoAnswer(got[t])) /\ Cardinality(DOMAIN got) > 1

IbUnreachable(p, bulk, m) ==
  Saw(IF p.ssh THEN "healthy" ELSE IF bulk THEN "unknown" ELSE "bad", m)

\* A port not seen before had no errors; a count that fell is passed over.
IbSymbolErrors(p, m) ==
  IF ~p.ssh THEN Saw("none", m)
  ELSE Saw(Verdict(p.errs - m.errs >= SYMBOL_ERROR_DELTA_THRESHOLD), [m EXCEPT !.errs = p.errs])

\* errs: CRC errors; log: FCS errors; fault: a failed ssh names an algorithm the switch has not.
RuijiePortErrors(p, m) ==
  LET crc == p.errs - m.errs
      fcs == p.log - m.log IN
  IF ~p.ssh THEN IF p.fault THEN Saw("none", [m EXCEPT !.errs = 0, !.log = 0]) ELSE Saw("unknown", m)
  ELSE IF p.has = {} THEN Saw("unknown", m)
  ELSE Saw(Verdict(/\ (m.errs > 0 \/ m.log > 0) /\ (p.errs > 0 \/ p.log > 0)
                   /\ (crc > 0 \/ fcs > 0)
                   /\ crc + fcs >= MIN_PORT_DELTA),
           [m EXCEPT !.errs = p.errs, !.log = p.log])

UfmUnreachable(p, all, m) ==
  Saw(IF ~NoAnswer(p) THEN "healthy" ELSE IF all THEN "unknown" ELSE "bad", m)

\* fault: up for less than two minutes.
UfmRebooted(p, m) == Saw(IF ~NoAnswer(p) /\ p.fault THEN "bad" ELSE "none", m)

-----------------------------------------------------------------------------
(* The signals, and the lifecycle policy each comes with.                  *)

Events == {"b300_gpu_xid", "nvidia_ecc_error", "switch_ufm_rebooted"}
Bulk == {"switch_ib_ssh_unreachable", "switch_ufm_unreachable"}

OpenAfter ==
  [b300_nvlink_fm_bad |-> 3, b300_nvswitch_tray_failure |-> 2, b300_nic_mlx5_errors |-> 3,
   b300_nic_ib_down |-> 2, h200_nvme_health_issue |-> 1, ib_link_flapping |-> 2,
   storage_nvme_critical |-> 1, storage_nvme_alert |-> 1,
   switch_ib_ssh_unreachable |-> SSH_FAILURE_THRESHOLD, switch_ib_symbol_errors |-> 3,
   switch_ruijie_port_errors |-> 2, switch_ufm_unreachable |-> UFM_FAILURE_THRESHOLD]
CloseAfter == 2

Conditions == DOMAIN OpenAfter
Signals == Conditions \cup Events

\* analyze: the observation of signal s of target t.
Analyze(s, got, t, m) ==
  CASE s = "b300_nvlink_fm_bad"         -> NvlinkFm(got[t], m)
    [] s = "b300_nvswitch_tray_failure" -> NvswitchTray(got[t], m)
    [] s = "b300_gpu_xid"               -> GpuXid(got[t], m)
    [] s = "b300_nic_mlx5_errors"       -> NicMlx5Errors(got[t], m)
    [] s = "b300_nic_ib_down"           -> NicIbDown(got[t], m)
    [] s = "h200_nvme_health_issue"     -> H200Nvme(got[t], m)
    [] s = "ib_link_flapping"           -> IbLinkFlapping(got[t], m)
    [] s = "nvidia_ecc_error"           -> NvidiaEcc(got[t], m)
    [] s = "storage_nvme_critical"      -> StorageNvmeCritical(got[t], m)
    [] s = "storage_nvme_alert"         -> StorageNvmeAlert(got[t], m)
    [] s = "switch_ib_ssh_unreachable"  -> IbUnreachable(got[t], BulkFailure(got), m)
    [] s = "switch_ib_symbol_errors"    -> IbSymbolErrors(got[t], m)
    [] s = "switch_ruijie_port_errors"  -> RuijiePortErrors(got[t], m)
    [] s = "switch_ufm_unreachable"     -> UfmUnreachable(got[t], AllFailing(got), m)
    [] s = "switch_ufm_rebooted"        -> UfmRebooted(got[t], m)
=============================================================================
