---------------------------- MODULE NodePipeline ----------------------------
(***************************************************************************)
(* Work on ONE node: reset_node, run_config_stage, run_full_config,        *)
(* check_sku, scale_k8s_node, bmc_power_cycle, wait_for_boot and           *)
(* reallocate_node, as the node sees them.  A call is the sequence of steps*)
(* it still has to take; each is a script, a remote command, a poll or a   *)
(* request, may fail half-way, and may be the last one before the call is  *)
(* killed.                                                                 *)
(*                                                                         *)
(* One agent works on the node at a time, as the skills prescribe: nothing *)
(* in the code enforces it.  What a script does is what the shell scripts  *)
(* of bundles/ do to the logins and to the state later steps rely on.      *)
(***************************************************************************)
EXTENDS SkuSpec, FiniteSets

CONSTANTS
  Hardware,    \* Bound: the nodes there may be, by name: category and report of the hardware
  MaxPolls,    \* polls of a running kubespray job
  MaxCalls,    \* Bound: calls of tools
  MaxFaults    \* Bound: failed steps, crashes of the node, killed calls

ASSUME PipelineAssumption ==
  /\ \A n \in DOMAIN Hardware :
       Hardware[n].category \in {"h200", "b300", "ctrl", "cpu", "storage"}
  /\ MaxPolls \in Nat \ {0} /\ MaxCalls \in Nat /\ MaxFaults \in Nat

VARIABLES
  node,      \* its name in Hardware
  power,     \* the chassis power is on
  up,        \* the node runs its system
  users,     \* the logins it has, of operator and ubuntu
  done,      \* the stages it went through since it came back, or was last cleared
  raid,      \* "none", "defined" by config_raid, "active" from the next boot on
  cluster,   \* "out" of Kubernetes, or a member the API calls "ready" or "silent"
  job,       \* the state of the kubespray job of the last scale-up
  status,    \* ready_ua, and what reallocate_node made of it
  tool,      \* the tool being called
  todo,      \* the steps the call still has to take
  polls,     \* polls the running job has had
  calls,     \* calls that may still begin
  faults     \* faults left

machine == <<node, power, up, users, done, raid, cluster>>
bounds  == <<calls, faults>>
vars    == <<machine, job, status, tool, todo, polls, bounds>>

category == Hardware[node].category

\* What gen_sku writes for the node, and read_sku reads.
SkuOf[n \in DOMAIN Hardware] == Match(Hardware[n].info, SpecOf(Hardware[n].category))

Logins == {"operator", "ubuntu"}

\* A step: what is run, and as whom.
As(u, s) == [run |-> s, user |-> u]
AsOperator(names) == [i \in DOMAIN names |-> As("operator", names[i])]

-----------------------------------------------------------------------------
(* The plans: _CATEGORY_PIPELINES with _STAGE_TRIGGERS, then Kubernetes.   *)

DiskSteps == IF category = "storage" THEN <<"config_img">>
             ELSE <<"config_raid", "reboot", "check_raid">>

Stages ==
  {"create_user", "config_apt", "install_general", "harden_node", "install", "config"}
    \cup (IF category = "storage" THEN {"config_img"} ELSE {"config_raid"})

DevicePods == IF category \in {"h200", "b300"} THEN <<"device_pods">> ELSE <<>>

\* The first stage runs as the login that works, the others as operator.
\* Mutant: the stages after the first before it.
HardenFirst(first) ==
  AsOperator(<<"config_apt", "install_general", "harden_node">>) \o <<As(first, "create_user")>>
    \o AsOperator(DiskSteps \o <<"install", "config", "scale">>)

\* collect_sbsysinfo and read_sku.
ReadSku(u) == <<As(u, "sysinfo"), As(u, "check_sku")>>

FullConfig(first) ==
  <<As(first, "create_user")>>
    \o AsOperator(<<"sync_time", "config_apt">>) \o ReadSku("operator")
    \o AsOperator(<<"install_general", "harden_node">>)
    \o AsOperator(DiskSteps)
    \o AsOperator(<<"install", "config", "delete_pods", "scale">> \o DevicePods)

\* run_reset.
Reset == AsOperator(<<"teardown", "create_debug_user">>) \o <<As("ubuntu", "clear_node")>>

Allocation == ReadSku("operator") \o AsOperator(<<"allocate">>)

\* probe_ssh as one login, then as the other: the first that works.
Reachable(first) ==
  IF ~ up THEN {} ELSE IF first \in users THEN {first} ELSE users

-----------------------------------------------------------------------------
(* How a step ends.                                                        *)

Fault == faults > 0 /\ faults' = faults - 1 /\ UNCHANGED calls
NoFault == UNCHANGED bounds

Goto(plan) == todo' = plan
Continue == Goto(Tail(todo))

\* An exception ends the call; reallocate_node moves the node to triaged_unknown.
Raise ==
  /\ Goto(<<>>)
  /\ status' = IF tool = "reallocate_node" THEN "triaged_unknown" ELSE status

Passes == Continue /\ UNCHANGED status

Running(names) == todo # <<>> /\ Head(todo).run \in names

-----------------------------------------------------------------------------
(* Scripts: run_init_stage.                                                *)

\* A script kills the processes of the logins it removes: run as one of them it ends itself.
\* Mutant: it survives.
Survives(s) == FALSE
SelfDefeating(s) ==
  \/ s.run \in {"harden_node", "create_debug_user"} /\ s.user = "ubuntu"
  \/ s.run = "clear_node" /\ s.user = "operator"

\* The logins there are once s is through, and those there may be if it stops half-way.
After(s) ==
  CASE s.run \in {"create_user"}         -> users \cup {"operator"}
    [] s.run \in {"create_debug_user"}   -> users \cup {"ubuntu"}
    [] s.run \in {"harden_node"}         -> users \ {"ubuntu"}
    [] s.run \in {"clear_node"}          -> users \ {"operator"}
    [] OTHER                             -> users
HalfWay(s) == {users, After(s)} \cup (IF s.run = "create_debug_user" THEN {users \ {"ubuntu"}} ELSE {})

Wipes(s) == s.run \in {"teardown", "clear_node"}

Script ==
  LET s == Head(todo)
      able == up /\ s.user \in users /\ ~ SelfDefeating(s)
      Wiped(member) == done' = {} /\ raid' = "none" /\ cluster' = IF member THEN cluster ELSE "out"
      Kept == UNCHANGED <<done, raid, cluster>>
  IN
  /\ Running(Stages \cup {"sysinfo", "check_raid", "teardown", "create_debug_user", "clear_node"})
  /\ \/ /\ able /\ (s.run = "check_raid" => raid = "active")
        /\ users' = After(s)
        /\ IF Wipes(s) THEN Wiped(s.run # "teardown")
           ELSE /\ done' = done \cup ({s.run} \cap Stages)
                /\ raid' = IF s.run = "config_raid" /\ raid = "none" THEN "defined" ELSE raid
                /\ UNCHANGED cluster
        /\ Passes /\ NoFault
     \/ /\ able /\ Fault /\ Raise
        /\ users' \in HalfWay(s)
        /\ IF Wipes(s) THEN Wiped(TRUE) \/ (s.run = "teardown" /\ Wiped(FALSE)) ELSE Kept
     \/ /\ ~ able \/ (s.run = "check_raid" /\ raid # "active")
        /\ Raise /\ NoFault /\ UNCHANGED users /\ Kept
  /\ UNCHANGED <<node, power, up, job, tool, polls>>

\* sync_node_time: a remote command.
SyncTime ==
  /\ Running({"sync_time"})
  /\ \/ up /\ "operator" \in users /\ Passes /\ NoFault
     \/ ~ (up /\ "operator" \in users) /\ Raise /\ NoFault
     \/ Fault /\ Raise
  /\ UNCHANGED <<machine, job, tool, polls>>

\* read_sku: the hardware is none of the configurations known.
CheckSku ==
  /\ Running({"check_sku"})
  /\ NoFault
  /\ IF SkuOf[node] = "match failed" THEN Raise ELSE Passes
  /\ UNCHANGED <<machine, job, tool, polls>>

-----------------------------------------------------------------------------
(* Booting.                                                                *)

Boots == up' = TRUE /\ raid' = IF raid = "defined" THEN "active" ELSE raid

\* reboot_and_wait.  The command fails; the node is not seen going down, though it may have
\* rebooted; it goes down and does not come back; or a probe fails while it is still up, which
\* is taken for the reboot.
RebootAndWait ==
  /\ Running({"reboot"})
  /\ LET able == up /\ "operator" \in users IN
     \/ able /\ Boots /\ Passes /\ NoFault /\ UNCHANGED power
     \/ /\ able /\ Fault /\ Raise
        /\ \/ Boots /\ UNCHANGED power
           \/ UNCHANGED <<up, raid, power>>
           \/ up' = FALSE /\ UNCHANGED raid /\ power' \in BOOLEAN
     \/ able /\ Fault /\ Passes /\ UNCHANGED <<up, raid, power>>
     \/ ~ able /\ Raise /\ NoFault /\ UNCHANGED <<up, raid, power>>
  /\ UNCHANGED <<node, users, done, cluster, job, tool, polls>>

\* bmc_power_cycle: off, on, poll, reset the BMC, poll.  What a poll leaves is the power, that no
\* session could be established, or that ipmitool did not return, and the code looks for "on" in it.
Answers == {IF power' THEN "Chassis Power is on" ELSE "Chassis Power is off",
            "Unable to establish IPMI v2 / RMCP+ session", "BMC unreachable"}
Confirms(answer) == answer \in {"Chassis Power is on", "Unable to establish IPMI v2 / RMCP+ session"}

PowerCycle ==
  /\ Running({"power_cycle"})
  /\ \/ /\ power' = TRUE /\ up' = FALSE /\ Passes /\ NoFault
     \/ /\ Fault /\ power' \in BOOLEAN /\ up' \in {FALSE, up /\ power'}
        /\ \E answer \in Answers : IF Confirms(answer) THEN Passes ELSE Raise
     \/ Fault /\ Raise /\ UNCHANGED <<power, up>>
  /\ UNCHANGED <<node, users, done, raid, cluster, job, tool, polls>>

\* The node boots once it has power, sooner or later or never.
BootsUp ==
  /\ power /\ ~ up /\ Boots
  /\ UNCHANGED <<node, power, users, done, cluster, job, status, tool, todo, polls, bounds>>

\* wait_for_boot: somebody can log in before the time is over.
WaitForBoot ==
  /\ Running({"wait_for_boot"})
  /\ IF Reachable("operator") # {} THEN Passes ELSE Raise
  /\ UNCHANGED <<machine, job, tool, polls, bounds>>

-----------------------------------------------------------------------------
(* Kubernetes: deleting pods never fails the call; _k8s_scale_node asks    *)
(* the kubespray service.                                                  *)

\* _k8s_force_delete_pods.
DeletePods ==
  /\ Running({"delete_pods"}) /\ Passes
  /\ UNCHANGED <<machine, job, tool, polls, bounds>>

\* _k8s_restart_device_pods.
RestartDevicePods ==
  /\ Running({"device_pods"}) /\ Passes
  /\ UNCHANGED <<machine, job, tool, polls, bounds>>

\* A node the API calls Ready is left alone, if the API can be asked; else a job is submitted.
\* A request that fails may have been taken by the service.
ScaleNode ==
  /\ Running({"scale"})
  /\ \/ cluster = "ready" /\ Passes /\ NoFault /\ UNCHANGED job
     \/ /\ job' = "queued" /\ Goto(<<As("operator", "queued")>> \o Tail(todo))
        /\ NoFault /\ UNCHANGED status
     \/ Fault /\ Raise /\ job' \in {job, "queued"}
  /\ UNCHANGED <<machine, tool, polls>>

\* Phase 1: poll for as long as the job is queued or the polls fail.  A status that is none of
\* queued, running and failed ends the call's wait, and an answer without one ends the call.
PollQueued ==
  /\ Running({"queued"})
  /\ \/ job = "failed" /\ Raise /\ NoFault /\ UNCHANGED polls
     \/ job = "running" /\ Goto(<<As("operator", "running")>> \o Tail(todo))
        /\ polls' = 0 /\ NoFault /\ UNCHANGED status
     \/ job \in {"succeeded", "other"} /\ Passes /\ NoFault /\ UNCHANGED polls
     \/ Fault /\ Raise /\ UNCHANGED polls
  /\ UNCHANGED <<machine, job, tool>>

\* Phase 2: so many polls.  One may raise and end the call; one that fails in another way, or
\* finds any other status, is followed by the next.
\* Mutants: the polls are not counted; the last is taken for success.
PollsLeft == polls < MaxPolls

NotCounted == UNCHANGED polls
Counted == polls' = polls + 1

Patient == Passes
GivesUp == Raise

PollRunning ==
  /\ Running({"running"})
  /\ \/ PollsLeft /\ job = "succeeded" /\ Passes /\ NoFault /\ UNCHANGED polls
     \/ PollsLeft /\ job = "failed" /\ Raise /\ NoFault /\ UNCHANGED polls
     \/ PollsLeft /\ Counted /\ NoFault /\ UNCHANGED <<todo, status>>
     \/ PollsLeft /\ Fault /\ Raise /\ UNCHANGED polls
     \/ ~ PollsLeft /\ GivesUp /\ NoFault /\ UNCHANGED polls
  /\ UNCHANGED <<machine, job, tool>>

\* The service: the job waits for its turn, runs, and joins the node or fails; or it ends in a
\* way the code has no name for.
JobStarts ==
  /\ job = "queued" /\ job' = "running"
  /\ UNCHANGED <<machine, status, tool, todo, polls, bounds>>

JobEnds ==
  /\ \/ job = "running" /\ up /\ job' = "succeeded" /\ cluster' = "ready"
     \/ job = "running" /\ job' = "failed" /\ UNCHANGED cluster
     \/ job \in {"queued", "running"} /\ job' = "other" /\ UNCHANGED cluster
  /\ UNCHANGED <<node, power, up, users, done, raid, status, tool, todo, polls, bounds>>

\* What the API calls a member follows, in time, from its kubelet being heard.
Heartbeat ==
  /\ cluster = (IF up THEN "silent" ELSE "ready")
  /\ cluster' = IF up THEN "ready" ELSE "silent"
  /\ UNCHANGED <<node, power, up, users, done, raid, job, status, tool, todo, polls, bounds>>

-----------------------------------------------------------------------------
(* The tools.                                                              *)

Begin(name, plan) ==
  /\ todo = <<>> /\ calls > 0 /\ calls' = calls - 1
  /\ tool' = name /\ Goto(plan)
  /\ UNCHANGED <<machine, job, status, polls, faults>>

\* reset_node: on the node if operator can log in, else only the BMC's password.
ResetNode ==
  Begin("reset_node", IF up /\ "operator" \in users THEN Reset ELSE <<>>)

\* run_config_stage: one stage, as ubuntu if there is such a login, else as operator.
RunConfigStage ==
  \E s \in Stages \cup {"check_raid", "clear_node"}, u \in Reachable("ubuntu") :
    Begin("run_config_stage", <<As(u, s)>>)

RunFullConfig == \E u \in Reachable("ubuntu") : Begin("run_full_config", FullConfig(u))

\* check_sku, collect_sysinfo: as operator, or as ubuntu if check_sku cannot.
CheckSkuTool == \E u \in Reachable("operator") : Begin("check_sku", ReadSku(u))

CollectSysinfo == Begin("collect_sysinfo", ReadSku("operator"))

ScaleK8sNode == Begin("scale_k8s_node", AsOperator(<<"scale">> \o DevicePods))

BmcPowerCycle == Begin("bmc_power_cycle", AsOperator(<<"power_cycle">>))

WaitForBootTool == Begin("wait_for_boot", AsOperator(<<"wait_for_boot">>))

\* reallocate_node: a node nobody can log in to is power cycled and reset first.
ReallocateNode ==
  \/ \E u \in Reachable("operator") :
        Begin("reallocate_node", FullConfig(u) \o Allocation)
  \/ /\ Reachable("operator") = {}
     /\ Begin("reallocate_node", AsOperator(<<"power_cycle", "wait_for_boot">>) \o Reset
                                   \o FullConfig("ubuntu") \o Allocation)

\* clone_onboard_record and insert_allocated_ua: NodeLifecycle has their failures.
Allocated == status' = "allocated_ua" /\ Continue /\ NoFault

Allocate ==
  /\ Running({"allocate"})
  /\ \/ Allocated
     \/ Fault /\ Raise
  /\ UNCHANGED <<machine, job, tool, polls>>

Killed ==
  /\ todo # <<>> /\ Fault /\ Goto(<<>>)
  /\ UNCHANGED <<machine, job, status, tool, polls>>

\* The node hangs or loses power.
Crash ==
  /\ up /\ Fault /\ up' = FALSE /\ power' \in BOOLEAN
  /\ UNCHANGED <<node, users, done, raid, cluster, job, status, tool, todo, polls>>

-----------------------------------------------------------------------------
\* The node comes back from repair, in whatever state it was when it left.
Init ==
  /\ node \in DOMAIN Hardware
  /\ power \in BOOLEAN /\ up \in {FALSE, power}
  /\ users \in (SUBSET Logins) \ {{}}
  /\ done = {} /\ raid \in {"none", "defined", "active"}
  /\ cluster \in {"out", "silent", "ready"} /\ job = "none"
  /\ status = "ready_ua" /\ tool = "none" /\ todo = <<>> /\ polls = 0
  /\ calls = MaxCalls /\ faults = MaxFaults

Goes ==
  \/ Script \/ SyncTime \/ CheckSku \/ RebootAndWait \/ PowerCycle \/ WaitForBoot
  \/ DeletePods \/ RestartDevicePods \/ ScaleNode \/ PollRunning \/ Allocate

Step == Goes \/ PollQueued

Tools ==
  \/ ResetNode \/ RunConfigStage \/ RunFullConfig \/ CheckSkuTool \/ CollectSysinfo
  \/ ScaleK8sNode \/ BmcPowerCycle \/ WaitForBootTool \/ ReallocateNode

Next == Step \/ Tools \/ JobStarts \/ JobEnds \/ Heartbeat \/ BootsUp \/ Killed \/ Crash

Spec == Init /\ [][Next]_vars

\* A call goes on, but for its wait for the turn of a job: those polls may fail for ever.
FairSpec == Spec /\ WF_vars(Goes)

-----------------------------------------------------------------------------
(* Properties.                                                             *)

StepNames ==
  {"create_user", "config_apt", "install_general", "harden_node", "install", "config", "config_img",
   "config_raid", "check_raid", "sysinfo", "check_sku", "sync_time", "teardown",
   "create_debug_user", "clear_node", "reboot", "power_cycle", "wait_for_boot", "delete_pods",
   "device_pods", "scale", "queued", "running", "allocate"}

TypeOK ==
  /\ node \in DOMAIN Hardware /\ power \in BOOLEAN /\ up \in BOOLEAN /\ (up => power)
  /\ users \subseteq Logins /\ done \subseteq Stages
  /\ raid \in {"none", "defined", "active"} /\ cluster \in {"out", "silent", "ready"}
  /\ job \in {"none", "queued", "running", "succeeded", "failed", "other"}
  /\ status \in {"ready_ua", "allocated_ua", "triaged_unknown"}
  /\ todo \in Seq([run : StepNames, user : Logins])
  /\ polls \in 0 .. MaxPolls /\ calls \in 0 .. MaxCalls /\ faults \in 0 .. MaxFaults

\* No step of a reset or a configuration, wherever it stops, leaves the node without a login:
\* the debug user is there before operator goes, and operator before the debug user does.
LoginLeft == users # {}

\* A script of the configuration is never run as a login the node does not have.
ConfigLogins ==
  tool = "run_full_config" /\ todo # <<>> => Head(todo).user \in users

\* reallocate_node allocates only a node whose hardware is that of a SKU of its category, that
\* went through every stage since it came back or was last cleared, runs on its disks, has the
\* login of operator, and is a member of the cluster, unless the last job ended in a way the code
\* has no name for: that it takes for success.
Prepared ==
  /\ \E i \in DOMAIN SpecOf(category).skus :
       Check(Hardware[node].info, SpecOf(category).skus[i])
  /\ Stages \subseteq done /\ (category # "storage" => raid = "active")
  /\ "operator" \in users
Configured == Prepared /\ (cluster # "out" \/ job = "other")
AllocatesConfigured == [][Running({"allocate"}) /\ Allocated => Configured]_vars

\* "all stages + k8s scale completed": what is allocated is a member of the cluster.
AllocatesMembers == [][Running({"allocate"}) /\ Allocated => cluster # "out"]_vars

\* Whatever the node does and however a job ends, a call of a tool ends, unless it waits for ever
\* for the turn of its job: that wait alone has no limit.
CallsReturn == []<>(~ Running({"queued"})) => (todo # <<>> ~> todo = <<>>)
=============================================================================
