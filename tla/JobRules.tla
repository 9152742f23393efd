------------------------------ MODULE JobRules ------------------------------
(***************************************************************************)
(* The built-in rules of patrol-cron that judge nodes by the jobs which    *)
(* failed on them, and the attempts they are given: JobMetadataClient      *)
(* filters, fetches and caches them in a file all processes share.         *)
(*                                                                         *)
(* A job is its rank among the job names.  What is left of an attempt's    *)
(* task table is one task per node.  Thresholds keep the code's names.     *)
(***************************************************************************)
EXTENDS Integers, FiniteSets

CONSTANTS
  Jobs, Attempts,    \* the base jobs, and their attempts: pairs <<job, retry>>
  Nodes, Tables,     \* the tasks an attempt may end with, one per node
  Filter,            \* per collector, the jobs its filter selects, and at which level
  ALERTED_JOBS,      \* the jobs JOB_FAILURE_INVESTIGATION remembers per node
  FIRST_WINDOW, MAX_ROOTS, MAX_UNTIMED, CORDON_THRESHOLD, CO_FAILURE_THRESHOLD

Outcome == [kind : {"succeeded", "cascade", "failed", "timed"}, at : Nat]
Levels == {"job", "attempt"}
Collectors == DOMAIN Filter

ASSUME JobAssumption ==
  /\ Jobs \subseteq Nat /\ Attempts \subseteq Jobs \X Nat /\ Tables \subseteq [Nodes -> Outcome]
  /\ IsFiniteSet(Jobs) /\ IsFiniteSet(Attempts) /\ IsFiniteSet(Nodes)
  /\ \A c \in Collectors : Filter[c] \in [jobs : SUBSET Jobs, level : Levels]
  /\ \A n \in {ALERTED_JOBS, FIRST_WINDOW, MAX_ROOTS, MAX_UNTIMED, CORDON_THRESHOLD,
               CO_FAILURE_THRESHOLD} : n \in Nat \ {0}

-----------------------------------------------------------------------------
(* JOB_FAILURE_INVESTIGATION.                                              *)

\* The last names in their order are kept, whatever the age of the jobs.
\* Mutant: the first names are kept.
TrimmedFirst(S) == {j \in S : Cardinality({i \in S : i < j}) < ALERTED_JOBS}
Trimmed(S) == {j \in S : Cardinality({i \in S : i > j}) < ALERTED_JOBS}

Remembered(alerted, new) == Trimmed(alerted \cup new)

\* failed: the jobs with entries in the logs; serious: an entry names a CUDA error or a critical Xid.
Alert(failed, serious, alerted) == IF serious THEN failed \ alerted ELSE {}
JobFailure(failed, serious, alerted) ==
  LET new == Alert(failed, serious, alerted) IN
  IF new = {} THEN alerted ELSE Remembered(alerted, new)

-----------------------------------------------------------------------------
(* LARGE_JOB_FAILURE.                                                      *)

\* The nodes whose tasks failed first; without times, those that failed if they are few.
Timed(tasks) == {n \in Nodes : tasks[n].kind = "timed"}
Untimed(tasks) == {n \in Nodes : tasks[n].kind = "failed"}
FirstToFail(tasks) ==
  {n \in Timed(tasks) : \A o \in Timed(tasks) : tasks[n].at - tasks[o].at <= FIRST_WINDOW}
RootNodes(tasks) ==
  LET roots == IF Timed(tasks) # {} THEN FirstToFail(tasks)
               ELSE IF Cardinality(Untimed(tasks)) <= MAX_UNTIMED THEN Untimed(tasks) ELSE {} IN
  IF Cardinality(roots) <= MAX_ROOTS THEN roots ELSE {}

\* A job that several nodes began to fail is to blame itself.
RootsOfJob(j, got, table) == UNION {RootNodes(table[a]) : a \in {b \in got : b[1] = j}}
BadJobs(got, table) == {j \in Jobs : Cardinality(RootsOfJob(j, got, table)) >= CO_FAILURE_THRESHOLD}

\* Mutant: retries of one job count as so many jobs.
BlamingAttempts(n, got, table) ==
  {a \in got : n \in RootNodes(table[a]) /\ a[1] \notin BadJobs(got, table)}
BlamingJobs(n, got, table) ==
  {j \in Jobs \ BadJobs(got, table) : n \in RootsOfJob(j, got, table)}

\* The jobs of which a node is accused; the rule alerts when they are not those of last time.
LargeJobFailure(got, table, alerted) ==
  [n \in Nodes |-> LET jobs == BlamingJobs(n, got, table) IN
                   IF Cardinality(jobs) < CORDON_THRESHOLD THEN alerted[n] ELSE jobs]

-----------------------------------------------------------------------------
(* get_filtered_job_attempts.                                              *)

\* get_job_metadata: a process that has asked nothing yet is given every job or none.
Listed == {Jobs, {}}

\* A filter that an earlier attempt may answer otherwise is moved to the attempts.
Candidates(c, listed) == IF Filter[c].level = "job" THEN listed \cap Filter[c].jobs ELSE listed
Kept(c, got) == IF Filter[c].level = "job" THEN got ELSE {a \in got : a[1] \in Filter[c].jobs}

\* get_job_attempt_metadata: the attempts are asked for one by one, and each may fail to answer.
Answered(S) == SUBSET S

\* present: the attempts within the time window.
Fetches(c, present) ==
  UNION {Answered({a \in present : a[1] \in Candidates(c, listed)}) : listed \in Listed}
=============================================================================
