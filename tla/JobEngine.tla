------------------------------ MODULE JobEngine ------------------------------
(***************************************************************************)
(* The job engine: `POST /api/jobs`, `POST /api/jobs/{id}/cancel`, the RQ  *)
(* work horse running execute_job(), and the reconciliation sweep, all     *)
(* writing the `jobs` table in PostgreSQL (READ COMMITTED, no row lock     *)
(* taken by any of them, sessions that keep their loaded objects across    *)
(* commits).  A transaction is a read step that remembers what it saw and  *)
(* a later step that commits.  RQ's side (the entry kept in Redis for a    *)
(* job id) is external and modelled from how this code uses it.            *)
(***************************************************************************)
EXTENDS Naturals, FiniteSets

CONSTANTS
  Jobs,       \* the job ids clients may create
  Sweepers,   \* the reconciliation threads, one per worker process
  MaxHorses,  \* worker processes, each running one job at a time
  NoJob,      \* "the sweep holds no orphan"
  Faults      \* which failures the environment produces

ASSUME NoJobAssumption == NoJob \notin Jobs
ASSUME MaxHorsesAssumption == MaxHorses \in Nat \ {0}
ASSUME FaultsAssumption == Faults \subseteq {"crash", "redisLoss", "dbError", "publishError"}

VARIABLES
  status,      \* jobs.status, "ABSENT" while no row is committed
  startedAt,   \* jobs.started_at is set
  finishedAt,  \* jobs.finished_at is set
  evidence,    \* jobs.stdout and jobs.evidence_sha256 are set
  asset,       \* what jobs.target_id refers to, see AssetStates
  aged,        \* created_at is older than DEFAULT_STUCK_AFTER
  creator,     \* progress of the request creating the job
  canceller,   \* progress of a request cancelling the job
  entry,       \* RQ's entry for the job id, in Redis
  stopSent,    \* a stop command for the job is on its way to its worker
  horse,       \* progress of the work horse running execute_job()
  seen,        \* jobs.status as the work horse's session last loaded it
  targeted,    \* jobs.target_id was set when the session loaded the row
  exitCode,    \* what the tool returned to the work horse
  raised,      \* execute_job() ended with an exception
  toolRuns,    \* how many times the tool was started for the job
  todo,        \* the candidates a sweep has read and not yet looked at
  orphan       \* the candidate for which a sweep found no RQ entry

rowVars == <<status, startedAt, finishedAt, evidence>>
envVars == <<asset, aged>>
apiVars == <<creator, canceller>>
rqVars == <<entry, stopSent>>
horseVars == <<horse, seen, targeted, exitCode, raised, toolRuns>>
sweepVars == <<todo, orphan>>
vars == <<rowVars, envVars, apiVars, rqVars, horseVars, sweepVars>>

JobStatus == {"QUEUED", "RUNNING", "SUCCESS", "FAILED", "CANCELLED"}
Live == {"QUEUED", "RUNNING"}
Terminal == {"SUCCESS", "FAILED", "CANCELLED"}

(* No asset but a free-text target, fit to be scanned or it would have     *)
(* been refused; an asset that is_executable() or not; an asset deleted    *)
(* since, and target_id with it (ON DELETE SET NULL).                      *)
AssetStates == {"freeText", "executable", "blocked", "deleted"}

CreatorStates == {"idle", "flushed", "enqueued", "done", "aborted"}
CancellerStates == {"idle", "sawQueued", "sawRunning", "signalled"}
EntryStates == {"none", "queued", "started", "finished", "failed", "canceled", "gone"}

(* The work horse: forked by RQ; loaded the row; committed RUNNING; passed *)
(* the authorization check; running the tool; got its result; re-read the  *)
(* row and did not see CANCELLED; or failed, and then re-read the row      *)
(* likewise; then running the completion hooks.                            *)
Working == {"forked", "loaded", "running", "cleared", "tool", "returned",
            "refreshed", "errored", "failing"}
Active == Working \cup {"hooks"}
HorseStates == Active \cup {"none", "done", "killed"}

TypeOK ==
  /\ status \in [Jobs -> JobStatus \cup {"ABSENT"}]
  /\ startedAt \in [Jobs -> BOOLEAN]
  /\ finishedAt \in [Jobs -> BOOLEAN]
  /\ evidence \in [Jobs -> BOOLEAN]
  /\ asset \in [Jobs -> AssetStates]
  /\ aged \in [Jobs -> BOOLEAN]
  /\ creator \in [Jobs -> CreatorStates]
  /\ canceller \in [Jobs -> CancellerStates]
  /\ entry \in [Jobs -> EntryStates]
  /\ stopSent \in [Jobs -> BOOLEAN]
  /\ horse \in [Jobs -> HorseStates]
  /\ seen \in [Jobs -> JobStatus \cup {"ABSENT"}]
  /\ targeted \in [Jobs -> BOOLEAN]
  /\ exitCode \in [Jobs -> {"none", "zero", "nonzero"}]
  /\ raised \in [Jobs -> BOOLEAN]
  /\ toolRuns \in [Jobs -> Nat]
  /\ todo \in [Sweepers -> SUBSET Jobs]
  /\ orphan \in [Sweepers -> Jobs \cup {NoJob}]

Init ==
  /\ status = [j \in Jobs |-> "ABSENT"]
  /\ startedAt = [j \in Jobs |-> FALSE]
  /\ finishedAt = [j \in Jobs |-> FALSE]
  /\ evidence = [j \in Jobs |-> FALSE]
  /\ asset \in [Jobs -> {"freeText", "executable", "blocked"}]
  /\ aged = [j \in Jobs |-> FALSE]
  /\ creator = [j \in Jobs |-> "idle"]
  /\ canceller = [j \in Jobs |-> "idle"]
  /\ entry = [j \in Jobs |-> "none"]
  /\ stopSent = [j \in Jobs |-> FALSE]
  /\ horse = [j \in Jobs |-> "none"]
  /\ seen = [j \in Jobs |-> "ABSENT"]
  /\ targeted = [j \in Jobs |-> FALSE]
  /\ exitCode = [j \in Jobs |-> "none"]
  /\ raised = [j \in Jobs |-> FALSE]
  /\ toolRuns = [j \in Jobs |-> 0]
  /\ todo = [s \in Sweepers |-> {}]
  /\ orphan = [s \in Sweepers |-> NoJob]

(***************************************************************************)
(* The environment: authorization edits, time, and Redis.                  *)
(***************************************************************************)

\* PATCH on the asset: is_executable() changes at any time.
SetAuthorization(j) ==
  /\ asset' = [asset EXCEPT ![j] = CASE @ = "executable" -> "blocked"
                                     [] @ = "blocked" -> "executable"
                                     [] OTHER -> @]
  /\ UNCHANGED <<rowVars, aged, apiVars, rqVars, horseVars, sweepVars>>

\* DELETE of the asset of a committed job, which keeps the job's row.
DeleteAsset(j) ==
  /\ status[j] # "ABSENT" /\ asset[j] \in {"executable", "blocked"}
  /\ asset' = [asset EXCEPT ![j] = "deleted"]
  /\ UNCHANGED <<rowVars, aged, apiVars, rqVars, horseVars, sweepVars>>

\* created_at falls behind the sweep's cutoff.
Age(j) ==
  /\ status[j] # "ABSENT" /\ ~aged[j]
  /\ aged' = [aged EXCEPT ![j] = TRUE]
  /\ UNCHANGED <<rowVars, asset, apiVars, rqVars, horseVars, sweepVars>>

\* A finished entry outlives its result_ttl; failed and canceled entries are
\* kept by RQ for a year and only leave with a loss of Redis.
ExpireEntry(j) ==
  /\ entry[j] = "finished"
  /\ entry' = [entry EXCEPT ![j] = "gone"]
  /\ UNCHANGED <<rowVars, envVars, apiVars, stopSent, horseVars, sweepVars>>

\* A Redis restart without persistence, or eviction.
LoseEntry(j) ==
  /\ "redisLoss" \in Faults
  /\ entry[j] \notin {"none", "gone"}
  /\ entry' = [entry EXCEPT ![j] = "gone"]
  /\ UNCHANGED <<rowVars, envVars, apiVars, stopSent, horseVars, sweepVars>>

(***************************************************************************)
(* POST /api/jobs: authorization, flush, enqueue, and only then commit.    *)
(***************************************************************************)

CreateFlush(j) ==
  /\ creator[j] = "idle"
  /\ asset[j] \in {"freeText", "executable"}
  /\ creator' = [creator EXCEPT ![j] = "flushed"]
  /\ UNCHANGED <<rowVars, envVars, canceller, rqVars, horseVars, sweepVars>>

CreateEnqueue(j) ==
  /\ creator[j] = "flushed"
  /\ creator' = [creator EXCEPT ![j] = "enqueued"]
  /\ entry' = [entry EXCEPT ![j] = "queued"]
  /\ UNCHANGED <<rowVars, envVars, canceller, stopSent, horseVars, sweepVars>>

CreateCommit(j) ==
  /\ creator[j] = "enqueued"
  /\ creator' = [creator EXCEPT ![j] = "done"]
  /\ status' = [status EXCEPT ![j] = "QUEUED"]
  /\ UNCHANGED <<startedAt, finishedAt, evidence, envVars, canceller, rqVars, horseVars, sweepVars>>

\* The request dies or enqueue() raises: the flushed row is rolled back, and
\* whatever reached Redis stays there.
CreateAbort(j) ==
  /\ "crash" \in Faults
  /\ creator[j] \in {"flushed", "enqueued"}
  /\ creator' = [creator EXCEPT ![j] = "aborted"]
  /\ UNCHANGED <<rowVars, envVars, canceller, rqVars, horseVars, sweepVars>>

(***************************************************************************)
(* POST /api/jobs/{id}/cancel: an unlocked read, a signal to RQ chosen by  *)
(* the status read, then an unconditional CANCELLED.                       *)
(***************************************************************************)

CancelRead(j) ==
  /\ canceller[j] = "idle"
  /\ \/ status[j] = "QUEUED" /\ canceller' = [canceller EXCEPT ![j] = "sawQueued"]
     \/ status[j] = "RUNNING" /\ canceller' = [canceller EXCEPT ![j] = "sawRunning"]
  /\ UNCHANGED <<rowVars, envVars, creator, rqVars, horseVars, sweepVars>>

\* rq_job.cancel() when the entry is still there; a second cancel() of one
\* entry raises and the request fails before writing anything.
CancelEntry(j) ==
  /\ canceller[j] = "sawQueued"
  /\ \/ /\ entry[j] \in {"queued", "started", "finished", "failed"}
        /\ entry' = [entry EXCEPT ![j] = "canceled"]
        /\ canceller' = [canceller EXCEPT ![j] = "signalled"]
     \/ /\ entry[j] = "gone"
        /\ canceller' = [canceller EXCEPT ![j] = "signalled"]
        /\ UNCHANGED entry
     \/ /\ entry[j] = "canceled"
        /\ canceller' = [canceller EXCEPT ![j] = "idle"]
        /\ UNCHANGED entry
  /\ UNCHANGED <<rowVars, envVars, creator, stopSent, horseVars, sweepVars>>

\* Best effort: refused, silently, unless RQ says a worker runs the job now.
SendStop(j) ==
  /\ canceller[j] = "sawRunning"
  /\ canceller' = [canceller EXCEPT ![j] = "signalled"]
  /\ stopSent' = [stopSent EXCEPT ![j] = @ \/ entry[j] = "started"]
  /\ UNCHANGED <<rowVars, envVars, creator, entry, horseVars, sweepVars>>

CancelWrite(j) ==
  /\ canceller[j] = "signalled"
  /\ canceller' = [canceller EXCEPT ![j] = "idle"]
  /\ status' = [status EXCEPT ![j] = "CANCELLED"]
  /\ finishedAt' = [finishedAt EXCEPT ![j] = TRUE]
  /\ UNCHANGED <<startedAt, evidence, envVars, creator, rqVars, horseVars, sweepVars>>

\* The API process dies between the signal and the commit.
CancelAbort(j) ==
  /\ "crash" \in Faults
  /\ canceller[j] # "idle"
  /\ canceller' = [canceller EXCEPT ![j] = "idle"]
  /\ UNCHANGED <<rowVars, envVars, creator, rqVars, horseVars, sweepVars>>

(***************************************************************************)
(* The RQ worker and its work horse.                                       *)
(***************************************************************************)

(* An attribute set to the value the session had loaded emits no UPDATE:   *)
(* the column keeps whatever another session has committed since.          *)
WriteStatus(j, new) ==
  status' = IF seen[j] = new THEN status ELSE [status EXCEPT ![j] = new]

\* publish_job_update() raises when Redis does not answer it.
PublishOutcomes == IF "publishError" \in Faults THEN BOOLEAN ELSE {TRUE}

\* A free worker takes a queued entry and forks a work horse for it.
Dequeue(j) ==
  /\ entry[j] = "queued"
  /\ horse[j] \notin Active
  /\ Cardinality({k \in Jobs : horse[k] \in Active}) < MaxHorses
  /\ entry' = [entry EXCEPT ![j] = "started"]
  /\ horse' = [horse EXCEPT ![j] = "forked"]
  /\ UNCHANGED <<rowVars, envVars, apiVars, stopSent, seen, targeted, exitCode, raised, toolRuns, sweepVars>>

\* Deviation: the row is not checked for a cancellation before the run.
LoadIgnoringCancel(j) ==
  /\ horse[j] = "forked"
  /\ horse' = [horse EXCEPT ![j] = IF status[j] = "ABSENT" THEN "hooks" ELSE "loaded"]
  /\ seen' = [seen EXCEPT ![j] = status[j]]
  /\ targeted' = [targeted EXCEPT ![j] = asset[j] \in {"executable", "blocked"}]
  /\ UNCHANGED <<rowVars, envVars, apiVars, rqVars, exitCode, raised, toolRuns, sweepVars>>

\* session.get(Job): no row, or a cancelled one, is a no-op.
Load(j) ==
  /\ horse[j] = "forked"
  /\ horse' = [horse EXCEPT ![j] =
       IF status[j] \in {"ABSENT", "CANCELLED"} THEN "hooks" ELSE "loaded"]
  /\ seen' = [seen EXCEPT ![j] = status[j]]
  /\ targeted' = [targeted EXCEPT ![j] = asset[j] \in {"executable", "blocked"}]
  /\ UNCHANGED <<rowVars, envVars, apiVars, rqVars, exitCode, raised, toolRuns, sweepVars>>

\* RUNNING and started_at, whatever was committed since the load.  What is
\* published after that commit is still outside the handlers of
\* _execute_job(): if it raises, the hooks follow and the row stays RUNNING.
MarkRunning(j) ==
  /\ horse[j] = "loaded"
  /\ WriteStatus(j, "RUNNING")
  /\ startedAt' = [startedAt EXCEPT ![j] = TRUE]
  /\ \E published \in PublishOutcomes :
       /\ horse' = [horse EXCEPT ![j] = IF published THEN "running" ELSE "hooks"]
       /\ raised' = [raised EXCEPT ![j] = ~published]
  /\ UNCHANGED <<finishedAt, evidence, envVars, apiVars, rqVars, seen, targeted, exitCode, toolRuns, sweepVars>>

\* The authorization re-check, in the worker: made only if the row had a
\* target_id when it was loaded.
CheckAuthorization(j) ==
  /\ horse[j] = "running"
  /\ horse' = [horse EXCEPT ![j] =
       IF targeted[j] => asset[j] = "executable" THEN "cleared" ELSE "errored"]
  /\ UNCHANGED <<rowVars, envVars, apiVars, rqVars, seen, targeted, exitCode, raised, toolRuns, sweepVars>>

\* run_tool() reaches the Kali agent, or the command is invalid or no agent
\* answers and KaliAgentError (ToolValidationError) is raised instead.
StartTool(j) ==
  /\ horse[j] = "cleared"
  /\ \/ /\ horse' = [horse EXCEPT ![j] = "tool"]
        /\ toolRuns' = [toolRuns EXCEPT ![j] = @ + 1]
     \/ /\ horse' = [horse EXCEPT ![j] = "errored"]
        /\ UNCHANGED toolRuns
  /\ UNCHANGED <<rowVars, envVars, apiVars, rqVars, seen, targeted, exitCode, raised, sweepVars>>

\* Deviation: an agent that raises is tried again.
ToolRetries(j) ==
  /\ horse[j] = "tool"
  /\ \/ /\ horse' = [horse EXCEPT ![j] = "returned"]
        /\ \E code \in {"zero", "nonzero"} : exitCode' = [exitCode EXCEPT ![j] = code]
     \/ /\ horse' = [horse EXCEPT ![j] = "cleared"]
        /\ UNCHANGED exitCode
  /\ UNCHANGED <<rowVars, envVars, apiVars, rqVars, seen, targeted, raised, toolRuns, sweepVars>>

\* The agent answers with an exit code, or run_tool()/parse_output() raises:
\* a known error, or an unexpected one that execute_job() will re-raise.
ToolReturns(j) ==
  /\ horse[j] = "tool"
  /\ \/ /\ horse' = [horse EXCEPT ![j] = "returned"]
        /\ \E code \in {"zero", "nonzero"} : exitCode' = [exitCode EXCEPT ![j] = code]
        /\ UNCHANGED raised
     \/ /\ horse' = [horse EXCEPT ![j] = "errored"]
        /\ \E unexpected \in BOOLEAN : raised' = [raised EXCEPT ![j] = unexpected]
        /\ UNCHANGED exitCode
  /\ UNCHANGED <<rowVars, envVars, apiVars, rqVars, seen, targeted, toolRuns, sweepVars>>

\* session.refresh(job), and the only check made on it: CANCELLED.
Refresh(j) ==
  /\ horse[j] = "returned"
  /\ horse' = [horse EXCEPT ![j] = IF status[j] = "CANCELLED" THEN "hooks" ELSE "refreshed"]
  /\ seen' = [seen EXCEPT ![j] = status[j]]
  /\ UNCHANGED <<rowVars, envVars, apiVars, rqVars, targeted, exitCode, raised, toolRuns, sweepVars>>

\* Output, evidence, status, findings and the asset's activity, diff and
\* graph, in one transaction.  What is published after that commit is inside
\* the inner try: if it raises, the catch-all deals with a job that is over.
CommitOutcome(j, outcome) ==
  /\ horse[j] = "refreshed"
  /\ evidence' = [evidence EXCEPT ![j] = TRUE]
  /\ WriteStatus(j, outcome)
  /\ finishedAt' = [finishedAt EXCEPT ![j] = TRUE]
  /\ \E published \in PublishOutcomes :
       /\ horse' = [horse EXCEPT ![j] = IF published THEN "hooks" ELSE "errored"]
       /\ raised' = [raised EXCEPT ![j] = ~published]
  /\ UNCHANGED <<startedAt, envVars, apiVars, rqVars, seen, targeted, exitCode, toolRuns, sweepVars>>

\* Deviation: RQ's name for the outcome is written instead of JobStatus.
CommitRqStatus(j) == CommitOutcome(j, IF exitCode[j] = "zero" THEN "finished" ELSE "failed")

\* Deviation: any answer of the agent counts as success.
CommitAnyExitCode(j) == CommitOutcome(j, "SUCCESS")

CommitResult(j) == CommitOutcome(j, IF exitCode[j] = "zero" THEN "SUCCESS" ELSE "FAILED")

\* Ingestion raises something that leaves the transaction usable: the
\* catch-all's refresh() flushes the half-built result first and reads the
\* row back.  It reads the status just flushed, or, if the session had loaded
\* FAILED and a nonzero exit code left it at that, whatever has been
\* committed since: FAILED goes with the result unless that is CANCELLED,
\* and then the flush is rolled back with the session.
CommitHalfResult(j) ==
  /\ horse[j] = "refreshed"
  /\ horse' = [horse EXCEPT ![j] = "hooks"]
  /\ raised' = [raised EXCEPT ![j] = TRUE]
  /\ IF exitCode[j] = "nonzero" /\ seen[j] = "FAILED" /\ status[j] = "CANCELLED"
       THEN UNCHANGED <<status, finishedAt, evidence>>
       ELSE /\ evidence' = [evidence EXCEPT ![j] = TRUE]
            /\ status' = [status EXCEPT ![j] = "FAILED"]
            /\ finishedAt' = [finishedAt EXCEPT ![j] = TRUE]
  /\ UNCHANGED <<startedAt, envVars, apiVars, rqVars, seen, targeted, exitCode, toolRuns, sweepVars>>

\* Both exception handlers re-read the row before writing FAILED.
RefreshAfterError(j) ==
  /\ horse[j] = "errored"
  /\ horse' = [horse EXCEPT ![j] = IF status[j] = "CANCELLED" THEN "hooks" ELSE "failing"]
  /\ seen' = [seen EXCEPT ![j] = status[j]]
  /\ UNCHANGED <<rowVars, envVars, apiVars, rqVars, targeted, exitCode, raised, toolRuns, sweepVars>>

\* Deviation: the exception handler ends the run without a write.
CommitNoFailure(j) ==
  /\ horse[j] = "failing"
  /\ horse' = [horse EXCEPT ![j] = "hooks"]
  /\ UNCHANGED <<rowVars, envVars, apiVars, rqVars, seen, targeted, exitCode, raised, toolRuns, sweepVars>>

\* The catch-all, which re-raises anyway, swallows what publishing raises;
\* the handler of the known errors does not.
CommitFailure(j) ==
  /\ horse[j] = "failing"
  /\ horse' = [horse EXCEPT ![j] = "hooks"]
  /\ WriteStatus(j, "FAILED")
  /\ finishedAt' = [finishedAt EXCEPT ![j] = TRUE]
  /\ \E published \in PublishOutcomes : raised' = [raised EXCEPT ![j] = @ \/ ~published]
  /\ UNCHANGED <<startedAt, evidence, envVars, apiVars, rqVars, seen, targeted, exitCode, toolRuns, sweepVars>>

\* A statement fails and the transaction with it.  Nothing rolls it back, so
\* the handler's own refresh() fails too and is swallowed: no write is made.
DbError(j) ==
  /\ "dbError" \in Faults
  /\ horse[j] \in {"forked", "loaded", "running", "returned", "refreshed", "errored", "failing"}
  /\ horse' = [horse EXCEPT ![j] = "hooks"]
  /\ raised' = [raised EXCEPT ![j] = TRUE]
  /\ UNCHANGED <<rowVars, envVars, apiVars, rqVars, seen, targeted, exitCode, toolRuns, sweepVars>>

\* The completion hooks end (see MissionOrchestrator) and RQ files the entry
\* under finished or failed, re-creating it if Redis had lost it.
FinishHooks(j) ==
  /\ horse[j] = "hooks"
  /\ horse' = [horse EXCEPT ![j] = "done"]
  /\ entry' = [entry EXCEPT ![j] = IF raised[j] THEN "failed" ELSE "finished"]
  /\ stopSent' = [stopSent EXCEPT ![j] = FALSE]
  /\ UNCHANGED <<rowVars, envVars, apiVars, seen, targeted, exitCode, raised, toolRuns, sweepVars>>

\* The horse dies where it stands and RQ files the entry under failed.
HorseDies(j) ==
  /\ horse[j] \in Active
  /\ horse' = [horse EXCEPT ![j] = "killed"]
  /\ entry' = [entry EXCEPT ![j] = "failed"]
  /\ stopSent' = [stopSent EXCEPT ![j] = FALSE]
  /\ UNCHANGED <<rowVars, envVars, apiVars, seen, targeted, exitCode, raised, toolRuns, sweepVars>>

StopHorse(j) == stopSent[j] /\ HorseDies(j)

CrashHorse(j) == "crash" \in Faults /\ HorseDies(j)

(***************************************************************************)
(* reconcile_stuck_jobs(): one read of all candidates, then for each a     *)
(* look in Redis and, if the entry is gone, FAILED.                        *)
(***************************************************************************)

\* Deviation: only running jobs are candidates.
ScanRunningOnly(s) ==
  /\ todo[s] = {} /\ orphan[s] = NoJob
  /\ todo' = [todo EXCEPT ![s] = {j \in Jobs : status[j] = "RUNNING" /\ aged[j]}]
  /\ UNCHANGED <<rowVars, envVars, apiVars, rqVars, horseVars, orphan>>

SweepScan(s) ==
  /\ todo[s] = {} /\ orphan[s] = NoJob
  /\ todo' = [todo EXCEPT ![s] = {j \in Jobs : status[j] \in Live /\ aged[j]}]
  /\ UNCHANGED <<rowVars, envVars, apiVars, rqVars, horseVars, orphan>>

\* Deviation: only an entry that still waits in the queue counts as alive.
FetchQueuedOnly(s) ==
  /\ orphan[s] = NoJob
  /\ \E j \in todo[s] :
       /\ todo' = [todo EXCEPT ![s] = @ \ {j}]
       /\ orphan' = [orphan EXCEPT ![s] = IF entry[j] # "queued" THEN j ELSE NoJob]
  /\ UNCHANGED <<rowVars, envVars, apiVars, rqVars, horseVars>>

SweepFetch(s) ==
  /\ orphan[s] = NoJob
  /\ \E j \in todo[s] :
       /\ todo' = [todo EXCEPT ![s] = @ \ {j}]
       /\ orphan' = [orphan EXCEPT ![s] = IF entry[j] \in {"none", "gone"} THEN j ELSE NoJob]
  /\ UNCHANGED <<rowVars, envVars, apiVars, rqVars, horseVars>>

\* Deviation: the orphan is queued again instead of given up.
SweepRequeue(s) ==
  /\ orphan[s] # NoJob
  /\ orphan' = [orphan EXCEPT ![s] = NoJob]
  /\ status' = [status EXCEPT ![orphan[s]] = "QUEUED"]
  /\ entry' = [entry EXCEPT ![orphan[s]] = "queued"]
  /\ UNCHANGED <<startedAt, finishedAt, evidence, envVars, apiVars, stopSent, horseVars, todo>>

\* FAILED is committed; if publishing it raises, the rest is left to the next
\* sweep.
SweepWrite(s) ==
  /\ orphan[s] # NoJob
  /\ orphan' = [orphan EXCEPT ![s] = NoJob]
  /\ status' = [status EXCEPT ![orphan[s]] = "FAILED"]
  /\ finishedAt' = [finishedAt EXCEPT ![orphan[s]] = TRUE]
  /\ \E published \in PublishOutcomes : todo' = [todo EXCEPT ![s] = IF published THEN @ ELSE {}]
  /\ UNCHANGED <<startedAt, evidence, envVars, apiVars, rqVars, horseVars>>

(***************************************************************************)
(* The next-state relation and the fairness of the scheduler.              *)
(***************************************************************************)

Environment(j) ==
  SetAuthorization(j) \/ DeleteAsset(j) \/ Age(j) \/ ExpireEntry(j) \/ LoseEntry(j)

Create(j) ==
  CreateFlush(j) \/ CreateEnqueue(j) \/ CreateCommit(j) \/ CreateAbort(j)

Cancel(j) ==
  CancelRead(j) \/ CancelEntry(j) \/ SendStop(j) \/ CancelWrite(j) \/ CancelAbort(j)

ExecuteJob(j) ==
  \/ Load(j) \/ MarkRunning(j) \/ CheckAuthorization(j) \/ StartTool(j)
  \/ ToolReturns(j) \/ Refresh(j) \/ CommitResult(j) \/ CommitHalfResult(j)
  \/ RefreshAfterError(j) \/ CommitFailure(j) \/ DbError(j) \/ FinishHooks(j)

Worker(j) == Dequeue(j) \/ ExecuteJob(j) \/ StopHorse(j) \/ CrashHorse(j)

Sweep(s) == SweepScan(s) \/ SweepFetch(s) \/ SweepWrite(s)

Next ==
  \/ \E j \in Jobs : Environment(j) \/ Create(j) \/ Cancel(j) \/ Worker(j)
  \/ \E s \in Sweepers : Sweep(s)

Spec == Init /\ [][Next]_vars

(* Requests that were started run to their end, worker processes keep      *)
(* taking and executing entries, time passes, finished entries expire, and *)
(* the sweep thread loops forever.  No client has to create or cancel a    *)
(* job, no fault has to occur.                                             *)
Fairness ==
  /\ \A j \in Jobs :
       /\ WF_vars(Age(j)) /\ WF_vars(ExpireEntry(j))
       /\ WF_vars(CreateEnqueue(j) \/ CreateCommit(j))
       /\ WF_vars(CancelEntry(j) \/ SendStop(j) \/ CancelWrite(j))
       /\ SF_vars(Dequeue(j))
       /\ WF_vars(ExecuteJob(j))
  /\ \A s \in Sweepers : WF_vars(SweepScan(s)) /\ WF_vars(SweepFetch(s)) /\ WF_vars(SweepWrite(s))

FairSpec == Spec /\ Fairness

(***************************************************************************)
(* Properties that hold.                                                   *)
(***************************************************************************)

(* The tool is started at most once for a job, whatever fails: the sweep   *)
(* gives lost jobs up and never re-enqueues them, "silently re-running a   *)
(* scan that may have actually executed against a real target is a worse   *)
(* outcome" (reconciliation.py:19-22).                                     *)
RunsAtMostOnce == \A j \in Jobs : toolRuns[j] <= 1

(* A job reported SUCCESS has been claimed, its tool ran and returned exit *)
(* code 0, and the output and its digest are stored with it: no writer but *)
(* that run, and no interleaving of writers, can leave SUCCESS in the row. *)
SuccessIsBackedByARun ==
  \A j \in Jobs : status[j] = "SUCCESS" =>
    /\ startedAt[j] /\ evidence[j] /\ finishedAt[j]
    /\ toolRuns[j] = 1 /\ exitCode[j] = "zero"

(* The engine as a whole keeps the promise of JobLifecycle.                *)
Lifecycle == INSTANCE JobLifecycle WITH
  status <- status, startedAt <- startedAt, evidence <- evidence
KeepsLifecycle == Lifecycle!Spec

(* A run that ended because nobody could be told that it had begun.        *)
UnannouncedClaim(j) == status[j] = "RUNNING" /\ raised[j] /\ toolRuns[j] = 0

(* When the completion hooks of a run start, the row of a claimed job is   *)
(* terminal (tasks.py:64-66): mission and chain advancement read it.  The  *)
(* one path out of _execute_job() that breaks the promise, database errors *)
(* apart, is a failed publication right after the claim (tasks.py:115): it *)
(* leaves RUNNING, but it also ends the run before its tool was started.   *)
HooksSeeTerminalJob ==
  \A j \in Jobs :
    horse[j] = "hooks" /\ startedAt[j] => status[j] \in Terminal \/ UnannouncedClaim(j)

(* A job cancelled before its work horse loaded the row never runs a tool  *)
(* afterwards, whatever the sweep and other requests do meanwhile.  (Only  *)
(* while Redis loses nothing: with an entry lost under a forked horse, a   *)
(* sweep can overwrite CANCELLED and the horse then loads FAILED.)         *)
CancelBeforePickupIsFinal ==
  \A j \in Jobs :
    [](status[j] = "CANCELLED" /\ horse[j] \in {"none", "forked"} => [](toolRuns[j] = 0))

(* The sweep never fails a job whose tool is running, "this must never     *)
(* fire against a job that is simply still legitimately running"           *)
(* (reconciliation.py:45-48).  Only while Redis loses nothing: a job ages  *)
(* by created_at, so one that queued for half an hour is a candidate as    *)
(* soon as it runs, and then only its RQ entry protects it.                *)
SweepSparesRunningTools ==
  [][\A j \in Jobs : horse[j] = "tool" /\ status[j] = "RUNNING" => status'[j] # "FAILED"]_vars

(* RQ keeps an entry for the job but will never run it again.              *)
Stranded(j) == status[j] \in Live /\ entry[j] \in {"failed", "canceled"}

(* Whatever is lost or dies, every committed job ends up terminal for good *)
(* unless it is stranded behind a kept entry, which hides it from every    *)
(* sweep.  The sweep is what settles a job whose entry is gone.            *)
EveryJobSettles ==
  \A j \in Jobs :
    \/ <>[](status[j] \in Terminal \cup {"ABSENT"})
    \/ <>[]Stranded(j)

(***************************************************************************)
(* A claim of the repository that the code does not keep.                  *)
(***************************************************************************)

(* A job left RUNNING by a "worker crash mid-execution" does not stay      *)
(* "stuck forever" (worker.py:29-31, reconciliation.py:13-19).             *)
CrashedJobIsReconciled ==
  \A j \in Jobs :
    horse[j] = "killed" /\ status[j] = "RUNNING" ~> status[j] \in Terminal
=============================================================================
