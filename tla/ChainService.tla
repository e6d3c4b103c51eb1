---------------------------- MODULE ChainService ----------------------------
(***************************************************************************)
(* One ChainRun (app/chains/service.py): the steps of a template, each     *)
(* gated by a condition on the result of the step before it.  As in        *)
(* MissionOrchestrator, advance_chain_run() is called by the creation, by  *)
(* the completion hook of every job and by the sweep of every worker       *)
(* process; it locks the run FOR UPDATE, and the commit that files a       *)
(* finished step gives the lock up halfway.  Unlike a mission, a run is    *)
(* RUNNING from its creation on, the hook loads nothing before the lock,   *)
(* and the end of a conditional branch is a success.                       *)
(***************************************************************************)
EXTENDS Naturals, FiniteSets

CONSTANTS
  MaxSteps,    \* bound: the steps of the template (the schema allows 20)
  Jobs,        \* bound: the job ids the run may use, in the order it takes them
  Advancers,   \* bound: advancing sessions open at once
  MaxCrashes,  \* bound: how often a session or a hook dies
  Verdicts,    \* what evaluating a condition on a result may give
  NoJob, NoOne

ASSUME BoundsAssumption == MaxSteps \in Nat /\ MaxCrashes \in Nat
ASSUME JobsAssumption == Jobs \subseteq Nat
ASSUME NoJobAssumption == NoJob \notin Jobs
ASSUME NoOneAssumption == NoOne \notin Advancers
ASSUME VerdictsAssumption == Verdicts \subseteq {"always", "met", "unmet", "raises"}

VARIABLES
  run,        \* chain_runs.status, "ABSENT" before it is created
  step,       \* chain_run_steps.status by step_order, "ABSENT" beyond the last
  stepJob,    \* chain_run_steps.job_id
  verdict,    \* the step's condition: ALWAYS, or what evaluating it gives
              \* on the result of the step before
  valid,      \* prepare_job() accepts the step's tool, profile and options
  authorized, \* the target asset is_executable()
  job,        \* jobs.status: "unused", "flushed", "live", "lost" or terminal
  jobFor,     \* the step the job was created for
  hook,       \* "due" until the job's completion hook has started or is lost
  stalled,    \* no progress recorded for DEFAULT_ORCHESTRATION_STUCK_AFTER
  cut,        \* the sweep, going through the runs, does not come to this one
  lock,       \* who holds the FOR UPDATE lock on the run
  pc,         \* progress of an advancing session
  view,       \* chain_run_steps.status as the session read them
  links,      \* chain_run_steps.job_id as the session read them
  held,       \* the job the session has flushed and enqueued
  crashes

runVars == <<run, step, stepJob, verdict, valid, authorized>>
jobVars == <<job, jobFor, hook>>
vars == <<runVars, jobVars, stalled, cut, lock, pc, view, links, held, crashes>>

TerminalRun == {"COMPLETED", "FAILED", "CANCELLED"}
StepStatus == {"PENDING", "SKIPPED", "QUEUED", "SUCCESS", "FAILED", "CANCELLED"}
TerminalJob == {"SUCCESS", "FAILED", "CANCELLED"}
Orders == 0 .. MaxSteps - 1
NoView == [k \in Orders |-> "ABSENT"]
NoLinks == [k \in Orders |-> NoJob]

TypeOK ==
  /\ run \in TerminalRun \cup {"ABSENT", "RUNNING"}
  /\ step \in [Orders -> StepStatus \cup {"ABSENT"}]
  /\ stepJob \in [Orders -> Jobs \cup {NoJob}]
  /\ verdict \in [Orders -> Verdicts \cup {"always"}]
  /\ valid \in [Orders -> BOOLEAN]
  /\ authorized \in BOOLEAN
  /\ job \in [Jobs -> TerminalJob \cup {"unused", "flushed", "live", "lost"}]
  /\ jobFor \in [Jobs -> Orders \cup {MaxSteps}]
  /\ hook \in [Jobs -> {"due", "done"}]
  /\ stalled \in BOOLEAN
  /\ cut \in BOOLEAN
  /\ lock \in Advancers \cup {NoOne}
  /\ pc \in [Advancers -> {"idle", "waiting", "locked", "resolved", "enqueued"}]
  /\ view \in [Advancers -> [Orders -> StepStatus \cup {"ABSENT"}]]
  /\ links \in [Advancers -> [Orders -> Jobs \cup {NoJob}]]
  /\ held \in [Advancers -> Jobs \cup {NoJob}]
  /\ crashes \in 0 .. MaxCrashes

Init ==
  /\ run = "ABSENT"
  /\ step = NoView
  /\ stepJob = NoLinks
  /\ verdict \in {v \in [Orders -> Verdicts \cup {"always"}] :
                   \A k \in Orders : IF k = 0 THEN v[k] = "always" ELSE v[k] \in Verdicts}
  /\ valid \in [Orders -> BOOLEAN]
  /\ authorized \in BOOLEAN
  /\ job = [j \in Jobs |-> "unused"]
  /\ jobFor = [j \in Jobs |-> MaxSteps]
  /\ hook = [j \in Jobs |-> "due"]
  /\ stalled = FALSE
  /\ cut = FALSE
  /\ lock = NoOne
  /\ pc = [a \in Advancers |-> "idle"]
  /\ view = [a \in Advancers |-> NoView]
  /\ links = [a \in Advancers |-> NoLinks]
  /\ held = [a \in Advancers |-> NoJob]
  /\ crashes = 0

OpenSession(a) ==
  /\ pc[a] = "idle"
  /\ pc' = [pc EXCEPT ![a] = "waiting"]
  /\ UNCHANGED <<view, links, held>>

Close(a) ==
  /\ pc' = [pc EXCEPT ![a] = "idle"]
  /\ view' = [view EXCEPT ![a] = NoView]
  /\ links' = [links EXCEPT ![a] = NoLinks]
  /\ held' = [held EXCEPT ![a] = NoJob]
  /\ lock' = IF lock = a THEN NoOne ELSE lock

\* create_chain_run(): the template's steps are copied and committed, and the
\* first step is advanced in a second session.
CreateRun(a) ==
  /\ run = "ABSENT"
  /\ run' = "RUNNING"
  /\ \E n \in 1 .. MaxSteps : step' = [k \in Orders |-> IF k < n THEN "PENDING" ELSE "ABSENT"]
  /\ stalled' = FALSE
  /\ OpenSession(a)
  /\ UNCHANGED <<stepJob, verdict, valid, authorized, jobVars, cut, lock, crashes>>

\* cancel_chain_run(): the kill switch, a no-op on a terminal run.
CancelRun ==
  /\ run = "RUNNING" /\ lock = NoOne
  /\ run' = "CANCELLED"
  /\ UNCHANGED <<step, stepJob, verdict, valid, authorized, jobVars, stalled, cut, lock, pc, view, links, held, crashes>>

\* PATCH on the asset.  (Its deletion deletes the run by cascade.)
SetAuthorization ==
  /\ authorized' = ~authorized
  /\ UNCHANGED <<run, step, stepJob, verdict, valid, jobVars, stalled, cut, lock, pc, view, links, held, crashes>>

(***************************************************************************)
(* _advance_chain_run_locked().                                            *)
(***************************************************************************)

\* The blocking FOR UPDATE read of the run.  A terminal one ends the session;
\* otherwise its steps are read.
LockRun(a) ==
  /\ pc[a] = "waiting" /\ lock = NoOne
  /\ IF run \in TerminalRun THEN Close(a)
       ELSE /\ lock' = a
            /\ view' = [view EXCEPT ![a] = step]
            /\ links' = [links EXCEPT ![a] = stepJob]
            /\ pc' = [pc EXCEPT ![a] =
                        IF \E k \in Orders : step[k] = "QUEUED" THEN "locked" ELSE "resolved"]
            /\ UNCHANGED held
  /\ UNCHANGED <<runVars, jobVars, stalled, cut, crashes>>

StepsIn(a, statuses) == {k \in Orders : view[a][k] \in statuses}
IsFirst(k, S) == k \in S /\ \A i \in S : k <= i

\* The queued step's job is still running: check again later.
StillRunning(a) ==
  /\ pc[a] = "locked"
  /\ \E k \in Orders : IsFirst(k, StepsIn(a, {"QUEUED"})) /\ job[links[a][k]] \notin TerminalJob
  /\ Close(a)
  /\ UNCHANGED <<runVars, jobVars, stalled, cut, crashes>>

\* Deviation: an outcome that is not FAILED counts as a success.
ResolveLeniently(a) ==
  /\ pc[a] = "locked"
  /\ \E k \in Orders :
       /\ IsFirst(k, StepsIn(a, {"QUEUED"})) /\ job[links[a][k]] \in TerminalJob
       /\ LET outcome == IF job[links[a][k]] = "FAILED" THEN "FAILED" ELSE "SUCCESS" IN
            step' = [step EXCEPT ![k] = outcome] /\ view' = [view EXCEPT ![a][k] = outcome]
  /\ pc' = [pc EXCEPT ![a] = "resolved"]
  /\ lock' = NoOne
  /\ UNCHANGED <<run, stepJob, verdict, valid, authorized, jobVars, stalled, cut, links, held, crashes>>

\* The finished step takes its job's outcome, and the commit that makes it
\* durable releases the lock.
ResolveStep(a) ==
  /\ pc[a] = "locked"
  /\ \E k \in Orders :
       /\ IsFirst(k, StepsIn(a, {"QUEUED"})) /\ job[links[a][k]] \in TerminalJob
       /\ step' = [step EXCEPT ![k] = job[links[a][k]]]
       /\ view' = [view EXCEPT ![a][k] = job[links[a][k]]]
  /\ pc' = [pc EXCEPT ![a] = "resolved"]
  /\ lock' = NoOne
  /\ UNCHANGED <<run, stepJob, verdict, valid, authorized, jobVars, stalled, cut, links, held, crashes>>

\* _stop_chain_run(): waits for whoever holds the row, then overwrites it.
StopRun(a, status) ==
  /\ lock \in {NoOne, a}
  /\ run' = status
  /\ Close(a)

\* A step was cancelled or failed, or none is left to run.
Stop(a) ==
  /\ pc[a] = "resolved"
  /\ \/ /\ StepsIn(a, {"CANCELLED"}) # {}
        /\ StopRun(a, "CANCELLED")
     \/ /\ StepsIn(a, {"CANCELLED"}) = {} /\ StepsIn(a, {"FAILED"}) # {}
        /\ StopRun(a, "FAILED")
     \/ /\ StepsIn(a, {"CANCELLED", "FAILED", "PENDING"}) = {}
        /\ StopRun(a, IF StepsIn(a, {"SUCCESS"}) # {} THEN "COMPLETED" ELSE "FAILED")
  /\ UNCHANGED <<step, stepJob, verdict, valid, authorized, jobVars, stalled, cut, crashes>>

\* k is the step the session would start next.
IsNext(a, k) ==
  /\ pc[a] = "resolved"
  /\ StepsIn(a, {"CANCELLED", "FAILED"}) = {}
  /\ IsFirst(k, StepsIn(a, {"PENDING"}))

\* What evaluate_condition() may give on the result of the job the previous
\* step was linked to when it was read.  Without a result only ALWAYS holds; a
\* job has one when it succeeded, and may have one when it ended otherwise.
Gate(a, k, outcome) ==
  LET previous == links[a][k - 1] IN
    IF verdict[k] = "always" THEN outcome = "met"
    ELSE \/ previous # NoJob /\ job[previous] \in TerminalJob /\ outcome = verdict[k]
         \/ (previous = NoJob \/ job[previous] # "SUCCESS") /\ outcome = "unmet"

Skip(a, k, status) ==
  /\ step' = [step EXCEPT ![k] = "SKIPPED"]
  /\ StopRun(a, status)
  /\ UNCHANGED <<stepJob, verdict, valid, authorized, jobVars, stalled, cut, crashes>>

\* The branch is not taken: a normal end.
EndBranch(a) == \E k \in Orders : IsNext(a, k) /\ Gate(a, k, "unmet") /\ Skip(a, k, "COMPLETED")

\* The target is not executable any more, or the step is not valid.
RefuseStep(a) ==
  \E k \in Orders :
    IsNext(a, k) /\ Gate(a, k, "met") /\ (~authorized \/ ~valid[k]) /\ Skip(a, k, "FAILED")

\* condition_params is any JSON object: a port that is no number makes the
\* evaluation raise, and the session ends with nothing written.
Raise(a) ==
  /\ \E k \in Orders : IsNext(a, k) /\ Gate(a, k, "raises")
  /\ Close(a)
  /\ UNCHANGED <<runVars, jobVars, stalled, cut, crashes>>

\* The Job is flushed and enqueued under a new id; nothing is committed yet.
EnqueueStep(a) ==
  /\ authorized
  /\ \E k \in Orders, j \in Jobs :
       /\ IsNext(a, k) /\ Gate(a, k, "met") /\ valid[k]
       /\ IsFirst(j, {i \in Jobs : job[i] = "unused"})
       /\ job' = [job EXCEPT ![j] = "flushed"]
       /\ jobFor' = [jobFor EXCEPT ![j] = k]
       /\ held' = [held EXCEPT ![a] = j]
  /\ pc' = [pc EXCEPT ![a] = "enqueued"]
  /\ UNCHANGED <<runVars, hook, stalled, cut, lock, view, links, crashes>>

\* Deviation: the step is linked to its Job but stays PENDING.
CommitUnqueued(a) ==
  /\ pc[a] = "enqueued"
  /\ stepJob' = [stepJob EXCEPT ![jobFor[held[a]]] = held[a]]
  /\ job' = [job EXCEPT ![held[a]] = "live"]
  /\ Close(a)
  /\ UNCHANGED <<run, step, verdict, valid, authorized, jobFor, hook, stalled, cut, crashes>>

\* Deviation: the step is queued without the link to its Job.
CommitUnlinked(a) ==
  /\ pc[a] = "enqueued"
  /\ step' = [step EXCEPT ![jobFor[held[a]]] = "QUEUED"]
  /\ job' = [job EXCEPT ![held[a]] = "live"]
  /\ Close(a)
  /\ UNCHANGED <<run, stepJob, verdict, valid, authorized, jobFor, hook, stalled, cut, crashes>>

\* Deviation: the run's status is written as well.
CommitReviving(a) ==
  /\ pc[a] = "enqueued"
  /\ run' = "RUNNING"
  /\ step' = [step EXCEPT ![jobFor[held[a]]] = "QUEUED"]
  /\ stepJob' = [stepJob EXCEPT ![jobFor[held[a]]] = held[a]]
  /\ job' = [job EXCEPT ![held[a]] = "live"]
  /\ Close(a)
  /\ UNCHANGED <<verdict, valid, authorized, jobFor, hook, stalled, cut, crashes>>

\* The final commit: the Job and the step's link to it.  The run had been
\* read as RUNNING, so its status is not written and nothing waits for it.
CommitStep(a) ==
  /\ pc[a] = "enqueued"
  /\ step' = [step EXCEPT ![jobFor[held[a]]] = "QUEUED"]
  /\ stepJob' = [stepJob EXCEPT ![jobFor[held[a]]] = held[a]]
  /\ job' = [job EXCEPT ![held[a]] = "live"]
  /\ Close(a)
  /\ UNCHANGED <<run, verdict, valid, authorized, jobFor, hook, stalled, cut, crashes>>

\* The session dies: its transaction is rolled back, the lock released, and
\* the RQ entry of a flushed Job finds no row when it is picked up.
CrashSession(a) ==
  /\ crashes < MaxCrashes /\ pc[a] # "idle"
  /\ crashes' = crashes + 1
  /\ job' = [j \in Jobs |-> IF pc[a] = "enqueued" /\ j = held[a] THEN "lost" ELSE job[j]]
  /\ Close(a)
  /\ UNCHANGED <<runVars, jobFor, hook, stalled, cut>>

(***************************************************************************)
(* The jobs, as JobEngine's writers leave them, and their hooks.           *)
(***************************************************************************)

Committed(j) == job[j] \in TerminalJob \cup {"live"}

\* A worker takes the RQ entry of a Job not yet committed: the run is a no-op,
\* its hook finds no step, and no other run follows.
EarlyPickup(j) ==
  /\ job[j] = "flushed" /\ hook[j] = "due"
  /\ hook' = [hook EXCEPT ![j] = "done"]
  /\ UNCHANGED <<runVars, job, jobFor, stalled, cut, lock, pc, view, links, held, crashes>>

\* The worker, a cancellation or the job sweep writes a terminal status and
\* finished_at, which is progress if a step refers to the job.  The status is
\* final here; MissionOrchestrator, which advances alike, has late writers.
EndJob(j) ==
  /\ job[j] = "live"
  /\ \E outcome \in TerminalJob :
       /\ outcome = "SUCCESS" => hook[j] = "due"
       /\ job' = [job EXCEPT ![j] = outcome]
  /\ stalled' = (stalled /\ \A k \in Orders : stepJob[k] # j)
  /\ UNCHANGED <<runVars, jobFor, hook, cut, lock, pc, view, links, held, crashes>>

HookDue(j) == hook[j] = "due" /\ job[j] \in TerminalJob

\* advance_chain_run_for_job(): the job's step is looked up in a session of
\* its own, and the run is then advanced in a fresh one.
StartHook(a, j) ==
  /\ HookDue(j)
  /\ hook' = [hook EXCEPT ![j] = "done"]
  /\ IF \E k \in Orders : stepJob[k] = j THEN OpenSession(a) ELSE UNCHANGED <<pc, view, links, held>>
  /\ UNCHANGED <<runVars, job, jobFor, stalled, cut, lock, crashes>>

\* The horse of a cancelled job was stopped or never forked; or it dies
\* between its job's end and the hook.
LoseHook(j) ==
  /\ HookDue(j)
  /\ IF job[j] = "CANCELLED" THEN UNCHANGED crashes
       ELSE crashes < MaxCrashes /\ crashes' = crashes + 1
  /\ hook' = [hook EXCEPT ![j] = "done"]
  /\ UNCHANGED <<runVars, job, jobFor, stalled, cut, lock, pc, view, links, held>>

(***************************************************************************)
(* reconcile_stuck_chain_runs().                                           *)
(***************************************************************************)

\* Five minutes pass without progress.  A hook starts, and an open session
\* ends, well within that time.
Stall ==
  /\ ~stalled
  /\ \A a \in Advancers : pc[a] = "idle"
  /\ \A j \in Jobs : ~HookDue(j)
  /\ stalled' = TRUE
  /\ UNCHANGED <<runVars, jobVars, cut, lock, pc, view, links, held, crashes>>

\* The runs another sweep would come to first change: while the condition of
\* one of them raises, the exception ends the loop before this run's turn.
OtherRuns ==
  /\ cut' = ~cut
  /\ UNCHANGED <<runVars, jobVars, stalled, lock, pc, view, links, held, crashes>>

InFlight == \E k \in Orders : step[k] = "QUEUED" /\ job[stepJob[k]] \notin TerminalJob

\* Deviation: only a run with an executed step is a candidate.
NudgeStarted(a) ==
  /\ run = "RUNNING" /\ stalled /\ ~InFlight /\ ~cut
  /\ \E k \in Orders : stepJob[k] # NoJob
  /\ OpenSession(a)
  /\ UNCHANGED <<runVars, jobVars, stalled, cut, lock, crashes>>

\* The sweep of one worker process re-invokes advance_chain_run().
Nudge(a) ==
  /\ run = "RUNNING" /\ stalled /\ ~InFlight /\ ~cut
  /\ OpenSession(a)
  /\ UNCHANGED <<runVars, jobVars, stalled, cut, lock, crashes>>

-----------------------------------------------------------------------------

Advance(a) ==
  \/ LockRun(a) \/ StillRunning(a) \/ ResolveStep(a) \/ Stop(a)
  \/ EndBranch(a) \/ RefuseStep(a) \/ Raise(a) \/ EnqueueStep(a) \/ CommitStep(a)

JobStep(j) ==
  EarlyPickup(j) \/ EndJob(j) \/ LoseHook(j) \/ \E a \in Advancers : StartHook(a, j)

Next ==
  \/ CancelRun \/ SetAuthorization \/ Stall \/ OtherRuns
  \/ \E a \in Advancers : CreateRun(a) \/ Advance(a) \/ CrashSession(a) \/ Nudge(a)
  \/ \E j \in Jobs : JobStep(j)

Spec == Init /\ [][Next]_vars

(* Sessions that were opened advance, hooks run or are lost, time passes   *)
(* and the sweep thread keeps polling.  No operator has to do anything, no *)
(* live job has to end (JobEngine's EveryJobSettles leaves some of them    *)
(* RUNNING for ever), and no condition of another run has to be mended.    *)
Fairness ==
  /\ \A a \in Advancers : WF_vars(Advance(a))
  /\ \A j \in Jobs : WF_vars(LoseHook(j) \/ \E a \in Advancers : StartHook(a, j))
  /\ WF_vars(Stall)
  /\ WF_vars(\E a \in Advancers : Nudge(a))

FairSpec == Spec /\ Fairness

(***************************************************************************)
(* Properties.                                                             *)
(***************************************************************************)

(* "cancelling a chain run only prevents any *future* step from ever being *)
(* queued" (service.py:302-304), and so does every other end of a run: a   *)
(* session that has not read the run by then, be it opened by a late hook, *)
(* a sweep or a request, never creates a Job for it again.  Of those that  *)
(* have read it each may create the one it was about to, the lock being    *)
(* gone with the first commit, and none brings the run back.               *)
InGap(a) == pc[a] \in {"locked", "resolved", "enqueued"}
NoJobAfterTheEnd ==
  \A a \in Advancers :
    [](run \in TerminalRun /\ ~InGap(a) => [](run \in TerminalRun /\ held[a] = NoJob))

(* ck_chain_run_step_job_id_required_when_executed                         *)
(* (models/mission_template.py:157) never rejects a transaction, and the   *)
(* Job a step is linked to is one that was created for it.                 *)
ExecutedStepHasItsJob ==
  \A k \in Orders :
    step[k] \in {"QUEUED", "SUCCESS", "FAILED"} =>
      stepJob[k] # NoJob /\ jobFor[stepJob[k]] = k /\ Committed(stepJob[k])

(* Two jobs are never created for one step (service.py:81-84), while no    *)
(* session dies: nobody else advances between a session's two commits.     *)
OneJobPerStep ==
  crashes = 0 =>
    \A i, j \in Jobs : i # j /\ Committed(i) /\ Committed(j) => jobFor[i] # jobFor[j]

(* COMPLETED tells a branch not taken from a failure: every step before    *)
(* the first one not taken has succeeded, and that one was not taken       *)
(* because of its condition (service.py:139-148).                          *)
CompletedMeansSuccessOrUnmet ==
  crashes = 0 /\ run = "COMPLETED" =>
    \A k \in Orders :
      \/ step[k] \in {"SUCCESS", "ABSENT"}
      \/ step[k] = "SKIPPED" /\ verdict[k] = "unmet"
      \/ step[k] = "PENDING" /\ \E i \in 0 .. k - 1 : step[i] = "SKIPPED"

(* A run whose conditions can be evaluated ends, whether its sessions and  *)
(* hooks die or not: that is what the sweep is for                         *)
(* (reconciliation.py:220-228).  Two things may keep it from ending: the   *)
(* job of its queued step never ends, or sweep after sweep is cut short by *)
(* the condition of another run (reconciliation.py:245).                   *)
RunEnds ==
  \/ run = "RUNNING" /\ (\A k \in Orders : verdict[k] # "raises") ~> run \in TerminalRun
  \/ <>[]InFlight
  \/ []<>cut

(***************************************************************************)
(* A claim of the repository that the code does not keep.                  *)
(***************************************************************************)

(* conditions.py has an "overall bias toward safe stops over crashes"      *)
(* (conditions.py:62-63): what cannot be evaluated counts as a condition   *)
(* that is not met, so a run ends whatever its condition_params are.       *)
RunEndsWhateverTheCondition ==
  (run = "RUNNING" ~> run \in TerminalRun) \/ <>[]InFlight \/ []<>cut
=============================================================================
