------------------------- MODULE MissionOrchestrator -------------------------
(***************************************************************************)
(* One Mission (app/ai/orchestrator.py): an approved list of steps walked  *)
(* forward one Job at a time.  _advance_mission_locked() is called by the  *)
(* approval, by the completion hook of every job and by the mission sweep  *)
(* of every worker process, each in a session of its own, so several       *)
(* advancers may run at once.  They take a FOR UPDATE lock on the mission, *)
(* but the commit that files the finished step under its outcome gives the *)
(* lock up halfway, and the second half works on what was read before it.  *)
(* The jobs themselves are the rows JobEngine describes, reduced to what   *)
(* the orchestrator reads: live or which terminal status.                  *)
(***************************************************************************)
EXTENDS Naturals, FiniteSets

CONSTANTS
  MaxSteps,    \* missions.max_steps, the hard cap on executed steps
  MaxPlan,     \* bound: the longest plan the AI planner proposes
  Jobs,        \* bound: the job ids the mission may use
  Advancers,   \* bound: advancing sessions open at once
  MaxCrashes,  \* bound: how often an advancing session or a horse dies
  MaxRewrites, \* bound: how often a late writer replaces a terminal status
  Faults,      \* which failures and delays the environment produces
  NoJob, NoOne

ASSUME BoundsAssumption ==
  MaxSteps \in Nat \ {0} /\ MaxPlan \in Nat /\ MaxCrashes \in Nat /\ MaxRewrites \in Nat
ASSUME NoJobAssumption == NoJob \notin Jobs
ASSUME NoOneAssumption == NoOne \notin Advancers
ASSUME FaultsAssumption == Faults \subseteq {"crash", "slow"}

VARIABLES
  mission,     \* missions.status, "ABSENT" before it is created
  step,        \* mission_steps.status by step_order, "ABSENT" beyond the plan
  stepJob,     \* mission_steps.job_id
  runnable,    \* the step names a tool the registry accepts
  authorized,  \* the target asset is_executable()
  job,         \* jobs.status: "unused", "flushed", "live", or terminal
  jobFor,      \* the step the job was created for
  horse,       \* the job's work horse, up to the start of its mission hook
  stalled,     \* no progress recorded for DEFAULT_ORCHESTRATION_STUCK_AFTER
  lock,        \* who holds the FOR UPDATE lock on the mission row
  pc,          \* progress of an advancing session
  seen,        \* mission.status as the session has it in memory
  view,        \* mission_steps.status as the session has them in memory
  held,        \* the job of the step the session found, or has enqueued
  crashes,
  rewrites

missionVars == <<mission, step, stepJob, runnable, authorized>>
jobVars == <<job, jobFor, horse>>
sessionVars == <<pc, seen, view, held>>
counters == <<crashes, rewrites>>
vars == <<missionVars, jobVars, stalled, lock, sessionVars, counters>>

MissionStatus == {"DRAFT", "APPROVED", "RUNNING", "COMPLETED", "FAILED", "CANCELLED"}
TerminalMission == {"COMPLETED", "FAILED", "CANCELLED"}
StepStatus == {"PENDING", "SKIPPED", "QUEUED", "SUCCESS", "FAILED", "CANCELLED"}
TerminalJob == {"SUCCESS", "FAILED", "CANCELLED"}
Orders == 0 .. MaxPlan - 1

NoView == [k \in Orders |-> "ABSENT"]

TypeOK ==
  /\ mission \in MissionStatus \cup {"ABSENT"}
  /\ step \in [Orders -> StepStatus \cup {"ABSENT"}]
  /\ stepJob \in [Orders -> Jobs \cup {NoJob}]
  /\ runnable \in [Orders -> BOOLEAN]
  /\ authorized \in BOOLEAN
  /\ job \in [Jobs -> TerminalJob \cup {"unused", "flushed", "live", "lost"}]
  /\ jobFor \in [Jobs -> Orders \cup {MaxPlan}]
  /\ horse \in [Jobs -> {"waiting", "claimed", "hooked", "gone"}]
  /\ stalled \in BOOLEAN
  /\ lock \in Advancers \cup {NoOne}
  /\ pc \in [Advancers -> {"idle", "waiting", "locked", "resolved", "enqueued"}]
  /\ seen \in [Advancers -> MissionStatus \cup {"ABSENT"}]
  /\ view \in [Advancers -> [Orders -> StepStatus \cup {"ABSENT"}]]
  /\ held \in [Advancers -> Jobs \cup {NoJob}]
  /\ crashes \in 0 .. MaxCrashes
  /\ rewrites \in 0 .. MaxRewrites

Init ==
  /\ mission = "ABSENT"
  /\ step = NoView
  /\ stepJob = [k \in Orders |-> NoJob]
  /\ runnable \in [Orders -> BOOLEAN]
  /\ authorized \in BOOLEAN
  /\ job = [j \in Jobs |-> "unused"]
  /\ jobFor = [j \in Jobs |-> MaxPlan]
  /\ horse = [j \in Jobs |-> "waiting"]
  /\ stalled = FALSE
  /\ lock = NoOne
  /\ pc = [a \in Advancers |-> "idle"]
  /\ seen = [a \in Advancers |-> "ABSENT"]
  /\ view = [a \in Advancers |-> NoView]
  /\ held = [a \in Advancers |-> NoJob]
  /\ crashes = 0
  /\ rewrites = 0

(***************************************************************************)
(* The operator's requests.                                                *)
(***************************************************************************)

\* create_mission(): a DRAFT with the first max_steps steps of the plan.
CreateMission ==
  /\ mission = "ABSENT"
  /\ mission' = "DRAFT"
  /\ \E n \in 0 .. MaxPlan :
       step' = [k \in Orders |-> IF k < n /\ k < MaxSteps THEN "PENDING" ELSE "ABSENT"]
  /\ UNCHANGED <<stepJob, runnable, authorized, jobVars, stalled, lock, sessionVars, counters>>

\* An advancer opens a session, having loaded at most one step and its job.
OpenSession(a, loaded, j) ==
  /\ pc[a] = "idle"
  /\ pc' = [pc EXCEPT ![a] = "waiting"]
  /\ view' = [view EXCEPT ![a] = loaded]
  /\ held' = [held EXCEPT ![a] = j]
  /\ UNCHANGED seen

\* approve_mission(): commits APPROVED, then advances in a second session.
Approve(a) ==
  /\ mission = "DRAFT" /\ lock = NoOne
  /\ mission' = "APPROVED"
  /\ stalled' = FALSE
  /\ OpenSession(a, NoView, NoJob)
  /\ UNCHANGED <<step, stepJob, runnable, authorized, jobVars, lock, counters>>

\* cancel_mission(): the kill switch, a no-op on a terminal mission.
CancelMission ==
  /\ mission \notin TerminalMission \cup {"ABSENT"} /\ lock = NoOne
  /\ mission' = "CANCELLED"
  /\ UNCHANGED <<step, stepJob, runnable, authorized, jobVars, stalled, lock, sessionVars, counters>>

\* PATCH on the asset.  (Its deletion deletes the mission by cascade.)
SetAuthorization ==
  /\ authorized' = ~authorized
  /\ UNCHANGED <<mission, step, stepJob, runnable, jobVars, stalled, lock, sessionVars, counters>>

(***************************************************************************)
(* _advance_mission_locked().                                              *)
(***************************************************************************)

\* The rows as the session sees them: a step it had already loaded before
\* taking the lock keeps the attributes it had then.
Loaded(a) == [k \in Orders |-> IF view[a][k] = "ABSENT" THEN step[k] ELSE view[a][k]]

Queued(v) == {k \in Orders : v[k] = "QUEUED"}
IsFirst(k, S) == k \in S /\ \A i \in S : k <= i

Close(a) ==
  /\ pc' = [pc EXCEPT ![a] = "idle"]
  /\ view' = [view EXCEPT ![a] = NoView]
  /\ seen' = [seen EXCEPT ![a] = "ABSENT"]
  /\ held' = [held EXCEPT ![a] = NoJob]
  /\ lock' = IF lock = a THEN NoOne ELSE lock

\* The blocking FOR UPDATE read of the mission.  A terminal one ends the
\* session; otherwise the steps are read, and with the first queued one its
\* job_id.
LockMission(a) ==
  /\ pc[a] = "waiting" /\ lock = NoOne
  /\ \/ /\ mission \in TerminalMission
        /\ Close(a)
     \/ /\ mission \notin TerminalMission
        /\ lock' = a
        /\ seen' = [seen EXCEPT ![a] = mission]
        /\ view' = [view EXCEPT ![a] = Loaded(a)]
        /\ \/ /\ Queued(Loaded(a)) = {}
              /\ pc' = [pc EXCEPT ![a] = "resolved"]
              /\ held' = [held EXCEPT ![a] = NoJob]
           \/ \E k \in Orders :
                /\ IsFirst(k, Queued(Loaded(a)))
                /\ pc' = [pc EXCEPT ![a] = "locked"]
                /\ held' = [held EXCEPT ![a] = IF view[a][k] = "ABSENT" THEN stepJob[k] ELSE @]
  /\ UNCHANGED <<missionVars, jobVars, stalled, counters>>

\* The queued step's job is still running: check again later.
StillRunning(a) ==
  /\ pc[a] = "locked"
  /\ job[held[a]] \notin TerminalJob
  /\ Close(a)
  /\ UNCHANGED <<missionVars, jobVars, stalled, counters>>

\* The finished step takes its job's outcome, and the commit that makes it
\* durable releases the lock.
ResolveStep(a) ==
  /\ pc[a] = "locked"
  /\ job[held[a]] \in TerminalJob
  /\ \E k \in Orders :
       /\ IsFirst(k, Queued(view[a]))
       /\ step' = [step EXCEPT ![k] = job[held[a]]]
       /\ view' = [view EXCEPT ![a][k] = job[held[a]]]
  /\ pc' = [pc EXCEPT ![a] = "resolved"]
  /\ lock' = NoOne
  /\ UNCHANGED <<mission, stepJob, runnable, authorized, jobVars, stalled, seen, held, counters>>

StepsIn(a, statuses) == {k \in Orders : view[a][k] \in statuses}
Runnable(a) == {k \in StepsIn(a, {"PENDING"}) : k < MaxSteps}

\* _stop_mission(): waits for whoever holds the row, then overwrites it.
StopMission(a, status) ==
  /\ lock \in {NoOne, a}
  /\ mission' = status
  /\ Close(a)

\* Deviation: one success is enough for COMPLETED.
StopOnAnySuccess(a) ==
  /\ pc[a] = "resolved"
  /\ \/ /\ StepsIn(a, {"CANCELLED"}) # {}
        /\ StopMission(a, "CANCELLED")
     \/ /\ StepsIn(a, {"CANCELLED"}) = {}
        /\ StepsIn(a, {"FAILED", "SKIPPED"}) # {} \/ Runnable(a) = {}
        /\ StopMission(a, IF StepsIn(a, {"SUCCESS"}) # {} THEN "COMPLETED" ELSE "FAILED")
  /\ UNCHANGED <<step, stepJob, runnable, authorized, jobVars, stalled, counters>>

\* A step was cancelled or failed, or none is left to run.
Stop(a) ==
  /\ pc[a] = "resolved"
  /\ \/ /\ StepsIn(a, {"CANCELLED"}) # {}
        /\ StopMission(a, "CANCELLED")
     \/ /\ StepsIn(a, {"CANCELLED"}) = {}
        /\ StepsIn(a, {"FAILED", "SKIPPED"}) # {}
        /\ StopMission(a, "FAILED")
     \/ /\ StepsIn(a, {"CANCELLED", "FAILED", "SKIPPED"}) = {}
        /\ Runnable(a) = {}
        /\ StopMission(a, IF StepsIn(a, {"SUCCESS"}) # {} THEN "COMPLETED" ELSE "FAILED")
  /\ UNCHANGED <<step, stepJob, runnable, authorized, jobVars, stalled, counters>>

\* Deviation: a failed step does not stop the mission.
MayContinueAfterFailure(a) ==
  /\ pc[a] = "resolved"
  /\ StepsIn(a, {"CANCELLED", "SKIPPED"}) = {}
  /\ Runnable(a) # {}

MayContinue(a) ==
  /\ pc[a] = "resolved"
  /\ StepsIn(a, {"CANCELLED", "FAILED", "SKIPPED"}) = {}
  /\ Runnable(a) # {}

\* Deviation: the mission takes the status of its skipped step.
SkipMission(a) ==
  /\ MayContinue(a)
  /\ \E k \in Orders :
       /\ IsFirst(k, Runnable(a))
       /\ ~runnable[k] \/ ~authorized
       /\ step' = [step EXCEPT ![k] = "SKIPPED"]
  /\ StopMission(a, "SKIPPED")
  /\ UNCHANGED <<stepJob, runnable, authorized, jobVars, stalled, counters>>

\* No valid tool, or the target is not executable any more.
SkipStep(a) ==
  /\ MayContinue(a)
  /\ \E k \in Orders :
       /\ IsFirst(k, Runnable(a))
       /\ ~runnable[k] \/ ~authorized
       /\ step' = [step EXCEPT ![k] = "SKIPPED"]
  /\ StopMission(a, "FAILED")
  /\ UNCHANGED <<stepJob, runnable, authorized, jobVars, stalled, counters>>

\* The Job is flushed and enqueued; nothing is committed yet.
EnqueueStep(a) ==
  /\ MayContinue(a)
  /\ authorized
  /\ \E k \in Orders, j \in Jobs :
       /\ IsFirst(k, Runnable(a)) /\ runnable[k]
       /\ job[j] = "unused"
       /\ job' = [job EXCEPT ![j] = "flushed"]
       /\ jobFor' = [jobFor EXCEPT ![j] = k]
       /\ held' = [held EXCEPT ![a] = j]
  /\ pc' = [pc EXCEPT ![a] = "enqueued"]
  /\ UNCHANGED <<missionVars, horse, stalled, lock, seen, view, counters>>

\* Deviation: the step is linked to its Job but stays PENDING.
CommitUnqueued(a) ==
  /\ pc[a] = "enqueued"
  /\ lock \in {NoOne, a} \/ seen[a] = "RUNNING"
  /\ stepJob' = [stepJob EXCEPT ![jobFor[held[a]]] = held[a]]
  /\ job' = [job EXCEPT ![held[a]] = "live"]
  /\ mission' = IF seen[a] = "RUNNING" THEN mission ELSE "RUNNING"
  /\ Close(a)
  /\ UNCHANGED <<step, runnable, authorized, jobFor, horse, stalled, counters>>

\* Deviation: the step is queued without the link to its Job.
CommitUnlinked(a) ==
  /\ pc[a] = "enqueued"
  /\ lock \in {NoOne, a} \/ seen[a] = "RUNNING"
  /\ step' = [step EXCEPT ![jobFor[held[a]]] = "QUEUED"]
  /\ job' = [job EXCEPT ![held[a]] = "live"]
  /\ mission' = IF seen[a] = "RUNNING" THEN mission ELSE "RUNNING"
  /\ Close(a)
  /\ UNCHANGED <<stepJob, runnable, authorized, jobFor, horse, stalled, counters>>

\* Deviation: RUNNING is written even if it is what the session had loaded.
CommitRunning(a) ==
  /\ pc[a] = "enqueued"
  /\ lock \in {NoOne, a}
  /\ LET k == jobFor[held[a]] IN
       /\ step' = [step EXCEPT ![k] = "QUEUED"]
       /\ stepJob' = [stepJob EXCEPT ![k] = held[a]]
  /\ job' = [job EXCEPT ![held[a]] = "live"]
  /\ mission' = "RUNNING"
  /\ Close(a)
  /\ UNCHANGED <<runnable, authorized, jobFor, horse, stalled, counters>>

\* The final commit: the Job, the step's link to it, and RUNNING, unless
\* RUNNING is what the session had loaded and nothing is written.
CommitStep(a) ==
  /\ pc[a] = "enqueued"
  /\ lock \in {NoOne, a} \/ seen[a] = "RUNNING"
  /\ LET k == jobFor[held[a]] IN
       /\ step' = [step EXCEPT ![k] = "QUEUED"]
       /\ stepJob' = [stepJob EXCEPT ![k] = held[a]]
  /\ job' = [job EXCEPT ![held[a]] = "live"]
  /\ mission' = IF seen[a] = "RUNNING" THEN mission ELSE "RUNNING"
  /\ Close(a)
  /\ UNCHANGED <<runnable, authorized, jobFor, horse, stalled, counters>>

\* The session dies: its transaction is rolled back, the lock released, and
\* the RQ entry of a flushed Job finds no row when it is picked up.
CrashSession(a) ==
  /\ "crash" \in Faults /\ crashes < MaxCrashes
  /\ pc[a] # "idle"
  /\ crashes' = crashes + 1
  /\ job' = [j \in Jobs |-> IF pc[a] = "enqueued" /\ j = held[a] THEN "lost" ELSE job[j]]
  /\ Close(a)
  /\ UNCHANGED <<missionVars, jobFor, horse, stalled, rewrites>>

(***************************************************************************)
(* The jobs, as JobEngine's writers leave them, and their hooks.           *)
(***************************************************************************)

Committed(j) == job[j] \in TerminalJob \cup {"live"}

\* A worker takes the RQ entry of a Job not yet committed: the run is a no-op,
\* its hook finds no step, and no other run follows.
EarlyPickup(j) ==
  /\ job[j] = "flushed" /\ horse[j] = "waiting"
  /\ horse' = [horse EXCEPT ![j] = "hooked"]
  /\ UNCHANGED <<missionVars, job, jobFor, stalled, lock, sessionVars, counters>>

\* A work horse claims the job once; it may overwrite an early CANCELLED.
ClaimJob(j) ==
  /\ Committed(j) /\ horse[j] = "waiting"
  /\ horse' = [horse EXCEPT ![j] = "claimed"]
  /\ job' = [job EXCEPT ![j] = "live"]
  /\ UNCHANGED <<missionVars, jobFor, stalled, lock, sessionVars, counters>>

\* The worker, a cancellation or the job sweep writes a terminal status, and
\* finished_at with it, which is progress if a step refers to the job.
EndJob(j) ==
  /\ Committed(j)
  /\ \E outcome \in TerminalJob \ {job[j]} :
       /\ outcome = "SUCCESS" => horse[j] = "claimed"
       /\ job' = [job EXCEPT ![j] = outcome]
  /\ IF job[j] = "live" THEN UNCHANGED rewrites
       ELSE rewrites < MaxRewrites /\ rewrites' = rewrites + 1
  /\ stalled' = (stalled /\ \A k \in Orders : stepJob[k] # j)
  /\ UNCHANGED <<missionVars, jobFor, horse, lock, sessionVars, crashes>>

\* The hook of an ended run looks the job's step up before it locks the
\* mission, in the session that will advance it.
StartHook(a, j) ==
  /\ horse[j] \in {"waiting", "claimed"} /\ job[j] \in TerminalJob
  /\ horse' = [horse EXCEPT ![j] = "hooked"]
  /\ IF \E k \in Orders : stepJob[k] = j
       THEN OpenSession(a, [k \in Orders |-> IF stepJob[k] = j THEN step[k] ELSE "ABSENT"], j)
       ELSE UNCHANGED sessionVars
  /\ UNCHANGED <<missionVars, job, jobFor, stalled, lock, counters>>

\* No hook will run: the cancelled job's horse was stopped or never forked.
LoseHook(j) ==
  /\ horse[j] \in {"waiting", "claimed"} /\ job[j] = "CANCELLED"
  /\ horse' = [horse EXCEPT ![j] = "gone"]
  /\ UNCHANGED <<missionVars, job, jobFor, stalled, lock, sessionVars, counters>>

\* The horse dies between its job's end and its hook.
CrashHorse(j) ==
  /\ "crash" \in Faults /\ crashes < MaxCrashes
  /\ horse[j] \in {"waiting", "claimed"} /\ job[j] \in TerminalJob
  /\ horse' = [horse EXCEPT ![j] = "gone"]
  /\ crashes' = crashes + 1
  /\ UNCHANGED <<missionVars, job, jobFor, stalled, lock, sessionVars, rewrites>>

(***************************************************************************)
(* reconcile_stuck_missions().                                             *)
(***************************************************************************)

HookDue(j) == horse[j] \in {"waiting", "claimed"} /\ job[j] \in TerminalJob

\* Five minutes pass without progress.  Unless the environment is "slow", a
\* hook starts, and an open session ends, well within that time.
Stall ==
  /\ ~stalled
  /\ "slow" \in Faults \/ (/\ \A a \in Advancers : pc[a] = "idle"
                           /\ \A j \in Jobs : ~HookDue(j))
  /\ stalled' = TRUE
  /\ UNCHANGED <<missionVars, jobVars, lock, sessionVars, counters>>

InFlight == \E k \in Orders : step[k] = "QUEUED" /\ job[stepJob[k]] \notin TerminalJob

\* Deviation: only missions already RUNNING are candidates.
NudgeRunning(a) ==
  /\ mission = "RUNNING"
  /\ ~InFlight /\ stalled
  /\ OpenSession(a, NoView, NoJob)
  /\ UNCHANGED <<missionVars, jobVars, stalled, lock, counters>>

\* Deviation: every mission that is not terminal is a candidate.
NudgeAnyMission(a) ==
  /\ mission \notin TerminalMission \cup {"ABSENT"}
  /\ ~InFlight /\ stalled
  /\ OpenSession(a, NoView, NoJob)
  /\ UNCHANGED <<missionVars, jobVars, stalled, lock, counters>>

\* The sweep of one worker process re-invokes advance_mission().
Nudge(a) ==
  /\ mission \in {"APPROVED", "RUNNING"}
  /\ ~InFlight /\ stalled
  /\ OpenSession(a, NoView, NoJob)
  /\ UNCHANGED <<missionVars, jobVars, stalled, lock, counters>>

-----------------------------------------------------------------------------

Operator == CreateMission \/ (\E a \in Advancers : Approve(a)) \/ CancelMission \/ SetAuthorization

Advance(a) ==
  \/ LockMission(a) \/ StillRunning(a) \/ ResolveStep(a)
  \/ Stop(a) \/ SkipStep(a) \/ EnqueueStep(a) \/ CommitStep(a)

JobStep(j) ==
  \/ EarlyPickup(j) \/ ClaimJob(j) \/ EndJob(j) \/ LoseHook(j) \/ CrashHorse(j)
  \/ \E a \in Advancers : StartHook(a, j)

Next ==
  \/ Operator \/ Stall
  \/ \E a \in Advancers : Advance(a) \/ CrashSession(a) \/ Nudge(a)
  \/ \E j \in Jobs : JobStep(j)

Spec == Init /\ [][Next]_vars

(* Sessions that were opened advance, hooks run or are lost, time passes   *)
(* and the sweep thread keeps polling; an advance_mission() that raises,   *)
(* here of this or of another mission in the same turn, is a session that  *)
(* dies: what could raise at every turn, prepare_job() refusing the step,  *)
(* is caught.  No operator has to do anything, and no live job has to end: *)
(* JobEngine's EveryJobSettles leaves some of them RUNNING for ever.       *)
Fairness ==
  /\ \A a \in Advancers : WF_vars(Advance(a))
  /\ \A j \in Jobs : WF_vars(LoseHook(j) \/ \E a \in Advancers : StartHook(a, j))
  /\ WF_vars(Stall)
  /\ WF_vars(\E a \in Advancers : Nudge(a))

FairSpec == Spec /\ Fairness

(***************************************************************************)
(* Properties that hold whatever fails.                                    *)
(***************************************************************************)

(* "A Mission never auto-starts on its own -- approval is the one and only *)
(* human action that starts execution" (orchestrator.py:296-298): before   *)
(* it no step moves and no Job exists, committed or not.                   *)
NothingBeforeApproval ==
  mission \in {"ABSENT", "DRAFT"} =>
    /\ \A k \in Orders : step[k] \in {"ABSENT", "PENDING"}
    /\ \A j \in Jobs : job[j] = "unused"

(* A finished or cancelled mission never goes back to APPROVED or RUNNING: *)
(* the write of RUNNING is only ever emitted while the lock is held, even  *)
(* though later steps are committed without it.                            *)
TerminalNeverResumes ==
  [][(mission \in TerminalMission) => (mission' \in TerminalMission)]_vars

(* ck_mission_step_job_id_required_when_executed (models/mission.py) never *)
(* rejects a transaction: a step that reached the queue is linked to a Job *)
(* that was created for it, through every duplicate, crash and stale view. *)
ExecutedStepHasItsJob ==
  \A k \in Orders :
    step[k] \in {"QUEUED", "SUCCESS", "FAILED"} =>
      stepJob[k] # NoJob /\ jobFor[stepJob[k]] = k /\ Committed(stepJob[k])

(***************************************************************************)
(* Properties that hold while hooks are prompt, and nothing has died.      *)
(***************************************************************************)

(* Two jobs are never created for one step (orchestrator.py:36-41).        *)
OneJobPerStep ==
  crashes = 0 =>
    \A i, j \in Jobs : i # j /\ Committed(i) /\ Committed(j) => jobFor[i] # jobFor[j]

(* A step is queued only when every earlier one has succeeded.             *)
StepsRunInOrder ==
  [][\A k \in Orders : crashes = 0 /\ step[k] # "QUEUED" /\ step'[k] = "QUEUED" =>
        (\A i \in 0 .. k - 1 : step[i] = "SUCCESS")]_vars

(* COMPLETED is the word of a mission whose every step has succeeded.      *)
CompletedMeansDone ==
  crashes = 0 /\ mission = "COMPLETED" => \A k \in Orders : step[k] \in {"ABSENT", "SUCCESS"}

(* An approved mission ends, whether its advancing sessions and hooks die  *)
(* or not (that is what the mission sweep is for, reconciliation.py:151),  *)
(* unless the job of its queued step never ends: the sweep never touches a *)
(* mission in flight, and a job whose horse died may stay RUNNING for ever *)
(* (JobEngine's Stranded).                                                 *)
MissionEnds ==
  \/ mission \in {"APPROVED", "RUNNING"} ~> mission \in TerminalMission
  \/ <>[]InFlight

(***************************************************************************)
(* A claim of the repository that the code does not keep.                  *)
(***************************************************************************)

(* "cancelling a Mission only prevents any *future* step from ever being   *)
(* queued" (orchestrator.py:335-339).                                      *)
KillSwitch ==
  [][mission = "CANCELLED" =>
        \A k \in Orders : step[k] = "PENDING" => step'[k] # "QUEUED"]_vars
=============================================================================
