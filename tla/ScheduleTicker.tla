--------------------------- MODULE ScheduleTicker ---------------------------
(***************************************************************************)
(* Continuous recon: the ticker thread of every worker process             *)
(* (scheduling/ticker.py) claims the schedules that are due, then turns    *)
(* each one into a Job or records why it could not, working on the objects *)
(* its session loaded with the claim.  Meanwhile the API edits, deletes    *)
(* and runs schedules and deletes assets (api/routes/schedules.py,         *)
(* scheduling/service.py), each request in a session of its own.           *)
(* Each schedule has an asset of its own here.                             *)
(***************************************************************************)
EXTENDS Naturals, FiniteSets

CONSTANTS
  Schedules,    \* the ids of scheduled_jobs
  Tickers,      \* the ticker threads, one per worker process
  MaxFailures,  \* MAX_CONSECUTIVE_FAILURES
  MaxMishaps,   \* bound: crashes and unexpected exceptions
  NoSchedule, NoEdit

ASSUME MaxFailuresAssumption == MaxFailures \in Nat \ {0}
ASSUME MaxMishapsAssumption == MaxMishaps \in Nat
ASSUME NoScheduleAssumption == NoSchedule \notin Schedules

VARIABLES
  status,    \* scheduled_jobs.status, "ABSENT" before and "GONE" after the row
  due,       \* next_run_at <= now
  failures,  \* consecutive_failures, counted up to MaxFailures
  asset,     \* the asset; asset_id is NULL exactly when it is "deleted"
  editor,    \* the status a PATCH request will write
  runner,    \* a "run now" request that has still to clear the failures it saw
  disabler,  \* a DELETE of the asset that has read the asset's schedules
  batch,     \* the claimed schedules a tick has still to process
  current,   \* the one it is processing
  phase,     \* what the tick will commit for it
  view,      \* the claimed schedules as the tick's session has them in memory
  expired,   \* a rollback has expired that memory
  again,     \* claimed schedules that have fallen due again meanwhile
  ran,       \* a Job was created since the schedule last fell due
  mishaps

rowVars == <<status, due, failures, ran>>
requestVars == <<editor, runner, disabler>>
tickVars == <<batch, current, phase, view, expired>>
vars == <<rowVars, asset, requestVars, tickVars, again, mishaps>>

ScheduleStatus == {"ACTIVE", "PAUSED", "DISABLED"}
RowStatus == ScheduleStatus \cup {"ABSENT", "GONE"}
Counts == 0 .. MaxFailures

(* "blocked": is_executable() or prepare_job() refuses the run.            *)
AssetStates == {"executable", "blocked", "deleted"}

Views == [status : RowStatus, failures : Counts, linked : BOOLEAN]
NoView == [status |-> "ABSENT", failures |-> 0, linked |-> FALSE]
Edits == [want : ScheduleStatus, clean : BOOLEAN]

TypeOK ==
  /\ status \in [Schedules -> RowStatus]
  /\ due \in [Schedules -> BOOLEAN]
  /\ failures \in [Schedules -> Counts]
  /\ asset \in [Schedules -> AssetStates]
  /\ editor \in [Schedules -> Edits \cup {NoEdit}]
  /\ runner \in [Schedules -> BOOLEAN]
  /\ disabler \in [Schedules -> {"idle", "sawNone", "sawSchedule"}]
  /\ batch \in [Tickers -> SUBSET Schedules]
  /\ current \in [Tickers -> Schedules \cup {NoSchedule}]
  /\ phase \in [Tickers -> {"idle", "failing", "disabling", "enqueued"}]
  /\ view \in [Tickers -> [Schedules -> Views]]
  /\ expired \in [Tickers -> BOOLEAN]
  /\ again \in [Tickers -> SUBSET Schedules]
  /\ ran \in [Schedules -> BOOLEAN]
  /\ mishaps \in 0 .. MaxMishaps

Init ==
  /\ status = [s \in Schedules |-> "ABSENT"]
  /\ due = [s \in Schedules |-> FALSE]
  /\ failures = [s \in Schedules |-> 0]
  /\ asset = [s \in Schedules |-> "executable"]
  /\ editor = [s \in Schedules |-> NoEdit]
  /\ runner = [s \in Schedules |-> FALSE]
  /\ disabler = [s \in Schedules |-> "idle"]
  /\ batch = [t \in Tickers |-> {}]
  /\ current = [t \in Tickers |-> NoSchedule]
  /\ phase = [t \in Tickers |-> "idle"]
  /\ view = [t \in Tickers |-> [s \in Schedules |-> NoView]]
  /\ expired = [t \in Tickers |-> FALSE]
  /\ again = [t \in Tickers |-> {}]
  /\ ran = [s \in Schedules |-> FALSE]
  /\ mishaps = 0

Exists(s) == status[s] \in ScheduleStatus
Holds(t, s) == s \in batch[t] \/ current[t] = s

\* next_run_at is not in the future any more: a new turn of the schedule.
FallDue(s) ==
  /\ due' = [due EXCEPT ![s] = TRUE]
  /\ again' = [t \in Tickers |-> IF Holds(t, s) THEN again[t] \cup {s} ELSE again[t]]

(***************************************************************************)
(* Time and the API.                                                       *)
(***************************************************************************)

\* Deviation: next_run_at is moved on only by a run that made a Job.
ElapseAfterRun(s) ==
  /\ Exists(s) /\ ~due[s] /\ ran[s]
  /\ FallDue(s)
  /\ ran' = [ran EXCEPT ![s] = FALSE]
  /\ UNCHANGED <<status, failures, asset, requestVars, tickVars, mishaps>>

\* interval_seconds pass.
Elapse(s) ==
  /\ Exists(s) /\ ~due[s]
  /\ FallDue(s)
  /\ ran' = [ran EXCEPT ![s] = FALSE]
  /\ UNCHANGED <<status, failures, asset, requestVars, tickVars, mishaps>>

\* PATCH on the asset, or on the schedule's profile and params.
Refit(s) ==
  /\ Exists(s)
  /\ asset' = [asset EXCEPT ![s] = CASE @ = "executable" -> "blocked"
                                     [] @ = "blocked" -> "executable"
                                     [] OTHER -> @]
  /\ UNCHANGED <<rowVars, requestVars, tickVars, again, mishaps>>

\* create_asset_schedule(): due at once.
CreateSchedule(s) ==
  /\ status[s] = "ABSENT" /\ asset[s] = "executable"
  /\ status' = [status EXCEPT ![s] = "ACTIVE"]
  /\ FallDue(s)
  /\ UNCHANGED <<failures, ran, asset, requestVars, tickVars, mishaps>>

DeleteSchedule(s) ==
  /\ Exists(s)
  /\ status' = [status EXCEPT ![s] = "GONE"]
  /\ due' = [due EXCEPT ![s] = FALSE]
  /\ failures' = [failures EXCEPT ![s] = 0]
  /\ ran' = [ran EXCEPT ![s] = FALSE]
  /\ UNCHANGED <<asset, requestVars, tickVars, again, mishaps>>

\* update_schedule(): the unlocked read.  A request that would change nothing
\* of what it has read writes nothing.
PatchRead(s) ==
  /\ Exists(s) /\ editor[s] = NoEdit
  /\ \E want \in ScheduleStatus \ {status[s]} :
       editor' = [editor EXCEPT ![s] =
         [want |-> want, clean |-> want # "ACTIVE" \/ failures[s] = 0]]
  /\ UNCHANGED <<rowVars, asset, runner, disabler, tickVars, again, mishaps>>

\* Its commit, over whatever the row has become: a resumed schedule is due at
\* once, with a clean slate if the read saw failures.  Without a row it fails.
PatchWrite(s) ==
  /\ editor[s] # NoEdit
  /\ editor' = [editor EXCEPT ![s] = NoEdit]
  /\ IF Exists(s)
       THEN /\ status' = [status EXCEPT ![s] = editor[s].want]
            /\ failures' = IF editor[s].clean THEN failures ELSE [failures EXCEPT ![s] = 0]
            /\ IF editor[s].want = "ACTIVE" THEN FallDue(s) ELSE UNCHANGED <<due, again>>
       ELSE UNCHANGED <<status, due, failures, again>>
  /\ UNCHANGED <<ran, asset, runner, disabler, tickVars, mishaps>>

\* run_schedule_now(): the Job is created in a first commit.
RunNow(s) ==
  /\ status[s] \in {"ACTIVE", "PAUSED"} /\ asset[s] = "executable" /\ ~runner[s]
  /\ ran' = [ran EXCEPT ![s] = TRUE]
  /\ runner' = [runner EXCEPT ![s] = failures[s] > 0]
  /\ UNCHANGED <<status, due, failures, asset, editor, disabler, tickVars, again, mishaps>>

\* And the schedule updated in a second one.
FinishRunNow(s) ==
  /\ runner[s]
  /\ runner' = [runner EXCEPT ![s] = FALSE]
  /\ failures' = [failures EXCEPT ![s] = 0]
  /\ UNCHANGED <<status, due, ran, asset, editor, disabler, tickVars, again, mishaps>>

\* delete_asset(): disable_schedules_for_asset() reads the schedules.
ReadSchedules(s) ==
  /\ status[s] # "GONE" /\ asset[s] # "deleted" /\ disabler[s] = "idle"
  /\ disabler' = [disabler EXCEPT ![s] =
       IF status[s] \in {"ACTIVE", "PAUSED"} THEN "sawSchedule" ELSE "sawNone"]
  /\ UNCHANGED <<rowVars, asset, editor, runner, tickVars, again, mishaps>>

\* The commit, which waits for a tick that has flushed a Job for the asset.  A
\* schedule deleted since it was read makes it fail.
DeleteAsset(s) ==
  /\ disabler[s] # "idle"
  /\ \A t \in Tickers : ~(phase[t] = "enqueued" /\ current[t] = s)
  /\ disabler' = [disabler EXCEPT ![s] = "idle"]
  /\ \/ /\ disabler[s] = "sawSchedule" /\ ~Exists(s)
        /\ UNCHANGED <<status, asset>>
     \/ /\ disabler[s] = "sawSchedule" /\ Exists(s)
        /\ status' = [status EXCEPT ![s] = "DISABLED"]
        /\ asset' = [asset EXCEPT ![s] = "deleted"]
     \/ /\ disabler[s] = "sawNone"
        /\ asset' = [asset EXCEPT ![s] = "deleted"]
        /\ UNCHANGED status
  /\ UNCHANGED <<due, failures, ran, editor, runner, tickVars, again, mishaps>>

(***************************************************************************)
(* The tick.                                                               *)
(***************************************************************************)

Row(s) == [status |-> status[s], failures |-> failures[s], linked |-> asset[s] # "deleted"]
Due == {s \in Schedules : status[s] = "ACTIVE" /\ due[s]}
Idle(t) == batch[t] = {} /\ phase[t] = "idle"

\* Deviation: next_run_at is left for the processing to move on.
ClaimWithoutReserving(t) ==
  /\ Idle(t) /\ Due # {}
  /\ batch' = [batch EXCEPT ![t] = Due]
  /\ view' = [view EXCEPT ![t] = [s \in Schedules |-> IF s \in Due THEN Row(s) ELSE NoView]]
  /\ expired' = [expired EXCEPT ![t] = FALSE]
  /\ again' = [again EXCEPT ![t] = {}]
  /\ UNCHANGED <<rowVars, asset, requestVars, current, phase, mishaps>>

\* claim_due_schedules(): one transaction, FOR UPDATE SKIP LOCKED, moves
\* next_run_at of all that are due and active.
Claim(t) ==
  /\ Idle(t) /\ Due # {}
  /\ batch' = [batch EXCEPT ![t] = Due]
  /\ view' = [view EXCEPT ![t] = [s \in Schedules |-> IF s \in Due THEN Row(s) ELSE NoView]]
  /\ expired' = [expired EXCEPT ![t] = FALSE]
  /\ again' = [again EXCEPT ![t] = {}]
  /\ due' = [s \in Schedules |-> due[s] /\ s \notin Due]
  /\ UNCHANGED <<status, failures, ran, asset, requestVars, current, phase, mishaps>>

\* The schedule as process_schedule() reads it: from memory, or afresh if a
\* rollback has expired the session.
Seen(t, s) == IF expired[t] THEN Row(s) ELSE view[t][s]

Outcome(t, s) ==
  IF ~Seen(t, s).linked THEN "failing"
  ELSE CASE asset[s] = "deleted" -> "disabling"
         [] asset[s] = "blocked" -> "failing"
         [] asset[s] = "executable" -> "enqueued"

\* process_schedule() up to its commit: the asset is read now, the Job flushed
\* and enqueued.
Process(t) ==
  /\ phase[t] = "idle"
  /\ \E s \in batch[t] :
       /\ expired[t] => Exists(s)
       /\ batch' = [batch EXCEPT ![t] = @ \ {s}]
       /\ current' = [current EXCEPT ![t] = s]
       /\ phase' = [phase EXCEPT ![t] = Outcome(t, s)]
       /\ view' = [view EXCEPT ![t][s] = Seen(t, s)]
  /\ UNCHANGED <<rowVars, asset, requestVars, expired, again, mishaps>>

\* The current schedule is done with; the session is closed after the last.
Done(t, rolledBack) ==
  /\ current' = [current EXCEPT ![t] = NoSchedule]
  /\ phase' = [phase EXCEPT ![t] = "idle"]
  /\ view' = [view EXCEPT ![t][current[t]] = NoView]
  /\ again' = [again EXCEPT ![t] = @ \ {current[t]}]
  /\ expired' = [expired EXCEPT ![t] = batch[t] # {} /\ (@ \/ rolledBack)]

WriteStatus(t, s, new) ==
  status' = IF view[t][s].status = new THEN status ELSE [status EXCEPT ![s] = new]

\* The Job, and a clean slate if the session remembers failures.
CommitRun(t) ==
  /\ phase[t] = "enqueued" /\ Exists(current[t])
  /\ ran' = [ran EXCEPT ![current[t]] = TRUE]
  /\ failures' = IF view[t][current[t]].failures = 0
                   THEN failures ELSE [failures EXCEPT ![current[t]] = 0]
  /\ Done(t, FALSE)
  /\ UNCHANGED <<status, due, asset, requestVars, batch, mishaps>>

\* Deviation: failures are recorded, but never pause the schedule.
CountOnly(t) ==
  /\ phase[t] = "failing" /\ Exists(current[t])
  /\ LET seen == view[t][current[t]].failures IN
       failures' = [failures EXCEPT ![current[t]] =
                      IF seen < MaxFailures THEN seen + 1 ELSE MaxFailures]
  /\ Done(t, FALSE)
  /\ UNCHANGED <<status, due, ran, asset, requestVars, batch, mishaps>>

\* Deviation: the schedule is paused under RQ's name for it.
PauseAsSuspended(t) ==
  /\ phase[t] = "failing" /\ Exists(current[t])
  /\ WriteStatus(t, current[t], "SUSPENDED")
  /\ Done(t, FALSE)
  /\ UNCHANGED <<due, ran, failures, asset, requestVars, batch, mishaps>>

\* _fail(): one more than the session remembers, and PAUSED at the threshold.
CommitFailure(t) ==
  /\ phase[t] = "failing" /\ Exists(current[t])
  /\ LET seen == view[t][current[t]].failures IN
       IF seen + 1 < MaxFailures
         THEN /\ failures' = [failures EXCEPT ![current[t]] = seen + 1]
              /\ UNCHANGED status
         ELSE /\ failures' = [failures EXCEPT ![current[t]] = MaxFailures]
              /\ WriteStatus(t, current[t], "PAUSED")
  /\ Done(t, FALSE)
  /\ UNCHANGED <<due, ran, asset, requestVars, batch, mishaps>>

CommitDisabled(t) ==
  /\ phase[t] = "disabling" /\ Exists(current[t])
  /\ WriteStatus(t, current[t], "DISABLED")
  /\ Done(t, FALSE)
  /\ UNCHANGED <<due, failures, ran, asset, requestVars, batch, mishaps>>

\* An unexpected exception, caught: the session is rolled back.  The Job's
\* entry may have reached Redis; nothing counts as a failure.
RollBack(t) ==
  /\ mishaps < MaxMishaps
  /\ phase[t] = "enqueued" /\ Exists(current[t])
  /\ mishaps' = mishaps + 1
  /\ Done(t, TRUE)
  /\ UNCHANGED <<rowVars, asset, requestVars, batch>>

\* The rest of the batch is given up.
Abandon(t) ==
  /\ batch' = [batch EXCEPT ![t] = {}]
  /\ current' = [current EXCEPT ![t] = NoSchedule]
  /\ phase' = [phase EXCEPT ![t] = "idle"]
  /\ view' = [view EXCEPT ![t] = [s \in Schedules |-> NoView]]
  /\ expired' = [expired EXCEPT ![t] = FALSE]
  /\ again' = [again EXCEPT ![t] = {}]

\* The schedule was deleted since the claim.  The UPDATE matches no row, or the
\* expired object cannot be loaded; the handler rolls back and then reads
\* schedule.id, which raises in its turn: the tick ends here.
TickDies(t) ==
  /\ \/ phase[t] # "idle" /\ ~Exists(current[t])
     \/ phase[t] = "idle" /\ expired[t] /\ \E s \in batch[t] : ~Exists(s)
  /\ Abandon(t)
  /\ UNCHANGED <<rowVars, asset, requestVars, mishaps>>

\* The worker process dies.
Crash(t) ==
  /\ mishaps < MaxMishaps
  /\ ~Idle(t)
  /\ mishaps' = mishaps + 1
  /\ Abandon(t)
  /\ UNCHANGED <<rowVars, asset, requestVars>>

-----------------------------------------------------------------------------

Request(s) ==
  \/ Elapse(s) \/ Refit(s) \/ CreateSchedule(s) \/ DeleteSchedule(s)
  \/ PatchRead(s) \/ PatchWrite(s) \/ RunNow(s) \/ FinishRunNow(s)
  \/ ReadSchedules(s) \/ DeleteAsset(s)

Tick(t) ==
  \/ Claim(t) \/ Process(t) \/ CommitRun(t) \/ CommitFailure(t)
  \/ CommitDisabled(t) \/ RollBack(t) \/ TickDies(t)

Next ==
  \/ \E s \in Schedules : Request(s)
  \/ \E t \in Tickers : Tick(t) \/ Crash(t)

Spec == Init /\ [][Next]_vars

(* Every ticker thread loops for ever (start_scheduler_thread() catches    *)
(* whatever a tick raises) and time passes.  No request has to be made.    *)
Fairness ==
  /\ \A t \in Tickers : WF_vars(Tick(t))
  /\ \A s \in Schedules : WF_vars(Elapse(s))

FairSpec == Spec /\ Fairness

(***************************************************************************)
(* Properties.                                                             *)
(***************************************************************************)

(* "each due row is claimed by exactly one of them" (ticker.py:46-54): if  *)
(* two ticks work on one schedule at once, then because it has fallen due  *)
(* again since one of them claimed it.                                     *)
OneClaimPerTurn ==
  \A s \in Schedules, t, u \in Tickers :
    t # u /\ Holds(t, s) /\ Holds(u, s) => s \in again[t] \cup again[u]

(* A schedule whose runs are refused for good, because its asset is not    *)
(* executable any more, was deleted, or its parameters became invalid,     *)
(* does not stay active: "auto-paused rather than retried forever"         *)
(* (ticker.py:38-42), whatever requests and other tickers overwrite.       *)
BrokenScheduleIsPaused ==
  \A s \in Schedules :
    <>[](asset[s] # "executable") => []<>(status[s] # "ACTIVE")

(* An active schedule that may run runs again and again: a crash or a lost *)
(* tick "costs one missed run -- the row is not stuck" (ticker.py:53-54).  *)
FitScheduleFires ==
  \A s \in Schedules :
    <>[](status[s] = "ACTIVE" /\ asset[s] = "executable") => []<>ran[s]
=============================================================================
