---------------------------- MODULE JobLifecycle ----------------------------
(***************************************************************************)
(* What the job engine promises about one row of the `jobs` table, whoever *)
(* writes it: the create and cancel endpoints, the RQ worker and the       *)
(* reconciliation sweep.  A job is submitted once, is claimed by a worker  *)
(* at most once, and reports a successful scan at most once, only with the *)
(* evidence of that run and only after it was claimed.  A cancellation or  *)
(* a reconciliation may overwrite any status: the engine takes no row      *)
(* lock, so the stronger promise that a terminal status is final is not    *)
(* one it keeps (JobEngine's violation runs show how it is broken).        *)
(***************************************************************************)
CONSTANT Jobs

VARIABLES
  status,       \* the status column, "ABSENT" while no row is committed
  startedAt,    \* whether started_at is set: a worker has claimed the job
  evidence      \* whether stdout and evidence_sha256 are stored

vars == <<status, startedAt, evidence>>

Statuses == {"ABSENT", "QUEUED", "RUNNING", "SUCCESS", "FAILED", "CANCELLED"}

TypeOK ==
  /\ status \in [Jobs -> Statuses]
  /\ startedAt \in [Jobs -> BOOLEAN]
  /\ evidence \in [Jobs -> BOOLEAN]

Init ==
  /\ status = [j \in Jobs |-> "ABSENT"]
  /\ startedAt = [j \in Jobs |-> FALSE]
  /\ evidence = [j \in Jobs |-> FALSE]

\* The row becomes visible, queued.
Submit(j) ==
  /\ status[j] = "ABSENT"
  /\ status' = [status EXCEPT ![j] = "QUEUED"]
  /\ UNCHANGED <<startedAt, evidence>>

\* The one worker that ever claims the job.
Claim(j) ==
  /\ ~startedAt[j]
  /\ status[j] # "ABSENT"
  /\ status' = [status EXCEPT ![j] = "RUNNING"]
  /\ startedAt' = [startedAt EXCEPT ![j] = TRUE]
  /\ UNCHANGED evidence

\* The claimed run reports its output, and with it success or failure; a
\* failure may leave a status written meanwhile by somebody else.
Report(j) ==
  /\ startedAt[j]
  /\ ~evidence[j]
  /\ evidence' = [evidence EXCEPT ![j] = TRUE]
  /\ \E outcome \in {"SUCCESS", "FAILED", status[j]} :
       status' = [status EXCEPT ![j] = outcome]
  /\ UNCHANGED startedAt

\* An operator, the sweep or a run that produced no output gives the job up.
Resolve(j) ==
  /\ status[j] # "ABSENT"
  /\ \E outcome \in {"FAILED", "CANCELLED"} :
       status' = [status EXCEPT ![j] = outcome]
  /\ UNCHANGED <<startedAt, evidence>>

Next == \E j \in Jobs : Submit(j) \/ Claim(j) \/ Report(j) \/ Resolve(j)

Spec == Init /\ [][Next]_vars
=============================================================================
