--------------------------- MODULE JobEngineProofs ---------------------------
(***************************************************************************)
(* What is proved about JobEngine for every set of jobs, any number of     *)
(* sweeping threads and worker processes, and any faults.  The inductive   *)
(* invariant follows one job through the phases of its life: what the RQ   *)
(* entry, the creating request and the work horse can each be doing, and   *)
(* which columns of the row can be set by then.  What a fault breaks is    *)
(* proved without that fault: the hooks' view of the row without database  *)
(* errors, cancellations and the sweep's restraint while Redis keeps its   *)
(* entries.                                                                *)
(***************************************************************************)
EXTENDS JobEngine, TLAPS

BeforeClaim == {"none", "forked", "loaded"}
BeforeTool == BeforeClaim \cup {"running", "cleared"}
AfterTool == {"tool", "returned", "refreshed"}

\* A work horse exists only once the entry has been taken off the queue.
EntryInv(j) ==
  /\ creator[j] \in {"idle", "flushed"} => entry[j] = "none"
  /\ entry[j] \in {"none", "queued"} => horse[j] = "none"

\* Who can know of the job implies that its row was committed.
RowInv(j) ==
  /\ creator[j] # "done" => status[j] = "ABSENT"
  /\ startedAt[j] \/ horse[j] = "loaded" \/ canceller[j] # "idle" => status[j] # "ABSENT"
  /\ status[j] = "RUNNING" => startedAt[j]

\* What the work horse has and has not done at each point of its progress.
HorseInv(j) ==
  /\ horse[j] \in BeforeClaim => ~startedAt[j]
  /\ horse[j] \in Working \ BeforeClaim => startedAt[j]
  /\ horse[j] \in (Working \ {"errored", "failing"}) \cup {"none"} => ~evidence[j]
  /\ horse[j] = "loaded" => seen[j] # "RUNNING"
  /\ horse[j] \in BeforeTool => toolRuns[j] = 0
  /\ horse[j] \in AfterTool => toolRuns[j] = 1

\* The safety properties themselves, for one job.
JobSafe(j) ==
  /\ toolRuns[j] <= 1
  /\ status[j] = "SUCCESS" =>
       /\ startedAt[j] /\ evidence[j] /\ finishedAt[j]
       /\ toolRuns[j] = 1 /\ exitCode[j] = "zero"

JobInv == \A j \in Jobs : EntryInv(j) /\ RowInv(j) /\ HorseInv(j) /\ JobSafe(j)

\* A sweep only holds jobs it has read from the table.
SweepInv ==
  \A s \in Sweepers :
    /\ \A j \in todo[s] : status[j] # "ABSENT"
    /\ orphan[s] # NoJob => status[orphan[s]] # "ABSENT"

IInv == TypeOK /\ JobInv /\ SweepInv

-----------------------------------------------------------------------------

(* The initial state is well typed.                                        *)
LEMMA TypeInit == Init => TypeOK
BY NoJobAssumption
DEF Init, TypeOK, JobStatus, AssetStates, CreatorStates, CancellerStates, EntryStates, Working, Active, HorseStates

(* Every action keeps every column and every process in its domain.        *)
LEMMA TypeStep == TypeOK /\ [Next]_vars => TypeOK'
<1> SUFFICES ASSUME TypeOK, [Next]_vars PROVE TypeOK'
  OBVIOUS
<1>1. [Next]_vars
  OBVIOUS
<1>2. QED
  <2> USE DEF rowVars, envVars, apiVars, rqVars, horseVars, sweepVars,
         TypeOK, JobStatus, CreatorStates, CancellerStates, EntryStates,
         Working, Active, HorseStates
  <2>1. ASSUME NEW k \in Jobs, SetAuthorization(k) PROVE TypeOK'
    BY <2>1 DEF SetAuthorization, AssetStates
  <2>2. ASSUME NEW k \in Jobs, DeleteAsset(k) PROVE TypeOK'
    BY <2>2 DEF DeleteAsset, AssetStates
  <2>3. ASSUME NEW k \in Jobs, Age(k) PROVE TypeOK'
    BY <2>3 DEF Age
  <2>4. ASSUME NEW k \in Jobs, ExpireEntry(k) PROVE TypeOK'
    BY <2>4 DEF ExpireEntry
  <2>5. ASSUME NEW k \in Jobs, LoseEntry(k) PROVE TypeOK'
    BY <2>5 DEF LoseEntry
  <2>6. ASSUME NEW k \in Jobs, CreateFlush(k) PROVE TypeOK'
    BY <2>6 DEF CreateFlush
  <2>7. ASSUME NEW k \in Jobs, CreateEnqueue(k) PROVE TypeOK'
    BY <2>7 DEF CreateEnqueue
  <2>8. ASSUME NEW k \in Jobs, CreateCommit(k) PROVE TypeOK'
    BY <2>8 DEF CreateCommit
  <2>9. ASSUME NEW k \in Jobs, CreateAbort(k) PROVE TypeOK'
    BY <2>9 DEF CreateAbort
  <2>10. ASSUME NEW k \in Jobs, CancelRead(k) PROVE TypeOK'
    BY <2>10 DEF CancelRead
  <2>11. ASSUME NEW k \in Jobs, CancelEntry(k) PROVE TypeOK'
    <3>1. entry' \in [Jobs -> EntryStates] /\ canceller' \in [Jobs -> CancellerStates]
      BY <2>11 DEF CancelEntry
    <3>2. UNCHANGED <<rowVars, envVars, creator, stopSent, horseVars, sweepVars>>
      BY <2>11 DEF CancelEntry
    <3>3. QED
      BY <3>1, <3>2
  <2>12. ASSUME NEW k \in Jobs, SendStop(k) PROVE TypeOK'
    BY <2>12 DEF SendStop
  <2>13. ASSUME NEW k \in Jobs, CancelWrite(k) PROVE TypeOK'
    BY <2>13 DEF CancelWrite
  <2>14. ASSUME NEW k \in Jobs, CancelAbort(k) PROVE TypeOK'
    BY <2>14 DEF CancelAbort
  <2>15. ASSUME NEW k \in Jobs, Dequeue(k) PROVE TypeOK'
    BY <2>15 DEF Dequeue
  <2>16. ASSUME NEW k \in Jobs, Load(k) PROVE TypeOK'
    BY <2>16 DEF Load
  <2>17. ASSUME NEW k \in Jobs, MarkRunning(k) PROVE TypeOK'
    BY <2>17 DEF MarkRunning, PublishOutcomes, WriteStatus
  <2>18. ASSUME NEW k \in Jobs, CheckAuthorization(k) PROVE TypeOK'
    BY <2>18 DEF CheckAuthorization
  <2>19. ASSUME NEW k \in Jobs, StartTool(k) PROVE TypeOK'
    BY <2>19 DEF StartTool
  <2>20. ASSUME NEW k \in Jobs, ToolReturns(k) PROVE TypeOK'
    BY <2>20 DEF ToolReturns
  <2>21. ASSUME NEW k \in Jobs, Refresh(k) PROVE TypeOK'
    BY <2>21 DEF Refresh
  <2>22. ASSUME NEW k \in Jobs, CommitResult(k) PROVE TypeOK'
    BY <2>22 DEF CommitResult, CommitOutcome, PublishOutcomes, WriteStatus
  <2>23. ASSUME NEW k \in Jobs, CommitHalfResult(k) PROVE TypeOK'
    <3>1. status' \in [Jobs -> JobStatus \cup {"ABSENT"}]
      BY <2>23 DEF CommitHalfResult
    <3>2. finishedAt' \in [Jobs -> BOOLEAN]
      BY <2>23 DEF CommitHalfResult
    <3>3. evidence' \in [Jobs -> BOOLEAN] /\ horse' \in [Jobs -> HorseStates] /\ raised' \in [Jobs -> BOOLEAN]
      BY <2>23 DEF CommitHalfResult
    <3>4. UNCHANGED <<startedAt, envVars, apiVars, rqVars, seen, targeted, exitCode, toolRuns, sweepVars>>
      BY <2>23 DEF CommitHalfResult
    <3>5. QED
      BY <3>1, <3>2, <3>3, <3>4
  <2>24. ASSUME NEW k \in Jobs, RefreshAfterError(k) PROVE TypeOK'
    BY <2>24 DEF RefreshAfterError
  <2>25. ASSUME NEW k \in Jobs, CommitFailure(k) PROVE TypeOK'
    BY <2>25 DEF CommitFailure, PublishOutcomes, WriteStatus
  <2>26. ASSUME NEW k \in Jobs, DbError(k) PROVE TypeOK'
    BY <2>26 DEF DbError
  <2>27. ASSUME NEW k \in Jobs, FinishHooks(k) PROVE TypeOK'
    BY <2>27 DEF FinishHooks
  <2>28. ASSUME NEW k \in Jobs, StopHorse(k) PROVE TypeOK'
    BY <2>28 DEF StopHorse, HorseDies
  <2>29. ASSUME NEW k \in Jobs, CrashHorse(k) PROVE TypeOK'
    BY <2>29 DEF CrashHorse, HorseDies
  <2>30. ASSUME NEW s \in Sweepers, SweepScan(s) PROVE TypeOK'
    BY <2>30 DEF SweepScan
  <2>31. ASSUME NEW s \in Sweepers, SweepFetch(s) PROVE TypeOK'
    BY <2>31 DEF SweepFetch
  <2>32. ASSUME NEW s \in Sweepers, SweepWrite(s) PROVE TypeOK'
    BY <2>32 DEF SweepWrite, PublishOutcomes
  <2>33. CASE UNCHANGED vars
    BY <2>33 DEF vars
  <2>34. QED
    BY <1>1, <2>1, <2>2, <2>3, <2>4, <2>5, <2>6, <2>7, <2>8, <2>9, <2>10,
       <2>11, <2>12, <2>13, <2>14, <2>15, <2>16, <2>17, <2>18, <2>19, <2>20,
       <2>21, <2>22, <2>23, <2>24, <2>25, <2>26, <2>27, <2>28, <2>29, <2>30,
       <2>31, <2>32, <2>33
    DEF Next, Environment, Create, Cancel, Worker, ExecuteJob, Sweep

(* The value of every column and of every process's progress stays in its  *)
(* domain: RQ's status names, for one, never reach the jobs table.         *)
THEOREM TypeCorrect == Spec => []TypeOK
BY TypeInit, TypeStep, PTL DEF Spec

-----------------------------------------------------------------------------

(* The inductive invariant holds before any job is created.                *)
LEMMA IInit == Init => IInv
BY TypeInit, NoJobAssumption
DEF Init, IInv, JobInv, SweepInv, EntryInv, RowInv, HorseInv, JobSafe,
    BeforeClaim, BeforeTool, AfterTool, Working

(* No step takes one job out of its invariant.                             *)
LEMMA JobStep == IInv /\ [Next]_vars => JobInv'
<1> SUFFICES ASSUME IInv, [Next]_vars, NEW j \in Jobs
             PROVE (EntryInv(j) /\ RowInv(j) /\ HorseInv(j) /\ JobSafe(j))'
  BY DEF JobInv
<1> DEFINE Inv == EntryInv(j) /\ RowInv(j) /\ HorseInv(j) /\ JobSafe(j)
<1>1. [Next]_vars /\ Inv /\ TypeOK /\ SweepInv
  BY DEF IInv, JobInv
<1>2. Inv'
  <2> USE <1>1 DEF rowVars, envVars, apiVars, rqVars, horseVars, sweepVars,
         TypeOK, EntryInv, RowInv, HorseInv, JobSafe, SweepInv,
         BeforeClaim, BeforeTool, AfterTool, Working, Active
  <2>1. ASSUME NEW k \in Jobs, SetAuthorization(k) PROVE Inv'
    BY <2>1 DEF SetAuthorization, AssetStates
  <2>2. ASSUME NEW k \in Jobs, DeleteAsset(k) PROVE Inv'
    BY <2>2 DEF DeleteAsset, AssetStates
  <2>3. ASSUME NEW k \in Jobs, Age(k) PROVE Inv'
    BY <2>3 DEF Age
  <2>4. ASSUME NEW k \in Jobs, ExpireEntry(k) PROVE Inv'
    BY <2>4 DEF ExpireEntry
  <2>5. ASSUME NEW k \in Jobs, LoseEntry(k) PROVE Inv'
    BY <2>5 DEF LoseEntry
  <2>6. ASSUME NEW k \in Jobs, CreateFlush(k) PROVE Inv'
    BY <2>6 DEF CreateFlush
  <2>7. ASSUME NEW k \in Jobs, CreateEnqueue(k) PROVE Inv'
    BY <2>7 DEF CreateEnqueue
  <2>8. ASSUME NEW k \in Jobs, CreateCommit(k) PROVE Inv'
    BY <2>8 DEF CreateCommit
  <2>9. ASSUME NEW k \in Jobs, CreateAbort(k) PROVE Inv'
    BY <2>9 DEF CreateAbort
  <2>10. ASSUME NEW k \in Jobs, CancelRead(k) PROVE Inv'
    BY <2>10 DEF CancelRead
  <2>11. ASSUME NEW k \in Jobs, CancelEntry(k) PROVE Inv'
    BY <2>11 DEF CancelEntry
  <2>12. ASSUME NEW k \in Jobs, SendStop(k) PROVE Inv'
    BY <2>12 DEF SendStop
  <2>13. ASSUME NEW k \in Jobs, CancelWrite(k) PROVE Inv'
    BY <2>13 DEF CancelWrite
  <2>14. ASSUME NEW k \in Jobs, CancelAbort(k) PROVE Inv'
    BY <2>14 DEF CancelAbort
  <2>15. ASSUME NEW k \in Jobs, Dequeue(k) PROVE Inv'
    BY <2>15 DEF Dequeue
  <2>16. ASSUME NEW k \in Jobs, Load(k) PROVE Inv'
    BY <2>16 DEF Load
  <2>17. ASSUME NEW k \in Jobs, MarkRunning(k) PROVE Inv'
    BY <2>17 DEF MarkRunning, PublishOutcomes, WriteStatus
  <2>18. ASSUME NEW k \in Jobs, CheckAuthorization(k) PROVE Inv'
    BY <2>18 DEF CheckAuthorization
  <2>19. ASSUME NEW k \in Jobs, StartTool(k) PROVE Inv'
    BY <2>19 DEF StartTool
  <2>20. ASSUME NEW k \in Jobs, ToolReturns(k) PROVE Inv'
    BY <2>20 DEF ToolReturns
  <2>21. ASSUME NEW k \in Jobs, Refresh(k) PROVE Inv'
    BY <2>21 DEF Refresh
  <2>22. ASSUME NEW k \in Jobs, CommitResult(k) PROVE Inv'
    BY <2>22 DEF CommitResult, CommitOutcome, PublishOutcomes, WriteStatus
  <2>23. ASSUME NEW k \in Jobs, CommitHalfResult(k) PROVE Inv'
    BY <2>23 DEF CommitHalfResult
  <2>24. ASSUME NEW k \in Jobs, RefreshAfterError(k) PROVE Inv'
    BY <2>24 DEF RefreshAfterError
  <2>25. ASSUME NEW k \in Jobs, CommitFailure(k) PROVE Inv'
    BY <2>25 DEF CommitFailure, PublishOutcomes, WriteStatus
  <2>26. ASSUME NEW k \in Jobs, DbError(k) PROVE Inv'
    BY <2>26 DEF DbError
  <2>27. ASSUME NEW k \in Jobs, FinishHooks(k) PROVE Inv'
    BY <2>27 DEF FinishHooks
  <2>28. ASSUME NEW k \in Jobs, StopHorse(k) PROVE Inv'
    BY <2>28 DEF StopHorse, HorseDies
  <2>29. ASSUME NEW k \in Jobs, CrashHorse(k) PROVE Inv'
    BY <2>29 DEF CrashHorse, HorseDies
  <2>30. ASSUME NEW s \in Sweepers, SweepScan(s) PROVE Inv'
    BY <2>30 DEF SweepScan
  <2>31. ASSUME NEW s \in Sweepers, SweepFetch(s) PROVE Inv'
    BY <2>31 DEF SweepFetch
  <2>32. ASSUME NEW s \in Sweepers, SweepWrite(s) PROVE Inv'
    BY <2>32 DEF SweepWrite, PublishOutcomes
  <2>33. CASE UNCHANGED vars
    BY <2>33 DEF vars
  <2>34. QED
    BY <1>1, <2>1, <2>2, <2>3, <2>4, <2>5, <2>6, <2>7, <2>8, <2>9, <2>10,
       <2>11, <2>12, <2>13, <2>14, <2>15, <2>16, <2>17, <2>18, <2>19, <2>20,
       <2>21, <2>22, <2>23, <2>24, <2>25, <2>26, <2>27, <2>28, <2>29, <2>30,
       <2>31, <2>32, <2>33
    DEF Next, Environment, Create, Cancel, Worker, ExecuteJob, Sweep
<1>3. QED
  BY <1>2

(* No step makes a sweep hold a job that has no row.                       *)
LEMMA SweepStep == IInv /\ [Next]_vars => SweepInv'
<1> SUFFICES ASSUME IInv, [Next]_vars PROVE SweepInv'
  OBVIOUS
<1>1. [Next]_vars /\ JobInv /\ TypeOK /\ SweepInv
  BY DEF IInv
<1>2. SweepInv'
  <2> USE <1>1, NoJobAssumption DEF rowVars, envVars, apiVars, rqVars, horseVars, sweepVars,
         TypeOK, JobInv, RowInv, SweepInv, Live
  <2>1. ASSUME NEW k \in Jobs, SetAuthorization(k) PROVE SweepInv'
    BY <2>1 DEF SetAuthorization, AssetStates
  <2>2. ASSUME NEW k \in Jobs, DeleteAsset(k) PROVE SweepInv'
    BY <2>2 DEF DeleteAsset, AssetStates
  <2>3. ASSUME NEW k \in Jobs, Age(k) PROVE SweepInv'
    BY <2>3 DEF Age
  <2>4. ASSUME NEW k \in Jobs, ExpireEntry(k) PROVE SweepInv'
    BY <2>4 DEF ExpireEntry
  <2>5. ASSUME NEW k \in Jobs, LoseEntry(k) PROVE SweepInv'
    BY <2>5 DEF LoseEntry
  <2>6. ASSUME NEW k \in Jobs, CreateFlush(k) PROVE SweepInv'
    BY <2>6 DEF CreateFlush
  <2>7. ASSUME NEW k \in Jobs, CreateEnqueue(k) PROVE SweepInv'
    BY <2>7 DEF CreateEnqueue
  <2>8. ASSUME NEW k \in Jobs, CreateCommit(k) PROVE SweepInv'
    BY <2>8 DEF CreateCommit
  <2>9. ASSUME NEW k \in Jobs, CreateAbort(k) PROVE SweepInv'
    BY <2>9 DEF CreateAbort
  <2>10. ASSUME NEW k \in Jobs, CancelRead(k) PROVE SweepInv'
    BY <2>10 DEF CancelRead
  <2>11. ASSUME NEW k \in Jobs, CancelEntry(k) PROVE SweepInv'
    BY <2>11 DEF CancelEntry
  <2>12. ASSUME NEW k \in Jobs, SendStop(k) PROVE SweepInv'
    BY <2>12 DEF SendStop
  <2>13. ASSUME NEW k \in Jobs, CancelWrite(k) PROVE SweepInv'
    BY <2>13 DEF CancelWrite
  <2>14. ASSUME NEW k \in Jobs, CancelAbort(k) PROVE SweepInv'
    BY <2>14 DEF CancelAbort
  <2>15. ASSUME NEW k \in Jobs, Dequeue(k) PROVE SweepInv'
    BY <2>15 DEF Dequeue
  <2>16. ASSUME NEW k \in Jobs, Load(k) PROVE SweepInv'
    BY <2>16 DEF Load
  <2>17. ASSUME NEW k \in Jobs, MarkRunning(k) PROVE SweepInv'
    BY <2>17 DEF MarkRunning, PublishOutcomes, WriteStatus
  <2>18. ASSUME NEW k \in Jobs, CheckAuthorization(k) PROVE SweepInv'
    BY <2>18 DEF CheckAuthorization
  <2>19. ASSUME NEW k \in Jobs, StartTool(k) PROVE SweepInv'
    BY <2>19 DEF StartTool
  <2>20. ASSUME NEW k \in Jobs, ToolReturns(k) PROVE SweepInv'
    BY <2>20 DEF ToolReturns
  <2>21. ASSUME NEW k \in Jobs, Refresh(k) PROVE SweepInv'
    BY <2>21 DEF Refresh
  <2>22. ASSUME NEW k \in Jobs, CommitResult(k) PROVE SweepInv'
    BY <2>22 DEF CommitResult, CommitOutcome, PublishOutcomes, WriteStatus
  <2>23. ASSUME NEW k \in Jobs, CommitHalfResult(k) PROVE SweepInv'
    BY <2>23 DEF CommitHalfResult
  <2>24. ASSUME NEW k \in Jobs, RefreshAfterError(k) PROVE SweepInv'
    BY <2>24 DEF RefreshAfterError
  <2>25. ASSUME NEW k \in Jobs, CommitFailure(k) PROVE SweepInv'
    BY <2>25 DEF CommitFailure, PublishOutcomes, WriteStatus
  <2>26. ASSUME NEW k \in Jobs, DbError(k) PROVE SweepInv'
    BY <2>26 DEF DbError
  <2>27. ASSUME NEW k \in Jobs, FinishHooks(k) PROVE SweepInv'
    BY <2>27 DEF FinishHooks
  <2>28. ASSUME NEW k \in Jobs, StopHorse(k) PROVE SweepInv'
    BY <2>28 DEF StopHorse, HorseDies
  <2>29. ASSUME NEW k \in Jobs, CrashHorse(k) PROVE SweepInv'
    BY <2>29 DEF CrashHorse, HorseDies
  <2>30. ASSUME NEW s \in Sweepers, SweepScan(s) PROVE SweepInv'
    BY <2>30 DEF SweepScan
  <2>31. ASSUME NEW s \in Sweepers, SweepFetch(s) PROVE SweepInv'
    BY <2>31 DEF SweepFetch
  <2>32. ASSUME NEW s \in Sweepers, SweepWrite(s) PROVE SweepInv'
    BY <2>32 DEF SweepWrite, PublishOutcomes
  <2>33. CASE UNCHANGED vars
    BY <2>33 DEF vars
  <2>34. QED
    BY <1>1, <2>1, <2>2, <2>3, <2>4, <2>5, <2>6, <2>7, <2>8, <2>9, <2>10,
       <2>11, <2>12, <2>13, <2>14, <2>15, <2>16, <2>17, <2>18, <2>19, <2>20,
       <2>21, <2>22, <2>23, <2>24, <2>25, <2>26, <2>27, <2>28, <2>29, <2>30,
       <2>31, <2>32, <2>33
    DEF Next, Environment, Create, Cancel, Worker, ExecuteJob, Sweep
<1>3. QED
  BY <1>2

(* The invariant on which the theorems below rest: every job stays within  *)
(* the phases of its life, whatever interleaving of writers and faults.    *)
THEOREM Invariance == Spec => []IInv
<1>1. Init => IInv
  BY IInit
<1>2. IInv /\ [Next]_vars => IInv'
  BY TypeStep, JobStep, SweepStep DEF IInv
<1>3. QED
  BY <1>1, <1>2, PTL DEF Spec

(* No interleaving and no fault makes the engine start a tool twice.       *)
THEOREM RunsOnce == Spec => []RunsAtMostOnce
<1>1. IInv => RunsAtMostOnce
  BY DEF IInv, JobInv, JobSafe, RunsAtMostOnce
<1>2. QED
  BY Invariance, <1>1, PTL

(* SUCCESS in a row is always the word of a completed run.                 *)
THEOREM SuccessBacked == Spec => []SuccessIsBackedByARun
<1>1. IInv => SuccessIsBackedByARun
  BY DEF IInv, JobInv, JobSafe, SuccessIsBackedByARun
<1>2. QED
  BY Invariance, <1>1, PTL

-----------------------------------------------------------------------------

(* No row is committed, claimed or reported at the start.                  *)
LEMMA LifecycleInit == Init => Lifecycle!Init
BY DEF Init, Lifecycle!Init

(* Every step of the engine is a step of the lifecycle of one job, or      *)
(* leaves the three columns the lifecycle speaks of as they are.           *)
LEMMA LifecycleStep == IInv /\ [Next]_vars => [Lifecycle!Next]_(Lifecycle!vars)
<1> SUFFICES ASSUME IInv, [Next]_vars PROVE [Lifecycle!Next]_(Lifecycle!vars)
  OBVIOUS
<1>1. [Next]_vars /\ JobInv /\ TypeOK /\ SweepInv
  BY DEF IInv
<1>2. [Lifecycle!Next]_(Lifecycle!vars)
  <2> USE <1>1 DEF rowVars, envVars, apiVars, rqVars, horseVars, sweepVars,
         TypeOK, JobInv, RowInv, HorseInv, SweepInv, BeforeClaim, Working
  <2>1. ASSUME NEW k \in Jobs, SetAuthorization(k) PROVE UNCHANGED Lifecycle!vars
    BY <2>1 DEF SetAuthorization, AssetStates, Lifecycle!vars
  <2>2. ASSUME NEW k \in Jobs, DeleteAsset(k) PROVE UNCHANGED Lifecycle!vars
    BY <2>2 DEF DeleteAsset, AssetStates, Lifecycle!vars
  <2>3. ASSUME NEW k \in Jobs, Age(k) PROVE UNCHANGED Lifecycle!vars
    BY <2>3 DEF Age, Lifecycle!vars
  <2>4. ASSUME NEW k \in Jobs, ExpireEntry(k) PROVE UNCHANGED Lifecycle!vars
    BY <2>4 DEF ExpireEntry, Lifecycle!vars
  <2>5. ASSUME NEW k \in Jobs, LoseEntry(k) PROVE UNCHANGED Lifecycle!vars
    BY <2>5 DEF LoseEntry, Lifecycle!vars
  <2>6. ASSUME NEW k \in Jobs, CreateFlush(k) PROVE UNCHANGED Lifecycle!vars
    BY <2>6 DEF CreateFlush, Lifecycle!vars
  <2>7. ASSUME NEW k \in Jobs, CreateEnqueue(k) PROVE UNCHANGED Lifecycle!vars
    BY <2>7 DEF CreateEnqueue, Lifecycle!vars
  <2>8. ASSUME NEW k \in Jobs, CreateCommit(k) PROVE Lifecycle!Submit(k)
    BY <2>8 DEF CreateCommit, Lifecycle!Submit
  <2>9. ASSUME NEW k \in Jobs, CreateAbort(k) PROVE UNCHANGED Lifecycle!vars
    BY <2>9 DEF CreateAbort, Lifecycle!vars
  <2>10. ASSUME NEW k \in Jobs, CancelRead(k) PROVE UNCHANGED Lifecycle!vars
    BY <2>10 DEF CancelRead, Lifecycle!vars
  <2>11. ASSUME NEW k \in Jobs, CancelEntry(k) PROVE UNCHANGED Lifecycle!vars
    BY <2>11 DEF CancelEntry, Lifecycle!vars
  <2>12. ASSUME NEW k \in Jobs, SendStop(k) PROVE UNCHANGED Lifecycle!vars
    BY <2>12 DEF SendStop, Lifecycle!vars
  <2>13. ASSUME NEW k \in Jobs, CancelWrite(k) PROVE Lifecycle!Resolve(k)
    BY <2>13 DEF CancelWrite, Lifecycle!Resolve
  <2>14. ASSUME NEW k \in Jobs, CancelAbort(k) PROVE UNCHANGED Lifecycle!vars
    BY <2>14 DEF CancelAbort, Lifecycle!vars
  <2>15. ASSUME NEW k \in Jobs, Dequeue(k) PROVE UNCHANGED Lifecycle!vars
    BY <2>15 DEF Dequeue, Lifecycle!vars
  <2>16. ASSUME NEW k \in Jobs, Load(k) PROVE UNCHANGED Lifecycle!vars
    BY <2>16 DEF Load, Lifecycle!vars
  <2>17. ASSUME NEW k \in Jobs, MarkRunning(k) PROVE Lifecycle!Claim(k)
    BY <2>17 DEF MarkRunning, PublishOutcomes, WriteStatus, Lifecycle!Claim
  <2>18. ASSUME NEW k \in Jobs, CheckAuthorization(k) PROVE UNCHANGED Lifecycle!vars
    BY <2>18 DEF CheckAuthorization, Lifecycle!vars
  <2>19. ASSUME NEW k \in Jobs, StartTool(k) PROVE UNCHANGED Lifecycle!vars
    BY <2>19 DEF StartTool, Lifecycle!vars
  <2>20. ASSUME NEW k \in Jobs, ToolReturns(k) PROVE UNCHANGED Lifecycle!vars
    BY <2>20 DEF ToolReturns, Lifecycle!vars
  <2>21. ASSUME NEW k \in Jobs, Refresh(k) PROVE UNCHANGED Lifecycle!vars
    BY <2>21 DEF Refresh, Lifecycle!vars
  <2>22. ASSUME NEW k \in Jobs, CommitResult(k) PROVE Lifecycle!Report(k)
    BY <2>22 DEF CommitResult, CommitOutcome, PublishOutcomes, WriteStatus, Lifecycle!Report
  <2>23. ASSUME NEW k \in Jobs, CommitHalfResult(k) PROVE Lifecycle!Report(k) \/ UNCHANGED Lifecycle!vars
    BY <2>23 DEF CommitHalfResult, Lifecycle!Report, Lifecycle!vars
  <2>24. ASSUME NEW k \in Jobs, RefreshAfterError(k) PROVE UNCHANGED Lifecycle!vars
    BY <2>24 DEF RefreshAfterError, Lifecycle!vars
  <2>25. ASSUME NEW k \in Jobs, CommitFailure(k) PROVE Lifecycle!Resolve(k) \/ UNCHANGED Lifecycle!vars
    BY <2>25 DEF CommitFailure, PublishOutcomes, WriteStatus, Lifecycle!Resolve, Lifecycle!vars
  <2>26. ASSUME NEW k \in Jobs, DbError(k) PROVE UNCHANGED Lifecycle!vars
    BY <2>26 DEF DbError, Lifecycle!vars
  <2>27. ASSUME NEW k \in Jobs, FinishHooks(k) PROVE UNCHANGED Lifecycle!vars
    BY <2>27 DEF FinishHooks, Lifecycle!vars
  <2>28. ASSUME NEW k \in Jobs, StopHorse(k) PROVE UNCHANGED Lifecycle!vars
    BY <2>28 DEF StopHorse, HorseDies, Lifecycle!vars
  <2>29. ASSUME NEW k \in Jobs, CrashHorse(k) PROVE UNCHANGED Lifecycle!vars
    BY <2>29 DEF CrashHorse, HorseDies, Lifecycle!vars
  <2>30. ASSUME NEW s \in Sweepers, SweepScan(s) PROVE UNCHANGED Lifecycle!vars
    BY <2>30 DEF SweepScan, Lifecycle!vars
  <2>31. ASSUME NEW s \in Sweepers, SweepFetch(s) PROVE UNCHANGED Lifecycle!vars
    BY <2>31 DEF SweepFetch, Lifecycle!vars
  <2>32. ASSUME NEW s \in Sweepers, SweepWrite(s) PROVE Lifecycle!Resolve(orphan[s]) /\ orphan[s] \in Jobs
    BY <2>32 DEF SweepWrite, PublishOutcomes, Lifecycle!Resolve
  <2>33. ASSUME UNCHANGED vars PROVE UNCHANGED Lifecycle!vars
    BY <2>33 DEF vars, Lifecycle!vars
  <2>34. QED
    BY <1>1, <2>1, <2>2, <2>3, <2>4, <2>5, <2>6, <2>7, <2>8, <2>9, <2>10,
       <2>11, <2>12, <2>13, <2>14, <2>15, <2>16, <2>17, <2>18, <2>19, <2>20,
       <2>21, <2>22, <2>23, <2>24, <2>25, <2>26, <2>27, <2>28, <2>29, <2>30,
       <2>31, <2>32, <2>33
    DEF Next, Environment, Create, Cancel, Worker, ExecuteJob, Sweep, Lifecycle!Next
<1>3. QED
  BY <1>2

(* The engine implements JobLifecycle: the row of a job is submitted once, *)
(* claimed at most once and reports output at most once.                   *)
THEOREM Implements == Spec => KeepsLifecycle
BY Invariance, LifecycleInit, LifecycleStep, PTL DEF Spec, KeepsLifecycle, Lifecycle!Spec

-----------------------------------------------------------------------------

(***************************************************************************)
(* Without database errors: the hooks of a claimed job find it terminal.   *)
(***************************************************************************)

\* A status the horse has seen terminal stays so: nobody else claims the row.
HooksInv(j) ==
  /\ horse[j] = "hooks" /\ startedAt[j] => status[j] \in Terminal \/ UnannouncedClaim(j)
  /\ horse[j] \in {"refreshed", "failing"} /\ seen[j] \in Terminal => status[j] \in Terminal

(* Once the row has been claimed, a status is only ever replaced by a      *)
(* terminal one, except by a horse that is about to claim the job.         *)
LEMMA ClaimedEnds ==
  ASSUME IInv, [Next]_vars, NEW j \in Jobs, status[j] # "ABSENT", horse[j] # "loaded"
  PROVE  status'[j] \in Terminal \cup {status[j]}
<1> USE DEF IInv, TypeOK, JobInv, RowInv, Terminal, rowVars
<1>1. ASSUME NEW k \in Jobs, Environment(k) \/ Create(k) \/ Cancel(k) PROVE status'[j] \in Terminal \cup {status[j]}
  BY <1>1 DEF Environment, SetAuthorization, DeleteAsset, Age, ExpireEntry, LoseEntry, Create, CreateFlush,
     CreateEnqueue, CreateCommit, CreateAbort, Cancel, CancelRead, CancelEntry, SendStop, CancelWrite, CancelAbort
<1>2. ASSUME NEW k \in Jobs, Worker(k) PROVE status'[j] \in Terminal \cup {status[j]}
  BY <1>2 DEF Worker, ExecuteJob, Dequeue, Load, MarkRunning, CheckAuthorization, StartTool, ToolReturns, Refresh,
     CommitResult, CommitOutcome, CommitHalfResult, RefreshAfterError, CommitFailure, DbError, FinishHooks, StopHorse, CrashHorse,
     HorseDies, WriteStatus
<1>3. ASSUME NEW s \in Sweepers, Sweep(s) PROVE status'[j] \in Terminal \cup {status[j]}
  BY <1>3 DEF Sweep, SweepScan, SweepFetch, SweepWrite
<1>4. CASE UNCHANGED vars
  BY <1>4 DEF vars
<1>5. QED
  BY <1>1, <1>2, <1>3, <1>4 DEF Next

(* The horse reaches its hooks with the row terminal, or unannounced.      *)
LEMMA HooksStep ==
  ASSUME "dbError" \notin Faults, IInv, [Next]_vars, NEW j \in Jobs, HooksInv(j)
  PROVE  HooksInv(j)'
<1> DEFINE progress == <<horse[j], seen[j], startedAt[j], raised[j], toolRuns[j]>>
<1> USE DEF IInv, TypeOK, JobInv, HooksInv
<1>1. status[j] # "ABSENT" /\ horse[j] # "loaded" => status'[j] \in Terminal \cup {status[j]}
  BY ClaimedEnds
<1>2. CASE UNCHANGED progress
  BY <1>1, <1>2 DEF UnannouncedClaim, Terminal
<1>3. CASE ~UNCHANGED progress
  <2>1. Worker(j)
    <3> USE DEF rowVars, horseVars
    <3>1. ASSUME NEW k \in Jobs, Environment(k) \/ Create(k) \/ Cancel(k)
          PROVE  UNCHANGED progress
      BY <3>1 DEF Environment, SetAuthorization, DeleteAsset, Age, ExpireEntry, LoseEntry, Create, CreateFlush,
         CreateEnqueue, CreateCommit, CreateAbort, Cancel, CancelRead, CancelEntry, SendStop, CancelWrite, CancelAbort
    <3>2. ASSUME NEW k \in Jobs, k # j, Worker(k) PROVE UNCHANGED progress
      BY <3>2 DEF Worker, ExecuteJob, Dequeue, Load, MarkRunning, CheckAuthorization, StartTool,
         ToolReturns, Refresh, CommitResult, CommitOutcome, CommitHalfResult, RefreshAfterError, CommitFailure, DbError, FinishHooks,
         StopHorse, CrashHorse, HorseDies
    <3>3. ASSUME NEW s \in Sweepers, Sweep(s) PROVE UNCHANGED progress
      BY <3>3 DEF Sweep, SweepScan, SweepFetch, SweepWrite
    <3>4. QED
      BY <1>3, <3>1, <3>2, <3>3 DEF Next, vars
  <2>2. CASE Load(j)
    BY <2>2 DEF Load, rowVars, HorseInv, BeforeClaim
  <2>3. CASE CommitResult(j) \/ CommitHalfResult(j) \/ CommitFailure(j)
    BY <1>1, <2>3 DEF CommitResult, CommitOutcome, CommitHalfResult, CommitFailure, WriteStatus, Terminal
  <2>4. CASE MarkRunning(j)
    <3>1. PICK published \in PublishOutcomes :
            /\ horse'[j] = IF published THEN "running" ELSE "hooks"
            /\ raised'[j] = ~published
      BY <2>4 DEF MarkRunning
    <3>2. status'[j] = "RUNNING" /\ toolRuns'[j] = 0
      BY <2>4 DEF MarkRunning, WriteStatus, HorseInv, BeforeTool, BeforeClaim
    <3>3. CASE published
      BY <3>1, <3>3
    <3>4. CASE ~published
      BY <3>1, <3>2, <3>4 DEF UnannouncedClaim
    <3>5. QED
      BY <3>3, <3>4
  <2>5. CASE Refresh(j) \/ RefreshAfterError(j)
    BY <2>5 DEF Refresh, RefreshAfterError, rowVars, Terminal
  <2>6. CASE ~(Load(j) \/ CommitResult(j) \/ CommitHalfResult(j) \/ CommitFailure(j) \/ Refresh(j)
              \/ RefreshAfterError(j) \/ MarkRunning(j))
    BY <2>1, <2>6 DEF Worker, ExecuteJob, Dequeue, CheckAuthorization, StartTool, ToolReturns, DbError,
       FinishHooks, StopHorse, CrashHorse, HorseDies
  <2>7. QED
    BY <2>2, <2>3, <2>5, <2>6, <2>4
<1>4. QED
  BY <1>2, <1>3

(* Missions and chains read a terminal job when their hook runs            *)
(* (tasks.py:64-66), whatever dies, whatever Redis loses and whatever it   *)
(* refuses to publish, or else one whose claim could not be published and  *)
(* whose tool never started.                                               *)
THEOREM HooksAreInTime == ASSUME "dbError" \notin Faults PROVE Spec => []HooksSeeTerminalJob
<1> DEFINE Inv == IInv /\ \A j \in Jobs : HooksInv(j)
<1>1. Init => Inv
  BY IInit DEF Init, HooksInv
<1>2. Inv /\ [Next]_vars => Inv'
  BY TypeStep, JobStep, SweepStep, HooksStep DEF IInv
<1>3. Inv => HooksSeeTerminalJob
  BY DEF HooksInv, HooksSeeTerminalJob
<1>4. QED
  BY <1>1, <1>2, <1>3, PTL DEF Spec

-----------------------------------------------------------------------------

(***************************************************************************)
(* While Redis loses nothing: an entry only expires once its run is over,  *)
(* and no sweep mistakes a job for an orphan before that.                  *)
(***************************************************************************)

EntryKept(j) ==
  /\ creator[j] \in {"enqueued", "done"} => entry[j] # "none"
  /\ entry[j] \in {"finished", "gone"} => horse[j] = "done"

OrphansAreOver ==
  /\ \A j \in Jobs : EntryKept(j)
  /\ \A s \in Sweepers : orphan[s] # NoJob => entry[orphan[s]] = "gone"

(* An entry outlives the run it is for.                                    *)
LEMMA EntryKeptStep ==
  ASSUME "redisLoss" \notin Faults, IInv, [Next]_vars, NEW j \in Jobs, EntryKept(j)
  PROVE  EntryKept(j)' /\ (entry[j] = "gone" => entry'[j] = "gone")
<1> USE DEF IInv, TypeOK, JobInv, EntryInv, EntryKept, apiVars, rqVars, horseVars
<1>1. ASSUME NEW k \in Jobs, Environment(k) \/ Create(k)
      PROVE  EntryKept(j)' /\ (entry[j] = "gone" => entry'[j] = "gone")
  BY <1>1 DEF Environment, SetAuthorization, DeleteAsset, Age, ExpireEntry, LoseEntry, Create, CreateFlush,
     CreateEnqueue, CreateCommit, CreateAbort
<1>2. ASSUME NEW k \in Jobs, Cancel(k)
      PROVE  EntryKept(j)' /\ (entry[j] = "gone" => entry'[j] = "gone")
  BY <1>2 DEF Cancel, CancelRead, CancelEntry, SendStop, CancelWrite, CancelAbort
<1>3. ASSUME NEW k \in Jobs, Worker(k)
      PROVE  EntryKept(j)' /\ (entry[j] = "gone" => entry'[j] = "gone")
  BY <1>3 DEF Worker, ExecuteJob, Dequeue, Load, MarkRunning, CheckAuthorization, StartTool, ToolReturns, Refresh,
     CommitResult, CommitOutcome, CommitHalfResult, RefreshAfterError, CommitFailure, DbError, FinishHooks, StopHorse, CrashHorse,
     HorseDies, Active, Working
<1>4. ASSUME NEW s \in Sweepers, Sweep(s)
      PROVE  EntryKept(j)' /\ (entry[j] = "gone" => entry'[j] = "gone")
  BY <1>4 DEF Sweep, SweepScan, SweepFetch, SweepWrite
<1>5. CASE UNCHANGED vars
  BY <1>5 DEF vars
<1>6. QED
  BY <1>1, <1>2, <1>3, <1>4, <1>5 DEF Next

(* A sweep finds only those orphaned whose run is over.                    *)
LEMMA OrphansStep ==
  ASSUME "redisLoss" \notin Faults, IInv, [Next]_vars, OrphansAreOver
  PROVE  OrphansAreOver'
<1> USE DEF IInv, TypeOK, OrphansAreOver
<1>1. \A j \in Jobs : EntryKept(j)' /\ (entry[j] = "gone" => entry'[j] = "gone")
  BY EntryKeptStep
<1>2. ASSUME NEW s \in Sweepers, orphan'[s] # NoJob PROVE entry'[orphan'[s]] = "gone"
  <2>1. CASE orphan'[s] = orphan[s]
    BY <1>1, <1>2, <2>1
  <2>2. CASE orphan'[s] # orphan[s]
    <3>1. SweepFetch(s)
      <4> USE DEF sweepVars
      <4>1. ASSUME NEW k \in Jobs, Environment(k) \/ Create(k) \/ Cancel(k) PROVE orphan' = orphan
        BY <4>1 DEF Environment, SetAuthorization, DeleteAsset, Age, ExpireEntry, LoseEntry, Create, CreateFlush,
           CreateEnqueue, CreateCommit, CreateAbort, Cancel, CancelRead, CancelEntry, SendStop, CancelWrite, CancelAbort
      <4>2. ASSUME NEW k \in Jobs, Worker(k) PROVE orphan' = orphan
        BY <4>2 DEF Worker, ExecuteJob, Dequeue, Load, MarkRunning, CheckAuthorization, StartTool,
           ToolReturns, Refresh, CommitResult, CommitOutcome, CommitHalfResult, RefreshAfterError, CommitFailure, DbError, FinishHooks,
           StopHorse, CrashHorse, HorseDies
      <4>3. ASSUME NEW t \in Sweepers, SweepScan(t) \/ SweepWrite(t) \/ (SweepFetch(t) /\ t # s)
            PROVE  orphan'[s] \in {orphan[s], NoJob}
        BY <4>3 DEF SweepScan, SweepFetch, SweepWrite
      <4>4. QED
        BY <1>2, <2>2, <4>1, <4>2, <4>3 DEF Next, Sweep, vars
    <3>2. PICK j \in todo[s] : orphan'[s] = j /\ entry[j] \in {"none", "gone"}
      BY <1>2, <3>1 DEF SweepFetch
    <3>3. j \in Jobs /\ creator[j] = "done"
      BY <3>2 DEF SweepInv, JobInv, RowInv
    <3>4. entry[j] = "gone"
      BY <3>2, <3>3 DEF EntryKept
    <3>5. QED
      BY <1>1, <3>2, <3>3, <3>4
  <2>3. QED
    BY <2>1, <2>2
<1>3. QED
  BY <1>1, <1>2

(* No orphan has a run, or will have one.                                  *)
LEMMA OrphanInvariance == ASSUME "redisLoss" \notin Faults PROVE Spec => [](IInv /\ OrphansAreOver)
<1>1. Init => IInv /\ OrphansAreOver
  BY IInit DEF Init, OrphansAreOver, EntryKept
<1>2. IInv /\ OrphansAreOver /\ [Next]_vars => (IInv /\ OrphansAreOver)'
  BY TypeStep, JobStep, SweepStep, OrphansStep DEF IInv
<1>3. QED
  BY <1>1, <1>2, PTL DEF Spec

(* The sweep never fires against a job that is simply still legitimately   *)
(* running (reconciliation.py:45-48), however long ago it was created.     *)
THEOREM SweepSpares == ASSUME "redisLoss" \notin Faults PROVE Spec => SweepSparesRunningTools
<1> DEFINE Spared == \A j \in Jobs : horse[j] = "tool" /\ status[j] = "RUNNING" => status'[j] # "FAILED"
<1>1. IInv /\ OrphansAreOver /\ [Next]_vars => [Spared]_vars
  <2> SUFFICES ASSUME IInv, OrphansAreOver, [Next]_vars, NEW j \in Jobs, horse[j] = "tool", status[j] = "RUNNING"
               PROVE  status'[j] # "FAILED"
    OBVIOUS
  <2> USE DEF IInv, TypeOK, rowVars
  <2>1. ASSUME NEW k \in Jobs, Environment(k) \/ Create(k) \/ Cancel(k) PROVE status'[j] # "FAILED"
    BY <2>1 DEF Environment, SetAuthorization, DeleteAsset, Age, ExpireEntry, LoseEntry, Create, CreateFlush,
       CreateEnqueue, CreateCommit, CreateAbort, Cancel, CancelRead, CancelEntry, SendStop, CancelWrite, CancelAbort
  <2>2. ASSUME NEW k \in Jobs, Worker(k) PROVE status'[j] # "FAILED"
    BY <2>2 DEF Worker, ExecuteJob, Dequeue, Load, MarkRunning, CheckAuthorization, StartTool, ToolReturns, Refresh,
       CommitResult, CommitOutcome, CommitHalfResult, RefreshAfterError, CommitFailure, DbError, FinishHooks, StopHorse, CrashHorse,
       HorseDies, WriteStatus
  <2>3. ASSUME NEW s \in Sweepers, Sweep(s) PROVE status'[j] # "FAILED"
    <3>1. orphan[s] # j
      BY NoJobAssumption DEF OrphansAreOver, EntryKept
    <3>2. QED
      BY <2>3, <3>1 DEF Sweep, SweepScan, SweepFetch, SweepWrite
  <2>4. CASE UNCHANGED vars
    BY <2>4 DEF vars
  <2>5. QED
    BY <2>1, <2>2, <2>3, <2>4 DEF Next
<1>2. QED
  BY OrphanInvariance, <1>1, PTL DEF Spec, SweepSparesRunningTools

\* The horse has loaded a cancelled row, or will find it cancelled.
Averted(j) ==
  /\ toolRuns[j] = 0
  /\ horse[j] \in {"none", "forked", "hooks", "done", "killed"}
  /\ horse[j] \in {"none", "forked"} => status[j] = "CANCELLED"

(* Nobody takes the cancellation back before the horse loads the row.      *)
LEMMA AvertedStep ==
  ASSUME IInv, OrphansAreOver, [Next]_vars, NEW j \in Jobs, Averted(j)
  PROVE  Averted(j)'
<1> USE DEF IInv, TypeOK, JobInv, RowInv, Averted, rowVars, horseVars
<1>1. ASSUME NEW k \in Jobs, Environment(k) \/ Create(k) \/ Cancel(k) PROVE Averted(j)'
  BY <1>1 DEF Environment, SetAuthorization, DeleteAsset, Age, ExpireEntry, LoseEntry, Create, CreateFlush,
     CreateEnqueue, CreateCommit, CreateAbort, Cancel, CancelRead, CancelEntry, SendStop, CancelWrite, CancelAbort
<1>2. ASSUME NEW k \in Jobs, Dequeue(k) PROVE Averted(j)'
  BY <1>2 DEF Dequeue, EntryInv
<1>3. ASSUME NEW k \in Jobs, ExecuteJob(k) \/ StopHorse(k) \/ CrashHorse(k) PROVE Averted(j)'
  BY <1>3 DEF ExecuteJob, Load, MarkRunning, CheckAuthorization, StartTool, ToolReturns, Refresh,
     CommitResult, CommitOutcome, CommitHalfResult, RefreshAfterError, CommitFailure, DbError, FinishHooks, StopHorse, CrashHorse,
     HorseDies, WriteStatus
<1>4. ASSUME NEW s \in Sweepers, Sweep(s) PROVE Averted(j)'
  <2>1. horse[j] \in {"none", "forked"} => orphan[s] # j
    BY NoJobAssumption DEF OrphansAreOver, EntryKept
  <2>2. QED
    BY <1>4, <2>1 DEF Sweep, SweepScan, SweepFetch, SweepWrite
<1>5. CASE UNCHANGED vars
  BY <1>5 DEF vars
<1>6. QED
  BY <1>1, <1>2, <1>3, <1>4, <1>5 DEF Next, Worker

(* A job cancelled before its horse loaded the row never runs a tool.      *)
THEOREM CancelIsFinal == ASSUME "redisLoss" \notin Faults PROVE Spec => CancelBeforePickupIsFinal
<1>1. ASSUME NEW j \in Jobs
      PROVE  Spec => [](status[j] = "CANCELLED" /\ horse[j] \in {"none", "forked"} => [](toolRuns[j] = 0))
  <2>1. IInv /\ status[j] = "CANCELLED" /\ horse[j] \in {"none", "forked"} => Averted(j)
    BY DEF IInv, JobInv, HorseInv, BeforeTool, BeforeClaim, Averted
  <2>2. IInv /\ OrphansAreOver /\ [Next]_vars /\ Averted(j) => Averted(j)'
    BY AvertedStep
  <2>3. Averted(j) => toolRuns[j] = 0
    BY DEF Averted
  <2>4. QED
    BY OrphanInvariance, <2>1, <2>2, <2>3, PTL DEF Spec
<1>2. QED
  BY <1>1 DEF CancelBeforePickupIsFinal
=============================================================================
