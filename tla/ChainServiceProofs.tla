------------------------ MODULE ChainServiceProofs ------------------------
(***************************************************************************)
(* What is proved about ChainService for templates of any length, any      *)
(* jobs, conditions and number of advancing sessions, with every fault:    *)
(* its state is well typed, and an executed step has its own committed     *)
(* Job, however stale the session that wrote it, and a run that is over    *)
(* gets no Job from a session that had not read it by then.  And while no  *)
(* session and no hook dies: no step runs twice, and COMPLETED never hides *)
(* a failure.                                                              *)
(***************************************************************************)
EXTENDS ChainService, TLAPS

Executed == {"QUEUED", "SUCCESS", "FAILED", "CANCELLED"}

\* A session about to commit holds a flushed Job of its own, for a step.
HeldInv ==
  \A a \in Advancers :
    pc[a] = "enqueued" =>
      /\ held[a] \in Jobs /\ job[held[a]] = "flushed" /\ jobFor[held[a]] \in Orders
      /\ \A b \in Advancers : b # a /\ pc[b] = "enqueued" => held[b] # held[a]

\* A linked Job is committed and is the step's own, and a step that has gone
\* past PENDING, in the table or in a session's memory, is linked.
LinkInv ==
  \A k \in Orders :
    /\ stepJob[k] # NoJob => jobFor[stepJob[k]] = k /\ Committed(stepJob[k])
    /\ step[k] \in Executed => stepJob[k] # NoJob
    /\ \A a \in Advancers : view[a][k] \in Executed => stepJob[k] # NoJob

IInv == TypeOK /\ HeldInv /\ LinkInv

-----------------------------------------------------------------------------

(* The initial state is well typed.                                        *)
LEMMA TypeInit == Init => TypeOK
<1>1. NoView \in [Orders -> StepStatus \cup {"ABSENT"}]
  BY DEF NoView, NoLinks
<1>2. 0 \in 0 .. MaxCrashes /\ NoLinks \in [Orders -> Jobs \cup {NoJob}]
  BY BoundsAssumption DEF NoLinks
<1>3. CASE Init
  <2> USE <1>3 DEF Init
  <2>1. /\ run \in TerminalRun \cup {"ABSENT", "RUNNING"}
        /\ stalled \in BOOLEAN /\ lock \in Advancers \cup {NoOne}
        /\ authorized \in BOOLEAN /\ crashes \in 0 .. MaxCrashes
    BY <1>2
  <2>2. /\ step \in [Orders -> StepStatus \cup {"ABSENT"}]
        /\ stepJob \in [Orders -> Jobs \cup {NoJob}] /\ cut \in BOOLEAN
        /\ links \in [Advancers -> [Orders -> Jobs \cup {NoJob}]]
        /\ view \in [Advancers -> [Orders -> StepStatus \cup {"ABSENT"}]]
    BY <1>1, <1>2
  <2>3. /\ verdict \in [Orders -> Verdicts \cup {"always"}]
        /\ valid \in [Orders -> BOOLEAN]
    OBVIOUS
  <2>4. /\ job \in [Jobs -> TerminalJob \cup {"unused", "flushed", "live", "lost"}]
        /\ jobFor \in [Jobs -> Orders \cup {MaxSteps}]
        /\ hook \in [Jobs -> {"due", "done"}]
    OBVIOUS
  <2>5. /\ pc \in [Advancers -> {"idle", "waiting", "locked", "resolved", "enqueued"}]
        /\ held \in [Advancers -> Jobs \cup {NoJob}]
    OBVIOUS
  <2>6. QED
    BY <2>1, <2>2, <2>3, <2>4, <2>5 DEF TypeOK
<1>4. QED
  BY <1>3

(* Every action keeps every column and every session in its domain.        *)
LEMMA TypeStep == TypeOK /\ [Next]_vars => TypeOK'
<1> SUFFICES ASSUME TypeOK, [Next]_vars PROVE TypeOK'
  OBVIOUS
<1>1. [Next]_vars
  OBVIOUS
<1>2. TypeOK'
  <2> USE BoundsAssumption DEF runVars, jobVars, TypeOK, TerminalRun, StepStatus, TerminalJob, Orders, NoView, NoLinks
  <2>1. CASE CancelRun
    BY <2>1 DEF CancelRun
  <2>2. CASE SetAuthorization
    BY <2>2 DEF SetAuthorization
  <2>3. CASE Stall
    BY <2>3 DEF Stall
  <2>4. ASSUME NEW a \in Advancers, CreateRun(a) PROVE TypeOK'
    BY <2>4 DEF CreateRun, OpenSession
  <2>5. ASSUME NEW a \in Advancers, LockRun(a) PROVE TypeOK'
    <3>1. CASE run \in TerminalRun
      <4>1. Close(a) /\ UNCHANGED <<runVars, jobVars, stalled, cut, crashes>>
        BY <2>5, <3>1 DEF LockRun
      <4>2. QED
        BY <4>1 DEF Close
    <3>2. CASE run \notin TerminalRun
      <4>1. /\ lock' = a /\ view' = [view EXCEPT ![a] = step] /\ UNCHANGED held
            /\ links' = [links EXCEPT ![a] = stepJob]
            /\ UNCHANGED <<runVars, jobVars, stalled, cut, crashes>>
        BY <2>5, <3>2 DEF LockRun
      <4>2. \E where \in {"locked", "resolved"} : pc' = [pc EXCEPT ![a] = where]
        BY <2>5, <3>2 DEF LockRun
      <4>3. QED
        BY <4>1, <4>2
    <3>3. QED
      BY <3>1, <3>2
  <2>6. ASSUME NEW a \in Advancers, StillRunning(a) PROVE TypeOK'
    BY <2>6 DEF StillRunning, Close
  <2>7. ASSUME NEW a \in Advancers, ResolveStep(a) PROVE TypeOK'
    BY <2>7 DEF ResolveStep, StepsIn, IsFirst
  <2>8. ASSUME NEW a \in Advancers, Stop(a) PROVE TypeOK'
    <3>1. /\ run' \in TerminalRun /\ Close(a) /\ lock \in {NoOne, a}
          /\ UNCHANGED <<step, stepJob, verdict, valid, authorized, jobVars, stalled, cut, crashes>>
      BY <2>8 DEF Stop, StopRun
    <3>2. QED
      BY <3>1 DEF Close
  <2>9. ASSUME NEW a \in Advancers, EndBranch(a) PROVE TypeOK'
    <3>1. /\ run' \in TerminalRun /\ Close(a)
          /\ UNCHANGED <<stepJob, verdict, valid, authorized, jobVars, stalled, cut, crashes>>
          /\ \E k \in Orders : step' = [step EXCEPT ![k] = "SKIPPED"]
      BY <2>9 DEF EndBranch, Skip, StopRun
    <3>2. QED
      BY <3>1 DEF Close
  <2>10. ASSUME NEW a \in Advancers, RefuseStep(a) PROVE TypeOK'
    <3>1. /\ run' \in TerminalRun /\ Close(a)
          /\ UNCHANGED <<stepJob, verdict, valid, authorized, jobVars, stalled, cut, crashes>>
          /\ \E k \in Orders : step' = [step EXCEPT ![k] = "SKIPPED"]
      BY <2>10 DEF RefuseStep, Skip, StopRun
    <3>2. QED
      BY <3>1 DEF Close
  <2>11. ASSUME NEW a \in Advancers, Raise(a) PROVE TypeOK'
    BY <2>11 DEF Raise, Close
  <2>12. ASSUME NEW a \in Advancers, EnqueueStep(a) PROVE TypeOK'
    BY <2>12 DEF EnqueueStep, IsNext, IsFirst
  <2>13. ASSUME NEW a \in Advancers, CommitStep(a) PROVE TypeOK'
    BY <2>13 DEF CommitStep, Close
  <2>14. ASSUME NEW a \in Advancers, CrashSession(a) PROVE TypeOK'
    BY <2>14 DEF CrashSession, Close
  <2>15. ASSUME NEW a \in Advancers, Nudge(a) PROVE TypeOK'
    BY <2>15 DEF Nudge, OpenSession
  <2>16. ASSUME NEW j \in Jobs, EarlyPickup(j) PROVE TypeOK'
    BY <2>16 DEF EarlyPickup
  <2>17. ASSUME NEW j \in Jobs, EndJob(j) PROVE TypeOK'
    BY <2>17 DEF EndJob
  <2>18. ASSUME NEW j \in Jobs, LoseHook(j) PROVE TypeOK'
    BY <2>18 DEF LoseHook
  <2>19. ASSUME NEW a \in Advancers, NEW j \in Jobs, StartHook(a, j) PROVE TypeOK'
    <3>1. CASE UNCHANGED <<pc, view, links, held>>
      BY <2>19, <3>1 DEF StartHook
    <3>2. CASE OpenSession(a)
      BY <2>19, <3>2 DEF StartHook, OpenSession
    <3>3. QED
      BY <2>19, <3>1, <3>2 DEF StartHook
  <2>20. CASE OtherRuns
    BY <2>20 DEF OtherRuns
  <2>21. CASE UNCHANGED vars
    BY <2>21 DEF vars
  <2>22. QED
    BY <1>1, <2>1, <2>2, <2>3, <2>4, <2>5, <2>6, <2>7, <2>8, <2>9, <2>10,
       <2>11, <2>12, <2>13, <2>14, <2>15, <2>16, <2>17, <2>18, <2>19, <2>20, <2>21
    DEF Next, Advance, JobStep
<1>3. QED
  BY <1>2

(* Run, step and job statuses never leave their enumerations.              *)
THEOREM TypeCorrect == Spec => []TypeOK
BY TypeInit, TypeStep, PTL DEF Spec

-----------------------------------------------------------------------------

(* Before the run exists no step is executed and no session holds a Job.   *)
LEMMA IInit == Init => IInv
BY TypeInit, NoOneAssumption DEF Init, IInv, HeldInv, LinkInv, Executed, NoView, NoLinks

(* No two sessions ever hold the same uncommitted Job.                     *)
LEMMA HeldStep == IInv /\ [Next]_vars => HeldInv'
<1> SUFFICES ASSUME IInv, [Next]_vars PROVE HeldInv'
  OBVIOUS
<1>1. [Next]_vars /\ TypeOK /\ HeldInv
  BY DEF IInv
<1>2. HeldInv'
  <2> USE <1>1 DEF runVars, jobVars, TypeOK, TerminalRun, StepStatus, TerminalJob, Orders, NoView, NoLinks, HeldInv
  <2>1. CASE CancelRun
    BY <2>1 DEF CancelRun
  <2>2. CASE SetAuthorization
    BY <2>2 DEF SetAuthorization
  <2>3. CASE Stall
    BY <2>3 DEF Stall
  <2>4. ASSUME NEW a \in Advancers, CreateRun(a) PROVE HeldInv'
    BY <2>4 DEF CreateRun, OpenSession
  <2>5. ASSUME NEW a \in Advancers, LockRun(a) PROVE HeldInv'
    <3>1. CASE run \in TerminalRun
      <4>1. Close(a) /\ UNCHANGED <<runVars, jobVars, stalled, cut, crashes>>
        BY <2>5, <3>1 DEF LockRun
      <4>2. QED
        BY <4>1 DEF Close
    <3>2. CASE run \notin TerminalRun
      <4>1. /\ lock' = a /\ view' = [view EXCEPT ![a] = step] /\ UNCHANGED held
            /\ links' = [links EXCEPT ![a] = stepJob]
            /\ UNCHANGED <<runVars, jobVars, stalled, cut, crashes>>
        BY <2>5, <3>2 DEF LockRun
      <4>2. \E where \in {"locked", "resolved"} : pc' = [pc EXCEPT ![a] = where]
        BY <2>5, <3>2 DEF LockRun
      <4>3. QED
        BY <4>1, <4>2
    <3>3. QED
      BY <3>1, <3>2
  <2>6. ASSUME NEW a \in Advancers, StillRunning(a) PROVE HeldInv'
    BY <2>6 DEF StillRunning, Close
  <2>7. ASSUME NEW a \in Advancers, ResolveStep(a) PROVE HeldInv'
    BY <2>7 DEF ResolveStep, StepsIn, IsFirst
  <2>8. ASSUME NEW a \in Advancers, Stop(a) PROVE HeldInv'
    <3>1. /\ run' \in TerminalRun /\ Close(a) /\ lock \in {NoOne, a}
          /\ UNCHANGED <<step, stepJob, verdict, valid, authorized, jobVars, stalled, cut, crashes>>
      BY <2>8 DEF Stop, StopRun
    <3>2. QED
      BY <3>1 DEF Close
  <2>9. ASSUME NEW a \in Advancers, EndBranch(a) PROVE HeldInv'
    <3>1. /\ run' \in TerminalRun /\ Close(a)
          /\ UNCHANGED <<stepJob, verdict, valid, authorized, jobVars, stalled, cut, crashes>>
          /\ \E k \in Orders : step' = [step EXCEPT ![k] = "SKIPPED"]
      BY <2>9 DEF EndBranch, Skip, StopRun
    <3>2. QED
      BY <3>1 DEF Close
  <2>10. ASSUME NEW a \in Advancers, RefuseStep(a) PROVE HeldInv'
    <3>1. /\ run' \in TerminalRun /\ Close(a)
          /\ UNCHANGED <<stepJob, verdict, valid, authorized, jobVars, stalled, cut, crashes>>
          /\ \E k \in Orders : step' = [step EXCEPT ![k] = "SKIPPED"]
      BY <2>10 DEF RefuseStep, Skip, StopRun
    <3>2. QED
      BY <3>1 DEF Close
  <2>11. ASSUME NEW a \in Advancers, Raise(a) PROVE HeldInv'
    BY <2>11 DEF Raise, Close
  <2>12. ASSUME NEW a \in Advancers, EnqueueStep(a) PROVE HeldInv'
    BY <2>12 DEF EnqueueStep, IsNext, IsFirst
  <2>13. ASSUME NEW a \in Advancers, CommitStep(a) PROVE HeldInv'
    BY <2>13 DEF CommitStep, Close
  <2>14. ASSUME NEW a \in Advancers, CrashSession(a) PROVE HeldInv'
    BY <2>14 DEF CrashSession, Close
  <2>15. ASSUME NEW a \in Advancers, Nudge(a) PROVE HeldInv'
    BY <2>15 DEF Nudge, OpenSession
  <2>16. ASSUME NEW j \in Jobs, EarlyPickup(j) PROVE HeldInv'
    BY <2>16 DEF EarlyPickup
  <2>17. ASSUME NEW j \in Jobs, EndJob(j) PROVE HeldInv'
    BY <2>17 DEF EndJob
  <2>18. ASSUME NEW j \in Jobs, LoseHook(j) PROVE HeldInv'
    BY <2>18 DEF LoseHook
  <2>19. ASSUME NEW a \in Advancers, NEW j \in Jobs, StartHook(a, j) PROVE HeldInv'
    <3>1. CASE UNCHANGED <<pc, view, links, held>>
      BY <2>19, <3>1 DEF StartHook
    <3>2. CASE OpenSession(a)
      BY <2>19, <3>2 DEF StartHook, OpenSession
    <3>3. QED
      BY <2>19, <3>1, <3>2 DEF StartHook
  <2>20. CASE OtherRuns
    BY <2>20 DEF OtherRuns
  <2>21. CASE UNCHANGED vars
    BY <2>21 DEF vars
  <2>22. QED
    BY <1>1, <2>1, <2>2, <2>3, <2>4, <2>5, <2>6, <2>7, <2>8, <2>9, <2>10,
       <2>11, <2>12, <2>13, <2>14, <2>15, <2>16, <2>17, <2>18, <2>19, <2>20, <2>21
    DEF Next, Advance, JobStep
<1>3. QED
  BY <1>2

(* A link, once written, is never dropped, and its Job is never undone.    *)
LEMMA LinkStep == IInv /\ [Next]_vars => LinkInv'
<1> SUFFICES ASSUME IInv, [Next]_vars PROVE LinkInv'
  OBVIOUS
<1>1. [Next]_vars /\ TypeOK /\ HeldInv /\ LinkInv
  BY DEF IInv
<1>2. LinkInv'
  <2> USE <1>1, NoJobAssumption, BoundsAssumption
    DEF runVars, jobVars, TypeOK, TerminalRun, StepStatus, TerminalJob, Orders, NoView, NoLinks, HeldInv, LinkInv,
        Committed, Executed
  <2>1. CASE CancelRun
    BY <2>1 DEF CancelRun
  <2>2. CASE SetAuthorization
    BY <2>2 DEF SetAuthorization
  <2>3. CASE Stall
    BY <2>3 DEF Stall
  <2>4. ASSUME NEW a \in Advancers, CreateRun(a) PROVE LinkInv'
    BY <2>4 DEF CreateRun, OpenSession
  <2>5. ASSUME NEW a \in Advancers, LockRun(a) PROVE LinkInv'
    <3>1. CASE run \in TerminalRun
      <4>1. Close(a) /\ UNCHANGED <<runVars, jobVars, stalled, cut, crashes>>
        BY <2>5, <3>1 DEF LockRun
      <4>2. QED
        BY <4>1 DEF Close
    <3>2. CASE run \notin TerminalRun
      <4>1. /\ lock' = a /\ view' = [view EXCEPT ![a] = step] /\ UNCHANGED held
            /\ links' = [links EXCEPT ![a] = stepJob]
            /\ UNCHANGED <<runVars, jobVars, stalled, cut, crashes>>
        BY <2>5, <3>2 DEF LockRun
      <4>2. \E where \in {"locked", "resolved"} : pc' = [pc EXCEPT ![a] = where]
        BY <2>5, <3>2 DEF LockRun
      <4>3. QED
        BY <4>1, <4>2
    <3>3. QED
      BY <3>1, <3>2
  <2>6. ASSUME NEW a \in Advancers, StillRunning(a) PROVE LinkInv'
    BY <2>6 DEF StillRunning, Close
  <2>7. ASSUME NEW a \in Advancers, ResolveStep(a) PROVE LinkInv'
    BY <2>7 DEF ResolveStep, StepsIn, IsFirst
  <2>8. ASSUME NEW a \in Advancers, Stop(a) PROVE LinkInv'
    <3>1. /\ run' \in TerminalRun /\ Close(a) /\ lock \in {NoOne, a}
          /\ UNCHANGED <<step, stepJob, verdict, valid, authorized, jobVars, stalled, cut, crashes>>
      BY <2>8 DEF Stop, StopRun
    <3>2. QED
      BY <3>1 DEF Close
  <2>9. ASSUME NEW a \in Advancers, EndBranch(a) PROVE LinkInv'
    <3>1. /\ run' \in TerminalRun /\ Close(a)
          /\ UNCHANGED <<stepJob, verdict, valid, authorized, jobVars, stalled, cut, crashes>>
          /\ \E k \in Orders : step' = [step EXCEPT ![k] = "SKIPPED"]
      BY <2>9 DEF EndBranch, Skip, StopRun
    <3>2. QED
      BY <3>1 DEF Close
  <2>10. ASSUME NEW a \in Advancers, RefuseStep(a) PROVE LinkInv'
    <3>1. /\ run' \in TerminalRun /\ Close(a)
          /\ UNCHANGED <<stepJob, verdict, valid, authorized, jobVars, stalled, cut, crashes>>
          /\ \E k \in Orders : step' = [step EXCEPT ![k] = "SKIPPED"]
      BY <2>10 DEF RefuseStep, Skip, StopRun
    <3>2. QED
      BY <3>1 DEF Close
  <2>11. ASSUME NEW a \in Advancers, Raise(a) PROVE LinkInv'
    BY <2>11 DEF Raise, Close
  <2>12. ASSUME NEW a \in Advancers, EnqueueStep(a) PROVE LinkInv'
    BY <2>12 DEF EnqueueStep, IsNext, IsFirst
  <2>13. ASSUME NEW a \in Advancers, CommitStep(a) PROVE LinkInv'
    BY <2>13 DEF CommitStep, Close
  <2>14. ASSUME NEW a \in Advancers, CrashSession(a) PROVE LinkInv'
    BY <2>14 DEF CrashSession, Close
  <2>15. ASSUME NEW a \in Advancers, Nudge(a) PROVE LinkInv'
    BY <2>15 DEF Nudge, OpenSession
  <2>16. ASSUME NEW j \in Jobs, EarlyPickup(j) PROVE LinkInv'
    BY <2>16 DEF EarlyPickup
  <2>17. ASSUME NEW j \in Jobs, EndJob(j) PROVE LinkInv'
    BY <2>17 DEF EndJob
  <2>18. ASSUME NEW j \in Jobs, LoseHook(j) PROVE LinkInv'
    BY <2>18 DEF LoseHook
  <2>19. ASSUME NEW a \in Advancers, NEW j \in Jobs, StartHook(a, j) PROVE LinkInv'
    <3>1. CASE UNCHANGED <<pc, view, links, held>>
      BY <2>19, <3>1 DEF StartHook
    <3>2. CASE OpenSession(a)
      BY <2>19, <3>2 DEF StartHook, OpenSession
    <3>3. QED
      BY <2>19, <3>1, <3>2 DEF StartHook
  <2>20. CASE OtherRuns
    BY <2>20 DEF OtherRuns
  <2>21. CASE UNCHANGED vars
    BY <2>21 DEF vars
  <2>22. QED
    BY <1>1, <2>1, <2>2, <2>3, <2>4, <2>5, <2>6, <2>7, <2>8, <2>9, <2>10,
       <2>11, <2>12, <2>13, <2>14, <2>15, <2>16, <2>17, <2>18, <2>19, <2>20, <2>21
    DEF Next, Advance, JobStep
<1>3. QED
  BY <1>2

(* The invariant on which the check constraint rests.                      *)
THEOREM Invariance == Spec => []IInv
<1>1. Init => IInv
  BY IInit
<1>2. IInv /\ [Next]_vars => IInv'
  BY TypeStep, HeldStep, LinkStep DEF IInv
<1>3. QED
  BY <1>1, <1>2, PTL DEF Spec

(* ck_chain_run_step_job_id_required_when_executed never rejects an        *)
(* advancing session, and the Job of an executed step is its own.          *)
THEOREM StepHasItsJob == Spec => []ExecutedStepHasItsJob
<1>1. IInv => ExecutedStepHasItsJob
  BY DEF IInv, LinkInv, Executed, ExecutedStepHasItsJob
<1>2. QED
  BY Invariance, <1>1, PTL

-----------------------------------------------------------------------------

(***************************************************************************)
(* While no session and no hook dies: whoever could start the next step is *)
(* alone.  A session is open, or a job is under way, or the run is stuck:  *)
(* whatever session the sweeps open then, however many, ends it or leaves  *)
(* it as it was.                                                           *)
(***************************************************************************)

\* The job is live, or its hook has yet to start.
Moving(j) == job[j] = "live" \/ HookDue(j)
NoneMoves == \A j \in Jobs : ~Moving(j)
AllIdle == \A a \in Advancers : pc[a] = "idle"
Reading(a) == pc[a] \in {"locked", "resolved", "enqueued"}

\* k is the step to start next.
Reached(k) == step[k] = "PENDING" /\ \A i \in Orders : i < k => step[i] = "SUCCESS"

\* No session can start another step.
Stuck ==
  \E k \in Orders :
    \/ step[k] \in {"FAILED", "CANCELLED"}
    \/ step[k] = "QUEUED" /\ job[stepJob[k]] \in {"FAILED", "CANCELLED"}
    \/ Reached(k) /\ verdict[k] = "raises"

\* Only the first step has no condition; steps run one after the other.
ShapeInv ==
  /\ \A k \in Orders : k = 0 => verdict[k] = "always"
  /\ \A k, i \in Orders : i < k =>
       /\ step[k] \notin {"PENDING", "ABSENT"} => step[i] = "SUCCESS"
       /\ step[k] # "ABSENT" => step[i] # "ABSENT"

\* A committed job is its step's, and no session is open while it moves.
JobsInv ==
  /\ \A j \in Jobs :
       /\ Committed(j) => jobFor[j] \in Orders /\ stepJob[jobFor[j]] = j /\ step[jobFor[j]] \in Executed
       /\ Moving(j) => step[jobFor[j]] = "QUEUED" /\ AllIdle
       /\ HookDue(j) => ~stalled
  /\ \A k \in Orders : step[k] \in TerminalJob => job[stepJob[k]] = step[k]

\* What a session has read is what the table says.
SessionInv ==
  \A a \in Advancers :
    /\ Reading(a) => view[a] = step /\ links[a] = stepJob /\ \A k \in Orders : step[k] # "SKIPPED"
    /\ pc[a] = "locked" => lock = a /\ \E k \in Orders : step[k] = "QUEUED"
    /\ pc[a] \in {"resolved", "enqueued"} => \A k \in Orders : step[k] # "QUEUED"
    /\ pc[a] = "enqueued" => Reached(jobFor[held[a]]) /\ verdict[jobFor[held[a]]] # "raises"

\* Two sessions are open only on a run that is stuck.
AloneInv == \A a, b \in Advancers : a # b /\ pc[a] # "idle" /\ pc[b] # "idle" => Stuck

RunInv ==
  /\ run = "ABSENT" => AllIdle /\ step = NoView /\ \A j \in Jobs : job[j] = "unused"
  /\ run = "RUNNING" => \A k \in Orders : step[k] # "SKIPPED"
  /\ run = "RUNNING" /\ NoneMoves /\ (AllIdle \/ stalled) => Stuck
  /\ run = "COMPLETED" => AllIdle /\ NoneMoves

Alone == ShapeInv /\ JobsInv /\ SessionInv /\ AloneInv /\ RunInv

QInv == IInv /\ CompletedMeansSuccessOrUnmet /\ (crashes = 0 => Alone)

(* The step a session would start is the one the table has reached.        *)
LEMMA NextIsReached ==
  ASSUME TypeOK, ShapeInv, SessionInv, NEW a \in Advancers, NEW k \in Orders, IsNext(a, k)
  PROVE  Reached(k)
<1>1. view[a] = step /\ \A i \in Orders : step[i] \notin {"SKIPPED", "QUEUED"}
  BY DEF SessionInv, Reading, IsNext
<1>2. \A i \in Orders : step[i] \notin {"CANCELLED", "FAILED"}
  BY <1>1 DEF IsNext, StepsIn
<1>3. step[k] = "PENDING" /\ \A i \in Orders : step[i] = "PENDING" => k <= i
  BY <1>1 DEF IsNext, IsFirst, StepsIn
<1>4. ASSUME NEW i \in Orders, i < k PROVE step[i] = "SUCCESS"
  <2>1. step[i] # "ABSENT"
    BY <1>3, <1>4 DEF ShapeInv
  <2>2. step[i] # "PENDING"
    BY <1>3, <1>4 DEF Orders
  <2>3. QED
    BY <1>1, <1>2, <2>1, <2>2 DEF TypeOK, StepStatus
<1>5. QED
  BY <1>3, <1>4 DEF Reached

(* The condition of a reached step is evaluated on a result.               *)
LEMMA GateOfReached ==
  ASSUME TypeOK, LinkInv, ShapeInv, JobsInv, SessionInv, NEW a \in Advancers,
         NEW k \in Orders, IsNext(a, k), Reached(k), NEW outcome, Gate(a, k, outcome)
  PROVE  outcome = IF verdict[k] = "always" THEN "met" ELSE verdict[k]
<1>1. CASE k = 0
  BY <1>1 DEF Gate, ShapeInv
<1>2. CASE k # 0
  <2>1. k - 1 \in Orders /\ k - 1 < k
    BY <1>2, BoundsAssumption DEF Orders
  <2>2. step[k - 1] = "SUCCESS" /\ links[a] = stepJob
    BY <2>1 DEF Reached, SessionInv, Reading, IsNext
  <2>3. stepJob[k - 1] \in Jobs /\ job[stepJob[k - 1]] = "SUCCESS"
    BY <2>1, <2>2, NoJobAssumption DEF TypeOK, LinkInv, JobsInv, Executed, TerminalJob
  <2>4. links[a][k - 1] # NoJob /\ job[links[a][k - 1]] = "SUCCESS"
    BY <2>2, <2>3, NoJobAssumption
  <2>5. QED
    BY <2>4 DEF Gate, TerminalJob
<1>3. QED
  BY <1>1, <1>2

(* A run is not stuck before a step that can be decided.                   *)
LEMMA ReachedIsNotStuck ==
  ASSUME TypeOK, ShapeInv, NEW k \in Orders, Reached(k), verdict[k] # "raises"
  PROVE  ~Stuck
<1> SUFFICES ASSUME NEW m \in Orders,
                    \/ step[m] \in {"FAILED", "CANCELLED", "QUEUED"}
                    \/ Reached(m) /\ verdict[m] = "raises"
             PROVE  FALSE
  BY DEF Stuck
<1>1. step[k] = "PENDING" /\ step[m] # "SUCCESS" /\ m # k
  BY DEF Reached
<1>2. CASE m < k
  BY <1>1, <1>2 DEF Reached
<1>3. CASE k < m
  BY <1>1, <1>3 DEF Reached, ShapeInv
<1>4. QED
  BY <1>1, <1>2, <1>3, BoundsAssumption DEF Orders

(* Who can start or skip a step is alone, and the run is where it read it. *)
LEMMA NextIsAlone ==
  ASSUME TypeOK, LinkInv, Alone, NEW a \in Advancers, NEW k \in Orders,
         IsNext(a, k), NEW outcome \in {"met", "unmet"}, Gate(a, k, outcome)
  PROVE  /\ Reached(k) /\ ~Stuck /\ NoneMoves /\ verdict[k] # "raises"
         /\ \A b \in Advancers : b # a => pc[b] = "idle"
         /\ view[a] = step /\ links[a] = stepJob /\ \A i \in Orders : step[i] \notin {"QUEUED", "SKIPPED"}
<1>1. Reached(k)
  BY NextIsReached DEF Alone
<1>2. verdict[k] # "raises"
  BY <1>1, GateOfReached DEF Alone
<1>3. ~Stuck
  BY <1>1, <1>2, ReachedIsNotStuck DEF Alone
<1>4. QED
  BY <1>1, <1>2, <1>3 DEF Alone, AloneInv, SessionInv, Reading, IsNext, JobsInv, NoneMoves, AllIdle

(* So is who has enqueued one.                                             *)
LEMMA EnqueuedIsAlone ==
  ASSUME IInv, Alone, NEW a \in Advancers, pc[a] = "enqueued"
  PROVE  /\ Reached(jobFor[held[a]]) /\ ~Stuck /\ NoneMoves
         /\ \A b \in Advancers : b # a => pc[b] = "idle"
         /\ view[a] = step /\ \A i \in Orders : step[i] \notin {"QUEUED", "SKIPPED"}
<1> DEFINE k == jobFor[held[a]]
<1>1. held[a] \in Jobs /\ k \in Orders /\ Reached(k) /\ verdict[k] # "raises"
  BY DEF IInv, HeldInv, Alone, SessionInv
<1>2. ~Stuck
  BY <1>1, ReachedIsNotStuck DEF Alone, IInv
<1>3. QED
  BY <1>1, <1>2 DEF Alone, AloneInv, SessionInv, Reading, JobsInv, NoneMoves, AllIdle

(* A session that ends with nothing written leaves a run that has ended or *)
(* is stuck.                                                               *)
LEMMA CloseStep ==
  ASSUME TypeOK, Alone, NEW a \in Advancers, Close(a), run # "RUNNING" \/ Stuck,
         UNCHANGED <<runVars, jobVars, stalled, cut, crashes>>
  PROVE  Alone'
<1> USE DEF runVars, jobVars, TypeOK, Alone, Close
<1>1. ShapeInv' /\ (Stuck' <=> Stuck)
  BY DEF ShapeInv, Stuck, Reached
<1>2. JobsInv'
  BY DEF JobsInv, Moving, AllIdle, HookDue, Committed, Executed, TerminalJob
<1>3. SessionInv'
  BY NoOneAssumption DEF SessionInv, Reading, Reached
<1>4. AloneInv'
  BY <1>1 DEF AloneInv
<1>5. RunInv'
  BY <1>1 DEF RunInv, AllIdle, NoneMoves, Moving, HookDue
<1>6. QED
  BY <1>1, <1>2, <1>3, <1>4, <1>5

(* A session is opened when none is open, or on a run that is stuck.       *)
LEMMA OpenStep ==
  ASSUME TypeOK, Alone, NEW a \in Advancers, OpenSession(a), run # "ABSENT", run # "COMPLETED",
         AllIdle \/ Stuck, NoneMoves', stalled => Stuck,
         UNCHANGED <<runVars, job, jobFor, stalled, cut, lock, crashes>>,
         \A j \in Jobs : hook'[j] = hook[j] \/ hook'[j] = "done"
  PROVE  Alone'
<1> USE DEF runVars, TypeOK, Alone, OpenSession
<1>1. ShapeInv' /\ (Stuck' <=> Stuck)
  BY DEF ShapeInv, Stuck, Reached
<1>2. JobsInv'
  BY DEF JobsInv, Moving, NoneMoves, AllIdle, HookDue, Committed, Executed, TerminalJob
<1>3. SessionInv'
  BY NoOneAssumption DEF SessionInv, Reading, Reached
<1>4. AloneInv'
  BY <1>1 DEF AloneInv, AllIdle
<1>5. RunInv'
  BY <1>1 DEF RunInv, AllIdle, NoneMoves
<1>6. QED
  BY <1>1, <1>2, <1>3, <1>4, <1>5

(* Starting a run.                                                         *)
LEMMA CreateStep ==
  ASSUME TypeOK, Alone, NEW a \in Advancers, CreateRun(a)
  PROVE  Alone'
<1> USE BoundsAssumption DEF CreateRun, OpenSession, jobVars, TypeOK, Alone
<1>1. AllIdle /\ NoneMoves
  BY DEF RunInv, NoneMoves, Moving, HookDue, TerminalJob
<1>2. ShapeInv'
  BY DEF ShapeInv, Orders
<1>3. JobsInv'
  BY <1>1 DEF JobsInv, RunInv, Moving, HookDue, Committed, TerminalJob
<1>4. SessionInv' /\ AloneInv'
  BY <1>1 DEF SessionInv, AloneInv, Reading, AllIdle
<1>5. RunInv'
  BY <1>1 DEF RunInv, AllIdle
<1>6. QED
  BY <1>2, <1>3, <1>4, <1>5

(* Taking the lock.                                                        *)
LEMMA LockStep ==
  ASSUME TypeOK, Alone, NEW a \in Advancers, LockRun(a)
  PROVE  Alone'
<1>1. CASE run \in TerminalRun
  BY <1>1, CloseStep DEF LockRun, TerminalRun
<1>2. CASE run \notin TerminalRun
  <2> USE DEF runVars, jobVars, TypeOK, Alone
  <2>1. /\ lock' = a /\ view' = [view EXCEPT ![a] = step] /\ links' = [links EXCEPT ![a] = stepJob]
        /\ UNCHANGED held /\ pc[a] = "waiting"
        /\ UNCHANGED <<runVars, jobVars, stalled, cut, crashes>> /\ lock = NoOne
        /\ pc' = [pc EXCEPT ![a] = IF \E k \in Orders : step[k] = "QUEUED" THEN "locked" ELSE "resolved"]
    BY <1>2 DEF LockRun
  <2>2. ~AllIdle /\ run = "RUNNING"
    BY <1>2, <2>1 DEF RunInv, AllIdle
  <2>3. ShapeInv' /\ (Stuck' <=> Stuck)
    BY <2>1 DEF ShapeInv, Stuck, Reached
  <2>4. JobsInv'
    BY <2>1, <2>2 DEF JobsInv, Moving, HookDue, Committed, Executed, TerminalJob
  <2>5. SessionInv'
    BY <2>1, <2>2, NoOneAssumption DEF SessionInv, RunInv, Reading, Reached
  <2>6. AloneInv'
    BY <2>1, <2>3 DEF AloneInv
  <2>7. RunInv'
    BY <2>1, <2>2, <2>3 DEF RunInv, AllIdle, NoneMoves, Moving, HookDue
  <2>8. QED
    BY <2>3, <2>4, <2>5, <2>6, <2>7
<1>3. QED
  BY <1>1, <1>2

(* The job of a queued step has ended before anyone reads the step.        *)
LEMMA NobodyWaits ==
  ASSUME TypeOK, LinkInv, Alone, NEW a \in Advancers
  PROVE  ~StillRunning(a)
<1> SUFFICES ASSUME NEW k \in Orders, pc[a] = "locked", view[a][k] = "QUEUED",
                    job[stepJob[k]] \notin TerminalJob
             PROVE  FALSE
  BY DEF StillRunning, IsFirst, StepsIn, Alone, SessionInv, Reading
<1>1. step[k] = "QUEUED"
  BY DEF Alone, SessionInv, Reading
<1>2. stepJob[k] \in Jobs /\ job[stepJob[k]] = "live"
  BY <1>1, NoJobAssumption DEF TypeOK, LinkInv, Committed, Executed
<1>3. QED
  BY <1>2 DEF Alone, JobsInv, Moving, AllIdle

(* Filing the outcome of the queued step.                                  *)
LEMMA ResolveKeeps ==
  ASSUME TypeOK, LinkInv, Alone, NEW a \in Advancers, ResolveStep(a)
  PROVE  Alone'
<1> USE DEF TypeOK, Alone, jobVars
<1>1. PICK k \in Orders :
        /\ view[a][k] = "QUEUED" /\ job[stepJob[k]] \in TerminalJob
        /\ step' = [step EXCEPT ![k] = job[stepJob[k]]]
        /\ view' = [view EXCEPT ![a][k] = job[stepJob[k]]]
  BY DEF ResolveStep, IsFirst, StepsIn, SessionInv, Reading
<1>2. /\ pc[a] = "locked" /\ pc' = [pc EXCEPT ![a] = "resolved"] /\ lock' = NoOne
      /\ UNCHANGED <<run, stepJob, verdict, valid, authorized, jobVars, stalled, cut, links, held, crashes>>
  BY DEF ResolveStep
<1>3. view[a] = step /\ links[a] = stepJob /\ step[k] = "QUEUED" /\ NoneMoves /\ ~AllIdle
  BY <1>1, <1>2 DEF SessionInv, Reading, JobsInv, NoneMoves, AllIdle
<1>4. view'[a] = step' /\ step' \in [Orders -> StepStatus \cup {"ABSENT"}]
  BY <1>1, <1>3 DEF TerminalJob, StepStatus
<1>5. \A i \in Orders : i # k => step'[i] = step[i] /\ step[i] \in {"SUCCESS", "PENDING", "ABSENT"}
  BY <1>1, <1>3 DEF ShapeInv, Orders
<1>6. ShapeInv'
  BY <1>1, <1>2, <1>3, <1>5 DEF ShapeInv, TerminalJob
<1>7. JobsInv'
  BY <1>1, <1>2, <1>3, <1>5, <1>4 DEF JobsInv, NoneMoves, Moving, HookDue, LinkInv, Committed, Executed, TerminalJob
<1>8. \A b \in Advancers : b # a => pc[b] \in {"idle", "waiting"}
  BY <1>2, <1>3 DEF SessionInv
<1>9. SessionInv'
  <2>1. \A i \in Orders : step'[i] \notin {"SKIPPED", "QUEUED"}
    BY <1>1, <1>5 DEF TerminalJob
  <2>2. pc'[a] = "resolved" /\ \A b \in Advancers : b # a => pc'[b] \in {"idle", "waiting"}
    BY <1>2, <1>8
  <2>3. QED
    BY <1>2, <1>3, <1>4, <2>1, <2>2 DEF SessionInv, Reading
<1>10. Stuck => Stuck'
  BY <1>1, <1>2, <1>3, <1>5 DEF Stuck, Reached, TerminalJob, ShapeInv
<1>11. AloneInv'
  BY <1>2, <1>10 DEF AloneInv
<1>12. RunInv'
  BY <1>1, <1>2, <1>3, <1>5, <1>10 DEF RunInv, AllIdle, NoneMoves, Moving, HookDue, NoView, TerminalJob
<1>13. QED
  BY <1>6, <1>7, <1>9, <1>11, <1>12

(* Ending the run because a step failed, or none is left.                  *)
LEMMA StopKeeps ==
  ASSUME TypeOK, Alone, NEW a \in Advancers, Stop(a)
  PROVE  Alone' /\ (run' = "COMPLETED" => \A k \in Orders : step'[k] \in {"SUCCESS", "ABSENT"})
<1> USE DEF TypeOK, Alone, runVars, jobVars, Close
<1>1. /\ pc[a] = "resolved" /\ run' \in TerminalRun /\ Close(a)
      /\ UNCHANGED <<step, stepJob, verdict, valid, authorized, jobVars, stalled, cut, crashes>>
  BY DEF Stop, StopRun, TerminalRun
<1>2. view[a] = step /\ NoneMoves /\ \A k \in Orders : step[k] \notin {"QUEUED", "SKIPPED"}
  BY <1>1 DEF SessionInv, Reading, JobsInv, AllIdle, NoneMoves
<1>3. run' = "COMPLETED" => \A k \in Orders : step[k] \notin {"CANCELLED", "FAILED", "PENDING"}
  BY <1>2 DEF Stop, StopRun, StepsIn
<1>4. run' = "COMPLETED" => \A k \in Orders : step[k] \in {"SUCCESS", "ABSENT"}
  BY <1>2, <1>3 DEF StepStatus
<1>5. run' = "COMPLETED" => ~Stuck
  BY <1>2, <1>4 DEF Stuck, Reached
<1>6. ShapeInv' /\ (Stuck' <=> Stuck)
  BY <1>1 DEF ShapeInv, Stuck, Reached
<1>7. JobsInv'
  BY <1>1 DEF JobsInv, Moving, AllIdle, HookDue, Committed, Executed, TerminalJob
<1>8. SessionInv'
  BY <1>1, NoOneAssumption DEF SessionInv, Reading, Reached
<1>9. AloneInv'
  BY <1>1, <1>6 DEF AloneInv
<1>10. RunInv'
  <2>1. run' = "COMPLETED" => AllIdle'
    BY <1>1, <1>5 DEF AloneInv, AllIdle
  <2>2. NoneMoves'
    BY <1>1, <1>2 DEF NoneMoves, Moving, HookDue
  <2>3. QED
    BY <1>1, <2>1, <2>2 DEF RunInv, TerminalRun
<1>11. QED
  BY <1>1, <1>4, <1>6, <1>7, <1>8, <1>9, <1>10

(* Skipping the step that was reached ends the run, and nobody is left.    *)
LEMMA SkipKeeps ==
  ASSUME TypeOK, LinkInv, Alone, NEW a \in Advancers, NEW k \in Orders,
         IsNext(a, k), NEW outcome \in {"met", "unmet"}, Gate(a, k, outcome), NEW status \in TerminalRun, Skip(a, k, status)
  PROVE  Alone'
<1> USE DEF TypeOK, Alone, runVars, jobVars
<1>1. /\ Reached(k) /\ NoneMoves /\ pc[a] = "resolved"
      /\ \A b \in Advancers : b # a => pc[b] = "idle"
      /\ \A i \in Orders : step[i] \notin {"QUEUED", "SKIPPED"}
  BY NextIsAlone DEF IsNext
<1>2. /\ step' = [step EXCEPT ![k] = "SKIPPED"] /\ run' = status /\ Close(a)
      /\ UNCHANGED <<stepJob, verdict, valid, authorized, jobVars, stalled, cut, crashes>>
  BY DEF Skip, StopRun
<1>3. AllIdle' /\ NoneMoves'
  BY <1>1, <1>2 DEF AllIdle, NoneMoves, Moving, HookDue, Close
<1>4. ShapeInv'
  BY <1>1, <1>2 DEF ShapeInv, Reached
<1>5. JobsInv'
  BY <1>1, <1>2, <1>3 DEF JobsInv, NoneMoves, Moving, HookDue, Committed, Reached, Executed, TerminalJob
<1>6. SessionInv' /\ AloneInv'
  BY <1>3 DEF SessionInv, AloneInv, AllIdle, Reading
<1>7. RunInv'
  BY <1>2, <1>3 DEF RunInv, TerminalRun
<1>8. QED
  BY <1>4, <1>5, <1>6, <1>7

(* A condition that raises leaves the run stuck.                           *)
LEMMA RaiseKeeps ==
  ASSUME TypeOK, LinkInv, Alone, NEW a \in Advancers, Raise(a)
  PROVE  Alone'
<1>1. PICK k \in Orders : IsNext(a, k) /\ Gate(a, k, "raises")
  BY DEF Raise
<1>2. Reached(k) /\ verdict[k] = "raises"
  BY <1>1, NextIsReached, GateOfReached DEF Alone
<1>3. Stuck
  BY <1>2 DEF Stuck
<1>4. QED
  BY <1>3, CloseStep DEF Raise

(* Creating a job for the step that was reached.                           *)
LEMMA EnqueueKeeps ==
  ASSUME TypeOK, LinkInv, Alone, NEW a \in Advancers, EnqueueStep(a)
  PROVE  Alone'
<1> USE DEF TypeOK, Alone, runVars, jobVars
<1>1. PICK k \in Orders : \E j \in Jobs :
        /\ IsNext(a, k) /\ Gate(a, k, "met") /\ valid[k]
        /\ job[j] = "unused"
        /\ job' = [job EXCEPT ![j] = "flushed"]
        /\ jobFor' = [jobFor EXCEPT ![j] = k]
        /\ held' = [held EXCEPT ![a] = j]
  BY DEF EnqueueStep, IsFirst
<1>2. PICK j \in Jobs :
        /\ IsNext(a, k) /\ Gate(a, k, "met") /\ valid[k]
        /\ job[j] = "unused"
        /\ job' = [job EXCEPT ![j] = "flushed"]
        /\ jobFor' = [jobFor EXCEPT ![j] = k]
        /\ held' = [held EXCEPT ![a] = j]
  BY <1>1
<1>3. /\ pc[a] = "resolved" /\ pc' = [pc EXCEPT ![a] = "enqueued"]
      /\ UNCHANGED <<runVars, hook, stalled, cut, lock, view, links, crashes>>
  BY <1>2 DEF EnqueueStep, IsNext
<1>4. /\ Reached(k) /\ NoneMoves /\ ~Stuck /\ verdict[k] # "raises"
      /\ \A b \in Advancers : b # a => pc[b] = "idle"
      /\ view[a] = step /\ links[a] = stepJob /\ \A i \in Orders : step[i] \notin {"QUEUED", "SKIPPED"}
  BY <1>2, NextIsAlone
<1>6. ShapeInv'
  BY <1>3 DEF ShapeInv
<1>7. NoneMoves'
  BY <1>2, <1>3, <1>4 DEF NoneMoves, Moving, HookDue, TerminalJob
<1>8. JobsInv'
  <2>1. \A i \in Orders : step[i] \in TerminalJob => stepJob[i] # j
    BY <1>2 DEF LinkInv, Committed, Executed, TerminalJob
  <2>2. QED
    BY <1>2, <1>3, <1>7, <2>1 DEF JobsInv, NoneMoves, Moving, Committed, TerminalJob
<1>9. SessionInv' /\ AloneInv'
  BY <1>2, <1>3, <1>4 DEF SessionInv, AloneInv, Reading, Reached
<1>10. RunInv'
  BY <1>2, <1>3, <1>4 DEF RunInv, AllIdle, Stuck, NoneMoves
<1>11. QED
  BY <1>6, <1>8, <1>9, <1>10

(* Committing the step and its job.                                        *)
LEMMA CommitKeeps ==
  ASSUME IInv, Alone, NEW a \in Advancers, CommitStep(a)
  PROVE  Alone'
<1> USE DEF IInv, TypeOK, Alone, runVars, jobVars
<1> DEFINE j == held[a]
           k == jobFor[j]
<1>1. /\ j \in Jobs /\ k \in Orders /\ job[j] = "flushed"
      /\ step' = [step EXCEPT ![k] = "QUEUED"]
      /\ stepJob' = [stepJob EXCEPT ![k] = j]
      /\ job' = [job EXCEPT ![j] = "live"]
      /\ Close(a)
      /\ UNCHANGED <<run, verdict, valid, authorized, jobFor, hook, stalled, cut, crashes>>
  BY DEF CommitStep, HeldInv
<1>2. /\ Reached(k) /\ ~Stuck /\ NoneMoves /\ pc[a] = "enqueued"
      /\ \A b \in Advancers : b # a => pc[b] = "idle"
      /\ \A i \in Orders : step[i] \notin {"QUEUED", "SKIPPED"}
  BY EnqueuedIsAlone DEF CommitStep
<1>3. AllIdle'
  BY <1>1, <1>2 DEF Close, AllIdle
<1>4. ShapeInv'
  BY <1>1, <1>2 DEF ShapeInv, Reached
<1>5. JobsInv'
  <2>1. ASSUME NEW i \in Jobs
        PROVE  /\ Committed(i)' => jobFor'[i] \in Orders /\ stepJob'[jobFor'[i]] = i /\ step'[jobFor'[i]] \in Executed
               /\ Moving(i)' => step'[jobFor'[i]] = "QUEUED" /\ AllIdle'
               /\ HookDue(i)' => ~stalled'
    BY <1>1, <1>2, <1>3 DEF JobsInv, NoneMoves, Moving, HookDue, Committed, Reached, Executed, TerminalJob
  <2>2. ASSUME NEW i \in Orders PROVE step'[i] \in TerminalJob => job'[stepJob'[i]] = step'[i]
    BY <1>1 DEF JobsInv, LinkInv, TerminalJob, Committed
  <2>3. QED
    BY <2>1, <2>2 DEF JobsInv
<1>6. SessionInv' /\ AloneInv'
  BY <1>3 DEF SessionInv, AloneInv, AllIdle, Reading
<1>7. RunInv'
  <2>1. PICK i \in Jobs : i = j
    BY <1>1
  <2>2. Moving(i)'
    BY <1>1, <2>1 DEF Moving
  <2>3. run # "ABSENT" /\ run # "COMPLETED"
    BY <1>2 DEF RunInv, AllIdle
  <2>4. run = "RUNNING" => \A m \in Orders : step'[m] # "SKIPPED"
    BY <1>1, <1>2
  <2>5. QED
    BY <1>1, <2>2, <2>3, <2>4 DEF RunInv, NoneMoves
<1>8. QED
  BY <1>4, <1>5, <1>6, <1>7

(* The end of a live job.                                                  *)
LEMMA EndJobKeeps ==
  ASSUME IInv, Alone, NEW j \in Jobs, EndJob(j)
  PROVE  Alone'
<1> USE DEF IInv, TypeOK, Alone, runVars
<1>1. PICK outcome \in TerminalJob :
        /\ outcome = "SUCCESS" => hook[j] = "due"
        /\ job' = [job EXCEPT ![j] = outcome]
  BY DEF EndJob
<1>2. /\ job[j] = "live" /\ stalled' = (stalled /\ \A k \in Orders : stepJob[k] # j)
      /\ UNCHANGED <<runVars, jobFor, hook, cut, lock, pc, view, links, held, crashes>>
  BY DEF EndJob
<1>3. /\ jobFor[j] \in Orders /\ stepJob[jobFor[j]] = j
      /\ step[jobFor[j]] = "QUEUED" /\ AllIdle /\ ~stalled'
  BY <1>2 DEF JobsInv, Moving, Committed
<1>4. ShapeInv'
  BY <1>2 DEF ShapeInv
<1>5. JobsInv'
  <2>1. ASSUME NEW i \in Jobs
        PROVE  /\ Committed(i)' => jobFor'[i] \in Orders /\ stepJob'[jobFor'[i]] = i /\ step'[jobFor'[i]] \in Executed
               /\ Moving(i)' => step'[jobFor'[i]] = "QUEUED" /\ AllIdle'
    BY <1>1, <1>2, <1>3 DEF JobsInv, Moving, HookDue, Committed, Executed, TerminalJob, AllIdle
  <2>2. ASSUME NEW i \in Orders PROVE step'[i] \in TerminalJob => job'[stepJob'[i]] = step'[i]
    BY <1>1, <1>2 DEF JobsInv, LinkInv, TerminalJob, Committed
  <2>3. QED
    BY <1>3, <2>1, <2>2 DEF JobsInv
<1>6. SessionInv' /\ AloneInv'
  BY <1>2, <1>3 DEF SessionInv, AloneInv, AllIdle, Reading
<1>7. RunInv'
  <2>1. run # "ABSENT" /\ run # "COMPLETED"
    BY <1>2 DEF RunInv, NoneMoves, Moving
  <2>2. CASE outcome = "SUCCESS"
    <3>1. Moving(j)'
      BY <1>1, <1>2, <2>2 DEF Moving, HookDue
    <3>2. QED
      BY <1>2, <2>1, <3>1 DEF RunInv, NoneMoves
  <2>3. CASE outcome # "SUCCESS"
    <3>1. Stuck'
      BY <1>1, <1>2, <1>3, <2>3 DEF Stuck, TerminalJob
    <3>2. QED
      BY <1>2, <2>1, <3>1 DEF RunInv
  <2>4. QED
    BY <2>2, <2>3
<1>8. QED
  BY <1>4, <1>5, <1>6, <1>7

(* The hook of a job that ended is the only one, and nobody else advances. *)
LEMMA HookIsAlone ==
  ASSUME IInv, Alone, NEW j \in Jobs, HookDue(j)
  PROVE  /\ AllIdle /\ ~stalled /\ run \notin {"ABSENT", "COMPLETED"}
         /\ jobFor[j] \in Orders /\ stepJob[jobFor[j]] = j /\ step[jobFor[j]] = "QUEUED"
         /\ \A i \in Jobs : Moving(i) => i = j
<1>1. /\ AllIdle /\ ~stalled /\ jobFor[j] \in Orders /\ stepJob[jobFor[j]] = j /\ step[jobFor[j]] = "QUEUED"
  BY DEF Alone, JobsInv, Moving, HookDue, Committed
<1>2. run \notin {"ABSENT", "COMPLETED"}
  BY DEF Alone, RunInv, NoneMoves, Moving, HookDue, TerminalJob
<1>3. ASSUME NEW i \in Jobs, Moving(i) PROVE i = j
  <2>1. step[jobFor[i]] = "QUEUED" /\ jobFor[i] \in Orders /\ stepJob[jobFor[i]] = i
    BY <1>3 DEF Alone, JobsInv, Moving, HookDue, Committed
  <2>2. jobFor[i] = jobFor[j]
    BY <1>1, <2>1, BoundsAssumption DEF Alone, ShapeInv, Orders
  <2>3. QED
    BY <1>1, <2>1, <2>2
<1>4. QED
  BY <1>1, <1>2, <1>3

(* The hook advances the run.                                              *)
LEMMA HookKeeps ==
  ASSUME IInv, Alone, NEW a \in Advancers, NEW j \in Jobs, StartHook(a, j)
  PROVE  Alone'
<1>1. /\ AllIdle /\ ~stalled /\ run \notin {"ABSENT", "COMPLETED"}
      /\ jobFor[j] \in Orders /\ stepJob[jobFor[j]] = j
      /\ \A i \in Jobs : Moving(i) => i = j
  BY HookIsAlone DEF StartHook
<1>2. /\ OpenSession(a) /\ hook' = [hook EXCEPT ![j] = "done"] /\ job[j] \in TerminalJob
      /\ UNCHANGED <<runVars, job, jobFor, stalled, cut, lock, crashes>>
  BY <1>1 DEF StartHook, HookDue
<1>3. NoneMoves'
  BY <1>1, <1>2 DEF NoneMoves, Moving, HookDue, TerminalJob, IInv, TypeOK
<1>4. \A i \in Jobs : hook'[i] = hook[i] \/ hook'[i] = "done"
  BY <1>2 DEF IInv, TypeOK
<1>5. QED
  BY <1>1, <1>2, <1>3, <1>4, OpenStep DEF IInv

(* A cancelled job may have no hook: the run is stuck until the sweep.     *)
LEMMA LoseHookKeeps ==
  ASSUME IInv, Alone, NEW j \in Jobs, LoseHook(j), crashes' = crashes
  PROVE  Alone'
<1> USE DEF IInv, TypeOK, Alone, runVars
<1>1. /\ job[j] = "CANCELLED" /\ hook' = [hook EXCEPT ![j] = "done"] /\ HookDue(j)
      /\ UNCHANGED <<runVars, job, jobFor, stalled, cut, lock, pc, view, links, held>>
  BY DEF LoseHook
<1>2. /\ AllIdle /\ ~stalled /\ run \notin {"ABSENT", "COMPLETED"}
      /\ jobFor[j] \in Orders /\ stepJob[jobFor[j]] = j /\ step[jobFor[j]] = "QUEUED"
  BY <1>1, HookIsAlone
<1>3. Stuck'
  BY <1>1, <1>2 DEF Stuck
<1>4. ShapeInv' /\ SessionInv' /\ AloneInv'
  BY <1>1, <1>2 DEF ShapeInv, SessionInv, AloneInv, AllIdle, Reading
<1>5. JobsInv'
  BY <1>1, <1>2 DEF JobsInv, Moving, HookDue, Committed, AllIdle
<1>6. RunInv'
  BY <1>1, <1>2, <1>3 DEF RunInv
<1>7. QED
  BY <1>4, <1>5, <1>6

(* The sweep nudges a run only when it is stuck.                           *)
LEMMA NudgeKeeps ==
  ASSUME IInv, Alone, NEW a \in Advancers, Nudge(a)
  PROVE  Alone'
<1>1. ASSUME NEW i \in Jobs PROVE ~Moving(i)
  BY DEF Alone, JobsInv, Moving, HookDue, Nudge, InFlight, Committed, TerminalJob
<1>2. Stuck
  BY <1>1 DEF Alone, RunInv, NoneMoves, Nudge
<1>3. NoneMoves'
  BY <1>1 DEF NoneMoves, Moving, HookDue, Nudge, jobVars
<1>4. QED
  BY <1>2, <1>3, OpenStep DEF Nudge, jobVars, IInv

(* Before the run exists nobody advances it.                               *)
LEMMA AloneInit == Init => Alone /\ CompletedMeansSuccessOrUnmet
<1> SUFFICES ASSUME Init PROVE Alone /\ CompletedMeansSuccessOrUnmet
  OBVIOUS
<1> USE BoundsAssumption DEF Init
<1>1. ShapeInv
  BY DEF ShapeInv, NoView, NoLinks
<1>2. JobsInv
  BY DEF JobsInv, Moving, HookDue, Committed, TerminalJob, NoView, NoLinks
<1>3. SessionInv /\ AloneInv /\ RunInv
  BY DEF SessionInv, AloneInv, RunInv, Reading, AllIdle
<1>4. CompletedMeansSuccessOrUnmet
  BY DEF CompletedMeansSuccessOrUnmet, Orders
<1>5. QED
  BY <1>1, <1>2, <1>3, <1>4 DEF Alone

(* While no session and no hook dies, every step keeps them alone.         *)
LEMMA AloneStep ==
  ASSUME IInv, Alone, crashes = 0, crashes' = 0, [Next]_vars
  PROVE  Alone'
<1> TypeOK /\ LinkInv
  BY DEF IInv
<1>1. CASE CancelRun
  BY <1>1 DEF CancelRun, Alone, jobVars, ShapeInv, JobsInv, SessionInv, AloneInv, RunInv, Moving, NoneMoves,
     HookDue, Committed, AllIdle, Reading, Reached, Stuck
<1>2. CASE SetAuthorization
  BY <1>2 DEF SetAuthorization, Alone, jobVars, ShapeInv, JobsInv, SessionInv, AloneInv, RunInv, Moving,
     NoneMoves, HookDue, Committed, AllIdle, Reading, Reached, Stuck
<1>3. CASE Stall
  BY <1>3 DEF Stall, Alone, runVars, jobVars, ShapeInv, JobsInv, SessionInv, AloneInv, RunInv, Moving,
     NoneMoves, HookDue, Committed, AllIdle, Reading, Reached, Stuck
<1>4. ASSUME NEW a \in Advancers, CreateRun(a) PROVE Alone'
  BY <1>4, CreateStep
<1>5. ASSUME NEW a \in Advancers, Advance(a) PROVE Alone'
  <2>1. CASE LockRun(a)
    BY <2>1, LockStep
  <2>2. CASE StillRunning(a)
    BY <2>2, NobodyWaits
  <2>3. CASE ResolveStep(a)
    BY <2>3, ResolveKeeps
  <2>4. CASE Stop(a)
    BY <2>4, StopKeeps
  <2>5. CASE EndBranch(a)
    BY <2>5, SkipKeeps DEF EndBranch, TerminalRun
  <2>6. CASE RefuseStep(a)
    BY <2>6, SkipKeeps DEF RefuseStep, TerminalRun
  <2>7. CASE Raise(a)
    BY <2>7, RaiseKeeps
  <2>8. CASE EnqueueStep(a)
    BY <2>8, EnqueueKeeps
  <2>9. CASE CommitStep(a)
    BY <2>9, CommitKeeps
  <2>10. QED
    BY <1>5, <2>1, <2>2, <2>3, <2>4, <2>5, <2>6, <2>7, <2>8, <2>9 DEF Advance
<1>6. ASSUME NEW a \in Advancers, CrashSession(a) PROVE Alone'
  BY <1>6 DEF CrashSession
<1>7. ASSUME NEW a \in Advancers, Nudge(a) PROVE Alone'
  BY <1>7, NudgeKeeps
<1>8. ASSUME NEW j \in Jobs, EarlyPickup(j) PROVE Alone'
  <2>1. \A i \in Jobs : Moving(i)' <=> Moving(i)
    BY <1>8 DEF EarlyPickup, Moving, HookDue, TerminalJob, IInv, TypeOK
  <2>2. \A i \in Jobs : HookDue(i)' <=> HookDue(i)
    BY <1>8 DEF EarlyPickup, HookDue, TerminalJob, IInv, TypeOK
  <2>3. JobsInv'
    BY <1>8, <2>1, <2>2 DEF EarlyPickup, runVars, Alone, JobsInv, Committed, AllIdle
  <2>4. ShapeInv' /\ SessionInv' /\ AloneInv'
    BY <1>8 DEF EarlyPickup, runVars, Alone, ShapeInv, SessionInv, AloneInv, Reading, Reached, Stuck
  <2>5. RunInv'
    BY <1>8, <2>1 DEF EarlyPickup, runVars, Alone, RunInv, NoneMoves, AllIdle, Stuck, Reached
  <2>6. QED
    BY <2>3, <2>4, <2>5 DEF Alone
<1>9. ASSUME NEW j \in Jobs, EndJob(j) PROVE Alone'
  BY <1>9, EndJobKeeps
<1>10. ASSUME NEW j \in Jobs, LoseHook(j) PROVE Alone'
  BY <1>10, LoseHookKeeps
<1>11. ASSUME NEW a \in Advancers, NEW j \in Jobs, StartHook(a, j) PROVE Alone'
  BY <1>11, HookKeeps
<1>12. CASE OtherRuns
  BY <1>12 DEF OtherRuns, Alone, runVars, jobVars, ShapeInv, JobsInv, SessionInv, AloneInv, RunInv, Moving,
     NoneMoves, HookDue, Committed, AllIdle, Reading, Reached, Stuck
<1>13. CASE UNCHANGED vars
  BY <1>13 DEF vars, Alone, runVars, jobVars, ShapeInv, JobsInv, SessionInv, AloneInv, RunInv, Moving,
     NoneMoves, HookDue, Committed, AllIdle, Reading, Reached, Stuck
<1>14. QED
  BY <1>1, <1>2, <1>3, <1>4, <1>5, <1>6, <1>7, <1>8, <1>9, <1>10, <1>11, <1>12, <1>13 DEF Next, JobStep

(* A session or a hook that has died is never forgotten.                   *)
LEMMA CrashesGrow == TypeOK /\ [Next]_vars /\ crashes' = 0 => crashes = 0
BY BoundsAssumption DEF TypeOK, Next, Advance, JobStep, vars, CancelRun, SetAuthorization, Stall, OtherRuns, CreateRun,
   LockRun, StillRunning, ResolveStep, Stop, EndBranch, RefuseStep, Raise, EnqueueStep, CommitStep, Skip,
   CrashSession, Nudge, EarlyPickup, EndJob, LoseHook, StartHook

(* A run ends COMPLETED with every step done, or at a condition not met,   *)
(* and is never touched again.                                             *)
LEMMA CompletedStep ==
  ASSUME IInv, Alone, CompletedMeansSuccessOrUnmet, crashes = 0, crashes' = 0, [Next]_vars
  PROVE  CompletedMeansSuccessOrUnmet'
<1> TypeOK /\ LinkInv
  BY DEF IInv
<1> SUFFICES ASSUME run' = "COMPLETED", NEW k \in Orders
             PROVE  \/ step'[k] \in {"SUCCESS", "ABSENT"}
                    \/ step'[k] = "SKIPPED" /\ verdict'[k] = "unmet"
                    \/ step'[k] = "PENDING" /\ \E i \in 0 .. k - 1 : step'[i] = "SKIPPED"
  BY DEF CompletedMeansSuccessOrUnmet
<1>1. CASE run = "COMPLETED"
  <2>1. AllIdle /\ NoneMoves
    BY <1>1 DEF Alone, RunInv
  <2>2. step' = step /\ verdict' = verdict
    BY <1>1, <2>1 DEF AllIdle, NoneMoves, Moving, runVars, jobVars, TerminalRun,
       Next, Advance, JobStep, vars, CancelRun, SetAuthorization, Stall, OtherRuns, CreateRun,
       LockRun, StillRunning, ResolveStep, Stop, EndBranch, RefuseStep, Raise, EnqueueStep, CommitStep, Skip,
       CrashSession, Nudge, EarlyPickup, EndJob, LoseHook, StartHook, IsNext
  <2>3. QED
    BY <1>1, <2>2 DEF CompletedMeansSuccessOrUnmet
<1>2. CASE run # "COMPLETED"
  <2>1. \E a \in Advancers : Stop(a) \/ EndBranch(a)
    BY <1>2 DEF runVars, Next, Advance, JobStep, vars, CancelRun, SetAuthorization, Stall, OtherRuns, CreateRun,
       LockRun, StillRunning, ResolveStep, RefuseStep, Raise, EnqueueStep, CommitStep, Skip, StopRun,
       CrashSession, Nudge, EarlyPickup, EndJob, LoseHook, StartHook
  <2>2. ASSUME NEW a \in Advancers, Stop(a) PROVE step'[k] \in {"SUCCESS", "ABSENT"}
    BY <2>2, StopKeeps
  <2>3. ASSUME NEW a \in Advancers, NEW m \in Orders, IsNext(a, m), Gate(a, m, "unmet"), Skip(a, m, "COMPLETED")
        PROVE  \/ step'[k] = "SUCCESS"
               \/ step'[k] = "SKIPPED" /\ verdict'[k] = "unmet"
               \/ step'[k] = "PENDING" /\ \E i \in 0 .. k - 1 : step'[i] = "SKIPPED"
               \/ step'[k] = "ABSENT"
    <3>1. Reached(m) /\ \A i \in Orders : step[i] \notin {"QUEUED", "SKIPPED"}
      BY <2>3, NextIsAlone
    <3>2. verdict[m] = "unmet"
      BY <2>3, <3>1, GateOfReached DEF Alone
    <3>3. step' = [step EXCEPT ![m] = "SKIPPED"] /\ verdict' = verdict
      BY <2>3 DEF Skip
    <3>4. CASE k < m
      BY <3>1, <3>3, <3>4 DEF Reached, TypeOK, Orders
    <3>5. CASE k = m
      BY <3>2, <3>3, <3>5 DEF TypeOK
    <3>6. CASE m < k
      <4>1. step'[k] \in {"PENDING", "ABSENT"}
        BY <3>1, <3>3, <3>6 DEF Reached, TypeOK, Alone, ShapeInv, Orders
      <4>2. m \in 0 .. k - 1 /\ step'[m] = "SKIPPED"
        BY <3>3, <3>6, BoundsAssumption DEF TypeOK, Orders
      <4>3. QED
        BY <4>1, <4>2
    <3>7. QED
      BY <3>4, <3>5, <3>6, BoundsAssumption DEF Orders
  <2>4. QED
    BY <2>1, <2>2, <2>3 DEF EndBranch
<1>3. QED
  BY <1>1, <1>2

(* The invariant of a run none of whose sessions dies.                     *)
THEOREM QuietInvariance == Spec => []QInv
<1>1. Init => QInv
  BY IInit, AloneInit DEF QInv
<1>2. QInv /\ [Next]_vars => QInv'
  <2> SUFFICES ASSUME QInv, [Next]_vars PROVE QInv'
    OBVIOUS
  <2>1. IInv'
    BY TypeStep, HeldStep, LinkStep DEF IInv, QInv
  <2>2. CASE crashes' = 0
    <3>1. crashes = 0 /\ Alone
      BY <2>2, CrashesGrow DEF QInv, IInv
    <3>2. QED
      BY <2>1, <2>2, <3>1, AloneStep, CompletedStep DEF QInv
  <2>3. CASE crashes' # 0
    BY <2>1, <2>3 DEF QInv, CompletedMeansSuccessOrUnmet
  <2>4. QED
    BY <2>2, <2>3
<1>3. QED
  BY <1>1, <1>2, PTL DEF Spec

(* The commit halfway through an advance never lets two sessions run the   *)
(* same step (service.py:81-84).                                           *)
THEOREM StepsHaveOneJob == Spec => []OneJobPerStep
<1>1. QInv => OneJobPerStep
  BY DEF QInv, Alone, JobsInv, OneJobPerStep
<1>2. QED
  BY QuietInvariance, <1>1, PTL

(* COMPLETED never hides a failure (service.py:139-148).                   *)
THEOREM CompletedIsSuccess == Spec => []CompletedMeansSuccessOrUnmet
<1>1. QInv => CompletedMeansSuccessOrUnmet
  BY DEF QInv
<1>2. QED
  BY QuietInvariance, <1>1, PTL

(***************************************************************************)
(* The end of a run.                                                       *)
(***************************************************************************)

\* What a step does to the sessions.
Opens(b) == pc[b] = "idle" /\ OpenSession(b)
Reads(b) ==
  /\ (pc[b] = "waiting" /\ run \notin TerminalRun) \/ pc[b] = "locked"
  /\ \E where \in {"locked", "resolved"} : pc' = [pc EXCEPT ![b] = where]
  /\ UNCHANGED held
Takes(b) ==
  /\ pc[b] = "resolved" /\ pc' = [pc EXCEPT ![b] = "enqueued"]
  /\ \E j \in Jobs : held' = [held EXCEPT ![b] = j]

(* Every step opens a session, closes it, takes it one commit further, or  *)
(* has nothing to do with the sessions.                                    *)
LEMMA SessionStep ==
  ASSUME [Next]_vars
  PROVE  UNCHANGED <<pc, held>> \/ \E b \in Advancers : Opens(b) \/ Close(b) \/ Reads(b) \/ Takes(b)
<1>1. ASSUME NEW b \in Advancers, Advance(b) PROVE Close(b) \/ Reads(b) \/ Takes(b)
  <2>1. CASE LockRun(b)
    BY <2>1 DEF LockRun, Reads
  <2>2. CASE ResolveStep(b)
    BY <2>2 DEF ResolveStep, Reads
  <2>3. CASE EnqueueStep(b)
    BY <2>3 DEF EnqueueStep, IsNext, Takes
  <2>4. CASE StillRunning(b) \/ Stop(b) \/ EndBranch(b) \/ RefuseStep(b) \/ Raise(b) \/ CommitStep(b)
    BY <2>4 DEF StillRunning, Stop, StopRun, EndBranch, RefuseStep, Skip, Raise, CommitStep
  <2>5. QED
    BY <1>1, <2>1, <2>2, <2>3, <2>4 DEF Advance
<1>2. ASSUME NEW b \in Advancers, CreateRun(b) \/ CrashSession(b) \/ Nudge(b) PROVE Opens(b) \/ Close(b)
  BY <1>2 DEF CreateRun, CrashSession, Nudge, OpenSession, Opens
<1>3. ASSUME NEW j \in Jobs, JobStep(j)
      PROVE  UNCHANGED <<pc, held>> \/ \E b \in Advancers : Opens(b)
  BY <1>3 DEF JobStep, EarlyPickup, EndJob, LoseHook, StartHook, OpenSession, Opens
<1>4. CASE CancelRun \/ SetAuthorization \/ Stall \/ OtherRuns \/ UNCHANGED vars
  BY <1>4 DEF CancelRun, SetAuthorization, Stall, OtherRuns, vars
<1>5. QED
  BY <1>1, <1>2, <1>3, <1>4 DEF Next

\* A session holds a Job only between its enqueue and its commit.
IdleHoldsNothing == \A a \in Advancers : pc[a] # "enqueued" => held[a] = NoJob

(* Whoever ends lets its Job go, committed or not.                         *)
LEMMA IdleInvariance == Spec => []IdleHoldsNothing
<1>1. Init => IdleHoldsNothing
  BY DEF Init, IdleHoldsNothing
<1>2. TypeOK /\ IdleHoldsNothing /\ [Next]_vars => IdleHoldsNothing'
  <2> SUFFICES ASSUME TypeOK, IdleHoldsNothing, [Next]_vars PROVE IdleHoldsNothing'
    OBVIOUS
  <2>1. CASE UNCHANGED <<pc, held>>
    BY <2>1 DEF IdleHoldsNothing
  <2>2. ASSUME NEW b \in Advancers, Opens(b) \/ Close(b) \/ Reads(b) \/ Takes(b) PROVE IdleHoldsNothing'
    BY <2>2 DEF TypeOK, IdleHoldsNothing, Opens, OpenSession, Close, Reads, Takes
  <2>3. QED
    BY <2>1, <2>2, SessionStep
<1>3. QED
  BY <1>1, <1>2, TypeCorrect, PTL DEF Spec

\* The run is over, and the session has not read it before.
Late(a) == run \in TerminalRun /\ ~InGap(a)

(* A run that is over stays over, and no session starts to advance it.     *)
LEMMA LateStep ==
  ASSUME NEW a \in Advancers, TypeOK, Late(a), [Next]_vars
  PROVE  Late(a)'
<1> USE DEF Late, InGap
<1>1. run' \in TerminalRun
  BY DEF TerminalRun, Next, Advance, JobStep, vars, runVars, CancelRun, SetAuthorization, Stall, OtherRuns,
     CreateRun, LockRun, StillRunning, ResolveStep, Stop, StopRun, EndBranch, RefuseStep, Raise, EnqueueStep,
     CommitStep, Skip, CrashSession, Nudge, EarlyPickup, EndJob, LoseHook, StartHook
<1>2. ~InGap(a)'
  <2>1. CASE UNCHANGED <<pc, held>>
    BY <2>1
  <2>2. ASSUME NEW b \in Advancers, Opens(b) \/ Close(b) \/ Reads(b) \/ Takes(b) PROVE ~InGap(a)'
    BY <2>2 DEF TypeOK, Opens, OpenSession, Close, Reads, Takes
  <2>3. QED
    BY <2>1, <2>2, SessionStep
<1>3. QED
  BY <1>1, <1>2

(* The kill switch, and every other end of a run: no session that had not  *)
(* read the run by then creates a Job for it, and none brings the run back *)
(* (service.py:302-304).                                                   *)
THEOREM EndIsFinal == Spec => NoJobAfterTheEnd
<1>1. ASSUME NEW a \in Advancers
      PROVE  Spec => [](run \in TerminalRun /\ ~InGap(a) => [](run \in TerminalRun /\ held[a] = NoJob))
  <2>1. TypeOK /\ Late(a) /\ [Next]_vars => Late(a)'
    BY LateStep
  <2>2. IdleHoldsNothing /\ Late(a) => run \in TerminalRun /\ held[a] = NoJob
    BY DEF Late, InGap, IdleHoldsNothing
  <2>3. run \in TerminalRun /\ ~InGap(a) => Late(a)
    BY DEF Late
  <2>4. QED
    BY TypeCorrect, IdleInvariance, <2>1, <2>2, <2>3, PTL DEF Spec
<1>2. QED
  BY <1>1 DEF NoJobAfterTheEnd
=============================================================================
