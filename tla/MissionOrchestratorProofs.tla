---------------------- MODULE MissionOrchestratorProofs ----------------------
(***************************************************************************)
(* What is proved about MissionOrchestrator for every cap, plan, set of    *)
(* jobs and number of advancing sessions, and with every fault.  The       *)
(* argument turns on what a session knows once it has given the lock up:   *)
(* it can only have done so after resolving a queued step, so it had       *)
(* loaded RUNNING, and its last commit then writes no mission status.      *)
(* And, while nothing dies and the environment is not slow, on who is      *)
(* there: whoever could start the next step is alone, so that no step is   *)
(* run twice or out of its turn, and COMPLETED never hides a failure.      *)
(***************************************************************************)
EXTENDS MissionOrchestrator, TLAPS

Executed == {"QUEUED", "SUCCESS", "FAILED", "CANCELLED"}
Untouched == {"ABSENT", "PENDING"}
NotRun == {"ABSENT", "DRAFT", "APPROVED"}
Advancing == {"locked", "resolved", "enqueued"}

\* Before the approval nobody works on the mission, and before its first Job
\* is committed no step has moved, in the table or in a session's memory.
StartInv ==
  /\ mission \in {"ABSENT", "DRAFT"} =>
       /\ \A a \in Advancers : pc[a] = "idle"
       /\ \A j \in Jobs : job[j] = "unused"
  /\ mission \in NotRun =>
       \A k \in Orders :
         /\ step[k] \in Untouched
         /\ \A a \in Advancers : view[a][k] \in Untouched

\* The lock's holder sees the mission as it is; who advances without the
\* lock has seen it RUNNING.
LockInv ==
  \A a \in Advancers :
    /\ pc[a] \in Advancing => seen[a] \in {"APPROVED", "RUNNING"}
    /\ seen[a] = "RUNNING" => mission \notin NotRun
    /\ lock = a => pc[a] \in Advancing /\ mission = seen[a]
    /\ pc[a] = "locked" => lock = a /\ seen[a] = "RUNNING"
    /\ pc[a] \in Advancing /\ lock # a => seen[a] = "RUNNING"

\* A session about to commit holds a flushed Job of its own, for a step.
HeldInv ==
  \A a \in Advancers :
    pc[a] = "enqueued" =>
      /\ held[a] \in Jobs /\ job[held[a]] = "flushed" /\ jobFor[held[a]] \in Orders
      /\ \A b \in Advancers : b # a /\ pc[b] = "enqueued" => held[b] # held[a]

\* A linked Job is committed and is the step's own, and a step that has gone
\* past PENDING, in the table or in a session's memory, is linked.
LinkInv ==
  \A k \in Orders :
    /\ stepJob[k] # NoJob => jobFor[stepJob[k]] = k /\ Committed(stepJob[k])
    /\ step[k] \in Executed => stepJob[k] # NoJob
    /\ \A a \in Advancers : view[a][k] \in Executed => stepJob[k] # NoJob

IInv == TypeOK /\ StartInv /\ LockInv /\ HeldInv /\ LinkInv

-----------------------------------------------------------------------------

(* The initial state is well typed.                                        *)
LEMMA TypeInit == Init => TypeOK
<1>1. NoView \in [Orders -> StepStatus \cup {"ABSENT"}]
  BY DEF NoView
<1>2. 0 \in 0 .. MaxCrashes /\ 0 \in 0 .. MaxRewrites
  BY BoundsAssumption
<1>3. CASE Init
  <2> USE <1>3 DEF Init
  <2>1. /\ mission \in MissionStatus \cup {"ABSENT"}
        /\ stalled \in BOOLEAN /\ lock \in Advancers \cup {NoOne}
        /\ crashes \in 0 .. MaxCrashes /\ rewrites \in 0 .. MaxRewrites
    BY <1>2
  <2>2. /\ step \in [Orders -> StepStatus \cup {"ABSENT"}]
        /\ stepJob \in [Orders -> Jobs \cup {NoJob}]
        /\ view \in [Advancers -> [Orders -> StepStatus \cup {"ABSENT"}]]
    BY <1>1
  <2>3. /\ job \in [Jobs -> TerminalJob \cup {"unused", "flushed", "live", "lost"}]
        /\ jobFor \in [Jobs -> Orders \cup {MaxPlan}]
        /\ horse \in [Jobs -> {"waiting", "claimed", "hooked", "gone"}]
    OBVIOUS
  <2>4. /\ pc \in [Advancers -> {"idle", "waiting", "locked", "resolved", "enqueued"}]
        /\ seen \in [Advancers -> MissionStatus \cup {"ABSENT"}]
        /\ held \in [Advancers -> Jobs \cup {NoJob}]
    OBVIOUS
  <2>5. QED
    BY <2>1, <2>2, <2>3, <2>4 DEF TypeOK
<1>4. QED
  BY <1>3

(* Every action keeps every column and every session in its domain.        *)
LEMMA TypeStep == TypeOK /\ [Next]_vars => TypeOK'
<1> SUFFICES ASSUME TypeOK, [Next]_vars PROVE TypeOK'
  OBVIOUS
<1>1. [Next]_vars
  OBVIOUS
<1>2. QED
  <2> USE BoundsAssumption DEF missionVars, jobVars, sessionVars, counters,
         TypeOK, MissionStatus, TerminalMission, StepStatus, TerminalJob, Orders, NoView
  <2>1. CASE CreateMission
    BY <2>1 DEF CreateMission
  <2>2. CASE CancelMission
    BY <2>2 DEF CancelMission
  <2>3. CASE SetAuthorization
    BY <2>3 DEF SetAuthorization
  <2>4. CASE Stall
    BY <2>4 DEF Stall
  <2>5. ASSUME NEW a \in Advancers, Approve(a) PROVE TypeOK'
    BY <2>5 DEF Approve, OpenSession
  <2>6. ASSUME NEW a \in Advancers, LockMission(a) PROVE TypeOK'
    <3>1. Loaded(a) \in [Orders -> StepStatus \cup {"ABSENT"}]
      BY DEF Loaded
    <3>2. CASE mission \in TerminalMission /\ Close(a)
      BY <2>6, <3>2 DEF LockMission, Close
    <3>3. CASE mission \notin TerminalMission /\ lock' = a
      <4>1. /\ seen' = [seen EXCEPT ![a] = mission] /\ view' = [view EXCEPT ![a] = Loaded(a)]
            /\ UNCHANGED <<missionVars, jobVars, stalled, counters>>
        BY <2>6, <3>3 DEF LockMission, Close
      <4>2. CASE /\ Queued(Loaded(a)) = {} /\ pc' = [pc EXCEPT ![a] = "resolved"]
                 /\ held' = [held EXCEPT ![a] = NoJob]
        BY <2>6, <3>1, <3>3, <4>1, <4>2 DEF LockMission
      <4>3. CASE \E k \in Orders :
                   /\ IsFirst(k, Queued(Loaded(a))) /\ pc' = [pc EXCEPT ![a] = "locked"]
                   /\ held' = [held EXCEPT ![a] = IF view[a][k] = "ABSENT" THEN stepJob[k] ELSE @]
        BY <2>6, <3>1, <3>3, <4>1, <4>3 DEF LockMission, IsFirst, Queued
      <4>4. QED
        BY <2>6, <3>3, <4>1, <4>2, <4>3 DEF LockMission, Close
    <3>4. QED
      BY <2>6, <3>2, <3>3 DEF LockMission
  <2>7. ASSUME NEW a \in Advancers, StillRunning(a) PROVE TypeOK'
    BY <2>7 DEF StillRunning, Close
  <2>8. ASSUME NEW a \in Advancers, ResolveStep(a) PROVE TypeOK'
    BY <2>8 DEF ResolveStep, Queued, IsFirst
  <2>9. ASSUME NEW a \in Advancers, Stop(a) PROVE TypeOK'
    <3>1. /\ mission' \in TerminalMission /\ Close(a) /\ lock \in {NoOne, a}
          /\ UNCHANGED <<step, stepJob, runnable, authorized, jobVars, stalled, counters>>
      BY <2>9 DEF Stop, StopMission
    <3>2. QED
      BY <3>1 DEF Close
  <2>10. ASSUME NEW a \in Advancers, SkipStep(a) PROVE TypeOK'
    BY <2>10 DEF SkipStep, StopMission, Close, IsFirst
  <2>11. ASSUME NEW a \in Advancers, EnqueueStep(a) PROVE TypeOK'
    BY <2>11 DEF EnqueueStep, MayContinue, IsFirst
  <2>12. ASSUME NEW a \in Advancers, CommitStep(a) PROVE TypeOK'
    BY <2>12 DEF CommitStep, Close
  <2>13. ASSUME NEW a \in Advancers, CrashSession(a) PROVE TypeOK'
    BY <2>13 DEF CrashSession, Close
  <2>14. ASSUME NEW a \in Advancers, Nudge(a) PROVE TypeOK'
    BY <2>14 DEF Nudge, OpenSession
  <2>15. ASSUME NEW a \in Advancers, NEW j \in Jobs, StartHook(a, j) PROVE TypeOK'
    <3>1. CASE UNCHANGED sessionVars
      BY <2>15, <3>1 DEF StartHook
    <3>2. CASE OpenSession(a, [k \in Orders |-> IF stepJob[k] = j THEN step[k] ELSE "ABSENT"], j)
      BY <2>15, <3>2 DEF StartHook, OpenSession
    <3>3. QED
      BY <2>15, <3>1, <3>2 DEF StartHook
  <2>16. ASSUME NEW j \in Jobs, EarlyPickup(j) PROVE TypeOK'
    BY <2>16 DEF EarlyPickup
  <2>17. ASSUME NEW j \in Jobs, ClaimJob(j) PROVE TypeOK'
    BY <2>17 DEF ClaimJob, Committed
  <2>18. ASSUME NEW j \in Jobs, EndJob(j) PROVE TypeOK'
    BY <2>18 DEF EndJob, Committed
  <2>19. ASSUME NEW j \in Jobs, LoseHook(j) PROVE TypeOK'
    BY <2>19 DEF LoseHook
  <2>20. ASSUME NEW j \in Jobs, CrashHorse(j) PROVE TypeOK'
    BY <2>20 DEF CrashHorse
  <2>21. CASE UNCHANGED vars
    BY <2>21 DEF vars
  <2>22. QED
    BY <1>1, <2>1, <2>2, <2>3, <2>4, <2>5, <2>6, <2>7, <2>8, <2>9, <2>10,
       <2>11, <2>12, <2>13, <2>14, <2>15, <2>16, <2>17, <2>18, <2>19, <2>20,
       <2>21
    DEF Next, Operator, Advance, JobStep

(* Mission, step and job statuses never leave their enumerations, however  *)
(* many sessions write them.                                               *)
THEOREM TypeCorrect == Spec => []TypeOK
BY TypeInit, TypeStep, PTL DEF Spec

-----------------------------------------------------------------------------

(* The inductive invariant holds before the mission is created.            *)
LEMMA IInit == Init => IInv
BY TypeInit, NoOneAssumption
DEF Init, IInv, StartInv, LockInv, HeldInv, LinkInv, NotRun, Untouched, Executed, Advancing, NoView

(* Only the approval lets a session in, and only a session that runs the   *)
(* mission moves a step.                                                   *)
LEMMA StartStep == IInv /\ [Next]_vars => StartInv'
<1> SUFFICES ASSUME IInv, [Next]_vars PROVE StartInv'
  OBVIOUS
<1>1. [Next]_vars /\ TypeOK /\ StartInv /\ LockInv
  BY DEF IInv
<1>2. StartInv'
  <2> USE <1>1, BoundsAssumption DEF missionVars, jobVars, sessionVars, counters,
         TypeOK, StartInv, LockInv, MissionStatus, TerminalMission, StepStatus, TerminalJob, Orders, NoView,
         NotRun, Untouched, Advancing
  <2>1. CASE CreateMission
    BY <2>1 DEF CreateMission
  <2>2. CASE CancelMission
    BY <2>2 DEF CancelMission
  <2>3. CASE SetAuthorization
    BY <2>3 DEF SetAuthorization
  <2>4. CASE Stall
    BY <2>4 DEF Stall
  <2>5. ASSUME NEW a \in Advancers, Approve(a) PROVE StartInv'
    BY <2>5 DEF Approve, OpenSession
  <2>6. ASSUME NEW a \in Advancers, LockMission(a) PROVE StartInv'
    <3>1. Loaded(a) \in [Orders -> StepStatus \cup {"ABSENT"}]
      BY DEF Loaded
    <3>2. CASE mission \in TerminalMission /\ Close(a)
      BY <2>6, <3>2 DEF LockMission, Close
    <3>3. CASE mission \notin TerminalMission /\ lock' = a
      <4>1. /\ seen' = [seen EXCEPT ![a] = mission] /\ view' = [view EXCEPT ![a] = Loaded(a)]
            /\ UNCHANGED <<missionVars, jobVars, stalled, counters>>
        BY <2>6, <3>3 DEF LockMission, Close
      <4>2. CASE /\ Queued(Loaded(a)) = {} /\ pc' = [pc EXCEPT ![a] = "resolved"]
                 /\ held' = [held EXCEPT ![a] = NoJob]
        BY <2>6, <3>1, <3>3, <4>1, <4>2 DEF LockMission, Loaded
      <4>3. CASE \E k \in Orders :
                   /\ IsFirst(k, Queued(Loaded(a))) /\ pc' = [pc EXCEPT ![a] = "locked"]
                   /\ held' = [held EXCEPT ![a] = IF view[a][k] = "ABSENT" THEN stepJob[k] ELSE @]
        BY <2>6, <3>1, <3>3, <4>1, <4>3 DEF LockMission, IsFirst, Queued, Loaded
      <4>4. QED
        BY <2>6, <3>3, <4>1, <4>2, <4>3 DEF LockMission, Close
    <3>4. QED
      BY <2>6, <3>2, <3>3 DEF LockMission
  <2>7. ASSUME NEW a \in Advancers, StillRunning(a) PROVE StartInv'
    BY <2>7 DEF StillRunning, Close
  <2>8. ASSUME NEW a \in Advancers, ResolveStep(a) PROVE StartInv'
    BY <2>8 DEF ResolveStep, Queued, IsFirst
  <2>9. ASSUME NEW a \in Advancers, Stop(a) PROVE StartInv'
    BY <2>9 DEF Stop, StopMission, Close
  <2>10. ASSUME NEW a \in Advancers, SkipStep(a) PROVE StartInv'
    BY <2>10 DEF SkipStep, StopMission, Close, IsFirst
  <2>11. ASSUME NEW a \in Advancers, EnqueueStep(a) PROVE StartInv'
    BY <2>11 DEF EnqueueStep, MayContinue, IsFirst
  <2>12. ASSUME NEW a \in Advancers, CommitStep(a) PROVE StartInv'
    BY <2>12 DEF CommitStep, Close
  <2>13. ASSUME NEW a \in Advancers, CrashSession(a) PROVE StartInv'
    BY <2>13 DEF CrashSession, Close
  <2>14. ASSUME NEW a \in Advancers, Nudge(a) PROVE StartInv'
    BY <2>14 DEF Nudge, OpenSession
  <2>15. ASSUME NEW a \in Advancers, NEW j \in Jobs, StartHook(a, j) PROVE StartInv'
    <3>1. CASE UNCHANGED sessionVars
      BY <2>15, <3>1 DEF StartHook
    <3>2. CASE OpenSession(a, [k \in Orders |-> IF stepJob[k] = j THEN step[k] ELSE "ABSENT"], j)
      BY <2>15, <3>2 DEF StartHook, OpenSession
    <3>3. QED
      BY <2>15, <3>1, <3>2 DEF StartHook
  <2>16. ASSUME NEW j \in Jobs, EarlyPickup(j) PROVE StartInv'
    BY <2>16 DEF EarlyPickup
  <2>17. ASSUME NEW j \in Jobs, ClaimJob(j) PROVE StartInv'
    BY <2>17 DEF ClaimJob, Committed
  <2>18. ASSUME NEW j \in Jobs, EndJob(j) PROVE StartInv'
    BY <2>18 DEF EndJob, Committed
  <2>19. ASSUME NEW j \in Jobs, LoseHook(j) PROVE StartInv'
    BY <2>19 DEF LoseHook
  <2>20. ASSUME NEW j \in Jobs, CrashHorse(j) PROVE StartInv'
    BY <2>20 DEF CrashHorse
  <2>21. CASE UNCHANGED vars
    BY <2>21 DEF vars
  <2>22. QED
    BY <1>1, <2>1, <2>2, <2>3, <2>4, <2>5, <2>6, <2>7, <2>8, <2>9, <2>10,
       <2>11, <2>12, <2>13, <2>14, <2>15, <2>16, <2>17, <2>18, <2>19, <2>20,
       <2>21
    DEF Next, Operator, Advance, JobStep
<1>3. QED
  BY <1>2

(* Every writer of mission.status holds the lock or has seen RUNNING.      *)
LEMMA LockStep == IInv /\ [Next]_vars => LockInv'
<1> SUFFICES ASSUME IInv, [Next]_vars PROVE LockInv'
  OBVIOUS
<1>1. [Next]_vars /\ TypeOK /\ StartInv /\ LockInv
  BY DEF IInv
<1>2. LockInv'
  <2> USE <1>1, NoOneAssumption DEF missionVars, jobVars, sessionVars, counters,
         TypeOK, StartInv, LockInv, MissionStatus, TerminalMission, StepStatus, TerminalJob, Orders, NoView,
         NotRun, Untouched, Advancing
  <2>1. CASE CreateMission
    BY <2>1 DEF CreateMission
  <2>2. CASE CancelMission
    BY <2>2 DEF CancelMission
  <2>3. CASE SetAuthorization
    BY <2>3 DEF SetAuthorization
  <2>4. CASE Stall
    BY <2>4 DEF Stall
  <2>5. ASSUME NEW a \in Advancers, Approve(a) PROVE LockInv'
    BY <2>5 DEF Approve, OpenSession
  <2>6. ASSUME NEW a \in Advancers, LockMission(a) PROVE LockInv'
    BY <2>6 DEF LockMission, Close, Loaded, Queued, IsFirst
  <2>7. ASSUME NEW a \in Advancers, StillRunning(a) PROVE LockInv'
    BY <2>7 DEF StillRunning, Close
  <2>8. ASSUME NEW a \in Advancers, ResolveStep(a) PROVE LockInv'
    BY <2>8 DEF ResolveStep, Queued, IsFirst
  <2>9. ASSUME NEW a \in Advancers, Stop(a) PROVE LockInv'
    BY <2>9 DEF Stop, StopMission, Close
  <2>10. ASSUME NEW a \in Advancers, SkipStep(a) PROVE LockInv'
    BY <2>10 DEF SkipStep, StopMission, Close, IsFirst
  <2>11. ASSUME NEW a \in Advancers, EnqueueStep(a) PROVE LockInv'
    BY <2>11 DEF EnqueueStep, MayContinue, IsFirst
  <2>12. ASSUME NEW a \in Advancers, CommitStep(a) PROVE LockInv'
    BY <2>12 DEF CommitStep, Close
  <2>13. ASSUME NEW a \in Advancers, CrashSession(a) PROVE LockInv'
    BY <2>13 DEF CrashSession, Close
  <2>14. ASSUME NEW a \in Advancers, Nudge(a) PROVE LockInv'
    BY <2>14 DEF Nudge, OpenSession
  <2>15. ASSUME NEW a \in Advancers, NEW j \in Jobs, StartHook(a, j) PROVE LockInv'
    BY <2>15 DEF StartHook, OpenSession
  <2>16. ASSUME NEW j \in Jobs, EarlyPickup(j) PROVE LockInv'
    BY <2>16 DEF EarlyPickup
  <2>17. ASSUME NEW j \in Jobs, ClaimJob(j) PROVE LockInv'
    BY <2>17 DEF ClaimJob, Committed
  <2>18. ASSUME NEW j \in Jobs, EndJob(j) PROVE LockInv'
    BY <2>18 DEF EndJob, Committed
  <2>19. ASSUME NEW j \in Jobs, LoseHook(j) PROVE LockInv'
    BY <2>19 DEF LoseHook
  <2>20. ASSUME NEW j \in Jobs, CrashHorse(j) PROVE LockInv'
    BY <2>20 DEF CrashHorse
  <2>21. CASE UNCHANGED vars
    BY <2>21 DEF vars
  <2>22. QED
    BY <1>1, <2>1, <2>2, <2>3, <2>4, <2>5, <2>6, <2>7, <2>8, <2>9, <2>10,
       <2>11, <2>12, <2>13, <2>14, <2>15, <2>16, <2>17, <2>18, <2>19, <2>20,
       <2>21
    DEF Next, Operator, Advance, JobStep
<1>3. QED
  BY <1>2

(* No two sessions ever hold the same uncommitted Job.                     *)
LEMMA HeldStep == IInv /\ [Next]_vars => HeldInv'
<1> SUFFICES ASSUME IInv, [Next]_vars PROVE HeldInv'
  OBVIOUS
<1>1. [Next]_vars /\ TypeOK /\ HeldInv
  BY DEF IInv
<1>2. HeldInv'
  <2> USE <1>1 DEF missionVars, jobVars, sessionVars, counters,
         TypeOK, HeldInv, MissionStatus, TerminalMission, StepStatus, TerminalJob, Orders, NoView
  <2>1. CASE CreateMission
    BY <2>1 DEF CreateMission
  <2>2. CASE CancelMission
    BY <2>2 DEF CancelMission
  <2>3. CASE SetAuthorization
    BY <2>3 DEF SetAuthorization
  <2>4. CASE Stall
    BY <2>4 DEF Stall
  <2>5. ASSUME NEW a \in Advancers, Approve(a) PROVE HeldInv'
    BY <2>5 DEF Approve, OpenSession
  <2>6. ASSUME NEW a \in Advancers, LockMission(a) PROVE HeldInv'
    BY <2>6 DEF LockMission, Close, Loaded, Queued, IsFirst
  <2>7. ASSUME NEW a \in Advancers, StillRunning(a) PROVE HeldInv'
    BY <2>7 DEF StillRunning, Close
  <2>8. ASSUME NEW a \in Advancers, ResolveStep(a) PROVE HeldInv'
    BY <2>8 DEF ResolveStep, Queued, IsFirst
  <2>9. ASSUME NEW a \in Advancers, Stop(a) PROVE HeldInv'
    <3>1. /\ mission' \in TerminalMission /\ Close(a) /\ lock \in {NoOne, a}
          /\ UNCHANGED <<step, stepJob, runnable, authorized, jobVars, stalled, counters>>
      BY <2>9 DEF Stop, StopMission
    <3>2. QED
      BY <3>1 DEF Close
  <2>10. ASSUME NEW a \in Advancers, SkipStep(a) PROVE HeldInv'
    BY <2>10 DEF SkipStep, StopMission, Close, IsFirst
  <2>11. ASSUME NEW a \in Advancers, EnqueueStep(a) PROVE HeldInv'
    BY <2>11 DEF EnqueueStep, MayContinue, IsFirst
  <2>12. ASSUME NEW a \in Advancers, CommitStep(a) PROVE HeldInv'
    BY <2>12 DEF CommitStep, Close
  <2>13. ASSUME NEW a \in Advancers, CrashSession(a) PROVE HeldInv'
    BY <2>13 DEF CrashSession, Close
  <2>14. ASSUME NEW a \in Advancers, Nudge(a) PROVE HeldInv'
    BY <2>14 DEF Nudge, OpenSession
  <2>15. ASSUME NEW a \in Advancers, NEW j \in Jobs, StartHook(a, j) PROVE HeldInv'
    <3>1. CASE UNCHANGED sessionVars
      BY <2>15, <3>1 DEF StartHook
    <3>2. CASE OpenSession(a, [k \in Orders |-> IF stepJob[k] = j THEN step[k] ELSE "ABSENT"], j)
      BY <2>15, <3>2 DEF StartHook, OpenSession
    <3>3. QED
      BY <2>15, <3>1, <3>2 DEF StartHook
  <2>16. ASSUME NEW j \in Jobs, EarlyPickup(j) PROVE HeldInv'
    BY <2>16 DEF EarlyPickup
  <2>17. ASSUME NEW j \in Jobs, ClaimJob(j) PROVE HeldInv'
    BY <2>17 DEF ClaimJob, Committed
  <2>18. ASSUME NEW j \in Jobs, EndJob(j) PROVE HeldInv'
    BY <2>18 DEF EndJob, Committed
  <2>19. ASSUME NEW j \in Jobs, LoseHook(j) PROVE HeldInv'
    BY <2>19 DEF LoseHook
  <2>20. ASSUME NEW j \in Jobs, CrashHorse(j) PROVE HeldInv'
    BY <2>20 DEF CrashHorse
  <2>21. CASE UNCHANGED vars
    BY <2>21 DEF vars
  <2>22. QED
    BY <1>1, <2>1, <2>2, <2>3, <2>4, <2>5, <2>6, <2>7, <2>8, <2>9, <2>10,
       <2>11, <2>12, <2>13, <2>14, <2>15, <2>16, <2>17, <2>18, <2>19, <2>20,
       <2>21
    DEF Next, Operator, Advance, JobStep
<1>3. QED
  BY <1>2

(* A link, once written, is never dropped, and its Job is never undone.    *)
LEMMA LinkStep == IInv /\ [Next]_vars => LinkInv'
<1> SUFFICES ASSUME IInv, [Next]_vars PROVE LinkInv'
  OBVIOUS
<1>1. [Next]_vars /\ TypeOK /\ HeldInv /\ LinkInv
  BY DEF IInv
<1>2. LinkInv'
  <2> USE <1>1, NoJobAssumption, BoundsAssumption DEF missionVars, jobVars, sessionVars, counters,
         TypeOK, HeldInv, LinkInv, MissionStatus, TerminalMission, StepStatus, TerminalJob, Orders, NoView,
         Committed, Executed
  <2>1. CASE CreateMission
    BY <2>1 DEF CreateMission
  <2>2. CASE CancelMission
    BY <2>2 DEF CancelMission
  <2>3. CASE SetAuthorization
    BY <2>3 DEF SetAuthorization
  <2>4. CASE Stall
    BY <2>4 DEF Stall
  <2>5. ASSUME NEW a \in Advancers, Approve(a) PROVE LinkInv'
    BY <2>5 DEF Approve, OpenSession
  <2>6. ASSUME NEW a \in Advancers, LockMission(a) PROVE LinkInv'
    <3>1. Loaded(a) \in [Orders -> StepStatus \cup {"ABSENT"}]
      BY DEF Loaded
    <3>2. CASE mission \in TerminalMission /\ Close(a)
      BY <2>6, <3>2 DEF LockMission, Close
    <3>3. CASE mission \notin TerminalMission /\ lock' = a
      <4>1. /\ seen' = [seen EXCEPT ![a] = mission] /\ view' = [view EXCEPT ![a] = Loaded(a)]
            /\ UNCHANGED <<missionVars, jobVars, stalled, counters>>
        BY <2>6, <3>3 DEF LockMission, Close
      <4>2. CASE /\ Queued(Loaded(a)) = {} /\ pc' = [pc EXCEPT ![a] = "resolved"]
                 /\ held' = [held EXCEPT ![a] = NoJob]
        BY <2>6, <3>1, <3>3, <4>1, <4>2 DEF LockMission, Loaded
      <4>3. CASE \E k \in Orders :
                   /\ IsFirst(k, Queued(Loaded(a))) /\ pc' = [pc EXCEPT ![a] = "locked"]
                   /\ held' = [held EXCEPT ![a] = IF view[a][k] = "ABSENT" THEN stepJob[k] ELSE @]
        BY <2>6, <3>1, <3>3, <4>1, <4>3 DEF LockMission, IsFirst, Queued, Loaded
      <4>4. QED
        BY <2>6, <3>3, <4>1, <4>2, <4>3 DEF LockMission, Close
    <3>4. QED
      BY <2>6, <3>2, <3>3 DEF LockMission
  <2>7. ASSUME NEW a \in Advancers, StillRunning(a) PROVE LinkInv'
    BY <2>7 DEF StillRunning, Close
  <2>8. ASSUME NEW a \in Advancers, ResolveStep(a) PROVE LinkInv'
    BY <2>8 DEF ResolveStep, Queued, IsFirst
  <2>9. ASSUME NEW a \in Advancers, Stop(a) PROVE LinkInv'
    <3>1. /\ mission' \in TerminalMission /\ Close(a) /\ lock \in {NoOne, a}
          /\ UNCHANGED <<step, stepJob, runnable, authorized, jobVars, stalled, counters>>
      BY <2>9 DEF Stop, StopMission
    <3>2. QED
      BY <3>1 DEF Close
  <2>10. ASSUME NEW a \in Advancers, SkipStep(a) PROVE LinkInv'
    BY <2>10 DEF SkipStep, StopMission, Close, IsFirst
  <2>11. ASSUME NEW a \in Advancers, EnqueueStep(a) PROVE LinkInv'
    BY <2>11 DEF EnqueueStep, MayContinue, IsFirst
  <2>12. ASSUME NEW a \in Advancers, CommitStep(a) PROVE LinkInv'
    BY <2>12 DEF CommitStep, Close
  <2>13. ASSUME NEW a \in Advancers, CrashSession(a) PROVE LinkInv'
    BY <2>13 DEF CrashSession, Close
  <2>14. ASSUME NEW a \in Advancers, Nudge(a) PROVE LinkInv'
    BY <2>14 DEF Nudge, OpenSession
  <2>15. ASSUME NEW a \in Advancers, NEW j \in Jobs, StartHook(a, j) PROVE LinkInv'
    <3>1. CASE UNCHANGED sessionVars
      BY <2>15, <3>1 DEF StartHook
    <3>2. CASE OpenSession(a, [k \in Orders |-> IF stepJob[k] = j THEN step[k] ELSE "ABSENT"], j)
      BY <2>15, <3>2 DEF StartHook, OpenSession
    <3>3. QED
      BY <2>15, <3>1, <3>2 DEF StartHook
  <2>16. ASSUME NEW j \in Jobs, EarlyPickup(j) PROVE LinkInv'
    BY <2>16 DEF EarlyPickup
  <2>17. ASSUME NEW j \in Jobs, ClaimJob(j) PROVE LinkInv'
    BY <2>17 DEF ClaimJob
  <2>18. ASSUME NEW j \in Jobs, EndJob(j) PROVE LinkInv'
    BY <2>18 DEF EndJob
  <2>19. ASSUME NEW j \in Jobs, LoseHook(j) PROVE LinkInv'
    BY <2>19 DEF LoseHook
  <2>20. ASSUME NEW j \in Jobs, CrashHorse(j) PROVE LinkInv'
    BY <2>20 DEF CrashHorse
  <2>21. CASE UNCHANGED vars
    BY <2>21 DEF vars
  <2>22. QED
    BY <1>1, <2>1, <2>2, <2>3, <2>4, <2>5, <2>6, <2>7, <2>8, <2>9, <2>10,
       <2>11, <2>12, <2>13, <2>14, <2>15, <2>16, <2>17, <2>18, <2>19, <2>20,
       <2>21
    DEF Next, Operator, Advance, JobStep
<1>3. QED
  BY <1>2

(* The invariant on which the safety theorems rest.                        *)
THEOREM Invariance == Spec => []IInv
<1>1. Init => IInv
  BY IInit
<1>2. IInv /\ [Next]_vars => IInv'
  BY TypeStep, StartStep, LockStep, HeldStep, LinkStep DEF IInv
<1>3. QED
  BY <1>1, <1>2, PTL DEF Spec

-----------------------------------------------------------------------------

(* No fault, delay or racing session makes a mission act unapproved.       *)
THEOREM ApprovalFirst == Spec => []NothingBeforeApproval
<1>1. IInv => NothingBeforeApproval
  BY DEF IInv, StartInv, NotRun, Untouched, NothingBeforeApproval
<1>2. QED
  BY Invariance, <1>1, PTL

(* The database's check constraint never rejects an advancing session.     *)
THEOREM StepHasItsJob == Spec => []ExecutedStepHasItsJob
<1>1. IInv => ExecutedStepHasItsJob
  BY DEF IInv, LinkInv, Executed, ExecutedStepHasItsJob
<1>2. QED
  BY Invariance, <1>1, PTL

(* A mission that has ended has ended for good, although its status may    *)
(* still change among the terminal ones.                                   *)
LEMMA EndStep ==
  IInv /\ [Next]_vars => (mission \in TerminalMission => mission' \in TerminalMission)
<1> SUFFICES ASSUME IInv, [Next]_vars, mission \in TerminalMission
             PROVE mission' \in TerminalMission
  OBVIOUS
<1>1. [Next]_vars /\ LockInv /\ mission \in TerminalMission
  BY DEF IInv
<1>2. mission' \in TerminalMission
  <2> USE <1>1 DEF missionVars, jobVars, sessionVars, counters,
         LockInv, TerminalMission, Advancing
  <2>1. CASE CreateMission
    BY <2>1 DEF CreateMission
  <2>2. CASE CancelMission
    BY <2>2 DEF CancelMission
  <2>3. CASE SetAuthorization
    BY <2>3 DEF SetAuthorization
  <2>4. CASE Stall
    BY <2>4 DEF Stall
  <2>5. ASSUME NEW a \in Advancers, Approve(a) PROVE mission' \in TerminalMission
    BY <2>5 DEF Approve, OpenSession
  <2>6. ASSUME NEW a \in Advancers, LockMission(a) PROVE mission' \in TerminalMission
    BY <2>6 DEF LockMission, Close, Loaded, Queued, IsFirst
  <2>7. ASSUME NEW a \in Advancers, StillRunning(a) PROVE mission' \in TerminalMission
    BY <2>7 DEF StillRunning, Close
  <2>8. ASSUME NEW a \in Advancers, ResolveStep(a) PROVE mission' \in TerminalMission
    BY <2>8 DEF ResolveStep, Queued, IsFirst
  <2>9. ASSUME NEW a \in Advancers, Stop(a) PROVE mission' \in TerminalMission
    BY <2>9 DEF Stop, StopMission, Close
  <2>10. ASSUME NEW a \in Advancers, SkipStep(a) PROVE mission' \in TerminalMission
    BY <2>10 DEF SkipStep, StopMission, Close, IsFirst
  <2>11. ASSUME NEW a \in Advancers, EnqueueStep(a) PROVE mission' \in TerminalMission
    BY <2>11 DEF EnqueueStep, MayContinue, IsFirst
  <2>12. ASSUME NEW a \in Advancers, CommitStep(a) PROVE mission' \in TerminalMission
    BY <2>12 DEF CommitStep, Close
  <2>13. ASSUME NEW a \in Advancers, CrashSession(a) PROVE mission' \in TerminalMission
    BY <2>13 DEF CrashSession, Close
  <2>14. ASSUME NEW a \in Advancers, Nudge(a) PROVE mission' \in TerminalMission
    BY <2>14 DEF Nudge, OpenSession
  <2>15. ASSUME NEW a \in Advancers, NEW j \in Jobs, StartHook(a, j) PROVE mission' \in TerminalMission
    BY <2>15 DEF StartHook, OpenSession
  <2>16. ASSUME NEW j \in Jobs, EarlyPickup(j) PROVE mission' \in TerminalMission
    BY <2>16 DEF EarlyPickup
  <2>17. ASSUME NEW j \in Jobs, ClaimJob(j) PROVE mission' \in TerminalMission
    BY <2>17 DEF ClaimJob, Committed
  <2>18. ASSUME NEW j \in Jobs, EndJob(j) PROVE mission' \in TerminalMission
    BY <2>18 DEF EndJob, Committed
  <2>19. ASSUME NEW j \in Jobs, LoseHook(j) PROVE mission' \in TerminalMission
    BY <2>19 DEF LoseHook
  <2>20. ASSUME NEW j \in Jobs, CrashHorse(j) PROVE mission' \in TerminalMission
    BY <2>20 DEF CrashHorse
  <2>21. CASE UNCHANGED vars
    BY <2>21 DEF vars
  <2>22. QED
    BY <1>1, <2>1, <2>2, <2>3, <2>4, <2>5, <2>6, <2>7, <2>8, <2>9, <2>10,
       <2>11, <2>12, <2>13, <2>14, <2>15, <2>16, <2>17, <2>18, <2>19, <2>20,
       <2>21
    DEF Next, Operator, Advance, JobStep
<1>3. QED
  BY <1>2

(* No session, however stale, takes a mission out of a terminal status.    *)
THEOREM EndIsFinal == Spec => TerminalNeverResumes
<1>1. IInv /\ [Next]_vars => [(mission \in TerminalMission) => (mission' \in TerminalMission)]_vars
  BY EndStep
<1>2. QED
  BY Invariance, <1>1, PTL DEF Spec, TerminalNeverResumes

-----------------------------------------------------------------------------

(***************************************************************************)
(* While no session and no horse dies and the environment is not slow:     *)
(* whoever could start the next step is alone.  A session is open, or a    *)
(* job is under way, or the mission is stuck: whatever session the sweeps  *)
(* open then, however many, ends it.                                       *)
(***************************************************************************)

\* The job is live, or its hook has yet to start.
Moving(j) == job[j] = "live" \/ HookDue(j)
NoneMoves == \A j \in Jobs : ~Moving(j)
AllIdle == \A a \in Advancers : pc[a] = "idle"

\* k is the step to start next.
Reached(k) == step[k] = "PENDING" /\ \A i \in Orders : i < k => step[i] = "SUCCESS"

\* No session can start another step: one has failed, or will be found to
\* have, as no hook of its job is left that could find a late success.
Stuck ==
  \E k \in Orders :
    \/ step[k] \in {"FAILED", "CANCELLED", "SKIPPED"}
    \/ step[k] = "QUEUED" /\ job[stepJob[k]] \in {"FAILED", "CANCELLED"} /\ ~HookDue(stepJob[k])

\* Steps run one after the other, within the cap.
ShapeInv ==
  \A k \in Orders :
    /\ step[k] # "ABSENT" => k < MaxSteps
    /\ \A i \in Orders : i < k =>
       /\ step[k] \notin Untouched => step[i] = "SUCCESS"
       /\ step[k] # "ABSENT" => step[i] # "ABSENT"

\* A committed job is its step's, and no session is open while it moves.
JobsInv ==
  \A j \in Jobs :
    /\ Committed(j) => jobFor[j] \in Orders /\ stepJob[jobFor[j]] = j /\ step[jobFor[j]] \in Executed
    /\ Moving(j) => step[jobFor[j]] = "QUEUED" /\ AllIdle
    /\ HookDue(j) => ~stalled

\* What a session has read is what the tables say.
SessionInv ==
  \A a \in Advancers :
    /\ pc[a] = "waiting" =>
         \/ view[a] = NoView
         \/ /\ ~stalled /\ \A b \in Advancers : b # a => pc[b] = "idle"
            /\ \A k \in Orders : view[a][k] = "ABSENT" \/ (view[a][k] = step[k] /\ held[a] = stepJob[k])
    /\ pc[a] \in Advancing => view[a] = step
    /\ pc[a] = "locked" => \E k \in Orders : step[k] = "QUEUED" /\ held[a] = stepJob[k]
    /\ pc[a] \in {"resolved", "enqueued"} => \A k \in Orders : step[k] # "QUEUED"
    /\ pc[a] = "enqueued" => Reached(jobFor[held[a]])

\* Two sessions are open only on a mission that is stuck.
AloneInv == \A a, b \in Advancers : a # b /\ pc[a] # "idle" /\ pc[b] # "idle" => Stuck

MissionInv ==
  /\ mission \in {"APPROVED", "RUNNING"} /\ NoneMoves /\ (AllIdle \/ stalled) => Stuck
  /\ mission = "COMPLETED" => AllIdle /\ NoneMoves

Alone == ShapeInv /\ JobsInv /\ SessionInv /\ AloneInv /\ MissionInv

QInv ==
  /\ IInv /\ CompletedMeansDone
  /\ crashes = 0 => Alone

(* The step a session would start is the one the table has reached, and    *)
(* whoever would start it is alone.                                        *)
LEMMA NextIsAlone ==
  ASSUME TypeOK, Alone, NEW a \in Advancers, MayContinue(a), NEW k \in Orders, IsFirst(k, Runnable(a))
  PROVE  /\ Reached(k) /\ k < MaxSteps /\ ~Stuck /\ NoneMoves
         /\ \A b \in Advancers : b # a => pc[b] = "idle"
         /\ view[a] = step /\ pc[a] = "resolved"
         /\ \A i \in Orders : step[i] \in {"ABSENT", "PENDING", "SUCCESS"}
<1>1. view[a] = step /\ pc[a] = "resolved" /\ \A i \in Orders : step[i] # "QUEUED"
  BY DEF MayContinue, Alone, SessionInv, Advancing
<1>2. \A i \in Orders : step[i] \in {"ABSENT", "PENDING", "SUCCESS"}
  BY <1>1 DEF MayContinue, StepsIn, TypeOK, StepStatus
<1>3. step[k] = "PENDING" /\ k < MaxSteps
  BY <1>1 DEF IsFirst, Runnable, StepsIn
<1>4. ASSUME NEW i \in Orders, i < k PROVE step[i] = "SUCCESS"
  <2>1. step[i] # "ABSENT" /\ i < MaxSteps
    BY <1>3, <1>4, BoundsAssumption DEF Alone, ShapeInv, Orders
  <2>2. step[i] # "PENDING"
    BY <1>1, <1>4, <2>1, BoundsAssumption DEF IsFirst, Runnable, StepsIn, Orders
  <2>3. QED
    BY <1>2, <2>1, <2>2
<1>5. ~Stuck
  BY <1>2 DEF Stuck
<1>6. NoneMoves /\ \A b \in Advancers : b # a => pc[b] = "idle"
  BY <1>1, <1>5 DEF Alone, AloneInv, JobsInv, NoneMoves, AllIdle
<1>7. QED
  BY <1>1, <1>2, <1>3, <1>4, <1>5, <1>6 DEF Reached

(* So is who has enqueued one.                                             *)
LEMMA EnqueuedIsAlone ==
  ASSUME IInv, Alone, NEW a \in Advancers, pc[a] = "enqueued"
  PROVE  /\ jobFor[held[a]] \in Orders /\ Reached(jobFor[held[a]]) /\ ~Stuck /\ NoneMoves
         /\ \A b \in Advancers : b # a => pc[b] = "idle"
         /\ \A i \in Orders : step[i] \in {"ABSENT", "PENDING", "SUCCESS"}
<1> DEFINE k == jobFor[held[a]]
<1>1. k \in Orders /\ Reached(k) /\ \A i \in Orders : step[i] # "QUEUED"
  BY DEF IInv, HeldInv, Alone, SessionInv
<1>2. ASSUME NEW i \in Orders PROVE step[i] \in {"ABSENT", "PENDING", "SUCCESS"}
  <2>1. CASE i < k
    BY <1>1, <2>1 DEF Reached
  <2>2. CASE i = k
    BY <1>1, <2>2 DEF Reached
  <2>3. CASE k < i
    BY <1>1, <2>3 DEF Reached, Alone, ShapeInv, Untouched
  <2>4. QED
    BY <1>1, <2>1, <2>2, <2>3, BoundsAssumption DEF Orders
<1>3. ~Stuck
  BY <1>2 DEF Stuck
<1>4. QED
  BY <1>1, <1>2, <1>3 DEF Alone, AloneInv, JobsInv, NoneMoves, AllIdle

(* A session that ends with nothing written leaves a mission that has      *)
(* ended.                                                                  *)
LEMMA CloseStep ==
  ASSUME TypeOK, Alone, NEW a \in Advancers, Close(a), mission \notin {"APPROVED", "RUNNING"},
         UNCHANGED <<missionVars, jobVars, stalled, counters>>
  PROVE  Alone'
<1> USE DEF missionVars, jobVars, TypeOK, Alone, Close
<1>1. ShapeInv' /\ (Stuck' <=> Stuck)
  BY DEF ShapeInv, Stuck, HookDue
<1>2. JobsInv'
  BY DEF JobsInv, Moving, AllIdle, HookDue, Committed, Executed, TerminalJob
<1>3. SessionInv'
  BY DEF SessionInv, Advancing, Reached
<1>4. AloneInv'
  BY <1>1 DEF AloneInv
<1>5. MissionInv'
  BY DEF MissionInv, AllIdle, NoneMoves, Moving, HookDue
<1>6. QED
  BY <1>1, <1>2, <1>3, <1>4, <1>5

(* A session is opened when none is open, or, by the sweep, on a mission   *)
(* that is stuck.                                                          *)
LEMMA OpenStep ==
  ASSUME TypeOK, Alone, NEW a \in Advancers, NEW v, NEW h, OpenSession(a, v, h),
         v \in [Orders -> StepStatus \cup {"ABSENT"}],
         mission' # "COMPLETED", NoneMoves', Stuck => Stuck',
         \/ AllIdle /\ ~stalled'
         \/ Stuck /\ stalled /\ v = NoView,
         v # NoView => ~stalled' /\ \A k \in Orders : v[k] = "ABSENT" \/ (v[k] = step[k] /\ h = stepJob[k]),
         UNCHANGED <<step, stepJob, runnable, authorized, job, jobFor, lock>>,
         \A b \in Advancers : pc[b] # "idle" => stalled' = stalled,
         \A j \in Jobs : horse'[j] = horse[j] \/ horse'[j] = "hooked"
  PROVE  Alone'
<1> USE DEF TypeOK, Alone, OpenSession
<1>1. ShapeInv'
  BY DEF ShapeInv
<1>2. JobsInv'
  BY DEF JobsInv, Moving, NoneMoves, AllIdle, HookDue, Committed, Executed, TerminalJob
<1>3. SessionInv'
  <2> SUFFICES ASSUME NEW b \in Advancers
               PROVE  /\ pc'[b] = "waiting" =>
                          \/ view'[b] = NoView
                          \/ /\ ~stalled' /\ \A c \in Advancers : c # b => pc'[c] = "idle"
                             /\ \A k \in Orders : view'[b][k] = "ABSENT" \/ (view'[b][k] = step[k] /\ held'[b] = stepJob[k])
                      /\ pc'[b] \in Advancing => view'[b] = step
                      /\ pc'[b] = "locked" => \E k \in Orders : step[k] = "QUEUED" /\ held'[b] = stepJob[k]
                      /\ pc'[b] \in {"resolved", "enqueued"} => \A k \in Orders : step[k] # "QUEUED"
                      /\ pc'[b] = "enqueued" => Reached(jobFor[held'[b]])
    BY DEF SessionInv, Reached
  <2>1. CASE b = a
    <3>1. pc'[b] = "waiting" /\ view'[b] = v /\ held'[b] = h
      BY <2>1
    <3>2. v # NoView => \A c \in Advancers : c # b => pc'[c] = "idle"
      BY <2>1 DEF AllIdle
    <3>3. QED
      BY <3>1, <3>2 DEF Advancing
  <2>2. CASE b # a
    <3>1. pc'[b] = pc[b] /\ view'[b] = view[b] /\ held'[b] = held[b]
      BY <2>2
    <3>2. CASE pc[b] = "idle"
      BY <3>1, <3>2 DEF Advancing
    <3>3. CASE pc[b] # "idle"
      <4>1. stalled' = stalled /\ stalled /\ Stuck
        BY <3>3 DEF AllIdle
      <4>2. QED
        BY <3>1, <4>1 DEF SessionInv, Advancing
    <3>4. QED
      BY <3>2, <3>3
  <2>3. QED
    BY <2>1, <2>2
<1>4. AloneInv'
  BY DEF AloneInv, AllIdle
<1>5. MissionInv'
  BY DEF MissionInv, AllIdle, NoneMoves
<1>6. QED
  BY <1>1, <1>2, <1>3, <1>4, <1>5

(* Taking the lock: what the hook had loaded is still what the table says. *)
LEMMA LockKeeps ==
  ASSUME IInv, Alone, NEW a \in Advancers, LockMission(a)
  PROVE  Alone'
<1> USE DEF IInv
<1>1. CASE mission \in TerminalMission
  BY <1>1, CloseStep DEF LockMission, TerminalMission
<1>2. CASE mission \notin TerminalMission
  <2> USE DEF missionVars, jobVars, TypeOK, Alone
  <2>1. /\ pc[a] = "waiting" /\ lock' = a /\ view' = [view EXCEPT ![a] = Loaded(a)]
        /\ UNCHANGED <<missionVars, jobVars, stalled, counters>>
        /\ \/ /\ Queued(Loaded(a)) = {}
              /\ pc' = [pc EXCEPT ![a] = "resolved"]
              /\ held' = [held EXCEPT ![a] = NoJob]
           \/ \E k \in Orders :
                /\ IsFirst(k, Queued(Loaded(a)))
                /\ pc' = [pc EXCEPT ![a] = "locked"]
                /\ held' = [held EXCEPT ![a] = IF view[a][k] = "ABSENT" THEN stepJob[k] ELSE @]
    BY <1>2 DEF LockMission
  <2>2. /\ \A k \in Orders : view[a][k] = "ABSENT" \/ (view[a][k] = step[k] /\ held[a] = stepJob[k])
        /\ ~AllIdle
    BY <2>1 DEF SessionInv, NoView, AllIdle
  <2>3. Loaded(a) = step
    BY <2>2 DEF Loaded
  <2>4. \/ /\ pc' = [pc EXCEPT ![a] = "resolved"]
           /\ held' = [held EXCEPT ![a] = NoJob]
           /\ \A k \in Orders : step[k] # "QUEUED"
        \/ /\ pc' = [pc EXCEPT ![a] = "locked"]
           /\ \E k \in Orders : step[k] = "QUEUED" /\ held' = [held EXCEPT ![a] = stepJob[k]]
    <3>1. CASE Queued(step) = {}
      BY <2>1, <2>3, <3>1 DEF Queued, IsFirst
    <3>2. CASE Queued(step) # {}
      <4>1. PICK k \in Orders :
                /\ IsFirst(k, Queued(step))
                /\ pc' = [pc EXCEPT ![a] = "locked"]
                /\ held' = [held EXCEPT ![a] = IF view[a][k] = "ABSENT" THEN stepJob[k] ELSE held[a]]
        BY <2>1, <2>3, <3>2
      <4>2. step[k] = "QUEUED" /\ held' = [held EXCEPT ![a] = stepJob[k]]
        BY <2>2, <4>1 DEF IsFirst, Queued
      <4>3. QED
        BY <4>1, <4>2
    <3>3. QED
      BY <3>1, <3>2
  <2>5. ShapeInv' /\ (Stuck' <=> Stuck)
    BY <2>1 DEF ShapeInv, Stuck, HookDue
  <2>6. JobsInv'
    BY <2>1, <2>2 DEF JobsInv, Moving, HookDue, Committed, Executed, TerminalJob, AllIdle
  <2>7. AloneInv'
    BY <2>1, <2>4, <2>5 DEF AloneInv
  <2>8. MissionInv'
    BY <2>1, <2>2, <2>4, <2>5 DEF MissionInv, AllIdle, NoneMoves, Moving, HookDue
  <2>9. SessionInv'
    <3> SUFFICES ASSUME NEW b \in Advancers
                 PROVE  /\ pc'[b] = "waiting" =>
                            \/ view'[b] = NoView
                            \/ /\ ~stalled /\ \A c \in Advancers : c # b => pc'[c] = "idle"
                               /\ \A k \in Orders : view'[b][k] = "ABSENT" \/ (view'[b][k] = step[k] /\ held'[b] = stepJob[k])
                        /\ pc'[b] \in Advancing => view'[b] = step
                        /\ pc'[b] = "locked" => \E k \in Orders : step[k] = "QUEUED" /\ held'[b] = stepJob[k]
                        /\ pc'[b] \in {"resolved", "enqueued"} => \A k \in Orders : step[k] # "QUEUED"
                        /\ pc'[b] = "enqueued" => Reached(jobFor[held'[b]])
      BY <2>1 DEF SessionInv, Reached
    <3>1. CASE b = a
      BY <2>1, <2>3, <2>4, <3>1
    <3>2. CASE b # a
      <4>1. pc'[b] = pc[b] /\ view'[b] = view[b] /\ held'[b] = held[b] /\ (pc[b] = "waiting" => view[b] = NoView)
        BY <2>1, <2>4, <3>2 DEF SessionInv
      <4>2. QED
        BY <4>1 DEF SessionInv
    <3>3. QED
      BY <3>1, <3>2
  <2>10. QED
    BY <2>5, <2>6, <2>7, <2>8, <2>9
<1>3. QED
  BY <1>1, <1>2

(* The job of a queued step has ended before anyone reads the step.        *)
LEMMA NobodyWaits ==
  ASSUME IInv, Alone, NEW a \in Advancers
  PROVE  ~StillRunning(a)
<1> SUFFICES ASSUME pc[a] = "locked", job[held[a]] \notin TerminalJob PROVE FALSE
  BY DEF StillRunning
<1>1. PICK k \in Orders : step[k] = "QUEUED" /\ held[a] = stepJob[k]
  BY DEF Alone, SessionInv
<1>2. held[a] \in Jobs /\ job[held[a]] = "live"
  BY <1>1, NoJobAssumption DEF IInv, TypeOK, LinkInv, Committed, Executed
<1>3. QED
  BY <1>2 DEF Alone, JobsInv, Moving, AllIdle

(* Filing the outcome of the queued step.                                  *)
LEMMA ResolveKeeps ==
  ASSUME IInv, Alone, NEW a \in Advancers, ResolveStep(a)
  PROVE  Alone'
<1> USE DEF IInv, TypeOK, Alone, jobVars
<1>1. PICK k \in Orders :
        /\ view[a][k] = "QUEUED"
        /\ step' = [step EXCEPT ![k] = job[held[a]]]
        /\ view' = [view EXCEPT ![a][k] = job[held[a]]]
  BY DEF ResolveStep, IsFirst, Queued
<1>2. /\ pc[a] = "locked" /\ pc' = [pc EXCEPT ![a] = "resolved"] /\ lock' = NoOne /\ lock = a
      /\ job[held[a]] \in TerminalJob
      /\ UNCHANGED <<mission, stepJob, runnable, authorized, jobVars, stalled, seen, held, counters>>
  BY DEF ResolveStep, LockInv
<1>3. view[a] = step /\ step[k] = "QUEUED" /\ NoneMoves /\ ~AllIdle
  BY <1>1, <1>2 DEF SessionInv, Advancing, JobsInv, NoneMoves, AllIdle
<1>4. \A i \in Orders : i # k => step'[i] = step[i] /\ step[i] \in {"SUCCESS", "PENDING", "ABSENT"}
  <2> SUFFICES ASSUME NEW i \in Orders, i # k
               PROVE  step'[i] = step[i] /\ step[i] \in {"SUCCESS", "PENDING", "ABSENT"}
    OBVIOUS
  <2>1. i < k \/ k < i
    BY BoundsAssumption DEF Orders
  <2>2. step[i] \in {"SUCCESS", "PENDING", "ABSENT"}
    BY <1>3, <2>1 DEF ShapeInv, Untouched
  <2>3. QED
    BY <1>1, <2>2
<1>5. held[a] = stepJob[k]
  BY <1>2, <1>4 DEF SessionInv
<1>6. view'[a] = step' /\ step' \in [Orders -> StepStatus \cup {"ABSENT"}] /\ step'[k] = job[held[a]]
  BY <1>1, <1>2, <1>3 DEF TerminalJob, StepStatus
<1>7. ShapeInv'
  BY <1>1, <1>2, <1>3, <1>4 DEF ShapeInv, TerminalJob, Untouched
<1>8. JobsInv'
  BY <1>1, <1>2, <1>3, <1>4, <1>6 DEF JobsInv, NoneMoves, Moving, HookDue, Committed, Executed, TerminalJob
<1>9. \A b \in Advancers : b # a => pc[b] \notin {"locked", "resolved", "enqueued"}
  BY <1>2, <1>3 DEF SessionInv, LockInv
<1>10. SessionInv'
  <2>1. \A i \in Orders : step'[i] # "QUEUED"
    BY <1>1, <1>2, <1>3, <1>4, <1>6 DEF TerminalJob
  <2>2. pc'[a] = "resolved" /\ \A b \in Advancers : b # a => pc'[b] = pc[b] /\ view'[b] = view[b]
    BY <1>1, <1>2
  <2>3. \A b \in Advancers : b # a /\ pc[b] = "waiting" => view[b] = NoView
    BY <1>2 DEF SessionInv
  <2>4. QED
    BY <1>6, <1>9, <2>1, <2>2, <2>3 DEF SessionInv, Advancing
<1>11. Stuck => Stuck'
  <2>1. ASSUME Stuck PROVE job[held[a]] \in {"FAILED", "CANCELLED"}
    BY <1>3, <1>4, <1>5, <2>1 DEF Stuck
  <2>2. QED
    BY <1>6, <2>1 DEF Stuck
<1>12. AloneInv'
  BY <1>2, <1>11 DEF AloneInv
<1>13. MissionInv'
  BY <1>2, <1>3, <1>11 DEF MissionInv, AllIdle, NoneMoves, Moving, HookDue
<1>14. QED
  BY <1>7, <1>8, <1>10, <1>12, <1>13

(* Ending the mission because a step failed, or none is left.              *)
LEMMA StopKeeps ==
  ASSUME IInv, Alone, NEW a \in Advancers, Stop(a)
  PROVE  Alone' /\ (mission' = "COMPLETED" => \A k \in Orders : step'[k] \in {"SUCCESS", "ABSENT"})
<1> USE DEF IInv, TypeOK, Alone, missionVars, jobVars, Close
<1>1. /\ pc[a] = "resolved" /\ mission' \in TerminalMission /\ Close(a)
      /\ UNCHANGED <<step, stepJob, runnable, authorized, jobVars, stalled, counters>>
  BY DEF Stop, StopMission, TerminalMission
<1>2. view[a] = step /\ NoneMoves /\ \A k \in Orders : step[k] # "QUEUED"
  BY <1>1 DEF SessionInv, Advancing, JobsInv, AllIdle, NoneMoves
<1>3. mission' = "COMPLETED" =>
        StepsIn(a, {"CANCELLED", "FAILED", "SKIPPED"}) = {} /\ Runnable(a) = {}
  BY DEF Stop, StopMission
<1>4. mission' = "COMPLETED" => \A k \in Orders : step[k] \in {"SUCCESS", "ABSENT"}
  BY <1>2, <1>3 DEF StepStatus, StepsIn, Runnable, ShapeInv
<1>5. mission' = "COMPLETED" => ~Stuck
  BY <1>4 DEF Stuck
<1>6. ShapeInv' /\ (Stuck' <=> Stuck)
  BY <1>1 DEF ShapeInv, Stuck, HookDue
<1>7. JobsInv'
  BY <1>1 DEF JobsInv, Moving, AllIdle, HookDue, Committed, Executed, TerminalJob
<1>8. SessionInv'
  BY <1>1 DEF SessionInv, Advancing, Reached
<1>9. AloneInv'
  BY <1>1, <1>6 DEF AloneInv
<1>10. MissionInv'
  <2>1. mission' = "COMPLETED" => AllIdle'
    BY <1>1, <1>5 DEF AloneInv, AllIdle
  <2>2. NoneMoves'
    BY <1>1, <1>2 DEF NoneMoves, Moving, HookDue
  <2>3. QED
    BY <1>1, <2>1, <2>2 DEF MissionInv, TerminalMission
<1>11. QED
  BY <1>1, <1>4, <1>6, <1>7, <1>8, <1>9, <1>10

(* Skipping the step that was reached ends the mission, and nobody is      *)
(* left.                                                                   *)
LEMMA SkipKeeps ==
  ASSUME IInv, Alone, NEW a \in Advancers, SkipStep(a)
  PROVE  Alone'
<1> USE DEF IInv, TypeOK, Alone, jobVars
<1>1. PICK k \in Orders : IsFirst(k, Runnable(a)) /\ step' = [step EXCEPT ![k] = "SKIPPED"]
  BY DEF SkipStep
<1>2. /\ Reached(k) /\ NoneMoves /\ k < MaxSteps /\ MayContinue(a)
      /\ \A b \in Advancers : b # a => pc[b] = "idle"
      /\ \A i \in Orders : step[i] \in {"ABSENT", "PENDING", "SUCCESS"}
  BY <1>1, NextIsAlone DEF SkipStep
<1>3. /\ mission' = "FAILED" /\ Close(a)
      /\ UNCHANGED <<stepJob, runnable, authorized, jobVars, stalled, counters>>
  BY DEF SkipStep, StopMission
<1>4. AllIdle' /\ NoneMoves'
  BY <1>2, <1>3 DEF AllIdle, NoneMoves, Moving, HookDue, Close
<1>5. ShapeInv'
  BY <1>1, <1>2 DEF ShapeInv, Reached, Untouched
<1>6. JobsInv'
  BY <1>1, <1>2, <1>3, <1>4 DEF JobsInv, NoneMoves, Moving, HookDue, Committed, Reached, Executed, TerminalJob
<1>7. SessionInv' /\ AloneInv'
  BY <1>4 DEF SessionInv, AloneInv, AllIdle, Advancing
<1>8. MissionInv'
  BY <1>3 DEF MissionInv
<1>9. QED
  BY <1>5, <1>6, <1>7, <1>8

(* Creating a job for the step that was reached.                           *)
LEMMA EnqueueKeeps ==
  ASSUME IInv, Alone, NEW a \in Advancers, EnqueueStep(a)
  PROVE  Alone'
<1> USE DEF IInv, TypeOK, Alone, missionVars, jobVars
<1>1. PICK k \in Orders : \E j \in Jobs :
        /\ IsFirst(k, Runnable(a))
        /\ job[j] = "unused"
        /\ job' = [job EXCEPT ![j] = "flushed"]
        /\ jobFor' = [jobFor EXCEPT ![j] = k]
        /\ held' = [held EXCEPT ![a] = j]
  BY DEF EnqueueStep
<1>2. PICK j \in Jobs :
        /\ IsFirst(k, Runnable(a))
        /\ job[j] = "unused"
        /\ job' = [job EXCEPT ![j] = "flushed"]
        /\ jobFor' = [jobFor EXCEPT ![j] = k]
        /\ held' = [held EXCEPT ![a] = j]
  BY <1>1
<1>3. /\ MayContinue(a) /\ pc' = [pc EXCEPT ![a] = "enqueued"]
      /\ UNCHANGED <<missionVars, horse, stalled, lock, seen, view, counters>>
  BY DEF EnqueueStep
<1>4. /\ Reached(k) /\ NoneMoves /\ ~Stuck /\ pc[a] = "resolved"
      /\ \A b \in Advancers : b # a => pc[b] = "idle"
      /\ view[a] = step /\ \A i \in Orders : step[i] \in {"ABSENT", "PENDING", "SUCCESS"}
  BY <1>2, <1>3, NextIsAlone
<1>5. ShapeInv'
  BY <1>3 DEF ShapeInv
<1>6. NoneMoves'
  BY <1>2, <1>3, <1>4 DEF NoneMoves, Moving, HookDue, TerminalJob
<1>7. JobsInv'
  BY <1>2, <1>3, <1>6 DEF JobsInv, NoneMoves, Moving, Committed, TerminalJob
<1>8. SessionInv' /\ AloneInv'
  BY <1>2, <1>3, <1>4 DEF SessionInv, AloneInv, Advancing, Reached
<1>9. MissionInv'
  BY <1>2, <1>3, <1>4 DEF MissionInv, AllIdle, NoneMoves, Stuck
<1>10. QED
  BY <1>5, <1>7, <1>8, <1>9

(* Committing the step and its job.                                        *)
LEMMA CommitKeeps ==
  ASSUME IInv, Alone, NEW a \in Advancers, CommitStep(a)
  PROVE  /\ Alone'
         /\ \A k \in Orders : step[k] # "QUEUED" /\ step'[k] = "QUEUED" =>
              \A i \in 0 .. k - 1 : step[i] = "SUCCESS"
<1> USE DEF IInv, TypeOK, Alone
<1> DEFINE j == held[a]
           k == jobFor[j]
<1>1. /\ j \in Jobs /\ job[j] = "flushed"
      /\ step' = [step EXCEPT ![k] = "QUEUED"]
      /\ stepJob' = [stepJob EXCEPT ![k] = j]
      /\ job' = [job EXCEPT ![j] = "live"]
      /\ mission' \in {mission, "RUNNING"}
      /\ Close(a)
      /\ UNCHANGED <<runnable, authorized, jobFor, horse, stalled, counters>>
  BY DEF CommitStep, HeldInv
<1>2. /\ k \in Orders /\ Reached(k) /\ ~Stuck /\ NoneMoves /\ pc[a] = "enqueued"
      /\ \A b \in Advancers : b # a => pc[b] = "idle"
      /\ \A i \in Orders : step[i] \in {"ABSENT", "PENDING", "SUCCESS"}
  BY EnqueuedIsAlone DEF CommitStep
<1>3. AllIdle'
  BY <1>1, <1>2 DEF Close, AllIdle
<1>4. ShapeInv'
  BY <1>1, <1>2 DEF ShapeInv, Reached, Untouched
<1>5. JobsInv'
  BY <1>1, <1>2, <1>3 DEF JobsInv, NoneMoves, Moving, HookDue, Committed, Reached, Executed, TerminalJob
<1>6. SessionInv' /\ AloneInv'
  BY <1>3 DEF SessionInv, AloneInv, AllIdle, Advancing
<1>7. MissionInv'
  <2>1. PICK i \in Jobs : i = j
    BY <1>1
  <2>2. Moving(i)'
    BY <1>1, <2>1 DEF Moving
  <2>3. mission # "COMPLETED"
    BY <1>2 DEF MissionInv, AllIdle
  <2>4. QED
    BY <1>1, <2>2, <2>3 DEF MissionInv, NoneMoves
<1>8. ASSUME NEW m \in Orders, step[m] # "QUEUED", step'[m] = "QUEUED", NEW i \in 0 .. m - 1
      PROVE  step[i] = "SUCCESS"
  <2>1. m = k /\ i \in Orders /\ i < k
    BY <1>1, <1>2, <1>8, BoundsAssumption DEF Orders
  <2>2. QED
    BY <1>2, <2>1 DEF Reached
<1>9. QED
  BY <1>4, <1>5, <1>6, <1>7, <1>8

(* A moving job is the job of the queued step, and nobody advances.        *)
LEMMA MovingIsAlone ==
  ASSUME IInv, Alone, NEW j \in Jobs, Committed(j), Moving(j)
  PROVE  /\ AllIdle /\ mission # "COMPLETED"
         /\ jobFor[j] \in Orders /\ stepJob[jobFor[j]] = j /\ step[jobFor[j]] = "QUEUED"
         /\ \A i \in Jobs : Moving(i) => i = j
<1>1. AllIdle /\ jobFor[j] \in Orders /\ stepJob[jobFor[j]] = j /\ step[jobFor[j]] = "QUEUED"
  BY DEF Alone, JobsInv
<1>2. mission # "COMPLETED"
  BY DEF Alone, MissionInv, NoneMoves
<1>3. ASSUME NEW i \in Jobs, Moving(i) PROVE i = j
  <2>1. step[jobFor[i]] = "QUEUED" /\ jobFor[i] \in Orders /\ stepJob[jobFor[i]] = i
    BY <1>3 DEF Alone, JobsInv, Moving, HookDue, Committed
  <2>2. jobFor[i] = jobFor[j]
    BY <1>1, <2>1, BoundsAssumption DEF Alone, ShapeInv, Orders, Untouched
  <2>3. QED
    BY <1>1, <2>1, <2>2
<1>4. QED
  BY <1>1, <1>2, <1>3

(* The end of a live job, or another end written over the first.           *)
LEMMA EndJobKeeps ==
  ASSUME IInv, Alone, NEW j \in Jobs, EndJob(j)
  PROVE  Alone'
<1> USE DEF IInv, TypeOK, Alone, missionVars, sessionVars
<1>1. PICK outcome \in TerminalJob :
        /\ outcome = "SUCCESS" => horse[j] = "claimed"
        /\ job' = [job EXCEPT ![j] = outcome]
  BY DEF EndJob
<1>2. /\ Committed(j) /\ stalled' = (stalled /\ \A k \in Orders : stepJob[k] # j)
      /\ UNCHANGED <<missionVars, jobFor, horse, lock, sessionVars, crashes>>
  BY DEF EndJob
<1>3. /\ jobFor[j] \in Orders /\ stepJob[jobFor[j]] = j /\ step[jobFor[j]] \in Executed /\ ~stalled'
  BY <1>2 DEF JobsInv
<1>4. ShapeInv'
  BY <1>2 DEF ShapeInv
<1>5. \A i \in Jobs : Moving(i)' => Moving(i)
  BY <1>1, <1>2 DEF Moving, HookDue, Committed, TerminalJob
<1>6. Stuck => Stuck'
  <2> SUFFICES ASSUME NEW k \in Orders, step[k] = "QUEUED", job[stepJob[k]] \in {"FAILED", "CANCELLED"}, ~HookDue(stepJob[k])
               PROVE  job'[stepJob[k]] \in {"FAILED", "CANCELLED"} /\ ~HookDue(stepJob[k])'
    BY <1>2 DEF Stuck
  <2>1. stepJob[k] \in Jobs
    BY NoJobAssumption DEF LinkInv, Executed
  <2>2. QED
    BY <1>1, <1>2, <2>1 DEF HookDue, TerminalJob
<1>7. JobsInv'
  <2> SUFFICES ASSUME NEW i \in Jobs
               PROVE  /\ Committed(i)' => jobFor[i] \in Orders /\ stepJob[jobFor[i]] = i /\ step[jobFor[i]] \in Executed
                      /\ Moving(i)' => step[jobFor[i]] = "QUEUED" /\ AllIdle
                      /\ HookDue(i)' => ~stalled'
    BY <1>2 DEF JobsInv, AllIdle
  <2>1. Committed(i)' => Committed(i)
    BY <1>1, <1>2 DEF Committed
  <2>2. QED
    BY <1>3, <1>5, <2>1 DEF JobsInv
<1>8. SessionInv'
  BY <1>2, <1>3 DEF SessionInv, Advancing, Reached
<1>9. AloneInv'
  BY <1>2, <1>6 DEF AloneInv
<1>10. MissionInv'
  <2>1. mission = "COMPLETED" => AllIdle' /\ NoneMoves'
    BY <1>2, <1>5 DEF MissionInv, AllIdle, NoneMoves
  <2>2. CASE Moving(j)'
    BY <1>2, <2>1, <2>2 DEF MissionInv, NoneMoves
  <2>3. CASE ~Moving(j)' /\ Moving(j)
    <3>1. AllIdle /\ step[jobFor[j]] = "QUEUED"
      BY <2>3 DEF JobsInv
    <3>2. outcome # "SUCCESS" /\ ~HookDue(j)'
      BY <1>1, <1>2, <2>3 DEF Moving, HookDue
    <3>3. Stuck'
      BY <1>1, <1>2, <1>3, <3>1, <3>2 DEF Stuck, TerminalJob, HookDue
    <3>4. QED
      BY <1>2, <2>1, <3>3 DEF MissionInv
  <2>4. CASE ~Moving(j)' /\ ~Moving(j)
    <3>1. \A i \in Jobs : Moving(i)' <=> Moving(i)
      BY <1>1, <1>2, <2>4 DEF Moving, HookDue
    <3>2. NoneMoves' <=> NoneMoves
      BY <3>1 DEF NoneMoves
    <3>3. QED
      BY <1>2, <1>3, <1>6, <2>1, <3>2 DEF MissionInv, AllIdle
  <2>5. QED
    BY <2>2, <2>3, <2>4
<1>11. QED
  BY <1>4, <1>7, <1>8, <1>9, <1>10

(* The horse's claim, which may revive a job cancelled too early.          *)
LEMMA ClaimKeeps ==
  ASSUME IInv, Alone, NEW j \in Jobs, ClaimJob(j)
  PROVE  Alone'
<1> USE DEF IInv, TypeOK, Alone, missionVars, sessionVars
<1>1. /\ Committed(j) /\ horse[j] = "waiting"
      /\ horse' = [horse EXCEPT ![j] = "claimed"]
      /\ job' = [job EXCEPT ![j] = "live"]
      /\ UNCHANGED <<missionVars, jobFor, stalled, lock, sessionVars, counters>>
  BY DEF ClaimJob
<1>2. Moving(j)
  BY <1>1 DEF Moving, HookDue, Committed, TerminalJob
<1>3. /\ AllIdle /\ mission # "COMPLETED"
      /\ jobFor[j] \in Orders /\ stepJob[jobFor[j]] = j /\ step[jobFor[j]] = "QUEUED"
  BY <1>1, <1>2, MovingIsAlone
<1>4. ShapeInv'
  BY <1>1 DEF ShapeInv
<1>5. JobsInv'
  BY <1>1, <1>3 DEF JobsInv, Moving, HookDue, Committed, AllIdle, Executed, TerminalJob
<1>6. SessionInv' /\ AloneInv'
  BY <1>1, <1>3 DEF SessionInv, AloneInv, AllIdle, Advancing
<1>7. Moving(j)'
  BY <1>1 DEF Moving
<1>8. MissionInv'
  BY <1>1, <1>3, <1>7 DEF MissionInv, NoneMoves
<1>9. QED
  BY <1>4, <1>5, <1>6, <1>8

(* The hook advances the mission.                                          *)
LEMMA HookKeeps ==
  ASSUME IInv, Alone, NEW a \in Advancers, NEW j \in Jobs, StartHook(a, j)
  PROVE  Alone'
<1> USE DEF IInv, TypeOK
<1> DEFINE loaded == [k \in Orders |-> IF stepJob[k] = j THEN step[k] ELSE "ABSENT"]
<1>1. HookDue(j) /\ Committed(j) /\ Moving(j)
  BY DEF StartHook, HookDue, Committed, Moving
<1>2. /\ AllIdle /\ mission # "COMPLETED" /\ ~stalled
      /\ jobFor[j] \in Orders /\ stepJob[jobFor[j]] = j
      /\ \A i \in Jobs : Moving(i) => i = j
  BY <1>1, MovingIsAlone DEF Alone, JobsInv
<1>3. /\ OpenSession(a, loaded, j) /\ horse' = [horse EXCEPT ![j] = "hooked"] /\ job[j] \in TerminalJob
      /\ UNCHANGED <<missionVars, job, jobFor, stalled, lock, counters>>
  BY <1>2 DEF StartHook
<1>4. NoneMoves'
  BY <1>2, <1>3 DEF NoneMoves, Moving, HookDue, TerminalJob
<1>5. Stuck => Stuck'
  BY <1>3 DEF Stuck, HookDue, missionVars
<1>6. \A i \in Jobs : horse'[i] = horse[i] \/ horse'[i] = "hooked"
  BY <1>3
<1>7. loaded \in [Orders -> StepStatus \cup {"ABSENT"}]
  OBVIOUS
<1>8. \A k \in Orders : loaded[k] = "ABSENT" \/ (loaded[k] = step[k] /\ j = stepJob[k])
  OBVIOUS
<1>9. QED
  <2> HIDE DEF loaded
  <2> QED
    BY <1>2, <1>3, <1>4, <1>5, <1>6, <1>7, <1>8, OpenStep DEF missionVars

(* A cancelled job may have no hook: the mission is stuck until the sweep. *)
LEMMA LoseHookKeeps ==
  ASSUME IInv, Alone, NEW j \in Jobs, LoseHook(j)
  PROVE  Alone'
<1> USE DEF IInv, TypeOK, Alone, missionVars, sessionVars
<1>1. /\ job[j] = "CANCELLED" /\ horse' = [horse EXCEPT ![j] = "gone"] /\ HookDue(j)
      /\ UNCHANGED <<missionVars, job, jobFor, stalled, lock, sessionVars, counters>>
  BY DEF LoseHook, HookDue, TerminalJob
<1>2. /\ AllIdle /\ mission # "COMPLETED"
      /\ jobFor[j] \in Orders /\ stepJob[jobFor[j]] = j /\ step[jobFor[j]] = "QUEUED"
  BY <1>1, MovingIsAlone DEF Moving, Committed, TerminalJob
<1>3. Stuck'
  BY <1>1, <1>2 DEF Stuck, HookDue
<1>4. ShapeInv' /\ SessionInv' /\ AloneInv'
  BY <1>1, <1>2 DEF ShapeInv, SessionInv, AloneInv, AllIdle, Advancing
<1>5. JobsInv'
  BY <1>1, <1>2 DEF JobsInv, Moving, HookDue, Committed, AllIdle
<1>6. MissionInv'
  BY <1>1, <1>2, <1>3 DEF MissionInv
<1>7. QED
  BY <1>4, <1>5, <1>6

(* The sweep nudges a mission only when it is stuck.                       *)
LEMMA NudgeKeeps ==
  ASSUME IInv, Alone, NEW a \in Advancers, Nudge(a)
  PROVE  Alone'
<1> USE DEF IInv, TypeOK
<1>1. ASSUME NEW i \in Jobs PROVE ~Moving(i)
  BY DEF Alone, JobsInv, Moving, HookDue, Nudge, InFlight, Committed, TerminalJob
<1>2. Stuck /\ stalled
  BY <1>1 DEF Alone, MissionInv, NoneMoves, Nudge
<1>3. NoneMoves' /\ Stuck'
  BY <1>1, <1>2 DEF NoneMoves, Moving, HookDue, Nudge, jobVars, missionVars, Stuck
<1>4. OpenSession(a, NoView, NoJob) /\ mission' # "COMPLETED" /\ UNCHANGED <<missionVars, jobVars, stalled, lock, counters>>
  BY DEF Nudge, missionVars
<1>5. NoView \in [Orders -> StepStatus \cup {"ABSENT"}]
  BY DEF NoView
<1>6. QED
  BY <1>2, <1>3, <1>4, <1>5, OpenStep DEF jobVars, missionVars

(* Nobody else is there when the operator approves.                        *)
LEMMA ApproveKeeps ==
  ASSUME IInv, Alone, NEW a \in Advancers, Approve(a)
  PROVE  Alone'
<1> USE DEF IInv, TypeOK
<1>1. AllIdle /\ NoneMoves /\ ~stalled' /\ mission' # "COMPLETED"
  BY DEF Approve, StartInv, AllIdle, NoneMoves, Moving, HookDue, TerminalJob
<1>2. OpenSession(a, NoView, NoJob) /\ UNCHANGED <<step, stepJob, runnable, authorized, jobVars, lock, counters>>
  BY DEF Approve
<1>3. NoneMoves' /\ (Stuck => Stuck')
  BY <1>1, <1>2 DEF NoneMoves, Moving, HookDue, jobVars, Stuck
<1>4. NoView \in [Orders -> StepStatus \cup {"ABSENT"}]
  BY DEF NoView
<1>5. QED
  BY <1>1, <1>2, <1>3, <1>4, OpenStep DEF jobVars, AllIdle

(* Before its approval nobody advances a mission.                          *)
LEMMA AloneInit == Init => Alone /\ CompletedMeansDone
<1> SUFFICES ASSUME Init PROVE Alone /\ CompletedMeansDone
  OBVIOUS
<1> USE DEF Init
<1>1. ShapeInv
  BY DEF ShapeInv, NoView, Untouched
<1>2. JobsInv
  BY DEF JobsInv, Moving, HookDue, Committed, TerminalJob
<1>3. SessionInv /\ AloneInv /\ MissionInv
  BY DEF SessionInv, AloneInv, MissionInv, Advancing
<1>4. CompletedMeansDone
  BY DEF CompletedMeansDone
<1>5. QED
  BY <1>1, <1>2, <1>3, <1>4 DEF Alone

(* While nothing dies and hooks are prompt, every step keeps them alone,   *)
(* and queues a step in its turn only.                                     *)
LEMMA AloneStep ==
  ASSUME "slow" \notin Faults, IInv, Alone, crashes = 0, crashes' = 0, [Next]_vars
  PROVE  /\ Alone'
         /\ \A k \in Orders : step[k] # "QUEUED" /\ step'[k] = "QUEUED" =>
              \A i \in 0 .. k - 1 : step[i] = "SUCCESS"
<1> DEFINE InTurn == \A k \in Orders : step[k] # "QUEUED" /\ step'[k] = "QUEUED" =>
                       \A i \in 0 .. k - 1 : step[i] = "SUCCESS"
<1> SUFFICES Alone' /\ InTurn
  OBVIOUS
<1>1. CASE CreateMission
  <2> USE <1>1, BoundsAssumption DEF CreateMission, IInv, TypeOK, Alone, jobVars, sessionVars
  <2>1. AllIdle /\ NoneMoves /\ \A j \in Jobs : ~Committed(j)
    BY DEF StartInv, AllIdle, NoneMoves, Moving, HookDue, Committed, TerminalJob
  <2>2. ShapeInv' /\ InTurn
    BY DEF ShapeInv, Orders, Untouched
  <2>3. JobsInv'
    BY <2>1 DEF JobsInv, Moving, NoneMoves, HookDue, Committed
  <2>4. SessionInv' /\ AloneInv' /\ MissionInv'
    BY <2>1 DEF SessionInv, AloneInv, MissionInv, AllIdle, Advancing
  <2>5. QED
    BY <2>2, <2>3, <2>4
<1>2. CASE CancelMission
  BY <1>2 DEF CancelMission, Alone, jobVars, sessionVars, ShapeInv, JobsInv, SessionInv, AloneInv, MissionInv,
     Moving, NoneMoves, HookDue, Committed, AllIdle, Advancing, Reached, Stuck
<1>3. CASE SetAuthorization
  BY <1>3 DEF SetAuthorization, Alone, jobVars, sessionVars, ShapeInv, JobsInv, SessionInv, AloneInv, MissionInv,
     Moving, NoneMoves, HookDue, Committed, AllIdle, Advancing, Reached, Stuck
<1>4. CASE Stall
  BY <1>4 DEF Stall, Alone, missionVars, jobVars, sessionVars, ShapeInv, JobsInv, SessionInv, AloneInv, MissionInv,
     Moving, NoneMoves, HookDue, Committed, AllIdle, Advancing, Reached, Stuck
<1>5. ASSUME NEW a \in Advancers, Approve(a) PROVE Alone' /\ InTurn
  BY <1>5, ApproveKeeps DEF Approve
<1>6. ASSUME NEW a \in Advancers, Advance(a) PROVE Alone' /\ InTurn
  <2> TypeOK
    BY DEF IInv
  <2>1. CASE LockMission(a)
    BY <2>1, LockKeeps DEF LockMission, missionVars
  <2>2. CASE StillRunning(a)
    BY <2>2, NobodyWaits
  <2>3. CASE ResolveStep(a)
    BY <2>3, ResolveKeeps DEF ResolveStep, TypeOK, TerminalJob
  <2>4. CASE Stop(a)
    BY <2>4, StopKeeps DEF Stop
  <2>5. CASE SkipStep(a)
    BY <2>5, SkipKeeps DEF SkipStep, TypeOK
  <2>6. CASE EnqueueStep(a)
    BY <2>6, EnqueueKeeps DEF EnqueueStep, missionVars
  <2>7. CASE CommitStep(a)
    BY <2>7, CommitKeeps
  <2>8. QED
    BY <1>6, <2>1, <2>2, <2>3, <2>4, <2>5, <2>6, <2>7 DEF Advance
<1>7. ASSUME NEW a \in Advancers, CrashSession(a) PROVE FALSE
  BY <1>7 DEF CrashSession
<1>8. ASSUME NEW a \in Advancers, Nudge(a) PROVE Alone' /\ InTurn
  BY <1>8, NudgeKeeps DEF Nudge, missionVars
<1>9. ASSUME NEW j \in Jobs, EarlyPickup(j) PROVE Alone' /\ InTurn
  <2> USE <1>9 DEF EarlyPickup, IInv, TypeOK, Alone, missionVars, sessionVars
  <2>1. \A i \in Jobs : (Moving(i)' <=> Moving(i)) /\ (HookDue(i)' <=> HookDue(i))
    BY DEF Moving, HookDue, TerminalJob
  <2>2. JobsInv'
    BY <2>1 DEF JobsInv, Committed, AllIdle
  <2>3. Stuck' <=> Stuck
    <3>1. \A k \in Orders : step[k] = "QUEUED" => stepJob[k] \in Jobs
      BY NoJobAssumption DEF LinkInv, Executed
    <3>2. QED
      BY <2>1, <3>1 DEF Stuck
  <2>4. ShapeInv' /\ SessionInv' /\ AloneInv'
    BY <2>3 DEF ShapeInv, SessionInv, AloneInv, Advancing, Reached
  <2>5. MissionInv'
    BY <2>1, <2>3 DEF MissionInv, NoneMoves, AllIdle
  <2>6. QED
    BY <2>2, <2>4, <2>5
<1>10. ASSUME NEW j \in Jobs, ClaimJob(j) PROVE Alone' /\ InTurn
  BY <1>10, ClaimKeeps DEF ClaimJob, missionVars
<1>11. ASSUME NEW j \in Jobs, EndJob(j) PROVE Alone' /\ InTurn
  BY <1>11, EndJobKeeps DEF EndJob, missionVars
<1>12. ASSUME NEW j \in Jobs, LoseHook(j) PROVE Alone' /\ InTurn
  BY <1>12, LoseHookKeeps DEF LoseHook, missionVars
<1>13. ASSUME NEW j \in Jobs, CrashHorse(j) PROVE FALSE
  BY <1>13 DEF CrashHorse
<1>14. ASSUME NEW a \in Advancers, NEW j \in Jobs, StartHook(a, j) PROVE Alone' /\ InTurn
  BY <1>14, HookKeeps DEF StartHook, missionVars
<1>15. CASE UNCHANGED vars
  BY <1>15 DEF vars, Alone, missionVars, jobVars, sessionVars, ShapeInv, JobsInv, SessionInv, AloneInv, MissionInv,
     Moving, NoneMoves, HookDue, Committed, AllIdle, Advancing, Reached, Stuck
<1>16. QED
  BY <1>1, <1>2, <1>3, <1>4, <1>5, <1>6, <1>7, <1>8, <1>9, <1>10, <1>11, <1>12, <1>13, <1>14, <1>15
  DEF Next, Operator, JobStep

(* A session or a horse that has died is never forgotten.                  *)
LEMMA CrashesGrow == TypeOK /\ [Next]_vars /\ crashes' = 0 => crashes = 0
<1> SUFFICES ASSUME TypeOK, [Next]_vars PROVE crashes' = crashes \/ crashes' = crashes + 1
  BY BoundsAssumption DEF TypeOK
<1>1. CASE \/ \E a \in Advancers : CrashSession(a)
           \/ \E j \in Jobs : CrashHorse(j)
  BY <1>1 DEF CrashSession, CrashHorse
<1>2. CASE ~ \/ \E a \in Advancers : CrashSession(a)
             \/ \E j \in Jobs : CrashHorse(j)
  BY <1>2 DEF Next, Operator, Advance, JobStep, vars, counters, CreateMission, Approve,
     CancelMission, SetAuthorization, Stall, LockMission, StillRunning, ResolveStep, Stop, SkipStep,
     EnqueueStep, CommitStep, Nudge, EarlyPickup, ClaimJob, EndJob, LoseHook, StartHook
<1>3. QED
  BY <1>1, <1>2

(* A mission ends COMPLETED with every step done, and is never touched     *)
(* again.                                                                  *)
LEMMA CompletedStep ==
  ASSUME IInv, Alone, CompletedMeansDone, crashes = 0, crashes' = 0, [Next]_vars
  PROVE  CompletedMeansDone'
<1> SUFFICES ASSUME mission' = "COMPLETED", NEW k \in Orders PROVE step'[k] \in {"ABSENT", "SUCCESS"}
  BY DEF CompletedMeansDone
<1>1. CASE mission = "COMPLETED"
  <2>1. AllIdle /\ NoneMoves
    BY <1>1 DEF Alone, MissionInv
  <2>2. step' = step
    BY <1>1, <2>1 DEF AllIdle, NoneMoves, missionVars, Next, Operator, Advance, JobStep, vars, CreateMission,
       Approve, CancelMission, SetAuthorization, Stall, LockMission, StillRunning, ResolveStep, Stop, SkipStep,
       EnqueueStep, CommitStep, CrashSession, Nudge, EarlyPickup, ClaimJob, EndJob, LoseHook, CrashHorse, StartHook,
       MayContinue
  <2>3. QED
    BY <1>1, <2>2 DEF CompletedMeansDone
<1>2. CASE mission # "COMPLETED"
  <2>1. \E a \in Advancers : Stop(a)
    BY <1>2 DEF missionVars, Next, Operator, Advance, JobStep, vars, CreateMission,
       Approve, CancelMission, SetAuthorization, Stall, LockMission, StillRunning, ResolveStep, SkipStep, StopMission,
       EnqueueStep, CommitStep, CrashSession, Nudge, EarlyPickup, ClaimJob, EndJob, LoseHook, CrashHorse, StartHook
  <2>2. QED
    BY <2>1, StopKeeps
<1>3. QED
  BY <1>1, <1>2

(* The invariant of a mission nothing of which dies or lingers.            *)
THEOREM QuietInvariance == ASSUME "slow" \notin Faults PROVE Spec => []QInv
<1>1. Init => QInv
  BY IInit, AloneInit DEF QInv
<1>2. QInv /\ [Next]_vars => QInv'
  <2> SUFFICES ASSUME QInv, [Next]_vars PROVE QInv'
    OBVIOUS
  <2>1. IInv'
    BY TypeStep, StartStep, LockStep, HeldStep, LinkStep DEF IInv, QInv
  <2>2. CASE crashes' = 0
    <3>1. crashes = 0 /\ Alone
      BY <2>2, CrashesGrow DEF QInv, IInv
    <3>2. QED
      BY <2>1, <2>2, <3>1, AloneStep, CompletedStep DEF QInv
  <2>3. CASE crashes' # 0
    BY <2>1, <2>3 DEF QInv, CompletedMeansDone
  <2>4. QED
    BY <2>2, <2>3
<1>3. QED
  BY <1>1, <1>2, PTL DEF Spec

(* The commit halfway through an advance never lets two sessions run the   *)
(* same step (orchestrator.py:36-41), whatever late writers do to a job.   *)
THEOREM StepsHaveOneJob == ASSUME "slow" \notin Faults PROVE Spec => []OneJobPerStep
<1>1. QInv => OneJobPerStep
  BY DEF QInv, Alone, JobsInv, OneJobPerStep
<1>2. QED
  BY QuietInvariance, <1>1, PTL

(* COMPLETED is the word of a mission whose every step has succeeded.      *)
THEOREM CompletedIsDone == ASSUME "slow" \notin Faults PROVE Spec => []CompletedMeansDone
<1>1. QInv => CompletedMeansDone
  BY DEF QInv
<1>2. QED
  BY QuietInvariance, <1>1, PTL

(* No stale session queues a step out of its turn.                         *)
THEOREM StepsInTurn == ASSUME "slow" \notin Faults PROVE Spec => StepsRunInOrder
<1> DEFINE InTurn == \A k \in Orders : crashes = 0 /\ step[k] # "QUEUED" /\ step'[k] = "QUEUED" =>
                       \A i \in 0 .. k - 1 : step[i] = "SUCCESS"
<1>1. QInv /\ [Next]_vars => [InTurn]_vars
  <2> SUFFICES ASSUME QInv, [Next]_vars, crashes = 0, NEW k \in Orders, step[k] # "QUEUED", step'[k] = "QUEUED"
               PROVE  \A i \in 0 .. k - 1 : step[i] = "SUCCESS"
    OBVIOUS
  <2>1. CASE crashes' = 0
    BY <2>1, AloneStep DEF QInv
  <2>2. CASE crashes' # 0
    <3>1. \/ \E a \in Advancers : CrashSession(a)
          \/ \E j \in Jobs : CrashHorse(j)
      BY <2>2 DEF Next, Operator, Advance, JobStep, vars, counters, CreateMission, Approve,
         CancelMission, SetAuthorization, Stall, LockMission, StillRunning, ResolveStep, Stop, SkipStep,
         EnqueueStep, CommitStep, Nudge, EarlyPickup, ClaimJob, EndJob, LoseHook, StartHook
    <3>2. QED
      BY <3>1 DEF CrashSession, CrashHorse, missionVars
  <2>3. QED
    BY <2>1, <2>2
<1>2. QED
  BY QuietInvariance, <1>1, PTL DEF Spec, StepsRunInOrder
=============================================================================
