------------------------ MODULE ScheduleTickerProofs ------------------------
(***************************************************************************)
(* What is proved about ScheduleTicker for every set of schedules, number  *)
(* of tickers, threshold and number of mishaps.  The claim moves           *)
(* next_run_at in the transaction that reads it, so a schedule that is due *)
(* while a tick holds it has fallen due since that claim: this is what     *)
(* keeps two ticks from working on one turn of a schedule.                 *)
(***************************************************************************)
EXTENDS ScheduleTicker, TLAPS

\* A tick works on a schedule exactly between Process and the commit, and has
\* taken it off its batch.
WorkInv ==
  \A t \in Tickers :
    /\ phase[t] = "idle" <=> current[t] = NoSchedule
    /\ current[t] \notin batch[t]

\* A held schedule that is due has fallen due since the claim.
ReservedInv ==
  \A t \in Tickers, s \in Schedules : Holds(t, s) /\ due[s] => s \in again[t]

IInv == TypeOK /\ WorkInv /\ ReservedInv /\ OneClaimPerTurn

-----------------------------------------------------------------------------

(* A row can be read into a session's memory.                              *)
LEMMA RowType == TypeOK => \A s \in Schedules : Row(s) \in Views
BY DEF TypeOK, Row, Views

(* What process_schedule() sees of a schedule is well typed.               *)
LEMMA SeenType ==
  TypeOK => \A t \in Tickers, s \in Schedules : Seen(t, s) \in Views
BY RowType DEF TypeOK, Seen

(* A schedule that falls due keeps the reservations well typed.            *)
LEMMA FallDueType ==
  ASSUME TypeOK, NEW s \in Schedules, FallDue(s)
  PROVE  due' \in [Schedules -> BOOLEAN] /\ again' \in [Tickers -> SUBSET Schedules]
BY DEF TypeOK, FallDue

(* The initial state is well typed.                                        *)
LEMMA TypeInit == Init => TypeOK
<1>1. NoView \in Views /\ 0 \in Counts /\ 0 \in 0 .. MaxMishaps
  BY MaxFailuresAssumption, MaxMishapsAssumption DEF NoView, Views, RowStatus, Counts
<1> QED
  BY <1>1 DEF Init, TypeOK, RowStatus, AssetStates

(* Time and the API preserve the types.                                    *)
LEMMA TypeRequest ==
  ASSUME TypeOK, NEW s \in Schedules, Request(s)
  PROVE  TypeOK'
<1> USE DEF TypeOK, rowVars, requestVars, tickVars
<1>0. 0 \in Counts
  BY MaxFailuresAssumption DEF Counts
<1>1. CASE Elapse(s)
  BY <1>1, FallDueType DEF Elapse
<1>2. CASE Refit(s)
  <2>1. asset' \in [Schedules -> AssetStates]
    BY <1>2 DEF Refit, AssetStates
  <2> QED
    BY <1>2, <2>1 DEF Refit
<1>3. CASE CreateSchedule(s)
  <2>1. status' \in [Schedules -> RowStatus]
    BY <1>3 DEF CreateSchedule, RowStatus, ScheduleStatus
  <2> QED
    BY <1>3, <2>1, FallDueType DEF CreateSchedule
<1>4. CASE DeleteSchedule(s)
  <2>1. status' \in [Schedules -> RowStatus]
    BY <1>4 DEF DeleteSchedule, RowStatus, ScheduleStatus
  <2> QED
    BY <1>0, <1>4, <2>1 DEF DeleteSchedule
<1>5. CASE PatchRead(s)
  <2>1. editor' \in [Schedules -> Edits \cup {NoEdit}]
    BY <1>5 DEF PatchRead, Edits
  <2> QED
    BY <1>5, <2>1 DEF PatchRead
<1>6. CASE PatchWrite(s)
  <2>1. editor[s] \in Edits
    BY <1>6 DEF PatchWrite
  <2>2. status' \in [Schedules -> RowStatus] /\ failures' \in [Schedules -> Counts]
    BY <1>0, <1>6, <2>1 DEF PatchWrite, Edits, RowStatus
  <2>3. due' \in [Schedules -> BOOLEAN] /\ again' \in [Tickers -> SUBSET Schedules]
    BY <1>6, FallDueType DEF PatchWrite
  <2> QED
    BY <1>6, <2>2, <2>3 DEF PatchWrite
<1>7. CASE RunNow(s)
  <2>1. (failures[s] > 0) \in BOOLEAN
    OBVIOUS
  <2> QED
    BY <1>7, <2>1 DEF RunNow
<1>8. CASE FinishRunNow(s)
  BY <1>0, <1>8 DEF FinishRunNow
<1>9. CASE ReadSchedules(s)
  BY <1>9 DEF ReadSchedules
<1>10. CASE DeleteAsset(s)
  <2>0. "DISABLED" \in RowStatus /\ "deleted" \in AssetStates
    BY DEF RowStatus, ScheduleStatus, AssetStates
  <2>1. status' \in [Schedules -> RowStatus]
    <3>1. status' = status \/ status' = [status EXCEPT ![s] = "DISABLED"]
      BY <1>10 DEF DeleteAsset
    <3> QED
      BY <2>0, <3>1
  <2>2. asset' \in [Schedules -> AssetStates]
    <3>1. asset' = asset \/ asset' = [asset EXCEPT ![s] = "deleted"]
      BY <1>10 DEF DeleteAsset
    <3> QED
      BY <2>0, <3>1
  <2> QED
    BY <1>10, <2>1, <2>2 DEF DeleteAsset
<1> QED
  BY <1>1, <1>2, <1>3, <1>4, <1>5, <1>6, <1>7, <1>8, <1>9, <1>10 DEF Request

(* The end of a schedule's processing leaves the tick well typed.          *)
LEMMA DoneType ==
  ASSUME TypeOK, NEW t \in Tickers, NEW b \in BOOLEAN, Done(t, b)
  PROVE  /\ current' \in [Tickers -> Schedules \cup {NoSchedule}]
         /\ phase' \in [Tickers -> {"idle", "failing", "disabling", "enqueued"}]
         /\ view' \in [Tickers -> [Schedules -> Views]]
         /\ again' \in [Tickers -> SUBSET Schedules]
         /\ expired' \in [Tickers -> BOOLEAN]
<1>1. NoView \in Views
  BY MaxFailuresAssumption DEF NoView, Views, RowStatus, Counts
<1> QED
  BY <1>1 DEF TypeOK, Done

(* Giving the batch up leaves the tick well typed.                         *)
LEMMA AbandonType ==
  ASSUME TypeOK, NEW t \in Tickers, Abandon(t)
  PROVE  /\ batch' \in [Tickers -> SUBSET Schedules]
         /\ current' \in [Tickers -> Schedules \cup {NoSchedule}]
         /\ phase' \in [Tickers -> {"idle", "failing", "disabling", "enqueued"}]
         /\ view' \in [Tickers -> [Schedules -> Views]]
         /\ again' \in [Tickers -> SUBSET Schedules]
         /\ expired' \in [Tickers -> BOOLEAN]
<1>1. NoView \in Views
  BY MaxFailuresAssumption DEF NoView, Views, RowStatus, Counts
<1> QED
  BY <1>1 DEF TypeOK, Abandon

(* A tick preserves the types: in particular a failure count read from     *)
(* memory never passes the threshold.                                      *)
LEMMA TypeTick ==
  ASSUME TypeOK, WorkInv, NEW t \in Tickers, Tick(t) \/ Crash(t)
  PROVE  TypeOK'
<1> USE DEF TypeOK, rowVars, requestVars
<1>0. /\ 0 \in Counts /\ MaxFailures \in Counts
      /\ mishaps < MaxMishaps => mishaps + 1 \in 0 .. MaxMishaps
  BY MaxFailuresAssumption, MaxMishapsAssumption DEF Counts
<1>00. phase[t] # "idle" => current[t] \in Schedules
  BY DEF WorkInv
<1>1. CASE Claim(t)
  <2>1. NoView \in Views /\ Due \subseteq Schedules
    BY <1>0 DEF NoView, Views, RowStatus, Due
  <2>2. [s \in Schedules |-> IF s \in Due THEN Row(s) ELSE NoView] \in [Schedules -> Views]
    BY <2>1, RowType
  <2>3. view' \in [Tickers -> [Schedules -> Views]]
    BY <1>1, <2>2 DEF Claim
  <2>4. due' \in [Schedules -> BOOLEAN]
    BY <1>1 DEF Claim
  <2> QED
    BY <1>1, <2>1, <2>3, <2>4 DEF Claim
<1>2. CASE Process(t)
  <2>1. PICK s \in batch[t] :
          /\ batch' = [batch EXCEPT ![t] = @ \ {s}]
          /\ current' = [current EXCEPT ![t] = s]
          /\ phase' = [phase EXCEPT ![t] = Outcome(t, s)]
          /\ view' = [view EXCEPT ![t][s] = Seen(t, s)]
    BY <1>2 DEF Process
  <2>2. s \in Schedules
    OBVIOUS
  <2>3. Outcome(t, s) \in {"failing", "disabling", "enqueued"}
    <3>1. asset[s] \in AssetStates
      BY <2>2
    <3> QED
      BY <3>1 DEF Outcome, AssetStates
  <2>4. view' \in [Tickers -> [Schedules -> Views]]
    BY <2>1, <2>2, SeenType
  <2> QED
    BY <1>2, <2>1, <2>2, <2>3, <2>4 DEF Process
<1>3. CASE CommitRun(t)
  BY <1>0, <1>00, <1>3, DoneType DEF CommitRun
<1>4. CASE CommitFailure(t)
  <2> DEFINE seen == view[t][current[t]].failures
  <2>1. current[t] \in Schedules
    BY <1>00, <1>4 DEF CommitFailure
  <2>2. seen \in Counts
    BY <2>1 DEF Views
  <2>3. seen + 1 < MaxFailures => seen + 1 \in Counts
    BY <2>2, MaxFailuresAssumption DEF Counts
  <2>4. failures' \in [Schedules -> Counts]
    BY <1>0, <1>4, <2>1, <2>3 DEF CommitFailure
  <2>5. status' \in [Schedules -> RowStatus]
    BY <1>4, <2>1 DEF CommitFailure, WriteStatus, RowStatus, ScheduleStatus
  <2> QED
    BY <1>4, <2>4, <2>5, DoneType DEF CommitFailure
<1>5. CASE CommitDisabled(t)
  <2>1. status' \in [Schedules -> RowStatus]
    BY <1>00, <1>5 DEF CommitDisabled, WriteStatus, RowStatus, ScheduleStatus
  <2> QED
    BY <1>5, <2>1, DoneType DEF CommitDisabled
<1>6. CASE RollBack(t)
  BY <1>0, <1>6, DoneType DEF RollBack
<1>7. CASE TickDies(t)
  BY <1>7, AbandonType DEF TickDies
<1>8. CASE Crash(t)
  BY <1>0, <1>8, AbandonType DEF Crash
<1> QED
  BY <1>1, <1>2, <1>3, <1>4, <1>5, <1>6, <1>7, <1>8 DEF Tick

-----------------------------------------------------------------------------

(* At the start nobody holds anything.                                     *)
LEMMA ClaimInit == Init => WorkInv /\ ReservedInv /\ OneClaimPerTurn
BY NoScheduleAssumption DEF Init, WorkInv, ReservedInv, OneClaimPerTurn, Holds

(* A schedule that falls due is noted by every tick that holds it.         *)
LEMMA ClaimFallDue ==
  ASSUME TypeOK, ReservedInv, OneClaimPerTurn, NEW s \in Schedules,
         FallDue(s), UNCHANGED <<batch, current>>
  PROVE  ReservedInv' /\ OneClaimPerTurn'
<1>1. \A t \in Tickers : again[t] \subseteq again'[t] /\ (Holds(t, s) => s \in again'[t])
  BY DEF TypeOK, FallDue
<1>2. \A r \in Schedules : due'[r] => r = s \/ due[r]
  BY DEF TypeOK, FallDue
<1>3. \A t \in Tickers, r \in Schedules : Holds(t, r)' = Holds(t, r)
  BY DEF Holds
<1> QED
  BY <1>1, <1>2, <1>3 DEF ReservedInv, OneClaimPerTurn

(* Whoever changes neither the claims nor the clock, or moves it only      *)
(* forward, changes nothing here.                                          *)
LEMMA ClaimQuiet ==
  ASSUME ReservedInv, OneClaimPerTurn, UNCHANGED <<batch, current, again>>,
         \A r \in Schedules : due'[r] => due[r]
  PROVE  ReservedInv' /\ OneClaimPerTurn'
BY DEF ReservedInv, OneClaimPerTurn, Holds

(* Time and the API preserve the claims.                                   *)
LEMMA ClaimRequest ==
  ASSUME TypeOK, WorkInv, ReservedInv, OneClaimPerTurn, NEW s \in Schedules, Request(s)
  PROVE  WorkInv' /\ ReservedInv' /\ OneClaimPerTurn'
<1>1. UNCHANGED tickVars
  BY DEF Request, Elapse, Refit, CreateSchedule, DeleteSchedule, PatchRead, PatchWrite,
         RunNow, FinishRunNow, ReadSchedules, DeleteAsset
<1>2. WorkInv'
  BY <1>1 DEF WorkInv, tickVars
<1>3. FallDue(s) \/ (UNCHANGED again /\ \A r \in Schedules : due'[r] => due[r])
  BY DEF TypeOK, Request, Elapse, Refit, CreateSchedule, DeleteSchedule, PatchRead, PatchWrite,
         RunNow, FinishRunNow, ReadSchedules, DeleteAsset, rowVars
<1> QED
  BY <1>1, <1>2, <1>3, ClaimFallDue, ClaimQuiet DEF tickVars

(* Who takes what it holds off its claim, and forgets its notes about      *)
(* nothing else, preserves the claims.                                     *)
LEMMA ClaimRelease ==
  ASSUME TypeOK, ReservedInv, OneClaimPerTurn, UNCHANGED due, NEW t \in Tickers,
         \A u \in Tickers, r \in Schedules :
           Holds(u, r)' => Holds(u, r) /\ (r \in again[u] => r \in again'[u])
  PROVE  ReservedInv' /\ OneClaimPerTurn'
BY DEF ReservedInv, OneClaimPerTurn

(* A tick preserves the claims.                                            *)
LEMMA ClaimTick ==
  ASSUME TypeOK, WorkInv, ReservedInv, OneClaimPerTurn, NEW t \in Tickers, Tick(t) \/ Crash(t)
  PROVE  WorkInv' /\ ReservedInv' /\ OneClaimPerTurn'
<1>1. CASE Claim(t)
  <2>1. current[t] = NoSchedule /\ batch[t] = {}
    BY <1>1 DEF Claim, Idle, WorkInv
  <2>2. WorkInv'
    BY <1>1, <2>1, NoScheduleAssumption DEF Claim, WorkInv, TypeOK, Due
  <2>3. \A u \in Tickers, r \in Schedules :
          /\ Holds(u, r)' <=> (u = t /\ r \in Due) \/ (u # t /\ Holds(u, r))
          /\ u # t => again'[u] = again[u]
    BY <1>1, <2>1, NoScheduleAssumption DEF Claim, TypeOK, Holds
  <2>4. \A r \in Schedules : /\ due'[r] <=> due[r] /\ r \notin Due
                             /\ r \in Due => due[r]
    BY <1>1 DEF Claim, Due, TypeOK
  <2>5. ReservedInv'
    BY <2>3, <2>4 DEF ReservedInv
  <2>6. OneClaimPerTurn'
    BY <2>3, <2>4 DEF ReservedInv, OneClaimPerTurn
  <2> QED
    BY <2>2, <2>5, <2>6
<1>2. CASE Process(t)
  <2>1. PICK s \in batch[t] :
          /\ batch' = [batch EXCEPT ![t] = @ \ {s}]
          /\ current' = [current EXCEPT ![t] = s]
          /\ phase' = [phase EXCEPT ![t] = Outcome(t, s)]
    BY <1>2 DEF Process
  <2>2. s \in Schedules
    BY DEF TypeOK
  <2>3. Outcome(t, s) # "idle"
    <3>1. asset[s] \in AssetStates
      BY <2>2 DEF TypeOK
    <3> QED
      BY <3>1 DEF Outcome, AssetStates
  <2>4. WorkInv'
    BY <2>1, <2>2, <2>3, NoScheduleAssumption DEF WorkInv, TypeOK
  <2>5. UNCHANGED <<due, again>>
    BY <1>2 DEF Process, rowVars
  <2>6. \A u \in Tickers, r \in Schedules : Holds(u, r)' => Holds(u, r)
    BY <2>1, <2>2 DEF Holds, TypeOK
  <2> QED
    BY <2>4, <2>5, <2>6, ClaimRelease
<1>3. CASE CommitRun(t) \/ CommitFailure(t) \/ CommitDisabled(t) \/ RollBack(t)
  <2>1. /\ UNCHANGED <<due, batch>>
        /\ current' = [current EXCEPT ![t] = NoSchedule]
        /\ phase' = [phase EXCEPT ![t] = "idle"]
        /\ again' = [again EXCEPT ![t] = @ \ {current[t]}]
    BY <1>3 DEF CommitRun, CommitFailure, CommitDisabled, RollBack, Done, rowVars
  <2>2. WorkInv'
    BY <2>1, NoScheduleAssumption DEF WorkInv, TypeOK
  <2>3. \A u \in Tickers, r \in Schedules :
          Holds(u, r)' => Holds(u, r) /\ (r \in again[u] => r \in again'[u])
    BY <2>1, NoScheduleAssumption DEF Holds, TypeOK, WorkInv
  <2> QED
    BY <2>1, <2>2, <2>3, ClaimRelease
<1>4. CASE TickDies(t) \/ Crash(t)
  <2>1. /\ UNCHANGED due
        /\ batch' = [batch EXCEPT ![t] = {}]
        /\ current' = [current EXCEPT ![t] = NoSchedule]
        /\ phase' = [phase EXCEPT ![t] = "idle"]
        /\ again' = [again EXCEPT ![t] = {}]
    BY <1>4 DEF TickDies, Crash, Abandon, rowVars
  <2>2. WorkInv'
    BY <2>1 DEF WorkInv, TypeOK
  <2>3. \A u \in Tickers, r \in Schedules :
          Holds(u, r)' => Holds(u, r) /\ (r \in again[u] => r \in again'[u])
    BY <2>1, NoScheduleAssumption DEF Holds, TypeOK
  <2> QED
    BY <2>1, <2>2, <2>3, ClaimRelease
<1> QED
  BY <1>1, <1>2, <1>3, <1>4 DEF Tick

-----------------------------------------------------------------------------

(* A stuttering step changes nothing.                                      *)
LEMMA Stutter == IInv /\ UNCHANGED vars => IInv'
BY DEF IInv, TypeOK, WorkInv, ReservedInv, OneClaimPerTurn, Holds,
       vars, rowVars, requestVars, tickVars

(* The invariant is inductive.                                             *)
THEOREM Inductive == Spec => []IInv
<1>1. Init => IInv
  BY TypeInit, ClaimInit DEF IInv
<1>2. IInv /\ [Next]_vars => IInv'
  <2> SUFFICES ASSUME IInv, [Next]_vars PROVE IInv'
    OBVIOUS
  <2>1. CASE \E s \in Schedules : Request(s)
    BY <2>1, TypeRequest, ClaimRequest DEF IInv
  <2>2. CASE \E t \in Tickers : Tick(t) \/ Crash(t)
    BY <2>2, TypeTick, ClaimTick DEF IInv
  <2>3. CASE UNCHANGED vars
    BY <2>3, Stutter
  <2> QED
    BY <2>1, <2>2, <2>3 DEF Next
<1> QED
  BY <1>1, <1>2, PTL DEF Spec

(* Every state of the tickers and the requests is well typed.              *)
THEOREM TypeCorrect == Spec => []TypeOK
BY Inductive, PTL DEF IInv

(* Two ticks hold one schedule only for two turns of it.                   *)
THEOREM OneTickPerTurn == Spec => []OneClaimPerTurn
BY Inductive, PTL DEF IInv
=============================================================================
