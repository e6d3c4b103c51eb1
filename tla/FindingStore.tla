---------------------------- MODULE FindingStore ----------------------------
(***************************************************************************)
(* The findings of one asset (app/findings/service.py and lifecycle.py):   *)
(* upsert_finding() as the transactions of several jobs run it at once, a  *)
(* human's PATCH of the status, and PostgreSQL under READ COMMITTED: row   *)
(* locks kept to the end of a transaction, a unique index on signature,    *)
(* and the abort of one transaction in a cycle of waits.                   *)
(***************************************************************************)
EXTENDS Naturals, Sequences, FiniteSets

CONSTANTS
  Signatures,      \* finding_signature() values
  Jobs,            \* jobs that observe the asset
  Requests,        \* bound: PATCH requests
  MaxObservations, \* bound: the observations of one job
  Times,           \* bound: the values of jobs.finished_at
  OldStatuses,     \* bound: the statuses findings of earlier jobs are in
  NoOne

ASSUME NoOneAssumption == NoOne \notin Jobs
ASSUME BoundsAssumption == MaxObservations \in Nat /\ Times \subseteq Nat

VARIABLES
  script,  \* the signatures extract_findings() gives for the job, in order
  time,    \* jobs.finished_at, the observed_at of all its observations
  row,     \* the committed findings rows, count 0 if there is none
  holder,  \* the job with the lock on the row, or its uncommitted insert
  pc,      \* progress of a job's transaction
  at,      \* the observation the transaction is at
  draft,   \* the rows as the transaction has written them
  tries,   \* attempts at the current upsert that ended in IntegrityError
  request  \* progress of a PATCH

jobVars == <<pc, at, draft, tries>>
vars == <<script, time, row, holder, jobVars, request>>

Ledger == INSTANCE FindingLedger WITH
  script <- script, time <- time, row <- row, recorded <- {j \in Jobs : pc[j] = "committed"}

ASSUME OldStatusesAssumption == OldStatuses \subseteq Ledger!Reviewed \cup {"NEW"}

Statuses == Ledger!Reviewed \cup {"NEW"}
NoRow == Ledger!NoRow
NoRequest == [on |-> NoOne, to |-> "NEW", sent |-> FALSE]
MaxAttempts == 5

VALID_TRANSITIONS ==
  [NEW |-> {"CONFIRMED"}, CONFIRMED |-> {"IN_REVIEW"},
   IN_REVIEW |-> {"ACCEPTED_RISK", "FALSE_POSITIVE", "REMEDIATED"},
   ACCEPTED_RISK |-> {"REOPENED"}, FALSE_POSITIVE |-> {"REOPENED"}, REMEDIATED |-> {"REOPENED"},
   REOPENED |-> {"CONFIRMED", "IN_REVIEW"}]

AUTO_REOPEN_FROM == {"REMEDIATED", "FALSE_POSITIVE"}

Rows == [status : Statuses, count : Nat, first : Nat, last : Nat, jobs : SUBSET Jobs]

TypeOK ==
  /\ script \in [Jobs -> Seq(Signatures)]
  /\ time \in {t \in [Jobs -> Times] : \A i, j \in Jobs : i # j => t[i] # t[j]}
  /\ row \in [Signatures -> Rows]
  /\ holder \in [Signatures -> Jobs \cup {NoOne}]
  /\ pc \in [Jobs -> {"idle", "select", "insert", "committed", "aborted"}]
  /\ at \in [Jobs -> Nat]
  /\ draft \in [Jobs -> [Signatures -> Rows]]
  /\ tries \in [Jobs -> Nat]
  /\ request \in [Requests -> [on : Signatures \cup {NoOne}, to : Statuses, sent : BOOLEAN]]

Init ==
  /\ script \in [Jobs -> UNION {[1 .. n -> Signatures] : n \in 1 .. MaxObservations}]
  /\ time \in {t \in [Jobs -> Times] : \A i, j \in Jobs : i # j => t[i] # t[j]}
  /\ row \in [Signatures -> {NoRow} \cup {Ledger!OldRow(status) : status \in OldStatuses}]
  /\ holder = [s \in Signatures |-> NoOne]
  /\ pc = [j \in Jobs |-> "idle"]
  /\ at = [j \in Jobs |-> 1]
  /\ draft = [j \in Jobs |-> [s \in Signatures |-> NoRow]]
  /\ tries = [j \in Jobs |-> 0]
  /\ request = [r \in Requests |-> NoRequest]

\* The first read of the job's transaction comes before its tool runs.
Begin(j) ==
  /\ pc[j] = "idle"
  /\ pc' = [pc EXCEPT ![j] = "select"]
  /\ UNCHANGED <<script, time, row, holder, at, draft, tries, request>>

-----------------------------------------------------------------------------
(* upsert_finding() of the observation a job is at.                        *)

Observing(j) == at[j] \in DOMAIN script[j]
Current(j) == script[j][at[j]]

\* _build_finding()
NewFinding(j) == [status |-> "NEW", count |-> 1, first |-> time[j], last |-> time[j], jobs |-> {j}]

\* Deviation: the last job to commit is taken for the last to have looked.
MergedInOrder(r, j) ==
  [status |-> IF r.status \in AUTO_REOPEN_FROM THEN "REOPENED" ELSE r.status,
   count |-> r.count + 1, first |-> r.first, last |-> time[j], jobs |-> r.jobs \cup {j}]

\* _merge_observation(), with maybe_auto_reopen().  One signature stands for
\* one set of CVEs, so their union never changes here.
Merged(r, j) ==
  [status |-> IF r.status \in AUTO_REOPEN_FROM THEN "REOPENED" ELSE r.status,
   count |-> r.count + 1,
   first |-> IF time[j] < r.first THEN time[j] ELSE r.first,
   last |-> IF time[j] > r.last THEN time[j] ELSE r.last,
   jobs |-> r.jobs \cup {j}]

\* The transaction writes a row it holds, and goes on to the next observation.
Write(j, s, r) ==
  /\ draft' = [draft EXCEPT ![j][s] = r]
  /\ holder' = [holder EXCEPT ![s] = j]
  /\ at' = [at EXCEPT ![j] = @ + 1]
  /\ tries' = [tries EXCEPT ![j] = 0]
  /\ pc' = [pc EXCEPT ![j] = "select"]

\* What SELECT ... FOR UPDATE finds: the transaction's own version, or the
\* committed one; another's uncommitted insert is invisible.
Found(j, s) == IF holder[s] = j THEN draft[j][s] ELSE row[s]

\* The SELECT waits for the row's holder, and the row it finds is merged into.
SelectForUpdate(j) ==
  /\ pc[j] = "select" /\ Observing(j)
  /\ LET s == Current(j) IN
       IF Found(j, s).count > 0
         THEN holder[s] \in {NoOne, j} /\ Write(j, s, Merged(Found(j, s), j))
         ELSE /\ pc' = [pc EXCEPT ![j] = "insert"]
              /\ UNCHANGED <<draft, holder, at, tries>>
  /\ UNCHANGED <<script, time, row, request>>

\* Deviation: the lost race is taken for an observation already stored.
InsertOrForget(j) ==
  /\ pc[j] = "insert"
  /\ LET s == Current(j) IN
       /\ holder[s] = NoOne
       /\ Write(j, s, IF row[s].count = 0 THEN NewFinding(j) ELSE row[s])
  /\ UNCHANGED <<script, time, row, request>>

\* Deviation: the retry looks at the snapshot of the first SELECT.
InsertAgain(j) ==
  /\ pc[j] = "insert"
  /\ LET s == Current(j) IN
       /\ holder[s] = NoOne
       /\ IF row[s].count = 0 THEN Write(j, s, NewFinding(j))
            ELSE /\ tries[j] < MaxAttempts
                 /\ tries' = [tries EXCEPT ![j] = @ + 1]
                 /\ UNCHANGED <<pc, at, draft, holder>>
  /\ UNCHANGED <<script, time, row, request>>

\* The INSERT in its SAVEPOINT waits for another's uncommitted one, and fails
\* on the unique index if that was committed.
Insert(j) ==
  /\ pc[j] = "insert"
  /\ LET s == Current(j) IN
       /\ holder[s] = NoOne
       /\ IF row[s].count = 0 THEN Write(j, s, NewFinding(j))
            ELSE /\ tries' = [tries EXCEPT ![j] = @ + 1]
                 /\ pc' = [pc EXCEPT ![j] = "select"]
                 /\ UNCHANGED <<at, draft, holder>>
  /\ UNCHANGED <<script, time, row, request>>

Held(j) == {s \in Signatures : holder[s] = j}
Release(j) == holder' = [s \in Signatures |-> IF holder[s] = j THEN NoOne ELSE holder[s]]

\* The commit of the job, with what it observed and reopened.
Commit(j) ==
  /\ pc[j] = "select" /\ ~Observing(j)
  /\ row' = [s \in Signatures |-> IF s \in Held(j) THEN draft[j][s] ELSE row[s]]
  /\ Release(j)
  /\ pc' = [pc EXCEPT ![j] = "committed"]
  /\ UNCHANGED <<script, time, at, draft, tries, request>>

\* The transaction is rolled back.
Abort(j) ==
  /\ Release(j)
  /\ pc' = [pc EXCEPT ![j] = "aborted"]
  /\ UNCHANGED <<script, time, row, at, draft, tries, request>>

\* Something after the upserts raises (a relation another job has just
\* created, say), the last attempt has failed, or the worker dies.
Fail(j) == pc[j] \in {"select", "insert"} /\ Abort(j)

Blocked(j) ==
  /\ holder[Current(j)] \notin {NoOne, j}
  /\ \/ pc[j] = "select" /\ Observing(j) /\ row[Current(j)].count > 0
     \/ pc[j] = "insert"

\* PostgreSQL's deadlock detector aborts one transaction of a cycle of waits.
BreakDeadlock(j) ==
  /\ \E S \in SUBSET Jobs :
       /\ j \in S
       /\ \A i \in S : pc[i] \in {"select", "insert"} /\ Observing(i) /\ Blocked(i)
       /\ {holder[Current(i)] : i \in S} = S
  /\ Abort(j)

-----------------------------------------------------------------------------
(* PATCH /api/findings/{id}/status: update_finding_status().               *)

\* The finding is read without a lock, and the transition checked on it.
ReadFinding(r) ==
  /\ request[r] = NoRequest
  /\ \E s \in Signatures :
       /\ row[s].count > 0
       /\ \E to \in VALID_TRANSITIONS[row[s].status] :
            request' = [request EXCEPT ![r] = [on |-> s, to |-> to, sent |-> TRUE]]
  /\ UNCHANGED <<script, time, row, holder, jobVars>>

\* Deviation: the write does not wait for the lock of a job.
WriteUnlocked(r) ==
  /\ request[r].sent /\ request[r].on # NoOne
  /\ row' = [row EXCEPT ![request[r].on].status = request[r].to]
  /\ request' = [request EXCEPT ![r].on = NoOne]
  /\ UNCHANGED <<script, time, holder, jobVars>>

\* The UPDATE of the status, and of nothing else, waits for the row's lock.
WriteStatus(r) ==
  /\ request[r].sent /\ request[r].on # NoOne
  /\ holder[request[r].on] = NoOne
  /\ row' = [row EXCEPT ![request[r].on].status = request[r].to]
  /\ request' = [request EXCEPT ![r].on = NoOne]
  /\ UNCHANGED <<script, time, holder, jobVars>>

-----------------------------------------------------------------------------

Upsert(j) == SelectForUpdate(j) \/ Insert(j) \/ Commit(j) \/ BreakDeadlock(j)
Patch(r) == ReadFinding(r) \/ WriteStatus(r)

Next == (\E j \in Jobs : Begin(j) \/ Upsert(j) \/ Fail(j)) \/ (\E r \in Requests : Patch(r))

Spec == Init /\ [][Next]_vars

(* A transaction that has begun goes on, and the database breaks the       *)
(* cycles of waits it finds.                                               *)
Fairness == (\A j \in Jobs : WF_vars(Upsert(j))) /\ (\A r \in Requests : WF_vars(WriteStatus(r)))

FairSpec == Spec /\ Fairness

(***************************************************************************)
(* Properties.                                                             *)
(***************************************************************************)

(* Overlapping transactions, lost insert races, deadlocks and human        *)
(* decisions between them leave what the jobs recorded one after the other *)
(* would: "never creates a duplicate", nothing counted twice or lost       *)
(* (service.py:34-38).                                                     *)
KeepsLedger == Ledger!Spec

(* "first_seen is the earliest known observation, last_seen the latest --  *)
(* neither ever moves in the wrong direction, regardless of the order jobs *)
(* happen to finish in" (service.py:130-136).                              *)
SeenSpansObservations ==
  \A s \in Signatures : \A j \in row[s].jobs :
    row[s].first <= time[j] /\ time[j] <= row[s].last

(* A re-observation reopens what was remediated or a false positive when   *)
(* it is committed, and "must not silently override" any other decision,   *)
(* even one taken after the job had begun (lifecycle.py:38-42).            *)
RescanRespectsDecision ==
  [][\A s \in Signatures :
       row'[s].count > row[s].count /\ row[s].count > 0 =>
         row'[s].status =
           IF row[s].status \in AUTO_REOPEN_FROM THEN "REOPENED" ELSE row[s].status]_vars

(* Two jobs that observe the same findings in different orders wait for    *)
(* each other only until the database aborts one of them.                  *)
EveryTransactionEnds ==
  \A j \in Jobs : pc[j] \in {"select", "insert"} ~> pc[j] \in {"committed", "aborted"}
=============================================================================
