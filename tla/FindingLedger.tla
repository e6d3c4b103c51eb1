--------------------------- MODULE FindingLedger ---------------------------
(***************************************************************************)
(* What the findings store promises (findings/service.py:34-38): one row   *)
(* per signature, to which the observations of each job are added all at   *)
(* once or not at all, one job after the other, however the transactions   *)
(* of the workers overlap.  A re-observation reopens a finding that was    *)
(* held for remediated or false, and respects every other decision.        *)
(***************************************************************************)
EXTENDS Naturals, FiniteSets

CONSTANTS Signatures, Jobs

VARIABLES
  script,   \* the signatures a job's result shows, in the parser's order
  time,     \* jobs.finished_at
  row,      \* the findings row of each signature, count 0 if there is none
  recorded  \* the jobs whose observations are committed

vars == <<script, time, row, recorded>>

Reviewed == {"CONFIRMED", "IN_REVIEW", "ACCEPTED_RISK", "FALSE_POSITIVE", "REMEDIATED", "REOPENED"}
Reopenable == {"REMEDIATED", "FALSE_POSITIVE"}

NoRow == [status |-> "NEW", count |-> 0, first |-> 0, last |-> 0, jobs |-> {}]

\* A row that earlier jobs have left.
OldRow(status) == [status |-> status, count |-> 1, first |-> 1, last |-> 1, jobs |-> {}]

InitRows == [Signatures -> {NoRow} \cup {OldRow(status) : status \in Reviewed \cup {"NEW"}}]

Init == row \in InitRows /\ recorded = {}

Sightings(j, s) == {i \in DOMAIN script[j] : script[j][i] = s}

Widened(r, t) ==
  IF r.count = 0 THEN [first |-> t, last |-> t]
  ELSE [first |-> IF t < r.first THEN t ELSE r.first,
        last |-> IF t > r.last THEN t ELSE r.last]

Recorded(r, j, n) ==
  [status |-> IF r.status \in Reopenable THEN "REOPENED" ELSE r.status,
   count |-> r.count + n,
   first |-> Widened(r, time[j]).first,
   last |-> Widened(r, time[j]).last,
   jobs |-> r.jobs \cup {j}]

\* All of a job's observations become visible.
Record(j) ==
  /\ j \notin recorded
  /\ recorded' = recorded \cup {j}
  /\ row' = [s \in Signatures |->
               IF Sightings(j, s) = {} THEN row[s]
               ELSE Recorded(row[s], j, Cardinality(Sightings(j, s)))]
  /\ UNCHANGED <<script, time>>

\* A human decision touches nothing but the status.
Review(s) ==
  /\ row[s].count > 0
  /\ \E status \in Reviewed : row' = [row EXCEPT ![s].status = status]
  /\ UNCHANGED <<script, time, recorded>>

Next == (\E j \in Jobs : Record(j)) \/ (\E s \in Signatures : Review(s))

Spec == Init /\ [][Next]_vars
=============================================================================
