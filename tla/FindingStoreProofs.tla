------------------------- MODULE FindingStoreProofs -------------------------
(***************************************************************************)
(* What is proved about FindingStore for any signatures, jobs, requests    *)
(* and observations: it implements FindingLedger.  What a transaction has  *)
(* written of a row it holds is what the ledger would record, in one step, *)
(* of the observations made so far, on the row as it is still committed:   *)
(* nobody else writes a row that is held.                                  *)
(***************************************************************************)
EXTENDS FindingStore, FiniteSetTheorems, SequenceTheorems, TLAPS

Active == {"select", "insert"}

\* The observations of s that the transaction has behind it.
Done(j, s) == {i \in DOMAIN script[j] : i < at[j] /\ script[j][i] = s}

\* A row nobody has observed holds nothing.
RowInv == \A s \in Signatures : row[s].count = 0 => row[s] = NoRow

\* A transaction holds the rows it has written, and no other, until it ends.
HoldInv ==
  \A j \in Jobs :
    /\ at[j] \in 1 .. Len(script[j]) + 1
    /\ pc[j] = "idle" => at[j] = 1
    /\ pc[j] = "insert" => Observing(j)
    /\ \A s \in Signatures : holder[s] = j <=> pc[j] \in Active /\ Done(j, s) # {}

DraftInv ==
  \A j \in Jobs, s \in Signatures :
    holder[s] = j => draft[j][s] = Ledger!Recorded(row[s], j, Cardinality(Done(j, s)))

\* The span of a row covers every job it names.
SpanInv == SeenSpansObservations

IInv == TypeOK /\ RowInv /\ HoldInv /\ DraftInv /\ SpanInv

\* A PATCH under way is about a row, which stays.
RequestInv ==
  \A r \in Requests :
    request[r].on # NoOne =>
      /\ request[r].on \in Signatures /\ row[request[r].on].count > 0
      /\ request[r].to \in Ledger!Reviewed

-----------------------------------------------------------------------------

(* Recording observations gives a row.                                     *)
LEMMA RecordedRow ==
  ASSUME NEW j \in Jobs, NEW r \in Rows, NEW n \in Nat, time[j] \in Nat
  PROVE  Ledger!Recorded(r, j, n) \in Rows
BY DEF Rows, Statuses, Ledger!Recorded, Ledger!Widened, Ledger!Reviewed, Ledger!Reopenable

(* Merging one more observation into what the ledger has recorded of n of  *)
(* them is what it records of n + 1, and the first one may make the row.   *)
LEMMA MergedIsRecorded ==
  ASSUME NEW j \in Jobs, NEW r \in Rows, NEW n \in Nat, time[j] \in Nat,
         r.count > 0 \/ n > 0
  PROVE  /\ n > 0 => Merged(Ledger!Recorded(r, j, n), j) = Ledger!Recorded(r, j, n + 1)
         /\ n = 0 => Merged(r, j) = Ledger!Recorded(r, j, n + 1)
BY DEF Rows, Statuses, Merged, AUTO_REOPEN_FROM,
       Ledger!Recorded, Ledger!Widened, Ledger!Reviewed, Ledger!Reopenable

LEMMA NewIsRecorded ==
  ASSUME NEW j \in Jobs, time[j] \in Nat
  PROVE  NewFinding(j) = Ledger!Recorded(NoRow, j, 1)
BY DEF NewFinding, NoRow, Ledger!NoRow, Ledger!Recorded, Ledger!Widened, Ledger!Reopenable

(* The observations behind a transaction can be counted.                   *)
LEMMA DoneFinite ==
  ASSUME TypeOK, NEW j \in Jobs, NEW s \in Signatures
  PROVE  IsFiniteSet(Done(j, s)) /\ Cardinality(Done(j, s)) \in Nat
<1>1. script[j] \in Seq(Signatures)
  BY DEF TypeOK
<1>2. Done(j, s) \subseteq 1 .. Len(script[j]) /\ Len(script[j]) \in Nat
  BY <1>1 DEF Done
<1>3. IsFiniteSet(1 .. Len(script[j]))
  BY <1>2, FS_Interval
<1>4. QED
  BY <1>2, <1>3, FS_Subset, FS_CardinalityType

LEMMA SightingsFinite ==
  ASSUME TypeOK, NEW j \in Jobs, NEW s \in Signatures
  PROVE  IsFiniteSet(Ledger!Sightings(j, s)) /\ Cardinality(Ledger!Sightings(j, s)) \in Nat
<1>1. script[j] \in Seq(Signatures)
  BY DEF TypeOK
<1>2. IsFiniteSet(1 .. Len(script[j])) /\ DOMAIN script[j] = 1 .. Len(script[j])
  BY <1>1, FS_Interval
<1>3. Ledger!Sightings(j, s) \subseteq DOMAIN script[j]
  BY DEF Ledger!Sightings
<1>4. QED
  BY <1>2, <1>3, FS_Subset, FS_CardinalityType

(* The initial state is well typed.                                        *)
LEMMA TypeInit == Init => TypeOK
<1> SUFFICES ASSUME Init PROVE TypeOK
  OBVIOUS
<1>1. script \in [Jobs -> Seq(Signatures)]
  BY BoundsAssumption, SeqDef DEF Init
<1>2. row \in [Signatures -> Rows]
  <2>1. NoRow \in Rows
    BY DEF Rows, Statuses, NoRow, Ledger!NoRow
  <2>2. \A status \in OldStatuses : Ledger!OldRow(status) \in Rows
    BY OldStatusesAssumption DEF Rows, Statuses, Ledger!OldRow
  <2>3. QED
    BY <2>1, <2>2 DEF Init
<1>3. draft \in [Jobs -> [Signatures -> Rows]]
  BY DEF Init, Rows, Statuses, NoRow, Ledger!NoRow
<1>4. request \in [Requests -> [on : Signatures \cup {NoOne}, to : Statuses, sent : BOOLEAN]]
  BY DEF Init, NoRequest, Statuses
<1>5. QED
  BY <1>1, <1>2, <1>3, <1>4 DEF Init, TypeOK

(* Where an observing job is.                                              *)
LEMMA Position ==
  ASSUME TypeOK, NEW j \in Jobs
  PROVE  /\ time[j] \in Nat /\ Len(script[j]) \in Nat /\ at[j] \in Nat
         /\ Observing(j) =>
              /\ Current(j) \in Signatures /\ script[j][at[j]] = Current(j)
              /\ at[j] \in 1 .. Len(script[j]) /\ at[j] \in DOMAIN script[j]
<1>1. script[j] \in Seq(Signatures) /\ at[j] \in Nat
  BY DEF TypeOK
<1>2. time[j] \in Nat
  BY BoundsAssumption DEF TypeOK
<1>3. QED
  BY <1>1, <1>2 DEF Observing, Current

(* Moving between SELECT and INSERT leaves the rows and locks alone.       *)
LEMMA MoveKeeps ==
  ASSUME IInv, NEW j \in Jobs, pc[j] \in Active, Observing(j),
         NEW to \in Active, pc' = [pc EXCEPT ![j] = to],
         tries' \in [Jobs -> Nat],
         UNCHANGED <<script, time, row, holder, at, draft, request>>
  PROVE  IInv'
<1>1. TypeOK'
  BY DEF IInv, TypeOK, Active
<1>2. RowInv' /\ SpanInv'
  BY DEF IInv, RowInv, SpanInv, SeenSpansObservations
<1>3. \A i \in Jobs, s \in Signatures : Done(i, s)' = Done(i, s)
  BY DEF Done
<1>4. HoldInv'
  <2>1. \A i \in Jobs : Observing(i)' <=> Observing(i)
    BY DEF Observing
  <2>2. \A i \in Jobs : (pc'[i] \in Active <=> pc[i] \in Active) /\ (pc'[i] = "insert" => Observing(i))
    BY DEF IInv, TypeOK, HoldInv, Active
  <2>3. \A i \in Jobs : pc'[i] = "idle" => pc[i] = "idle"
    BY DEF IInv, TypeOK, Active
  <2>4. QED
    BY <1>3, <2>1, <2>2, <2>3 DEF IInv, HoldInv
<1>5. DraftInv'
  BY <1>3 DEF IInv, DraftInv, Ledger!Recorded, Ledger!Widened
<1>6. QED
  BY <1>1, <1>2, <1>4, <1>5 DEF IInv

(* What a transaction writes of a row it may take is what the ledger       *)
(* records of one observation more.                                        *)
LEMMA WriteKeeps ==
  ASSUME IInv, NEW j \in Jobs, pc[j] \in Active, Observing(j),
         holder[Current(j)] \in {NoOne, j},
         Write(j, Current(j),
               Ledger!Recorded(row[Current(j)], j, Cardinality(Done(j, Current(j))) + 1)),
         UNCHANGED <<script, time, row, request>>
  PROVE  IInv'
<1> DEFINE c == Current(j)
           r == Ledger!Recorded(row[c], j, Cardinality(Done(j, c)) + 1)
<1>1. /\ c \in Signatures /\ at[j] \in DOMAIN script[j] /\ script[j][at[j]] = c
      /\ at[j] \in 1 .. Len(script[j]) /\ Len(script[j]) \in Nat
      /\ time[j] \in Nat
  BY Position DEF IInv
<1>2. /\ draft' = [draft EXCEPT ![j][c] = r]
      /\ holder' = [holder EXCEPT ![c] = j]
      /\ at' = [at EXCEPT ![j] = @ + 1]
      /\ tries' = [tries EXCEPT ![j] = 0]
      /\ pc' = [pc EXCEPT ![j] = "select"]
  BY DEF Write
<1>3. \A i \in Jobs, s \in Signatures :
        Done(i, s)' = IF i = j /\ s = c THEN Done(i, s) \cup {at[j]} ELSE Done(i, s)
  BY <1>1, <1>2 DEF IInv, TypeOK, Done
<1>4. /\ at[j] \notin Done(j, c) /\ Cardinality(Done(j, c)) \in Nat
      /\ Cardinality(Done(j, c) \cup {at[j]}) = Cardinality(Done(j, c)) + 1
  <2>1. at[j] \notin Done(j, c)
    BY <1>1 DEF Done
  <2>2. IsFiniteSet(Done(j, c)) /\ Cardinality(Done(j, c)) \in Nat
    BY <1>1, DoneFinite DEF IInv
  <2>3. QED
    BY <2>1, <2>2, FS_AddElement
<1>5. r \in Rows
  BY <1>1, <1>4, RecordedRow DEF IInv, TypeOK
<1>6. TypeOK'
  BY <1>1, <1>2, <1>5 DEF IInv, TypeOK
<1>7. RowInv' /\ SpanInv'
  BY DEF IInv, RowInv, SpanInv, SeenSpansObservations
<1>8. HoldInv'
  <2>1. ASSUME NEW i \in Jobs
        PROVE  /\ at'[i] \in 1 .. Len(script'[i]) + 1
               /\ pc'[i] = "idle" => at'[i] = 1
               /\ pc'[i] = "insert" => Observing(i)'
    BY <1>1, <1>2 DEF IInv, TypeOK, HoldInv, Observing
  <2>2. ASSUME NEW i \in Jobs, NEW s \in Signatures
        PROVE  holder'[s] = i <=> pc'[i] \in Active /\ Done(i, s)' # {}
    <3>1. CASE i = j
      <4>1. pc'[i] \in Active /\ pc[i] \in Active
        BY <1>2, <3>1 DEF IInv, TypeOK, Active
      <4>2. CASE s = c
        BY <1>1, <1>2, <1>3, <3>1, <4>1, <4>2 DEF IInv, TypeOK
      <4>3. CASE s # c
        <5>1. holder'[s] = holder[s] /\ Done(i, s)' = Done(i, s)
          BY <1>1, <1>2, <1>3, <4>3 DEF IInv, TypeOK
        <5>2. QED
          BY <4>1, <5>1 DEF IInv, HoldInv
      <4>4. QED
        BY <4>2, <4>3
    <3>2. CASE i # j
      BY <1>1, <1>2, <1>3, <3>2, NoOneAssumption DEF IInv, TypeOK, HoldInv
    <3>3. QED
      BY <3>1, <3>2
  <2>3. QED
    BY <2>1, <2>2 DEF HoldInv
<1>9. DraftInv'
  <2> SUFFICES ASSUME NEW i \in Jobs, NEW s \in Signatures, holder'[s] = i
               PROVE  draft'[i][s] = Ledger!Recorded(row[s], i, Cardinality(Done(i, s)'))
    BY DEF DraftInv, Ledger!Recorded, Ledger!Widened
  <2>1. CASE s = c
    BY <1>1, <1>2, <1>3, <1>4, <2>1 DEF IInv, TypeOK
  <2>2. CASE s # c
    <3>1. holder[s] = i /\ draft'[i][s] = draft[i][s] /\ Done(i, s)' = Done(i, s)
      BY <1>1, <1>2, <1>3, <2>2 DEF IInv, TypeOK
    <3>2. QED
      BY <3>1 DEF IInv, DraftInv
  <2>3. QED
    BY <2>1, <2>2
<1>10. QED
  BY <1>6, <1>7, <1>8, <1>9 DEF IInv

(* A SELECT that finds a row merges into what the ledger has recorded.     *)
LEMMA SelectStep ==
  ASSUME IInv, NEW j \in Jobs, SelectForUpdate(j) PROVE IInv'
<1> DEFINE c == Current(j)
           n == Cardinality(Done(j, c))
<1>1. c \in Signatures /\ time[j] \in Nat /\ row[c] \in Rows /\ pc[j] = "select" /\ Observing(j)
  <2>1. pc[j] = "select" /\ Observing(j)
    BY DEF SelectForUpdate
  <2>2. c \in Signatures /\ time[j] \in Nat
    BY <2>1, Position DEF IInv
  <2>3. QED
    BY <2>1, <2>2 DEF IInv, TypeOK
<1>2. n \in Nat /\ (n = 0 <=> Done(j, c) = {})
  BY <1>1, DoneFinite, FS_EmptySet DEF IInv
<1>3. CASE Found(j, c).count > 0
  <2>1. /\ holder[c] \in {NoOne, j} /\ Write(j, c, Merged(Found(j, c), j))
        /\ UNCHANGED <<script, time, row, request>>
    BY <1>3 DEF SelectForUpdate
  <2>2. Merged(Found(j, c), j) = Ledger!Recorded(row[c], j, n + 1)
    <3>1. CASE holder[c] = j
      <4>1. n > 0 /\ Found(j, c) = Ledger!Recorded(row[c], j, n)
        BY <1>1, <1>2, <3>1 DEF IInv, HoldInv, DraftInv, Found
      <4>2. QED
        BY <1>1, <1>2, <4>1, MergedIsRecorded
    <3>2. CASE holder[c] # j
      <4>1. n = 0 /\ Found(j, c) = row[c]
        BY <1>1, <1>2, <3>2 DEF IInv, HoldInv, Found, Active
      <4>2. QED
        BY <1>1, <1>2, <1>3, <4>1, MergedIsRecorded
    <3>3. QED
      BY <3>1, <3>2
  <2>3. QED
    BY <1>1, <2>1, <2>2, WriteKeeps DEF Active
<1>4. CASE ~(Found(j, c).count > 0)
  <2>1. pc' = [pc EXCEPT ![j] = "insert"] /\ UNCHANGED <<script, time, row, holder, at, draft, tries, request>>
    BY <1>4 DEF SelectForUpdate
  <2>2. tries' \in [Jobs -> Nat]
    BY <2>1 DEF IInv, TypeOK
  <2>3. QED
    BY <1>1, <2>1, <2>2, MoveKeeps DEF Active
<1>5. QED
  BY <1>3, <1>4

(* An INSERT makes the row the ledger makes, or goes back to the SELECT.   *)
LEMMA InsertStep ==
  ASSUME IInv, NEW j \in Jobs, Insert(j) PROVE IInv'
<1> DEFINE c == Current(j)
           n == Cardinality(Done(j, c))
<1>1. /\ c \in Signatures /\ time[j] \in Nat /\ pc[j] = "insert" /\ Observing(j) /\ holder[c] = NoOne
      /\ UNCHANGED <<script, time, row, request>>
  <2>1. pc[j] = "insert" /\ holder[c] = NoOne /\ UNCHANGED <<script, time, row, request>>
    BY DEF Insert
  <2>2. Observing(j)
    BY <2>1 DEF IInv, HoldInv
  <2>3. QED
    BY <2>1, <2>2, Position DEF IInv
<1>2. n = 0
  BY <1>1, NoOneAssumption, FS_EmptySet DEF IInv, HoldInv, Active
<1>3. CASE row[c].count = 0
  <2>1. Write(j, c, NewFinding(j))
    BY <1>3 DEF Insert
  <2>2. NewFinding(j) = Ledger!Recorded(row[c], j, n + 1)
    BY <1>1, <1>2, <1>3, NewIsRecorded DEF IInv, RowInv
  <2>3. QED
    BY <1>1, <2>1, <2>2, WriteKeeps DEF Active
<1>4. CASE row[c].count # 0
  <2>1. /\ tries' = [tries EXCEPT ![j] = @ + 1] /\ pc' = [pc EXCEPT ![j] = "select"]
        /\ UNCHANGED <<script, time, row, holder, at, draft, request>>
    BY <1>1, <1>4 DEF Insert
  <2>2. tries' \in [Jobs -> Nat]
    BY <2>1 DEF IInv, TypeOK
  <2>3. QED
    BY <1>1, <2>1, <2>2, MoveKeeps DEF Active
<1>5. QED
  BY <1>3, <1>4

(* A transaction that ends lets go of its rows.                            *)
LEMMA ReleaseKeeps ==
  ASSUME IInv, NEW j \in Jobs, Release(j),
         NEW end \in {"committed", "aborted"}, pc' = [pc EXCEPT ![j] = end],
         UNCHANGED <<script, time, at, draft, tries, request>>,
         row' \in [Signatures -> Rows],
         \A s \in Signatures : holder[s] # j => row'[s] = row[s]
  PROVE  TypeOK' /\ HoldInv' /\ DraftInv'
<1>1. /\ \A s \in Signatures : holder'[s] = IF holder[s] = j THEN NoOne ELSE holder[s]
      /\ holder' \in [Signatures -> Jobs \cup {NoOne}]
  BY DEF Release, IInv, TypeOK
<1>2. \A i \in Jobs, s \in Signatures : Done(i, s)' = Done(i, s)
  BY DEF Done
<1>3. TypeOK'
  BY <1>1 DEF IInv, TypeOK
<1>4. HoldInv'
  <2>1. \A i \in Jobs : (Observing(i)' <=> Observing(i)) /\ (pc'[i] # end => pc'[i] = pc[i])
    BY DEF Observing, IInv, TypeOK
  <2>2. ASSUME NEW i \in Jobs, NEW s \in Signatures
        PROVE  holder'[s] = i <=> pc'[i] \in Active /\ Done(i, s)' # {}
    <3>1. CASE i = j
      <4>1. pc'[i] \notin Active /\ holder'[s] # i
        BY <1>1, <3>1, NoOneAssumption DEF IInv, TypeOK, Active
      <4>2. QED
        BY <4>1
    <3>2. CASE i # j
      <4>1. pc'[i] = pc[i] /\ (holder'[s] = i <=> holder[s] = i)
        BY <1>1, <3>2, NoOneAssumption DEF IInv, TypeOK
      <4>2. QED
        BY <1>2, <4>1 DEF IInv, HoldInv
    <3>3. QED
      BY <3>1, <3>2
  <2>3. QED
    BY <2>1, <2>2 DEF IInv, HoldInv
<1>5. DraftInv'
  <2> SUFFICES ASSUME NEW i \in Jobs, NEW s \in Signatures, holder'[s] = i
               PROVE  draft'[i][s] = Ledger!Recorded(row'[s], i, Cardinality(Done(i, s)'))
    BY DEF DraftInv, Ledger!Recorded, Ledger!Widened
  <2>1. holder[s] = i /\ i # j /\ row'[s] = row[s]
    BY <1>1, NoOneAssumption
  <2>2. QED
    BY <1>2, <2>1 DEF IInv, DraftInv
<1>6. QED
  BY <1>3, <1>4, <1>5

(* A commit records all of the job's observations, each of them once.      *)
LEMMA CommitRecords ==
  ASSUME IInv, NEW j \in Jobs, Commit(j)
  PROVE  row' = [s \in Signatures |->
                   IF Ledger!Sightings(j, s) = {} THEN row[s]
                   ELSE Ledger!Recorded(row[s], j, Cardinality(Ledger!Sightings(j, s)))]
<1>1. \A s \in Signatures : Done(j, s) = Ledger!Sightings(j, s)
  <2>1. script[j] \in Seq(Signatures) /\ at[j] \in 1 .. Len(script[j]) + 1 /\ ~Observing(j)
    BY DEF IInv, TypeOK, HoldInv, Commit
  <2>2. at[j] = Len(script[j]) + 1 /\ DOMAIN script[j] = 1 .. Len(script[j]) /\ Len(script[j]) \in Nat
    BY <2>1 DEF Observing
  <2>3. QED
    BY <2>2 DEF Done, Ledger!Sightings
<1>2. \A s \in Signatures : holder[s] = j <=> Done(j, s) # {}
  BY DEF IInv, HoldInv, Active, Commit
<1>3. \A s \in Signatures :
        holder[s] = j => draft[j][s] = Ledger!Recorded(row[s], j, Cardinality(Done(j, s)))
  BY DEF IInv, DraftInv
<1>4. row' = [s \in Signatures |-> IF holder[s] = j THEN draft[j][s] ELSE row[s]]
  BY DEF Commit, Held
<1>5. QED
  BY <1>1, <1>2, <1>3, <1>4

(* What is recorded has been counted, and lies in the row's span.          *)
LEMMA RecordedSpans ==
  ASSUME NEW j \in Jobs, NEW r \in Rows, NEW n \in Nat, n > 0, \A i \in Jobs : time[i] \in Nat,
         r.count = 0 => r = NoRow,
         \A i \in r.jobs : r.first <= time[i] /\ time[i] <= r.last
  PROVE  LET q == Ledger!Recorded(r, j, n) IN
         q.count > 0 /\ \A i \in q.jobs : q.first <= time[i] /\ time[i] <= q.last
BY DEF Rows, NoRow, Ledger!NoRow, Ledger!Recorded, Ledger!Widened

(* A committed job leaves rows whose counts and spans are right.           *)
LEMMA CommitStep ==
  ASSUME IInv, NEW j \in Jobs, Commit(j) PROVE IInv'
<1>1. \A i \in Jobs : time[i] \in Nat /\ time'[i] = time[i]
  BY Position DEF IInv, Commit
<1>2. \A s \in Signatures :
        \/ row'[s] = row[s]
        \/ \E n \in Nat \ {0} : row'[s] = Ledger!Recorded(row[s], j, n)
  <2>1. \A s \in Signatures :
          Ledger!Sightings(j, s) # {} => Cardinality(Ledger!Sightings(j, s)) \in Nat \ {0}
    BY SightingsFinite, FS_EmptySet DEF IInv
  <2>2. QED
    BY <2>1, CommitRecords
<1>3. row' \in [Signatures -> Rows]
  <2>1. DOMAIN row' = Signatures /\ row' = [s \in Signatures |-> row'[s]]
    BY CommitRecords
  <2>2. ASSUME NEW s \in Signatures
        PROVE  row'[s] \in Rows
    <3>1. row[s] \in Rows
      BY DEF IInv, TypeOK
    <3>2. \A n \in Nat \ {0} : Ledger!Recorded(row[s], j, n) \in Rows
      BY <1>1, <3>1, RecordedRow
    <3>3. QED
      BY <1>2, <3>1, <3>2
  <2>3. QED
    BY <2>1, <2>2
<1>4. TypeOK' /\ HoldInv' /\ DraftInv'
  <2>1. \A s \in Signatures : holder[s] # j => row'[s] = row[s]
    BY DEF Commit, Held
  <2>2. QED
    BY <1>3, <2>1, ReleaseKeeps DEF Commit
<1>5. RowInv' /\ SpanInv'
  <2> SUFFICES ASSUME NEW s \in Signatures
               PROVE  /\ row'[s].count = 0 => row'[s] = NoRow
                      /\ \A i \in row'[s].jobs : row'[s].first <= time[i] /\ time[i] <= row'[s].last
    BY <1>1, <1>3 DEF RowInv, SpanInv, SeenSpansObservations, Rows, NoRow, Ledger!NoRow
  <2>1. row[s] \in Rows /\ (row[s].count = 0 => row[s] = NoRow)
    BY DEF IInv, TypeOK, RowInv
  <2>2. \A i \in row[s].jobs : row[s].first <= time[i] /\ time[i] <= row[s].last
    BY DEF IInv, SpanInv, SeenSpansObservations
  <2>3. CASE row'[s] = row[s]
    BY <2>1, <2>2, <2>3
  <2>4. ASSUME NEW n \in Nat \ {0}, row'[s] = Ledger!Recorded(row[s], j, n)
        PROVE  /\ row'[s].count # 0
               /\ \A i \in row'[s].jobs : row'[s].first <= time[i] /\ time[i] <= row'[s].last
    BY <1>1, <2>1, <2>2, <2>4, RecordedSpans
  <2>5. QED
    BY <1>2, <2>3, <2>4
<1>6. QED
  BY <1>4, <1>5 DEF IInv

(* A transaction that starts has observed nothing.                         *)
LEMMA BeginStep ==
  ASSUME IInv, NEW j \in Jobs, Begin(j) PROVE IInv'
<1>1. /\ pc[j] = "idle" /\ pc' = [pc EXCEPT ![j] = "select"] /\ at[j] = 1
      /\ UNCHANGED <<script, time, row, holder, at, draft, tries, request>>
  BY DEF Begin, IInv, HoldInv
<1>2. \A i \in Jobs, s \in Signatures : Done(i, s)' = Done(i, s)
  BY <1>1 DEF Done
<1>3. \A s \in Signatures : Done(j, s) = {} /\ holder[s] # j
  <2>1. script[j] \in Seq(Signatures)
    BY DEF IInv, TypeOK
  <2>2. \A s \in Signatures : Done(j, s) = {}
    BY <1>1, <2>1 DEF Done
  <2>3. QED
    BY <1>1, <2>2 DEF IInv, HoldInv, Active
<1>4. TypeOK'
  BY <1>1 DEF IInv, TypeOK
<1>5. RowInv' /\ SpanInv'
  BY <1>1 DEF IInv, RowInv, SpanInv, SeenSpansObservations
<1>6. HoldInv'
  <2>1. \A i \in Jobs : Observing(i)' <=> Observing(i)
    BY <1>1 DEF Observing
  <2>2. pc'[j] = "select" /\ \A i \in Jobs : i # j => pc'[i] = pc[i]
    BY <1>1 DEF IInv, TypeOK
  <2>3. QED
    BY <1>1, <1>2, <1>3, <2>1, <2>2 DEF IInv, HoldInv, Active
<1>7. DraftInv'
  BY <1>1, <1>2 DEF IInv, DraftInv, Ledger!Recorded, Ledger!Widened
<1>8. QED
  BY <1>4, <1>5, <1>6, <1>7 DEF IInv

(* A transaction that is rolled back leaves the committed rows.            *)
LEMMA AbortStep ==
  ASSUME IInv, NEW j \in Jobs, Abort(j) PROVE IInv'
<1>1. row' = row /\ time' = time
  BY DEF Abort
<1>2. TypeOK' /\ HoldInv' /\ DraftInv'
  <2>1. row' \in [Signatures -> Rows]
    BY <1>1 DEF IInv, TypeOK
  <2>2. QED
    BY <1>1, <2>1, ReleaseKeeps DEF Abort
<1>3. RowInv' /\ SpanInv'
  BY <1>1 DEF IInv, RowInv, SpanInv, SeenSpansObservations
<1>4. QED
  BY <1>2, <1>3 DEF IInv

(* What a PATCH asks for is a decision about a row.                        *)
LEMMA ReadReviewed ==
  ASSUME TypeOK, NEW r \in Requests, ReadFinding(r)
  PROVE  \E s \in Signatures : \E to \in Ledger!Reviewed :
           /\ row[s].count > 0
           /\ request' = [request EXCEPT ![r] = [on |-> s, to |-> to, sent |-> TRUE]]
<1>1. PICK s \in Signatures :
        /\ row[s].count > 0
        /\ \E to \in VALID_TRANSITIONS[row[s].status] :
             request' = [request EXCEPT ![r] = [on |-> s, to |-> to, sent |-> TRUE]]
  BY DEF ReadFinding
<1>2. row[s].status \in Statuses
  BY DEF TypeOK, Rows
<1>3. VALID_TRANSITIONS[row[s].status] \subseteq Ledger!Reviewed
  BY <1>2 DEF VALID_TRANSITIONS, Statuses, Ledger!Reviewed
<1>4. QED
  BY <1>1, <1>3

(* Reading a finding changes no row.                                       *)
LEMMA ReadStep ==
  ASSUME IInv, NEW r \in Requests, ReadFinding(r) PROVE IInv'
<1>1. UNCHANGED <<script, time, row, holder, pc, at, draft, tries>>
  BY DEF ReadFinding, jobVars
<1>2. request' \in [Requests -> [on : Signatures \cup {NoOne}, to : Statuses, sent : BOOLEAN]]
  <2>1. \E s \in Signatures : \E to \in Ledger!Reviewed :
          request' = [request EXCEPT ![r] = [on |-> s, to |-> to, sent |-> TRUE]]
    BY ReadReviewed DEF IInv
  <2>2. \A to \in Ledger!Reviewed : to \in Statuses
    BY DEF Statuses
  <2>3. QED
    BY <2>1, <2>2 DEF IInv, TypeOK
<1>3. \A i \in Jobs, s \in Signatures : Done(i, s)' = Done(i, s)
  BY <1>1 DEF Done
<1>4. TypeOK'
  BY <1>1, <1>2 DEF IInv, TypeOK
<1>5. RowInv' /\ SpanInv' /\ HoldInv'
  BY <1>1, <1>3 DEF IInv, RowInv, SpanInv, SeenSpansObservations, HoldInv, Observing
<1>6. DraftInv'
  BY <1>1, <1>3 DEF IInv, DraftInv, Ledger!Recorded, Ledger!Widened
<1>7. QED
  BY <1>4, <1>5, <1>6 DEF IInv

(* A human decision is written to a row no transaction holds.              *)
LEMMA WriteStatusStep ==
  ASSUME IInv, RequestInv, NEW r \in Requests, WriteStatus(r) PROVE IInv'
<1> DEFINE o == request[r].on
<1>1. /\ o # NoOne /\ holder[o] = NoOne
      /\ row' = [row EXCEPT ![o].status = request[r].to]
      /\ request' = [request EXCEPT ![r].on = NoOne]
      /\ UNCHANGED <<script, time, holder, pc, at, draft, tries>>
  BY DEF WriteStatus, jobVars
<1>2. o \in Signatures /\ row[o].count > 0 /\ request[r].to \in Statuses
  BY <1>1 DEF RequestInv, Statuses
<1>3. \A s \in Signatures :
        /\ s # o => row'[s] = row[s]
        /\ row[s] \in Rows /\ row'[s] \in Rows
        /\ row'[s].count = row[s].count /\ row'[s].jobs = row[s].jobs
        /\ row'[s].first = row[s].first /\ row'[s].last = row[s].last
  <2>1. \A s \in Signatures :
          row'[s] = IF s = o THEN [row[s] EXCEPT !.status = request[r].to] ELSE row[s]
    BY <1>1, <1>2 DEF IInv, TypeOK
  <2>2. ASSUME NEW s \in Signatures PROVE row[s] \in Rows
    BY DEF IInv, TypeOK
  <2>3. ASSUME NEW q \in Rows
        PROVE  LET w == [q EXCEPT !.status = request[r].to] IN
               /\ w \in Rows /\ w.count = q.count /\ w.jobs = q.jobs
               /\ w.first = q.first /\ w.last = q.last
    BY <1>2 DEF Rows
  <2>4. QED
    BY <2>1, <2>2, <2>3
<1>4. \A i \in Jobs, s \in Signatures : Done(i, s)' = Done(i, s)
  BY <1>1 DEF Done
<1>5. TypeOK'
  <2>1. row' \in [Signatures -> Rows]
    BY <1>1, <1>3 DEF IInv, TypeOK
  <2>2. request' \in [Requests -> [on : Signatures \cup {NoOne}, to : Statuses, sent : BOOLEAN]]
    BY <1>1 DEF IInv, TypeOK
  <2>3. QED
    BY <1>1, <2>1, <2>2 DEF IInv, TypeOK
<1>6. RowInv'
  BY <1>2, <1>3 DEF IInv, RowInv, Rows
<1>7. SpanInv'
  BY <1>1, <1>3 DEF IInv, SpanInv, SeenSpansObservations
<1>8. HoldInv'
  BY <1>1, <1>4 DEF IInv, HoldInv, Observing
<1>9. DraftInv'
  <2> SUFFICES ASSUME NEW i \in Jobs, NEW s \in Signatures, holder'[s] = i
               PROVE  draft'[i][s] = Ledger!Recorded(row'[s], i, Cardinality(Done(i, s)'))
    BY <1>1 DEF DraftInv, Ledger!Recorded, Ledger!Widened
  <2>1. holder[s] = i /\ row'[s] = row[s]
    BY <1>1, <1>3, NoOneAssumption
  <2>2. QED
    BY <1>1, <1>4, <2>1 DEF IInv, DraftInv
<1>10. QED
  BY <1>5, <1>6, <1>7, <1>8, <1>9 DEF IInv

(* The ledger counts with the same operator.                               *)
LEMMA SameCardinality ==
  ASSUME NEW S PROVE Ledger!Cardinality(S) = Cardinality(S)
BY DEF Ledger!Cardinality, Cardinality, Ledger!IsFiniteSet, IsFiniteSet

(* Every step keeps the inductive invariant.                               *)
LEMMA NextStep == IInv /\ RequestInv /\ [Next]_vars => IInv'
<1> SUFFICES ASSUME IInv, RequestInv, [Next]_vars PROVE IInv'
  OBVIOUS
<1>1. ASSUME NEW j \in Jobs, Begin(j) \/ Upsert(j) \/ Fail(j) PROVE IInv'
  BY <1>1, BeginStep, SelectStep, InsertStep, CommitStep, AbortStep DEF Upsert, Fail, BreakDeadlock
<1>2. ASSUME NEW r \in Requests, Patch(r) PROVE IInv'
  BY <1>2, ReadStep, WriteStatusStep DEF Patch
<1>3. CASE UNCHANGED vars
  <2>1. UNCHANGED <<script, time, row, holder, pc, at, draft, tries, request>>
    BY <1>3 DEF vars, jobVars
  <2>2. \A i \in Jobs, s \in Signatures : Done(i, s)' = Done(i, s)
    BY <2>1 DEF Done
  <2>3. TypeOK'
    BY <2>1 DEF IInv, TypeOK
  <2>4. RowInv' /\ SpanInv' /\ HoldInv'
    BY <2>1, <2>2 DEF IInv, RowInv, SpanInv, SeenSpansObservations, HoldInv, Observing
  <2>5. DraftInv'
    BY <2>1, <2>2 DEF IInv, DraftInv, Ledger!Recorded, Ledger!Widened
  <2>6. QED
    BY <2>3, <2>4, <2>5 DEF IInv
<1>4. QED
  BY <1>1, <1>2, <1>3 DEF Next

(* A row that has been observed stays one.                                 *)
LEMMA RowsStay ==
  ASSUME IInv, RequestInv, [Next]_vars, NEW s \in Signatures, row[s].count > 0
  PROVE  row'[s].count > 0
<1>1. row[s] \in Rows
  BY DEF IInv, TypeOK
<1>2. ASSUME NEW j \in Jobs, Commit(j) PROVE row'[s].count > 0
  <2>1. \/ row'[s] = row[s]
        \/ row'[s] = Ledger!Recorded(row[s], j, Cardinality(Ledger!Sightings(j, s)))
    BY <1>2, CommitRecords
  <2>2. Cardinality(Ledger!Sightings(j, s)) \in Nat
    BY <1>2, SightingsFinite DEF IInv
  <2>3. QED
    BY <1>1, <2>1, <2>2 DEF Ledger!Recorded, Rows
<1>3. ASSUME NEW r \in Requests, WriteStatus(r) PROVE row'[s].count > 0
  BY <1>1, <1>3 DEF WriteStatus, IInv, TypeOK, Rows
<1>4. CASE row' = row
  BY <1>4
<1>5. QED
  BY <1>2, <1>3, <1>4
  DEF Next, Upsert, Patch, Begin, SelectForUpdate, Insert, Fail, BreakDeadlock, Abort, ReadFinding, vars

(* A PATCH stays about a row there is.                                     *)
LEMMA RequestStep == IInv /\ RequestInv /\ [Next]_vars => RequestInv'
<1> SUFFICES ASSUME IInv, RequestInv, [Next]_vars, NEW q \in Requests, request'[q].on # NoOne
             PROVE  /\ request'[q].on \in Signatures /\ row'[request'[q].on].count > 0
                    /\ request'[q].to \in Ledger!Reviewed
  BY DEF RequestInv
<1>1. CASE request'[q] = request[q]
  BY <1>1, RowsStay DEF RequestInv
<1>2. ASSUME NEW r \in Requests, ReadFinding(r), request'[q] # request[q]
      PROVE  /\ request'[q].on \in Signatures /\ row'[request'[q].on].count > 0
             /\ request'[q].to \in Ledger!Reviewed
  <2>1. PICK s \in Signatures : \E to \in Ledger!Reviewed :
          /\ row[s].count > 0
          /\ request' = [request EXCEPT ![r] = [on |-> s, to |-> to, sent |-> TRUE]]
    BY <1>2, ReadReviewed DEF IInv
  <2>2. request'[q].on = s /\ request'[q].to \in Ledger!Reviewed
    BY <1>2, <2>1 DEF IInv, TypeOK
  <2>3. QED
    BY <2>1, <2>2, RowsStay
<1>3. ASSUME NEW r \in Requests, WriteStatus(r), request'[q] # request[q]
      PROVE  request'[q].on = NoOne
  BY <1>3 DEF WriteStatus, IInv, TypeOK
<1>4. QED
  BY <1>1, <1>2, <1>3
  DEF Next, Upsert, Patch, Begin, SelectForUpdate, Insert, Commit, Fail, BreakDeadlock, Abort, vars

-----------------------------------------------------------------------------

(* The invariant the theorems rest on.                                     *)
LEMMA Invariance == Spec => [](IInv /\ RequestInv)
<1>1. Init => IInv /\ RequestInv
  <2> SUFFICES ASSUME Init PROVE IInv /\ RequestInv
    OBVIOUS
  <2>1. TypeOK
    BY TypeInit
  <2>2. RowInv /\ SpanInv
    <3>1. \A s \in Signatures : row[s] = NoRow \/ \E status \in OldStatuses : row[s] = Ledger!OldRow(status)
      BY DEF Init
    <3>2. ASSUME NEW s \in Signatures
          PROVE  row[s].jobs = {} /\ (row[s].count = 0 => row[s] = NoRow)
      <4>1. CASE row[s] = NoRow
        BY <4>1 DEF NoRow, Ledger!NoRow
      <4>2. ASSUME NEW status \in OldStatuses, row[s] = Ledger!OldRow(status)
            PROVE  row[s].jobs = {} /\ row[s].count = 1
        BY <4>2 DEF Ledger!OldRow
      <4>3. QED
        BY <3>1, <4>1, <4>2
    <3>3. QED
      BY <3>2 DEF RowInv, SpanInv, SeenSpansObservations
  <2>3. HoldInv
    <3>1. \A j \in Jobs : script[j] \in Seq(Signatures) /\ at[j] = 1 /\ pc[j] = "idle"
      BY <2>1 DEF Init, TypeOK
    <3>2. \A s \in Signatures : holder[s] \notin Jobs
      BY NoOneAssumption DEF Init
    <3>3. QED
      BY <3>1, <3>2 DEF HoldInv, Active
  <2>4. DraftInv
    BY NoOneAssumption DEF Init, DraftInv
  <2>5. RequestInv
    BY DEF Init, RequestInv, NoRequest
  <2>6. QED
    BY <2>1, <2>2, <2>3, <2>4, <2>5 DEF IInv
<1>2. QED
  BY <1>1, NextStep, RequestStep, PTL DEF Spec

(* The types are kept, whatever the transactions of the jobs do.           *)
THEOREM TypeCorrect == Spec => []TypeOK
BY Invariance, PTL DEF IInv

(* first_seen and last_seen span every observation the row names, whatever *)
(* the order in which the jobs' transactions commit (service.py:130-136).  *)
THEOREM SpanCovers == Spec => []SeenSpansObservations
BY Invariance, PTL DEF IInv, SpanInv

(* A commit reopens a finding held for remediated or false, and keeps      *)
(* every other decision, even one made after the job read the row.         *)
THEOREM DecisionRespected == Spec => RescanRespectsDecision
<1> DEFINE A == \A s \in Signatures :
                  row'[s].count > row[s].count /\ row[s].count > 0 =>
                    row'[s].status =
                      IF row[s].status \in AUTO_REOPEN_FROM THEN "REOPENED" ELSE row[s].status
<1>1. IInv /\ RequestInv /\ [Next]_vars => [A]_vars
  <2> SUFFICES ASSUME IInv, RequestInv, [Next]_vars, NEW s \in Signatures,
                      row'[s].count > row[s].count
               PROVE  row'[s].status =
                        IF row[s].status \in AUTO_REOPEN_FROM THEN "REOPENED" ELSE row[s].status
    OBVIOUS
  <2>1. row[s] \in Rows
    BY DEF IInv, TypeOK
  <2>2. ASSUME NEW j \in Jobs, Commit(j)
        PROVE  row'[s].status =
                 IF row[s].status \in AUTO_REOPEN_FROM THEN "REOPENED" ELSE row[s].status
    BY <2>1, <2>2, CommitRecords DEF Ledger!Recorded, Ledger!Reopenable, AUTO_REOPEN_FROM, Rows
  <2>3. ASSUME NEW r \in Requests, WriteStatus(r) PROVE row'[s].count = row[s].count
    BY <2>3 DEF WriteStatus, IInv, TypeOK, Rows
  <2>4. ~(row' = row)
    BY <2>1 DEF Rows
  <2>5. QED
    BY <2>1, <2>2, <2>3, <2>4
    DEF Next, Upsert, Patch, Begin, SelectForUpdate, Insert, Fail, BreakDeadlock, Abort, ReadFinding, vars, Rows
<1>2. QED
  BY <1>1, Invariance, PTL DEF Spec, RescanRespectsDecision

(* The store is the ledger: overlapping transactions, lost insert races,   *)
(* rollbacks and decisions between them leave what the jobs recorded one   *)
(* after the other would.                                                  *)
THEOREM Implements == Spec => KeepsLedger
<1> DEFINE recorded == {j \in Jobs : pc[j] = "committed"}
<1>1. Init => Ledger!Init
  <2> SUFFICES ASSUME Init PROVE Ledger!Init
    OBVIOUS
  <2>1. row \in Ledger!InitRows
    BY OldStatusesAssumption DEF Init, NoRow, Ledger!InitRows
  <2>2. QED
    BY <2>1 DEF Init, Ledger!Init
<1>2. IInv /\ RequestInv /\ [Next]_vars => [Ledger!Next]_(Ledger!vars)
  <2> SUFFICES ASSUME IInv, RequestInv, [Next]_vars PROVE [Ledger!Next]_(Ledger!vars)
    OBVIOUS
  <2>1. ASSUME NEW j \in Jobs, Commit(j) PROVE Ledger!Record(j)
    <3>1. j \notin recorded /\ recorded' = recorded \cup {j}
      BY <2>1 DEF Commit, IInv, TypeOK
    <3>2. row' = [s \in Signatures |->
                    IF Ledger!Sightings(j, s) = {} THEN row[s]
                    ELSE Ledger!Recorded(row[s], j, Cardinality(Ledger!Sightings(j, s)))]
      BY <2>1, CommitRecords
    <3>3. UNCHANGED <<script, time>>
      BY <2>1 DEF Commit
    <3>4. QED
      BY <3>1, <3>2, <3>3, SameCardinality DEF Ledger!Record
  <2>2. ASSUME NEW r \in Requests, WriteStatus(r) PROVE \E s \in Signatures : Ledger!Review(s)
    <3>1. /\ request[r].on \in Signatures /\ row[request[r].on].count > 0
          /\ request[r].to \in Ledger!Reviewed
      BY <2>2 DEF RequestInv, WriteStatus
    <3>2. recorded' = recorded
      BY <2>2 DEF WriteStatus, jobVars
    <3>3. QED
      BY <2>2, <3>1, <3>2 DEF Ledger!Review, WriteStatus
  <2>3. ASSUME NEW j \in Jobs,
               \/ Begin(j) \/ SelectForUpdate(j) \/ Insert(j)
               \/ Abort(j) /\ pc[j] # "committed"
        PROVE  UNCHANGED <<script, time, row, recorded>>
    <3>1. UNCHANGED <<script, time, row>>
      BY <2>3 DEF Begin, SelectForUpdate, Insert, Abort
    <3>2. pc[j] # "committed" /\ pc'[j] # "committed" /\ \A i \in Jobs : i # j => pc'[i] = pc[i]
      BY <2>3 DEF Begin, SelectForUpdate, Insert, Abort, Write, IInv, TypeOK
    <3>3. QED
      BY <3>1, <3>2
  <2>4. ASSUME NEW j \in Jobs, BreakDeadlock(j) PROVE pc[j] # "committed"
    BY <2>4 DEF BreakDeadlock
  <2>5. ASSUME NEW r \in Requests, ReadFinding(r) PROVE UNCHANGED <<script, time, row, recorded>>
    BY <2>5 DEF ReadFinding, jobVars
  <2>6. CASE UNCHANGED vars
    BY <2>6 DEF vars, jobVars, Ledger!vars
  <2>7. ASSUME NEW j \in Jobs, Begin(j) \/ Upsert(j) \/ Fail(j)
        PROVE  Ledger!Record(j) \/ UNCHANGED <<script, time, row, recorded>>
    <3>1. CASE Begin(j) \/ SelectForUpdate(j) \/ Insert(j)
      BY <2>3, <3>1
    <3>2. CASE Fail(j) \/ BreakDeadlock(j)
      <4>1. Abort(j) /\ pc[j] # "committed"
        BY <2>4, <3>2 DEF Fail, BreakDeadlock
      <4>2. QED
        BY <2>3, <4>1
    <3>3. CASE Commit(j)
      BY <2>1, <3>3
    <3>4. QED
      BY <2>7, <3>1, <3>2, <3>3 DEF Upsert
  <2>8. ASSUME NEW r \in Requests, Patch(r)
        PROVE  (\E s \in Signatures : Ledger!Review(s)) \/ UNCHANGED <<script, time, row, recorded>>
    BY <2>2, <2>5, <2>8 DEF Patch
  <2>9. QED
    BY <2>6, <2>7, <2>8 DEF Next, Ledger!Next, Ledger!vars
<1>3. QED
  BY <1>1, <1>2, Invariance, PTL DEF Spec, KeepsLedger, Ledger!Spec
=============================================================================
