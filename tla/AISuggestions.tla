---------------------------- MODULE AISuggestions ----------------------------
(***************************************************************************)
(* The review of the correlations a language model suggests                *)
(* (app/api/routes/ai.py): a request that stores suggestions for pairs of  *)
(* findings, and the requests that accept or dismiss one.  None of them    *)
(* locks what it has read; two unique constraints are all that meets them  *)
(* at the commit.                                                          *)
(***************************************************************************)
EXTENDS Naturals, Sequences, FiniteSets

CONSTANTS
  Findings,  \* findings of one asset
  Requests,  \* bound: requests, one call each
  MaxItems   \* bound: the suggestions of one answer of the model

VARIABLES
  suggestion,  \* status of the suggestion stored for a pair
  related,     \* the pairs with a RULE_AI_ACCEPTED relation
  phase,       \* progress of a request
  items,       \* the pairs a request has still to deal with
  added,       \* the suggestions a request has inserted, uncommitted
  crossed      \* history: pairs decided by a request that had not seen the decision before

vars == <<suggestion, related, phase, items, added, crossed>>

\* Sorting makes one pair of (a, b) and (b, a); a finding is not paired with itself.
Pairs == {p \in SUBSET Findings : Cardinality(p) = 2}

TypeOK ==
  /\ suggestion \in [Pairs -> {"NONE", "PENDING", "ACCEPTED", "DISMISSED"}]
  /\ related \subseteq Pairs
  /\ phase \in [Requests -> {"idle", "look", "flush", "accept", "insert", "update", "dismiss", "done"}]
  /\ items \in [Requests -> Seq(Pairs)]
  /\ added \in [Requests -> SUBSET Pairs]
  /\ crossed \subseteq Pairs

Init ==
  /\ suggestion = [p \in Pairs |-> "NONE"]
  /\ related = {}
  /\ phase = [r \in Requests |-> "idle"]
  /\ items = [r \in Requests |-> <<>>]
  /\ added = [r \in Requests |-> {}]
  /\ crossed = {}

Goto(r, to) == phase' = [phase EXCEPT ![r] = to]
Pair(r) == Head(items[r])

-----------------------------------------------------------------------------
(* generate_correlation_suggestions(), after the model's answer.           *)

\* CorrelationAgent.suggest() lets any pairs of the asset's findings pass, some of them twice.
Answer(r) ==
  /\ phase[r] = "idle"
  /\ \E s \in UNION {[1 .. n -> Pairs] : n \in 1 .. MaxItems} : items' = [items EXCEPT ![r] = s]
  /\ Goto(r, "look")
  /\ UNCHANGED <<suggestion, related, added, crossed>>

\* A pair that has a suggestion is left alone, whatever its status.
Look(r) ==
  /\ phase[r] = "look" /\ items[r] # <<>>
  /\ IF suggestion[Pair(r)] = "NONE" /\ Pair(r) \notin added[r]
       THEN Goto(r, "flush") /\ UNCHANGED items
       ELSE items' = [items EXCEPT ![r] = Tail(@)] /\ UNCHANGED phase
  /\ UNCHANGED <<suggestion, related, added, crossed>>

Unclaimed(r) == \A q \in Requests \ {r} : Pair(r) \notin added[q]

\* Deviation: the lost race is settled by writing the row again.
FlushOver(r) ==
  /\ phase[r] = "flush" /\ Unclaimed(r)
  /\ added' = [added EXCEPT ![r] = @ \cup {Pair(r)}]
  /\ items' = [items EXCEPT ![r] = Tail(@)]
  /\ Goto(r, "look")
  /\ UNCHANGED <<suggestion, related, crossed>>

\* The INSERT, flushed before the next SELECT or by the commit, waits for another's
\* uncommitted one; if that was committed, the request fails with all it has added.
Flush(r) ==
  /\ phase[r] = "flush" /\ Unclaimed(r)
  /\ IF suggestion[Pair(r)] = "NONE"
       THEN /\ added' = [added EXCEPT ![r] = @ \cup {Pair(r)}]
            /\ items' = [items EXCEPT ![r] = Tail(@)]
            /\ Goto(r, "look")
       ELSE added' = [added EXCEPT ![r] = {}] /\ Goto(r, "done") /\ UNCHANGED items
  /\ UNCHANGED <<suggestion, related, crossed>>

CommitSuggestions(r) ==
  /\ phase[r] = "look" /\ items[r] = <<>>
  /\ suggestion' = [p \in Pairs |-> IF p \in added[r] THEN "PENDING" ELSE suggestion[p]]
  /\ added' = [added EXCEPT ![r] = {}]
  /\ Goto(r, "done")
  /\ UNCHANGED <<related, items, crossed>>

\* A connection is lost, or two requests wait for each other's inserts.
Fail(r) ==
  /\ phase[r] \notin {"idle", "done"}
  /\ added' = [added EXCEPT ![r] = {}]
  /\ Goto(r, "done")
  /\ UNCHANGED <<suggestion, related, items, crossed>>

-----------------------------------------------------------------------------
(* accept_correlation_suggestion() and dismiss_correlation_suggestion().   *)

\* A suggestion that has been decided is refused, or its decision repeated.
ReadSuggestion(r) ==
  /\ phase[r] = "idle"
  /\ \E p \in Pairs : suggestion[p] = "PENDING" /\ items' = [items EXCEPT ![r] = <<p>>]
  /\ Goto(r, "accept") \/ Goto(r, "dismiss")
  /\ UNCHANGED <<suggestion, related, added, crossed>>

LookForRelation(r) ==
  /\ phase[r] = "accept"
  /\ Goto(r, IF Pair(r) \in related THEN "update" ELSE "insert")
  /\ UNCHANGED <<suggestion, related, items, added, crossed>>

\* The UPDATE of the status knows nothing of what was committed since the read.
Decide(r, status) ==
  /\ suggestion' = [suggestion EXCEPT ![Pair(r)] = status]
  /\ crossed' = crossed \cup {p \in {Pair(r)} : suggestion[p] # "PENDING"}

\* The relation and the status are one transaction: the unique constraint on the
\* relation rolls both back.
CommitAccept(r) ==
  /\ \/ /\ phase[r] = "insert" /\ Pair(r) \notin related
        /\ related' = related \cup {Pair(r)} /\ Decide(r, "ACCEPTED")
     \/ phase[r] = "insert" /\ Pair(r) \in related /\ UNCHANGED <<suggestion, related, crossed>>
     \/ phase[r] = "update" /\ Decide(r, "ACCEPTED") /\ UNCHANGED related
  /\ Goto(r, "done")
  /\ UNCHANGED <<items, added>>

CommitDismiss(r) ==
  /\ phase[r] = "dismiss"
  /\ Decide(r, "DISMISSED")
  /\ Goto(r, "done")
  /\ UNCHANGED <<related, items, added>>

-----------------------------------------------------------------------------

Next ==
  \E r \in Requests :
    \/ Answer(r) \/ Look(r) \/ Flush(r) \/ CommitSuggestions(r) \/ Fail(r)
    \/ ReadSuggestion(r) \/ LookForRelation(r) \/ CommitAccept(r) \/ CommitDismiss(r)

Spec == Init /\ [][Next]_vars

(* "an AI-originated relation is always traceable back to a human Accept"  *)
(* (ai.py:300): what is accepted is related; what is related was accepted  *)
(* and still says so, unless a dismissal that had not seen the acceptance  *)
(* has been written over it; and no new answer of the model reopens it.    *)
RelationIsADecision ==
  \A p \in Pairs :
    /\ suggestion[p] = "ACCEPTED" => p \in related
    /\ p \in related => \/ suggestion[p] = "ACCEPTED"
                        \/ suggestion[p] = "DISMISSED" /\ p \in crossed
=============================================================================
