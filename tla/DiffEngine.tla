----------------------------- MODULE DiffEngine -----------------------------
(***************************************************************************)
(* The diff engine (diff/engine.py, diff/service.py): a job that succeeds  *)
(* is compared with the latest comparable success created before it.  The  *)
(* jobs of one asset and one tool are created one after the other, run     *)
(* side by side, and end in any order.                                     *)
(***************************************************************************)
EXTENDS Naturals, FiniteSets, FiniteSetsExt

CONSTANTS
  MaxJobs,    \* bound: jobs, numbered as they are created
  Items,      \* ports, plugins, hosts or paths, as the tool has it
  Values,     \* what a result says of an item, "closed" among it
  Settings,   \* the profile and params of a job
  LOOKBACK_LIMIT

VARIABLES
  tool,       \* the tool of all these jobs
  setting,    \* profile and params of each job created
  phase,      \* progress of each job
  result,     \* Job.result
  events,     \* the AssetChangeEvents of each job
  overlapped  \* pairs of jobs of which the newer was compared before the older had ended

vars == <<tool, setting, phase, result, events, overlapped>>

Jobs == 1 .. MaxJobs
SUPPORTED_TOOLS == {"nmap", "whatweb", "sslscan", "gobuster"}
Fields == Items \cup {"http_status"}
Observations == Values \cup {"absent"}
Nothing == [i \in Fields |-> "absent"]

ChangeTypes ==
  {"PORT_OPENED", "SERVICE_CHANGED", "PORT_CLOSED", "TECHNOLOGY_ADDED", "TECHNOLOGY_CHANGED",
   "TECHNOLOGY_REMOVED", "CERTIFICATE_CHANGED", "HTTP_CHANGED", "OTHER"}

TypeOK ==
  /\ tool \in SUPPORTED_TOOLS
  /\ setting \in [Jobs -> Settings]
  /\ phase \in [Jobs -> {"none", "queued", "compared", "success", "failed"}]
  /\ result \in [Jobs -> [parsed : BOOLEAN, seen : [Fields -> Observations]]]
  /\ events \in [Jobs -> SUBSET [type : ChangeTypes, item : Fields, previous : Jobs]]
  /\ overlapped \subseteq Jobs \X Jobs

Init ==
  /\ tool \in SUPPORTED_TOOLS
  /\ setting = [j \in Jobs |-> CHOOSE s \in Settings : TRUE]
  /\ phase = [j \in Jobs |-> "none"]
  /\ result = [j \in Jobs |-> [parsed |-> TRUE, seen |-> Nothing]]
  /\ events = [j \in Jobs |-> {}]
  /\ overlapped = {}

(***************************************************************************)
(* The differs, from a result to a later one.                              *)
(***************************************************************************)
Present(r) == {i \in Items : r[i] # "absent"}
Status(r) == {i \in {"http_status"} : r[i] # "absent"}
Open(r) == {i \in Items : r[i] \notin {"absent", "closed"}}

Changes(type, items) == {[type |-> type, item |-> i] : i \in items}

Changed(old, new, items) == {i \in items : old[i] # new[i]}

diff_nmap(old, new) ==
  Changes("PORT_OPENED", Open(new) \ Open(old))
    \cup Changes("SERVICE_CHANGED", Changed(old, new, Open(old) \cap Open(new)))
    \cup Changes("PORT_CLOSED", Open(old) \ Open(new))

\* A status that was not there, or no longer is, is no change.
diff_whatweb(old, new) ==
  Changes("TECHNOLOGY_ADDED", Present(new) \ Present(old))
    \cup Changes("TECHNOLOGY_CHANGED", Changed(old, new, Present(old) \cap Present(new)))
    \cup Changes("TECHNOLOGY_REMOVED", Present(old) \ Present(new))
    \cup Changes("HTTP_CHANGED", Changed(old, new, Status(old) \cap Status(new)))

\* Nor is a host seen for the first time, or no longer.
diff_sslscan(old, new) ==
  Changes("CERTIFICATE_CHANGED", Changed(old, new, Present(old) \cap Present(new)))

\* Nor is the status of a path that is still there.
diff_gobuster(old, new) ==
  Changes("OTHER", (Present(new) \ Present(old)) \cup (Present(old) \ Present(new)))

diff_results(old, new) ==
  CASE tool = "nmap" -> diff_nmap(old, new)
    [] tool = "whatweb" -> diff_whatweb(old, new)
    [] tool = "sslscan" -> diff_sslscan(old, new)
    [] tool = "gobuster" -> diff_gobuster(old, new)

(***************************************************************************)
(* The jobs.                                                               *)
(***************************************************************************)
Create(j) ==
  /\ phase[j] = "none" /\ \A k \in 1 .. j - 1 : phase[k] # "none"
  /\ phase' = [phase EXCEPT ![j] = "queued"]
  /\ \E s \in Settings : setting' = [setting EXCEPT ![j] = s]
  /\ UNCHANGED <<tool, result, events, overlapped>>

Fail(j) ==
  /\ phase[j] \in {"queued", "compared"}
  /\ phase' = [phase EXCEPT ![j] = "failed"]
  /\ events' = [events EXCEPT ![j] = {}]
  /\ UNCHANGED <<tool, setting, result, overlapped>>

\* The successes created before j that are committed.
Earlier(j) == {k \in 1 .. j - 1 : phase[k] = "success"}

LookedAt(j) == {k \in Earlier(j) : Cardinality({m \in Earlier(j) : m > k}) < LOOKBACK_LIMIT}

\* Deviation: the latest job, whatever its profile and params.
AnyCandidate(j) == LookedAt(j)

Comparable(j) == {k \in LookedAt(j) : setting[k] = setting[j]}

find_previous_comparable_job(j) == Max(Comparable(j))

\* What the tool may say of a port, plugin, host or path, or of the HTTP status.
Said(i) ==
  IF i \notin Items THEN IF tool = "whatweb" THEN Observations \ {"closed"} ELSE {"absent"}
  ELSE IF tool = "nmap" THEN Observations ELSE Observations \ {"closed"}

\* Results of an exit code 0.  XML the parser cannot read gives an empty one,
\* marked parse_error; the other parsers pass over what they cannot read.
Results ==
  {[parsed |-> TRUE, seen |-> seen] : seen \in {f \in [Fields -> Observations] : \A i \in Fields : f[i] \in Said(i)}}
    \cup {[parsed |-> FALSE, seen |-> Nothing] : t \in {tool} \cap {"nmap", "sslscan"}}

generate_change_events(j, r) ==
  IF Comparable(j) = {} THEN {}
  ELSE LET p == find_previous_comparable_job(j) IN
         {[type |-> c.type, item |-> c.item, previous |-> p] : c \in diff_results(result[p].seen, r.seen)}

\* The tool's run and the comparison, in the transaction Commit(j) ends.
Execute(j) ==
  /\ phase[j] = "queued"
  /\ \E r \in Results :
       /\ result' = [result EXCEPT ![j] = r]
       /\ events' = [events EXCEPT ![j] = generate_change_events(j, r)]
  /\ phase' = [phase EXCEPT ![j] = "compared"]
  /\ overlapped' = overlapped \cup
       {<<k, j>> : k \in {m \in 1 .. j - 1 : phase[m] \notin {"success", "failed"}}}
  /\ UNCHANGED <<tool, setting>>

Commit(j) ==
  /\ phase[j] = "compared"
  /\ phase' = [phase EXCEPT ![j] = "success"]
  /\ UNCHANGED <<tool, setting, result, events, overlapped>>

Next == \E j \in Jobs : Create(j) \/ Execute(j) \/ Commit(j) \/ Fail(j)

Spec == Init /\ [][Next]_vars

(***************************************************************************)
(* Properties.                                                             *)
(***************************************************************************)

\* What the changes of a tool are about.
View(j, i) ==
  LET v == result[j].seen[i] IN
  CASE tool = "nmap" -> IF v = "closed" THEN "absent" ELSE v
    [] tool = "gobuster" -> IF v = "absent" THEN v ELSE "present"
    [] OTHER -> v

Successes(s) == {j \in Jobs : phase[j] = "success" /\ setting[j] = s}

\* Each success of the setting from j to k was compared with the one before.
Unbroken(j, k, s) ==
  \A m \in Successes(s) : j < m /\ m <= k =>
    /\ \A n \in 1 .. m - 1 : <<n, m>> \notin overlapped
    /\ \E n \in Successes(s) : n < m /\ Cardinality({x \in Earlier(m) : x > n}) < LOOKBACK_LIMIT

Compared == IF tool = "whatweb" THEN Fields ELSE Items

\* The successes from j to k were all parsed, and have what is reported only
\* where both results have it: a certificate, and the HTTP status.
Seamless(j, k, s, i) ==
  \A m \in Successes(s) : j <= m /\ m <= k =>
    result[m].parsed /\ (tool = "sslscan" \/ i \notin Items => View(m, i) # "absent")

(* What two scans with the same settings show differently is reported by   *)
(* one of the scans from the first to the second, as long as no job was    *)
(* compared while an older one still ran, and none was pushed out of the   *)
(* last LOOKBACK_LIMIT (diff/service.py:19-69, diff/engine.py:44-238).  A  *)
(* certificate or an HTTP status must have been seen all the way: of 200,  *)
(* none and 500 no job says anything.  A result that failed to parse is    *)
(* promised no comparison (diff/service.py:50); the code makes one.        *)
NoChangeIsLost ==
  \A s \in Settings : \A j \in Successes(s), k \in Successes(s) : \A i \in Compared :
    j < k /\ View(j, i) # View(k, i) /\ Unbroken(j, k, s) /\ Seamless(j, k, s, i)
      => \E m \in Successes(s) : j < m /\ m <= k /\ \E e \in events[m] : e.item = i
=============================================================================
