----------------------------- MODULE Components -----------------------------
(***************************************************************************)
(* The components that share no state with one another, one of them per    *)
(* behaviour: subject is the one that runs, and the state of the others    *)
(* stands still.                                                           *)
(***************************************************************************)
EXTENDS Integers, FiniteSets, Sequences

CONSTANTS
  Workers, Urls, HasTool, MaxKills, MaxBlips, MaxQueue, NoUrl, Nobody,
  Labs, LabRequests, MaxLabFailures, NoLab,
  Calls, max_requests, window, MaxRedisFailures, MaxTime,
  MaxJobs, Items, Values, Settings, LOOKBACK_LIMIT,
  CvssScores, EpssScores,
  Assets, Findings, Technologies, GraphJobs, AssetOf, Reports, Plugins, ToolOf, PortOf, NoPort, Mentions, CvesOf,
  Critical, Before, MAX_GRAPH_DEPTH, MAX_ATTACK_PATH_HOPS, MAX_ATTACK_PATHS, MAX_RAW_PATH_ROWS,
  ReviewedFindings, ReviewRequests, MaxItems

\* Workers and requests are finitely many, a window lasts (60 seconds as
\* configured), a job has its profile and params, scores are percentages, and
\* the bounds are numbers.
ASSUME ComponentsAssumption ==
  /\ IsFiniteSet(Workers) /\ IsFiniteSet(LabRequests)
  /\ window \in Nat \ {0}
  /\ Settings # {} /\ LOOKBACK_LIMIT \in Nat
  /\ CvssScores \subseteq 0 .. 100 /\ EpssScores \subseteq 0 .. 100
  /\ {MaxKills, MaxBlips, MaxLabFailures, MaxRedisFailures, MaxTime, MaxJobs, MaxItems} \subseteq Nat

\* A finding is one job's, and ids are in one order or the other.  A node is
\* named by its kind and its id, so what is of two kinds is two nodes; there
\* are finitely many of them.
ASSUME GraphAssumption ==
  /\ AssetOf \in [GraphJobs -> Assets] /\ Reports \in [GraphJobs -> SUBSET Findings]
  /\ Plugins \in [GraphJobs -> SUBSET Technologies]
  /\ \A j, k \in GraphJobs : j # k => Reports[j] \cap Reports[k] = {}
  /\ \A f, g \in Findings : f # g => (<<f, g>> \in Before <=> <<g, f>> \notin Before)
  /\ \A n \in Assets \cup Findings : <<n, n>> \notin Before
  /\ IsFiniteSet(Assets) /\ IsFiniteSet(Findings) /\ IsFiniteSet(Technologies)
  /\ Assets \cap (Findings \cup Technologies) = {}
  /\ \A f \in Findings : PortOf[f] \notin Assets /\ f \notin CvesOf[f] /\ IsFiniteSet(CvesOf[f])
  /\ {MAX_GRAPH_DEPTH, MAX_ATTACK_PATH_HOPS, MAX_ATTACK_PATHS} \subseteq Nat

VARIABLES
  subject,
  call, busy, queue, misses, forgotten, kills, blips,
  container, networks, request, made, unmade, labFailures,
  key, callPhase, current, redisFailures, time,
  tool, setting, jobPhase, result, events, jobsOverlapped,
  inputs,
  phase, known, draft, findings, technologies, relations, edges, overlapped,
  suggestion, related, reviewPhase, items, added, crossed

kaliVars == <<call, busy, queue, misses, forgotten, kills, blips>>
labVars == <<container, networks, request, made, unmade, labFailures>>
limiterVars == <<key, callPhase, current, redisFailures, time>>
diffVars == <<tool, setting, jobPhase, result, events, jobsOverlapped>>
graphVars == <<phase, known, draft, findings, technologies, relations, edges, overlapped>>
reviewVars == <<suggestion, related, reviewPhase, items, added, crossed>>

vars == <<subject, kaliVars, labVars, limiterVars, diffVars, inputs, graphVars, reviewVars>>

K == INSTANCE KaliDispatch
L == INSTANCE LabManager WITH Requests <- LabRequests, MaxFailures <- MaxLabFailures, failures <- labFailures
R == INSTANCE RateLimiter WITH MaxFailures <- MaxRedisFailures, phase <- callPhase, failures <- redisFailures
D == INSTANCE DiffEngine WITH phase <- jobPhase, overlapped <- jobsOverlapped
S == INSTANCE RiskScore
G == INSTANCE SecurityGraph WITH Jobs <- GraphJobs
A == INSTANCE AISuggestions WITH Findings <- ReviewedFindings, Requests <- ReviewRequests, phase <- reviewPhase

StillKali == call = "idle" /\ busy = "idle" /\ queue = "idle" /\ misses = "idle" /\ forgotten = "idle" /\ kills = "idle" /\ blips = "idle"
StillLab == container = "idle" /\ networks = "idle" /\ request = "idle" /\ made = "idle" /\ unmade = "idle" /\ labFailures = "idle"
StillLimiter == key = "idle" /\ callPhase = "idle" /\ current = "idle" /\ redisFailures = "idle" /\ time = "idle"
StillDiff == tool = "idle" /\ setting = "idle" /\ jobPhase = "idle" /\ result = "idle" /\ events = "idle" /\ jobsOverlapped = "idle"
StillScore == inputs = "idle"
StillGraph == phase = "idle" /\ known = "idle" /\ draft = "idle" /\ findings = "idle" /\ technologies = "idle" /\ relations = "idle" /\ edges = "idle" /\ overlapped = "idle"
StillReview == suggestion = "idle" /\ related = "idle" /\ reviewPhase = "idle" /\ items = "idle" /\ added = "idle" /\ crossed = "idle"

Init ==
  \/ subject = "kali" /\ K!Init /\ StillLab /\ StillLimiter /\ StillDiff /\ StillScore /\ StillGraph /\ StillReview
  \/ subject = "lab" /\ L!Init /\ StillKali /\ StillLimiter /\ StillDiff /\ StillScore /\ StillGraph /\ StillReview
  \/ subject = "limiter" /\ R!Init /\ StillKali /\ StillLab /\ StillDiff /\ StillScore /\ StillGraph /\ StillReview
  \/ subject = "diff" /\ D!Init /\ StillKali /\ StillLab /\ StillLimiter /\ StillScore /\ StillGraph /\ StillReview
  \/ subject = "score" /\ S!Init /\ StillKali /\ StillLab /\ StillLimiter /\ StillDiff /\ StillGraph /\ StillReview
  \/ subject = "graph" /\ G!Init /\ StillKali /\ StillLab /\ StillLimiter /\ StillDiff /\ StillScore /\ StillReview
  \/ subject = "review" /\ A!Init /\ StillKali /\ StillLab /\ StillLimiter /\ StillDiff /\ StillScore /\ StillGraph

Next ==
  /\ UNCHANGED subject
  /\ \/ subject = "kali" /\ K!Next
        /\ UNCHANGED <<labVars, limiterVars, diffVars, inputs, graphVars, reviewVars>>
     \/ subject = "lab" /\ L!Next
        /\ UNCHANGED <<kaliVars, limiterVars, diffVars, inputs, graphVars, reviewVars>>
     \/ subject = "limiter" /\ R!Next
        /\ UNCHANGED <<kaliVars, labVars, diffVars, inputs, graphVars, reviewVars>>
     \/ subject = "diff" /\ D!Next
        /\ UNCHANGED <<kaliVars, labVars, limiterVars, inputs, graphVars, reviewVars>>
     \/ subject = "score" /\ S!Next
        /\ UNCHANGED <<kaliVars, labVars, limiterVars, diffVars, graphVars, reviewVars>>
     \/ subject = "graph" /\ G!Next
        /\ UNCHANGED <<kaliVars, labVars, limiterVars, diffVars, inputs, reviewVars>>
     \/ subject = "review" /\ A!Next
        /\ UNCHANGED <<kaliVars, labVars, limiterVars, diffVars, inputs, graphVars>>

Spec == Init /\ [][Next]_vars

\* The domains of the component that runs.
TypeOK ==
  /\ subject = "kali" => K!TypeOK
  /\ subject = "lab" => L!TypeOK
  /\ subject = "limiter" => R!TypeOK
  /\ subject = "diff" => D!TypeOK
  /\ subject = "score" => S!TypeOK
  /\ subject = "graph" => G!TypeOK
  /\ subject = "review" => A!TypeOK

(* A busy counter is the calls in flight, but for killed horses and Redis.  *)
CountersAreCalls == subject = "kali" => K!CountersAreCalls

(* Overlapping resets leave a lab that was made.                           *)
LabOutlivesItsResets == subject = "lab" => L!LabOutlivesItsResets

(* A counter that stays for ever is a failed command's.                    *)
KeyExpires == subject = "limiter" => R!KeyExpires

(* Two scans' difference is reported between them.                         *)
NoChangeIsLost == subject = "diff" => D!NoChangeIsLost

(* More evidence never lowers a score.                                     *)
MoreEvidenceNeverLowers == [][subject = "score" => S!calculate_risk(inputs') >= S!calculate_risk(inputs)]_vars

(* local_graph() is the neighbourhood.                                     *)
NeighbourhoodIsComplete == subject = "graph" => G!NeighbourhoodIsComplete

(* Attack paths are simple, and the shortest are kept.                     *)
ShortestPathsAreKept == subject = "graph" => G!ShortestPathsAreKept

(* Relations and graph are those of all that is known.                     *)
GraphIsUpToDate == subject = "graph" => G!GraphIsUpToDate

(* A relation the model suggested is a decision.                           *)
RelationIsADecision == subject = "review" => A!RelationIsADecision
=============================================================================
