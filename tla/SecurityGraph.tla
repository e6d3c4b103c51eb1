--------------------------- MODULE SecurityGraph ---------------------------
(***************************************************************************)
(* What the jobs make known of the assets of one project: findings and     *)
(* their relations (findings/correlation.py), technologies                 *)
(* (assets/activity.py) and the edges of the graph (graph/builder.py),     *)
(* each job in one transaction that sees only what others have committed;  *)
(* and the walks over these edges (graph/queries.py).                      *)
(***************************************************************************)
EXTENDS Naturals, FiniteSets, Sequences, SequencesExt

CONSTANTS
  Assets, Findings, Technologies,
  Jobs,
  AssetOf,   \* the asset a job runs against
  Reports,   \* what the job's tool finds: findings
  Plugins,   \* and, whatweb's, the technologies
  ToolOf,    \* source_tool of each finding
  PortOf,    \* its port, from its evidence or its target: an open one, of a port scan
  NoPort,
  Mentions,  \* technologies its title or description names
  CvesOf,
  Critical,  \* the assets of criticality CRITICAL
  Before,    \* the order of ids as strings: pairs of assets, of findings
  MAX_GRAPH_DEPTH, MAX_ATTACK_PATH_HOPS, MAX_ATTACK_PATHS,
  MAX_RAW_PATH_ROWS

VARIABLES
  phase,         \* progress of each job
  known,         \* Asset.technologies in the session of each job
  draft,         \* what the transaction of each job has added
  findings,      \* committed findings
  technologies,  \* Asset.technologies
  relations,     \* FindingRelations
  edges,         \* graph_edges
  overlapped     \* some job was committed behind the back of another

vars == <<phase, known, draft, findings, technologies, relations, edges, overlapped>>

Edge(from, to, relation) == [from |-> from, to |-> to, relation |-> relation]
Empty == [relations |-> {}, edges |-> {}]
Rules == {"RULE_NMAP_WHATWEB_PORT", "RULE_NMAP_NUCLEI_PORT", "RULE_SHARED_TECHNOLOGY"}
Relations == {r \in [left : Findings, right : Findings, rule : Rules] : <<r.left, r.right>> \in Before}
Services == {PortOf[f] : f \in Findings} \ {NoPort}
Cves == UNION {CvesOf[f] : f \in Findings}
Nodes == Assets \cup Findings \cup Technologies \cup Services \cup Cves
Kinds == {"HAS_FINDING", "EXPOSES", "REFERENCES_CVE", "USES_TECHNOLOGY", "RELATED_TO"}
Edges == {e \in [from : Nodes, to : Nodes, relation : Kinds] : e.from # e.to}

TypeOK ==
  /\ phase \in [Jobs -> {"queued", "running", "built", "success", "failed"}]
  /\ known \in [Jobs -> SUBSET Technologies]
  /\ draft \in [Jobs -> [relations : SUBSET Relations, edges : SUBSET Edges]]
  /\ findings \subseteq Findings
  /\ technologies \in [Assets -> SUBSET Technologies]
  /\ relations \subseteq Relations
  /\ edges \subseteq Edges
  /\ overlapped \in BOOLEAN

Init ==
  /\ phase = [j \in Jobs |-> "queued"]
  /\ known = [j \in Jobs |-> {}]
  /\ draft = [j \in Jobs |-> Empty]
  /\ findings = {}
  /\ technologies = [a \in Assets |-> {}]
  /\ relations = {}
  /\ edges = {}
  /\ overlapped = FALSE

\* The asset whose jobs produce f, as Finding.job_id has it.
Owner(f) == AssetOf[CHOOSE j \in Jobs : f \in Reports[j]]
OfAsset(a, F) == {f \in F : Owner(f) = a}

(***************************************************************************)
(* correlate_asset_findings() over the findings F of one asset.            *)
(***************************************************************************)
With(tool, F) == {f \in F : ToolOf[f] = tool}
Ported(F) == {f \in F : PortOf[f] # NoPort}

\* Deviation: the pair is stored as the rule gives it.
AsGiven(f, g, rule) == [left |-> f, right |-> g, rule |-> rule]

\* _create_relation_if_new() keeps the smaller id to the left.
Ordered(f, g, rule) ==
  IF <<f, g>> \in Before THEN [left |-> f, right |-> g, rule |-> rule]
  ELSE [left |-> g, right |-> f, rule |-> rule]

SamePort(other, rule, F) ==
  {Ordered(p[1], p[2], rule) :
     p \in {q \in Ported(With("nmap", F)) \X With(other, F) : PortOf[q[1]] = PortOf[q[2]]}}

SharedTechnology(F) ==
  {Ordered(p[1], p[2], "RULE_SHARED_TECHNOLOGY") :
     p \in {q \in With("whatweb", F) \X (F \ With("whatweb", F)) : Mentions[q[1]] \cap Mentions[q[2]] # {}}}

correlate_asset_findings(F) ==
  SamePort("whatweb", "RULE_NMAP_WHATWEB_PORT", F)
    \cup SamePort("nuclei", "RULE_NMAP_NUCLEI_PORT", F)
    \cup SharedTechnology(F)

(***************************************************************************)
(* build_graph_for_asset(): the edges it upserts, from the findings F of   *)
(* the asset, the relations R and the technologies T of all assets.        *)
(***************************************************************************)
FindingEdges(a, F) ==
  {Edge(a, f, "HAS_FINDING") : f \in F} \cup
    {Edge(a, PortOf[f], "EXPOSES") : f \in Ported(With("nmap", F) \cup With("masscan", F))}
CveEdges(F) == UNION {{Edge(f, c, "REFERENCES_CVE") : c \in CvesOf[f]} : f \in F}
TechnologyEdges(a, T) == {Edge(a, t, "USES_TECHNOLOGY") : t \in T[a]}
RelationEdges(F, R) == {Edge(r.left, r.right, "RELATED_TO") : r \in {q \in R : q.left \in F \/ q.right \in F}}
AssetEdges(a, T) ==
  {Edge(p[1], p[2], "RELATED_TO") :
     p \in {q \in Before \cap (Assets \X Assets) : a \in {q[1], q[2]} /\ T[q[1]] \cap T[q[2]] # {}}}

build_graph_for_asset(a, F, R, T) ==
  FindingEdges(a, F) \cup CveEdges(F) \cup TechnologyEdges(a, T) \cup RelationEdges(F, R) \cup AssetEdges(a, T)

(***************************************************************************)
(* Jobs.                                                                   *)
(***************************************************************************)

\* _execute_job() loads the asset before the tool runs.
Load(j) ==
  /\ phase[j] = "queued"
  /\ known' = [known EXCEPT ![j] = technologies[AssetOf[j]]]
  /\ phase' = [phase EXCEPT ![j] = "running"]
  /\ UNCHANGED <<draft, findings, technologies, relations, edges, overlapped>>

\* record_asset_activity() merges into what was loaded.
Merged(j) == known[j] \cup Plugins[j]

\* Deviation: the graph is built before the activity is recorded.
TechnologiesBefore(j) ==
  [technologies EXCEPT ![AssetOf[j]] = known[j]]

TechnologiesSeen(j) ==
  [technologies EXCEPT ![AssetOf[j]] = Merged(j)]

FindingsSeen(j) == OfAsset(AssetOf[j], findings \cup Reports[j])

\* The statements after the tool's success, up to the commit.
Build(j) ==
  LET R == relations \cup correlate_asset_findings(FindingsSeen(j)) IN
  /\ phase[j] = "running"
  /\ draft' = [draft EXCEPT ![j] =
       [relations |-> R \ relations,
        edges |-> build_graph_for_asset(AssetOf[j], FindingsSeen(j), R, TechnologiesSeen(j))]]
  /\ phase' = [phase EXCEPT ![j] = "built"]
  /\ UNCHANGED <<known, findings, technologies, relations, edges, overlapped>>

\* What j commits, k has not seen and will not see.
Overtakes(j, k) ==
  \/ phase[k] = "built"
  \/ phase[k] = "running" /\ Plugins[j] # {} /\ AssetOf[k] = AssetOf[j]

Commit(j) ==
  /\ phase[j] = "built"
  /\ findings' = findings \cup Reports[j]
  /\ technologies' =
       IF Plugins[j] = {} THEN technologies ELSE [technologies EXCEPT ![AssetOf[j]] = Merged(j)]
  /\ relations' = relations \cup draft[j].relations
  /\ edges' = edges \cup draft[j].edges
  /\ phase' = [phase EXCEPT ![j] = "success"]
  /\ draft' = [draft EXCEPT ![j] = Empty]
  /\ overlapped' = (overlapped \/ \E k \in Jobs \ {j} : Overtakes(j, k))
  /\ UNCHANGED known

Fail(j) ==
  /\ phase[j] \in {"running", "built"}
  /\ phase' = [phase EXCEPT ![j] = "failed"]
  /\ draft' = [draft EXCEPT ![j] = Empty]
  /\ UNCHANGED <<known, findings, technologies, relations, edges, overlapped>>

\* One asset's turn of run_graph_rebuild().
Rebuild(a) ==
  /\ edges' = edges \cup build_graph_for_asset(a, OfAsset(a, findings), relations, technologies)
  /\ UNCHANGED <<phase, known, draft, findings, technologies, relations, overlapped>>

Next ==
  \/ \E j \in Jobs : Load(j) \/ Build(j) \/ Commit(j) \/ Fail(j)
  \/ \E a \in Assets : Rebuild(a)

Spec == Init /\ [][Next]_vars

(***************************************************************************)
(* Queries: bidirectional_edges, the recursive traversal, and what is made *)
(* of its rows.                                                            *)
(***************************************************************************)
Other(e, n) == IF n = e.from THEN e.to ELSE e.from

\* Deviation: edges are walked only the way they point.
Outgoing(n) == {e \in edges : n = e.from}

bidirectional_edges(n) == {e \in edges : n \in {e.from, e.to}}

\* A row with one more edge, to a node it has not visited.
Extend(r) ==
  LET n == Last(r.visited) IN
  {[path |-> Append(r.path, e), visited |-> Append(r.visited, Other(e, n))] :
     e \in {d \in bidirectional_edges(n) : Other(d, n) \notin ToSet(r.visited)}}

Rows(seed) ==
  LET rows[hop \in Nat] ==
        IF hop = 0 THEN {[path |-> <<>>, visited |-> <<seed>>]}
        ELSE UNION {Extend(r) : r \in rows[hop - 1]} IN
  rows

traversal(seed, max_depth) == UNION {Rows(seed)[hop] : hop \in 1 .. max_depth}

local_graph(seed, depth) == UNION {ToSet(r.path) : r \in traversal(seed, depth)}

\* LIMIT :row_cap leaves every row.  What it leaves else is not modelled.
AllRows(seed, max_hops) == Cardinality(traversal(seed, max_hops)) <= MAX_RAW_PATH_ROWS

find_paths_to_critical_assets(seed, max_hops) ==
  {r \in traversal(seed, max_hops) : Last(r.visited) \in Critical}

find_paths_between(from, to, max_hops) ==
  IF from = to THEN {} ELSE {r \in traversal(from, max_hops) : Last(r.visited) = to}

\* _build_paths_response(): of MAX_ATTACK_PATHS rows, the shortest, those that
\* are kept whatever the order of rows of one length.
truncated(rows) == Cardinality(rows) > MAX_ATTACK_PATHS
Kept(rows) ==
  {r \in rows : Cardinality({q \in rows : Len(q.path) <= Len(r.path)}) <= MAX_ATTACK_PATHS}

(***************************************************************************)
(* Properties.                                                             *)
(***************************************************************************)

\* The nodes at most h hops from a seed, and no row of the code.
Touching(B) == {e \in edges : {e.from, e.to} \cap B # {}}

Balls(seed) ==
  LET ball[h \in Nat] ==
        IF h = 0 THEN {seed}
        ELSE ball[h - 1] \cup UNION {{e.from, e.to} : e \in Touching(ball[h - 1])} IN
  ball

(* local_graph() "returns every edge (and the nodes they touch) within     *)
(* depth hops" and no other (queries.py:91-96), though its walks never     *)
(* come back to a node: a cycle costs no edge of the neighbourhood.        *)
NeighbourhoodIsComplete ==
  \A seed \in Assets, depth \in 1 .. MAX_GRAPH_DEPTH :
    local_graph(seed, depth) = Touching(Balls(seed)[depth - 1])

(* The attack paths to critical assets are walks without a cycle, and      *)
(* every critical asset within reach ends a shortest one, unless the       *)
(* response says that it is truncated (queries.py:194-295); and the paths  *)
(* between two nodes are the same from either end (queries.py:298-318).    *)
(* Both while the rows are within the query's LIMIT.                       *)
ShortestPathsAreKept ==
  /\ \A a \in Assets, f \in Findings :
       AllRows(a, MAX_ATTACK_PATH_HOPS) /\ AllRows(f, MAX_ATTACK_PATH_HOPS) =>
         {r.path : r \in find_paths_between(a, f, MAX_ATTACK_PATH_HOPS)}
           = {Reverse(r.path) : r \in find_paths_between(f, a, MAX_ATTACK_PATH_HOPS)}
  /\ \A seed \in Assets \cup Findings :
       LET rows == find_paths_to_critical_assets(seed, MAX_ATTACK_PATH_HOPS) IN
       /\ \A r \in rows : IsInjective(r.visited)
       /\ AllRows(seed, MAX_ATTACK_PATH_HOPS) =>
            \A a \in Critical \ {seed}, h \in 1 .. MAX_ATTACK_PATH_HOPS :
              a \in Balls(seed)[h] \ Balls(seed)[h - 1] =>
                truncated(rows) \/ \E r \in Kept(rows) : Last(r.visited) = a /\ Len(r.path) = h

Settled == \A j \in Jobs : phase[j] \in {"queued", "success", "failed"}

(* Whatever the order the jobs of the assets came in, the relations and    *)
(* the graph are those of all that is known, each relation once, if no job *)
(* was committed after another had read what it changed                    *)
(* (builder.py:70-74, correlation.py:118-140, tasks.py:187-219).           *)
GraphIsUpToDate ==
  Settled /\ ~overlapped =>
    /\ \A a \in Assets :
         /\ correlate_asset_findings(OfAsset(a, findings)) \subseteq relations
         /\ build_graph_for_asset(a, OfAsset(a, findings), relations, technologies) \subseteq edges
    /\ \A r \in relations : [left |-> r.right, right |-> r.left, rule |-> r.rule] \notin relations
=============================================================================
