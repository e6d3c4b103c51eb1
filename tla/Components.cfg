CONSTANTS
  Workers = {w1, w2}
  Urls = {u1, u2, u3}
  HasTool = {u1, u2}
  MaxKills = 1
  MaxBlips = 1
  MaxQueue = 2
  NoUrl = NoUrl
  Nobody = Nobody
  Labs = {l1}
  LabRequests = {r1, r2, r3, r4}
  MaxLabFailures = 1
  NoLab = NoLab
  Calls = {c1, c2, c3, c4}
  max_requests = 2
  window = 2
  MaxRedisFailures = 1
  MaxTime = 4
  MaxJobs = 3
  Items = {i1}
  Values = {"closed", "a", "b"}
  Settings = {s1, s2}
  LOOKBACK_LIMIT = 2
  CvssScores = {0, 31, 74, 100}
  EpssScores = {0, 7, 50, 97, 100}
  f1 = f1
  f2 = f2
  f3 = f3
  f4 = f4
  f5 = f5
  t1 = t1
  t2 = t2
  a1 = a1
  a2 = a2
  p1 = p1
  cve = cve
  j1 = j1
  j2 = j2
  j3 = j3
  j4 = j4
  j5 = j5
  Assets = {a1, a2}
  Findings = {f1, f2, f3, f4, f5}
  Technologies = {t1, t2}
  GraphJobs = {j1, j2, j3, j4, j5}
  AssetOf <- AssetOfJob
  Reports <- ReportsOfJob
  Plugins <- PluginsOfJob
  ToolOf <- ToolOfFinding
  PortOf <- PortOfFinding
  NoPort = NoPort
  Mentions <- MentionsOfFinding
  CvesOf <- CvesOfFinding
  Critical = {a2}
  Before <- IdOrder
  MAX_GRAPH_DEPTH = 2
  MAX_ATTACK_PATH_HOPS = 3
  MAX_ATTACK_PATHS = 3
  MAX_RAW_PATH_ROWS = 40
  ReviewedFindings = {f1, f2}
  ReviewRequests = {r1, r2, r3, r4}
  MaxItems = 2
SPECIFICATION Spec
INVARIANTS
 TypeOK
 CountersAreCalls
 LabOutlivesItsResets
 KeyExpires
 NoChangeIsLost
 NeighbourhoodIsComplete
 ShortestPathsAreKept
 GraphIsUpToDate
 RelationIsADecision
PROPERTY MoreEvidenceNeverLowers
CHECK_DEADLOCK FALSE
