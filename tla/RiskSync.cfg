CONSTANTS
  c1 = c1
  f1 = f1
  f2 = f2
  Cves = {c1}
  Findings = {f1, f2}
  CvesOf <- MCCvesOf
  Jobs = {j1}
  Syncs = {y1}
  Patches = {p1}
  Criticalities = {"MEDIUM", "HIGH"}
  MaxScore = 2
  Hints = {0, 1}
  NvdScores = {0, 2}
  EpssScores = {0, 1}
  MaxNews = 1
  MaxMishaps = 1
  None = None
SPECIFICATION FairSpec
INVARIANTS
 TypeOK
 KevIsNeverGuessed
 
