CONSTANTS
  MaxSteps = 2
  MaxPlan = 2
  Jobs = {j1,j2,j3,j4}
  Advancers = {a1, a2}
  MaxCrashes = 1
  MaxRewrites = 0
  Faults = {"crash"}
  NoJob = NoJob
  NoOne = NoOne
SPECIFICATION FairSpec
INVARIANTS
 OneJobPerStep
 CompletedMeansDone
PROPERTIES
 StepsRunInOrder
 MissionEnds
