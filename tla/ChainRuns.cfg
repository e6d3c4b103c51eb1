CONSTANTS
  MaxSteps = 2
  Jobs = {1, 2, 3, 4}
  Advancers = {a1, a2}
  MaxCrashes = 1
  Verdicts = {"always", "met", "unmet", "raises"}
  NoJob = NoJob
  NoOne = NoOne
SPECIFICATION FairSpec
INVARIANTS
 ExecutedStepHasItsJob
 OneJobPerStep
 CompletedMeansSuccessOrUnmet
PROPERTIES
 NoJobAfterTheEnd
 RunEnds
