CONSTANTS
  MaxSteps = 2
  Jobs = {1, 2, 3, 4}
  Advancers = {a1, a2}
  MaxCrashes = 0
  Verdicts = {"met", "raises"}
  NoJob = NoJob
  NoOne = NoOne
SPECIFICATION FairSpec
PROPERTY RunEndsWhateverTheCondition
