CONSTANTS
  MaxSteps = 2
  MaxPlan = 2
  Jobs = {j1, j2}
  Advancers = {a1}
  MaxCrashes = 0
  MaxRewrites = 1
  Faults = {}
  NoJob = NoJob
  NoOne = NoOne
SPECIFICATION Spec
PROPERTY KillSwitch
