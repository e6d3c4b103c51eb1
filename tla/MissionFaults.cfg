CONSTANTS
  MaxSteps = 2
  MaxPlan = 2
  Jobs = {j1, j2, j3}
  Advancers = {a1, a2}
  MaxCrashes = 1
  MaxRewrites = 1
  Faults = {"crash", "slow"}
  NoJob = NoJob
  NoOne = NoOne
SPECIFICATION Spec
INVARIANTS
 NothingBeforeApproval
 ExecutedStepHasItsJob
PROPERTY TerminalNeverResumes
SYMMETRY Symmetry
