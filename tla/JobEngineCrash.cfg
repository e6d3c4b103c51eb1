CONSTANTS
  Jobs = {j1}
  Sweepers = {s1}
  MaxHorses = 1
  NoJob = NoJob
  Faults = {"crash"}
SPECIFICATION FairSpec
PROPERTY CrashedJobIsReconciled
