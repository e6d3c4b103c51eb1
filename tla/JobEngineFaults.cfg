CONSTANTS
  Jobs = {j1}
  Sweepers = {s1, s2}
  MaxHorses = 1
  NoJob = NoJob
  Faults = {"crash", "redisLoss", "dbError", "publishError"}
SPECIFICATION FairSpec
INVARIANTS
 TypeOK
 RunsAtMostOnce
 SuccessIsBackedByARun
PROPERTIES
 KeepsLifecycle
 EveryJobSettles
