CONSTANTS
  Jobs = {j1}
  Sweepers = {s1, s2}
  MaxHorses = 1
  NoJob = NoJob
  Faults = {"crash", "publishError"}
SPECIFICATION Spec
INVARIANT HooksSeeTerminalJob
PROPERTIES
 CancelBeforePickupIsFinal
 SweepSparesRunningTools
