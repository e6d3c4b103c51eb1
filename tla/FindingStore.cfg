CONSTANTS
  Signatures = {s1, s2}
  Jobs = {j1, j2}
  Requests = {r1}
  MaxObservations = 2
  Times = {0, 2}
  OldStatuses = {"IN_REVIEW", "REMEDIATED"}
  NoOne = NoOne
SPECIFICATION FairSpec
INVARIANTS
 SeenSpansObservations
PROPERTIES
 KeepsLedger
 RescanRespectsDecision
 EveryTransactionEnds
CHECK_DEADLOCK FALSE
