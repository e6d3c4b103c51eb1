CHECK_DEADLOCK FALSE
CONSTANTS
  Schedules = {s1}
  Tickers = {t1, t2}
  MaxFailures = 2
  MaxMishaps = 1
  NoSchedule = NoSchedule
  NoEdit = NoEdit
SPECIFICATION FairSpec
INVARIANTS
 OneClaimPerTurn
PROPERTIES
 BrokenScheduleIsPaused
 FitScheduleFires
