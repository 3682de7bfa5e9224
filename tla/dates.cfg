SPECIFICATION Spec
CONSTANTS
  Cases <- SomeCases
  YearMax = 2020
  SysMin <- Earliest
  SysMax = 1000000000
INVARIANTS
  DaysAddUp
  MonthsRoundTrip
  ZoneTimeline
  LocalTimesResolve
  ClocksAgree
CHECK_DEADLOCK FALSE
