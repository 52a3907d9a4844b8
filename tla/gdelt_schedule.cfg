CONSTANTS
  Interval = 10
  InitialBackoff = 1
  MaxBackoff = 10
  Period = 30
  MaxCycle = 3
SPECIFICATION ScheduleSpec
INVARIANT NoExportMissed
