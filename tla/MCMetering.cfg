SPECIFICATION Spec
CONSTANTS
  Turns = {t1, t2}
  Usages <- MCUsages
  Rate <- MCRate
  Unit = 2
  Budget = 5
  Retention = 1
  Periods <- MCPeriods
  DayLength = 2
  LastHour = 3
SYMMETRY MCSymmetry
CHECK_DEADLOCK FALSE
INVARIANTS TypeOK CountersLeadRows AlertIsTrue ReportFitsTogether
