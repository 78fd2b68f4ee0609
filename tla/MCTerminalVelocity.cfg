CONSTANTS
  Markets = {m1, m2}
  Tasks = {t1, t2}
  NoTask = NoTask
SPECIFICATION TVFairSpec
CHECK_DEADLOCK FALSE
INVARIANT OneMonitorEach
PROPERTY NoStrikeAfterStop
PROPERTY ExpiredSessionEnds
