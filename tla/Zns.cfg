CONSTANTS
  NR_ZONES = 2
  CAPACITY = 3
  MAX_OPEN = 1
  MAX_ACTIVE = 2
  MAX_ZRWA = 1
  ONESHOT = 2
  ZONE_WB = 2
  LBAS_PER_ZRWA = 1
  LBAS_PER_ZRWAFG = 1
  ZRWA_BUFFER = 1
  WRITE_UNIT = 1
  MAX_NR_LBA = 2
  U64 = 64
  MAX_ZDRAIN = 1
SPECIFICATION Spec
INVARIANTS ResourcesExact WritePointerAgrees  ReportFits
PROPERTY IsZoneMachine
CHECK_DEADLOCK FALSE
