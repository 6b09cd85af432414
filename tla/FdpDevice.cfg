SPECIFICATION DeviceSpec
CONSTANTS
  Lines = {l1, l2, l3, l4, l5}
  PGS_PER_LINE = 2
  LPNs = {n1, n2}
  NR_RUH = 2
  UINT_MOD = 8
  NULL = NULL
  UNMAPPED_PPA = UNMAPPED_PPA
  INVALID_LPN = INVALID_LPN
  FDP_NR_EVENTS = 1
  NOET_MAX = 1
  NO_RECORD = NO_RECORD
  SECS_PER_PG = 2
  Sectors = {2}
  BadPids = {7}
  CMD_PAGES = 2
  STAT_MOD = 32
VIEW DeviceView
INVARIANTS StatsBalance EventsExplained
CHECK_DEADLOCK FALSE
