SPECIFICATION PartsSpec
CONSTANTS
  FDP_NR_EVENTS = 3
  Pids = {0, 1}
  NOET_MAX = 2
  NO_RECORD = NO_RECORD
  Luns = {0, 1}
  FLASHPGS = 2
  PGS_PER_ONESHOTPG = 3
  RD_4KB_LAT = 1
  RD_LAT = 2
  WR_LAT = 2
  ER_LAT = 1
  WBUF_LAT0 = 1
  WBUF_LAT1 = 1
  FW_4KB_RD_LAT = 1
  FW_RD_LAT = 1
  MAX_CH_XFER_SIZE = 2
  NR_CREDIT_ENTRIES = 3
  UNIT_TIME_INTERVAL = 2
  CH_CREDITS = 2
  CH_XFER_LAT = 1
  PCIE_CREDITS = 2
  PCIE_XFER_LAT = 1
  MAX_READ = 3
  MAX_LEAD = 1
  UNMAPPED = UNMAPPED
  HeapLines = {h1, h2, h3, h4, h5, h6, h7}
  MAX_VPC = 3
VIEW PartsView
INVARIANTS TypeOK BookKept FlushCovers ReadsWhole HeapOrdered
PROPERTIES LogKept TakesLeast
CHECK_DEADLOCK FALSE
