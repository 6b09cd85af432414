SPECIFICATION Spec
CONSTANTS
  CAPACITY = 16
  NR_PARTS = 1
  NAND_CHANNELS = 2
  LUNS_PER_NAND_CH = 1
  BLKS_PER_PLN = 4
  BLK_SIZE = 0
  ONESHOT_PAGE_SIZE = 2
  FLASH_PAGE_SIZE = 1
  PBA_PCENT = 250
  UINT_MOD = 16
  NULL = NULL
  UNMAPPED_PPA = UNMAPPED_PPA
  INVALID_LPN = INVALID_LPN
VIEW PlaceView
INVARIANT HeapSound
PROPERTY ImplementsFdpFtl
CHECK_DEADLOCK FALSE
