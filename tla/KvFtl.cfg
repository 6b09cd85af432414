SPECIFICATION PairedSpec
CONSTANTS
  k1 = k1
  k2 = k2
  k3 = k3
  KEYS <- Keys
  HASHES <- Hashes
  NR_SLOTS = 4
  LENGTHS <- Lengths
  DEV_SIZE = 8
  SMALL_LENGTH = 2
  LARGE_LENGTH = 4
  ALLOCATORS = {"append", "bitmap"}
  NR_ITER = 1
  KEYS_PER_READ = 1
  PREFIXES <- KeyPrefixes
  MAX_INSERTS = 4
  MAX_BATCH = 2
  NIL = NIL
INVARIANTS ChainsEnd  ScanComplete
 
CHECK_DEADLOCK FALSE
VIEW LiveView
