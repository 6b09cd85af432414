SPECIFICATION Spec
CONSTANTS
  Lines = {l1, l2, l3, l4, l5, l6, l7, l8}
  PGS_PER_LINE = 2
  LPNs = {n1, n2, n3, n4, n5, n6, n7, n8, n9, n10, n11, n12, n13}
  NR_RUH = 1
  UINT_MOD = 8
  NULL = NULL
  UNMAPPED_PPA = UNMAPPED_PPA
  INVALID_LPN = INVALID_LPN
VIEW AnonymousView
INVARIANT NoNullLine
