------------------------------ MODULE SsdParams ------------------------------
(***************************************************************************)
(* The geometry of an SSD instance (ssd_init_params): how the capacity is  *)
(* divided into channels, LUNs, blocks and pages, and which blocks make up *)
(* a line.  Sizes are in 4KB pages.  A LUN has one plane.                  *)
(***************************************************************************)
EXTENDS Integers

CONSTANTS CAPACITY,           \* size of the device
          NR_PARTS,           \* SSD_PARTITIONS
          NAND_CHANNELS, LUNS_PER_NAND_CH,
          BLKS_PER_PLN,       \* blocks in a plane, or 0 when BLK_SIZE is given
          BLK_SIZE,
          ONESHOT_PAGE_SIZE,  \* size of a wordline
          FLASH_PAGE_SIZE

DIV_ROUND_UP(n, d) == (n + d - 1) \div d

\* The assertions of ssd_init_params.
ASSUME GeometryAssumption ==
    /\ {CAPACITY, NR_PARTS, NAND_CHANNELS, LUNS_PER_NAND_CH} \subseteq Nat \ {0}
    /\ {ONESHOT_PAGE_SIZE, FLASH_PAGE_SIZE} \subseteq Nat \ {0}
    /\ NAND_CHANNELS % NR_PARTS = 0
    /\ BLKS_PER_PLN > 0 \/ BLK_SIZE > 0
    /\ ONESHOT_PAGE_SIZE % FLASH_PAGE_SIZE = 0

spp ==
    LET nchs     == NAND_CHANNELS \div NR_PARTS
        capacity == CAPACITY \div NR_PARTS
        luns     == LUNS_PER_NAND_CH * nchs
        blk_size == IF BLKS_PER_PLN > 0 THEN DIV_ROUND_UP(capacity, BLKS_PER_PLN * luns)
                    ELSE BLK_SIZE
        oneshots == DIV_ROUND_UP(blk_size, ONESHOT_PAGE_SIZE)
    IN [nchs              |-> nchs,
        luns_per_ch       |-> LUNS_PER_NAND_CH,
        tt_luns           |-> luns,
        pgs_per_oneshotpg |-> ONESHOT_PAGE_SIZE,
        pgs_per_flashpg   |-> FLASH_PAGE_SIZE,
        flashpgs_per_blk  |-> (ONESHOT_PAGE_SIZE \div FLASH_PAGE_SIZE) * oneshots,
        pgs_per_blk       |-> ONESHOT_PAGE_SIZE * oneshots,
        pgs_per_line      |-> luns * ONESHOT_PAGE_SIZE * oneshots,
        tt_lines          |-> IF BLKS_PER_PLN > 0 THEN BLKS_PER_PLN
                              ELSE DIV_ROUND_UP(capacity, BLK_SIZE * luns)]
=============================================================================
