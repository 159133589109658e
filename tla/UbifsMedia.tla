----------------------------- MODULE UbifsMedia -----------------------------
(* Sizes and limits of the UBIFS on-flash format that get_options and the  *)
(* spec of its options share (ubifs-media.h and libubifs, not under src/). *)
EXTENDS Integers, Bitwise

UBIFS_SB_LEBS == 1
UBIFS_MST_LEBS == 2
UBIFS_MIN_LOG_LEBS == 2
UBIFS_MIN_LPT_LEBS == 2
UBIFS_MIN_ORPH_LEBS == 1
UBIFS_MIN_LEB_CNT == 17
UBIFS_MIN_LEB_SZ == 15 * 1024
UBIFS_MAX_LEB_SZ == 2 * 1024 * 1024
UBIFS_MIN_FANOUT == 3
UBIFS_IDX_NODE_SZ == 28
UBIFS_BRANCH_SZ == 12
UBIFS_MAX_KEY_LEN == 16
UBIFS_SK_LEN == 8
UBIFS_REF_NODE_SZ == 64
UBIFS_CS_NODE_SZ == 32
UBIFS_BLOCK_SIZE == 4096
UBIFS_MAX_DATA_NODE_SZ == 48 + UBIFS_BLOCK_SIZE

(* is_power_of_2 (libubifs).                                               *)
is_power_of_2(n) == n # 0 /\ (n & (n - 1)) = 0
=============================================================================
