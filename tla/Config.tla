------------------------------- MODULE Config -------------------------------
(***************************************************************************)
(* The limits of lyso/repo/config.h that fuzz_one works with.              *)
(***************************************************************************)
EXTENDS Integers

CONSTANTS
  MAX_FILE,
  TRIM_MIN_BYTES, TRIM_START_STEPS, TRIM_END_STEPS,
  ARITH_MAX, EFF_MAP_SCALE2, EFF_MIN_LEN, EFF_MAX_PERC,
  MIN_AUTO_EXTRA, MAX_AUTO_EXTRA, USE_AUTO_EXTRAS, MAX_AUTO_EXTRAS, MAX_DET_EXTRAS,
  HAVOC_CYCLES, HAVOC_CYCLES_INIT, HAVOC_MIN, HAVOC_MAX_MULT, HAVOC_STACK_POW2,
  HAVOC_BLK_SMALL, HAVOC_BLK_MEDIUM, HAVOC_BLK_LARGE, HAVOC_BLK_XL,
  SPLICE_CYCLES, SPLICE_HAVOC

ASSUME ConfigAssumption ==
  /\ {MAX_FILE, TRIM_MIN_BYTES, TRIM_START_STEPS, TRIM_END_STEPS, HAVOC_MIN, HAVOC_MAX_MULT,
      HAVOC_STACK_POW2, HAVOC_BLK_SMALL} \subseteq Nat \ {0}
  /\ {ARITH_MAX, EFF_MAP_SCALE2, EFF_MIN_LEN, EFF_MAX_PERC, MIN_AUTO_EXTRA, MAX_AUTO_EXTRA,
      USE_AUTO_EXTRAS, MAX_AUTO_EXTRAS, MAX_DET_EXTRAS, HAVOC_CYCLES, HAVOC_CYCLES_INIT,
      HAVOC_BLK_MEDIUM, HAVOC_BLK_LARGE, HAVOC_BLK_XL, SPLICE_CYCLES, SPLICE_HAVOC} \subseteq Nat
  /\ TRIM_START_STEPS <= TRIM_END_STEPS
  /\ HAVOC_BLK_SMALL <= HAVOC_BLK_MEDIUM /\ HAVOC_BLK_MEDIUM <= HAVOC_BLK_LARGE
  /\ HAVOC_BLK_LARGE <= HAVOC_BLK_XL
=============================================================================
