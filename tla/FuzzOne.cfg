SPECIFICATION Spec
CONSTANTS
  plain = plain
  magic = magic
  second = second
  NoTarget = NoTarget
  NoTrim = NoTrim
  Targets = {plain, magic, second}
  Cksum <- MCCksum
  Inputs <- MCInputs
  Dictionaries <- MCDictionaries
  AutoTokens <- MCAutoTokens
  Entries <- MCEntries
  Interesting <- MCInteresting
  ToLower <- MCToLower
  ByteBits = 5
  TRIM_MIN_LEN = 5
  TRIM_MIN_BYTES = 1
  TRIM_START_STEPS = 4
  TRIM_END_STEPS = 8
  ARITH_MAX = 2
  EFF_MAP_SCALE2 = 0
  EFF_MIN_LEN = 3
  EFF_MAX_PERC = 75
  MIN_AUTO_EXTRA = 2
  MAX_AUTO_EXTRA = 3
  USE_AUTO_EXTRAS = 2
  MAX_AUTO_EXTRAS = 3
  MAX_DET_EXTRAS = 1
  MAX_FILE = 9
  HAVOC_CYCLES = 1
  HAVOC_CYCLES_INIT = 2
  HAVOC_MIN = 1
  HAVOC_MAX_MULT = 3
  HAVOC_STACK_POW2 = 1
  HAVOC_BLK_SMALL = 1
  HAVOC_BLK_MEDIUM = 2
  HAVOC_BLK_LARGE = 3
  HAVOC_BLK_XL = 3
  SPLICE_CYCLES = 2
  SPLICE_HAVOC = 1
  TokenLens = {2}
  OtherLens = {3, 6}
  MaxFinds = 2
  Divisors = {1, 2}
  CAL_CHANCES = 3
INVARIANTS TrimKeepsTrace BufferIsRestored SkipsWereTried HavocFitsBuffer EnergyIsBounded
