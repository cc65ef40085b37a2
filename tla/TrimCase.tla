------------------------------ MODULE TrimCase ------------------------------
(***************************************************************************)
(* trim_case of lyso/repo/afl-fuzz.c: chunks are cut out of the input as   *)
(* long as the run without them has the checksum of the whole.  One step   *)
(* per run of the target.  A file is a sequence of bytes, the mapping      *)
(* in_buf its first q->len bytes; the target is deterministic, and what it *)
(* makes of an input is the checksum of its trace.                         *)
(***************************************************************************)
EXTENDS Config, Sequences, SequencesExt

CONSTANTS
  Targets, Cksum(_, _),   \* the targets, and the trace of each on a buffer
  TRIM_MIN_LEN,           \* shorter inputs are not trimmed (5 in the code)
  NoTrim                  \* trim_case is not running

TrimState ==
  [remove_len : Nat \ {0}, remove_pos : Nat \ {0}, len_p2 : Nat, needs_write : BOOLEAN]

ASSUME TrimAssumption ==
  TRIM_MIN_LEN \in Nat /\ MAX_FILE <= 2 ^ 20 /\ NoTrim \notin TrimState

VARIABLES
  target,      \* the target, the same in all runs
  in_buf,      \* the input in memory, cut to q->len
  file,        \* q->fname on disk
  exec_cksum,  \* q->exec_cksum, of the last calibration
  trim         \* the locals of trim_case

trimVars == <<target, in_buf, file, exec_cksum, trim>>

Smaller(a, b) == IF a < b THEN a ELSE b
Larger(a, b) == IF a > b THEN a ELSE b

\* First power of two at or above val; a file has no more than 2^20 bytes.
next_p2(val) == CHOOSE p \in {2^k : k \in 0 .. 20} : p >= val /\ (p = 1 \/ p < 2 * val)

\* write_with_gap: the input without n bytes at pos.
Without(buf, pos, n) == SubSeq(buf, 1, pos) \o SubSeq(buf, pos + n + 1, Len(buf))

StartTrim ==
  LET p == next_p2(Len(in_buf))
      first == Larger(p \div TRIM_START_STEPS, TRIM_MIN_BYTES)
  IN trim' = [remove_len |-> first, remove_pos |-> first, len_p2 |-> p, needs_write |-> FALSE]

Chunk == Smaller(trim.remove_len, Len(in_buf) - trim.remove_pos)

\* A whole chunk is taken off the length, also at the end.
Kept_Slip == SubSeq(Without(in_buf, trim.remove_pos, Chunk), 1, Len(in_buf) - trim.remove_len)

\* The memmove in in_buf, which keeps what was run.
Kept == Without(in_buf, trim.remove_pos, Chunk)

\* One run without a chunk, and what it decides.
TrimRun ==
  /\ trim # NoTrim /\ trim.remove_pos < Len(in_buf)
  /\ IF Cksum(target, Without(in_buf, trim.remove_pos, Chunk)) = exec_cksum
       THEN /\ in_buf' = Kept
            /\ trim' = [trim EXCEPT !.len_p2 = next_p2(Len(in_buf')), !.needs_write = TRUE]
       ELSE /\ trim' = [trim EXCEPT !.remove_pos = @ + trim.remove_len]
            /\ UNCHANGED in_buf
  /\ UNCHANGED <<target, file, exec_cksum>>

\* The end of a pass: smaller chunks, or the end of trimming.
NextLen == trim.remove_len \div 2
Shortest == Larger(trim.len_p2 \div TRIM_END_STEPS, TRIM_MIN_BYTES)

TrimPass ==
  /\ trim # NoTrim /\ trim.remove_pos >= Len(in_buf) /\ NextLen >= Shortest
  /\ trim' = [trim EXCEPT !.remove_len = NextLen, !.remove_pos = NextLen]
  /\ UNCHANGED <<target, in_buf, file, exec_cksum>>

TrimEnd ==
  /\ trim # NoTrim /\ trim.remove_pos >= Len(in_buf) /\ NextLen < Shortest
  /\ file' = IF trim.needs_write THEN in_buf ELSE file
  /\ trim' = NoTrim
  /\ UNCHANGED <<target, in_buf, exec_cksum>>
=============================================================================
