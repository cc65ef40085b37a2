------------------------------- MODULE Havoc -------------------------------
(***************************************************************************)
(* The random part of fuzz_one (lyso/repo/afl-fuzz.c): havoc, which runs   *)
(* the input after stacks of random tweaks and runs longer while it finds  *)
(* something, and splicing, which gives it the head of the input on the    *)
(* tail of another.  Buffers are their lengths: what could go wrong here   *)
(* is where a tweak reads and writes, and for how long the loops go on.    *)
(***************************************************************************)
EXTENDS Config

CONSTANTS
  TokenLens,     \* the lengths of user and automatic tokens
  OtherLens,     \* the lengths of the other inputs in the queue
  MaxFinds       \* bound: queue entries added by one call

ASSUME HavocAssumption ==
  TokenLens \subseteq Nat \ {0} /\ OtherLens \subseteq 1 .. MAX_FILE /\ MaxFinds \in Nat

VARIABLES
  at,           \* where fuzz_one is: "off", "havoc_stage", "loop", "tweak", "run", "splicing"
  q_len,        \* queue_cur->len, the size of the mapping orig_in
  spliced,      \* in_buf # orig_in
  len,          \* the size of in_buf
  out_size,     \* the size of the allocation out_buf
  temp_len,     \* how much of it the next run uses
  overrun,      \* history: some read or write ended beyond a buffer
  left,         \* tweaks still to stack
  doing_det,
  orig_perf, perf_score,
  havoc_div,
  stage_cur, stage_max,
  finds,        \* queue entries added by this call
  havoc_finds,  \* as of the last look: havoc_queued
  splice_cycle

buffers == <<q_len, spliced, len, out_size, temp_len, overrun>>
energy == <<doing_det, orig_perf, perf_score, havoc_div, stage_cur, stage_max, finds, havoc_finds,
            splice_cycle>>
havocVars == <<at, buffers, left, energy>>

Least(a, b) == IF a < b THEN a ELSE b
Most(a, b) == IF a > b THEN a ELSE b

---------------------------------------------------------------------------
(* havoc_stage *)

Cycles == IF splice_cycle # 0 THEN SPLICE_HAVOC
          ELSE IF doing_det THEN HAVOC_CYCLES_INIT ELSE HAVOC_CYCLES

\* The runs a havoc stage starts out with.
Planned == Most(HAVOC_MIN, ((Cycles * orig_perf) \div havoc_div) \div 100)

\* The score goes on where the last stage left it.
StartScore_Slip == perf_score

\* Splicing starts over from the score of the entry.
StartScore == IF splice_cycle = 0 THEN perf_score ELSE orig_perf

HavocStage ==
  /\ at = "havoc_stage"
  /\ perf_score' = StartScore
  /\ stage_max' = Planned /\ stage_cur' = 0
  /\ temp_len' = len
  /\ havoc_finds' = finds
  /\ at' = "loop"
  /\ UNCHANGED <<q_len, spliced, len, out_size, overrun, left, doing_det, orig_perf, havoc_div,
                 finds, splice_cycle>>

Stack ==
  /\ at = "loop" /\ stage_cur < stage_max
  /\ \E n \in 1 .. HAVOC_STACK_POW2 : left' = 2 ^ n
  /\ at' = "tweak"
  /\ UNCHANGED <<buffers, energy>>

---------------------------------------------------------------------------
(* The tweaks *)

Tweaks == at = "tweak" /\ left > 0 /\ left' = left - 1 /\ UNCHANGED <<at, q_len, spliced, len, energy>>

\* A tweak stays within the part of out_buf in use.
Touch(ends) == overrun' = (overrun \/ \E e \in ends : e > temp_len)

\* What choose_block_len(limit) returns, for any queue_cycle and run time.
choose_block_len(limit) ==
  UNION {(IF range[1] >= limit THEN 1 ELSE range[1]) .. Least(range[2], limit) :
           range \in {<<1, HAVOC_BLK_SMALL>>, <<HAVOC_BLK_SMALL, HAVOC_BLK_MEDIUM>>,
                      <<HAVOC_BLK_MEDIUM, HAVOC_BLK_LARGE>>, <<HAVOC_BLK_LARGE, HAVOC_BLK_XL>>}}

\* Cases 0 to 15: flip, set, add to or subtract from one, two or four bytes at a
\* random place.  The bit flips of cases 1 and 2 reach into two bytes at most.
Widths == {[n |-> 1, needs |-> 1], [n |-> 2, needs |-> 2], [n |-> 1, needs |-> 4],
           [n |-> 2, needs |-> 8], [n |-> 4, needs |-> 8], [n |-> 4, needs |-> 4]}

ChangeWord ==
  /\ Tweaks
  /\ \E w \in Widths :
       IF temp_len < w.needs
         THEN UNCHANGED overrun
         ELSE Touch({p + w.n : p \in 0 .. temp_len - w.n})
  /\ UNCHANGED <<temp_len, out_size>>

\* Cases 16 and 17.
Delete ==
  /\ Tweaks
  /\ IF temp_len < 2
       THEN UNCHANGED <<temp_len, overrun>>
       ELSE \E n \in choose_block_len(temp_len - 1) :
              /\ temp_len' = temp_len - n
              /\ Touch({from + n : from \in 0 .. temp_len - n})
  /\ UNCHANGED out_size

\* Case 18: a copy of a block, or a block of one byte, goes into a new buffer.
Clone ==
  /\ Tweaks
  /\ IF temp_len + HAVOC_BLK_XL >= MAX_FILE
       THEN UNCHANGED <<temp_len, out_size, overrun>>
       ELSE /\ \/ \E n \in choose_block_len(temp_len) :
                    /\ temp_len' = temp_len + n
                    /\ Touch({from + n : from \in 0 .. temp_len - n})
               \/ \E n \in choose_block_len(HAVOC_BLK_XL) :
                    /\ temp_len' = temp_len + n
                    /\ UNCHANGED overrun
            /\ out_size' = temp_len'

\* Case 19: one block over another.  UR(19 + 2) is below 21: this case is drawn
\* only when there are tokens, and case 21, the insertion of a token, never.
CopyOver ==
  /\ Tweaks /\ TokenLens # {}
  /\ IF temp_len < 2
       THEN UNCHANGED overrun
       ELSE \E n \in choose_block_len(temp_len - 1) :
              Touch({p + n : p \in 0 .. temp_len - n})
  /\ UNCHANGED <<temp_len, out_size>>

\* Case 20.
TokenOver ==
  /\ Tweaks
  /\ \E n \in TokenLens :
       IF n > temp_len
         THEN UNCHANGED overrun
         ELSE Touch({p + n : p \in 0 .. temp_len - n})
  /\ UNCHANGED <<temp_len, out_size>>

Tweak == ChangeWord \/ Delete \/ Clone \/ CopyOver \/ TokenOver

---------------------------------------------------------------------------
(* The run, and what follows it *)

\* common_fuzz_stuff on temp_len bytes; it may add to the queue.
Run ==
  /\ at = "tweak" /\ left = 0
  /\ finds' \in {finds, finds + 1} /\ finds' <= MaxFinds
  /\ at' = "run"
  /\ UNCHANGED <<buffers, left, doing_det, orig_perf, perf_score,
                 havoc_div, stage_cur, stage_max, havoc_finds, splice_cycle>>

\* out_buf is not made larger again.
Enlarged_Slip == out_size

Enlarged == IF temp_len < len THEN len ELSE out_size

Longer == finds # havoc_finds /\ perf_score <= HAVOC_MAX_MULT * 100

\* out_buf becomes in_buf again; a stage that finds something gets longer.
RestoreAndExtend ==
  /\ at = "run"
  /\ out_size' = Enlarged
  /\ temp_len' = len
  /\ overrun' = (overrun \/ len > out_size')
  /\ stage_max' = IF Longer THEN 2 * stage_max ELSE stage_max
  /\ perf_score' = IF Longer THEN 2 * perf_score ELSE perf_score
  /\ havoc_finds' = finds
  /\ stage_cur' = stage_cur + 1
  /\ at' = "loop"
  /\ UNCHANGED <<q_len, spliced, len, left, doing_det, orig_perf, havoc_div, finds, splice_cycle>>

HavocEnd ==
  /\ at = "loop" /\ stage_cur >= stage_max
  /\ at' = "splicing"
  /\ UNCHANGED <<buffers, left, energy>>

---------------------------------------------------------------------------
(* retry_splicing *)

Splices == splice_cycle < SPLICE_CYCLES /\ OtherLens # {} /\ q_len > 1

\* use_splicing may be off; it does not change in a call, which then ends before the
\* first cycle.
EndsHere == ~Splices \/ splice_cycle = 0

\* Another entry of at least two bytes that differs from the input at first and
\* last, two offsets apart from each other and the second above 1: the head of
\* the input, the tail of the entry, and back to havoc_stage.  No entry, or none
\* that differs enough: another try with the input as it was.
Splice ==
  /\ at = "splicing" /\ Splices
  /\ splice_cycle' = splice_cycle + 1
  /\ \/ /\ at' = "splicing"
        /\ spliced' = FALSE
        /\ len' = IF spliced THEN q_len ELSE len
        /\ UNCHANGED <<out_size, overrun>>
     \/ \E other \in OtherLens :
          \E first, last \in 0 .. Least(q_len, other) - 1 :
            /\ other >= 2 /\ last >= 2 /\ first < last
            /\ \E split_at \in first .. last - 1 :
                 overrun' = (overrun \/ split_at > other \/ split_at > q_len)
            /\ at' = "havoc_stage"
            /\ spliced' = TRUE
            /\ len' = other
            /\ out_size' = other
  /\ UNCHANGED <<q_len, temp_len, left, doing_det, orig_perf, perf_score, havoc_div, stage_cur,
                 stage_max, finds, havoc_finds>>

HavocNext == HavocStage \/ Stack \/ Tweak \/ Run \/ RestoreAndExtend \/ HavocEnd \/ Splice

---------------------------------------------------------------------------
(* Properties *)

HavocTypeOK ==
  /\ at \in {"off", "havoc_stage", "loop", "tweak", "run", "splicing"}
  /\ spliced \in BOOLEAN /\ doing_det \in BOOLEAN
  /\ \A x \in {q_len, len, out_size, temp_len} : x \in 0 .. MAX_FILE
  /\ overrun \in BOOLEAN
  /\ left \in 0 .. 2 ^ HAVOC_STACK_POW2
  /\ \A x \in {orig_perf, perf_score, stage_cur, stage_max, splice_cycle} : x \in Nat
  /\ finds \in 0 .. MaxFinds /\ havoc_finds \in 0 .. MaxFinds

\* No tweak reads or writes past the end of out_buf, however many of them shrink
\* and grow it before; a run has at least one byte and no more than MAX_FILE; and
\* the restoring memcpy finds room for the input it started from.
HavocFitsBuffer ==
  at # "off" =>
    /\ ~overrun
    /\ at # "havoc_stage" => temp_len \in 1 .. MAX_FILE /\ temp_len <= out_size
    /\ ~spliced => len = q_len

\* A stage that keeps finding something is at most twice what the highest score
\* would give it, whichever score, cycle and stage it started from.
EnergyIsBounded ==
  at \in {"loop", "tweak", "run"} =>
    /\ perf_score \in 1 .. 2 * HAVOC_MAX_MULT * 100
    /\ stage_max * orig_perf = Planned * perf_score
=============================================================================
