----------------------------- MODULE MCFuzzOne -----------------------------
(* Bytes of five bits: a word of four bytes has twenty.  Every limit is the  *)
(* smallest that still lets both sides of its tests happen.                  *)
EXTENDS FuzzOne

CONSTANTS plain, magic, second   \* targets

\* A target that does not look, one that looks for the bytes 9, 7, and one that
\* follows the second byte.
MCCksum(t, buf) ==
  CASE t = magic  -> IF \E k \in 1 .. Len(buf) - 1 : buf[k] = 9 /\ buf[k + 1] = 7 THEN 1 ELSE 2
    [] t = second -> IF Len(buf) > 1 THEN 1 + (buf[2] % 16) ELSE 0
    [] OTHER      -> 1

MCInteresting == [n \in {1, 2, 4} |->
  CASE n = 1 -> <<-16, 0, 3>>
    [] n = 2 -> <<-16, 0, 3, -512, 17, 96>>
    [] n = 4 -> <<-16, 3, 17, 524287, 1024>>]

MCToLower == [b \in 0 .. 31 |-> IF b \in 8 .. 11 THEN b + 16 ELSE b]

MCInputs == {<<7>>, <<31, 0>>, <<2, 14, 9, 7>>, <<1, 9, 7, 30, 5>>, <<30, 17, 31>>}
MCDictionaries == {<<>>, <<<<4>>, <<9, 7>>>>}
MCAutoTokens == {<<>>, <<[data |-> <<3, 6>>, hit_cnt |-> 0], [data |-> <<1, 5, 5>>, hit_cnt |-> 1]>>}

Entry(exec, bitmap, explore, handicap, depth, seeds, d) ==
  [exec_us |-> exec, avg_exec_us |-> 4, bitmap_size |-> bitmap, avg_bitmap_size |-> 4,
   explore |-> explore, handicap |-> handicap, depth |-> depth,
   rank_queue_cnt |-> seeds, total_alarm |-> 1, queued_with_binding |-> 12,
   distance |-> d, min_distance |-> 2, max_distance |-> 6]

MCEntries == {Entry(50, 1, TRUE, 0, 1, 1, 2), Entry(4, 4, TRUE, 5, 30, 1, 2),
              Entry(4, 4, FALSE, 0, 1, 13, 6), Entry(4, 4, FALSE, 0, 1, 1, 2)}
=============================================================================
