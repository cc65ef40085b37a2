----------------------------- MODULE PerfScore -----------------------------
(***************************************************************************)
(* calculate_score of lyso/repo/afl-fuzz.c: how long the havoc stage of an *)
(* entry is to be.  An entry is given with the averages and the state of   *)
(* its alarm it is compared to.                                            *)
(***************************************************************************)
EXTENDS Config, Sequences, FiniteSetsExt

\* An if / else if chain over rows <<condition, value>>.
FirstOf(rows, otherwise) ==
  LET hits == {k \in DOMAIN rows : rows[k][1]}
  IN IF hits = {} THEN otherwise ELSE rows[Min(hits)][2]

\* x *= a / b on a u32.
Scaled(x, ratio) == (x * ratio[1]) \div ratio[2]

SpeedScore(s) ==
  FirstOf(<< <<s.exec_us > 10 * s.avg_exec_us, 10>>,
             <<s.exec_us > 4 * s.avg_exec_us, 25>>,
             <<s.exec_us > 2 * s.avg_exec_us, 50>>,
             <<3 * s.exec_us > 4 * s.avg_exec_us, 75>>,
             <<s.exec_us * 4 < s.avg_exec_us, 300>>,
             <<s.exec_us * 3 < s.avg_exec_us, 200>>,
             <<s.exec_us * 2 < s.avg_exec_us, 150>> >>, 100)

CoverageFactor(s) ==
  FirstOf(<< <<3 * s.bitmap_size > 10 * s.avg_bitmap_size, <<3, 1>> >>,
             <<s.bitmap_size > 2 * s.avg_bitmap_size, <<2, 1>> >>,
             <<3 * s.bitmap_size > 4 * s.avg_bitmap_size, <<3, 2>> >>,
             <<s.bitmap_size * 3 < s.avg_bitmap_size, <<1, 4>> >>,
             <<s.bitmap_size * 2 < s.avg_bitmap_size, <<1, 2>> >>,
             <<s.bitmap_size * 3 < 2 * s.avg_bitmap_size, <<3, 4>> >> >>, <<1, 1>>)

\* Explore mode: late entries catch up, deep ones get more.
HandicapFactor(s) == IF s.handicap >= 4 THEN 4 ELSE IF s.handicap > 0 THEN 2 ELSE 1
DepthFactor(s) ==
  FirstOf(<< <<s.depth <= 3, 1>>, <<s.depth <= 7, 2>>, <<s.depth <= 13, 3>>, <<s.depth <= 25, 4>> >>, 5)

\* Exploit mode: an alarm with few ranked seeds for its bindings gets more.  The
\* rows below 3/4 are shadowed by it: a smaller multiple that is still larger
\* than queued_with_binding is one 3/4 of which is.
DensityFactor(s) ==
  LET seeds == s.rank_queue_cnt * s.total_alarm
      bound == s.queued_with_binding
  IN FirstOf(<< <<seeds * 10 < bound, <<10, 1>> >>,
                <<seeds * 8 < bound, <<8, 1>> >>,
                <<seeds * 6 < bound, <<6, 1>> >>,
                <<seeds * 4 < bound, <<4, 1>> >>,
                <<seeds * 2 < bound, <<2, 1>> >>,
                <<seeds < bound, <<1, 1>> >>,
                <<3 * seeds > 4 * bound, <<3, 4>> >>,
                <<seeds > 2 * bound, <<1, 2>> >>,
                <<seeds > 4 * bound, <<1, 4>> >>,
                <<seeds > 10 * bound, <<1, 10>> >> >>, <<1, 1>>)

\* 2 ^ (2 * (1 - d)) for the distance d scaled to 0 .. 1 between the least and
\* the greatest distance seen, this one included.
Nearest(s) == Min({s.min_distance, s.distance})
Farthest(s) == Max({s.max_distance, s.distance})
PowerScores(s, x) ==
  CASE s.distance = Nearest(s) -> {4 * x}
    [] s.distance = Farthest(s) /\ s.distance # Nearest(s) -> {x}
    [] OTHER -> x .. 4 * x

AtLeast(x, y) == IF x < y THEN y ELSE x
AtMost(x, y) == IF x > y THEN y ELSE x

calculate_score(s) ==
  LET x == Scaled(SpeedScore(s), CoverageFactor(s))
      limit == HAVOC_MAX_MULT * 100
  IN IF s.explore
       THEN {AtMost(x * HandicapFactor(s) * DepthFactor(s), limit)}
       ELSE {AtMost(AtLeast(y, 200), limit) : y \in PowerScores(s, Scaled(x, DensityFactor(s)))}
=============================================================================
