------------------------------ MODULE StepTrace ------------------------------
(***************************************************************************)
(* The instrumentation of a basic block, __instr_bb, during one run.       *)
(*                                                                         *)
(* Every alarm i is a list of steps, basic blocks that lead to it.  The    *)
(* runtime advances cur_alarm_state[i] when the block executed is the      *)
(* next step of i.  On an ordinary run it counts every block in trace_bb,  *)
(* a byte each; on a re-run for (i_loc, j_loc) only what is executed after *)
(* step j_loc of alarm i_loc was reached, which is what get_dyn_distance   *)
(* measures distances on.                                                  *)
(***************************************************************************)
EXTENDS Integers, Sequences, FiniteSets

CONSTANTS
  Blocks,
  new_bb_id,      \* new_bb_id[b]: the number the compiler gave block b, from 1
  Alarms,
  alarm_table,    \* alarm_table[i]: the steps of i
  ByteSize,       \* 256
  MaxPath         \* bound on the length of a run

trace_size == Cardinality(Blocks)

ASSUME TraceAssumption ==
  /\ IsFiniteSet(Blocks) /\ Blocks # {}
  /\ new_bb_id \in [Blocks -> 1 .. trace_size]
  /\ \A a, b \in Blocks : new_bb_id[a] = new_bb_id[b] => a = b
  /\ alarm_table \in [Alarms -> Seq(Blocks)]
  /\ ByteSize \in Nat \ {0, 1}
  /\ MaxPath \in Nat

VARIABLES
  request,              \* <<>>, or <<i_loc, j_loc>> on a re-run
  is_prefix,
  cur_alarm_state,      \* [Alarms -> number of steps reached]
  cur_bb_status_table,  \* set of <<alarm, column>>; columns count from 0
  trace_bb,             \* a byte per number; afl-fuzz clears and reads those
                        \* below trace_size
  path                  \* history: the blocks executed

traceVars == <<request, is_prefix, cur_alarm_state, cur_bb_status_table, trace_bb, path>>

(* get_dyn_distance asks to re-run to a column that is neither the first    *)
(* nor behind the last.                                                     *)
Requests == {<<>>} \cup
  UNION {{<<i, j>> : j \in 1 .. Len(alarm_table[i]) - 1} : i \in Alarms}

TraceTypeOK ==
  /\ request \in Requests
  /\ is_prefix \in BOOLEAN
  /\ DOMAIN cur_alarm_state = Alarms
  /\ \A i \in Alarms : cur_alarm_state[i] \in 0 .. Len(alarm_table[i])
  /\ cur_bb_status_table \subseteq Alarms \X Nat
  /\ trace_bb \in [0 .. trace_size -> 0 .. ByteSize - 1]
  /\ path \in Seq(Blocks)

(* run_target has cleared the tables.  The byte of the block with the       *)
(* highest number is not among those it clears.                             *)
TraceInit ==
  /\ request \in Requests
  /\ is_prefix = FALSE
  /\ cur_alarm_state = [i \in Alarms |-> 0]
  /\ cur_bb_status_table = {}
  /\ \E left_over \in {0, 1} :
       trace_bb = [n \in 0 .. trace_size |-> IF n < trace_size THEN 0 ELSE left_over]
  /\ path = <<>>

(* A definition X_Slip is X with a plausible programming mistake; no        *)
(* behaviour uses it, it tests that a property would notice.                *)
Advances_SkipsAStep(id) ==
  {i \in Alarms : \E j \in cur_alarm_state[i] + 1 .. Len(alarm_table[i]) :
                    alarm_table[i][j] = id}

(* The alarms whose next step is id.                                        *)
Advances(id) ==
  {i \in Alarms : /\ cur_alarm_state[i] < Len(alarm_table[i])
                  /\ alarm_table[i][cur_alarm_state[i] + 1] = id}

PassesPrefix_Late(id) ==
  /\ request # <<>>
  /\ request[1] \in Advances(id) /\ cur_alarm_state[request[1]] = request[2]

(* The prefix of a re-run is behind when a block is executed while j_loc is *)
(* the next column.                                                         *)
PassesPrefix(id) ==
  /\ request # <<>>
  /\ cur_alarm_state[request[1]] = request[2]

StatusAfter(id) ==
  cur_bb_status_table \cup {<<i, cur_alarm_state[i]>> : i \in Advances(id)}

__instr_bb(id) ==
  /\ Len(path) < MaxPath
  /\ cur_alarm_state' =
       [i \in Alarms |-> IF i \in Advances(id) THEN cur_alarm_state[i] + 1
                                               ELSE cur_alarm_state[i]]
  /\ cur_bb_status_table' = StatusAfter(id)
  /\ is_prefix' = (is_prefix \/ PassesPrefix(id))
  /\ trace_bb' = IF request = <<>> \/ is_prefix'
                   THEN [trace_bb EXCEPT ![new_bb_id[id]] = (@ + 1) % ByteSize]
                   ELSE trace_bb
  /\ path' = Append(path, id)
  /\ UNCHANGED request

(* The run ends.                                                            *)
End == Len(path) = MaxPath /\ UNCHANGED traceVars

TraceNext == (\E id \in Blocks : __instr_bb(id)) \/ End

TraceSpec == TraceInit /\ [][TraceNext]_traceVars
-----------------------------------------------------------------------------
(* The first k steps of i occur in p, in their order.                       *)
Embeds(k, i, p) ==
  \E f \in [1 .. k -> 1 .. Len(p)] :
    /\ \A x, y \in 1 .. k : x < y => f[x] < f[y]
    /\ \A x \in 1 .. k : p[f[x]] = alarm_table[i][x]

(* Advancing one step at a time as blocks come finds as many steps as there *)
(* are to find, in any order of blocks and for steps that repeat: no run    *)
(* that takes the steps of an alarm in order is credited with fewer.        *)
StateIsLongest ==
  \A i \in Alarms :
    /\ Embeds(cur_alarm_state[i], i, path)
    /\ cur_alarm_state[i] < Len(alarm_table[i]) =>
         ~Embeds(cur_alarm_state[i] + 1, i, path)

(* The table afl-fuzz merges and the state it compares say the same, and    *)
(* the steps covered by a run are a prefix of the alarm's list.             *)
StatusIsPrefix ==
  cur_bb_status_table =
    UNION {{<<i, j>> : j \in 0 .. cur_alarm_state[i] - 1} : i \in Alarms}

(* What the trace is to hold: everything, or on a re-run what follows the   *)
(* first position by which the steps before j_loc have been taken.          *)
TracedPart ==
  IF request = <<>> THEN path
  ELSE LET ends == {n \in 0 .. Len(path) :
                      Embeds(request[2], request[1], SubSeq(path, 1, n))}
       IN IF ends = {} THEN <<>>
          ELSE SubSeq(path, (CHOOSE n \in ends : \A m \in ends : n <= m) + 1, Len(path))

Occurrences(b, p) == Cardinality({n \in 1 .. Len(p) : p[n] = b})

(* What get_shortest_bb_distance reads is exactly that part, modulo the     *)
(* width of a byte, but for the block with the highest number, which it     *)
(* does not read.                                                           *)
SuffixIsTraced ==
  /\ \A b \in Blocks : new_bb_id[b] < trace_size =>
       trace_bb[new_bb_id[b]] = Occurrences(b, TracedPart) % ByteSize
  /\ trace_bb[0] = 0
=============================================================================
