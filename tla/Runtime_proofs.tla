--------------------------- MODULE Runtime_proofs ---------------------------
(***************************************************************************)
(* The runtime linked into every target, afl-llvm-rt.o.c: what __instr_bb  *)
(* does within a run, and how the fork server and afl-fuzz keep runs       *)
(* apart.                                                                  *)
(***************************************************************************)
EXTENDS StepTrace, ForkServer, FiniteSetTheorems, SequenceTheorems,
        WellFoundedInduction, TLAPS

---------------------------------------------------------------------------
(***************************************************************************)
(* StepTrace: __instr_bb, for runs of any length and alarms of any shape.  *)
(*                                                                         *)
(* The main argument is that taking steps greedily, as blocks come, loses  *)
(* nothing.  If the first s steps embed in a run p and the first s + 1 do  *)
(* not, then after one more block b the first s + 1 embed exactly if b is  *)
(* step s + 1, and the first s + 2 never do.                               *)
(***************************************************************************)

(* A run embeds no steps of any alarm before it has begun.                 *)
LEMMA EmptyEmbeds ==
  ASSUME NEW i \in Alarms
  PROVE  Embeds(0, i, <<>>) /\ ~Embeds(1, i, <<>>)
<1>1. Embeds(0, i, <<>>)
  <2> DEFINE none == [x \in 1 .. 0 |-> 1]
  <2>1. 1 .. 0 = {}
    OBVIOUS
  <2>2. none \in [1 .. 0 -> 1 .. Len(<<>>)]
    BY <2>1
  <2>3. /\ \A x, y \in 1 .. 0 : x < y => none[x] < none[y]
        /\ \A x \in 1 .. 0 : <<>>[none[x]] = alarm_table[i][x]
    BY <2>1
  <2> HIDE DEF none
  <2> QED BY <2>2, <2>3 DEF Embeds
<1>2. ~Embeds(1, i, <<>>)
  BY DEF Embeds
<1> QED BY <1>1, <1>2

(* A run that goes on keeps the steps it has embedded.                     *)
LEMMA EmbedsGrows ==
  ASSUME NEW i \in Alarms, NEW k \in Nat, NEW p \in Seq(Blocks), NEW b \in Blocks,
         Embeds(k, i, p)
  PROVE  Embeds(k, i, Append(p, b))
<1>1. PICK f \in [1 .. k -> 1 .. Len(p)] :
        /\ \A x, y \in 1 .. k : x < y => f[x] < f[y]
        /\ \A x \in 1 .. k : p[f[x]] = alarm_table[i][x]
  BY DEF Embeds
<1>2. f \in [1 .. k -> 1 .. Len(Append(p, b))]
  OBVIOUS
<1>3. \A x \in 1 .. k : Append(p, b)[f[x]] = alarm_table[i][x]
  BY <1>1
<1> QED BY <1>1, <1>2, <1>3 DEF Embeds

(* A block that is the next step extends an embedding by one.              *)
LEMMA EmbedsStep ==
  ASSUME NEW i \in Alarms, NEW k \in Nat, NEW p \in Seq(Blocks), NEW b \in Blocks,
         Embeds(k, i, p), alarm_table[i][k + 1] = b
  PROVE  Embeds(k + 1, i, Append(p, b))
<1>1. PICK f \in [1 .. k -> 1 .. Len(p)] :
        /\ \A x, y \in 1 .. k : x < y => f[x] < f[y]
        /\ \A x \in 1 .. k : p[f[x]] = alarm_table[i][x]
  BY DEF Embeds
<1> DEFINE n == Len(p) + 1
           q == Append(p, b)
           g == [x \in 1 .. k + 1 |-> IF x = k + 1 THEN n ELSE f[x]]
<1>2. g \in [1 .. k + 1 -> 1 .. Len(q)]
  <2> SUFFICES ASSUME NEW x \in 1 .. k + 1
               PROVE  g[x] \in 1 .. Len(q)
    OBVIOUS
  <2>1. Len(q) = n
    OBVIOUS
  <2>2. CASE x = k + 1
    BY <2>1, <2>2
  <2>3. CASE x # k + 1
    <3>1. x \in 1 .. k
      BY <2>3
    <3> QED BY <2>1, <2>3, <3>1
  <2> QED BY <2>2, <2>3
<1>3. ASSUME NEW x \in 1 .. k + 1, NEW y \in 1 .. k + 1, x < y
      PROVE  g[x] < g[y]
  <2>1. x \in 1 .. k
    BY <1>3
  <2>2. g[x] = f[x] /\ f[x] < n
    BY <2>1
  <2>3. CASE y = k + 1
    BY <2>2, <2>3
  <2>4. CASE y # k + 1
    <3>1. y \in 1 .. k /\ g[y] = f[y]
      BY <2>4
    <3> QED BY <1>1, <1>3, <2>1, <2>2, <3>1
  <2> QED BY <2>3, <2>4
<1>4. ASSUME NEW x \in 1 .. k + 1
      PROVE  q[g[x]] = alarm_table[i][x]
  <2>1. CASE x = k + 1
    BY <2>1
  <2>2. CASE x # k + 1
    <3>1. x \in 1 .. k /\ g[x] = f[x]
      BY <2>2
    <3>2. q[f[x]] = p[f[x]]
      BY <3>1
    <3> QED BY <1>1, <3>1, <3>2
  <2> QED BY <2>1, <2>2
<1> HIDE DEF g, q
<1> QED BY <1>2, <1>3, <1>4 DEF Embeds, q

(* What a longer run embeds, without its last step, the run embedded; and  *)
(* with it too, unless the last block is that step.                        *)
LEMMA EmbedsShrinks ==
  ASSUME NEW i \in Alarms, NEW k \in Nat, NEW p \in Seq(Blocks), NEW b \in Blocks,
         Embeds(k + 1, i, Append(p, b))
  PROVE  /\ Embeds(k, i, p)
         /\ alarm_table[i][k + 1] # b => Embeds(k + 1, i, p)
<1> DEFINE n == Len(p) + 1
           q == Append(p, b)
<1>0. Len(q) = n /\ q[n] = b /\ \A m \in 1 .. Len(p) : q[m] = p[m]
  OBVIOUS
<1>1. PICK f \in [1 .. k + 1 -> 1 .. Len(q)] :
        /\ \A x, y \in 1 .. k + 1 : x < y => f[x] < f[y]
        /\ \A x \in 1 .. k + 1 : q[f[x]] = alarm_table[i][x]
  BY DEF Embeds
<1> HIDE DEF q
<1>2. Embeds(k, i, p)
  <2> DEFINE g == [x \in 1 .. k |-> f[x]]
  <2>1. \A x \in 1 .. k : f[x] \in 1 .. Len(p)
    <3> SUFFICES ASSUME NEW x \in 1 .. k PROVE f[x] \in 1 .. Len(p)
      OBVIOUS
    <3>1. x \in 1 .. k + 1 /\ k + 1 \in 1 .. k + 1 /\ x < k + 1
      OBVIOUS
    <3>2. f[x] < f[k + 1]
      BY <1>1, <3>1
    <3>3. f[x] \in 1 .. n /\ f[k + 1] \in 1 .. n
      BY <1>0, <3>1
    <3> QED BY <3>2, <3>3
  <2>2. g \in [1 .. k -> 1 .. Len(p)]
    BY <2>1
  <2>3. \A x, y \in 1 .. k : x < y => g[x] < g[y]
    BY <1>1
  <2>4. \A x \in 1 .. k : p[g[x]] = alarm_table[i][x]
    BY <1>0, <1>1, <2>1
  <2> HIDE DEF g
  <2> QED BY <2>2, <2>3, <2>4 DEF Embeds
<1>3. ASSUME alarm_table[i][k + 1] # b
      PROVE  Embeds(k + 1, i, p)
  <2>1. f[k + 1] # n
    BY <1>0, <1>1, <1>3
  <2>2. \A x \in 1 .. k + 1 : f[x] \in 1 .. Len(p)
    <3> SUFFICES ASSUME NEW x \in 1 .. k + 1 PROVE f[x] \in 1 .. Len(p)
      OBVIOUS
    <3>1. k + 1 \in 1 .. k + 1 /\ (x = k + 1 \/ x < k + 1)
      OBVIOUS
    <3>2. f[x] <= f[k + 1]
      BY <1>0, <1>1, <3>1
    <3>3. f[x] \in 1 .. n /\ f[k + 1] \in 1 .. n
      BY <1>0, <3>1
    <3> QED BY <2>1, <3>2, <3>3
  <2>3. f \in [1 .. k + 1 -> 1 .. Len(p)]
    BY <2>2
  <2>4. \A x \in 1 .. k + 1 : p[f[x]] = alarm_table[i][x]
    BY <1>0, <1>1, <2>2
  <2> QED BY <1>1, <2>3, <2>4 DEF Embeds
<1> QED BY <1>2, <1>3
-----------------------------------------------------------------------------
(* One block moves the state of an alarm by one or not at all, and the      *)
(* bytes of the trace stay bytes.                                           *)
LEMMA InstrTypes ==
  ASSUME TraceTypeOK, NEW id \in Blocks, __instr_bb(id)
  PROVE  TraceTypeOK'
<1> USE DEF TraceTypeOK, __instr_bb
<1>1. request' \in Requests /\ is_prefix' \in BOOLEAN
  BY DEF PassesPrefix
<1>2. /\ DOMAIN cur_alarm_state' = Alarms
      /\ \A i \in Alarms : cur_alarm_state'[i] \in 0 .. Len(alarm_table[i])
  <2>1. DOMAIN cur_alarm_state' = Alarms
    OBVIOUS
  <2>2. ASSUME NEW i \in Alarms
        PROVE  cur_alarm_state'[i] \in 0 .. Len(alarm_table[i])
    <3>1. Len(alarm_table[i]) \in Nat
      BY TraceAssumption
    <3> QED BY <3>1 DEF Advances
  <2> QED BY <2>1, <2>2
<1>3. cur_bb_status_table' \subseteq Alarms \X Nat
  <2>1. \A i \in Alarms : cur_alarm_state[i] \in Nat
    BY TraceAssumption
  <2> QED BY <2>1 DEF StatusAfter, Advances
<1>4. trace_bb' \in [0 .. trace_size -> 0 .. ByteSize - 1]
  <2>0. ByteSize \in Nat /\ ByteSize > 1
    BY TraceAssumption
  <2>a. \A m \in Nat : m % ByteSize \in 0 .. ByteSize - 1
    BY <2>0
  <2>1. \A n \in 0 .. trace_size : (trace_bb[n] + 1) % ByteSize \in 0 .. ByteSize - 1
    <3> SUFFICES ASSUME NEW n \in 0 .. trace_size
                 PROVE  (trace_bb[n] + 1) % ByteSize \in 0 .. ByteSize - 1
      OBVIOUS
    <3>1. trace_bb[n] \in 0 .. ByteSize - 1
      OBVIOUS
    <3>2. trace_bb[n] + 1 \in Nat
      BY <2>0, <3>1
    <3> QED BY <2>a, <3>2
  <2>2. trace_bb' = trace_bb
        \/ trace_bb' = [trace_bb EXCEPT ![new_bb_id[id]] = (@ + 1) % ByteSize]
    OBVIOUS
  <2> QED BY <2>1, <2>2
<1>5. path' \in Seq(Blocks)
  OBVIOUS
<1> QED BY <1>1, <1>2, <1>3, <1>4, <1>5

(* The state of every alarm stays the longest prefix of its steps that the  *)
(* run has taken in order.                                                  *)
LEMMA InstrLongest ==
  ASSUME TraceTypeOK, StateIsLongest, NEW id \in Blocks, __instr_bb(id)
  PROVE  StateIsLongest'
<1> SUFFICES ASSUME NEW i \in Alarms
             PROVE  /\ Embeds(cur_alarm_state'[i], i, path')
                    /\ cur_alarm_state'[i] < Len(alarm_table[i]) =>
                         ~Embeds(cur_alarm_state'[i] + 1, i, path')
  BY DEF StateIsLongest, Embeds
<1> DEFINE s == cur_alarm_state[i]
<1>1. s \in Nat /\ path \in Seq(Blocks) /\ path' = Append(path, id)
      /\ Len(alarm_table[i]) \in Nat /\ s <= Len(alarm_table[i])
  BY TraceAssumption DEF TraceTypeOK, __instr_bb
<1>2. /\ Embeds(s, i, path)
      /\ s < Len(alarm_table[i]) => ~Embeds(s + 1, i, path)
  BY DEF StateIsLongest
<1>3. CASE i \in Advances(id)
  <2>1. cur_alarm_state'[i] = s + 1 /\ s < Len(alarm_table[i])
        /\ alarm_table[i][s + 1] = id
    BY <1>3 DEF Advances, __instr_bb
  <2>2. Embeds(s + 1, i, path')
    BY <1>1, <1>2, <2>1, EmbedsStep
  <2>3. ~Embeds(s + 1 + 1, i, path')
    BY <1>1, <1>2, <2>1, EmbedsShrinks
  <2> QED BY <2>1, <2>2, <2>3
<1>4. CASE i \notin Advances(id)
  <2>1. cur_alarm_state'[i] = s
    BY <1>4 DEF __instr_bb
  <2>2. Embeds(s, i, path')
    BY <1>1, <1>2, EmbedsGrows
  <2>3. ASSUME s < Len(alarm_table[i])
        PROVE  ~Embeds(s + 1, i, path')
    <3>1. alarm_table[i][s + 1] # id
      BY <1>4, <2>3 DEF Advances
    <3> QED BY <1>1, <1>2, <2>3, <3>1, EmbedsShrinks
  <2> QED BY <2>1, <2>2, <2>3
<1> QED BY <1>3, <1>4

(* The table and the state are written together.                            *)
LEMMA InstrStatus ==
  ASSUME TraceTypeOK, StatusIsPrefix, NEW id \in Blocks, __instr_bb(id)
  PROVE  StatusIsPrefix'
<1>1. \A i \in Alarms : cur_alarm_state[i] \in Nat
  BY TraceAssumption DEF TraceTypeOK
<1>2. \A i \in Alarms :
        cur_alarm_state'[i] = IF i \in Advances(id) THEN cur_alarm_state[i] + 1
                                                    ELSE cur_alarm_state[i]
  BY DEF __instr_bb
<1>3. \A i \in Alarms :
        0 .. cur_alarm_state'[i] - 1 =
          (0 .. cur_alarm_state[i] - 1)
            \cup (IF i \in Advances(id) THEN {cur_alarm_state[i]} ELSE {})
  BY <1>1, <1>2
<1>4. ASSUME NEW e
      PROVE  e \in cur_bb_status_table' <=>
               \E i \in Alarms : \E j \in 0 .. cur_alarm_state'[i] - 1 : e = <<i, j>>
  <2>1. e \in cur_bb_status_table' <=>
          \/ \E i \in Alarms : \E j \in 0 .. cur_alarm_state[i] - 1 : e = <<i, j>>
          \/ \E i \in Advances(id) : e = <<i, cur_alarm_state[i]>>
    BY DEF StatusIsPrefix, StatusAfter, __instr_bb
  <2>2. Advances(id) \subseteq Alarms
    BY DEF Advances
  <2> QED BY <1>3, <2>1, <2>2
<1>5. cur_bb_status_table' =
        UNION {{<<i, j>> : j \in 0 .. cur_alarm_state'[i] - 1} : i \in Alarms}
  BY <1>4
<1> QED BY <1>5 DEF StatusIsPrefix
-----------------------------------------------------------------------------
(* What the trace holds                                                     *)

(* A run that embeds some steps embeds any first few of them.               *)
LEMMA EmbedsFewer ==
  ASSUME NEW i \in Alarms, NEW m \in Nat, NEW k \in 0 .. m, NEW p \in Seq(Blocks),
         Embeds(m, i, p)
  PROVE  Embeds(k, i, p)
<1>1. PICK f \in [1 .. m -> 1 .. Len(p)] :
        /\ \A x, y \in 1 .. m : x < y => f[x] < f[y]
        /\ \A x \in 1 .. m : p[f[x]] = alarm_table[i][x]
  BY DEF Embeds
<1> DEFINE g == [x \in 1 .. k |-> f[x]]
<1>2. g \in [1 .. k -> 1 .. Len(p)]
  OBVIOUS
<1>3. /\ \A x, y \in 1 .. k : x < y => g[x] < g[y]
      /\ \A x \in 1 .. k : p[g[x]] = alarm_table[i][x]
  BY <1>1
<1> HIDE DEF g
<1> QED BY <1>2, <1>3 DEF Embeds

(* A run embeds what its beginning does.                                    *)
LEMMA EmbedsLonger ==
  ASSUME NEW i \in Alarms, NEW k \in Nat, NEW p \in Seq(Blocks), NEW n \in 0 .. Len(p),
         Embeds(k, i, SubSeq(p, 1, n))
  PROVE  Embeds(k, i, p)
<1> DEFINE s == SubSeq(p, 1, n)
<1>1. Len(s) = n /\ \A x \in 1 .. n : s[x] = p[x]
  OBVIOUS
<1> HIDE DEF s
<1>2. PICK f \in [1 .. k -> 1 .. n] :
        /\ \A x, y \in 1 .. k : x < y => f[x] < f[y]
        /\ \A x \in 1 .. k : s[f[x]] = alarm_table[i][x]
  BY <1>1 DEF Embeds, s
<1>3. f \in [1 .. k -> 1 .. Len(p)]
  BY <1>2
<1>4. \A x \in 1 .. k : p[f[x]] = alarm_table[i][x]
  BY <1>1, <1>2
<1> QED BY <1>2, <1>3, <1>4 DEF Embeds

(* Where the prefix asked for may end in p, and what is traced from there.  *)
Ends(p) == {n \in 0 .. Len(p) : Embeds(request[2], request[1], SubSeq(p, 1, n))}

First(S) == CHOOSE n \in S : \A m \in S : n <= m

Traced(p) ==
  IF request = <<>> THEN p
  ELSE IF Ends(p) = {} THEN <<>> ELSE SubSeq(p, First(Ends(p)) + 1, Len(p))

LEMMA FirstIsLeast ==
  ASSUME NEW S \in SUBSET Nat, S # {}
  PROVE  First(S) \in S /\ \A m \in S : First(S) <= m
<1>1. PICK m : m \in S
  OBVIOUS
<1>2. IsWellFoundedOn(OpToRel(<, Nat), Nat)
  BY NatLessThanWellFounded
<1>3. PICK k \in S : \A j \in S : ~ (<<j, k>> \in OpToRel(<, Nat))
  BY <1>1, <1>2, WFMin
<1>4. \A j \in S : k <= j
  <2> SUFFICES ASSUME NEW j \in S, j < k PROVE FALSE
    OBVIOUS
  <2>1. <<j, k>> \in OpToRel(<, Nat)
    BY DEF OpToRel
  <2> QED BY <1>3, <2>1
<1> QED BY <1>3, <1>4 DEF First

LEMMA OccursOnceMore ==
  ASSUME NEW p \in Seq(Blocks), NEW id \in Blocks, NEW b \in Blocks
  PROVE  /\ Occurrences(b, p) \in Nat
         /\ Occurrences(b, Append(p, id)) = Occurrences(b, p) + (IF b = id THEN 1 ELSE 0)
<1> DEFINE at == {n \in 1 .. Len(p) : p[n] = b}
           q == Append(p, id)
           bt == {n \in 1 .. Len(q) : q[n] = b}
<1>1. Len(q) = Len(p) + 1 /\ q[Len(p) + 1] = id /\ \A n \in 1 .. Len(p) : q[n] = p[n]
  OBVIOUS
<1>2. IsFiniteSet(at) /\ Cardinality(at) \in Nat /\ Len(p) + 1 \notin at
  <2>1. IsFiniteSet(1 .. Len(p))
    BY FS_Interval
  <2>2. at \subseteq 1 .. Len(p)
    OBVIOUS
  <2> QED BY <2>1, <2>2, FS_Subset, FS_CardinalityType
<1>3. CASE b = id
  <2>1. bt = at \cup {Len(p) + 1}
    BY <1>1, <1>3
  <2> HIDE DEF at, bt, q
  <2>2. Cardinality(at \cup {Len(p) + 1}) = Cardinality(at) + 1
    BY <1>2, FS_AddElement
  <2> QED BY <1>2, <1>3, <2>1, <2>2 DEF Occurrences, at, bt, q
<1>4. CASE b # id
  <2>1. bt = at
    BY <1>1, <1>4
  <2>2. Occurrences(b, p) = Cardinality(at) /\ Occurrences(b, q) = Cardinality(bt)
    BY DEF Occurrences
  <2> HIDE DEF at, bt
  <2> QED BY <1>2, <1>4, <2>1, <2>2
<1> QED BY <1>3, <1>4

(* An ordinary run has is_prefix at FALSE; on a re-run it is TRUE once the  *)
(* prefix has ended before the last block, and the state cannot pass the    *)
(* column before that.                                                      *)
PrefixInv ==
  request # <<>> =>
    /\ is_prefix <=> \E n \in Ends(path) : n < Len(path)
    /\ ~is_prefix => cur_alarm_state[request[1]] <= request[2]

TracedInv == PrefixInv /\ SuffixIsTraced

LEMMA RequestTypes ==
  ASSUME TraceTypeOK, request # <<>>
  PROVE  /\ request[1] \in Alarms /\ request[2] \in Nat
         /\ request[2] < Len(alarm_table[request[1]])
         /\ Len(alarm_table[request[1]]) \in Nat
         /\ cur_alarm_state[request[1]] \in 0 .. Len(alarm_table[request[1]])
<1>1. PICK i \in Alarms : \E j \in 1 .. Len(alarm_table[i]) - 1 : request = <<i, j>>
  BY DEF TraceTypeOK, Requests
<1>2. PICK j \in 1 .. Len(alarm_table[i]) - 1 : request = <<i, j>>
  BY <1>1
<1>3. Len(alarm_table[i]) \in Nat
  BY TraceAssumption
<1> QED BY <1>2, <1>3 DEF TraceTypeOK

(* The prefix has ended somewhere in the run when the state has come so far.*)
LEMMA EndsFollowState ==
  ASSUME TraceTypeOK, StateIsLongest, request # <<>>
  PROVE  Ends(path) # {} <=> cur_alarm_state[request[1]] >= request[2]
<1> DEFINE i == request[1]
           j == request[2]
           s == cur_alarm_state[i]
<1>1. /\ i \in Alarms /\ j \in Nat /\ j < Len(alarm_table[i])
      /\ Len(alarm_table[i]) \in Nat /\ s \in 0 .. Len(alarm_table[i]) /\ path \in Seq(Blocks)
  BY RequestTypes DEF TraceTypeOK
<1>2. Embeds(s, i, path) /\ (s < Len(alarm_table[i]) => ~Embeds(s + 1, i, path))
  BY <1>1 DEF StateIsLongest
<1> HIDE DEF i, j, s
<1>3. CASE s >= j
  <2>1. Embeds(j, i, path)
    BY <1>1, <1>2, <1>3, EmbedsFewer
  <2>2. SubSeq(path, 1, Len(path)) = path /\ Len(path) \in 0 .. Len(path)
    BY <1>1
  <2>3. Len(path) \in Ends(path)
    BY <2>1, <2>2 DEF Ends, i, j
  <2> QED BY <1>3, <2>3 DEF s, i, j
<1>4. CASE s < j
  <2> SUFFICES ASSUME NEW n \in Ends(path) PROVE FALSE
    BY <1>1, <1>4 DEF s, i, j
  <2>1. n \in 0 .. Len(path) /\ Embeds(j, i, SubSeq(path, 1, n))
    BY DEF Ends, i, j
  <2>2. Embeds(j, i, path)
    BY <1>1, <2>1, EmbedsLonger
  <2>3. Embeds(s + 1, i, path)
    BY <1>1, <1>4, <2>2, EmbedsFewer
  <2> QED BY <1>1, <1>2, <1>4, <2>3
<1> QED BY <1>1, <1>3, <1>4

(* One block more: what was an end stays one, and the run itself may be one.*)
LEMMA EndsGrow ==
  ASSUME NEW p \in Seq(Blocks), NEW id \in Blocks
  PROVE  /\ \A n \in 0 .. Len(p) : n \in Ends(Append(p, id)) <=> n \in Ends(p)
         /\ Ends(p) \subseteq 0 .. Len(p)
         /\ Ends(Append(p, id)) \subseteq 0 .. Len(p) + 1
<1>1. Len(Append(p, id)) = Len(p) + 1
  OBVIOUS
<1>2. ASSUME NEW n \in 0 .. Len(p) PROVE SubSeq(Append(p, id), 1, n) = SubSeq(p, 1, n)
  <2>1. \A x \in 1 .. n : Append(p, id)[x] = p[x]
    OBVIOUS
  <2> QED BY <1>1, <2>1
<1>3. ASSUME NEW n \in 0 .. Len(p) PROVE n \in Ends(Append(p, id)) <=> n \in Ends(p)
  <2>1. n \in 0 .. Len(Append(p, id))
    BY <1>1
  <2> QED BY <1>2, <2>1 DEF Ends
<1>4. Ends(p) \subseteq 0 .. Len(p) /\ Ends(Append(p, id)) \subseteq 0 .. Len(p) + 1
  BY <1>1 DEF Ends
<1> QED BY <1>3, <1>4

LEMMA TracedGrows ==
  ASSUME NEW p \in Seq(Blocks), NEW id \in Blocks
  PROVE  /\ Traced(p) \in Seq(Blocks)
         /\ request = <<>> \/ Ends(p) # {} => Traced(Append(p, id)) = Append(Traced(p), id)
         /\ request # <<>> /\ Ends(p) = {} => Traced(Append(p, id)) = <<>> /\ Traced(p) = <<>>
<1> DEFINE q == Append(p, id)
           L == Len(p)
<1>1. L \in Nat /\ Len(q) = L + 1 /\ q \in Seq(Blocks) /\ q[L + 1] = id
      /\ \A x \in 1 .. L : q[x] = p[x]
  OBVIOUS
<1>2. /\ \A n \in 0 .. L : n \in Ends(q) <=> n \in Ends(p)
      /\ Ends(p) \subseteq 0 .. L /\ Ends(q) \subseteq 0 .. L + 1
  BY EndsGrow
<1>3. CASE request = <<>>
  BY <1>3 DEF Traced
<1>4. CASE request # <<>> /\ Ends(p) # {}
  <2>1. First(Ends(p)) \in Ends(p) /\ \A m \in Ends(p) : First(Ends(p)) <= m
    BY <1>1, <1>2, <1>4, FirstIsLeast
  <2>2. First(Ends(q)) \in Ends(q) /\ \A m \in Ends(q) : First(Ends(q)) <= m
    BY <1>1, <1>2, <1>4, FirstIsLeast
  <2>3. First(Ends(q)) = First(Ends(p)) /\ Ends(q) # {}
    BY <1>1, <1>2, <2>1, <2>2
  <2>4. PICK m \in 0 .. L : m = First(Ends(p))
    BY <1>2, <2>1
  <2>5. Traced(p) = SubSeq(p, m + 1, L) /\ Traced(q) = SubSeq(q, m + 1, L + 1)
    BY <1>1, <1>4, <2>3, <2>4 DEF Traced
  <2>6. SubSeq(p, m + 1, L) \in Seq(Blocks)
    OBVIOUS
  <2>7. SubSeq(q, m + 1, L + 1) = Append(SubSeq(p, m + 1, L), id)
    <3>1. PICK u \in Seq(Blocks) : u = SubSeq(p, m + 1, L)
      BY <2>6
    <3>0. PICK r \in Seq(Blocks) : r = q
      BY <1>1
    <3>2. PICK v \in Seq(Blocks) : v = SubSeq(r, m + 1, L + 1)
      <4>1. Len(r) = L + 1 /\ m + 1 \in 1 .. L + 1
        BY <1>1, <3>0
      <4> HIDE DEF q, L
      <4>2. SubSeq(r, m + 1, L + 1) \in Seq(Blocks)
        BY <1>1, <4>1
      <4> QED BY <4>2
    <3>3. Len(u) = L - m /\ \A x \in 1 .. L - m : u[x] = p[m + x]
      BY <1>1, <3>1
    <3>4. Len(v) = L + 1 - m /\ \A x \in 1 .. L + 1 - m : v[x] = q[m + x]
      <4>1. Len(r) = L + 1 /\ m + 1 \in 1 .. L + 1
        BY <1>1, <3>0
      <4> HIDE DEF q, L
      <4>2. Len(v) = L + 1 - m /\ \A x \in 1 .. L + 1 - m : v[x] = r[m + x]
        BY <1>1, <3>2, <4>1
      <4> QED BY <3>0, <4>2
    <3> HIDE DEF q, L
    <3>5. /\ Append(u, id) \in Seq(Blocks) /\ Len(Append(u, id)) = L + 1 - m
          /\ Append(u, id)[L + 1 - m] = id
          /\ \A x \in 1 .. L - m : Append(u, id)[x] = p[m + x]
      BY <1>1, <3>1, <3>3
    <3>6. \A x \in 1 .. L + 1 - m : v[x] = Append(u, id)[x]
      BY <1>1, <3>4, <3>5
    <3>7. v = Append(u, id)
      BY <3>4, <3>5, <3>6
    <3> QED BY <3>0, <3>1, <3>2, <3>7
  <2> QED BY <1>4, <2>5, <2>6, <2>7
<1>5. CASE request # <<>> /\ Ends(p) = {}
  <2>1. Traced(p) = <<>>
    BY <1>5 DEF Traced
  <2>2. CASE Ends(q) = {}
    BY <1>5, <2>1, <2>2 DEF Traced
  <2>3. CASE Ends(q) # {}
    <3>1. First(Ends(q)) \in Ends(q)
      BY <1>1, <1>2, <2>3, FirstIsLeast
    <3>2. First(Ends(q)) = L + 1
      BY <1>1, <1>2, <1>5, <3>1
    <3>3. Traced(q) = SubSeq(q, L + 2, L + 1)
      BY <1>1, <1>5, <2>3, <3>2 DEF Traced
    <3>4. SubSeq(q, L + 2, L + 1) = <<>>
      BY <1>1
    <3> QED BY <1>5, <2>1, <3>3, <3>4
  <2> QED BY <2>2, <2>3
<1> QED BY <1>3, <1>4, <1>5

LEMMA TracedIsPart == TracedPart = Traced(path)
BY DEF TracedPart, Traced, Ends, First

LEMMA InstrPrefix ==
  ASSUME TraceTypeOK, StateIsLongest, PrefixInv, NEW id \in Blocks, __instr_bb(id)
  PROVE  /\ PrefixInv'
         /\ request # <<>> => (is_prefix' <=> Ends(path) # {})
<1>1. CASE request = <<>>
  BY <1>1 DEF PrefixInv, __instr_bb
<1>2. CASE request # <<>>
  <2> DEFINE i == request[1]
             j == request[2]
             s == cur_alarm_state[i]
  <2>1. /\ i \in Alarms /\ j \in Nat /\ s \in Nat /\ path \in Seq(Blocks)
        /\ is_prefix \in BOOLEAN
    BY <1>2, RequestTypes DEF TraceTypeOK
  <2>2. /\ request' = request /\ path' = Append(path, id)
        /\ is_prefix' <=> is_prefix \/ s = j
        /\ cur_alarm_state'[i] \in {s, s + 1}
    BY <1>2, <2>1 DEF __instr_bb, PassesPrefix
  <2>3. Ends(path) # {} <=> s >= j
    BY <1>2, EndsFollowState
  <2>4. /\ is_prefix <=> \E n \in Ends(path) : n < Len(path)
        /\ ~is_prefix => s <= j
    BY <1>2 DEF PrefixInv
  <2> HIDE DEF i, j, s
  <2>5. is_prefix' <=> Ends(path) # {}
    BY <2>1, <2>2, <2>3, <2>4
  <2>6. /\ \A n \in 0 .. Len(path) : n \in Ends(Append(path, id)) <=> n \in Ends(path)
        /\ Ends(path) \subseteq 0 .. Len(path)
        /\ Ends(Append(path, id)) \subseteq 0 .. Len(path) + 1
        /\ Len(Append(path, id)) = Len(path) + 1 /\ Len(path) \in Nat
    BY <2>1, EndsGrow
  <2>7. is_prefix' <=> \E n \in Ends(Append(path, id)) : n < Len(Append(path, id))
    BY <2>5, <2>6
  <2>8. Ends(path)' = Ends(Append(path, id))
    BY <2>2 DEF Ends, Embeds
  <2>9. ~is_prefix' => cur_alarm_state'[i] <= j
    BY <2>1, <2>2, <2>4
  <2> QED BY <2>2, <2>5, <2>7, <2>8, <2>9 DEF PrefixInv, i, j
<1> QED BY <1>1, <1>2

(* Counting one more, modulo B, is counting modulo B of one more.          *)
LEMMA ModSucc ==
  ASSUME NEW x \in Nat, NEW B \in Nat, B > 1
  PROVE  /\ (x % B) \in 0 .. B - 1
         /\ ((x % B) + 1) % B = (x + 1) % B
<1> DEFINE r == x % B
           d == x \div B
<1>1. d \in Nat /\ r \in 0 .. B - 1 /\ x = (B * d) + r
  OBVIOUS
<1>2. ASSUME NEW e \in Nat, NEW s \in 0 .. B - 1 PROVE ((B * e) + s) % B = s
  OBVIOUS
<1> HIDE DEF r, d
<1>3. CASE r + 1 < B
  <2>1. x + 1 = (B * d) + (r + 1) /\ r + 1 \in 0 .. B - 1
    BY <1>1, <1>3
  <2>2. (x + 1) % B = r + 1
    BY <1>1, <1>2, <2>1
  <2>3. B * 0 = 0
    OBVIOUS
  <2>4. (r + 1) % B = r + 1
    BY <1>1, <1>3
  <2> QED BY <1>1, <2>2, <2>4 DEF r
<1>4. CASE r + 1 = B
  <2>1. B * (d + 1) = (B * d) + B
    BY <1>1
  <2>2. x + 1 = (B * (d + 1)) + 0 /\ d + 1 \in Nat
    BY <1>1, <1>4, <2>1
  <2>3. (x + 1) % B = 0
    BY <1>2, <2>2
  <2>4. B % B = 0
    OBVIOUS
  <2> QED BY <1>1, <1>4, <2>3, <2>4 DEF r
<1> QED BY <1>1, <1>3, <1>4

LEMMA InstrTraced ==
  ASSUME TraceTypeOK, StateIsLongest, TracedInv, NEW id \in Blocks, __instr_bb(id)
  PROVE  TracedInv'
<1>1. PrefixInv' /\ (request # <<>> => (is_prefix' <=> Ends(path) # {}))
  BY InstrPrefix DEF TracedInv
<1>2. /\ path \in Seq(Blocks) /\ path' = Append(path, id) /\ request' = request
      /\ trace_bb \in [0 .. trace_size -> 0 .. ByteSize - 1]
  BY DEF TraceTypeOK, __instr_bb
<1>3. trace_bb' = IF request = <<>> \/ Ends(path) # {}
                    THEN [trace_bb EXCEPT ![new_bb_id[id]] = (@ + 1) % ByteSize]
                    ELSE trace_bb
  BY <1>1 DEF __instr_bb
<1>4. /\ ByteSize \in Nat /\ ByteSize > 1 /\ trace_size \in Nat
      /\ new_bb_id \in [Blocks -> 1 .. trace_size]
      /\ \A a, b \in Blocks : new_bb_id[a] = new_bb_id[b] => a = b
  BY TraceAssumption, FS_CardinalityType DEF trace_size
<1>5. /\ \A b \in Blocks : new_bb_id[b] < trace_size =>
           trace_bb[new_bb_id[b]] = Occurrences(b, Traced(path)) % ByteSize
      /\ trace_bb[0] = 0
  BY TracedIsPart DEF TracedInv, SuffixIsTraced
<1>6. Traced(path)' = Traced(Append(path, id))
  BY <1>2 DEF Traced, Ends, Embeds, First
<1>7. TracedPart' = Traced(Append(path, id))
  <2>1. TracedPart' = Traced(path)'
    BY DEF TracedPart, Traced, Ends, First
  <2> QED BY <1>6, <2>1
<1>8. /\ Traced(path) \in Seq(Blocks)
      /\ request = <<>> \/ Ends(path) # {} =>
           Traced(Append(path, id)) = Append(Traced(path), id)
      /\ request # <<>> /\ Ends(path) = {} =>
           Traced(Append(path, id)) = <<>> /\ Traced(path) = <<>>
  BY <1>2, TracedGrows
<1>9. trace_bb'[0] = 0
  BY <1>2, <1>3, <1>4, <1>5
<1>10. ASSUME NEW b \in Blocks, new_bb_id[b] < trace_size
       PROVE  trace_bb'[new_bb_id[b]] = Occurrences(b, Traced(Append(path, id))) % ByteSize
  <2>1. PICK n \in 0 .. trace_size : n = new_bb_id[b] /\ (n = new_bb_id[id] <=> b = id)
    BY <1>4
  <2>2. PICK x \in Nat : /\ x = Occurrences(b, Traced(path))
                         /\ Occurrences(b, Append(Traced(path), id)) =
                              x + (IF b = id THEN 1 ELSE 0)
    BY <1>8, OccursOnceMore
  <2>3. trace_bb[n] = x % ByteSize
    BY <1>5, <1>10, <2>1, <2>2
  <2>4. CASE request = <<>> \/ Ends(path) # {}
    <3>1. Occurrences(b, Traced(Append(path, id))) = x + (IF b = id THEN 1 ELSE 0)
      BY <1>8, <2>2, <2>4
    <3>2. CASE b = id
      <4>1. trace_bb'[n] = (trace_bb[n] + 1) % ByteSize
        BY <1>2, <1>3, <2>1, <2>4, <3>2
      <4>2. ((x % ByteSize) + 1) % ByteSize = (x + 1) % ByteSize
        BY <1>4, ModSucc
      <4> QED BY <2>1, <2>3, <3>1, <3>2, <4>1, <4>2
    <3>3. CASE b # id
      <4>1. trace_bb'[n] = trace_bb[n]
        BY <1>2, <1>3, <2>1, <2>4, <3>3
      <4>2. x + 0 = x
        OBVIOUS
      <4> QED BY <2>1, <2>3, <3>1, <3>3, <4>1, <4>2
    <3> QED BY <3>2, <3>3
  <2>5. CASE ~(request = <<>> \/ Ends(path) # {})
    BY <1>3, <1>8, <2>1, <2>2, <2>3, <2>5
  <2> QED BY <2>4, <2>5
<1>11. SuffixIsTraced'
  BY <1>7, <1>9, <1>10, <1>2 DEF SuffixIsTraced
<1> QED BY <1>1, <1>11 DEF TracedInv

LEMMA InitTraced ==
  ASSUME TraceInit, StateIsLongest, TraceTypeOK
  PROVE  TracedInv
<1>1. path = <<>> /\ Len(path) = 0 /\ is_prefix = FALSE
  BY DEF TraceInit
<1>2. PrefixInv
  <2>1. Ends(path) \subseteq 0 .. 0
    BY <1>1 DEF Ends
  <2>2. request # <<>> => cur_alarm_state[request[1]] <= request[2]
    BY RequestTypes DEF TraceInit
  <2> QED BY <1>1, <2>1, <2>2 DEF PrefixInv
<1>3. Traced(path) = <<>>
  <2>1. CASE request = <<>> \/ Ends(path) = {}
    BY <1>1, <2>1 DEF Traced
  <2>2. CASE request # <<>> /\ Ends(path) # {}
    <3>1. First(Ends(path)) = 0
      <4>1. Ends(path) \subseteq {0}
        BY <1>1 DEF Ends
      <4> QED BY <2>2, <4>1 DEF First
    <3> QED BY <1>1, <2>2, <3>1 DEF Traced
  <2> QED BY <2>1, <2>2
<1>4. \A b \in Blocks : Occurrences(b, <<>>) = 0
  <2>1. \A b \in Blocks : {n \in 1 .. Len(<<>>) : <<>>[n] = b} = {}
    OBVIOUS
  <2> QED BY <2>1, FS_EmptySet DEF Occurrences
<1>5. SuffixIsTraced
  <2>1. trace_size \in Nat /\ new_bb_id \in [Blocks -> 1 .. trace_size]
        /\ ByteSize \in Nat /\ ByteSize > 1
    BY TraceAssumption, FS_CardinalityType DEF trace_size
  <2>2. 0 % ByteSize = 0
    BY <2>1
  <2>3. trace_size # 0
    BY TraceAssumption, FS_EmptySet DEF trace_size
  <2> QED BY <1>3, <1>4, <2>1, <2>2, <2>3, TracedIsPart DEF SuffixIsTraced, TraceInit
<1> QED BY <1>2, <1>5 DEF TracedInv

-----------------------------------------------------------------------------
TraceInv == TraceTypeOK /\ StateIsLongest /\ StatusIsPrefix /\ TracedInv

LEMMA InitTrace == TraceInit => TraceInv
<1> SUFFICES ASSUME TraceInit PROVE TraceInv
  OBVIOUS
<1>1. TraceTypeOK
  <2>1. trace_bb \in [0 .. trace_size -> 0 .. ByteSize - 1]
    BY TraceAssumption DEF TraceInit
  <2>2. \A i \in Alarms : 0 \in 0 .. Len(alarm_table[i])
    BY TraceAssumption
  <2>3. path \in Seq(Blocks) /\ cur_bb_status_table \subseteq Alarms \X Nat
    BY DEF TraceInit
  <2>4. DOMAIN cur_alarm_state = Alarms /\ \A i \in Alarms : cur_alarm_state[i] = 0
    BY DEF TraceInit
  <2>5. request \in Requests /\ is_prefix \in BOOLEAN
    BY DEF TraceInit
  <2> QED BY <2>1, <2>2, <2>3, <2>4, <2>5 DEF TraceTypeOK
<1>2. StateIsLongest
  BY EmptyEmbeds DEF TraceInit, StateIsLongest
<1>3. StatusIsPrefix
  BY DEF TraceInit, StatusIsPrefix
<1>4. TracedInv
  BY <1>1, <1>2, InitTraced
<1> QED BY <1>1, <1>2, <1>3, <1>4 DEF TraceInv

LEMMA NextTrace == TraceInv /\ [TraceNext]_traceVars => TraceInv'
<1> SUFFICES ASSUME TraceInv, [TraceNext]_traceVars PROVE TraceInv'
  OBVIOUS
<1>1. ASSUME NEW id \in Blocks, __instr_bb(id) PROVE TraceInv'
  BY <1>1, InstrTypes, InstrLongest, InstrStatus, InstrTraced DEF TraceInv
<1>2. CASE UNCHANGED traceVars
  <2> USE <1>2 DEF traceVars
  <2>1. TraceTypeOK'
    BY DEF TraceInv, TraceTypeOK
  <2>2. StateIsLongest'
    BY DEF TraceInv, StateIsLongest, Embeds
  <2>3. StatusIsPrefix'
    BY DEF TraceInv, StatusIsPrefix
  <2>4. PrefixInv'
    <3>1. Ends(path)' = Ends(path)
      BY DEF Ends, Embeds
    <3> QED BY <3>1 DEF TraceInv, TracedInv, PrefixInv
  <2>5. SuffixIsTraced'
    <3>1. SuffixIsTraced
      BY DEF TraceInv, TracedInv
    <3>2. TracedPart' = TracedPart
      BY DEF TracedPart, Embeds
    <3> QED BY <3>1, <3>2 DEF SuffixIsTraced
  <2> QED BY <2>1, <2>2, <2>3, <2>4, <2>5 DEF TraceInv, TracedInv
<1> QED BY <1>1, <1>2 DEF TraceNext, End

LEMMA TraceInvariant == TraceSpec => []TraceInv
<1> QED BY InitTrace, NextTrace, PTL DEF TraceSpec

(* The tables a run leaves in shared memory are what afl-fuzz expects to    *)
(* read: states within the alarms, statuses at columns, bytes in the trace. *)
THEOREM TraceTypes == TraceSpec => []TraceTypeOK
<1> QED BY TraceInvariant, PTL DEF TraceInv

(* cur_alarm_state, which __instr_bb advances greedily, is the length of    *)
(* the longest prefix of the alarm's steps that the run takes in order, for *)
(* every run, every alarm table and steps that repeat.                      *)
THEOREM GreedyIsLongest == TraceSpec => []StateIsLongest
<1> QED BY TraceInvariant, PTL DEF TraceInv

(* The status table of a run marks exactly the steps below cur_alarm_state: *)
(* the two ways afl-fuzz looks at a run's progress agree, and every alarm's *)
(* covered steps are a prefix of it.                                        *)
THEOREM StatusFollowsState == TraceSpec => []StatusIsPrefix
<1> QED BY TraceInvariant, PTL DEF TraceInv

(* What trace_bb holds after a re-run is what the distances are measured    *)
(* on: the blocks executed after the prefix asked for, however often the    *)
(* run takes its steps, each counted modulo the byte; after an ordinary run *)
(* it is the whole run.                                                     *)
THEOREM ReRunTracesSuffix == TraceSpec => []SuffixIsTraced
<1>1. TraceInv => SuffixIsTraced
  BY DEF TraceInv, TracedInv
<1> QED BY <1>1, TraceInvariant, PTL

---------------------------------------------------------------------------
(***************************************************************************)
(* ForkServer: trace, verdict and re-run request are those of the run at   *)
(* hand, for any number of runs, and whenever a signal comes.              *)
(*                                                                         *)
(* Until Ctrl-C the two processes take turns.  A run is Free, Asked for,   *)
(* Awaited by the server, or its end is Reported; each of these says where *)
(* both sides are, what is in the pipes, and what is known of the process. *)
(* After Ctrl-C the server is dead and only the process goes on.           *)
(***************************************************************************)

Booleans ==
  /\ is_persistent \in BOOLEAN /\ child_pid \in BOOLEAN /\ child_timed_out \in BOOLEAN
  /\ prev_timed_out \in BOOLEAN /\ stop_soon \in BOOLEAN /\ armed \in BOOLEAN
  /\ child_stopped \in BOOLEAN /\ re_run \in BOOLEAN /\ re_run_info \in BOOLEAN
  /\ requested \in BOOLEAN /\ fresh \in BOOLEAN /\ dirty \in BOOLEAN
  /\ run \in Nat

\* What a process that runs works for, whatever the others do.
Running ==
  /\ traced \subseteq {run}
  /\ child = "running" =>
       /\ serves = run
       /\ re_run => requested \/ dirty
       /\ requested => re_run \/ (is_persistent /\ fresh)

\* Only a process that did not clean up leaves a request behind.
Clean == child # "running" /\ (re_run_info => dirty)

\* No run: the last one is accounted for.
Free ==
  /\ fz = "idle" /\ sv = "read" /\ ctl = <<>> /\ st = <<>>
  /\ ~armed /\ Clean
  /\ child_stopped => child = "stopped" \/ prev_timed_out
  /\ prev_timed_out => child \in Dead
  /\ run > 0 => TraceIsOfThisRun /\ VerdictIsOwn

\* The request is written, no process works on it yet.
Asked ==
  /\ fz = "wrote" /\ st = <<>>
  /\ \/ /\ sv = "read" /\ ctl = <<prev_timed_out>>
        /\ child_stopped => child = "stopped" \/ prev_timed_out
        /\ prev_timed_out => child \in Dead
     \/ /\ sv \in {"reap", "start"} /\ ctl = <<>>
        /\ child_stopped => child = "stopped"
        /\ sv = "reap" => child \in Dead
  /\ ~armed /\ ~child_timed_out /\ child # "running"
  /\ re_run_info => requested \/ dirty
  /\ requested => re_run_info

\* The server waits for the process, and once afl-fuzz has its pid the timer does.
Awaited ==
  /\ sv = "wait" /\ ctl = <<>>
  /\ child \in Alive \cup Dead /\ (child_timed_out => child \in Dead)
  /\ fz = "running" => child_pid /\ (armed \/ child \in Dead)
  /\ (fz = "wrote" /\ st = <<"pid">>) \/ (fz = "running" /\ st = <<>>)
  /\ serves = run /\ ~child_stopped
  /\ child # "running" => Clean /\ (run \in traced \/ (child = "sigkill" /\ child_timed_out))

\* The server has reported the end, or stop, of the process.
Reported(x) ==
  /\ sv = "read" /\ ctl = <<>>
  /\ \/ fz = "wrote" /\ st = <<"pid", x>>
     \/ fz = "running" /\ st = <<x>>
     \/ fz \in {"status", "cleared"} /\ st = <<>> /\ status = x
  /\ serves = run /\ Clean /\ child_stopped = (x = "stopped")
  /\ child = x \/ (x = "stopped" /\ child = "sigkill" /\ child_timed_out)
  /\ child_timed_out => child \in Dead
  /\ run \in traced \/ (x = "sigkill" /\ child_timed_out)

Turns ==
  \/ stop_soon /\ sv = "dead"
  \/ ~stop_soon /\ (Free \/ Asked \/ Awaited \/ \E x \in Dead \cup {"stopped"} : Reported(x))

Inv == Booleans /\ Running /\ Turns

---------------------------------------------------------------------------
\* What a pipe holds after a write or a read.
LEMMA Pipes ==
  ASSUME NEW a, NEW b
  PROVE  /\ Head(<<a>>) = a /\ Tail(<<a>>) = <<>>
         /\ Append(<<>>, a) = <<a>> /\ Append(<<a>>, b) = <<a, b>>
<1>1. Head(<<a>>) = a
  OBVIOUS
<1>2. Tail(<<a>>) = <<>>
  OBVIOUS
<1>3. Append(<<>>, a) = <<a>>
  OBVIOUS
<1>4. Append(<<a>>, b) = <<a, b>>
  <2>1. <<a>> \in Seq({a, b}) /\ <<a, b>> \in Seq({a, b}) /\ b \in {a, b}
    OBVIOUS
  <2>2. /\ Append(<<a>>, b) \in Seq({a, b}) /\ Len(Append(<<a>>, b)) = 2
        /\ Append(<<a>>, b)[1] = a /\ Append(<<a>>, b)[2] = b
    BY <2>1, AppendProperties
  <2>3. Len(<<a, b>>) = 2 /\ <<a, b>>[1] = a /\ <<a, b>>[2] = b
    OBVIOUS
  <2>4. \A i \in 1 .. 2 : i = 1 \/ i = 2
    OBVIOUS
  <2> QED BY <2>1, <2>2, <2>3, <2>4, SeqEqual
<1> QED BY <1>1, <1>2, <1>3, <1>4

LEMMA InitInv == Init => Inv
<1> SUFFICES ASSUME Init PROVE Inv
  OBVIOUS
<1>1. Booleans /\ Running
  BY DEF Init, Booleans, Running
<1>2. Free /\ ~stop_soon
  BY DEF Init, Free, Clean
<1> QED BY <1>1, <1>2 DEF Inv, Turns

\* What the process does.
LEMMA ChildKeeps ==
  ASSUME Inv, Child
  PROVE  Booleans' /\ Running'
<1> USE DEF Inv, Booleans, Running
<1>1. CASE ChildTraces
  <2>1. Running'
    BY <1>1 DEF ChildTraces, serverVars, fuzzerVars
  <2>2. Booleans'
    BY <1>1 DEF ChildTraces, serverVars, fuzzerVars
  <2> QED BY <2>1, <2>2
<1>2. CASE ChildStops
  BY <1>2 DEF ChildStops, CleansUp, serverVars, fuzzerVars
<1>3. CASE ChildExits
  BY <1>3 DEF ChildExits, CleansUp, serverVars, fuzzerVars
<1>4. CASE ChildDies
  BY <1>4 DEF ChildDies, serverVars, fuzzerVars, Dead
<1> QED BY <1>1, <1>2, <1>3, <1>4 DEF Child

\* After Ctrl-C.
LEMMA StoppedKeeps ==
  ASSUME Inv, stop_soon, [Next]_vars
  PROVE  Inv'
<1>1. sv = "dead"
  BY DEF Inv, Turns
<1>2. CASE Abort \/ ReadPid \/ ReadStatus \/ ClearPid \/ Return
  <2>1. /\ UNCHANGED <<is_persistent, run, requested, stop_soon, serverVars, childVars>>
        /\ child_timed_out' = child_timed_out
        /\ child_pid' \in BOOLEAN /\ prev_timed_out' \in BOOLEAN /\ armed' \in BOOLEAN
    <3>1. CASE Abort
      BY <3>1 DEF Abort, Inv, Booleans
    <3>2. CASE ReadPid
      BY <3>2 DEF ReadPid, Inv, Booleans
    <3>3. CASE ReadStatus
      BY <3>3 DEF ReadStatus, Inv, Booleans
    <3>4. CASE ClearPid
      BY <3>4 DEF ClearPid, Inv, Booleans
    <3>5. CASE Return
      BY <3>5 DEF Return, Inv, Booleans
    <3> QED BY <1>2, <3>1, <3>2, <3>3, <3>4, <3>5
  <2> QED BY <1>1, <2>1 DEF Inv, Booleans, Running, Turns, serverVars, childVars
<1>3. CASE Child
  <2>1. sv' = sv /\ stop_soon' = stop_soon
    BY <1>3 DEF Child, ChildTraces, ChildStops, ChildExits, ChildDies, serverVars
  <2> QED BY <1>1, <1>3, <2>1, ChildKeeps DEF Inv, Turns
<1>4. CASE handle_timeout
  BY <1>1, <1>4 DEF Inv, Booleans, Running, Turns, handle_timeout, Killed, serverVars, Alive
<1>5. CASE UNCHANGED vars
  BY <1>1, <1>5 DEF Inv, Booleans, Running, Turns, vars, fuzzerVars, serverVars, childVars
<1> QED BY <1>1, <1>2, <1>3, <1>4, <1>5 DEF Next, Fuzzer, Server, Request, SvRead, SvReap, SvFork,
       SvContinue, SvWait, handle_stop_sig, Done

---------------------------------------------------------------------------
\* Booleans and what a process that runs works for, in every step.
LEMMA RunningKept ==
  ASSUME Inv, ~stop_soon, [Next]_vars
  PROVE  Booleans' /\ Running'
<1> USE DEF Inv, Booleans, Running
<1>1. ASSUME NEW from_distance \in BOOLEAN, Request(from_distance)
      PROVE  Booleans' /\ Running'
  <2>1. child # "running"
    BY <1>1 DEF Turns, Free, Asked, Awaited, Reported, Clean, Request
  <2>2. run' \in Nat /\ re_run_info' \in BOOLEAN /\ requested' \in BOOLEAN /\ child_timed_out' \in BOOLEAN
    <3>1. run' = run + 1 /\ re_run_info' = (re_run_info \/ from_distance)
          /\ requested' = from_distance /\ child_timed_out' = FALSE
      BY <1>1 DEF Request
    <3>2. re_run_info' \in BOOLEAN /\ requested' \in BOOLEAN /\ child_timed_out' \in BOOLEAN
      BY <1>1, <3>1, Zenon
    <3>3. run' \in Nat
      BY <3>1
    <3> QED BY <3>2, <3>3
  <2> QED BY <1>1, <2>1, <2>2 DEF Request, serverVars
<1>2. CASE ReadPid \/ ReadStatus \/ Abort
  <2>1. CASE ReadPid
    BY <2>1 DEF ReadPid, serverVars, childVars
  <2>2. CASE ReadStatus
    BY <2>2 DEF ReadStatus, serverVars, childVars
  <2>3. CASE Abort
    BY <2>3 DEF Abort, serverVars, childVars
  <2> QED BY <1>2, <2>1, <2>2, <2>3
<1>3. CASE ClearPid
  BY <1>3 DEF ClearPid, serverVars, childVars
<1>4. CASE Return
  BY <1>4 DEF Return, serverVars, childVars
<1>5. CASE SvRead \/ SvReap
  <2>1. CASE SvRead
    <3>1. Running'
      BY <2>1 DEF SvRead, fuzzerVars, childVars
    <3>2. Booleans'
      BY <2>1 DEF SvRead, fuzzerVars, childVars
    <3> QED BY <3>1, <3>2
  <2>2. CASE SvReap
    BY <2>2 DEF SvReap, fuzzerVars, childVars
  <2> QED BY <1>5, <2>1, <2>2
<1>6. CASE SvFork
  <2>1. (re_run_info => requested \/ dirty) /\ (requested => re_run_info)
    BY <1>6 DEF Turns, Free, Asked, Awaited, Reported, SvFork
  <2> QED BY <1>6, <2>1 DEF SvFork, fuzzerVars
<1>7. CASE SvContinue
  <2>1. (re_run_info => requested \/ dirty) /\ (requested => re_run_info) /\ child = "stopped"
    BY <1>7 DEF Turns, Free, Asked, Awaited, Reported, SvContinue
  <2> QED BY <1>7, <2>1 DEF SvContinue, fuzzerVars
<1>8. CASE SvWait
  BY <1>8 DEF SvWait, fuzzerVars, childVars
<1>9. CASE Child
  BY <1>9, ChildKeeps
<1>10. CASE handle_timeout
  BY <1>10 DEF handle_timeout, Killed, Alive, serverVars
<1>11. CASE handle_stop_sig
  BY <1>11 DEF handle_stop_sig, Killed, Alive, fuzzerVars
<1>12. CASE UNCHANGED vars
  BY <1>12 DEF vars, fuzzerVars, serverVars, childVars
<1> QED BY <1>1, <1>2, <1>3, <1>4, <1>5, <1>6, <1>7, <1>8, <1>9, <1>10, <1>11, <1>12
       DEF Next, Fuzzer, Server, Done

---------------------------------------------------------------------------
(* The turns.  Each lemma: what may happen in that part of a run, and where *)
(* it leads.                                                                 *)

LEMMA FromFree ==
  ASSUME Inv, ~stop_soon, Free, [Next]_vars
  PROVE  (stop_soon /\ sv = "dead")' \/ (~stop_soon /\ (Free \/ Asked))'
<1> USE DEF Inv, Booleans, Free, Clean
<1>1. ASSUME NEW from_distance \in BOOLEAN, Request(from_distance)
      PROVE  (~stop_soon /\ Asked)'
  <2>1. /\ fz' = "wrote" /\ st' = <<>> /\ sv' = "read" /\ ctl' = <<prev_timed_out>>
        /\ prev_timed_out' = prev_timed_out /\ ~armed' /\ ~stop_soon'
        /\ child' = child /\ child_stopped' = child_stopped /\ ~child_timed_out'
    BY <1>1 DEF Request, serverVars
  <2>2. (re_run_info' => requested' \/ dirty') /\ (requested' => re_run_info')
    BY <1>1 DEF Request
  <2> QED BY <2>1, <2>2 DEF Asked
<1>2. CASE handle_stop_sig
  BY <1>2 DEF handle_stop_sig
<1>3. CASE UNCHANGED vars
  BY <1>3 DEF vars, fuzzerVars, serverVars, childVars, TraceIsOfThisRun, VerdictIsOwn, Returned
<1> QED BY <1>1, <1>2, <1>3 DEF Next, Fuzzer, Server, Child, ReadPid, ReadStatus, ClearPid, Return,
       Abort, SvRead, SvReap, SvFork, SvContinue, SvWait, ChildTraces, ChildStops, ChildExits,
       ChildDies, handle_timeout, Done

LEMMA FromAsked ==
  ASSUME Inv, ~stop_soon, Asked, [Next]_vars
  PROVE  (stop_soon /\ sv = "dead")' \/ (~stop_soon /\ (Asked \/ Awaited))'
<1> USE DEF Inv, Booleans, Asked
<1>1. CASE SvRead
  <2>1. ctl = <<prev_timed_out>> /\ sv = "read"
    BY <1>1 DEF SvRead
  <2>2. ctl' = <<>> /\ Head(ctl) = prev_timed_out
    BY <1>1, <2>1, Pipes DEF SvRead
  <2>3. CASE child_stopped /\ Head(ctl)
    BY <1>1, <2>1, <2>2, <2>3 DEF SvRead, fuzzerVars, childVars
  <2>4. CASE ~(child_stopped /\ Head(ctl))
    BY <1>1, <2>1, <2>2, <2>4 DEF SvRead, fuzzerVars, childVars
  <2> QED BY <2>3, <2>4
<1>2. CASE SvReap
  BY <1>2 DEF SvReap, fuzzerVars, childVars
<1>3. CASE SvFork
  <2>1. st' = <<"pid">>
    BY <1>3 DEF SvFork
  <2> QED BY <1>3, <2>1 DEF SvFork, fuzzerVars, Awaited, Alive
<1>4. CASE SvContinue
  <2>1. st' = <<"pid">> /\ child = "stopped"
    BY <1>4 DEF SvContinue
  <2> QED BY <1>4, <2>1 DEF SvContinue, fuzzerVars, Awaited, Alive
<1>5. CASE handle_stop_sig
  BY <1>5 DEF handle_stop_sig
<1>6. CASE UNCHANGED vars
  BY <1>6 DEF vars, fuzzerVars, serverVars, childVars
<1> QED BY <1>1, <1>2, <1>3, <1>4, <1>5, <1>6 DEF Next, Fuzzer, Server, Child, Request, ReadPid,
       ReadStatus, ClearPid, Return, Abort, SvWait, ChildTraces, ChildStops, ChildExits,
       ChildDies, handle_timeout, Done

LEMMA FromAwaited ==
  ASSUME Inv, ~stop_soon, Awaited, [Next]_vars
  PROVE  \/ (stop_soon /\ sv = "dead")'
         \/ (~stop_soon /\ (Awaited \/ \E x \in Dead \cup {"stopped"} : Reported(x)))'
<1> USE DEF Inv, Booleans, Awaited, Clean
<1>1. CASE ReadPid
  <2>1. st' = <<>> /\ fz' = "running"
    BY <1>1 DEF ReadPid
  <2> QED BY <1>1, <2>1 DEF ReadPid, serverVars, childVars
<1>2. CASE SvWait
  <2>1. child \in Dead \cup {"stopped"}
    BY <1>2 DEF SvWait
  <2>2. (fz = "wrote" /\ st' = <<"pid", child>>) \/ (fz = "running" /\ st' = <<child>>)
    <3>1. Append(<<"pid">>, child) = <<"pid", child>> /\ Append(<<>>, child) = <<child>>
      BY Pipes
    <3>2. st' = Append(st, child)
      BY <1>2 DEF SvWait
    <3> QED BY <3>1, <3>2
  <2>3. child # "running"
    BY <2>1 DEF Dead
  <2>4. Reported(child)'
    BY <1>2, <2>1, <2>2, <2>3 DEF SvWait, Reported, fuzzerVars, childVars
  <2>5. child' = child /\ ~stop_soon'
    BY <1>2 DEF SvWait, childVars
  <2> QED BY <2>1, <2>4, <2>5
<1>3. CASE ChildTraces
  BY <1>3 DEF ChildTraces, fuzzerVars, serverVars
<1>4. CASE ChildStops \/ ChildExits
  <2>1. child' \in {"stopped", "exited"} /\ child = "running" /\ serves \in traced
    BY <1>4 DEF ChildStops, ChildExits
  <2>2. ~child_timed_out /\ (fz = "running" => armed)
    BY <2>1 DEF Dead
  <2> QED BY <1>4, <2>1, <2>2 DEF ChildStops, ChildExits, CleansUp, fuzzerVars, serverVars, Alive, Dead
<1>5. CASE ChildDies
  BY <1>5 DEF ChildDies, fuzzerVars, serverVars, Dead
<1>6. CASE handle_timeout
  BY <1>6 DEF handle_timeout, Killed, Alive, Dead, serverVars
<1>7. CASE handle_stop_sig
  BY <1>7 DEF handle_stop_sig
<1>8. CASE UNCHANGED vars
  BY <1>8 DEF vars, fuzzerVars, serverVars, childVars
<1> QED BY <1>1, <1>2, <1>3, <1>4, <1>5, <1>6, <1>7, <1>8 DEF Next, Fuzzer, Server, Child, Request,
       ReadStatus, ClearPid, Return, Abort, SvRead, SvReap, SvFork, SvContinue, Done

\* The end of a run is here: the verdict is about a process of this run.
LEMMA FromReported ==
  ASSUME Inv, ~stop_soon, NEW x \in Dead \cup {"stopped"}, Reported(x), [Next]_vars
  PROVE  (stop_soon /\ sv = "dead")' \/ (~stop_soon /\ (Free \/ Reported(x)))'
<1> USE DEF Inv, Booleans, Reported, Clean
<1>1. CASE ReadPid
  <2>1. st = <<"pid", x>> /\ st' = Tail(st) /\ fz' = "running"
    BY <1>1 DEF ReadPid
  <2>2. st' = <<x>>
    BY <2>1
  <2> QED BY <1>1, <2>1, <2>2 DEF ReadPid, serverVars, childVars
<1>2. CASE ReadStatus
  <2>1. st = <<x>> /\ st' = <<>> /\ status' = x /\ fz' = "status"
    BY <1>2 DEF ReadStatus
  <2> QED BY <1>2, <2>1 DEF ReadStatus, serverVars, childVars
<1>3. CASE ClearPid
  BY <1>3 DEF ClearPid, serverVars, childVars
<1>4. CASE Return
  <2>1. /\ fz' = "idle" /\ sv' = "read" /\ ctl' = <<>> /\ st' = <<>> /\ ~armed' /\ status = x
        /\ prev_timed_out' = child_timed_out /\ child_timed_out' = child_timed_out
        /\ UNCHANGED <<child, serves, traced, run, re_run_info, dirty, stop_soon, child_stopped>>
    BY <1>4 DEF Return, serverVars, childVars
  <2>2. child_stopped' => child' = "stopped" \/ prev_timed_out'
    BY <2>1
  <2>3. verdict' = Verdict
    BY <1>4 DEF Return
  <2>4. TraceIsOfThisRun'
    BY <2>1, <2>3 DEF TraceIsOfThisRun, Running, Returned, Verdict
  <2>5. VerdictIsOwn'
    BY <2>1, <2>3 DEF VerdictIsOwn, Returned, Verdict
  <2> QED BY <2>1, <2>2, <2>4, <2>5 DEF Free
<1>5. CASE handle_timeout
  BY <1>5 DEF handle_timeout, Killed, Alive, Dead, serverVars
<1>6. CASE handle_stop_sig
  BY <1>6 DEF handle_stop_sig
<1>7. CASE UNCHANGED vars
  BY <1>7 DEF vars, fuzzerVars, serverVars, childVars
<1> QED BY <1>1, <1>2, <1>3, <1>4, <1>5, <1>6, <1>7 DEF Next, Fuzzer, Server, Child, Request, Abort,
       SvRead, SvReap, SvFork, SvContinue, SvWait, ChildTraces, ChildStops, ChildExits,
       ChildDies, Done

---------------------------------------------------------------------------
LEMMA NextInv == Inv /\ [Next]_vars => Inv'
<1> SUFFICES ASSUME Inv, [Next]_vars PROVE Inv'
  OBVIOUS
<1>1. CASE stop_soon
  BY <1>1, StoppedKeeps
<1>2. CASE ~stop_soon
  <2>1. Booleans' /\ Running'
    BY <1>2, RunningKept
  <2>2. Turns'
    <3>1. CASE Free
      BY <1>2, <3>1, FromFree DEF Turns
    <3>2. CASE Asked
      BY <1>2, <3>2, FromAsked DEF Turns
    <3>3. CASE Awaited
      BY <1>2, <3>3, FromAwaited DEF Turns
    <3>4. CASE \E x \in Dead \cup {"stopped"} : Reported(x)
      BY <1>2, <3>4, FromReported DEF Turns
    <3> QED BY <1>2, <3>1, <3>2, <3>3, <3>4 DEF Inv, Turns
  <2> QED BY <2>1, <2>2 DEF Inv
<1> QED BY <1>1, <1>2

LEMMA InvHolds == Spec => []Inv
  BY InitInv, NextInv, PTL DEF Spec

---------------------------------------------------------------------------
\* For any number of runs: what run_target leaves in trace_bb was written by
\* this run, and by all of it unless the timer killed the process.
THEOREM TraceIsOwn == Spec => []TraceIsOfThisRun
<1>1. Inv => TraceIsOfThisRun
  BY DEF Inv, Booleans, Running, Turns, Free, Asked, Awaited, Reported, TraceIsOfThisRun, Returned
<1> QED BY <1>1, InvHolds, PTL

\* The verdict of run_target is about a process that worked for this run, and
\* tells a kill by the timer of this run from every other death.
THEOREM VerdictsAreOwn == Spec => []VerdictIsOwn
<1>1. Inv => VerdictIsOwn
  BY DEF Inv, Booleans, Turns, Free, Asked, Awaited, Reported, VerdictIsOwn, Returned
<1> QED BY <1>1, InvHolds, PTL

\* A re-run request reaches the process it is for, and no other, but for the
\* first pass of a persistent process and what a process that died left behind.
THEOREM ReRunsAreRequested == Spec => []ReRunMatchesRequest
<1>1. Inv => ReRunMatchesRequest
  BY DEF Inv, Running, ReRunMatchesRequest
<1> QED BY <1>1, InvHolds, PTL

\* was_killed tells the server of every stopped process that is dead.
THEOREM ServerIsTold == Spec => []StoppedOrTold
<1>1. Inv => StoppedOrTold
  BY DEF Inv, Turns, Free, Asked, Awaited, Reported, StoppedOrTold
<1> QED BY <1>1, InvHolds, PTL

---------------------------------------------------------------------------
(* Who can move, and what the pipes hold                                   *)

\* What is in the status pipe, by where afl-fuzz is: it reads a pid, then a status.
Piped ==
  \/ fz \in {"idle", "status", "cleared"} /\ st = <<>>
  \/ fz = "wrote" /\ st \in {<<>>, <<"pid">>} \cup {<<"pid", x>> : x \in Dead \cup {"stopped"}}
  \/ fz = "running" /\ st \in {<<>>} \cup {<<x>> : x \in Dead \cup {"stopped"}}

Kinds ==
  /\ fz \in {"idle", "wrote", "running", "status", "cleared"}
  /\ sv \in {"read", "reap", "start", "wait", "dead"}
  /\ child \in Alive \cup Dead \cup {"none"}
  /\ status \in Dead \cup {"stopped"}
  /\ verdict \in {"FAULT_NONE", "FAULT_TMOUT", "FAULT_CRASH"}
  /\ run \in 0 .. MaxRuns /\ serves \in 0 .. MaxRuns /\ traced \subseteq 1 .. MaxRuns
  /\ (fz # "idle" => run # 0) /\ (child = "running" => serves # 0)
  /\ ctl \in {<<>>} \cup {<<b>> : b \in BOOLEAN}
  /\ Piped

\* afl-fuzz writes a request to an empty pipe, and reads what the server has written.
LEMMA FuzzerKeepsKinds ==
  ASSUME Inv, Kinds, Fuzzer
  PROVE  Kinds'
<1> USE DEF Kinds, Piped
<1>1. ASSUME NEW from_distance \in BOOLEAN, Request(from_distance) PROVE Kinds'
  <2>1. ctl = <<>> /\ st = <<>>
    BY <1>1 DEF Inv, Turns, Free, Asked, Awaited, Reported, Request
  <2>2. ctl' = <<prev_timed_out>> /\ prev_timed_out \in BOOLEAN
    BY <1>1, <2>1, Pipes DEF Request, Inv, Booleans
  <2>3. run' \in 0 .. MaxRuns /\ run' # 0
    BY <1>1, RunsAssumption DEF Request
  <2> QED BY <1>1, <2>1, <2>2, <2>3 DEF Request, serverVars
<1>2. CASE ReadPid
  <2>1. st' = Tail(st) /\ fz' = "running" /\ fz = "wrote"
    BY <1>2 DEF ReadPid
  <2>2. CASE st = <<"pid">>
    BY <1>2, <2>1, <2>2, Pipes DEF ReadPid, serverVars, childVars
  <2>3. ASSUME NEW x \in Dead \cup {"stopped"}, st = <<"pid", x>> PROVE Kinds'
    <3>1. st' = <<x>>
      BY <2>1, <2>3
    <3> QED BY <1>2, <2>1, <3>1 DEF ReadPid, serverVars, childVars
  <2> QED BY <1>2, <2>1, <2>2, <2>3 DEF ReadPid
<1>3. CASE ReadStatus
  <2>1. PICK x \in Dead \cup {"stopped"} : st = <<x>>
    BY <1>3 DEF ReadStatus
  <2>2. status' = x /\ st' = <<>>
    BY <1>3, <2>1, Pipes DEF ReadStatus
  <2> QED BY <1>3, <2>2 DEF ReadStatus, serverVars, childVars
<1>4. CASE ClearPid
  BY <1>4 DEF ClearPid, serverVars, childVars
<1>5. CASE Return
  <2>1. verdict' \in {"FAULT_NONE", "FAULT_TMOUT", "FAULT_CRASH"}
    BY <1>5 DEF Return, Verdict
  <2> QED BY <1>5, <2>1 DEF Return, serverVars, childVars
<1>6. CASE Abort
  BY <1>6 DEF Abort, serverVars, childVars
<1> QED BY <1>1, <1>2, <1>3, <1>4, <1>5, <1>6 DEF Fuzzer

\* The server writes a pid, and a status behind it.
LEMMA ServerKeepsKinds ==
  ASSUME Inv, Kinds, Server
  PROVE  Kinds'
<1> USE DEF Kinds, Piped
<1>1. CASE SvRead
  <2>1. ctl' = <<>> /\ sv' \in {"reap", "start"}
    <3>1. PICK b \in BOOLEAN : ctl = <<b>>
      BY <1>1 DEF SvRead
    <3> QED BY <1>1, <3>1, Pipes DEF SvRead
  <2> QED BY <1>1, <2>1 DEF SvRead, fuzzerVars, childVars
<1>2. CASE SvReap
  BY <1>2 DEF SvReap, fuzzerVars, childVars
<1>3. CASE SvFork \/ SvContinue
  <2>1. fz = "wrote" /\ st = <<>>
    BY <1>3 DEF Inv, Turns, Free, Asked, Awaited, Reported, SvFork, SvContinue
  <2>2. st' = <<"pid">>
    BY <1>3, <2>1, Pipes DEF SvFork, SvContinue
  <2>3. CASE SvFork
    BY <2>1, <2>2, <2>3 DEF SvFork, fuzzerVars, Alive
  <2>4. CASE SvContinue
    BY <2>1, <2>2, <2>4 DEF SvContinue, fuzzerVars, Alive
  <2> QED BY <1>3, <2>3, <2>4
<1>4. CASE SvWait
  <2>1. child \in Dead \cup {"stopped"} /\ st' = Append(st, child)
    BY <1>4 DEF SvWait
  <2>2. (fz = "wrote" /\ st = <<"pid">>) \/ (fz = "running" /\ st = <<>>)
    BY <1>4 DEF Inv, Turns, Free, Asked, Awaited, Reported, SvWait
  <2>3. (fz = "wrote" /\ st' = <<"pid", child>>) \/ (fz = "running" /\ st' = <<child>>)
    BY <2>1, <2>2, Pipes
  <2> QED BY <1>4, <2>1, <2>3 DEF SvWait, fuzzerVars, childVars
<1> QED BY <1>1, <1>2, <1>3, <1>4 DEF Server

LEMMA NextKinds == Inv /\ Kinds /\ [Next]_vars => Kinds'
<1> SUFFICES ASSUME Inv, Kinds, [Next]_vars PROVE Kinds'
  OBVIOUS
<1>1. CASE Child
  <2>1. UNCHANGED <<fuzzerVars, ctl, st, sv, serves>> /\ child = "running"
    BY <1>1 DEF Child, ChildTraces, ChildStops, ChildExits, ChildDies, serverVars
  <2>2. child' \in Alive \cup Dead
    BY <1>1 DEF Child, ChildTraces, ChildStops, ChildExits, ChildDies, Alive, Dead
  <2>3. traced' \subseteq traced \cup {serves}
    BY <1>1 DEF Child, ChildTraces, ChildStops, ChildExits, ChildDies
  <2> QED BY <2>1, <2>2, <2>3, RunsAssumption DEF Kinds, Piped, fuzzerVars
<1>2. CASE handle_timeout \/ handle_stop_sig
  <2>1. /\ UNCHANGED <<fz, run, status, verdict, ctl, st, serves, traced>>
        /\ sv' \in {sv, "dead"} /\ child' \in {child, "sigkill"}
    BY <1>2 DEF handle_timeout, handle_stop_sig, Killed, fuzzerVars, serverVars
  <2> QED BY <2>1 DEF Kinds, Piped, Dead
<1>3. CASE UNCHANGED vars
  BY <1>3 DEF Kinds, Piped, vars, fuzzerVars, serverVars, childVars
<1> QED BY <1>1, <1>2, <1>3, FuzzerKeepsKinds, ServerKeepsKinds DEF Next, Done

LEMMA KindsHold == Spec => []Kinds
<1>1. Init => Kinds
  BY RunsAssumption DEF Init, Kinds, Piped, Dead
<1> QED BY <1>1, NextKinds, InvHolds, PTL DEF Spec

\* What a pipe of at most two items is, as a sequence.
LEMMA EmptyPipe == ASSUME NEW S PROVE <<>> \in Seq(S) /\ Len(<<>>) = 0
OBVIOUS

LEMMA OneInPipe == ASSUME NEW S, NEW x \in S PROVE <<x>> \in Seq(S) /\ Len(<<x>>) = 1
OBVIOUS

LEMMA TwoInPipe ==
  ASSUME NEW S, NEW x \in S, NEW y \in S
  PROVE  <<x, y>> \in Seq(S) /\ Len(<<x, y>>) = 2
OBVIOUS

\* No pipe ever holds more than one request, or a pid and a status: no write of
\* run_target or of the server blocks, and every read finds what it expects.
THEOREM ServerTypes == Spec => []TypeOK
<1>1. Inv /\ Kinds => TypeOK
  <2> SUFFICES ASSUME Inv, Kinds PROVE TypeOK
    OBVIOUS
  <2>1. ctl \in Seq(BOOLEAN) /\ Len(ctl) <= 1
    <3>1. CASE ctl = <<>>
      BY <3>1, EmptyPipe
    <3>2. CASE ctl # <<>>
      <4>1. PICK b \in BOOLEAN : ctl = <<b>>
        BY <3>2 DEF Kinds
      <4> QED BY <4>1, OneInPipe
    <3> QED BY <3>1, <3>2
  <2>2. st \in Seq(Dead \cup {"pid", "stopped"}) /\ Len(st) <= 2
    <3> DEFINE Words == Dead \cup {"pid", "stopped"}
    <3>1. "pid" \in Words /\ \A x \in Dead \cup {"stopped"} : x \in Words
      OBVIOUS
    <3>2. \/ st = <<>> \/ st = <<"pid">>
          \/ \E x \in Dead \cup {"stopped"} : st = <<x>> \/ st = <<"pid", x>>
      BY DEF Kinds, Piped
    <3> HIDE DEF Words
    <3>3. st \in Seq(Words) /\ Len(st) <= 2
      <4>1. CASE st = <<>>
        BY <4>1, EmptyPipe
      <4>2. CASE st = <<"pid">>
        BY <3>1, <4>2, OneInPipe
      <4>3. ASSUME NEW x \in Dead \cup {"stopped"}, st = <<x>> \/ st = <<"pid", x>>
            PROVE  st \in Seq(Words) /\ Len(st) <= 2
        <5>1. x \in Words
          BY <3>1
        <5>2. CASE st = <<x>>
          BY <5>1, <5>2, OneInPipe
        <5>3. CASE st = <<"pid", x>>
          BY <3>1, <5>1, <5>3, TwoInPipe
        <5> QED BY <4>3, <5>2, <5>3
      <4> QED BY <3>2, <4>1, <4>2, <4>3
    <3> QED BY <3>3 DEF Words
  <2>3. {run, serves} \subseteq 0 .. MaxRuns
    BY DEF Kinds
  <2>4. {is_persistent, child_pid, child_timed_out, prev_timed_out, stop_soon, armed,
         child_stopped, re_run, re_run_info, requested, fresh, dirty} \subseteq BOOLEAN
    BY DEF Inv, Booleans
  <2> QED BY <2>1, <2>2, <2>3, <2>4 DEF TypeOK, Kinds
<1> QED BY <1>1, InvHolds, KindsHold, PTL

\* One of those that RunReturns relies on can go on: afl-fuzz has something to read
\* or to finish, the timer runs, or the server has something to read, fork or reap.
Moves ==
  \/ fz \in {"wrote", "running"} /\ (st # <<>> \/ sv = "dead")
  \/ fz \in {"status", "cleared"}
  \/ armed
  \/ sv = "read" /\ ctl # <<>>
  \/ sv = "reap" /\ child \in Dead
  \/ sv = "start"
  \/ sv = "wait" /\ child \in Dead \cup {"stopped"}

NobodyHangs == fz # "idle" => Moves

\* In a run, afl-fuzz, the server and the timer never all wait for the target: a
\* process that runs is under an armed timer as soon as its pid is read, a server
\* that reaps has a dead child, and a server that Ctrl-C took leaves afl-fuzz a way
\* out of each of its two reads.
THEOREM NobodyWaitsForEver == Spec => []NobodyHangs
<1>1. Inv /\ Kinds => NobodyHangs
  <2> SUFFICES ASSUME Inv, Kinds, fz # "idle" PROVE Moves
    BY DEF NobodyHangs
  <2>1. CASE stop_soon
    BY <2>1 DEF Inv, Turns, Kinds, Moves
  <2>2. CASE Asked
    BY <2>2 DEF Asked, Moves
  <2>3. CASE Awaited
    BY <2>3 DEF Awaited, Moves
  <2>4. CASE \E x \in Dead \cup {"stopped"} : Reported(x)
    BY <2>4 DEF Reported, Moves
  <2> QED BY <2>1, <2>2, <2>3, <2>4 DEF Inv, Turns, Free
<1> QED BY <1>1, InvHolds, KindsHold, PTL

-----------------------------------------------------------------------------
(* run_target returns.  A run goes through the phases below and never back;  *)
(* each ends by an action that is fair, or early: a process that ends before *)
(* its time is over skips the timer, Ctrl-C leads to the end of a read.      *)

ServerReads  == fz = "wrote" /\ st = <<>> /\ sv = "read" /\ ctl # <<>>
ServerReaps  == fz = "wrote" /\ st = <<>> /\ sv = "reap" /\ child \in Dead
ServerStarts == fz = "wrote" /\ st = <<>> /\ sv = "start"
PidComes     == fz = "wrote" /\ (st # <<>> \/ (sv = "dead" /\ stop_soon))
TimerRuns    == fz = "running" /\ st = <<>> /\ sv = "wait" /\ armed /\ child_pid
ChildEnded   == fz = "running" /\ st = <<>> /\ sv = "wait" /\ child \in Dead \cup {"stopped"}
StatusComes  == fz = "running" /\ (st # <<>> \/ (sv = "dead" /\ stop_soon))

\* A run is always in one of the phases.
LEMMA RunPhases ==
  /\ Inv /\ fz = "wrote" => ServerReads \/ ServerReaps \/ ServerStarts \/ PidComes
  /\ Inv /\ fz = "running" => TimerRuns \/ ChildEnded \/ StatusComes
<1>1. ASSUME Inv, stop_soon
      PROVE  /\ fz = "wrote" => PidComes
             /\ fz = "running" => StatusComes
  BY <1>1 DEF Inv, Turns, PidComes, StatusComes
<1>2. ASSUME Inv, Asked
      PROVE  fz = "wrote" /\ (ServerReads \/ ServerReaps \/ ServerStarts)
  BY <1>2 DEF Asked, ServerReads, ServerReaps, ServerStarts
<1>3. ASSUME Inv, Awaited
      PROVE  /\ fz = "wrote" => PidComes
             /\ fz = "running" => TimerRuns \/ ChildEnded
  BY <1>3 DEF Awaited, PidComes, TimerRuns, ChildEnded
<1>4. ASSUME Inv, NEW x \in Dead \cup {"stopped"}, Reported(x)
      PROVE  /\ fz = "wrote" => PidComes
             /\ fz = "running" => StatusComes
  BY <1>4 DEF Reported, PidComes, StatusComes
<1>5. ASSUME Inv, ~stop_soon
      PROVE  Free \/ Asked \/ Awaited \/ \E x \in Dead \cup {"stopped"} : Reported(x)
  BY <1>5 DEF Inv, Turns
<1> QED BY <1>1, <1>2, <1>3, <1>4, <1>5 DEF Free

LEMMA RunPhasesNext ==
  /\ Inv' /\ (fz = "wrote")' => (ServerReads \/ ServerReaps \/ ServerStarts \/ PidComes)'
  /\ Inv' /\ (fz = "running")' => (TimerRuns \/ ChildEnded \/ StatusComes)'
<1> QED BY RunPhases, PTL

\* While the server works on a request, afl-fuzz does nothing but wait for it.
LEMMA AskedSteps ==
  ASSUME [Next]_vars
  PROVE  /\ ServerReads  => (fz = "wrote")' /\ (<<Server>>_vars => ~ServerReads')
         /\ ServerReaps  => (ServerReaps \/ ServerStarts \/ PidComes)'
                            /\ (<<Server>>_vars => ServerStarts')
         /\ ServerStarts => (ServerStarts \/ PidComes)' /\ (<<Server>>_vars => PidComes')
<1> USE DEF ServerReads, ServerReaps, ServerStarts, PidComes
<1>1. CASE Fuzzer
  BY <1>1 DEF Fuzzer, Request, ReadPid, ReadStatus, ClearPid, Return, Abort, Server,
              SvRead, SvReap, SvFork, SvContinue, SvWait, serverVars
<1>2. CASE SvRead \/ SvReap
  BY <1>2 DEF SvRead, SvReap, fuzzerVars, childVars
<1>3. CASE SvFork \/ SvContinue
  <2>1. st = <<>> => st' = <<"pid">>
    BY <1>3, Pipes DEF SvFork, SvContinue
  <2> QED BY <1>3, <2>1 DEF SvFork, SvContinue, fuzzerVars
<1>4. CASE SvWait
  BY <1>4 DEF SvWait, fuzzerVars, childVars
<1>5. CASE Child
  BY <1>5 DEF Child, ChildTraces, ChildStops, ChildExits, ChildDies, fuzzerVars, serverVars,
              Server, SvRead, SvReap, SvFork, SvContinue, SvWait, Dead
<1>6. CASE handle_timeout \/ handle_stop_sig
  BY <1>6 DEF handle_timeout, handle_stop_sig, Killed, fuzzerVars, serverVars,
              Server, SvRead, SvReap, SvFork, SvContinue, SvWait, Dead
<1>7. CASE UNCHANGED vars
  BY <1>7 DEF vars, fuzzerVars, serverVars, childVars
<1> QED BY <1>1, <1>2, <1>3, <1>4, <1>5, <1>6, <1>7 DEF Next, Server, Done

\* What is in the status pipe stays there until afl-fuzz reads it.
LEMMA StaysFull ==
  ASSUME Inv, Kinds, Server
  PROVE  st # <<>> => st' # <<>>
<1>1. CASE SvRead \/ SvReap
  BY <1>1 DEF SvRead, SvReap
<1>2. CASE SvFork \/ SvContinue
  BY <1>2 DEF SvFork, SvContinue, Inv, Turns, Free, Asked, Awaited, Reported
<1>3. CASE SvWait
  <2>1. st = <<>> \/ st = <<"pid">>
    BY <1>3 DEF SvWait, Inv, Turns, Free, Asked, Awaited, Reported
  <2>2. st = <<"pid">> => st' = <<"pid", child>>
    BY <1>3, Pipes DEF SvWait
  <2> QED BY <2>1, <2>2
<1> QED BY <1>1, <1>2, <1>3 DEF Server

\* afl-fuzz reads the pid, and the timer runs.
LEMMA PidSteps ==
  ASSUME Inv, Kinds, [Next]_vars, PidComes
  PROVE  /\ (PidComes \/ fz \in {"running", "idle"})'
         /\ <<Proceeds>>_vars => (fz \in {"running", "idle"})'
<1> USE DEF PidComes
<1>1. Proceeds => (fz \in {"running", "idle"})'
  BY DEF Proceeds, ReadPid, ReadStatus, ClearPid, Return, Abort
<1>2. ASSUME Fuzzer PROVE (PidComes \/ fz \in {"running", "idle"})'
  BY <1>2 DEF Fuzzer, Request, ReadPid, ReadStatus, ClearPid, Return, Abort, serverVars
<1>3. ASSUME Server PROVE (PidComes \/ fz \in {"running", "idle"})'
  <2>1. UNCHANGED fz /\ sv # "dead"
    BY <1>3 DEF Server, SvRead, SvReap, SvFork, SvContinue, SvWait, fuzzerVars
  <2> QED BY <1>3, <2>1, StaysFull
<1>4. ASSUME Child PROVE (PidComes \/ fz \in {"running", "idle"})'
  BY <1>4 DEF Child, ChildTraces, ChildStops, ChildExits, ChildDies, fuzzerVars, serverVars
<1>5. ASSUME handle_timeout \/ handle_stop_sig PROVE (PidComes \/ fz \in {"running", "idle"})'
  BY <1>5 DEF handle_timeout, handle_stop_sig, fuzzerVars, serverVars
<1>6. ASSUME UNCHANGED vars PROVE (PidComes \/ fz \in {"running", "idle"})'
  BY <1>6 DEF vars, fuzzerVars, serverVars
<1> QED BY <1>1, <1>2, <1>3, <1>4, <1>5, <1>6 DEF Next, Done

\* The timer kills a process that goes on.
LEMMA TimerSteps ==
  ASSUME Inv, [Next]_vars, TimerRuns
  PROVE  /\ (TimerRuns \/ ChildEnded \/ StatusComes)'
         /\ <<handle_timeout>>_vars => ChildEnded'
<1> USE DEF TimerRuns, ChildEnded, StatusComes
<1>1. CASE Fuzzer
  BY <1>1 DEF Fuzzer, Request, ReadPid, ReadStatus, ClearPid, Return, Abort
<1>2. CASE Server
  <2>1. SvWait
    BY <1>2 DEF Server, SvRead, SvReap, SvFork, SvContinue, SvWait
  <2>2. st' = <<child>>
    BY <2>1, Pipes DEF SvWait
  <2> QED BY <2>1, <2>2 DEF SvWait, fuzzerVars, handle_timeout
<1>3. CASE Child
  BY <1>3 DEF Child, ChildTraces, ChildStops, ChildExits, ChildDies, fuzzerVars, serverVars,
              handle_timeout
<1>4. CASE handle_timeout
  <2>1. child' = Killed /\ fz' = fz /\ st' = st /\ sv' = sv
    BY <1>4 DEF handle_timeout, serverVars
  <2>2. child \in Alive \cup Dead
    BY DEF Inv, Turns, Free, Asked, Awaited, Reported
  <2>3. child' \in Dead
    BY <2>1, <2>2 DEF Killed, Alive, Dead
  <2> QED BY <2>1, <2>3
<1>5. CASE handle_stop_sig
  BY <1>5 DEF handle_stop_sig, fuzzerVars, handle_timeout
<1>6. CASE UNCHANGED vars
  BY <1>6 DEF vars, fuzzerVars, serverVars, childVars, handle_timeout
<1> QED BY <1>1, <1>2, <1>3, <1>4, <1>5, <1>6 DEF Next, Done

\* The server reports how the process ended.
LEMMA ChildSteps ==
  ASSUME [Next]_vars, ChildEnded
  PROVE  /\ (ChildEnded \/ StatusComes)'
         /\ <<Server>>_vars => StatusComes'
<1> USE DEF ChildEnded, StatusComes
<1>1. CASE Fuzzer
  BY <1>1 DEF Fuzzer, Request, ReadPid, ReadStatus, ClearPid, Return, Abort
<1>2. Server => StatusComes'
  <2> SUFFICES ASSUME Server PROVE StatusComes'
    OBVIOUS
  <2>1. SvWait
    BY DEF Server, SvRead, SvReap, SvFork, SvContinue, SvWait
  <2>2. st' = <<child>>
    BY <2>1, Pipes DEF SvWait
  <2> QED BY <2>1, <2>2 DEF SvWait, fuzzerVars
<1>3. CASE Child
  BY <1>3 DEF Child, ChildTraces, ChildStops, ChildExits, ChildDies, Dead
<1>4. CASE handle_timeout \/ handle_stop_sig
  BY <1>2, <1>4 DEF handle_timeout, handle_stop_sig, Killed, Alive, Dead, fuzzerVars, serverVars
<1>5. CASE UNCHANGED vars
  BY <1>5 DEF vars, fuzzerVars, serverVars, childVars
<1> QED BY <1>1, <1>2, <1>3, <1>4, <1>5 DEF Next, Done

\* afl-fuzz reads the status.
LEMMA StatusSteps ==
  ASSUME Inv, Kinds, [Next]_vars, StatusComes
  PROVE  /\ (StatusComes \/ fz \in {"status", "idle"})'
         /\ <<Proceeds>>_vars => (fz \in {"status", "idle"})'
<1> USE DEF StatusComes
<1>1. Proceeds => (fz \in {"status", "idle"})'
  BY DEF Proceeds, ReadPid, ReadStatus, ClearPid, Return, Abort
<1>2. ASSUME Fuzzer PROVE (StatusComes \/ fz \in {"status", "idle"})'
  BY <1>2 DEF Fuzzer, Request, ReadPid, ReadStatus, ClearPid, Return, Abort, serverVars
<1>3. ASSUME Server PROVE (StatusComes \/ fz \in {"status", "idle"})'
  <2>1. UNCHANGED fz /\ sv # "dead"
    BY <1>3 DEF Server, SvRead, SvReap, SvFork, SvContinue, SvWait, fuzzerVars
  <2> QED BY <1>3, <2>1, StaysFull
<1>4. ASSUME Child PROVE (StatusComes \/ fz \in {"status", "idle"})'
  BY <1>4 DEF Child, ChildTraces, ChildStops, ChildExits, ChildDies, fuzzerVars, serverVars
<1>5. ASSUME handle_timeout \/ handle_stop_sig PROVE (StatusComes \/ fz \in {"status", "idle"})'
  BY <1>5 DEF handle_timeout, handle_stop_sig, fuzzerVars, serverVars
<1>6. ASSUME UNCHANGED vars PROVE (StatusComes \/ fz \in {"status", "idle"})'
  BY <1>6 DEF vars, fuzzerVars, serverVars
<1> QED BY <1>1, <1>2, <1>3, <1>4, <1>5, <1>6 DEF Next, Done

\* From there on afl-fuzz waits for nobody.
LEMMA LastSteps ==
  ASSUME [Next]_vars
  PROVE  /\ fz = "status" => (fz \in {"status", "cleared"})' /\ (<<Proceeds>>_vars => (fz = "cleared")')
         /\ fz = "cleared" => (fz \in {"cleared", "idle"})' /\ (<<Proceeds>>_vars => (fz = "idle")')
<1>1. CASE Fuzzer
  BY <1>1 DEF Fuzzer, Request, ReadPid, ReadStatus, ClearPid, Return, Abort, Proceeds
<1>2. fz \in {"status", "cleared"} /\ Proceeds => ClearPid \/ Return
  BY DEF Proceeds, ReadPid, ReadStatus, ClearPid, Return, Abort
<1>3. fz \in {"status", "cleared"} /\ ~Fuzzer => fz' = fz
  BY DEF Next, Server, SvRead, SvReap, SvFork, SvContinue, SvWait, Child, ChildTraces,
         ChildStops, ChildExits, ChildDies, handle_timeout, handle_stop_sig, Done, vars, fuzzerVars
<1> QED BY <1>1, <1>2, <1>3 DEF ClearPid, Return

\* run_target returns, whatever the target does and whenever Ctrl-C comes: every
\* phase of a run is left, by an action that is fair, and none comes again.  What
\* the guards are is left to TLC (GuardsEnable).
THEOREM RunsReturn == FairSpec /\ []GuardsEnable => RunReturns
<1> DEFINE Sound == Inv /\ Kinds /\ GuardsEnable
           Answered == ServerReaps \/ ServerStarts \/ PidComes
           Waits == TimerRuns \/ ChildEnded \/ StatusComes
<1>1. FairSpec /\ []GuardsEnable => []Sound /\ [][Next]_vars /\ Fairness
  BY InvHolds, KindsHold, PTL DEF FairSpec, Spec
<1>2. FairSpec /\ []GuardsEnable => (fz = "wrote" ~> ServerReads \/ Answered)
  <2>1. Sound /\ fz = "wrote" => ServerReads \/ Answered
    BY RunPhases
  <2> QED BY <1>1, <2>1, PTL
<1>3. FairSpec /\ []GuardsEnable => (ServerReads ~> Answered)
  <2>1. Sound /\ ServerReads => ENABLED <<Server>>_vars
    BY DEF ServerReads, GuardsEnable, CanServe
  <2>2. Sound' /\ ServerReads /\ [Next]_vars => (ServerReads \/ Answered)'
    BY AskedSteps, RunPhasesNext
  <2>3. Sound' /\ ServerReads /\ [Next]_vars /\ <<Server>>_vars => Answered'
    BY AskedSteps, RunPhasesNext
  <2> QED BY <1>1, <2>1, <2>2, <2>3, PTL DEF Fairness
<1>4. FairSpec /\ []GuardsEnable => (ServerReaps ~> ServerStarts \/ PidComes)
  <2>1. Sound /\ ServerReaps => ENABLED <<Server>>_vars
    BY DEF ServerReaps, GuardsEnable, CanServe
  <2>2. ServerReaps /\ [Next]_vars => (ServerReaps \/ ServerStarts \/ PidComes)'
    BY AskedSteps
  <2>3. ServerReaps /\ [Next]_vars /\ <<Server>>_vars => ServerStarts'
    BY AskedSteps
  <2> QED BY <1>1, <2>1, <2>2, <2>3, PTL DEF Fairness
<1>5. FairSpec /\ []GuardsEnable => (ServerStarts ~> PidComes)
  <2>1. Sound /\ ServerStarts => ENABLED <<Server>>_vars
    BY DEF ServerStarts, GuardsEnable, CanServe
  <2>2. ServerStarts /\ [Next]_vars => (ServerStarts \/ PidComes)'
    BY AskedSteps
  <2>3. ServerStarts /\ [Next]_vars /\ <<Server>>_vars => PidComes'
    BY AskedSteps
  <2> QED BY <1>1, <2>1, <2>2, <2>3, PTL DEF Fairness
<1>6. FairSpec /\ []GuardsEnable => (PidComes ~> Waits \/ fz = "idle")
  <2>1. Sound /\ PidComes => ENABLED <<Proceeds>>_vars
    BY DEF PidComes, GuardsEnable, CanProceed
  <2>2. Sound /\ Sound' /\ PidComes /\ [Next]_vars => (PidComes \/ Waits \/ fz = "idle")'
    BY PidSteps, RunPhasesNext
  <2>3. Sound /\ Sound' /\ PidComes /\ [Next]_vars /\ <<Proceeds>>_vars => (Waits \/ fz = "idle")'
    BY PidSteps, RunPhasesNext
  <2> QED BY <1>1, <2>1, <2>2, <2>3, PTL DEF Fairness
<1>7. FairSpec /\ []GuardsEnable => (TimerRuns ~> ChildEnded \/ StatusComes)
  <2>1. Sound /\ TimerRuns => ENABLED <<handle_timeout>>_vars
    BY DEF TimerRuns, GuardsEnable
  <2>2. Sound /\ TimerRuns /\ [Next]_vars => (TimerRuns \/ ChildEnded \/ StatusComes)'
    BY TimerSteps
  <2>3. Sound /\ TimerRuns /\ [Next]_vars /\ <<handle_timeout>>_vars => ChildEnded'
    BY TimerSteps
  <2> QED BY <1>1, <2>1, <2>2, <2>3, PTL DEF Fairness
<1>8. FairSpec /\ []GuardsEnable => (ChildEnded ~> StatusComes)
  <2>1. Sound /\ ChildEnded => ENABLED <<Server>>_vars
    BY DEF ChildEnded, GuardsEnable, CanServe
  <2>2. ChildEnded /\ [Next]_vars => (ChildEnded \/ StatusComes)'
    BY ChildSteps
  <2>3. ChildEnded /\ [Next]_vars /\ <<Server>>_vars => StatusComes'
    BY ChildSteps
  <2> QED BY <1>1, <2>1, <2>2, <2>3, PTL DEF Fairness
<1>9. FairSpec /\ []GuardsEnable => (StatusComes ~> fz = "status" \/ fz = "idle")
  <2>1. Sound /\ StatusComes => ENABLED <<Proceeds>>_vars
    BY DEF StatusComes, GuardsEnable, CanProceed
  <2>2. Sound /\ StatusComes /\ [Next]_vars => (StatusComes \/ fz = "status" \/ fz = "idle")'
    BY StatusSteps
  <2>3. Sound /\ StatusComes /\ [Next]_vars /\ <<Proceeds>>_vars => (fz = "status" \/ fz = "idle")'
    BY StatusSteps
  <2> QED BY <1>1, <2>1, <2>2, <2>3, PTL DEF Fairness
<1>10. FairSpec /\ []GuardsEnable => (fz = "status" ~> fz = "cleared")
  <2>1. Sound /\ fz = "status" => ENABLED <<Proceeds>>_vars
    BY DEF GuardsEnable, CanProceed
  <2>2. fz = "status" /\ [Next]_vars => (fz = "status" \/ fz = "cleared")'
    BY LastSteps
  <2>3. fz = "status" /\ [Next]_vars /\ <<Proceeds>>_vars => (fz = "cleared")'
    BY LastSteps
  <2> QED BY <1>1, <2>1, <2>2, <2>3, PTL DEF Fairness
<1>11. FairSpec /\ []GuardsEnable => (fz = "cleared" ~> fz = "idle")
  <2>1. Sound /\ fz = "cleared" => ENABLED <<Proceeds>>_vars
    BY DEF GuardsEnable, CanProceed
  <2>2. fz = "cleared" /\ [Next]_vars => (fz = "cleared" \/ fz = "idle")'
    BY LastSteps
  <2>3. fz = "cleared" /\ [Next]_vars /\ <<Proceeds>>_vars => (fz = "idle")'
    BY LastSteps
  <2> QED BY <1>1, <2>1, <2>2, <2>3, PTL DEF Fairness
<1> QED
  BY <1>2, <1>3, <1>4, <1>5, <1>6, <1>7, <1>8, <1>9, <1>10, <1>11, PTL DEF RunReturns
=============================================================================
