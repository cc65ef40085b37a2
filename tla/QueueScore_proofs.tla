-------------------------- MODULE QueueScore_proofs --------------------------
(***************************************************************************)
(* The reference counts, the cover by favored entries and the pending      *)
(* counters hold for any bitmap, any entries and any runs.                 *)
(*                                                                         *)
(* Two loops have to be followed one byte at a time, that of               *)
(* update_bitmap_score (RateBits) and that of cull_queue_default           *)
(* (Winners).  Both are recursive functions on 0 .. NBits; what is known   *)
(* of their values is proved by taking the least byte at which it would    *)
(* fail.                                                                   *)
(***************************************************************************)
EXTENDS QueueScore, FiniteSetTheorems, WellFoundedInduction, TLAPS

---------------------------------------------------------------------------
(* Loops over 1 .. n *)

LEMMA UpTo ==
  ASSUME NEW n \in Nat, NEW P, 0 \in P, \A i \in 1 .. n : i - 1 \in P => i \in P
  PROVE  \A i \in 0 .. n : i \in P
<1> SUFFICES ASSUME NEW m \in 0 .. n, m \notin P PROVE FALSE
  OBVIOUS
<1> DEFINE T == {k \in 0 .. n : k \notin P}
<1>1. T \in SUBSET Nat /\ m \in T
  OBVIOUS
<1>2. PICK k \in T : \A j \in T : ~ (<<j, k>> \in OpToRel(<, Nat))
  <2>1. IsWellFoundedOn(OpToRel(<, Nat), Nat)
    BY NatLessThanWellFounded
  <2> HIDE DEF T
  <2> QED BY <1>1, <2>1, WFMin
<1>3. k \in 0 .. n /\ k \notin P /\ k # 0
  OBVIOUS
<1>4. k - 1 \in 0 .. n /\ ~ (k <= k - 1) /\ k \in 1 .. n
  BY <1>3
<1>5. k - 1 \in P
  <2>1. <<k - 1, k>> \in OpToRel(<, Nat)
    BY <1>4 DEF OpToRel
  <2> QED BY <1>2, <1>4, <2>1
<1> QED BY <1>3, <1>4, <1>5

Stays(G, n, S) == \A s \in S, i \in 1 .. n : G[<<s, i>>] \in S
Iterated(f, G, n, S, s0) ==
  f \in [0 .. n -> S] /\ f[0] = s0 /\ \A i \in 1 .. n : f[i] = G[<<f[i - 1], i>>]

\* A loop from s0 whose body G stays within S has a value after every pass.
LEMMA Iterates ==
  ASSUME NEW n \in Nat, NEW S, NEW s0 \in S, NEW G, Stays(G, n, S)
  PROVE  \E f : Iterated(f, G, n, S, s0)
<1> USE DEF Stays, Iterated
<1> DEFINE Runs(m) == {f \in [0 .. m -> S] :
                         f[0] = s0 /\ \A i \in 1 .. m : f[i] = G[<<f[i - 1], i>>]}
           P == {m \in 0 .. n : Runs(m) # {}}
<1>1. 0 \in P
  <2>1. [i \in 0 .. 0 |-> s0] \in Runs(0)
    OBVIOUS
  <2> QED BY <2>1
<1>2. ASSUME NEW m \in 1 .. n, m - 1 \in P PROVE m \in P
  <2>1. PICK f \in Runs(m - 1) : TRUE
    BY <1>2
  <2>2. f \in [0 .. m - 1 -> S] /\ f[0] = s0 /\ \A i \in 1 .. m - 1 : f[i] = G[<<f[i - 1], i>>]
    OBVIOUS
  <2>3. PICK s \in S : s = G[<<f[m - 1], m>>]
    BY <2>2
  <2> DEFINE g == [i \in 0 .. m |-> IF i = m THEN s ELSE f[i]]
  <2>4. g \in [0 .. m -> S] /\ g[0] = s0
    BY <2>2
  <2>5. \A i \in 1 .. m : g[i] = G[<<g[i - 1], i>>]
    BY <2>2, <2>3
  <2>6. g \in Runs(m)
    BY <2>4, <2>5
  <2> QED BY <2>6
<1> HIDE DEF P
<1>3. n \in P
  BY <1>1, <1>2, UpTo
<1> QED BY <1>3 DEF P

---------------------------------------------------------------------------
(* update_bitmap_score *)

Ratings == [top  : [Bits -> Entries \cup {NoEntry}],
            ref  : [Entries -> Nat],
            mini : [Entries -> {NoTrace} \cup SUBSET Bits]]

Slots(r, p) == {i \in Bits : r.top[i] = p}

\* RefCounts, of any ratings; and who holds a byte touches it in some run, and
\* keeps a trace of one.
Counts(r) == \A p \in Entries : /\ r.ref[p] = Cardinality(Slots(r, p))
                                /\ r.mini[p] = NoTrace <=> r.ref[p] = 0
Traced(r) == /\ \A p \in Entries : r.mini[p] \in {NoTrace} \cup Traces[p]
             /\ \A i \in Bits : r.top[i] # NoEntry => \E t \in Traces[r.top[i]] : i \in t
Counted == {r \in Ratings : Counts(r) /\ Traced(r)}

LEMMA SlotsAreFinite ==
  ASSUME NEW r, NEW p
  PROVE  IsFiniteSet(Slots(r, p)) /\ Cardinality(Slots(r, p)) \in Nat
<1>1. Slots(r, p) \in SUBSET (1 .. NBits)
  BY DEF Slots, Bits
<1>2. IsFiniteSet(1 .. NBits)
  BY ScoreAssumption, FS_Interval
<1> QED BY <1>1, <1>2, FS_Subset, FS_CardinalityType

\* One byte: whoever wins it, the counts are right again.
LEMMA BitIsCounted ==
  ASSUME NEW r \in Counted, NEW i \in Bits, NEW q \in Entries, NEW trace \in Traces[q], i \in trace
  PROVE  /\ Win(Lose(r, i), i, q, trace) \in Counted
         /\ \A j \in Bits : Win(Lose(r, i), i, q, trace).top[j] = IF j = i THEN q ELSE r.top[j]
<1> DEFINE w == Win(Lose(r, i), i, q, trace)
           old == r.top[i]
           held(p) == r.ref[p] - (IF p = old THEN 1 ELSE 0)
           kept(p) == IF p = old /\ r.ref[p] = 1 THEN NoTrace ELSE r.mini[p]
<1>1. /\ r.top \in [Bits -> Entries \cup {NoEntry}] /\ r.ref \in [Entries -> Nat]
      /\ r.mini \in [Entries -> {NoTrace} \cup SUBSET Bits]
      /\ r = [top |-> r.top, ref |-> r.ref, mini |-> r.mini]
  BY DEF Counted, Ratings
<1>2. trace \in SUBSET Bits /\ trace # NoTrace /\ NoEntry \notin Entries
  BY ScoreAssumption
<1>3. /\ \A p \in Entries : r.ref[p] = Cardinality(Slots(r, p))
      /\ \A p \in Entries : r.mini[p] = NoTrace <=> r.ref[p] = 0
      /\ \A p \in Entries : r.mini[p] \in {NoTrace} \cup Traces[p]
      /\ \A j \in Bits : r.top[j] # NoEntry => \E t \in Traces[r.top[j]] : j \in t
  BY DEF Counted, Counts, Traced
<1>4. \A p \in Entries : p = old => r.ref[p] # 0
  <2> SUFFICES ASSUME NEW p \in Entries, p = old PROVE r.ref[p] # 0
    OBVIOUS
  <2>1. i \in Slots(r, p)
    BY DEF Slots
  <2> QED BY <1>3, <2>1, SlotsAreFinite, FS_EmptySet
<1>5. Lose(r, i) = [top |-> r.top, ref |-> [p \in Entries |-> held(p)],
                    mini |-> [p \in Entries |-> kept(p)]]
  <2>1. CASE old = NoEntry
    <3>1. /\ [p \in Entries |-> held(p)] = r.ref /\ [p \in Entries |-> kept(p)] = r.mini
      BY <1>1, <1>2, <2>1
    <3>2. Lose(r, i) = r
      BY <2>1 DEF Lose
    <3> QED BY <1>1, <3>1, <3>2
  <2>2. CASE old \in Entries
    <3>1. Lose(r, i) = [top  |-> r.top,
                        ref  |-> [r.ref EXCEPT ![old] = @ - 1],
                        mini |-> [r.mini EXCEPT ![old] = IF r.ref[old] = 1 THEN NoTrace ELSE @]]
      BY <1>1, <1>2, <2>2 DEF Lose
    <3>2. [r.ref EXCEPT ![old] = @ - 1] = [p \in Entries |-> held(p)]
      BY <1>1, <2>2
    <3>3. [r.mini EXCEPT ![old] = IF r.ref[old] = 1 THEN NoTrace ELSE @] = [p \in Entries |-> kept(p)]
      BY <1>1, <2>2
    <3> QED BY <3>1, <3>2, <3>3
  <2> QED BY <1>1, <2>1, <2>2
<1>6. w = [top  |-> [r.top EXCEPT ![i] = q],
           ref  |-> [p \in Entries |-> held(p) + (IF p = q THEN 1 ELSE 0)],
           mini |-> [p \in Entries |-> IF p = q /\ kept(p) = NoTrace THEN trace ELSE kept(p)]]
  <2>1. PICK ref : ref = [p \in Entries |-> held(p)]
    OBVIOUS
  <2>2. PICK mini : mini = [p \in Entries |-> kept(p)]
    OBVIOUS
  <2>3. Lose(r, i) = [top |-> r.top, ref |-> ref, mini |-> mini]
    BY <1>5, <2>1, <2>2
  <2>4. w = [top  |-> [r.top EXCEPT ![i] = q],
             ref  |-> [ref EXCEPT ![q] = @ + 1],
             mini |-> [mini EXCEPT ![q] = IF @ = NoTrace THEN trace ELSE @]]
    <3>1. PICK l : l = Lose(r, i)
      OBVIOUS
    <3>2. l = [top |-> r.top, ref |-> ref, mini |-> mini]
      BY <2>3, <3>1
    <3>3. w = Win(l, i, q, trace)
      BY <3>1
    <3> HIDE DEF w
    <3>4. w = [l EXCEPT !.top = [l.top EXCEPT ![i] = q],
                        !.ref = [l.ref EXCEPT ![q] = @ + 1],
                        !.mini = [l.mini EXCEPT ![q] = IF @ = NoTrace THEN trace ELSE @]]
      BY <3>3 DEF Win
    <3> QED BY <3>2, <3>4
  <2>5. [ref EXCEPT ![q] = @ + 1] = [p \in Entries |-> held(p) + (IF p = q THEN 1 ELSE 0)]
    BY <1>1, <2>1
  <2>6. [mini EXCEPT ![q] = IF @ = NoTrace THEN trace ELSE @]
          = [p \in Entries |-> IF p = q /\ kept(p) = NoTrace THEN trace ELSE kept(p)]
    BY <2>2
  <2> QED BY <2>4, <2>5, <2>6
<1>7. \A p \in Entries : held(p) \in Nat
  BY <1>1, <1>4
<1>8. w \in Ratings
  <2>1. [r.top EXCEPT ![i] = q] \in [Bits -> Entries \cup {NoEntry}]
    BY <1>1
  <2>2. [p \in Entries |-> held(p) + (IF p = q THEN 1 ELSE 0)] \in [Entries -> Nat]
    BY <1>7
  <2>3. [p \in Entries |-> IF p = q /\ kept(p) = NoTrace THEN trace ELSE kept(p)]
          \in [Entries -> {NoTrace} \cup SUBSET Bits]
    BY <1>1, <1>2
  <2> HIDE DEF w, held, kept
  <2> QED BY <1>6, <2>1, <2>2, <2>3 DEF Ratings
<1>9. /\ \A j \in Bits : w.top[j] = IF j = i THEN q ELSE r.top[j]
      /\ \A p \in Entries : w.ref[p] = held(p) + (IF p = q THEN 1 ELSE 0)
      /\ \A p \in Entries : w.mini[p] = IF p = q /\ kept(p) = NoTrace THEN trace ELSE kept(p)
  BY <1>1, <1>6
<1> HIDE DEF w
<1>10. ASSUME NEW p \in Entries PROVE w.ref[p] = Cardinality(Slots(w, p))
  <2>1. CASE p = q
    <3>1. Slots(w, p) = Slots(r, p) \cup {i}
      BY <1>9, <2>1 DEF Slots
    <3>2. i \in Slots(r, p) <=> p = old
      BY DEF Slots
    <3>3. Cardinality(Slots(w, p)) = IF p = old THEN Cardinality(Slots(r, p))
                                               ELSE Cardinality(Slots(r, p)) + 1
      BY <3>1, <3>2, SlotsAreFinite, FS_AddElement
    <3>4. w.ref[p] = held(p) + 1 /\ r.ref[p] = Cardinality(Slots(r, p)) /\ r.ref[p] \in Nat
      BY <1>1, <1>3, <1>9, <2>1
    <3> QED BY <3>3, <3>4
  <2>2. CASE p # q
    <3>1. Slots(w, p) = Slots(r, p) \ {i}
      BY <1>9, <2>2 DEF Slots
    <3>2. i \in Slots(r, p) <=> p = old
      BY DEF Slots
    <3>3. Cardinality(Slots(w, p)) = IF p = old THEN Cardinality(Slots(r, p)) - 1
                                               ELSE Cardinality(Slots(r, p))
      <4>1. PICK S : S = Slots(r, p)
        OBVIOUS
      <4>2. IsFiniteSet(S)
        BY <4>1, SlotsAreFinite
      <4>3. CASE p = old
        BY <3>1, <3>2, <4>1, <4>2, <4>3, FS_RemoveElement
      <4>4. CASE p # old
        <5>1. S \ {i} = S
          BY <3>2, <4>1, <4>4
        <5> QED BY <3>1, <4>1, <4>4, <5>1
      <4> QED BY <4>3, <4>4
    <3>4. w.ref[p] = held(p) /\ r.ref[p] = Cardinality(Slots(r, p)) /\ r.ref[p] \in Nat
      BY <1>1, <1>3, <1>7, <1>9, <2>2
    <3> QED BY <3>3, <3>4
  <2> QED BY <2>1, <2>2
<1>11. ASSUME NEW p \in Entries PROVE w.mini[p] = NoTrace <=> w.ref[p] = 0
  BY <1>1, <1>2, <1>3, <1>4, <1>7, <1>9
<1>12. Traced(w)
  <2>1. \A p \in Entries : w.mini[p] \in {NoTrace} \cup Traces[p]
    BY <1>3, <1>9
  <2>2. \A j \in Bits : w.top[j] # NoEntry => \E t \in Traces[w.top[j]] : j \in t
    BY <1>3, <1>9
  <2> QED BY <2>1, <2>2 DEF Traced
<1> QED BY <1>8, <1>9, <1>10, <1>11, <1>12 DEF Counted, Counts, w

\* The loop: q wins the bytes where it beats the holder it finds at the start.
LEMMA BitsAreCounted ==
  ASSUME rated \in Counted, NEW q \in Entries, NEW trace \in Traces[q], NEW fs
  PROVE  /\ RateBits(q, trace, fs) \in Counted
         /\ \A j \in Bits : RateBits(q, trace, fs).top[j] =
              IF j \in WonBits(q, trace, fs) THEN q ELSE rated.top[j]
         /\ WonBits(q, trace, fs) = {} => RateBits(q, trace, fs) = rated
<1> DEFINE step(r, i) == RateBit(r, i, q, trace, fs)
           Body(g) == [i \in 0 .. NBits |-> IF i = 0 THEN rated ELSE step(g[i - 1], i)]
           R == CHOOSE g : g = Body(g)
           won == WonBits(q, trace, fs)
<1>1. NBits \in Nat /\ Bits = 1 .. NBits /\ trace \subseteq Bits
  BY ScoreAssumption DEF Bits
<1>2. \A r \in Counted, i \in 1 .. NBits : step(r, i) \in Counted
  BY <1>1, BitIsCounted DEF RateBit
<1>3. \A r \in Counted, i \in 1 .. NBits : \A j \in Bits :
        step(r, i).top[j] = IF j = i /\ i \in trace /\ Beats(fs[q], r.top[i], fs) THEN q ELSE r.top[j]
  BY <1>1, BitIsCounted DEF RateBit
<1>4. R = Body(R) /\ RateBits(q, trace, fs) = R[NBits]
  <2> DEFINE G == [x \in Counted \X (1 .. NBits) |-> step(x[1], x[2])]
  <2>1. \A r \in Counted, i \in 1 .. NBits : G[<<r, i>>] = step(r, i) /\ G[<<r, i>>] \in Counted
    BY <1>2
  <2> HIDE DEF G, step
  <2>2. PICK f \in [0 .. NBits -> Counted] :
          f[0] = rated /\ \A i \in 1 .. NBits : f[i] = G[<<f[i - 1], i>>]
    <3>1. \A s \in Counted, i \in 1 .. NBits : G[<<s, i>>] \in Counted
      BY <2>1
    <3>2. NBits \in Nat /\ rated \in Counted
      BY <1>1
    <3> HIDE DEF Counted
    <3>3. \E f : Iterated(f, G, NBits, Counted, rated)
      BY <3>1, <3>2, Iterates DEF Stays
    <3> QED BY <3>3 DEF Iterated
  <2>3. ASSUME NEW i \in 1 .. NBits PROVE f[i] = step(f[i - 1], i)
    <3>1. f[i - 1] \in Counted /\ f[i] = G[<<f[i - 1], i>>]
      BY <1>1, <2>2
    <3> QED BY <2>1, <3>1
  <2>4. f = Body(f)
    BY <2>2, <2>3
  <2>5. R = Body(R)
    BY <2>4
  <2> QED BY <2>5 DEF RateBits, step
<1> HIDE DEF R
<1>5. R[0] = rated /\ \A i \in 1 .. NBits : R[i] = step(R[i - 1], i)
  BY <1>1, <1>4
<1> DEFINE P == {i \in 0 .. NBits :
                   /\ R[i] \in Counted
                   /\ \A j \in Bits : R[i].top[j] = IF j <= i /\ j \in won THEN q ELSE rated.top[j]
                   /\ won = {} => R[i] = rated}
<1>6. 0 \in P
  BY <1>1, <1>5
<1>7. ASSUME NEW i \in 1 .. NBits, i - 1 \in P PROVE i \in P
  <2>1. /\ R[i - 1] \in Counted /\ R[i] = step(R[i - 1], i)
        /\ \A j \in Bits : R[i - 1].top[j] = IF j <= i - 1 /\ j \in won THEN q ELSE rated.top[j]
        /\ won = {} => R[i - 1] = rated
    BY <1>5, <1>7
  <2>2. R[i - 1].top[i] = rated.top[i]
    BY <1>1, <2>1
  <2>3. i \in won <=> i \in trace /\ Beats(fs[q], R[i - 1].top[i], fs)
    BY <2>2 DEF WonBits
  <2>4. R[i] \in Counted
    BY <1>2, <2>1
  <2>5. \A j \in Bits : R[i].top[j] = IF j = i /\ i \in won THEN q ELSE R[i - 1].top[j]
    BY <1>3, <2>1, <2>3
  <2>6. \A j \in Bits : R[i].top[j] = IF j <= i /\ j \in won THEN q ELSE rated.top[j]
    BY <1>1, <2>1, <2>5
  <2>7. won = {} => R[i] = rated
    BY <2>1, <2>3 DEF RateBit
  <2> QED BY <2>4, <2>6, <2>7
<1> HIDE DEF P
<1>8. NBits \in P
  BY <1>1, <1>6, <1>7, UpTo
<1> QED BY <1>1, <1>4, <1>8 DEF P

---------------------------------------------------------------------------
(* cull_queue_default *)

LEMMA HolderHasTrace ==
  ASSUME rated \in Counted, NEW i \in Bits, NEW p, p = rated.top[i], p # NoEntry
  PROVE  /\ p \in Entries /\ rated.mini[p] \in Traces[p] /\ rated.mini[p] \in SUBSET Bits
         /\ Deterministic(p) => i \in rated.mini[p]
<1>1. /\ p \in Entries /\ rated.ref[p] = Cardinality(Slots(rated, p))
      /\ rated.mini[p] = NoTrace <=> rated.ref[p] = 0
      /\ rated.mini[p] \in {NoTrace} \cup Traces[p]
      /\ \E t \in Traces[p] : i \in t
  BY DEF Counted, Ratings, Counts, Traced
<1>2. i \in Slots(rated, p)
  BY DEF Slots
<1>3. rated.ref[p] # 0
  BY <1>1, <1>2, SlotsAreFinite, FS_EmptySet
<1>4. rated.mini[p] \in Traces[p] /\ rated.mini[p] \in SUBSET Bits
  BY <1>1, <1>3, ScoreAssumption
<1>5. ASSUME Deterministic(p) PROVE i \in rated.mini[p]
  <2>1. IsFiniteSet(Traces[p])
    <3>1. IsFiniteSet(Bits)
      BY ScoreAssumption, FS_Interval DEF Bits
    <3>2. IsFiniteSet(SUBSET Bits)
      BY <3>1, FS_SUBSET
    <3>3. Traces[p] \in SUBSET (SUBSET Bits)
      BY <1>1, ScoreAssumption
    <3> QED BY <3>2, <3>3, FS_Subset
  <2>2. PICK t : Traces[p] = {t}
    BY <1>5, <2>1, FS_Singleton DEF Deterministic
  <2> QED BY <1>1, <1>4, <2>2
<1> QED BY <1>1, <1>4, <1>5

AllAgree == \A p \in queue : Deterministic(p)

\* What holds of the picks at any byte of the loop.
Picks ==
  {w \in [temp_v : SUBSET Bits, favored : SUBSET queue, pending : Nat] :
     /\ \A p \in w.favored : \E i \in Bits : rated.top[i] = p
     /\ w.temp_v = UNION {rated.mini[p] : p \in w.favored}
     /\ w.pending >= Pending(w.favored)
     /\ AllAgree => w.pending = Pending(w.favored)}

LEMMA EntriesAreFinite ==
  ASSUME NEW S \in SUBSET Entries
  PROVE  /\ IsFiniteSet(S) /\ IsFiniteSet(S \ was_fuzzed)
         /\ Cardinality(S) \in Nat /\ Pending(S) \in Nat
<1>1. IsFiniteSet(S)
  BY ScoreAssumption, FS_Subset
<1>2. IsFiniteSet(S \ was_fuzzed)
  BY <1>1, FS_Difference
<1> QED BY <1>1, <1>2, FS_CardinalityType DEF Pending

LEMMA PickIsCounted ==
  ASSUME TypeOK, rated \in Counted, \A i \in Bits : rated.top[i] \in queue \cup {NoEntry},
         NEW w \in Picks, NEW i \in Bits
  PROVE  /\ Pick(w, i) \in Picks
         /\ w.favored \subseteq Pick(w, i).favored /\ w.temp_v \subseteq Pick(w, i).temp_v
         /\ rated.top[i] # NoEntry =>
              rated.top[i] \in Pick(w, i).favored \/ i \in Pick(w, i).temp_v
<1> DEFINE p == rated.top[i]
           x == Pick(w, i)
<1>1. CASE p = NoEntry \/ i \in w.temp_v
  BY <1>1 DEF Pick
<1>2. CASE p # NoEntry /\ i \notin w.temp_v
  <2>1. /\ w.temp_v \in SUBSET Bits /\ w.favored \in SUBSET queue /\ w.pending \in Nat
        /\ \A q \in w.favored : \E j \in Bits : rated.top[j] = q
        /\ w.temp_v = UNION {rated.mini[q] : q \in w.favored}
        /\ w.pending >= Pending(w.favored)
        /\ AllAgree => w.pending = Pending(w.favored)
    BY DEF Picks
  <2>2. x = [temp_v  |-> w.temp_v \cup rated.mini[p],
             favored |-> w.favored \cup {p},
             pending |-> IF p \in was_fuzzed THEN w.pending ELSE w.pending + 1]
    BY <1>2 DEF Pick
  <2>3. /\ p \in queue /\ p \in Entries /\ rated.mini[p] \in SUBSET Bits
        /\ Deterministic(p) => i \in rated.mini[p]
    BY <1>2, HolderHasTrace
  <2>4. /\ x.temp_v = w.temp_v \cup rated.mini[p] /\ x.favored = w.favored \cup {p}
        /\ x.pending = IF p \in was_fuzzed THEN w.pending ELSE w.pending + 1
    BY <2>2
  <2>5. x \in [temp_v : SUBSET Bits, favored : SUBSET queue, pending : Nat]
    BY <2>1, <2>2, <2>3
  <2> HIDE DEF x, p
  <2>6. \A q \in x.favored : \E j \in Bits : rated.top[j] = q
    BY <2>1, <2>4 DEF p
  <2>7. x.temp_v = UNION {rated.mini[q] : q \in x.favored}
    BY <2>1, <2>4
  <2>8. /\ IsFiniteSet(w.favored \ was_fuzzed) /\ Pending(w.favored) \in Nat
        /\ Pending(w.favored) = Cardinality(w.favored \ was_fuzzed)
    BY <2>1, EntriesAreFinite DEF TypeOK, Pending
  <2>9. Pending(x.favored) = IF p \in was_fuzzed \cup w.favored THEN Pending(w.favored)
                                                              ELSE Pending(w.favored) + 1
    <3>1. CASE p \in was_fuzzed
      <4>1. x.favored \ was_fuzzed = w.favored \ was_fuzzed
        BY <2>4, <3>1
      <4> QED BY <3>1, <4>1 DEF Pending
    <3>2. CASE p \notin was_fuzzed
      <4>1. x.favored \ was_fuzzed = (w.favored \ was_fuzzed) \cup {p}
        BY <2>4, <3>2
      <4>2. p \in w.favored \ was_fuzzed <=> p \in w.favored
        BY <3>2
      <4>3. Cardinality((w.favored \ was_fuzzed) \cup {p}) =
              IF p \in w.favored \ was_fuzzed THEN Cardinality(w.favored \ was_fuzzed)
                                             ELSE Cardinality(w.favored \ was_fuzzed) + 1
        BY <2>8, FS_AddElement
      <4> QED BY <3>2, <4>1, <4>2, <4>3 DEF Pending
    <3> QED BY <3>1, <3>2
  <2>10. x.pending >= Pending(x.favored)
    BY <2>1, <2>4, <2>8, <2>9
  <2>11. AllAgree => p \notin w.favored
    BY <1>2, <2>1, <2>3 DEF AllAgree
  <2>12. AllAgree => x.pending = Pending(x.favored)
    BY <2>1, <2>4, <2>8, <2>9, <2>11
  <2>13. x \in Picks
    BY <2>5, <2>6, <2>7, <2>10, <2>12 DEF Picks
  <2> QED BY <2>4, <2>13 DEF x, p
<1> QED BY <1>1, <1>2

LEMMA WinnersAreCounted ==
  ASSUME TypeOK, rated \in Counted, \A i \in Bits : rated.top[i] \in queue \cup {NoEntry}
  PROVE  /\ Winners \in Picks
         /\ \A i \in Bits : rated.top[i] # NoEntry =>
              rated.top[i] \in Winners.favored \/ \E q \in Winners.favored : i \in rated.mini[q]
<1> DEFINE w0 == [temp_v |-> {}, favored |-> {}, pending |-> 0]
           Body(g) == [i \in 0 .. NBits |-> IF i = 0 THEN w0 ELSE Pick(g[i - 1], i)]
           R == CHOOSE g : g = Body(g)
<1>1. NBits \in Nat /\ Bits = 1 .. NBits
  BY ScoreAssumption DEF Bits
<1>2. \A w \in Picks, i \in 1 .. NBits : Pick(w, i) \in Picks
  BY <1>1, PickIsCounted
<1>3. w0 \in Picks
  <2>1. Pending({}) = 0
    <3>1. {} \ was_fuzzed = {}
      OBVIOUS
    <3> QED BY <3>1, FS_EmptySet DEF Pending
  <2> QED BY <2>1 DEF Picks
<1>4. R = Body(R) /\ Winners = R[NBits]
  <2> DEFINE G == [x \in Picks \X (1 .. NBits) |-> Pick(x[1], x[2])]
  <2>1. \A w \in Picks, i \in 1 .. NBits : G[<<w, i>>] = Pick(w, i) /\ G[<<w, i>>] \in Picks
    BY <1>2
  <2> HIDE DEF G, w0
  <2>2. PICK f \in [0 .. NBits -> Picks] :
          f[0] = w0 /\ \A i \in 1 .. NBits : f[i] = G[<<f[i - 1], i>>]
    <3>1. \A w \in Picks, i \in 1 .. NBits : G[<<w, i>>] \in Picks
      BY <2>1
    <3>2. \E f : Iterated(f, G, NBits, Picks, w0)
      BY <1>1, <1>3, <3>1, Iterates DEF Stays
    <3> QED BY <3>2 DEF Iterated
  <2>3. ASSUME NEW i \in 1 .. NBits PROVE f[i] = Pick(f[i - 1], i)
    <3>1. f[i - 1] \in Picks /\ f[i] = G[<<f[i - 1], i>>]
      BY <1>1, <2>2
    <3> QED BY <2>1, <3>1
  <2>4. f = Body(f)
    BY <2>2, <2>3
  <2>5. R = Body(R)
    BY <2>4
  <2> QED BY <2>5 DEF Winners, w0
<1> HIDE DEF R, w0
<1>5. R[0] = w0 /\ \A i \in 1 .. NBits : R[i] = Pick(R[i - 1], i)
  BY <1>1, <1>4
<1> DEFINE P == {i \in 0 .. NBits :
                   /\ R[i] \in Picks
                   /\ \A j \in 1 .. i : rated.top[j] # NoEntry =>
                        rated.top[j] \in R[i].favored \/ j \in R[i].temp_v}
<1>6. 0 \in P
  BY <1>1, <1>3, <1>5
<1>7. ASSUME NEW i \in 1 .. NBits, i - 1 \in P PROVE i \in P
  <2>1. /\ R[i - 1] \in Picks /\ R[i] = Pick(R[i - 1], i)
        /\ \A j \in 1 .. i - 1 : rated.top[j] # NoEntry =>
             rated.top[j] \in R[i - 1].favored \/ j \in R[i - 1].temp_v
    BY <1>5, <1>7
  <2>2. /\ R[i] \in Picks
        /\ R[i - 1].favored \subseteq R[i].favored /\ R[i - 1].temp_v \subseteq R[i].temp_v
        /\ rated.top[i] # NoEntry => rated.top[i] \in R[i].favored \/ i \in R[i].temp_v
    BY <1>1, <2>1, PickIsCounted
  <2>3. \A j \in 1 .. i : j = i \/ j \in 1 .. i - 1
    OBVIOUS
  <2> QED BY <2>1, <2>2, <2>3
<1> HIDE DEF P
<1>8. NBits \in P
  BY <1>1, <1>6, <1>7, UpTo
<1>9. /\ Winners \in Picks
      /\ \A j \in Bits : rated.top[j] # NoEntry =>
           rated.top[j] \in Winners.favored \/ j \in Winners.temp_v
  BY <1>1, <1>4, <1>8 DEF P
<1>10. Winners.temp_v = UNION {rated.mini[q] : q \in Winners.favored}
  BY <1>9 DEF Picks
<1> QED BY <1>9, <1>10

---------------------------------------------------------------------------
(* The invariant *)

\* Scores belong to entries of the queue; a step's holder covers it, or was
\* trimmed.
Rated ==
  /\ rated \in Counted
  /\ \A i \in Bits : rated.top[i] \in queue \cup {NoEntry}
  /\ \A s \in Steps : top_rated_alarm[s] \in queue \cup {NoEntry}
  /\ \A s \in Steps : \/ top_rated_alarm[s] = NoEntry
                      \/ s \in StepsOf[top_rated_alarm[s]]
                      \/ top_rated_alarm[s] \in trim_done

Holds(p) == \/ \E i \in Bits : rated.top[i] = p
            \/ \E s \in Steps : top_rated_alarm[s] = p

\* A calibrated entry has a checksum of a run of its own; only those are fuzzed,
\* and only those hold a slot or are favored, but for the ones written off.
Calibrations ==
  /\ \A q \in queue : cal_failed[q] = 0 => exec_cksum[q] \in Traces[q]
  /\ fuzzing # NoEntry => cal_failed[fuzzing] = 0
  /\ \A q \in Entries : Holds(q) \/ q \in favored \cup alarm_favored =>
       cal_failed[q] = 0 \/ q \in written_off
  /\ \A q \in written_off : cal_failed[q] = CAL_CHANCES /\ q \notin was_fuzzed

Covered ==
  /\ ~bitmap_score_changed =>
       \A i \in Bits : rated.top[i] # NoEntry =>
         rated.top[i] \in favored \/ \E q \in favored : i \in rated.mini[q]
  /\ ~alarm_score_changed => \A s \in Steps : top_rated_alarm[s] \in alarm_favored \cup {NoEntry}

Inv == TypeOK /\ Rated /\ Calibrations /\ Covered /\ PendingCountsHold

\* What update_bitmap_score does to the scores, for any factors.
LEMMA UpdateKeeps ==
  ASSUME TypeOK, Rated, NEW q \in Entries, NEW trace \in Traces[q], NEW steps \in SUBSET Steps,
         NEW fs, update_bitmap_score(q, trace, steps, fs)
  PROVE  /\ rated' \in Counted
         /\ \A i \in Bits : rated'.top[i] = q \/ rated'.top[i] = rated.top[i]
         /\ top_rated_alarm' \in [Steps -> Entries \cup {NoEntry}]
         /\ \A s \in Steps : \/ top_rated_alarm'[s] = q /\ s \in steps
                             \/ top_rated_alarm'[s] = top_rated_alarm[s]
         /\ bitmap_score_changed' \in BOOLEAN /\ alarm_score_changed' \in BOOLEAN
         /\ ~bitmap_score_changed' => ~bitmap_score_changed /\ rated' = rated
         /\ ~alarm_score_changed' => ~alarm_score_changed /\ top_rated_alarm' = top_rated_alarm
<1>1. /\ RateBits(q, trace, fs) \in Counted
      /\ \A j \in Bits : RateBits(q, trace, fs).top[j] =
           IF j \in WonBits(q, trace, fs) THEN q ELSE rated.top[j]
      /\ WonBits(q, trace, fs) = {} => RateBits(q, trace, fs) = rated
  BY BitsAreCounted DEF Rated
<1>2. /\ rated' = RateBits(q, trace, fs)
      /\ top_rated_alarm' =
           [s \in Steps |-> IF s \in WonSteps(q, steps, fs) THEN q ELSE top_rated_alarm[s]]
      /\ bitmap_score_changed' = (bitmap_score_changed \/ WonBits(q, trace, fs) # {})
      /\ alarm_score_changed' = (alarm_score_changed \/ WonSteps(q, steps, fs) # {})
  BY DEF update_bitmap_score
<1>3. \A s \in WonSteps(q, steps, fs) : s \in steps
  BY DEF WonSteps
<1>4. bitmap_score_changed' \in BOOLEAN /\ alarm_score_changed' \in BOOLEAN
  BY <1>2
<1>5. ~bitmap_score_changed' => ~bitmap_score_changed /\ rated' = rated
  BY <1>1, <1>2
<1>6. top_rated_alarm \in [Steps -> Entries \cup {NoEntry}]
  BY DEF TypeOK
<1>7. ASSUME ~alarm_score_changed' PROVE ~alarm_score_changed /\ top_rated_alarm' = top_rated_alarm
  BY <1>2, <1>6, <1>7
<1> QED BY <1>1, <1>2, <1>3, <1>4, <1>5, <1>6, <1>7

LEMMA InitHolds == Init => Inv
<1> SUFFICES ASSUME Init PROVE Inv
  OBVIOUS
<1> USE DEF Init
<1>1. TypeOK
  <2>1. /\ rated \in Ratings /\ top_rated_alarm \in [Steps -> Entries \cup {NoEntry}]
        /\ exec_cksum \in [Entries -> {NoTrace} \cup SUBSET Bits]
        /\ factor \in [Entries -> 0 .. MaxFactor] /\ cal_failed \in [Entries -> 0 .. CAL_CHANCES]
    BY ScoreAssumption DEF Ratings
  <2>2. queue \subseteq Entries /\ fuzzing \in queue \cup {NoEntry} /\ written_off \subseteq queue
    OBVIOUS
  <2>3. bitmap_score_changed \in BOOLEAN /\ alarm_score_changed \in BOOLEAN
    OBVIOUS
  <2>4. \A S \in {trim_done, was_fuzzed, favored, alarm_favored} : S \subseteq queue
    OBVIOUS
  <2>5. \A n \in {pending_not_fuzzed, pending_favored, pending_alarm_favored} : n \in Nat
    OBVIOUS
  <2> HIDE DEF Init
  <2> QED BY <2>1, <2>2, <2>3, <2>4, <2>5 DEF TypeOK, Ratings
<1>2. rated \in Counted
  <2>1. \A p \in Entries : Slots(rated, p) = {}
    BY ScoreAssumption DEF Slots
  <2>2. Counts(rated)
    BY <2>1, FS_EmptySet DEF Counts
  <2> QED BY <2>2 DEF Counted, Ratings, Traced
<1>3. Rated /\ Calibrations /\ Covered
  BY <1>2, ScoreAssumption DEF Rated, Calibrations, Covered, Holds
<1>4. Pending({}) = 0
  <2>1. {} \ was_fuzzed = {}
    OBVIOUS
  <2> QED BY <2>1, FS_EmptySet DEF Pending
<1>5. PendingCountsHold
  <2>1. Cardinality(Steps) \in Nat /\ Cardinality({}) = 0
    BY ScoreAssumption, FS_CardinalityType, FS_EmptySet
  <2> QED BY <1>4, <2>1 DEF PendingCountsHold
<1> QED BY <1>1, <1>3, <1>5 DEF Inv

LEMMA ScoreStep ==
  ASSUME Inv, NEW q \in Entries, NEW trace \in Traces[q], NEW steps \in SUBSET Steps, NEW fs,
         update_bitmap_score(q, trace, steps, fs),
         q \in queue', queue \subseteq queue', trim_done \subseteq trim_done',
         steps \subseteq StepsOf[q] \/ q \in trim_done',
         UNCHANGED <<favored, alarm_favored>>
  PROVE  /\ Rated' /\ Covered' /\ rated' \in Ratings
         /\ top_rated_alarm' \in [Steps -> Entries \cup {NoEntry}]
         /\ bitmap_score_changed' \in BOOLEAN /\ alarm_score_changed' \in BOOLEAN
         /\ \A p \in Entries : Holds(p)' => Holds(p) \/ p = q
<1>1. /\ rated' \in Counted
      /\ \A i \in Bits : rated'.top[i] = q \/ rated'.top[i] = rated.top[i]
      /\ top_rated_alarm' \in [Steps -> Entries \cup {NoEntry}]
      /\ \A s \in Steps : \/ top_rated_alarm'[s] = q /\ s \in steps
                          \/ top_rated_alarm'[s] = top_rated_alarm[s]
      /\ bitmap_score_changed' \in BOOLEAN /\ alarm_score_changed' \in BOOLEAN
      /\ ~bitmap_score_changed' => ~bitmap_score_changed /\ rated' = rated
      /\ ~alarm_score_changed' => ~alarm_score_changed /\ top_rated_alarm' = top_rated_alarm
  BY UpdateKeeps DEF Inv
<1>2. Rated'
  <2>1. \A i \in Bits : rated'.top[i] \in queue' \cup {NoEntry}
    BY <1>1 DEF Inv, Rated
  <2>2. \A s \in Steps : top_rated_alarm'[s] \in queue' \cup {NoEntry}
    BY <1>1 DEF Inv, Rated
  <2>3. \A s \in Steps : \/ top_rated_alarm'[s] = NoEntry
                         \/ s \in StepsOf[top_rated_alarm'[s]]
                         \/ top_rated_alarm'[s] \in trim_done'
    BY <1>1 DEF Inv, Rated
  <2> QED BY <1>1, <2>1, <2>2, <2>3 DEF Rated, Counted, Counts, Slots, Traced
<1>3. Covered'
  BY <1>1 DEF Inv, Covered
<1>4. ASSUME NEW p \in Entries, Holds(p)', p # q PROVE Holds(p)
  BY <1>1, <1>4 DEF Holds
<1> QED BY <1>1, <1>2, <1>3, <1>4 DEF Counted

\* A new entry is pending, and changes nothing else of what is counted.
LEMMA QueueGrows ==
  ASSUME Inv, NEW q \in Entries, add_to_queue(q), UNCHANGED flags
  PROVE  PendingCountsHold' /\ pending_not_fuzzed' \in Nat
<1>1. /\ q \notin queue /\ queue' = queue \cup {q} /\ queue \subseteq Entries
      /\ was_fuzzed \subseteq queue /\ favored \subseteq queue /\ alarm_favored \subseteq queue
      /\ pending_not_fuzzed' = pending_not_fuzzed + 1 /\ pending_not_fuzzed \in Nat
      /\ UNCHANGED <<pending_favored, pending_alarm_favored, was_fuzzed, favored, alarm_favored>>
  BY DEF add_to_queue, Inv, TypeOK, flags
<1>2. /\ pending_not_fuzzed = Pending(queue) /\ pending_favored >= Pending(favored)
      /\ pending_alarm_favored >= Pending(alarm_favored)
      /\ AllAgree => pending_favored = Pending(favored)
      /\ pending_alarm_favored - Pending(alarm_favored)
           <= Cardinality(Steps) - Cardinality(alarm_favored)
  BY DEF Inv, PendingCountsHold, AllAgree
<1>3. Pending(queue)' = Pending(queue) + 1
  <2>1. (queue \ was_fuzzed) \cup {q} = queue' \ was_fuzzed' /\ q \notin queue \ was_fuzzed
    BY <1>1
  <2>2. Cardinality((queue \ was_fuzzed) \cup {q}) = Cardinality(queue \ was_fuzzed) + 1
    BY <1>1, <2>1, EntriesAreFinite, FS_AddElement
  <2> QED BY <2>1, <2>2 DEF Pending
<1>4. Pending(favored)' = Pending(favored) /\ Pending(alarm_favored)' = Pending(alarm_favored)
  BY <1>1 DEF Pending
<1>5. AllAgree' => AllAgree
  BY <1>1 DEF AllAgree, Deterministic
<1> QED BY <1>1, <1>2, <1>3, <1>4, <1>5 DEF PendingCountsHold, AllAgree

LEMMA SaveKeeps ==
  ASSUME Inv, NEW q \in Entries, Save(q)
  PROVE  Inv'
<1>1. PICK first \in Traces[q], last \in Traces[q], f \in 1 .. MaxFactor :
        /\ exec_cksum' = [exec_cksum EXCEPT ![q] = first]
        /\ factor' = [factor EXCEPT ![q] = f]
        /\ cal_failed' = [cal_failed EXCEPT ![q] = 0]
        /\ update_bitmap_score(q, last, StepsOf[q], factor')
  BY DEF Save, Calibrated
<1>2. /\ q \notin queue /\ queue' = queue \cup {q} /\ add_to_queue(q)
      /\ UNCHANGED <<trim_done, was_fuzzed, favored, alarm_favored, fuzzing, written_off,
                     pending_favored, pending_alarm_favored>>
  BY DEF Save, add_to_queue, flags
<1>3. PendingCountsHold' /\ pending_not_fuzzed' \in Nat
  BY <1>2, QueueGrows DEF flags
<1>4. StepsOf[q] \in SUBSET Steps /\ last \in SUBSET Bits /\ first \in SUBSET Bits
  BY ScoreAssumption
<1>5. /\ Rated' /\ Covered' /\ rated' \in Ratings
      /\ top_rated_alarm' \in [Steps -> Entries \cup {NoEntry}]
      /\ bitmap_score_changed' \in BOOLEAN /\ alarm_score_changed' \in BOOLEAN
      /\ \A p \in Entries : Holds(p)' => Holds(p) \/ p = q
  <2>1. PICK fs : fs = factor'
    OBVIOUS
  <2> QED BY <1>1, <1>2, <1>4, <2>1, ScoreStep
<1>6. TypeOK'
  BY <1>1, <1>2, <1>3, <1>4, <1>5, ScoreAssumption DEF Inv, TypeOK, Ratings
<1>7. Calibrations'
  <2>1. \A p \in Entries : /\ p # q => cal_failed'[p] = cal_failed[p] /\ exec_cksum'[p] = exec_cksum[p]
                           /\ p = q => cal_failed'[p] = 0 /\ exec_cksum'[p] \in Traces[p]
    BY <1>1 DEF Inv, TypeOK
  <2>2. /\ queue \subseteq Entries /\ fuzzing \in Entries \cup {NoEntry} /\ fuzzing # q
        /\ written_off \subseteq queue
    BY <1>2, ScoreAssumption DEF Inv, TypeOK
  <2> QED BY <1>2, <1>5, <2>1, <2>2 DEF Inv, Calibrations
<1> QED BY <1>3, <1>5, <1>6, <1>7 DEF Inv

LEMMA SaveThenWriteOffKeeps ==
  ASSUME Inv, NEW q \in Entries, SaveThenWriteOff(q)
  PROVE  Inv'
<1>1. PICK trace \in Traces[q], f \in 1 .. MaxFactor :
        /\ exec_cksum' = [exec_cksum EXCEPT ![q] = trace]
        /\ factor' = [factor EXCEPT ![q] = f]
        /\ update_bitmap_score(q, trace, StepsOf[q], factor')
  BY DEF SaveThenWriteOff
<1>2. /\ q \notin queue /\ queue' = queue \cup {q} /\ add_to_queue(q)
      /\ cal_failed' = [cal_failed EXCEPT ![q] = CAL_CHANCES] /\ fuzzing = NoEntry
      /\ written_off' = written_off \cup {q}
      /\ UNCHANGED <<trim_done, was_fuzzed, favored, alarm_favored, fuzzing,
                     pending_favored, pending_alarm_favored>>
  BY DEF SaveThenWriteOff, add_to_queue, flags, InDryRun
<1>3. PendingCountsHold' /\ pending_not_fuzzed' \in Nat
  BY <1>2, QueueGrows DEF flags
<1>4. StepsOf[q] \in SUBSET Steps /\ trace \in SUBSET Bits
  BY ScoreAssumption
<1>5. /\ Rated' /\ Covered' /\ rated' \in Ratings
      /\ top_rated_alarm' \in [Steps -> Entries \cup {NoEntry}]
      /\ bitmap_score_changed' \in BOOLEAN /\ alarm_score_changed' \in BOOLEAN
      /\ \A p \in Entries : Holds(p)' => Holds(p) \/ p = q
  <2>1. PICK fs : fs = factor'
    OBVIOUS
  <2> QED BY <1>1, <1>2, <1>4, <2>1, ScoreStep
<1>6. TypeOK'
  BY <1>1, <1>2, <1>3, <1>4, <1>5, ScoreAssumption DEF Inv, TypeOK, Ratings
<1>7. Calibrations'
  <2>1. \A p \in Entries : /\ p # q => cal_failed'[p] = cal_failed[p] /\ exec_cksum'[p] = exec_cksum[p]
                           /\ p = q => cal_failed'[p] = CAL_CHANCES /\ exec_cksum'[p] \in Traces[p]
    BY <1>1, <1>2 DEF Inv, TypeOK
  <2>2. queue \subseteq Entries /\ was_fuzzed \subseteq queue /\ written_off \subseteq queue
    BY DEF Inv, TypeOK
  <2>3. CAL_CHANCES # 0
    BY ScoreAssumption
  <2> QED BY <1>2, <1>5, <2>1, <2>2, <2>3 DEF Inv, Calibrations
<1> QED BY <1>3, <1>5, <1>6, <1>7 DEF Inv

\* Scores and flags stay, and so do the statements about them.
LEMMA ScoresStay ==
  ASSUME Inv, UNCHANGED scores, queue \subseteq queue', trim_done \subseteq trim_done',
         UNCHANGED <<favored, alarm_favored>>
  PROVE  Rated' /\ Covered' /\ \A p \in Entries : Holds(p)' = Holds(p)
<1>1. UNCHANGED <<rated, top_rated_alarm, bitmap_score_changed, alarm_score_changed>>
  BY DEF scores
<1>2. Rated'
  <2>1. \A i \in Bits : rated'.top[i] \in queue' \cup {NoEntry}
    BY <1>1 DEF Inv, Rated
  <2>2. \A s \in Steps : top_rated_alarm'[s] \in queue' \cup {NoEntry}
    BY <1>1 DEF Inv, Rated
  <2>3. \A s \in Steps : \/ top_rated_alarm'[s] = NoEntry
                         \/ s \in StepsOf[top_rated_alarm'[s]]
                         \/ top_rated_alarm'[s] \in trim_done'
    BY <1>1 DEF Inv, Rated
  <2>4. rated' \in Counted
    BY <1>1 DEF Inv, Rated
  <2> QED BY <2>1, <2>2, <2>3, <2>4 DEF Rated, Counted, Counts, Slots, Traced
<1>3. Covered'
  BY <1>1 DEF Inv, Covered
<1> QED BY <1>1, <1>2, <1>3 DEF Holds

LEMMA CountersStay ==
  ASSUME Inv, UNCHANGED <<queue, flags, counters>>
  PROVE  PendingCountsHold'
<1>1. UNCHANGED <<queue, was_fuzzed, favored, alarm_favored,
                  pending_not_fuzzed, pending_favored, pending_alarm_favored>>
  BY DEF flags, counters
<1> QED BY <1>1 DEF Inv, PendingCountsHold, Pending, Deterministic

LEMMA SaveUncalibratedKeeps ==
  ASSUME Inv, NEW q \in Entries, SaveUncalibrated(q)
  PROVE  Inv'
<1>1. PICK n \in 1 .. CAL_CHANCES : cal_failed' = [cal_failed EXCEPT ![q] = n]
  <2>1. PICK n \in {1} \cup IF InDryRun THEN {CAL_CHANCES} ELSE {} :
          cal_failed' = [cal_failed EXCEPT ![q] = n]
    BY DEF SaveUncalibrated
  <2>2. n = 1 \/ n = CAL_CHANCES
    OBVIOUS
  <2>3. n \in 1 .. CAL_CHANCES
    BY <2>2, ScoreAssumption
  <2> QED BY <2>1, <2>3
<1>2. /\ q \notin queue /\ queue' = queue \cup {q} /\ add_to_queue(q) /\ UNCHANGED scores
      /\ UNCHANGED <<exec_cksum, factor, trim_done, was_fuzzed, favored, alarm_favored, fuzzing,
                     written_off, pending_favored, pending_alarm_favored>>
  BY DEF SaveUncalibrated, add_to_queue, flags
<1>3. PendingCountsHold' /\ pending_not_fuzzed' \in Nat
  BY <1>2, QueueGrows DEF flags
<1>4. Rated' /\ Covered' /\ \A p \in Entries : Holds(p)' = Holds(p)
  BY <1>2, ScoresStay
<1>5. TypeOK'
  BY <1>1, <1>2, <1>3, ScoreAssumption DEF Inv, TypeOK, scores
<1>6. Calibrations'
  <2>1. \A p \in Entries : /\ p # q => cal_failed'[p] = cal_failed[p]
                           /\ p = q => cal_failed'[p] # 0
    BY <1>1 DEF Inv, TypeOK
  <2>2. /\ queue \subseteq Entries /\ q \notin written_off /\ written_off \subseteq queue
        /\ fuzzing \in Entries \cup {NoEntry} /\ fuzzing # q
        /\ q \notin favored \cup alarm_favored
    BY <1>2, ScoreAssumption DEF Inv, TypeOK
  <2>3. ~Holds(q)
    BY <1>2, ScoreAssumption DEF Inv, Rated, Holds
  <2> QED BY <1>2, <1>4, <2>1, <2>2, <2>3 DEF Inv, Calibrations
<1> QED BY <1>3, <1>4, <1>5, <1>6 DEF Inv

\* Marking one entry takes it from the pending ones of any set.
LEMMA PendingLess ==
  ASSUME NEW S \in SUBSET Entries, NEW q \in Entries, was_fuzzed' = was_fuzzed \cup {q}
  PROVE  /\ Cardinality(S \ was_fuzzed') = Less(Pending(S), q \in S \ was_fuzzed)
         /\ q \in S \ was_fuzzed => Pending(S) >= 1
<1>1. IsFiniteSet(S \ was_fuzzed) /\ Pending(S) \in Nat /\ Pending(S) = Cardinality(S \ was_fuzzed)
  BY EntriesAreFinite DEF Pending
<1>2. S \ was_fuzzed' = (S \ was_fuzzed) \ {q}
  OBVIOUS
<1>3. CASE q \in S \ was_fuzzed
  <2>1. Cardinality((S \ was_fuzzed) \ {q}) = Cardinality(S \ was_fuzzed) - 1
    BY <1>1, <1>3, FS_RemoveElement
  <2>2. Cardinality((S \ was_fuzzed) \ {q}) \in Nat
    BY <1>2, EntriesAreFinite, <1>1, FS_RemoveElement, FS_CardinalityType
  <2> QED BY <1>1, <1>2, <1>3, <2>1, <2>2 DEF Less
<1>4. CASE q \notin S \ was_fuzzed
  <2>1. (S \ was_fuzzed) \ {q} = S \ was_fuzzed
    BY <1>4
  <2> QED BY <1>1, <1>2, <1>4, <2>1 DEF Less
<1> QED BY <1>3, <1>4

\* Marking an entry of the queue counts down what counted it, and nothing else.
LEMMA MarkKeeps ==
  ASSUME Inv, NEW q \in queue, MarkFuzzed(q), UNCHANGED <<queue, favored, alarm_favored>>
  PROVE  /\ PendingCountsHold' /\ was_fuzzed' = was_fuzzed \cup {q}
         /\ pending_not_fuzzed' \in Nat /\ pending_favored' \in Nat
         /\ pending_alarm_favored' \in Nat
<1>1. /\ was_fuzzed' = was_fuzzed \cup {q}
      /\ pending_not_fuzzed' = Less(pending_not_fuzzed, q \notin was_fuzzed)
      /\ pending_favored' = Less(pending_favored, q \in favored \ was_fuzzed)
      /\ pending_alarm_favored' = Less(pending_alarm_favored, q \in alarm_favored \ was_fuzzed)
  BY DEF MarkFuzzed
<1>2. /\ queue \subseteq Entries /\ favored \subseteq queue /\ alarm_favored \subseteq queue
      /\ pending_not_fuzzed \in Nat /\ pending_favored \in Nat /\ pending_alarm_favored \in Nat
  BY DEF Inv, TypeOK
<1>4. /\ pending_not_fuzzed = Pending(queue) /\ pending_favored >= Pending(favored)
      /\ pending_alarm_favored >= Pending(alarm_favored)
      /\ AllAgree => pending_favored = Pending(favored)
      /\ pending_alarm_favored - Pending(alarm_favored)
           <= Cardinality(Steps) - Cardinality(alarm_favored)
  BY DEF Inv, PendingCountsHold, AllAgree
<1>5. ASSUME NEW S \in SUBSET queue
      PROVE  /\ Cardinality(S \ was_fuzzed') = Less(Pending(S), q \in S \ was_fuzzed)
             /\ q \in S \ was_fuzzed => Pending(S) >= 1
             /\ Pending(S) \in Nat
  BY <1>1, <1>2, PendingLess, EntriesAreFinite
<1>6. /\ pending_not_fuzzed' \in Nat /\ pending_not_fuzzed' = Cardinality(queue \ was_fuzzed')
  <2>1. /\ Cardinality(queue \ was_fuzzed') = Less(Pending(queue), q \notin was_fuzzed)
        /\ q \notin was_fuzzed => Pending(queue) >= 1
    BY <1>2, <1>5
  <2> QED BY <1>1, <1>2, <1>4, <2>1 DEF Less
<1>7. /\ pending_favored' \in Nat /\ pending_favored' >= Cardinality(favored \ was_fuzzed')
      /\ AllAgree => pending_favored' = Cardinality(favored \ was_fuzzed')
  <2>1. /\ Cardinality(favored \ was_fuzzed') = Less(Pending(favored), q \in favored \ was_fuzzed)
        /\ q \in favored \ was_fuzzed => Pending(favored) >= 1
        /\ Pending(favored) \in Nat
    BY <1>2, <1>5
  <2> QED BY <1>1, <1>2, <1>4, <2>1 DEF Less
<1>8. /\ pending_alarm_favored' \in Nat
      /\ pending_alarm_favored' >= Cardinality(alarm_favored \ was_fuzzed')
      /\ pending_alarm_favored' - Cardinality(alarm_favored \ was_fuzzed')
           <= Cardinality(Steps) - Cardinality(alarm_favored)
  <2>1. /\ Cardinality(alarm_favored \ was_fuzzed') =
             Less(Pending(alarm_favored), q \in alarm_favored \ was_fuzzed)
        /\ q \in alarm_favored \ was_fuzzed => Pending(alarm_favored) >= 1
        /\ Pending(alarm_favored) \in Nat
    BY <1>2, <1>5
  <2>2. Cardinality(Steps) \in Nat /\ Cardinality(alarm_favored) \in Nat
    BY <1>2, EntriesAreFinite, ScoreAssumption, FS_CardinalityType
  <2> QED BY <1>1, <1>2, <1>4, <2>1, <2>2 DEF Less
<1> QED BY <1>1, <1>6, <1>7, <1>8 DEF PendingCountsHold, Pending, AllAgree, Deterministic

LEMMA RecalibrateKeeps ==
  ASSUME Inv, NEW q \in Entries, Recalibrate(q)
  PROVE  Inv'
<1>1. PICK first \in Traces[q], last \in Traces[q], f \in 1 .. MaxFactor :
        /\ exec_cksum' = [exec_cksum EXCEPT ![q] = first]
        /\ factor' = [factor EXCEPT ![q] = f]
        /\ cal_failed' = [cal_failed EXCEPT ![q] = 0]
        /\ update_bitmap_score(q, last, StepsOf[q], factor')
  BY DEF Recalibrate, Calibrated
<1>2. /\ q \in queue /\ fuzzing = NoEntry /\ fuzzing' \in {q, NoEntry}
      /\ cal_failed[q] \in 1 .. CAL_CHANCES - 1
      /\ UNCHANGED <<queue, trim_done, favored, alarm_favored, written_off>>
  BY DEF Recalibrate, flags
<1>3. /\ PendingCountsHold' /\ was_fuzzed' \subseteq was_fuzzed \cup {q}
      /\ pending_not_fuzzed' \in Nat /\ pending_favored' \in Nat
      /\ pending_alarm_favored' \in Nat
  <2>1. CASE UNCHANGED <<flags, counters>>
    <3>1. PendingCountsHold'
      BY <1>2, <2>1, CountersStay
    <3> QED BY <2>1, <3>1 DEF flags, counters, Inv, TypeOK
  <2>2. CASE MarkFuzzed(q)
    BY <1>2, <2>2, MarkKeeps
  <2> QED BY <2>1, <2>2 DEF Recalibrate
<1>4. StepsOf[q] \in SUBSET Steps /\ last \in SUBSET Bits /\ first \in SUBSET Bits
  BY ScoreAssumption
<1>5. /\ Rated' /\ Covered' /\ rated' \in Ratings
      /\ top_rated_alarm' \in [Steps -> Entries \cup {NoEntry}]
      /\ bitmap_score_changed' \in BOOLEAN /\ alarm_score_changed' \in BOOLEAN
      /\ \A p \in Entries : Holds(p)' => Holds(p) \/ p = q
  <2>1. PICK fs : fs = factor'
    OBVIOUS
  <2> QED BY <1>1, <1>2, <1>3, <1>4, <2>1, ScoreStep
<1>6. TypeOK'
  BY <1>1, <1>2, <1>3, <1>4, <1>5, ScoreAssumption DEF Inv, TypeOK, Ratings
<1>7. Calibrations'
  <2>1. \A p \in Entries : /\ p # q => cal_failed'[p] = cal_failed[p] /\ exec_cksum'[p] = exec_cksum[p]
                           /\ p = q => cal_failed'[p] = 0 /\ exec_cksum'[p] \in Traces[p]
    BY <1>1 DEF Inv, TypeOK
  <2>2. queue \subseteq Entries /\ written_off \subseteq queue
    BY DEF Inv, TypeOK
  <2>3. q \notin written_off
    BY <1>2, ScoreAssumption DEF Inv, Calibrations
  <2> QED BY <1>2, <1>3, <1>5, <2>1, <2>2, <2>3 DEF Inv, Calibrations
<1> QED BY <1>3, <1>5, <1>6, <1>7 DEF Inv

LEMMA RecalibrationFailsKeeps ==
  ASSUME Inv, NEW q \in Entries, RecalibrationFails(q)
  PROVE  Inv'
<1>1. /\ fuzzing = NoEntry /\ q \in queue /\ cal_failed[q] \in 1 .. CAL_CHANCES - 1
      /\ cal_failed' = [cal_failed EXCEPT ![q] = @ + 1]
      /\ exec_cksum' = [exec_cksum EXCEPT ![q] = NoTrace]
      /\ UNCHANGED scores /\ UNCHANGED <<queue, flags, counters>>
      /\ UNCHANGED <<queue, factor, trim_done, was_fuzzed, favored, alarm_favored, fuzzing,
                     written_off, pending_not_fuzzed, pending_favored, pending_alarm_favored>>
  BY DEF RecalibrationFails, flags, counters
<1>2. Rated' /\ Covered' /\ \A p \in Entries : Holds(p)' = Holds(p)
  BY <1>1, ScoresStay
<1>3. TypeOK'
  BY <1>1, ScoreAssumption DEF Inv, TypeOK, scores
<1>4. Calibrations'
  <2>1. \A p \in Entries : /\ p # q => cal_failed'[p] = cal_failed[p] /\ exec_cksum'[p] = exec_cksum[p]
                           /\ p = q => cal_failed'[p] # 0 /\ cal_failed[p] \notin {0, CAL_CHANCES}
    BY <1>1, ScoreAssumption DEF Inv, TypeOK
  <2>2. queue \subseteq Entries /\ written_off \subseteq queue
    BY DEF Inv, TypeOK
  <2> QED BY <1>1, <1>2, <2>1, <2>2 DEF Inv, Calibrations
<1>5. PendingCountsHold'
  BY <1>1, CountersStay
<1> QED BY <1>2, <1>3, <1>4, <1>5 DEF Inv

LEMMA StartKeeps ==
  ASSUME Inv, NEW q \in Entries, Start(q)
  PROVE  Inv'
<1>1. /\ q \in queue /\ cal_failed[q] = 0 /\ fuzzing' = q
      /\ UNCHANGED scores /\ UNCHANGED <<queue, flags, counters>>
      /\ UNCHANGED <<queue, exec_cksum, factor, cal_failed, trim_done, was_fuzzed, favored,
                     alarm_favored, written_off, pending_not_fuzzed, pending_favored,
                     pending_alarm_favored>>
  BY DEF Start, flags, counters
<1>2. Rated' /\ Covered' /\ \A p \in Entries : Holds(p)' = Holds(p)
  BY <1>1, ScoresStay
<1>3. TypeOK'
  BY <1>1 DEF Inv, TypeOK, scores
<1>4. Calibrations'
  BY <1>1, <1>2 DEF Inv, Calibrations
<1>5. PendingCountsHold'
  BY <1>1, CountersStay
<1> QED BY <1>2, <1>3, <1>4, <1>5 DEF Inv

LEMMA TrimFruitlessKeeps ==
  ASSUME Inv, NEW q \in Entries, TrimFruitless(q)
  PROVE  Inv'
<1>1. /\ fuzzing = q /\ trim_done' = trim_done \cup {q}
      /\ UNCHANGED scores /\ UNCHANGED <<queue, flags, counters>>
      /\ UNCHANGED <<queue, exec_cksum, factor, cal_failed, was_fuzzed, favored, alarm_favored,
                     pending_not_fuzzed, pending_favored, pending_alarm_favored, fuzzing,
                     written_off>>
  BY DEF TrimFruitless, flags, counters
<1>2. Rated' /\ Covered' /\ \A p \in Entries : Holds(p)' = Holds(p)
  BY <1>1, ScoresStay
<1>3. TypeOK'
  <2>1. q \in queue
    BY <1>1, ScoreAssumption DEF Inv, TypeOK
  <2> QED BY <1>1, <2>1 DEF Inv, TypeOK, scores
<1>4. Calibrations'
  BY <1>1, <1>2 DEF Inv, Calibrations
<1>5. PendingCountsHold'
  BY <1>1, CountersStay
<1> QED BY <1>2, <1>3, <1>4, <1>5 DEF Inv

LEMMA TrimKeeps ==
  ASSUME Inv, NEW q \in Entries, Trim(q)
  PROVE  Inv'
<1>1. PICK f \in 1 .. factor[q], steps \in SUBSET Steps :
        /\ factor' = [factor EXCEPT ![q] = f]
        /\ update_bitmap_score(q, exec_cksum[q], steps, factor')
  BY DEF Trim
<1>2. /\ fuzzing = q /\ trim_done' = trim_done \cup {q} /\ UNCHANGED <<queue, flags, counters>>
      /\ UNCHANGED <<queue, exec_cksum, cal_failed, was_fuzzed, favored, alarm_favored,
                     pending_not_fuzzed, pending_favored, pending_alarm_favored, fuzzing,
                     written_off>>
  BY DEF Trim, flags, counters
<1>3. q \in queue /\ exec_cksum[q] \in Traces[q]
  BY <1>2, ScoreAssumption DEF Inv, TypeOK, Calibrations
<1>4. f \in 0 .. MaxFactor
  <2>1. factor[q] \in 0 .. MaxFactor
    BY DEF Inv, TypeOK
  <2> QED BY <2>1, ScoreAssumption
<1>5. /\ Rated' /\ Covered' /\ rated' \in Ratings
      /\ top_rated_alarm' \in [Steps -> Entries \cup {NoEntry}]
      /\ bitmap_score_changed' \in BOOLEAN /\ alarm_score_changed' \in BOOLEAN
      /\ \A p \in Entries : Holds(p)' => Holds(p) \/ p = q
  <2>1. PICK fs : fs = factor'
    OBVIOUS
  <2>2. PICK trace \in Traces[q] : trace = exec_cksum[q]
    BY <1>3
  <2>3. update_bitmap_score(q, trace, steps, fs)
    BY <1>1, <2>1, <2>2
  <2> QED BY <1>2, <1>3, <2>3, ScoreStep
<1>6. TypeOK'
  BY <1>1, <1>2, <1>3, <1>4, <1>5 DEF Inv, TypeOK, Ratings
<1>7. Calibrations'
  <2>1. cal_failed[q] = 0
    BY <1>2, ScoreAssumption DEF Inv, Calibrations
  <2> QED BY <1>2, <1>5, <2>1 DEF Inv, Calibrations
<1>8. PendingCountsHold'
  BY <1>2, CountersStay
<1> QED BY <1>5, <1>6, <1>7, <1>8 DEF Inv

LEMMA FinishKeeps ==
  ASSUME Inv, NEW q \in Entries, Finish(q)
  PROVE  Inv'
<1>1. /\ fuzzing = q /\ fuzzing' = NoEntry /\ MarkFuzzed(q)
      /\ UNCHANGED scores
      /\ UNCHANGED <<queue, exec_cksum, factor, cal_failed, trim_done, favored, alarm_favored,
                     written_off>>
  BY DEF Finish
<1>2. q \in queue /\ written_off \subseteq queue /\ queue \subseteq Entries
  BY <1>1, ScoreAssumption DEF Inv, TypeOK
<1>3. Rated' /\ Covered' /\ \A p \in Entries : Holds(p)' = Holds(p)
  BY <1>1, ScoresStay
<1>4. /\ PendingCountsHold' /\ was_fuzzed' = was_fuzzed \cup {q}
      /\ pending_not_fuzzed' \in Nat /\ pending_favored' \in Nat
      /\ pending_alarm_favored' \in Nat
  BY <1>1, <1>2, MarkKeeps
<1>5. TypeOK'
  BY <1>1, <1>2, <1>4 DEF Inv, TypeOK, scores
<1>6. Calibrations'
  <2>1. cal_failed[q] = 0
    BY <1>1, <1>2, ScoreAssumption DEF Inv, Calibrations
  <2> QED BY <1>1, <1>2, <1>3, <1>4, <2>1, ScoreAssumption DEF Inv, Calibrations
<1> QED BY <1>3, <1>4, <1>5, <1>6 DEF Inv

\* The steps unfuzzed entries hold are no fewer than the entries that hold them, and
\* so are those of the fuzzed ones.
LEMMA StepsOutnumber ==
  ASSUME TypeOK, Rated
  PROVE  LET open == {s \in Steps : top_rated_alarm[s] \notin was_fuzzed \cup {NoEntry}}
             held == Range(top_rated_alarm) \ {NoEntry}
         IN  /\ held \subseteq queue /\ Cardinality(open) \in Nat
             /\ Cardinality(open) >= Pending(held)
             /\ Cardinality(open) - Pending(held) <= Cardinality(Steps) - Cardinality(held)
<1> DEFINE open == {s \in Steps : top_rated_alarm[s] \notin was_fuzzed \cup {NoEntry}}
           held == Range(top_rated_alarm) \ {NoEntry}
           holder == [s \in open |-> top_rated_alarm[s]]
<1>1. top_rated_alarm \in [Steps -> queue \cup {NoEntry}]
  BY DEF TypeOK, Rated
<1>2. \A p : p \in held <=> p # NoEntry /\ \E s \in Steps : top_rated_alarm[s] = p
  BY <1>1 DEF Range
<1>3. held \subseteq queue
  BY <1>1, <1>2
<1>4. IsFiniteSet(open)
  BY ScoreAssumption, FS_Subset
<1>5. holder \in Surjection(open, held \ was_fuzzed)
  BY <1>1, <1>2 DEF Surjection
<1>6. Cardinality(held \ was_fuzzed) <= Cardinality(open)
  BY <1>4, <1>5, FS_Surjection
<1>7. Cardinality(open) \in Nat
  BY <1>4, FS_CardinalityType
<1>8. Pending(held) \in Nat
  BY <1>3, EntriesAreFinite DEF TypeOK
<1> DEFINE done == {s \in Steps : top_rated_alarm[s] \in was_fuzzed /\ top_rated_alarm[s] # NoEntry}
           doer == [s \in done |-> top_rated_alarm[s]]
<1>9. IsFiniteSet(done) /\ Cardinality(done) \in Nat
  BY ScoreAssumption, FS_Subset, FS_CardinalityType
<1>10. doer \in Surjection(done, held \cap was_fuzzed)
  BY <1>1, <1>2 DEF Surjection
<1>11. Cardinality(held \cap was_fuzzed) <= Cardinality(done)
  BY <1>9, <1>10, FS_Surjection
<1>12. IsFiniteSet(open \cup done) /\ Cardinality(open \cup done) = Cardinality(open) + Cardinality(done)
  <2>1. open \cap done = {}
    OBVIOUS
  <2>2. Cardinality(open \cap done) = 0
    BY <2>1, FS_EmptySet
  <2> HIDE DEF open, done
  <2>3. /\ IsFiniteSet(open \cup done)
        /\ Cardinality(open \cup done) =
             Cardinality(open) + Cardinality(done) - Cardinality(open \cap done)
    BY <1>4, <1>9, FS_Union
  <2> QED BY <1>7, <1>9, <2>2, <2>3
<1>13. Cardinality(open \cup done) <= Cardinality(Steps) /\ Cardinality(Steps) \in Nat
  <2>1. open \cup done \in SUBSET Steps
    OBVIOUS
  <2> HIDE DEF open, done
  <2> QED BY <2>1, ScoreAssumption, FS_Subset, FS_CardinalityType
<1>14. Cardinality(held) = Pending(held) + Cardinality(held \cap was_fuzzed)
  <2>1. /\ IsFiniteSet(held \ was_fuzzed) /\ IsFiniteSet(held \cap was_fuzzed)
        /\ Cardinality(held \cap was_fuzzed) \in Nat
    <3>1. held \in SUBSET Entries /\ held \cap was_fuzzed \in SUBSET Entries
      BY <1>3 DEF TypeOK
    <3> HIDE DEF held
    <3> QED BY <3>1, EntriesAreFinite
  <2>2. (held \ was_fuzzed) \cup (held \cap was_fuzzed) = held
    OBVIOUS
  <2>3. Cardinality((held \ was_fuzzed) \cap (held \cap was_fuzzed)) = 0
    <3>1. (held \ was_fuzzed) \cap (held \cap was_fuzzed) = {}
      OBVIOUS
    <3> QED BY <3>1, FS_EmptySet
  <2> DEFINE A == held \ was_fuzzed
             B == held \cap was_fuzzed
  <2>4. Cardinality(A) = Pending(held) /\ Cardinality(A) \in Nat
    BY <1>8 DEF Pending
  <2> HIDE DEF A, B
  <2>5. Cardinality(A \cup B) = Cardinality(A) + Cardinality(B) - Cardinality(A \cap B)
    BY <2>1, FS_Union DEF A, B
  <2>6. Cardinality(B) \in Nat /\ Cardinality(A \cap B) = 0 /\ A \cup B = held
    BY <2>1, <2>2, <2>3 DEF A, B
  <2>7. Cardinality(A \cup B) = Pending(held) + Cardinality(B)
    BY <2>4, <2>5, <2>6
  <2> QED BY <2>6, <2>7 DEF B
<1>15. Cardinality(held \cap was_fuzzed) \in Nat
  <2>1. held \cap was_fuzzed \in SUBSET Entries
    BY <1>3 DEF TypeOK
  <2> HIDE DEF held
  <2> QED BY <2>1, EntriesAreFinite
<1>16. Cardinality(open) - Pending(held) <= Cardinality(Steps) - Cardinality(held)
  <2> HIDE DEF held, open, done
  <2> QED BY <1>7, <1>8, <1>9, <1>11, <1>12, <1>13, <1>14, <1>15
<1>17. Cardinality(open) >= Pending(held)
  <2> HIDE DEF open
  <2> QED BY <1>6 DEF Pending
<1> QED BY <1>3, <1>7, <1>16, <1>17

LEMMA CullKeeps ==
  ASSUME Inv, cull_queue_default
  PROVE  Inv'
<1> DEFINE open == {s \in Steps : top_rated_alarm[s] \notin was_fuzzed \cup {NoEntry}}
           held == Range(top_rated_alarm) \ {NoEntry}
<1>1. /\ bitmap_score_changed => favored' = Winners.favored /\ pending_favored' = Winners.pending
      /\ ~bitmap_score_changed => UNCHANGED <<favored, pending_favored>>
      /\ alarm_score_changed =>
           alarm_favored' = held /\ pending_alarm_favored' = Cardinality(open)
      /\ ~alarm_score_changed => UNCHANGED <<alarm_favored, pending_alarm_favored>>
      /\ bitmap_score_changed' = FALSE /\ alarm_score_changed' = FALSE
      /\ UNCHANGED <<queue, rated, top_rated_alarm, exec_cksum, factor, cal_failed,
                     trim_done, was_fuzzed, pending_not_fuzzed, fuzzing, written_off>>
  BY DEF cull_queue_default
<1>2. TypeOK /\ Rated /\ Calibrations /\ Covered /\ PendingCountsHold
  BY DEF Inv
<1>3. /\ Winners \in Picks
      /\ \A i \in Bits : rated.top[i] # NoEntry =>
           rated.top[i] \in Winners.favored \/ \E q \in Winners.favored : i \in rated.mini[q]
  BY <1>2, WinnersAreCounted DEF Rated
<1>4. /\ Winners.favored \subseteq queue /\ Winners.pending \in Nat
      /\ \A p \in Winners.favored : \E i \in Bits : rated.top[i] = p
      /\ Winners.pending >= Pending(Winners.favored)
      /\ AllAgree => Winners.pending = Pending(Winners.favored)
  BY <1>3 DEF Picks
<1>5. /\ held \subseteq queue /\ Cardinality(open) \in Nat
      /\ Cardinality(open) >= Pending(held)
      /\ Cardinality(open) - Pending(held) <= Cardinality(Steps) - Cardinality(held)
  BY <1>2, StepsOutnumber
<1>6. \A p : p \in held <=> p # NoEntry /\ \E s \in Steps : top_rated_alarm[s] = p
  BY <1>2 DEF Range, TypeOK
<1> HIDE DEF open, held
<1>7. /\ favored' \subseteq queue /\ pending_favored' \in Nat
      /\ pending_favored' >= Pending(favored')
      /\ AllAgree => pending_favored' = Pending(favored')
      /\ \A p \in favored' : p \in favored \/ \E i \in Bits : rated.top[i] = p
  <2>1. CASE bitmap_score_changed
    BY <1>1, <1>4, <2>1
  <2>2. CASE ~bitmap_score_changed
    BY <1>1, <1>2, <2>2 DEF TypeOK, PendingCountsHold, AllAgree
  <2> QED BY <2>1, <2>2
<1>8. /\ alarm_favored' \subseteq queue /\ pending_alarm_favored' \in Nat
      /\ pending_alarm_favored' >= Pending(alarm_favored')
      /\ pending_alarm_favored' - Pending(alarm_favored')
           <= Cardinality(Steps) - Cardinality(alarm_favored')
      /\ \A p \in alarm_favored' : p \in alarm_favored \/ \E s \in Steps : top_rated_alarm[s] = p
  <2>1. CASE alarm_score_changed
    BY <1>1, <1>5, <1>6, <2>1
  <2>2. CASE ~alarm_score_changed
    BY <1>1, <1>2, <2>2 DEF TypeOK, PendingCountsHold
  <2> QED BY <2>1, <2>2
<1>9. TypeOK'
  <2>1. /\ \A S \in {trim_done, was_fuzzed, favored, alarm_favored}' : S \subseteq queue'
        /\ \A n \in {pending_not_fuzzed, pending_favored, pending_alarm_favored}' : n \in Nat
    BY <1>1, <1>2, <1>7, <1>8 DEF TypeOK
  <2> QED BY <1>1, <1>2, <2>1 DEF TypeOK
<1>10. Rated'
  BY <1>1, <1>2 DEF Rated, Counted, Counts, Slots, Traced
<1>11. Calibrations'
  <2>1. \A p \in Entries : (Holds(p) \/ p \in favored \cup alarm_favored)' =>
          Holds(p) \/ p \in favored \cup alarm_favored
    BY <1>1, <1>7, <1>8 DEF Holds
  <2> QED BY <1>1, <1>2, <2>1 DEF Calibrations
<1>12. Covered'
  <2>1. \A i \in Bits : rated.top[i] # NoEntry =>
          rated.top[i] \in favored' \/ \E q \in favored' : i \in rated.mini[q]
    <3>1. CASE bitmap_score_changed
      BY <1>1, <1>3, <3>1
    <3>2. CASE ~bitmap_score_changed
      BY <1>1, <1>2, <3>2 DEF Covered
    <3> QED BY <3>1, <3>2
  <2>2. \A s \in Steps : top_rated_alarm[s] \in alarm_favored' \cup {NoEntry}
    <3>1. CASE alarm_score_changed
      BY <1>1, <1>6, <3>1
    <3>2. CASE ~alarm_score_changed
      BY <1>1, <1>2, <3>2 DEF Covered
    <3> QED BY <3>1, <3>2
  <2> QED BY <1>1, <2>1, <2>2 DEF Covered
<1>13. PendingCountsHold'
  BY <1>1, <1>2, <1>7, <1>8 DEF PendingCountsHold, Pending, AllAgree, Deterministic
<1> QED BY <1>9, <1>10, <1>11, <1>12, <1>13 DEF Inv

LEMMA NextKeeps == Inv /\ [Next]_vars => Inv'
<1> SUFFICES ASSUME Inv, [Next]_vars PROVE Inv'
  OBVIOUS
<1>1. CASE cull_queue_default
  BY <1>1, CullKeeps
<1>2. ASSUME NEW q \in Entries,
             \/ Save(q) \/ SaveThenWriteOff(q) \/ SaveUncalibrated(q)
             \/ Recalibrate(q) \/ RecalibrationFails(q) \/ Abandon(q) \/ Start(q)
             \/ TrimFruitless(q) \/ Trim(q) \/ Finish(q)
      PROVE  Inv' \/ UNCHANGED vars
  <2>1. CASE Save(q) \/ SaveThenWriteOff(q) \/ SaveUncalibrated(q)
    BY <2>1, SaveKeeps, SaveThenWriteOffKeeps, SaveUncalibratedKeeps
  <2>2. CASE Recalibrate(q) \/ RecalibrationFails(q) \/ Start(q)
    BY <2>2, RecalibrateKeeps, RecalibrationFailsKeeps, StartKeeps
  <2>3. CASE Abandon(q)
    BY <2>3 DEF Abandon
  <2>4. CASE TrimFruitless(q) \/ Trim(q) \/ Finish(q)
    BY <2>4, TrimFruitlessKeeps, TrimKeeps, FinishKeeps
  <2> QED BY <1>2, <2>1, <2>2, <2>3, <2>4
<1>3. CASE UNCHANGED vars
  <2>1. UNCHANGED <<queue, rated, top_rated_alarm, bitmap_score_changed, alarm_score_changed,
                    exec_cksum, factor, cal_failed, trim_done, was_fuzzed, favored,
                    alarm_favored, pending_not_fuzzed, pending_favored, pending_alarm_favored,
                    fuzzing, written_off>>
    BY <1>3 DEF vars, scores, flags, counters
  <2>2. TypeOK'
    BY <2>1 DEF Inv, TypeOK
  <2>3. Rated' /\ Covered' /\ \A p \in Entries : Holds(p)' = Holds(p)
    BY <2>1, ScoresStay DEF scores
  <2>4. PendingCountsHold'
    BY <2>1, CountersStay DEF flags, counters
  <2>5. Calibrations'
    BY <2>1, <2>3 DEF Inv, Calibrations
  <2> QED BY <2>2, <2>3, <2>4, <2>5 DEF Inv
<1> QED BY <1>1, <1>2, <1>3 DEF Next

LEMMA InvHolds == Spec => []Inv
<1> QED BY InitHolds, NextKeeps, PTL DEF Spec

---------------------------------------------------------------------------
(* What the scores promise *)

\* Types.
THEOREM ScoreTypes == Spec => []TypeOK
<1>1. Inv => TypeOK
  BY DEF Inv
<1> QED BY <1>1, InvHolds, PTL

\* update_bitmap_score keeps tc_ref equal to the bytes an entry holds, whatever
\* order calibration and trimming rate entries in, and keeps a trace for just
\* those: cull_queue_default never follows a null trace_mini.
THEOREM ReferencesAreCounted == Spec => []RefCounts
<1>1. Inv => RefCounts
  BY DEF Inv, Rated, Counted, Counts, Slots, Traced, RefCounts, Ratings
<1> QED BY <1>1, InvHolds, PTL

\* What cull_queue_default picks stays a cover of every rated byte and step until
\* a slot changes hands, although fuzz_one trims and marks entries meanwhile.
THEOREM FavoredCover == Spec => []FavoredCoverBitmap
<1>1. Inv => FavoredCoverBitmap
  BY DEF Inv, Covered, Rated, FavoredCoverBitmap
<1> QED BY <1>1, InvHolds, PTL

\* The counters fuzz_one counts down, abandoned calls included, never fall behind the
\* flags that cull_queue_default counted them from, so they cannot wrap; and they are
\* exact, or ahead by a bounded number of steps, so they do not stay up either.
THEOREM PendingIsCounted == Spec => []PendingCountsHold
<1>1. Inv => PendingCountsHold
  BY DEF Inv
<1> QED BY <1>1, InvHolds, PTL

\* Whoever holds a slot or is favored was calibrated, and has not failed since:
\* fuzz_one will mark it.  The only other ones are those the dry run scored and wrote
\* off, which are never marked.
THEOREM FavoredAreFuzzable == Spec => []FavoredCanBeFuzzed
<1>1. ASSUME Inv PROVE FavoredCanBeFuzzed
  <2>1. \A p \in Range(rated.top) \cup Range(top_rated_alarm) : p # NoEntry => Holds(p)
    BY <1>1 DEF Inv, TypeOK, Range, Holds
  <2>2. \A p \in Range(rated.top) \cup Range(top_rated_alarm) \cup favored \cup alarm_favored :
          p # NoEntry => p \in Entries
    BY <1>1 DEF Inv, TypeOK, Range
  <2> QED BY <1>1, <2>1, <2>2 DEF Inv, Calibrations, FavoredCanBeFuzzed
<1> QED BY <1>1, InvHolds, PTL
=============================================================================
