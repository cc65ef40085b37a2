-------------------------- MODULE ExploitHeap_proofs --------------------------
(***************************************************************************)
(* The heaps of an exploit queue, for any number of alarms and entries,    *)
(* any capacity, and whatever changes the keys while entries sit in them.  *)
(*                                                                         *)
(* heap_push moves the entries on the line from the new position to the    *)
(* root down by one generation, as far as the new entry rises; heap_pop    *)
(* moves the entries on a way down from the root up, as far as the last    *)
(* entry sinks.  Either way every entry that stays finds a place of its    *)
(* own (Moved), which needs no order, and the order of an ordered heap is  *)
(* kept, which needs no levels: only a position and its parent are         *)
(* compared (Rises, Sinks).                                                *)
(*                                                                         *)
(* That a queue is ranked completely rests on the overlap heap not being   *)
(* longer than the queue, so that the heap has room for a new entry        *)
(* whenever the queue with it fits, and on no other alarm clearing the     *)
(* flag of an entry.                                                       *)
(***************************************************************************)
EXTENDS ExploitHeap, FiniteSetTheorems, WellFoundedInduction, TLAPS

---------------------------------------------------------------------------
(* Least numbers, and loops                                                *)

\* The least member of a non-empty set of numbers is there, and is least.
LEMMA MinIsLeast ==
  ASSUME NEW S \in SUBSET Nat, S # {}
  PROVE  Min(S) \in S /\ \A m \in S : Min(S) <= m
<1>1. PICK m : m \in S
  OBVIOUS
<1>2. IsWellFoundedOn(OpToRel(<, Nat), Nat)
  BY NatLessThanWellFounded
<1>3. PICK k \in S : \A x \in S : ~ (<<x, k>> \in OpToRel(<, Nat))
  BY <1>1, <1>2, WFMin
<1>4. \A x \in S : k <= x
  <2> SUFFICES ASSUME NEW x \in S, x < k PROVE FALSE
    OBVIOUS
  <2>1. <<x, k>> \in OpToRel(<, Nat)
    BY DEF OpToRel
  <2> QED BY <1>3, <2>1
<1> QED BY <1>3, <1>4 DEF Min

\* What holds of a position when it holds of all positions before it.
LEMMA UpTo ==
  ASSUME NEW P, \A p \in Nat \ {0} : (\A o \in 1 .. p - 1 : o \in P) => p \in P
  PROVE  \A p \in Nat \ {0} : p \in P
<1> DEFINE T == {p \in Nat \ {0} : p \notin P}
<1> SUFFICES ASSUME T # {} PROVE FALSE
  OBVIOUS
<1>1. PICK m \in T : \A o \in T : m <= o
  <2>1. T \in SUBSET Nat
    OBVIOUS
  <2> HIDE DEF T
  <2> QED BY <2>1, MinIsLeast
<1>2. \A o \in 1 .. m - 1 : o \in P
  BY <1>1
<1> QED BY <1>1, <1>2

---------------------------------------------------------------------------
(* The line from a position to the root                                    *)

Positions == Nat \ {0}

\* A position below the root is one of its parent's two children.
LEMMA ParentIs ==
  ASSUME NEW p \in Positions, p # 1
  PROVE  Parent(p) \in Positions /\ Parent(p) < p /\ (p = 2 * Parent(p) \/ p = 2 * Parent(p) + 1)
BY DEF Parent, Positions

Closed(S) == \A o \in S : o # 1 => Parent(o) \in S

\* Line is a function: the least closed set with p is what it asks for.
LEMMA LineIs == \A p \in Positions : Line[p] = IF p = 1 THEN {1} ELSE {p} \cup Line[Parent(p)]
<1> DEFINE Body(f) == [p \in Nat \ {0} |-> IF p = 1 THEN {1} ELSE {p} \cup f[Parent(p)]]
           Sets(p) == {S \in SUBSET (1 .. p) : p \in S /\ Closed(S)}
           w == [p \in Nat \ {0} |-> {q \in 1 .. p : \A S \in Sets(p) : q \in S}]
<1>1. \A p \in Positions : w[p] = {q \in 1 .. p : \A S \in Sets(p) : q \in S}
  BY DEF Positions
<1>2. w[1] = {1}
  <2>1. {1} \in Sets(1)
    BY DEF Closed
  <2>2. \A S \in Sets(1) : 1 \in S
    OBVIOUS
  <2>3. 1 \in Positions
    BY DEF Positions
  <2> HIDE DEF Sets, w
  <2> QED BY <1>1, <2>1, <2>2, <2>3
<1>3. ASSUME NEW p \in Positions, p # 1 PROVE w[p] = {p} \cup w[Parent(p)]
  <2> DEFINE q == Parent(p)
  <2>1. q \in Positions /\ q < p
    BY <1>3, ParentIs
  <2>2. {p} \cup w[q] \in Sets(p)
    <3>1. w[q] \in SUBSET (1 .. q) /\ q \in w[q] /\ Closed(w[q])
      <4>1. w[q] = {o \in 1 .. q : \A S \in Sets(q) : o \in S}
        BY <1>1, <2>1
      <4>2. q \in w[q]
        BY <2>1, <4>1 DEF Positions
      <4>3. ASSUME NEW o \in w[q], o # 1 PROVE Parent(o) \in w[q]
        <5>1. o \in 1 .. q /\ \A S \in Sets(q) : o \in S
          BY <4>1
        <5>2. Parent(o) \in 1 .. q
          BY <2>1, <4>3, <5>1, ParentIs DEF Positions
        <5>3. \A S \in Sets(q) : Parent(o) \in S
          BY <4>3, <5>1 DEF Closed
        <5> HIDE DEF Sets, w
        <5> QED BY <4>1, <5>2, <5>3
      <4> HIDE DEF w
      <4> QED BY <4>1, <4>2, <4>3 DEF Closed
    <3> HIDE DEF w
    <3>2. {p} \cup w[q] \in SUBSET (1 .. p)
      BY <2>1, <3>1 DEF Positions
    <3>3. Closed({p} \cup w[q])
      BY <3>1 DEF Closed
    <3> QED BY <3>2, <3>3
  <2>3. w[p] \subseteq {p} \cup w[q]
    <3> HIDE DEF Sets, w, q
    <3> QED BY <1>1, <2>2
  <2>4. ASSUME NEW o \in {p} \cup w[q] PROVE o \in w[p]
    <3>1. p \in 1 .. p /\ p \in Nat
      BY DEF Positions
    <3>2. CASE o = p
      <4>1. \A S \in Sets(p) : p \in S
        OBVIOUS
      <4> HIDE DEF Sets, w
      <4> QED BY <1>1, <3>1, <3>2, <4>1
    <3>3. CASE o \in w[q]
      <4>1. o \in 1 .. q /\ \A S \in Sets(q) : o \in S
        BY <1>1, <2>1, <3>3
      <4>2. ASSUME NEW S \in Sets(p) PROVE o \in S
        <5>1. q \in S
          BY <1>3 DEF Closed
        <5>2. S \cap (1 .. q) \in Sets(q)
          <6>1. Closed(S \cap (1 .. q))
            <7> SUFFICES ASSUME NEW c \in S \cap (1 .. q), c # 1
                         PROVE  Parent(c) \in S \cap (1 .. q)
              BY DEF Closed
            <7>1. Parent(c) \in S
              BY DEF Closed
            <7>2. Parent(c) \in 1 .. q
              BY <2>1, ParentIs DEF Positions
            <7> QED BY <7>1, <7>2
          <6>2. q \in 1 .. q
            BY <2>1 DEF Positions
          <6> QED BY <5>1, <6>1, <6>2
        <5> QED BY <4>1, <5>2
      <4>3. o \in 1 .. p
        <5>1. o \in 1 .. q
          BY <4>1
        <5> HIDE DEF Sets, w, q
        <5> QED BY <2>1, <3>1, <5>1 DEF Positions
      <4> HIDE DEF Sets, w
      <4> QED BY <1>1, <4>2, <4>3
    <3> QED BY <2>4, <3>2, <3>3
  <2> HIDE DEF Sets, w, q
  <2> QED BY <2>3, <2>4 DEF q
<1>4. w = Body(w)
  <2>1. \A p \in Nat \ {0} : w[p] = IF p = 1 THEN {1} ELSE {p} \cup w[Parent(p)]
    BY <1>2, <1>3 DEF Positions
  <2>2. w = [p \in Nat \ {0} |-> w[p]]
    OBVIOUS
  <2> HIDE DEF w
  <2> QED BY <2>1, <2>2
<1>5. Line = CHOOSE f : f = Body(f)
  BY DEF Line
<1>6. Line = Body(Line)
  <2> HIDE DEF w, Body
  <2> QED BY <1>4, <1>5
<1> QED BY <1>6 DEF Positions

\* The line from a position to the root goes from child to parent without a gap.
LEMMA LineGoesUp ==
  ASSUME NEW p \in Positions
  PROVE  /\ Line[p] \subseteq 1 .. p /\ p \in Line[p] /\ Closed(Line[p])
         /\ \A o \in Line[p] : o # p => \E c \in Line[p] : c # 1 /\ Parent(c) = o
         /\ \A a, b \in Line[p] : a < b => a <= Parent(b)
<1> DEFINE Good(q) == /\ Line[q] \subseteq 1 .. q /\ q \in Line[q] /\ Closed(Line[q])
                      /\ \A o \in Line[q] : o # q => \E c \in Line[q] : c # 1 /\ Parent(c) = o
                      /\ \A a, b \in Line[q] : a < b => a <= Parent(b)
           P == {q \in Positions : Good(q)}
<1>1. ASSUME NEW q \in Nat \ {0}, \A o \in 1 .. q - 1 : o \in P PROVE q \in P
  <2>0. q \in Positions
    BY DEF Positions
  <2>1. CASE q = 1
    <3>1. Line[1] = {1}
      BY <2>0, <2>1, LineIs
    <3> QED BY <2>0, <2>1, <3>1 DEF Closed
  <2>2. CASE q # 1
    <3>1. Parent(q) \in Positions /\ Parent(q) < q
      BY <2>0, <2>2, ParentIs
    <3>2. PICK r \in Positions : r = Parent(q) /\ r < q
      BY <3>1
    <3>3. Good(r)
      BY <1>1, <3>2 DEF Positions
    <3>4. Line[q] = {q} \cup Line[r]
      BY <2>0, <2>2, <3>2, LineIs
    <3>5. Line[q] \subseteq 1 .. q /\ q \in Line[q] /\ Closed(Line[q])
      BY <3>2, <3>3, <3>4 DEF Closed, Positions
    <3>6. \A o \in Line[q] : o # q => \E c \in Line[q] : c # 1 /\ Parent(c) = o
      BY <2>2, <3>2, <3>3, <3>4
    <3>7. ASSUME NEW a \in Line[q], NEW b \in Line[q], a < b PROVE a <= Parent(b)
      <4>1. a \in Line[r]
        BY <3>4, <3>5, <3>7
      <4>2. CASE b = q
        BY <3>2, <3>3, <4>1, <4>2
      <4>3. CASE b \in Line[r]
        BY <3>3, <3>7, <4>1, <4>3
      <4> QED BY <3>4, <4>2, <4>3
    <3> QED BY <2>0, <3>5, <3>6, <3>7
  <2> QED BY <2>1, <2>2
<1>2. p \in P
  <2> HIDE DEF P
  <2> QED BY <1>1, UpTo DEF Positions
<1> QED BY <1>2

---------------------------------------------------------------------------
(* Counting entries                                                        *)

Places(h, e) == {p \in 1 .. Len(h) : h[p] = e}

\* Count counts the places of an entry.
LEMMA PlacesAreFinite ==
  ASSUME NEW h, Len(h) \in Nat, NEW e
  PROVE  IsFiniteSet(Places(h, e)) /\ Count(h, e) = Cardinality(Places(h, e)) /\ Count(h, e) \in Nat
<1>1. Places(h, e) \in SUBSET (1 .. Len(h))
  BY DEF Places
<1>2. IsFiniteSet(1 .. Len(h))
  BY FS_Interval
<1>3. IsFiniteSet(Places(h, e))
  BY <1>1, <1>2, FS_Subset
<1>4. Count(h, e) = Cardinality(Places(h, e))
  BY DEF Count, Places
<1> QED BY <1>3, <1>4, FS_CardinalityType

\* Entries that all find a place of their own are at least as many.
LEMMA Moved ==
  ASSUME NEW S, NEW r, Len(r) \in Nat, NEW e, NEW g,
         \A p \in S : g[p] \in Places(r, e),
         \A p, o \in S : g[p] = g[o] => p = o
  PROVE  IsFiniteSet(S) /\ Cardinality(S) <= Count(r, e)
<1> DEFINE f == [p \in S |-> g[p]]
<1>1. f \in Injection(S, Places(r, e))
  BY DEF Injection, IsInjective
<1>2. IsFiniteSet(Places(r, e)) /\ Count(r, e) = Cardinality(Places(r, e))
  BY PlacesAreFinite
<1> HIDE DEF f
<1> QED BY <1>1, <1>2, FS_Injection

---------------------------------------------------------------------------
(* heap_push                                                               *)

\* Both heaps rank a smaller key higher.
LEMMA HigherIs ==
  ASSUME NEW a \in Nat, NEW b \in Nat, NEW mode \in {0, 1}
  PROVE  is_higher(a, b, mode) <=> a < b
BY DEF is_higher, distance_cmp, overlap_cmp

\* The order the comparators make, with the keys compared as numbers.
IsHeap(h, key) == \A p \in 2 .. Len(h) : key[h[Parent(p)]] <= key[h[p]]

LEMMA HeapOrderIs ==
  ASSUME NEW h \in Seq(Entries), NEW key \in [Entries -> Nat], NEW mode \in {0, 1}, IsHeap(h, key)
  PROVE  NoneOutranks(h, key, mode)
<1> SUFFICES ASSUME NEW p \in 2 .. Len(h)
             PROVE  ~is_higher(key[h[p]], key[h[Parent(p)]], mode)
  BY DEF NoneOutranks
<1>1. Parent(p) \in 1 .. Len(h)
  BY DEF Parent
<1>2. PICK a \in Nat, b \in Nat : a = key[h[p]] /\ b = key[h[Parent(p)]]
  BY <1>1
<1>3. b <= a
  BY <1>2 DEF IsHeap
<1> QED BY <1>2, <1>3, HigherIs

Way(n, Stop) == {p \in Line[n] : \A o \in Line[n] : o > p => o \notin Stop}

\* The way up from n ends at the first position that stops, or at the root.
LEMMA Climb ==
  ASSUME NEW n \in Positions, NEW Stop, NEW P, P = Way(n, Stop)
  PROVE  /\ P \subseteq 1 .. n /\ n \in P /\ Min(P) \in P
         /\ \A o \in P : o # Min(P) => o # 1 /\ Parent(o) \in P /\ o \notin Stop
         /\ Min(P) # 1 => Min(P) \in Stop /\ Parent(Min(P)) \notin P
         /\ \A o \in P : o # n => \E c \in P : c # Min(P) /\ Parent(c) = o
<1> USE DEF Way
<1>1. /\ Line[n] \subseteq 1 .. n /\ n \in Line[n] /\ Closed(Line[n])
      /\ \A o \in Line[n] : o # n => \E c \in Line[n] : c # 1 /\ Parent(c) = o
      /\ \A a, b \in Line[n] : a < b => a <= Parent(b)
  BY LineGoesUp
<1>2. P \subseteq 1 .. n /\ n \in P
  <2>1. \A o \in Line[n] : ~(o > n)
    BY <1>1 DEF Positions
  <2> QED BY <1>1, <2>1
<1>3. PICK s \in P : s = Min(P) /\ \A m \in P : s <= m
  <2>1. P \in SUBSET Nat /\ P # {}
    BY <1>2
  <2> QED BY <2>1, MinIsLeast
<1>4. \A o \in Line[n] : o \in Positions /\ (o # 1 => Parent(o) \in Line[n] /\ Parent(o) \in Positions /\ Parent(o) < o)
  BY <1>1, ParentIs DEF Closed, Positions
<1>5. ASSUME NEW o \in P, o # s PROVE o # 1 /\ Parent(o) \in P /\ o \notin Stop
  <2>1. s < o /\ o # 1 /\ s \in Line[n] /\ o \in Line[n]
    BY <1>2, <1>3, <1>5
  <2>2. o \notin Stop
    BY <2>1
  <2>3. Parent(o) \in Line[n] /\ s <= Parent(o) /\ Parent(o) \in Positions
    BY <1>1, <1>4, <2>1
  <2>4. ASSUME NEW c \in Line[n], c > Parent(o) PROVE c \notin Stop
    <3>1. c > s
      BY <1>2, <1>4, <2>3, <2>4 DEF Positions
    <3> QED BY <3>1
  <2> QED BY <2>1, <2>2, <2>3, <2>4
<1>6. s # 1 => s \in Stop /\ Parent(s) \notin P
  <2> SUFFICES ASSUME s # 1 PROVE s \in Stop /\ Parent(s) \notin P
    OBVIOUS
  <2>1. s \in Line[n] /\ Parent(s) \in Line[n] /\ Parent(s) \in Positions /\ Parent(s) < s /\ s \in Positions
    BY <1>4
  <2>2. Parent(s) \notin P
    BY <1>3, <2>1 DEF Positions
  <2>3. PICK o \in Line[n] : o > Parent(s) /\ o \in Stop
    BY <2>1, <2>2
  <2>4. ~(o > s)
    BY <2>3
  <2>5. ~(o < s)
    BY <1>1, <1>4, <2>1, <2>3 DEF Positions
  <2> QED BY <1>4, <2>1, <2>2, <2>3, <2>4, <2>5 DEF Positions
<1>7. ASSUME NEW o \in P, o # n PROVE \E c \in P : c # s /\ Parent(c) = o
  <2>1. PICK c \in Line[n] : c # 1 /\ Parent(c) = o
    BY <1>1, <1>7
  <2>2. o < c /\ c \in Nat /\ o \in Nat
    BY <1>4, <2>1 DEF Positions
  <2>3. \A b \in Line[n] : b > c => b > o
    BY <1>4, <2>2 DEF Positions
  <2>4. c \in P
    BY <2>3
  <2>5. c # s
    BY <1>3, <2>2
  <2> QED BY <2>1, <2>4, <2>5
<1> QED BY <1>2, <1>3, <1>5, <1>6, <1>7

\* What sifting x up does to a heap h with r as its result.
Risen(h, x, key, r) ==
  /\ r \in Seq(Entries) /\ Len(r) = Len(h) + 1 /\ Range(r) = Range(h) \cup {x}
  /\ \A e : Count(r, e) >= Count(h, e)
  /\ IsHeap(h, key) => IsHeap(r, key)

\* Wherever an entry rises to, the others stay, and the order of a heap is kept.
LEMMA Rises ==
  ASSUME NEW h \in Seq(Entries), NEW x \in Entries, NEW key \in [Entries -> Nat], NEW mode \in {0, 1},
         NEW r, r = SiftUp(h, x, key, mode)
  PROVE  Risen(h, x, key, r)
<1>1. PICK n \in Positions : n = Len(h) + 1
  BY DEF Positions
<1>2. PICK Stop : Stop = {o \in Line[n] : is_higher(key[h[Parent(o)]], key[x], mode)}
  OBVIOUS
<1>3. PICK P : P = Way(n, Stop)
  OBVIOUS
<1>4. PICK s : s = Min(P)
  OBVIOUS
<1>5. r = [p \in 1 .. n |-> IF p = s THEN x ELSE IF p \in P THEN h[Parent(p)] ELSE h[p]]
  <2>1. P = {p \in Line[n] : \A o \in Line[n] : o > p => ~is_higher(key[h[Parent(o)]], key[x], mode)}
    BY <1>2, <1>3 DEF Way
  <2> QED BY <1>1, <1>4, <2>1 DEF SiftUp
<1>6. /\ P \subseteq 1 .. n /\ n \in P /\ s \in P
      /\ \A o \in P : o # s => o # 1 /\ Parent(o) \in P /\ o \notin Stop
      /\ s # 1 => s \in Stop /\ Parent(s) \notin P
      /\ \A o \in P : o # n => \E c \in P : c # s /\ Parent(c) = o
  <2>1. /\ P \subseteq 1 .. n /\ n \in P /\ Min(P) \in P
        /\ \A o \in P : o # Min(P) => o # 1 /\ Parent(o) \in P /\ o \notin Stop
        /\ Min(P) # 1 => Min(P) \in Stop /\ Parent(Min(P)) \notin P
        /\ \A o \in P : o # n => \E c \in P : c # Min(P) /\ Parent(c) = o
    <3>1. n \in Positions
      BY <1>1
    <3> QED BY ONLY <1>3, <3>1, Climb
  <2> QED BY <1>4, <2>1
<1>7. \A p \in 2 .. n : Parent(p) \in 1 .. n - 1 /\ Parent(p) < p
  BY ParentIs DEF Positions
<1>8. n \in Nat /\ Len(h) = n - 1 /\ \A p \in 1 .. n - 1 : h[p] \in Entries /\ key[h[p]] \in Nat
  BY <1>1 DEF Positions
<1>9. \A p \in P : p # s => p \in 2 .. n
  BY <1>6
<1>10. /\ r[s] = x /\ s \in 1 .. n
       /\ \A p \in P : p # s => r[p] = h[Parent(p)]
       /\ \A p \in 1 .. n : p \notin P => r[p] = h[p] /\ p \in 1 .. n - 1
  BY <1>5, <1>6, <1>8
<1>11. r \in Seq(Entries) /\ Len(r) = n
  <2>1. \A p \in 1 .. n : r[p] \in Entries
    BY <1>7, <1>8, <1>9, <1>10
  <2>2. r \in [1 .. n -> Entries]
    BY <1>5, <2>1
  <2> QED BY <1>8, <2>2
<1>12. PICK g \in [1 .. n - 1 -> 1 .. n] :
         \A p \in 1 .. n - 1 : IF p \in P THEN g[p] \in P /\ g[p] # s /\ Parent(g[p]) = p ELSE g[p] = p
  <2> DEFINE f == [p \in 1 .. n - 1 |-> IF p \in P THEN CHOOSE c \in P : c # s /\ Parent(c) = p ELSE p]
  <2>1. \A p \in 1 .. n - 1 : p \in P => \E c \in P : c # s /\ Parent(c) = p
    BY <1>6, <1>8
  <2>2. \A p \in 1 .. n - 1 : p \in P => f[p] \in P /\ f[p] # s /\ Parent(f[p]) = p
    BY <2>1
  <2>3. \A p \in 1 .. n - 1 : p \notin P => f[p] = p
    OBVIOUS
  <2>4. \A p \in 1 .. n - 1 : f[p] \in 1 .. n
    <3>1. 1 .. n - 1 \subseteq 1 .. n
      BY <1>8
    <3> HIDE DEF f
    <3> QED BY <1>6, <2>2, <2>3, <3>1
  <2>5. f \in [1 .. n - 1 -> 1 .. n]
    BY <2>4
  <2> HIDE DEF f
  <2> QED BY <2>2, <2>3, <2>5
<1>13. ASSUME NEW p \in 1 .. n - 1 PROVE r[g[p]] = h[p] /\ g[p] \in 1 .. n
  <2>1. g[p] \in 1 .. n
    OBVIOUS
  <2>2. CASE p \in P
    BY <1>10, <1>12, <2>1, <2>2
  <2>3. CASE p \notin P
    <3>1. g[p] = p
      BY <1>12, <2>3
    <3> QED BY <1>10, <2>1, <2>3, <3>1
  <2> QED BY <2>2, <2>3
<1>14. ASSUME NEW p \in 1 .. n - 1, NEW o \in 1 .. n - 1, g[p] = g[o] PROVE p = o
  <2>1. CASE p \in P /\ o \in P
    BY <1>12, <1>14, <2>1
  <2>2. CASE p \notin P \/ o \notin P
    BY <1>12, <1>14, <2>2
  <2> QED BY <2>1, <2>2
<1>15. Range(r) = Range(h) \cup {x}
  <2>1. DOMAIN r = 1 .. n /\ DOMAIN h = 1 .. n - 1
    BY <1>5, <1>8
  <2>2. \A p \in 1 .. n : r[p] = x \/ \E o \in 1 .. n - 1 : r[p] = h[o]
    BY <1>7, <1>9, <1>10
  <2>3. Range(r) = {r[p] : p \in 1 .. n} /\ Range(h) = {h[p] : p \in 1 .. n - 1}
    BY <2>1 DEF Range
  <2>4. Range(r) \subseteq Range(h) \cup {x}
    BY <2>2, <2>3
  <2>5. x \in Range(r)
    BY <1>10, <2>3
  <2>6. ASSUME NEW p \in 1 .. n - 1 PROVE h[p] \in Range(r)
    BY <1>13, <2>3
  <2> QED BY <2>3, <2>4, <2>5, <2>6
<1>16. ASSUME NEW e PROVE Count(r, e) >= Count(h, e)
  <2>1. Count(h, e) = Cardinality(Places(h, e)) /\ Count(h, e) \in Nat /\ Count(r, e) \in Nat
    <3>1. Len(h) \in Nat /\ Len(r) \in Nat
      BY <1>8, <1>11
    <3> QED BY <3>1, PlacesAreFinite
  <2>2. \A p \in Places(h, e) : p \in 1 .. n - 1 /\ g[p] \in Places(r, e)
    BY <1>8, <1>11, <1>13 DEF Places
  <2>3. Len(r) \in Nat /\ \A p, o \in Places(h, e) : g[p] = g[o] => p = o
    BY <1>8, <1>11, <1>14, <2>2
  <2>4. Cardinality(Places(h, e)) <= Count(r, e)
    BY <2>2, <2>3, Moved
  <2> QED BY <2>1, <2>4
<1>17. ASSUME IsHeap(h, key), NEW p \in 2 .. n PROVE key[r[Parent(p)]] <= key[r[p]]
  <2>0. /\ \A o \in 2 .. n - 1 : key[h[Parent(o)]] <= key[h[o]]
        /\ key[x] \in Nat
    BY <1>8, <1>17 DEF IsHeap
  <2>1. PICK q \in 1 .. n - 1 : q = Parent(p) /\ q < p
    BY <1>7
  <2>2. ASSUME NEW o \in P, o # s
        PROVE  key[x] <= key[h[Parent(o)]] /\ Parent(o) \in 1 .. n - 1
    <3>1. o \in Line[n] /\ o \notin Stop /\ o \in 2 .. n
      BY <1>3, <1>6, <1>9, <2>2 DEF Way
    <3>2. Parent(o) \in 1 .. n - 1
      BY <1>7, <3>1
    <3>3. ~is_higher(key[h[Parent(o)]], key[x], mode)
      BY <1>2, <3>1
    <3>4. PICK a \in Nat : a = key[h[Parent(o)]]
      BY <1>8, <3>2
    <3>5. PICK b \in Nat : b = key[x]
      BY <2>0
    <3>6. ~(a < b)
      <4>1. ~is_higher(a, b, mode)
        BY <3>3, <3>4, <3>5
      <4> QED BY <4>1, HigherIs
    <3>7. b <= a
      BY <3>6
    <3> QED BY <3>2, <3>4, <3>5, <3>7
  <2>3. CASE p \in P /\ p # s
    <3>1. r[p] = h[q] /\ q \in P
      BY <1>6, <1>10, <2>1, <2>3
    <3>2. CASE q = s
      BY <1>10, <2>1, <2>2, <2>3, <3>1, <3>2
    <3>3. CASE q # s
      <4>1. q \in 2 .. n - 1 /\ r[q] = h[Parent(q)]
        BY <1>9, <1>10, <3>1, <3>3
      <4> QED BY <2>0, <2>1, <3>1, <4>1
    <3> QED BY <3>2, <3>3
  <2>4. CASE p = s
    <3>1. s \in Stop /\ q \notin P /\ s # 1
      BY <1>6, <2>1, <2>4
    <3>2. is_higher(key[h[q]], key[x], mode)
      BY <1>2, <2>1, <2>4, <3>1
    <3>3. PICK a \in Nat : a = key[h[q]]
      BY <1>8
    <3>4. PICK b \in Nat : b = key[x]
      BY <2>0
    <3>5. a < b
      <4>1. is_higher(a, b, mode)
        BY <3>2, <3>3, <3>4
      <4> QED BY <4>1, HigherIs
    <3>6. a <= b
      BY <3>5
    <3>7. r[q] = h[q] /\ r[p] = x
      <4>1. q \in 1 .. n /\ p \in 1 .. n
        BY <1>8, <2>1
      <4>2. r[q] = h[q]
        BY <1>10, <3>1, <4>1
      <4>3. r[p] = x
        BY <1>10, <2>4, <4>1
      <4> QED BY <4>2, <4>3
    <3> QED BY <2>1, <3>3, <3>4, <3>6, <3>7
  <2>5. CASE p \notin P
    <3>1. r[p] = h[p] /\ p \in 2 .. n - 1 /\ key[h[q]] <= key[h[p]]
      <4>1. p \in 2 .. n - 1 /\ r[p] = h[p]
        <5>1. p # n
          BY <1>6, <2>5
        <5>2. p \in 1 .. n /\ p \in 2 .. n - 1
          BY <1>8, <5>1
        <5> QED BY <1>10, <2>5, <5>2
      <4>2. key[h[Parent(p)]] <= key[h[p]]
        BY <2>0, <4>1
      <4> QED BY <2>1, <4>1, <4>2
    <3>2. CASE q \notin P
      <4>1. q \in 1 .. n
        BY <1>8, <2>1
      <4>2. r[q] = h[q]
        BY <1>10, <3>2, <4>1
      <4> QED BY <2>1, <3>1, <4>2
    <3>3. CASE q = s
      <4>1. PICK c \in P : c # s /\ Parent(c) = q
        BY <1>6, <1>8, <2>1, <3>3
      <4>2. key[x] <= key[h[q]]
        BY <2>2, <4>1
      <4>3. r[q] = x /\ key[h[q]] \in Nat /\ key[h[p]] \in Nat
        BY <1>8, <1>10, <3>1, <3>3
      <4> QED BY <2>0, <2>1, <3>1, <4>2, <4>3
    <3>4. CASE q \in P /\ q # s
      <4>1. q \in 2 .. n - 1 /\ r[q] = h[Parent(q)] /\ Parent(q) \in 1 .. n - 1
        BY <1>7, <1>9, <1>10, <3>4
      <4>2. key[h[Parent(q)]] <= key[h[q]]
        BY <2>0, <4>1
      <4>3. key[h[Parent(q)]] \in Nat /\ key[h[q]] \in Nat /\ key[h[p]] \in Nat
        <5>1. p \in 1 .. n - 1 /\ q \in 1 .. n - 1 /\ Parent(q) \in 1 .. n - 1
          BY <1>8, <3>1, <4>1
        <5> QED BY <1>8, <5>1
      <4>4. key[r[Parent(p)]] = key[h[Parent(q)]] /\ key[r[p]] = key[h[p]]
        BY <2>1, <3>1, <4>1
      <4>5. key[h[Parent(q)]] <= key[h[p]]
        BY <3>1, <4>2, <4>3
      <4> QED BY <4>4, <4>5
    <3> QED BY <3>2, <3>3, <3>4
  <2> QED BY <2>3, <2>4, <2>5
<1>18. IsHeap(h, key) => IsHeap(r, key)
  BY <1>11, <1>17 DEF IsHeap
<1> QED BY <1>1, <1>11, <1>15, <1>16, <1>18 DEF Risen

---------------------------------------------------------------------------
(* heap_pop                                                                *)

Children(p) == {2 * p, 2 * p + 1}

ToAChild(n, nx) == \A p \in 1 .. n : nx[p] = p \/ nx[p] \in Children(p)

Trail(n, nx) == {p \in 1 .. n : \A o \in Line[p] \ {1} : nx[Parent(o)] = o}

WayDown(n, nx, P) ==
  /\ P \subseteq 1 .. n /\ 1 \in P
  /\ \A p \in P : p # 1 => Parent(p) \in P /\ nx[Parent(p)] = p
  /\ \A p \in P : nx[p] # p => nx[p] \in P /\ nx[p] # 1 /\ Parent(nx[p]) = p
  /\ \E e \in P : nx[e] = e

\* The way down from the root, one child after the other, to where none is taken.
LEMMA Descend ==
  ASSUME NEW n \in Positions, NEW nx \in [1 .. n -> 1 .. n], NEW P, P = Trail(n, nx),
         ToAChild(n, nx)
  PROVE  WayDown(n, nx, P)
<1>1. P = {p \in 1 .. n : \A o \in Line[p] \ {1} : nx[Parent(o)] = o}
  BY DEF Trail
<1>2. \A p \in 1 .. n : p \in Positions
  BY DEF Positions
<1>3. 1 \in P
  <2>1. 1 \in Positions /\ 1 \in 1 .. n
    BY DEF Positions
  <2>2. Line[1] = {1}
    BY <2>1, LineIs
  <2> QED BY <1>1, <2>1, <2>2
<1>4. ASSUME NEW p \in 1 .. n, p # 1 PROVE Line[p] = {p} \cup Line[Parent(p)] /\ Parent(p) \in 1 .. n
  <2>1. p \in Positions
    BY <1>2
  <2>2. Line[p] = {p} \cup Line[Parent(p)]
    BY <1>4, <2>1, LineIs
  <2>3. Parent(p) \in Positions /\ Parent(p) < p
    BY <1>4, <2>1, ParentIs
  <2> QED BY <2>1, <2>2, <2>3 DEF Positions
<1>5. \A p \in 1 .. n : p \in Line[p]
  BY <1>2, LineGoesUp
<1>6. ASSUME NEW p \in P, p # 1 PROVE Parent(p) \in P /\ nx[Parent(p)] = p
  BY <1>1, <1>4, <1>5, <1>6
<1>7. ASSUME NEW p \in P, nx[p] # p PROVE nx[p] \in P /\ nx[p] # 1 /\ Parent(nx[p]) = p
  <2>1. PICK c \in 1 .. n : c = nx[p] /\ c \in {2 * p, 2 * p + 1} /\ p \in 1 .. n
    BY <1>1, <1>7 DEF ToAChild, Children
  <2>2. c # 1 /\ Parent(c) = p
    BY <2>1 DEF Parent
  <2>3. Line[c] = {c} \cup Line[p]
    BY <1>4, <2>2
  <2>4. c \in P
    BY <1>1, <2>1, <2>2, <2>3
  <2> QED BY <2>1, <2>2, <2>4
<1>8. PICK e \in P : \A p \in P : p <= e
  <2> DEFINE Rest == {n - p : p \in P}
  <2>1. Rest \in SUBSET Nat /\ Rest # {}
    BY <1>1, <1>3 DEF Positions
  <2>2. PICK m \in Rest : \A o \in Rest : m <= o
    <3> HIDE DEF Rest
    <3> QED BY <2>1, MinIsLeast
  <2>3. PICK e \in P : m = n - e
    BY <2>2
  <2>4. ASSUME NEW p \in P PROVE p <= e
    <3>1. n - p \in Rest
      OBVIOUS
    <3>2. n - e <= n - p
      BY <2>2, <2>3, <3>1
    <3>3. p \in Nat /\ e \in Nat /\ n \in Nat
      BY <1>1 DEF Positions
    <3> QED BY ONLY <3>2, <3>3, SMT
  <2> QED BY <2>4
<1>9. nx[e] = e
  <2> SUFFICES ASSUME nx[e] # e PROVE FALSE
    OBVIOUS
  <2>1. nx[e] \in P /\ nx[e] \in {2 * e, 2 * e + 1} /\ e \in 1 .. n
    BY <1>1, <1>7 DEF ToAChild, Children
  <2>2. nx[e] <= e
    BY <1>8, <2>1
  <2> QED BY <2>1, <2>2
<1>10. P \subseteq 1 .. n
  BY <1>1
<1> QED BY <1>3, <1>6, <1>7, <1>8, <1>9, <1>10 DEF WayDown

\* What heap_pop does to a heap h with r as its result.
Sunk(h, key, r) ==
  /\ r \in Seq(Entries) /\ Len(r) = Len(h) - 1
  /\ Range(r) \subseteq Range(h) /\ Range(h) \ {h[1]} \subseteq Range(r)
  /\ \A e : Count(r, e) >= Count(h, e) - IF h[1] = e THEN 1 ELSE 0
  /\ IsHeap(h, key) => IsHeap(r, key)

\* However far the last entry sinks, only the first is lost, and the order of a
\* heap is kept.
LEMMA Sinks ==
  ASSUME NEW h \in Seq(Entries), h # <<>>, NEW key \in [Entries -> Nat], NEW mode \in {0, 1},
         NEW r, r = SiftDown(h, key, mode)
  PROVE  Sunk(h, key, r)
<1>1. PICK n \in Nat : n = Len(h) - 1
  OBVIOUS
<1>2. PICK x \in Entries : x = h[n + 1]
  BY <1>1
<1>3. Len(h) = n + 1 /\ key[x] \in Nat /\ \A p \in 1 .. n + 1 : h[p] \in Entries /\ key[h[p]] \in Nat
  BY <1>1, <1>2
<1> DEFINE sinks(c) == c <= n /\ ~is_higher(key[x], key[h[c]], mode)
           next(p) == LET l == 2 * p
                          q == 2 * p + 1
                      IN IF sinks(l) /\ sinks(q)
                           THEN IF is_higher(key[h[l]], key[h[q]], mode) THEN l ELSE q
                         ELSE IF sinks(l) THEN l
                         ELSE IF sinks(q) THEN q
                         ELSE p
<1>4. \A c \in Nat \ {0} : sinks(c) <=> c <= n /\ key[h[c]] <= key[x]
  <2> SUFFICES ASSUME NEW c \in Nat \ {0}, c <= n PROVE is_higher(key[x], key[h[c]], mode) <=> ~(key[h[c]] <= key[x])
    OBVIOUS
  <2>1. key[h[c]] \in Nat
    BY <1>3
  <2> QED BY <1>3, <2>1, HigherIs
<1>5. ASSUME NEW p \in 1 .. n
      PROVE  /\ (next(p) = p \/ next(p) \in Children(p)) /\ next(p) \in 1 .. n
             /\ next(p) = p => \A c \in Children(p) : c <= n => key[x] < key[h[c]]
             /\ next(p) # p => /\ key[h[next(p)]] <= key[x]
                               /\ \A c \in Children(p) : c <= n => key[h[next(p)]] <= key[h[c]]
  <2>1. PICK l \in Nat \ {0} : l = 2 * p
    OBVIOUS
  <2>2. PICK q \in Nat \ {0} : q = 2 * p + 1
    OBVIOUS
  <2>3. sinks(l) <=> l <= n /\ key[h[l]] <= key[x]
    BY <1>4
  <2>4. sinks(q) <=> q <= n /\ key[h[q]] <= key[x]
    BY <1>4
  <2>5. l <= n => key[h[l]] \in Nat
    BY <1>3
  <2>6. q <= n => key[h[q]] \in Nat
    BY <1>3
  <2>7. l <= n /\ q <= n => (is_higher(key[h[l]], key[h[q]], mode) <=> key[h[l]] < key[h[q]])
    BY <2>5, <2>6, HigherIs
  <2>8. PICK c : c = next(p)
    OBVIOUS
  <2>9. c = IF sinks(l) /\ sinks(q)
              THEN IF is_higher(key[h[l]], key[h[q]], mode) THEN l ELSE q
            ELSE IF sinks(l) THEN l
            ELSE IF sinks(q) THEN q
            ELSE p
    BY <2>1, <2>2, <2>8
  <2> HIDE DEF sinks, next
  <2>0. Children(p) = {l, q} /\ l # p /\ q # p
    BY <2>1, <2>2 DEF Children
  <2>10. CASE sinks(l) /\ sinks(q)
    <3>1. l <= n /\ q <= n /\ key[h[l]] <= key[x] /\ key[h[q]] <= key[x]
          /\ key[h[l]] \in Nat /\ key[h[q]] \in Nat
      BY <2>3, <2>4, <2>5, <2>6, <2>10
    <3>2. c = IF key[h[l]] < key[h[q]] THEN l ELSE q
      BY <2>7, <2>9, <2>10, <3>1
    <3>3. c \in {l, q} /\ c \in 1 .. n /\ key[h[c]] <= key[x]
          /\ key[h[c]] <= key[h[l]] /\ key[h[c]] <= key[h[q]]
      BY <2>1, <2>2, <3>1, <3>2
    <3> QED BY <2>0, <2>8, <3>3
  <2>11. CASE sinks(l) /\ ~sinks(q)
    <3>1. c = l /\ l <= n /\ key[h[l]] <= key[x] /\ key[h[l]] \in Nat
          /\ (q <= n => key[x] < key[h[q]] /\ key[h[q]] \in Nat)
      BY <1>3, <2>3, <2>4, <2>5, <2>6, <2>9, <2>11
    <3>2. c # p /\ c \in 1 .. n /\ key[h[c]] <= key[x]
          /\ \A o \in {l, q} : o <= n => key[h[c]] <= key[h[o]]
      BY <1>3, <2>0, <3>1
    <3> QED BY <2>0, <2>8, <3>1, <3>2
  <2>12. CASE ~sinks(l) /\ sinks(q)
    <3>1. c = q /\ q <= n /\ key[h[q]] <= key[x] /\ key[h[q]] \in Nat
          /\ (l <= n => key[x] < key[h[l]] /\ key[h[l]] \in Nat)
      BY <1>3, <2>3, <2>4, <2>5, <2>6, <2>9, <2>12
    <3>2. c # p /\ c \in 1 .. n /\ key[h[c]] <= key[x]
          /\ \A o \in {l, q} : o <= n => key[h[c]] <= key[h[o]]
      BY <1>3, <2>0, <3>1
    <3> QED BY <2>0, <2>8, <3>1, <3>2
  <2>13. CASE ~sinks(l) /\ ~sinks(q)
    <3>1. c = p /\ (l <= n => key[x] < key[h[l]]) /\ (q <= n => key[x] < key[h[q]])
      BY <1>3, <2>3, <2>4, <2>5, <2>6, <2>9, <2>13
    <3> QED BY <2>0, <2>8, <3>1
  <2> QED BY <2>10, <2>11, <2>12, <2>13
<1>6. PICK nx \in [1 .. n -> 1 .. n] : \A p \in 1 .. n : nx[p] = next(p)
  <2> DEFINE f == [p \in 1 .. n |-> next(p)]
  <2>1. f \in [1 .. n -> 1 .. n] /\ \A p \in 1 .. n : f[p] = next(p)
    <3> HIDE DEF next
    <3> QED BY <1>5
  <2> HIDE DEF f, next
  <2> QED BY <2>1
<1>7. PICK P : P = Trail(n, nx)
  OBVIOUS
<1>8. r = [p \in 1 .. n |-> IF p \notin P THEN h[p] ELSE IF next(p) = p THEN x ELSE h[next(p)]]
  <2>1. P = {p \in 1 .. n : \A o \in Line[p] \ {1} : next(Parent(o)) = o}
    <3>1. ASSUME NEW p \in 1 .. n, NEW o \in Line[p] \ {1}
          PROVE  nx[Parent(o)] = next(Parent(o))
      <4>1. o \in 1 .. p
        BY LineGoesUp DEF Positions
      <4>2. o \in Positions /\ o # 1
        BY <4>1 DEF Positions
      <4>3. Parent(o) \in Positions /\ Parent(o) < o
        BY <4>2, ParentIs
      <4>4. Parent(o) \in 1 .. n
        <5>1. PICK c \in Nat : c = Parent(o) /\ c # 0 /\ c < o
          BY <4>3 DEF Positions
        <5>2. o \in 1 .. p /\ p \in 1 .. n /\ c \in Nat /\ n \in Nat /\ c # 0 /\ c < o
          BY <4>1, <5>1
        <5>3. c \in 1 .. n
          BY ONLY <5>2
        <5> QED BY <5>1, <5>3
      <4> HIDE DEF next
      <4> QED BY <1>6, <4>4
    <3> HIDE DEF next
    <3> QED BY <1>7, <3>1 DEF Trail
  <2> QED BY <1>1, <1>2, <2>1 DEF SiftDown
<1>9. ASSUME NEW p \in 1 .. n
      PROVE  /\ (nx[p] = p \/ nx[p] \in Children(p)) /\ nx[p] \in 1 .. n
             /\ nx[p] = p => \A c \in Children(p) : c <= n => key[x] < key[h[c]]
             /\ nx[p] # p => /\ key[h[nx[p]]] <= key[x]
                             /\ \A c \in Children(p) : c <= n => key[h[nx[p]]] <= key[h[c]]
             /\ r[p] = IF p \notin P THEN h[p] ELSE IF nx[p] = p THEN x ELSE h[nx[p]]
  <2>1. nx[p] = next(p)
    BY <1>6
  <2> HIDE DEF next, sinks
  <2>2. r[p] = IF p \notin P THEN h[p] ELSE IF nx[p] = p THEN x ELSE h[nx[p]]
    BY <1>8, <2>1
  <2>3. /\ (nx[p] = p \/ nx[p] \in Children(p)) /\ nx[p] \in 1 .. n
        /\ nx[p] = p => \A c \in Children(p) : c <= n => key[x] < key[h[c]]
        /\ nx[p] # p => /\ key[h[nx[p]]] <= key[x]
                        /\ \A c \in Children(p) : c <= n => key[h[nx[p]]] <= key[h[c]]
    BY <1>5, <2>1
  <2> QED BY <2>2, <2>3
<1>10. DOMAIN r = 1 .. n
  <2> HIDE DEF next
  <2> QED BY <1>8
<1> HIDE DEF next, sinks
<1>11. /\ P \subseteq 1 .. n
       /\ \A p \in P : p # 1 => Parent(p) \in P /\ nx[Parent(p)] = p
       /\ \A p \in P : nx[p] # p => nx[p] \in P /\ nx[p] # 1 /\ Parent(nx[p]) = p
       /\ n # 0 => 1 \in P /\ \E e \in P : nx[e] = e
  <2>1. CASE n = 0
    <3>1. P = {}
      BY <1>7, <2>1 DEF Trail
    <3> QED BY <2>1, <3>1
  <2>2. CASE n # 0
    <3>1. n \in Positions
      BY <2>2 DEF Positions
    <3>2. ToAChild(n, nx)
      BY <1>9 DEF ToAChild
    <3>3. WayDown(n, nx, P)
      BY <1>7, <3>1, <3>2, Descend
    <3> QED BY <3>3 DEF WayDown
  <2> QED BY <2>1, <2>2
<1>12. PICK e : n # 0 => e \in P /\ nx[e] = e
  BY <1>11
<1>13. ASSUME NEW p \in 2 .. n
       PROVE  Parent(p) \in 1 .. n - 1 /\ Parent(p) # p /\ p \in Children(Parent(p))
  <2>1. p \in Positions /\ p # 1
    BY DEF Positions
  <2>2. Parent(p) \in Positions /\ Parent(p) < p /\ (p = 2 * Parent(p) \/ p = 2 * Parent(p) + 1)
    BY <2>1, ParentIs
  <2>3. PICK c \in Nat : c = Parent(p) /\ c # 0 /\ c < p /\ (p = 2 * c \/ p = 2 * c + 1)
    BY <2>2 DEF Positions
  <2>4. n \in Nat /\ p \in 2 .. n /\ c \in Nat /\ c # 0 /\ c < p /\ (p = 2 * c \/ p = 2 * c + 1)
    BY <2>3
  <2>5. c \in 1 .. n - 1 /\ c # p /\ p \in Children(c)
    BY ONLY <2>4 DEF Children
  <2> QED BY <2>3, <2>5
<1> DEFINE to(q) == IF q \notin P THEN q ELSE IF nx[q] = q THEN n + 1 ELSE nx[q]
           g == [p \in 2 .. n + 1 |-> IF p \in P THEN Parent(p) ELSE IF p = n + 1 THEN e ELSE p]
<1>14. \A q \in 1 .. n : to(q) \in 2 .. n + 1 /\ r[q] = h[to(q)]
  <2> SUFFICES ASSUME NEW q \in 1 .. n PROVE to(q) \in 2 .. n + 1 /\ r[q] = h[to(q)]
    OBVIOUS
  <2>1. r[q] = h[to(q)]
    BY <1>2, <1>9
  <2>2. CASE q \notin P
    BY <1>11, <2>1, <2>2
  <2>3. CASE q \in P /\ nx[q] = q
    BY <2>1, <2>3
  <2>4. CASE q \in P /\ nx[q] # q
    <3>1. nx[q] # 1 /\ nx[q] \in 1 .. n
      BY <1>9, <1>11, <2>4
    <3>2. to(q) = nx[q]
      BY <2>4
    <3>3. nx[q] \in 2 .. n + 1
      <4>1. PICK c \in 1 .. n : c = nx[q] /\ c # 1
        BY <3>1
      <4>2. c \in 1 .. n /\ n \in Nat
        OBVIOUS
      <4>3. c \in 2 .. n + 1
        BY ONLY <4>1, <4>2
      <4> QED BY <4>1, <4>3
    <3> QED BY <2>1, <3>2, <3>3
  <2> QED BY <2>2, <2>3, <2>4
<1>15. \A p \in 2 .. n + 1 : g[p] \in 1 .. n /\ to(g[p]) = p
  <2> SUFFICES ASSUME NEW p \in 2 .. n + 1 PROVE g[p] \in 1 .. n /\ to(g[p]) = p
    OBVIOUS
  <2>1. n # 0 /\ e \in P /\ nx[e] = e /\ e \in 1 .. n
    <3>1. n # 0
      OBVIOUS
    <3> QED BY <1>11, <1>12, <3>1
  <2>2. CASE p \in P
    <3>1. p \in 2 .. n /\ Parent(p) \in P /\ nx[Parent(p)] = p /\ Parent(p) # p /\ Parent(p) \in 1 .. n
      <4>1. p \in 2 .. n
        BY <1>11, <2>2
      <4>2. Parent(p) \in P /\ nx[Parent(p)] = p
        <5>1. p # 1
          OBVIOUS
        <5> QED BY <1>11, <2>2, <5>1
      <4>3. Parent(p) \in 1 .. n - 1 /\ Parent(p) # p
        BY <1>13, <4>1
      <4> QED BY <4>1, <4>2, <4>3
    <3>2. g[p] = Parent(p)
      BY <2>2
    <3> HIDE DEF g
    <3> QED BY <3>1, <3>2
  <2>3. CASE p \notin P /\ p = n + 1
    <3>1. g[p] = e
      BY <2>3
    <3> HIDE DEF g
    <3> QED BY <2>1, <2>3, <3>1
  <2>4. CASE p \notin P /\ p # n + 1
    <3>1. g[p] = p /\ p \in 1 .. n
      BY <2>4
    <3> HIDE DEF g
    <3> QED BY <2>4, <3>1
  <2> QED BY <2>2, <2>3, <2>4
<1> HIDE DEF to, g
<1>16. \A p \in 2 .. n + 1 : g[p] \in 1 .. n /\ r[g[p]] = h[p]
  BY <1>14, <1>15
<1>17. r \in Seq(Entries) /\ Len(r) = n
  <2>1. ASSUME NEW p \in 1 .. n PROVE r[p] \in Entries
    <3>1. PICK o \in 2 .. n + 1 : o = to(p)
      BY <1>14
    <3>2. h[o] \in Entries
      BY <1>3
    <3> QED BY <1>14, <3>1, <3>2
  <2>2. r = [p \in 1 .. n |-> r[p]]
    BY <1>8, <1>10
  <2>3. r \in [1 .. n -> Entries]
    BY <2>1, <2>2
  <2> QED BY <2>3
<1>18. Range(r) \subseteq Range(h) /\ Range(h) \ {h[1]} \subseteq Range(r)
  <2>1. DOMAIN r = 1 .. n /\ DOMAIN h = 1 .. n + 1
    BY <1>3, <1>10
  <2>2. Range(r) = {r[p] : p \in 1 .. n} /\ Range(h) = {h[p] : p \in 1 .. n + 1}
    BY <2>1 DEF Range
  <2>3. Range(r) \subseteq Range(h)
    <3>1. ASSUME NEW q \in 1 .. n PROVE to(q) \in 1 .. n + 1
      <4>1. PICK o \in 2 .. n + 1 : o = to(q)
        BY <1>14
      <4> QED BY <4>1
    <3> QED BY <1>14, <2>2, <3>1
  <2>4. ASSUME NEW p \in 1 .. n + 1, h[p] # h[1] PROVE h[p] \in Range(r)
    <3>1. p \in 2 .. n + 1
      BY <2>4
    <3> QED BY <1>16, <2>2, <3>1
  <2> QED BY <2>2, <2>3, <2>4
<1>19. ASSUME NEW a PROVE Count(r, a) >= Count(h, a) - IF h[1] = a THEN 1 ELSE 0
  <2>1. /\ IsFiniteSet(Places(h, a)) /\ Count(h, a) = Cardinality(Places(h, a))
        /\ Count(h, a) \in Nat /\ Count(r, a) \in Nat
    <3>1. Len(h) \in Nat /\ Len(r) \in Nat
      BY <1>3, <1>17
    <3> QED BY <3>1, PlacesAreFinite
  <2>2. PICK S : S = Places(h, a) \ {1}
    OBVIOUS
  <2>3. \A p \in S : p \in 2 .. n + 1 /\ h[p] = a
    BY <1>3, <2>2 DEF Places
  <2>4. \A p \in S : g[p] \in Places(r, a)
    BY <1>16, <1>17, <2>3 DEF Places
  <2>5. \A p, o \in S : g[p] = g[o] => p = o
    BY <1>15, <2>3
  <2>6. IsFiniteSet(S) /\ Cardinality(S) <= Count(r, a)
    <3>1. Len(r) \in Nat
      BY <1>17
    <3> QED BY <2>4, <2>5, <3>1, Moved
  <2>7. Cardinality(S) = IF 1 \in Places(h, a) THEN Cardinality(Places(h, a)) - 1
                         ELSE Cardinality(Places(h, a))
    BY <2>1, <2>2, FS_RemoveElement
  <2>8. 1 \in Places(h, a) <=> h[1] = a
    BY <1>3 DEF Places
  <2>9. CASE h[1] = a
    BY <2>1, <2>6, <2>7, <2>8, <2>9
  <2>10. CASE h[1] # a
    BY <2>1, <2>6, <2>7, <2>8, <2>10
  <2> QED BY <2>9, <2>10
<1>20. ASSUME IsHeap(h, key), NEW p \in 2 .. n PROVE key[r[Parent(p)]] <= key[r[p]]
  <2>1. PICK q \in 1 .. n - 1 : q = Parent(p) /\ q # p /\ p \in Children(q)
    BY <1>13
  <2>2. /\ p \in 1 .. n /\ q \in 1 .. n /\ p <= n
        /\ key[h[p]] \in Nat /\ key[h[q]] \in Nat
        /\ \A o \in 2 .. n : key[h[Parent(o)]] <= key[h[o]]
    <3>1. p \in 1 .. n /\ q \in 1 .. n /\ p <= n
      BY <2>1
    <3>2. \A o \in 2 .. n + 1 : key[h[Parent(o)]] <= key[h[o]]
      BY <1>3, <1>20 DEF IsHeap
    <3>3. \A o \in 2 .. n : o \in 2 .. n + 1
      OBVIOUS
    <3>4. p \in 1 .. n + 1 /\ q \in 1 .. n + 1
      BY <3>1
    <3> QED BY <1>3, <3>1, <3>2, <3>3, <3>4
  <2>3. CASE p \notin P
    <3>1. r[p] = h[p]
      BY <1>9, <2>2, <2>3
    <3>2. CASE q \notin P
      <4>1. r[q] = h[q]
        BY <1>9, <2>2, <3>2
      <4> QED BY <2>1, <2>2, <3>1, <4>1
    <3>3. CASE q \in P /\ nx[q] = q
      <4>1. r[q] = x /\ key[x] < key[h[p]]
        BY <1>9, <2>1, <2>2, <3>3
      <4> QED BY <1>3, <2>1, <2>2, <3>1, <4>1
    <3>4. CASE q \in P /\ nx[q] # q
      <4>1. r[q] = h[nx[q]] /\ key[h[nx[q]]] <= key[h[p]]
        BY <1>9, <2>1, <2>2, <3>4
      <4> QED BY <2>1, <3>1, <4>1
    <3> QED BY <3>2, <3>3, <3>4
  <2>4. CASE p \in P
    <3>1. q \in P /\ nx[q] = p
      <4>1. p # 1
        OBVIOUS
      <4> QED BY <1>11, <2>1, <2>4, <4>1
    <3>2. r[q] = h[p] /\ key[h[p]] <= key[x]
      BY <1>9, <2>1, <2>2, <3>1
    <3>3. CASE nx[p] = p
      <4>1. r[p] = x
        BY <1>9, <2>2, <2>4, <3>3
      <4> QED BY <2>1, <3>2, <4>1
    <3>4. CASE nx[p] # p
      <4>1. nx[p] \in 2 .. n /\ Parent(nx[p]) = p
        BY <1>9, <1>11, <2>2, <2>4, <3>4
      <4>2. r[p] = h[nx[p]] /\ key[h[p]] <= key[h[nx[p]]]
        BY <1>9, <2>2, <2>4, <3>4, <4>1
      <4> QED BY <2>1, <3>2, <4>2
    <3> QED BY <3>3, <3>4
  <2> QED BY <2>3, <2>4
<1>21. IsHeap(h, key) => IsHeap(r, key)
  BY <1>17, <1>20 DEF IsHeap
<1> QED BY <1>1, <1>17, <1>18, <1>19, <1>21 DEF Sunk

---------------------------------------------------------------------------
(* Pushing one entry, and a queue of them                                  *)

heap_push(h, q, key, mode, ewf) == IF Takes(h, q, ewf) THEN SiftUp(h, q, key, mode) ELSE h

Distance(i) == [e \in Entries |-> distance[e][i]]

\* The pushes of the model are heap_push with the key of their heap.
LEMMA PushIs ==
  ASSUME NEW h, NEW q, NEW i, NEW bind, NEW ewf
  PROVE  /\ PushDistance(h, q, i, ewf) = heap_push(h, q, Distance(i), 0, ewf)
         /\ PushOverlap(h, q, bind, ewf) = heap_push(h, q, bind, 1, ewf)
BY DEF PushDistance, PushOverlap, heap_push, Distance

\* What heap_push does to a heap h with r as its result.
Pushes(h, q, r, key, ewf) ==
  /\ r \in Seq(Entries) /\ Len(r) <= Len(h) + 1 /\ (Len(h) <= capacity => Len(r) <= capacity)
  /\ Range(h) \subseteq Range(r) /\ Range(r) \subseteq Range(h) \cup {q}
  /\ \A e : Count(r, e) >= Count(h, e)
  /\ IsHeap(h, key) => IsHeap(r, key)
  /\ Len(h) < capacity /\ q \notin ewf => q \in Range(r)

\* heap_push takes the entry when there is room, loses none and keeps the order.
LEMMA PushKeeps ==
  ASSUME NEW h \in Seq(Entries), NEW q \in Entries, NEW key \in [Entries -> Nat], NEW mode \in {0, 1},
         NEW ewf
  PROVE  Pushes(h, q, heap_push(h, q, key, mode, ewf), key, ewf)
<1>1. PICK r : r = heap_push(h, q, key, mode, ewf)
  OBVIOUS
<1>2. CASE Takes(h, q, ewf)
  <2>1. r = SiftUp(h, q, key, mode)
    BY <1>1, <1>2 DEF heap_push
  <2>2. Risen(h, q, key, r)
    BY <2>1, Rises
  <2>3. Len(h) < capacity /\ Len(h) \in Nat /\ capacity \in Nat
    BY <1>2, HeapAssumption DEF Takes
  <2>4. Len(r) <= Len(h) + 1 /\ Len(r) <= capacity
    <3>1. Len(r) = Len(h) + 1
      BY <2>2 DEF Risen
    <3> QED BY <2>3, <3>1
  <2> QED BY <1>1, <2>2, <2>4 DEF Pushes, Risen
<1>3. CASE ~Takes(h, q, ewf)
  <2>1. r = h
    BY <1>1, <1>3 DEF heap_push
  <2>2. Len(h) \in Nat /\ Len(h) <= Len(h) + 1
    OBVIOUS
  <2>3. ASSUME NEW e PROVE Count(h, e) >= Count(h, e)
    BY <2>2, PlacesAreFinite
  <2>4. ~(Len(h) < capacity /\ q \notin ewf)
    BY <1>3 DEF Takes
  <2> QED BY <1>1, <2>1, <2>2, <2>3, <2>4 DEF Pushes
<1> QED BY <1>2, <1>3

Heap(qs, key, mode, ewf) ==
  LET built[k \in 0 .. Len(qs)] ==
        IF k = 0 THEN <<>> ELSE heap_push(built[k - 1], qs[k], key, mode, ewf)
  IN built[Len(qs)]

\* The rebuilt heaps are built by heap_push.
LEMMA HeapIs ==
  ASSUME NEW i, NEW qs, NEW bind, NEW ewf
  PROVE  /\ DistanceHeap(i, qs, ewf) = Heap(qs, Distance(i), 0, ewf)
         /\ OverlapHeap(qs, bind, ewf) = Heap(qs, bind, 1, ewf)
BY DEF DistanceHeap, OverlapHeap, Heap, PushDistance, PushOverlap, heap_push, Distance

\* A statement holds after every pass when it holds before the first and every
\* pass keeps it.
LEMMA Passes ==
  ASSUME NEW n \in Nat, NEW P, 0 \in P, \A m \in 1 .. n : m - 1 \in P => m \in P
  PROVE  n \in P
<1> DEFINE T == {m \in 0 .. n : m \notin P}
<1> SUFFICES ASSUME n \notin P PROVE FALSE
  OBVIOUS
<1>1. PICK m \in T : \A o \in T : m <= o
  <2>1. T \in SUBSET Nat /\ T # {}
    OBVIOUS
  <2> HIDE DEF T
  <2> QED BY <2>1, MinIsLeast
<1>2. m \in 1 .. n /\ m - 1 \in 0 .. n /\ ~(m <= m - 1)
  OBVIOUS
<1> QED BY <1>1, <1>2

Stays(G, n, S) == \A s \in S, k \in 1 .. n : G[<<s, k>>] \in S
Iterated(f, G, n, S, s0) ==
  f \in [0 .. n -> S] /\ f[0] = s0 /\ \A k \in 1 .. n : f[k] = G[<<f[k - 1], k>>]

\* A loop from s0 whose body G stays within S has a value after every pass.
LEMMA Iterates ==
  ASSUME NEW n \in Nat, NEW S, NEW s0 \in S, NEW G, Stays(G, n, S)
  PROVE  \E f : Iterated(f, G, n, S, s0)
<1> USE DEF Stays, Iterated
<1> DEFINE Runs(m) == {f \in [0 .. m -> S] :
                         f[0] = s0 /\ \A k \in 1 .. m : f[k] = G[<<f[k - 1], k>>]}
           P == {m \in 0 .. n : Runs(m) # {}}
<1>1. 0 \in P
  <2>1. [k \in 0 .. 0 |-> s0] \in Runs(0)
    OBVIOUS
  <2> QED BY <2>1
<1>2. ASSUME NEW m \in 1 .. n, m - 1 \in P PROVE m \in P
  <2>1. PICK f \in Runs(m - 1) : TRUE
    BY <1>2
  <2>2. f \in [0 .. m - 1 -> S] /\ f[0] = s0 /\ \A k \in 1 .. m - 1 : f[k] = G[<<f[k - 1], k>>]
    OBVIOUS
  <2>3. PICK s \in S : s = G[<<f[m - 1], m>>]
    BY <2>2
  <2> DEFINE g == [k \in 0 .. m |-> IF k = m THEN s ELSE f[k]]
  <2>4. g \in [0 .. m -> S] /\ g[0] = s0
    BY <2>2
  <2>5. \A k \in 1 .. m : g[k] = G[<<g[k - 1], k>>]
    BY <2>2, <2>3
  <2>6. g \in Runs(m)
    BY <2>4, <2>5
  <2> QED BY <2>6
<1> HIDE DEF P
<1>3. n \in P
  BY <1>1, <1>2, Passes
<1> QED BY <1>3 DEF P

HeapFits(qs, key, ewf, r) ==
  /\ r \in Seq(Entries) /\ Len(r) <= Len(qs) /\ Len(r) <= capacity
  /\ Range(r) \subseteq Range(qs)
  /\ IsHeap(r, key)
  /\ Len(qs) <= capacity /\ Range(qs) \cap ewf = {} => Range(qs) \subseteq Range(r)
  /\ Range(qs) # {} /\ Range(qs) \cap ewf = {} => Range(r) # {}

\* Rebuilt from a queue, a heap is ordered; when no entry is passed over it ranks one
\* at least, and every one if the queue fits.
LEMMA HeapOfQueue ==
  ASSUME NEW qs \in Seq(Entries), NEW key \in [Entries -> Nat], NEW mode \in {0, 1}, NEW ewf,
         NEW r, r = Heap(qs, key, mode, ewf)
  PROVE  HeapFits(qs, key, ewf, r)
<1>1. PICK n \in Nat : n = Len(qs)
  OBVIOUS
<1>2. \A k \in 1 .. n : qs[k] \in Entries
  BY <1>1
<1> DEFINE S == Seq(Entries)
           step(h, k) == heap_push(h, qs[k], key, mode, ewf)
           Body(g) == [k \in 0 .. n |-> IF k = 0 THEN <<>> ELSE step(g[k - 1], k)]
           R == CHOOSE g : g = Body(g)
<1>3. \A h \in S, k \in 1 .. n : Pushes(h, qs[k], step(h, k), key, ewf)
  <2> SUFFICES ASSUME NEW h \in S, NEW k \in 1 .. n PROVE Pushes(h, qs[k], step(h, k), key, ewf)
    OBVIOUS
  <2>1. PICK q \in Entries : q = qs[k]
    BY <1>2
  <2>2. Pushes(h, q, heap_push(h, q, key, mode, ewf), key, ewf)
    BY PushKeeps
  <2> QED BY <2>1, <2>2
<1>4. R = Body(R)
  <2> DEFINE G == [x \in S \X (1 .. n) |-> step(x[1], x[2])]
  <2>1. \A h \in S, k \in 1 .. n : G[<<h, k>>] = step(h, k) /\ G[<<h, k>>] \in S
    <3>1. \A h \in S, k \in 1 .. n : G[<<h, k>>] = step(h, k)
      OBVIOUS
    <3>2. \A h \in S, k \in 1 .. n : step(h, k) \in S
      BY <1>3 DEF Pushes
    <3> HIDE DEF G, step, S
    <3> QED BY <3>1, <3>2
  <2> HIDE DEF G, step
  <2>2. PICK f \in [0 .. n -> S] : f[0] = <<>> /\ \A k \in 1 .. n : f[k] = G[<<f[k - 1], k>>]
    <3>1. Stays(G, n, S)
      BY <2>1 DEF Stays
    <3>2. <<>> \in S
      OBVIOUS
    <3> HIDE DEF S
    <3>3. \E f : Iterated(f, G, n, S, <<>>)
      BY <3>1, <3>2, Iterates
    <3> QED BY <3>3 DEF Iterated
  <2>3. ASSUME NEW k \in 1 .. n PROVE f[k] = step(f[k - 1], k)
    <3>1. f[k - 1] \in S /\ f[k] = G[<<f[k - 1], k>>]
      BY <2>2
    <3> HIDE DEF S
    <3> QED BY <2>1, <3>1
  <2>4. f = Body(f)
    <3>1. \A k \in 0 .. n : f[k] = IF k = 0 THEN <<>> ELSE step(f[k - 1], k)
      BY <2>2, <2>3
    <3> HIDE DEF S
    <3> QED BY <2>2, <3>1
  <2> HIDE DEF Body
  <2> QED BY <2>4
<1>5. r = R[n]
  BY <1>1 DEF Heap
<1> HIDE DEF R, step
<1>6. R[0] = <<>> /\ \A k \in 1 .. n : R[k] = step(R[k - 1], k)
  <2>1. \A k \in 0 .. n : R[k] = IF k = 0 THEN <<>> ELSE step(R[k - 1], k)
    BY <1>4
  <2> QED BY <2>1
<1> DEFINE Good(h, k) ==
             /\ h \in S /\ Len(h) <= k /\ Len(h) <= capacity
             /\ Range(h) \subseteq Range(qs)
             /\ IsHeap(h, key)
             /\ n <= capacity /\ Range(qs) \cap ewf = {} => \A m \in 1 .. k : qs[m] \in Range(h)
             /\ k # 0 /\ Range(qs) \cap ewf = {} => Range(h) # {}
           P == {k \in 0 .. n : Good(R[k], k)}
<1>7. Range(qs) = {qs[k] : k \in 1 .. n}
  BY <1>1 DEF Range
<1>8. 0 \in P
  <2>1. Len(<<>>) = 0 /\ Range(<<>>) = {} /\ IsHeap(<<>>, key)
    BY DEF Range, IsHeap
  <2>2. capacity \in Nat /\ <<>> \in S
    BY HeapAssumption
  <2>3. Good(<<>>, 0)
    BY <2>1, <2>2
  <2> HIDE DEF Good
  <2>4. Good(R[0], 0)
    BY <1>6, <2>3
  <2>5. 0 \in 0 .. n
    OBVIOUS
  <2> QED BY <2>4, <2>5
<1>9. ASSUME NEW k \in 1 .. n, k - 1 \in P PROVE k \in P
  <2>1. PICK h : h = R[k - 1]
    OBVIOUS
  <2>2. Good(h, k - 1)
    BY <1>9, <2>1
  <2>3. PICK t : t = R[k]
    OBVIOUS
  <2>4. Pushes(h, qs[k], t, key, ewf)
    <3>1. t = step(h, k)
      BY <1>6, <2>1, <2>3
    <3> QED BY <1>3, <2>2, <3>1
  <2>5. t \in S /\ Len(t) <= k /\ Len(t) <= capacity
    <3>1. Len(h) \in Nat /\ Len(t) \in Nat /\ capacity \in Nat
      BY <2>2, <2>4, HeapAssumption DEF Pushes
    <3>2. Len(h) <= k - 1 /\ Len(t) <= Len(h) + 1 /\ Len(t) <= capacity /\ t \in S
      BY <2>2, <2>4 DEF Pushes
    <3> QED BY <3>1, <3>2
  <2>6. Range(t) \subseteq Range(qs) /\ IsHeap(t, key)
    <3>1. qs[k] \in Range(qs)
      BY <1>7
    <3> QED BY <2>2, <2>4, <3>1 DEF Pushes
  <2>7. ASSUME n <= capacity, Range(qs) \cap ewf = {}, NEW m \in 1 .. k PROVE qs[m] \in Range(t)
    <3>1. CASE m = k
      <4>1. Len(h) < capacity
        <5>1. Len(h) \in Nat /\ capacity \in Nat /\ Len(h) <= k - 1
          BY <2>2, HeapAssumption
        <5> QED BY <2>7, <5>1
      <4>2. qs[k] \notin ewf
        BY <1>7, <2>7
      <4> QED BY <2>4, <3>1, <4>1, <4>2 DEF Pushes
    <3>2. CASE m # k
      <4>1. m \in 1 .. k - 1
        BY <3>2
      <4>2. qs[m] \in Range(h)
        BY <2>2, <2>7, <4>1
      <4> QED BY <2>4, <4>2 DEF Pushes
    <3> QED BY <3>1, <3>2
  <2>8. ASSUME Range(qs) \cap ewf = {} PROVE Range(t) # {}
    <3>1. CASE Range(h) # {}
      BY <2>4, <3>1 DEF Pushes
    <3>2. CASE Range(h) = {}
      <4>1. Len(h) < capacity
        <5>1. Len(h) = 0
          <6>1. Len(h) \in Nat /\ h \in Seq(Entries)
            BY <2>2
          <6>2. Len(h) >= 1 => h[1] \in Range(h)
            BY <6>1 DEF Range
          <6> QED BY <3>2, <6>1, <6>2
        <5> QED BY <5>1, HeapAssumption
      <4>2. qs[k] \notin ewf
        BY <1>7, <2>8
      <4> QED BY <2>4, <4>1, <4>2 DEF Pushes
    <3> QED BY <3>1, <3>2
  <2>9. Good(t, k)
    BY <2>5, <2>6, <2>7, <2>8
  <2> HIDE DEF Good
  <2>10. k \in 0 .. n
    OBVIOUS
  <2> QED BY <2>3, <2>9, <2>10
<1>10. n \in P
  <2> HIDE DEF P
  <2> QED BY <1>8, <1>9, Passes
<1>11. Good(r, n)
  BY <1>5, <1>10
<1>12. Range(qs) # {} => n # 0
  BY <1>7
<1> QED BY <1>1, <1>7, <1>11, <1>12 DEF HeapFits

---------------------------------------------------------------------------
(* The inductive invariant                                                 *)

\* The queue q of alarm i, with its length n, and what its three arrays rank.
AlarmFits(i, q, d, o, u, n) ==
  /\ q \in Seq(Entries) /\ d \in Seq(Entries) /\ o \in Seq(Entries) /\ u \in Seq(Entries)
  /\ Len(d) <= capacity /\ Len(o) <= capacity /\ Len(u) <= capacity
  /\ Range(d) \subseteq Range(q) /\ Range(o) \subseteq Range(q) /\ Range(u) \subseteq Range(q)
  /\ n = Len(q) /\ Len(o) <= Len(q)
  /\ \A e \in Range(q) : i \in Reaches[e]

AlarmsFit ==
  /\ exploit_queue \in [Alarms -> Seq(Entries)] /\ rank_queue_cnt \in [Alarms -> Nat]
  /\ distance_favored \in [Alarms -> Seq(Entries)]
  /\ overlap_favored \in [Alarms -> Seq(Entries)]
  /\ unfuzzed_favored \in [Alarms -> Seq(Entries)]
  /\ \A i \in Alarms : AlarmFits(i, exploit_queue[i], distance_favored[i], overlap_favored[i],
                                 unfuzzed_favored[i], rank_queue_cnt[i])

RestOK ==
  /\ distance \in [Entries -> [Alarms -> 0 .. MAX_DISTANCE]]
  /\ binding_cnt \in [Entries -> 0 .. MaxBindings]
  /\ was_fuzzed \subseteq Entries /\ exploit_was_fuzzed \subseteq Entries
  /\ at \in {"idle", "top", "unfuzzed", "distance", "then_overlap",
             "overlap", "then_distance", "rebuild"}
  /\ target \in Alarms
  /\ fresh \subseteq Alarms

Ordered ==
  \A i \in fresh :
    /\ IsHeap(distance_favored[i], [e \in Entries |-> distance[e][i]])
    /\ IsHeap(overlap_favored[i], binding_cnt)

HeapInv == AlarmsFit /\ RestOK /\ Ordered

\* Both keys are numbers, as the comparators need.
LEMMA KeysAre ==
  ASSUME RestOK
  PROVE  /\ \A i \in Alarms : Distance(i) \in [Entries -> Nat]
         /\ binding_cnt \in [Entries -> Nat]
<1>1. ASSUME NEW i \in Alarms PROVE Distance(i) \in [Entries -> Nat]
  <2>1. \A e \in Entries : distance[e][i] \in 0 .. MAX_DISTANCE
    BY DEF RestOK
  <2>2. \A e \in Entries : distance[e][i] \in Nat
    BY <2>1, HeapAssumption
  <2> QED BY <2>2 DEF Distance
<1>2. \A e \in Entries : binding_cnt[e] \in 0 .. MaxBindings
  BY DEF RestOK
<1>3. \A e \in Entries : binding_cnt[e] \in Nat
  BY <1>2, HeapAssumption
<1> QED BY <1>1, <1>3 DEF RestOK

\* The invariant has the three the run checks as parts.
LEMMA InvImplies == HeapInv => TypeOK /\ HeapsRankSeeds /\ RebuiltHeapsAreOrdered
<1> SUFFICES ASSUME HeapInv PROVE TypeOK /\ HeapsRankSeeds /\ RebuiltHeapsAreOrdered
  OBVIOUS
<1> USE DEF HeapInv
<1>1. TypeOK
  <2>1. \A h \in {distance_favored, overlap_favored, unfuzzed_favored} :
          /\ h \in [Alarms -> Seq(Entries)]
          /\ \A i \in Alarms : Len(h[i]) <= capacity
    <3>1. \A i \in Alarms : /\ Len(distance_favored[i]) <= capacity
                            /\ Len(overlap_favored[i]) <= capacity
                            /\ Len(unfuzzed_favored[i]) <= capacity
      BY DEF AlarmsFit, AlarmFits
    <3> QED BY <3>1 DEF AlarmsFit
  <2> QED BY <2>1 DEF TypeOK, AlarmsFit, RestOK
<1>2. HeapsRankSeeds
  BY DEF HeapsRankSeeds, AlarmsFit, AlarmFits, Seeds
<1>3. ASSUME NEW i \in fresh
      PROVE  /\ NoneOutranks(distance_favored[i], Distance(i), 0)
             /\ NoneOutranks(overlap_favored[i], binding_cnt, 1)
  <2>1. /\ IsHeap(distance_favored[i], Distance(i)) /\ IsHeap(overlap_favored[i], binding_cnt)
        /\ distance_favored[i] \in Seq(Entries) /\ overlap_favored[i] \in Seq(Entries)
        /\ i \in Alarms
    BY DEF Ordered, Distance, AlarmsFit, RestOK
  <2> QED BY <2>1, KeysAre, HeapOrderIs
<1>4. RebuiltHeapsAreOrdered
  BY <1>3 DEF RebuiltHeapsAreOrdered, Distance
<1> QED BY <1>1, <1>2, <1>4

\* One alarm's queue and arrays change.
LEMMA OneChanges ==
  ASSUME AlarmsFit, NEW i \in Alarms, NEW q, NEW d, NEW o, NEW u, NEW n,
         AlarmFits(i, q, d, o, u, n),
         exploit_queue' = [exploit_queue EXCEPT ![i] = q],
         distance_favored' = [distance_favored EXCEPT ![i] = d],
         overlap_favored' = [overlap_favored EXCEPT ![i] = o],
         unfuzzed_favored' = [unfuzzed_favored EXCEPT ![i] = u],
         rank_queue_cnt' = [rank_queue_cnt EXCEPT ![i] = n]
  PROVE  AlarmsFit'
<1>1. q \in Seq(Entries) /\ d \in Seq(Entries) /\ o \in Seq(Entries) /\ u \in Seq(Entries) /\ n \in Nat
  BY DEF AlarmFits
<1>2. /\ exploit_queue' \in [Alarms -> Seq(Entries)] /\ rank_queue_cnt' \in [Alarms -> Nat]
      /\ distance_favored' \in [Alarms -> Seq(Entries)]
      /\ overlap_favored' \in [Alarms -> Seq(Entries)]
      /\ unfuzzed_favored' \in [Alarms -> Seq(Entries)]
  BY <1>1 DEF AlarmsFit
<1>3. ASSUME NEW j \in Alarms
      PROVE  AlarmFits(j, exploit_queue'[j], distance_favored'[j], overlap_favored'[j],
                       unfuzzed_favored'[j], rank_queue_cnt'[j])
  <2>1. CASE j = i
    <3>1. /\ exploit_queue'[j] = q /\ distance_favored'[j] = d /\ overlap_favored'[j] = o
          /\ unfuzzed_favored'[j] = u /\ rank_queue_cnt'[j] = n
      BY <2>1 DEF AlarmsFit
    <3> QED BY <2>1, <3>1
  <2>2. CASE j # i
    <3>1. /\ exploit_queue'[j] = exploit_queue[j] /\ distance_favored'[j] = distance_favored[j]
          /\ overlap_favored'[j] = overlap_favored[j]
          /\ unfuzzed_favored'[j] = unfuzzed_favored[j] /\ rank_queue_cnt'[j] = rank_queue_cnt[j]
      BY <2>2 DEF AlarmsFit
    <3> QED BY <3>1 DEF AlarmsFit
  <2> QED BY <2>1, <2>2
<1> QED BY <1>2, <1>3 DEF AlarmsFit

\* A sequence with an entry before or behind it.
LEMMA Longer ==
  ASSUME NEW s \in Seq(Entries), NEW q \in Entries
  PROVE  /\ <<q>> \o s \in Seq(Entries) /\ Len(<<q>> \o s) = Len(s) + 1
         /\ Range(<<q>> \o s) = {q} \cup Range(s)
         /\ Append(s, q) \in Seq(Entries) /\ Len(Append(s, q)) = Len(s) + 1
         /\ Range(Append(s, q)) = {q} \cup Range(s)
<1>1. <<q>> \o s \in Seq(Entries) /\ Len(<<q>> \o s) = Len(s) + 1
  OBVIOUS
<1>2. Append(s, q) \in Seq(Entries) /\ Len(Append(s, q)) = Len(s) + 1
  OBVIOUS
<1>3. PICK n \in Nat : n = Len(s)
  OBVIOUS
<1>4. Range(s) = {s[k] : k \in 1 .. n}
  BY <1>3 DEF Range
<1>5. Range(<<q>> \o s) = {q} \cup Range(s)
  <2>1. PICK t \in Seq(Entries) : t = <<q>> \o s
    BY <1>1
  <2>2. Len(t) = n + 1
    BY <1>1, <1>3, <2>1
  <2>3. Range(t) = {t[k] : k \in 1 .. n + 1}
    BY <2>2 DEF Range
  <2>4. t[1] = q /\ \A k \in 1 .. n : t[k + 1] = s[k]
    BY <1>3, <2>1
  <2>5. ASSUME NEW k \in 1 .. n + 1 PROVE t[k] \in {q} \cup Range(s)
    <3>1. CASE k = 1
      BY <2>4, <3>1
    <3>2. CASE k # 1
      <4>1. k - 1 \in 1 .. n /\ (k - 1) + 1 = k
        BY <3>2
      <4> QED BY <1>4, <2>4, <4>1
    <3> QED BY <3>1, <3>2
  <2>6. ASSUME NEW k \in 1 .. n PROVE s[k] \in Range(t)
    <3>1. k + 1 \in 1 .. n + 1 /\ t[k + 1] = s[k]
      BY <2>4
    <3> QED BY <2>3, <3>1
  <2>7. q \in Range(t)
    <3>1. 1 \in 1 .. n + 1
      OBVIOUS
    <3> QED BY <2>3, <2>4, <3>1
  <2> QED BY <1>4, <2>1, <2>3, <2>5, <2>6, <2>7
<1>6. Range(Append(s, q)) = {q} \cup Range(s)
  <2>1. PICK t \in Seq(Entries) : t = Append(s, q)
    BY <1>2
  <2>2. Len(t) = n + 1
    BY <1>2, <1>3, <2>1
  <2>3. Range(t) = {t[k] : k \in 1 .. n + 1}
    BY <2>2 DEF Range
  <2>4. t[n + 1] = q /\ \A k \in 1 .. n : t[k] = s[k]
    BY <1>3, <2>1
  <2>5. ASSUME NEW k \in 1 .. n + 1 PROVE t[k] \in {q} \cup Range(s)
    <3>1. CASE k = n + 1
      BY <2>4, <3>1
    <3>2. CASE k # n + 1
      <4>1. k \in 1 .. n
        BY <3>2
      <4> QED BY <1>4, <2>4, <4>1
    <3> QED BY <3>1, <3>2
  <2>6. ASSUME NEW k \in 1 .. n PROVE s[k] \in Range(t)
    <3>1. k \in 1 .. n + 1 /\ t[k] = s[k]
      BY <2>4
    <3> QED BY <2>3, <3>1
  <2>7. q \in Range(t)
    <3>1. n + 1 \in 1 .. n + 1
      OBVIOUS
    <3> QED BY <2>3, <2>4, <3>1
  <2> QED BY <1>4, <2>1, <2>3, <2>5, <2>6, <2>7
<1> QED BY <1>1, <1>2, <1>5, <1>6

\* The array of unfuzzed entries loses its first one.
LEMMA HoleIsFilled ==
  ASSUME NEW h \in Seq(Entries), h # <<>>, NEW r, r = FillHole(h)
  PROVE  r \in Seq(Entries) /\ Len(r) = Len(h) - 1 /\ Range(r) \subseteq Range(h)
<1>1. PICK n \in Nat : n = Len(h) - 1
  OBVIOUS
<1>2. r = [p \in 1 .. n |-> IF p = 1 THEN h[n + 1] ELSE h[p]]
  BY <1>1 DEF FillHole
<1>3. \A p \in 1 .. n + 1 : h[p] \in Entries
  BY <1>1
<1>4. \A p \in 1 .. n : r[p] \in Entries /\ \E o \in 1 .. n + 1 : r[p] = h[o]
  BY <1>2, <1>3
<1>5. r \in Seq(Entries) /\ Len(r) = n /\ DOMAIN r = 1 .. n
  <2>1. r \in [1 .. n -> Entries]
    BY <1>2, <1>4
  <2> QED BY <2>1
<1>6. Range(r) = {r[p] : p \in 1 .. n}
  BY <1>5 DEF Range
<1>7. Range(h) = {h[p] : p \in 1 .. n + 1}
  BY <1>1 DEF Range
<1> QED BY <1>1, <1>4, <1>5, <1>6, <1>7

\* Empty arrays fit, as after init and after a restart.
LEMMA EmptyFits == \A i : AlarmFits(i, <<>>, <<>>, <<>>, <<>>, 0)
<1>1. Range(<<>>) = {} /\ <<>> \in Seq(Entries) /\ Len(<<>>) = 0 /\ 0 <= capacity
  BY HeapAssumption DEF Range
<1> QED BY <1>1 DEF AlarmFits

---------------------------------------------------------------------------
(* What the operations do to the arrays of one alarm                       *)

\* add_to_exploit_queue puts q on the queue q0 and the heaps d0 and o0, which are
\* those of alarm i or empty.
Adds(i, q, q0, d0, o0, d, o, u) ==
  /\ \/ q0 = <<>> /\ d0 = <<>> /\ o0 = <<>>
     \/ q0 = exploit_queue[i] /\ d0 = distance_favored[i] /\ o0 = overlap_favored[i]
  /\ q0 \in Seq(Entries) /\ d0 \in Seq(Entries) /\ o0 \in Seq(Entries) /\ Len(o0) <= Len(q0)
  /\ \E key : Pushes(d0, q, d, key, exploit_was_fuzzed)
  /\ \E key : Pushes(o0, q, o, key, exploit_was_fuzzed)
  /\ <<q>> \o q0 \in Seq(Entries) /\ Len(<<q>> \o q0) = Len(q0) + 1
  /\ Range(<<q>> \o q0) = {q} \cup Range(q0)
  /\ AlarmFits(i, <<q>> \o q0, d, o, u, Len(q0) + 1)
  /\ exploit_queue' = [exploit_queue EXCEPT ![i] = <<q>> \o q0]
  /\ distance_favored' = [distance_favored EXCEPT ![i] = d]
  /\ overlap_favored' = [overlap_favored EXCEPT ![i] = o]
  /\ unfuzzed_favored' = [unfuzzed_favored EXCEPT ![i] = u]
  /\ rank_queue_cnt' = [rank_queue_cnt EXCEPT ![i] = Len(q0) + 1]
  /\ fresh' = {} /\ UNCHANGED <<flags, at, target>>

\* What add_to_exploit_queue does, restart or not, is what Adds says.
LEMMA BindAdds ==
  ASSUME AlarmsFit, RestOK, NEW i \in Alarms, NEW q \in Entries, NEW restart \in BOOLEAN,
         NEW before \in Nat, NEW after \in Nat, NEW dist, Bind(i, q, restart, before, after, dist)
  PROVE  \E q0, d0, o0, d, o, u : Adds(i, q, q0, d0, o0, d, o, u)
<1>1. PICK bind : bind = [binding_cnt EXCEPT ![q] = Saturated(@ + before)]
  OBVIOUS
<1>2. bind \in [Entries -> Nat]
  <2>1. \A e \in Entries : binding_cnt[e] \in Nat
    BY KeysAre
  <2>2. Saturated(binding_cnt[q] + before) \in Nat
    BY <2>1, HeapAssumption DEF Saturated
  <2> QED BY <1>1, <2>1, <2>2, KeysAre
<1>3. PICK q0 : q0 = destroy_exploit_queue(i, restart)
  OBVIOUS
<1>4. PICK d0 : d0 = reset_heap(distance_favored, i, restart)
  OBVIOUS
<1>5. PICK o0 : o0 = reset_heap(overlap_favored, i, restart)
  OBVIOUS
<1>6. PICK u0 : u0 = reset_heap(unfuzzed_favored, i, restart)
  OBVIOUS
<1>7. /\ \/ q0 = <<>> /\ d0 = <<>> /\ o0 = <<>>
         \/ q0 = exploit_queue[i] /\ d0 = distance_favored[i] /\ o0 = overlap_favored[i]
      /\ AlarmFits(i, q0, d0, o0, u0, Len(q0))
      /\ (IF restart THEN 1 ELSE rank_queue_cnt[i] + 1) = Len(q0) + 1
  <2>1. CASE restart
    <3>1. q0 = <<>> /\ d0 = <<>> /\ o0 = <<>> /\ u0 = <<>> /\ Len(<<>>) = 0
      BY <1>3, <1>4, <1>5, <1>6, <2>1 DEF destroy_exploit_queue, reset_heap
    <3> QED BY <2>1, <3>1, EmptyFits
  <2>2. CASE ~restart
    <3>1. /\ q0 = exploit_queue[i] /\ d0 = distance_favored[i] /\ o0 = overlap_favored[i]
          /\ u0 = unfuzzed_favored[i]
      BY <1>3, <1>4, <1>5, <1>6, <2>2 DEF destroy_exploit_queue, reset_heap
    <3>2. AlarmFits(i, exploit_queue[i], distance_favored[i], overlap_favored[i],
                    unfuzzed_favored[i], rank_queue_cnt[i])
      BY DEF AlarmsFit
    <3>3. rank_queue_cnt[i] = Len(q0)
      BY <3>1, <3>2 DEF AlarmFits
    <3> QED BY <2>2, <3>1, <3>2, <3>3
  <2> QED BY <2>1, <2>2
<1>8. /\ q0 \in Seq(Entries) /\ d0 \in Seq(Entries) /\ o0 \in Seq(Entries) /\ u0 \in Seq(Entries)
      /\ Len(d0) <= capacity /\ Len(o0) <= capacity /\ Len(u0) <= capacity
      /\ Range(d0) \subseteq Range(q0) /\ Range(o0) \subseteq Range(q0) /\ Range(u0) \subseteq Range(q0)
      /\ Len(o0) <= Len(q0)
      /\ \A e \in Range(q0) : i \in Reaches[e]
  BY <1>7 DEF AlarmFits
<1>9. PICK d : d = PushDistance(d0, q, i, exploit_was_fuzzed)
  OBVIOUS
<1>10. PICK o : o = PushOverlap(o0, q, bind, exploit_was_fuzzed)
  OBVIOUS
<1>11. PICK u : u = PushUnfuzzed(u0, q, exploit_was_fuzzed)
  OBVIOUS
<1>12. Pushes(d0, q, d, Distance(i), exploit_was_fuzzed)
  <2>1. d = heap_push(d0, q, Distance(i), 0, exploit_was_fuzzed)
    BY <1>9, PushIs
  <2>2. Distance(i) \in [Entries -> Nat]
    BY KeysAre
  <2>3. Pushes(d0, q, heap_push(d0, q, Distance(i), 0, exploit_was_fuzzed), Distance(i), exploit_was_fuzzed)
    BY <1>8, <2>2, PushKeeps
  <2> QED BY <2>1, <2>3
<1>13. Pushes(o0, q, o, bind, exploit_was_fuzzed)
  <2>1. o = heap_push(o0, q, bind, 1, exploit_was_fuzzed)
    BY <1>10, PushIs
  <2>2. Pushes(o0, q, heap_push(o0, q, bind, 1, exploit_was_fuzzed), bind, exploit_was_fuzzed)
    BY <1>2, <1>8, PushKeeps
  <2> QED BY <2>1, <2>2
<1>14. u \in Seq(Entries) /\ Len(u) <= capacity /\ Range(u) \subseteq {q} \cup Range(u0)
  <2>1. CASE Takes(u0, q, exploit_was_fuzzed)
    <3>1. u = Append(u0, q) /\ Len(u0) < capacity
      BY <1>11, <2>1 DEF PushUnfuzzed, Takes
    <3>2. u \in Seq(Entries) /\ Len(u) = Len(u0) + 1 /\ Range(u) = {q} \cup Range(u0)
      BY <1>8, <3>1, Longer
    <3>3. Len(u0) \in Nat /\ capacity \in Nat
      BY <1>8, HeapAssumption
    <3> QED BY <3>1, <3>2, <3>3
  <2>2. CASE ~Takes(u0, q, exploit_was_fuzzed)
    <3>1. u = u0
      BY <1>11, <2>2 DEF PushUnfuzzed
    <3> QED BY <1>8, <3>1
  <2> QED BY <2>1, <2>2
<1>15. /\ <<q>> \o q0 \in Seq(Entries) /\ Len(<<q>> \o q0) = Len(q0) + 1
       /\ Range(<<q>> \o q0) = {q} \cup Range(q0)
  BY <1>8, Longer
<1>16. i \in Reaches[q]
  BY DEF Bind
<1>17. AlarmFits(i, <<q>> \o q0, d, o, u, Len(q0) + 1)
  <2>1. /\ d \in Seq(Entries) /\ Len(d) <= capacity /\ Range(d) \subseteq {q} \cup Range(q0)
        /\ o \in Seq(Entries) /\ Len(o) <= capacity /\ Range(o) \subseteq {q} \cup Range(q0)
    BY <1>8, <1>12, <1>13 DEF Pushes
  <2>2. Len(o) <= Len(q0) + 1
    <3>1. Len(o) <= Len(o0) + 1 /\ Len(o0) <= Len(q0)
      BY <1>8, <1>13 DEF Pushes
    <3>2. Len(o) \in Nat /\ Len(o0) \in Nat /\ Len(q0) \in Nat
      BY <1>8, <2>1
    <3> QED BY <3>1, <3>2
  <2>3. Range(u) \subseteq {q} \cup Range(q0)
    BY <1>8, <1>14
  <2>4. \A e \in {q} \cup Range(q0) : i \in Reaches[e]
    BY <1>8, <1>16
  <2> QED BY <1>14, <1>15, <2>1, <2>2, <2>3, <2>4 DEF AlarmFits
<1>18. /\ exploit_queue' = [exploit_queue EXCEPT ![i] = <<q>> \o q0]
       /\ distance_favored' = [distance_favored EXCEPT ![i] = d]
       /\ overlap_favored' = [overlap_favored EXCEPT ![i] = o]
       /\ unfuzzed_favored' = [unfuzzed_favored EXCEPT ![i] = u]
       /\ fresh' = {} /\ UNCHANGED <<flags, at, target>>
  BY <1>1, <1>3, <1>4, <1>5, <1>6, <1>9, <1>10, <1>11 DEF Bind
<1>19. rank_queue_cnt' = [rank_queue_cnt EXCEPT ![i] = Len(q0) + 1]
  <2>1. rank_queue_cnt' = [rank_queue_cnt EXCEPT ![i] = IF restart THEN 1 ELSE rank_queue_cnt[i] + 1]
    BY DEF Bind, AlarmsFit
  <2> QED BY <1>7, <2>1
<1>20. (\E key : Pushes(d0, q, d, key, exploit_was_fuzzed)) /\ (\E key : Pushes(o0, q, o, key, exploit_was_fuzzed))
  BY <1>12, <1>13
<1>21. Adds(i, q, q0, d0, o0, d, o, u)
  BY <1>7, <1>8, <1>15, <1>17, <1>18, <1>19, <1>20 DEF Adds
<1> QED BY <1>21

\* rank_queue takes the top of a heap of its target.
LEMMA DistancePops ==
  ASSUME AlarmsFit, RestOK, RankDistance
  PROVE  \E d : /\ distance_favored' = [distance_favored EXCEPT ![target] = d]
                /\ distance_favored[target] # <<>>
                /\ Sunk(distance_favored[target], Distance(target), d)
<1>1. PICK d : d = PopDistance(target)
  OBVIOUS
<1>2. target \in Alarms
  BY DEF RestOK
<1>3. distance_favored[target] # <<>> /\ distance_favored[target] \in Seq(Entries)
  BY <1>2 DEF RankDistance, TakeTop, AlarmsFit
<1>4. d = SiftDown(distance_favored[target], Distance(target), 0)
  BY <1>1 DEF PopDistance, Distance
<1>5. Distance(target) \in [Entries -> Nat]
  BY <1>2, KeysAre
<1>6. Sunk(distance_favored[target], Distance(target), d)
  BY <1>3, <1>4, <1>5, Sinks
<1> QED BY <1>1, <1>3, <1>6 DEF RankDistance

\* A pick from the overlap heap is a heap_pop.
LEMMA OverlapPops ==
  ASSUME AlarmsFit, RestOK, RankOverlap
  PROVE  \E o : /\ overlap_favored' = [overlap_favored EXCEPT ![target] = o]
                /\ overlap_favored[target] # <<>>
                /\ Sunk(overlap_favored[target], binding_cnt, o)
<1>1. PICK o : o = PopOverlap(target)
  OBVIOUS
<1>2. target \in Alarms
  BY DEF RestOK
<1>3. overlap_favored[target] # <<>> /\ overlap_favored[target] \in Seq(Entries)
  BY <1>2 DEF RankOverlap, TakeTop, AlarmsFit
<1>4. o = SiftDown(overlap_favored[target], binding_cnt, 1)
  BY <1>1 DEF PopOverlap
<1>5. binding_cnt \in [Entries -> Nat]
  BY KeysAre
<1>6. Sunk(overlap_favored[target], binding_cnt, o)
  BY <1>3, <1>4, <1>5, Sinks
<1> QED BY <1>1, <1>3, <1>6 DEF RankOverlap

\* rank_queue rebuilds both heaps of its target from the queue.
Rebuilds(d, o, ewf) ==
  /\ distance_favored[target] = <<>> /\ overlap_favored[target] = <<>>
  /\ d \in Seq(Entries) /\ Len(d) <= capacity /\ Range(d) \subseteq Seeds(target)
  /\ o \in Seq(Entries) /\ Len(o) <= capacity /\ Range(o) \subseteq Seeds(target)
  /\ Len(o) <= Len(exploit_queue[target])
  /\ IsHeap(d, Distance(target)) /\ IsHeap(o, binding_cnt)
  /\ Len(exploit_queue[target]) <= capacity => Seeds(target) \subseteq Range(o)
  /\ Seeds(target) # {} => Range(o) # {}
  /\ ewf = exploit_was_fuzzed \ Seeds(target)
  /\ exploit_was_fuzzed' = ewf
  /\ distance_favored' = [distance_favored EXCEPT ![target] = d]
  /\ overlap_favored' = [overlap_favored EXCEPT ![target] = o]
  /\ fresh' = fresh \cup {target}

\* With both heaps empty, the end of an iteration rebuilds them from the queue.
LEMMA RebuildFills ==
  ASSUME AlarmsFit, RestOK, Rebuild, distance_favored[target] = <<>>, overlap_favored[target] = <<>>
  PROVE  \E d, o, ewf : Rebuilds(d, o, ewf)
<1>1. PICK qs : qs = exploit_queue[target]
  OBVIOUS
<1>2. PICK ewf : ewf = Eligible(qs)
  OBVIOUS
<1>3. PICK d : d = DistanceHeap(target, qs, ewf)
  OBVIOUS
<1>4. PICK o : o = OverlapHeap(qs, binding_cnt, ewf)
  OBVIOUS
<1>5. target \in Alarms /\ qs \in Seq(Entries) /\ Seeds(target) = Range(qs)
  BY <1>1 DEF AlarmsFit, RestOK, Seeds
<1>6. Distance(target) \in [Entries -> Nat] /\ binding_cnt \in [Entries -> Nat]
  BY <1>5, KeysAre
<1>7. d = Heap(qs, Distance(target), 0, ewf) /\ o = Heap(qs, binding_cnt, 1, ewf)
  BY <1>3, <1>4, HeapIs
<1>8. ewf = exploit_was_fuzzed \ Seeds(target) /\ Range(qs) \cap ewf = {}
  BY <1>2, <1>5 DEF Eligible
<1>9. HeapFits(qs, Distance(target), ewf, d)
  BY <1>5, <1>6, <1>7, HeapOfQueue
<1>10. HeapFits(qs, binding_cnt, ewf, o)
  BY <1>5, <1>6, <1>7, HeapOfQueue
<1>11. /\ exploit_was_fuzzed' = ewf
       /\ distance_favored' = [distance_favored EXCEPT ![target] = d]
       /\ overlap_favored' = [overlap_favored EXCEPT ![target] = o]
       /\ fresh' = fresh \cup {target}
  BY <1>1, <1>2, <1>3, <1>4 DEF Rebuild
<1>12. Rebuilds(d, o, ewf)
  BY <1>1, <1>5, <1>8, <1>9, <1>10, <1>11 DEF Rebuilds, HeapFits
<1> QED BY <1>12

\* The end of an iteration rebuilds both heaps or neither.
LEMMA RebuildIs ==
  ASSUME AlarmsFit, RestOK, Rebuild
  PROVE  \/ UNCHANGED <<exploit_was_fuzzed, distance_favored, overlap_favored, fresh>>
         \/ \E d, o, ewf : Rebuilds(d, o, ewf)
<1>1. CASE ~(distance_favored[target] = <<>> /\ overlap_favored[target] = <<>>)
  BY <1>1 DEF Rebuild
<1>2. CASE distance_favored[target] = <<>> /\ overlap_favored[target] = <<>>
  BY <1>2, RebuildFills
<1> QED BY <1>1, <1>2

---------------------------------------------------------------------------
(* The invariant holds                                                     *)

\* The three ways to bind an entry differ in the numbers only.
LEMMA BindIs ==
  ASSUME NEW i, NEW q, BindCur(i, q) \/ BindVirgin(i, q) \/ BindHit(i, q)
  PROVE  \E restart \in BOOLEAN, before, after \in Nat, dist \in 0 .. MAX_DISTANCE :
           Bind(i, q, restart, before, after, dist)
<1>1. /\ Restarts \subseteq BOOLEAN /\ Distances \subseteq 0 .. MAX_DISTANCE
      /\ VirginBindings \in Nat /\ 0 \in 0 .. MAX_DISTANCE /\ 0 \in Nat /\ 1 \in Nat
  BY HeapAssumption
<1>2. CASE BindCur(i, q)
  <2>1. PICK restart \in Restarts, dist \in Distances : Bind(i, q, restart, 1, 0, dist)
    BY <1>2 DEF BindCur
  <2> QED BY <1>1, <2>1
<1>3. CASE BindVirgin(i, q)
  <2>1. PICK restart \in Restarts, dist \in Distances : Bind(i, q, restart, 0, VirginBindings, dist)
    BY <1>3 DEF BindVirgin
  <2> QED BY <1>1, <2>1
<1>4. CASE BindHit(i, q)
  <2>1. PICK restart \in Restarts, n \in {1, VirginBindings} : Bind(i, q, restart, 0, n, 0)
    BY <1>4 DEF BindHit
  <2>2. n \in Nat
    BY <1>1, <2>1
  <2> QED BY <1>1, <2>1, <2>2
<1> QED BY <1>2, <1>3, <1>4

Quiet == UNCHANGED <<exploit_queue, heaps, rank_queue_cnt, exploit_was_fuzzed>>

\* The steps, by what they do to the arrays.
LEMMA StepIs ==
  ASSUME AlarmsFit, RestOK, [Next]_vars
  PROVE  \/ \E i \in Alarms, q \in Entries : \E q0, d0, o0, d, o, u : Adds(i, q, q0, d0, o0, d, o, u)
         \/ Quiet \/ RankUnfuzzed \/ RankDistance \/ RankOverlap \/ Rebuild
<1>1. ASSUME NEW i \in Alarms, NEW q \in Entries, BindCur(i, q) \/ BindVirgin(i, q) \/ BindHit(i, q)
      PROVE  \E q0, d0, o0, d, o, u : Adds(i, q, q0, d0, o0, d, o, u)
  <2>1. PICK restart \in BOOLEAN, before \in Nat, after \in Nat, dist \in 0 .. MAX_DISTANCE :
          Bind(i, q, restart, before, after, dist)
    BY <1>1, BindIs
  <2> QED BY <2>1, BindAdds
<1>2. ASSUME NEW i \in Alarms, NEW q \in Entries, Rejected(i, q) PROVE Quiet
  BY <1>2 DEF Rejected, Quiet, flags
<1>3. ASSUME NEW q \in Entries, CountBinding(q) \/ FuzzOne(q) PROVE Quiet
  BY <1>3 DEF CountBinding, FuzzOne, Quiet, flags
<1>4. ASSUME NEW i \in Alarms, RankQueue(i) PROVE Quiet
  BY <1>4 DEF RankQueue, Quiet, flags
<1>5. ASSUME TryUnfuzzed \/ TryDistance \/ TryOverlap \/ PickFromQueue \/ HeapEmpty PROVE Quiet
  BY <1>5 DEF TryUnfuzzed, TryDistance, TryOverlap, Branch, PickFromQueue, HeapEmpty, Quiet, flags
<1>6. ASSUME UNCHANGED vars PROVE Quiet
  BY <1>6 DEF vars, Quiet, flags
<1> QED BY <1>1, <1>2, <1>3, <1>4, <1>5, <1>6 DEF Next, RankStep

\* A binding count stays within its bound.
LEMMA SaturatedIs == \A n \in Nat : Saturated(n) \in 0 .. MaxBindings
BY HeapAssumption DEF Saturated

\* No step takes a key, a flag or a position of rank_queue out of its type.
LEMMA RestIsKept ==
  ASSUME AlarmsFit, RestOK, [Next]_vars
  PROVE  RestOK'
<1>0. /\ target \in Alarms /\ was_fuzzed \subseteq Entries /\ exploit_was_fuzzed \subseteq Entries
      /\ binding_cnt \in [Entries -> 0 .. MaxBindings]
      /\ distance \in [Entries -> [Alarms -> 0 .. MAX_DISTANCE]] /\ fresh \subseteq Alarms
      /\ MaxBindings \in Nat /\ \A e \in Entries : binding_cnt[e] \in Nat
  BY HeapAssumption, KeysAre DEF RestOK
<1>1. ASSUME NEW i \in Alarms, NEW q \in Entries, BindCur(i, q) \/ BindVirgin(i, q) \/ BindHit(i, q)
      PROVE  RestOK'
  <2>1. PICK restart \in BOOLEAN, before \in Nat, after \in Nat, dist \in 0 .. MAX_DISTANCE :
          Bind(i, q, restart, before, after, dist)
    BY <1>1, BindIs
  <2>2. PICK bind \in [Entries -> 0 .. MaxBindings] : bind = [binding_cnt EXCEPT ![q] = Saturated(@ + before)]
    <3>1. binding_cnt[q] + before \in Nat
      BY <1>0
    <3>2. Saturated(binding_cnt[q] + before) \in 0 .. MaxBindings
      BY <3>1, SaturatedIs
    <3> QED BY <1>0, <3>2
  <2>3. binding_cnt' \in [Entries -> 0 .. MaxBindings]
    <3>1. bind[q] + after \in Nat
      BY <1>0, <2>2
    <3>2. Saturated(bind[q] + after) \in 0 .. MaxBindings
      BY <3>1, SaturatedIs
    <3>3. binding_cnt' = [bind EXCEPT ![q] = Saturated(bind[q] + after)]
      BY <2>1, <2>2 DEF Bind
    <3> QED BY <3>2, <3>3
  <2>4. distance' \in [Entries -> [Alarms -> 0 .. MAX_DISTANCE]]
    <3>1. distance' = [distance EXCEPT ![q][i] = dist]
      BY <2>1 DEF Bind
    <3> QED BY <1>0, <3>1
  <2> QED BY <1>0, <2>1, <2>3, <2>4 DEF Bind, RestOK, flags
<1>2. ASSUME NEW i \in Alarms, NEW q \in Entries, Rejected(i, q) PROVE RestOK'
  <2>1. PICK n \in Nat : binding_cnt' = [binding_cnt EXCEPT ![q] = Saturated(binding_cnt[q] + n)]
    BY <1>2, HeapAssumption DEF Rejected
  <2>2. PICK dist \in 0 .. MAX_DISTANCE : distance' = [distance EXCEPT ![q][i] = dist]
    BY <1>2, HeapAssumption DEF Rejected
  <2>3. binding_cnt' \in [Entries -> 0 .. MaxBindings]
    <3>1. binding_cnt[q] + n \in Nat
      BY <1>0
    <3>2. Saturated(binding_cnt[q] + n) \in 0 .. MaxBindings
      BY <3>1, SaturatedIs
    <3> QED BY <1>0, <2>1, <3>2
  <2>4. distance' \in [Entries -> [Alarms -> 0 .. MAX_DISTANCE]]
    BY <1>0, <2>2
  <2> QED BY <1>2, <2>3, <2>4 DEF Rejected, RestOK, flags
<1>3. ASSUME NEW q \in Entries, CountBinding(q) PROVE RestOK'
  <2>1. Saturated(binding_cnt[q] + 1) \in 0 .. MaxBindings
    BY <1>0, SaturatedIs
  <2>2. binding_cnt' \in [Entries -> 0 .. MaxBindings]
    BY <1>0, <1>3, <2>1 DEF CountBinding
  <2> QED BY <1>3, <2>2 DEF CountBinding, RestOK, flags
<1>4. ASSUME NEW q \in Entries, FuzzOne(q) PROVE RestOK'
  BY <1>4 DEF FuzzOne, RestOK, keys
<1>5. ASSUME NEW i \in Alarms, RankQueue(i) PROVE RestOK'
  BY <1>5 DEF RankQueue, RestOK, keys, flags
<1>6. ASSUME TryUnfuzzed \/ TryDistance \/ TryOverlap \/ PickFromQueue PROVE RestOK'
  BY <1>6 DEF TryUnfuzzed, TryDistance, TryOverlap, Branch, PickFromQueue, RestOK, keys, flags
<1>7. ASSUME NEW h, NEW ok, TakeTop(h, ok), h \in Seq(Entries) PROVE RestOK'
  <2>1. h[1] \in Entries
    BY <1>7 DEF TakeTop
  <2>2. exploit_was_fuzzed' \subseteq Entries
    BY <1>0, <1>7, <2>1 DEF TakeTop
  <2>3. at' \in {"idle", at}
    BY <1>7 DEF TakeTop
  <2> QED BY <1>7, <2>2, <2>3 DEF TakeTop, RestOK, keys
<1>8. ASSUME RankUnfuzzed PROVE RestOK'
  <2>1. unfuzzed_favored[target] \in Seq(Entries)
    BY <1>0 DEF AlarmsFit
  <2> QED BY <1>7, <1>8, <2>1 DEF RankUnfuzzed
<1>9. ASSUME RankDistance PROVE RestOK'
  <2>1. distance_favored[target] \in Seq(Entries)
    BY <1>0 DEF AlarmsFit
  <2> QED BY <1>7, <1>9, <2>1 DEF RankDistance
<1>10. ASSUME RankOverlap PROVE RestOK'
  <2>1. overlap_favored[target] \in Seq(Entries)
    BY <1>0 DEF AlarmsFit
  <2> QED BY <1>7, <1>10, <2>1 DEF RankOverlap
<1>11. ASSUME HeapEmpty PROVE RestOK'
  BY <1>11 DEF HeapEmpty, RestOK, keys, flags
<1>12. ASSUME Rebuild PROVE RestOK'
  <2>1. exploit_was_fuzzed' \subseteq Entries /\ fresh' \subseteq Alarms
    BY <1>0, <1>12, RebuildIs DEF Rebuilds
  <2> QED BY <1>0, <1>12, <2>1 DEF Rebuild, RestOK, keys
<1>13. ASSUME UNCHANGED vars PROVE RestOK'
  BY <1>13 DEF vars, RestOK, keys, flags
<1> QED BY <1>1, <1>2, <1>3, <1>4, <1>5, <1>6, <1>8, <1>9, <1>10, <1>11, <1>12, <1>13
        DEF Next, RankStep

\* No step makes a heap outgrow, or rank anything beyond, the queue of its alarm.
LEMMA AlarmsAreKept ==
  ASSUME AlarmsFit, RestOK, [Next]_vars
  PROVE  AlarmsFit'
<1>1. ASSUME NEW i \in Alarms, NEW q \in Entries, NEW q0, NEW d0, NEW o0, NEW d, NEW o, NEW u,
             Adds(i, q, q0, d0, o0, d, o, u)
      PROVE  AlarmsFit'
  BY <1>1, OneChanges DEF Adds
<1>2. CASE Quiet
  BY <1>2 DEF Quiet, heaps, AlarmsFit
<1>3. PICK i \in Alarms : i = target
  BY DEF RestOK
<1>4. AlarmFits(i, exploit_queue[i], distance_favored[i], overlap_favored[i], unfuzzed_favored[i],
                rank_queue_cnt[i])
  BY DEF AlarmsFit
<1>5. capacity \in Nat
  BY HeapAssumption
<1>6. CASE RankUnfuzzed
  <2>1. PICK u : u = PopUnfuzzed(i)
    OBVIOUS
  <2>2. unfuzzed_favored[i] # <<>> /\ unfuzzed_favored[i] \in Seq(Entries)
    BY <1>3, <1>4, <1>6 DEF RankUnfuzzed, TakeTop, AlarmFits
  <2>3. u \in Seq(Entries) /\ Len(u) = Len(unfuzzed_favored[i]) - 1 /\ Range(u) \subseteq Range(unfuzzed_favored[i])
    BY <2>1, <2>2, HoleIsFilled DEF PopUnfuzzed
  <2>4. Len(u) <= capacity
    <3>1. Len(unfuzzed_favored[i]) <= capacity /\ Len(unfuzzed_favored[i]) \in Nat
      BY <1>4, <2>2 DEF AlarmFits
    <3> QED BY <1>5, <2>3, <3>1
  <2>5. AlarmFits(i, exploit_queue[i], distance_favored[i], overlap_favored[i], u, rank_queue_cnt[i])
    BY <1>4, <2>3, <2>4 DEF AlarmFits
  <2>6. unfuzzed_favored' = [unfuzzed_favored EXCEPT ![i] = u]
    BY <1>3, <1>6, <2>1 DEF RankUnfuzzed
  <2>7. UNCHANGED <<exploit_queue, distance_favored, overlap_favored, rank_queue_cnt>>
    BY <1>6 DEF RankUnfuzzed, TakeTop
  <2>8. /\ exploit_queue' = [exploit_queue EXCEPT ![i] = exploit_queue[i]]
        /\ distance_favored' = [distance_favored EXCEPT ![i] = distance_favored[i]]
        /\ overlap_favored' = [overlap_favored EXCEPT ![i] = overlap_favored[i]]
        /\ rank_queue_cnt' = [rank_queue_cnt EXCEPT ![i] = rank_queue_cnt[i]]
    BY <2>7 DEF AlarmsFit
  <2> QED BY <2>5, <2>6, <2>8, OneChanges
<1>7. CASE RankDistance
  <2>1. PICK d : /\ distance_favored' = [distance_favored EXCEPT ![i] = d]
                 /\ Sunk(distance_favored[i], Distance(i), d)
    BY <1>3, <1>7, DistancePops
  <2>2. d \in Seq(Entries) /\ Len(d) = Len(distance_favored[i]) - 1 /\ Range(d) \subseteq Range(distance_favored[i])
    BY <2>1 DEF Sunk
  <2>3. Len(d) <= capacity
    <3>1. Len(distance_favored[i]) <= capacity /\ Len(distance_favored[i]) \in Nat
      BY <1>4 DEF AlarmFits
    <3> QED BY <1>5, <2>2, <3>1
  <2>4. AlarmFits(i, exploit_queue[i], d, overlap_favored[i], unfuzzed_favored[i], rank_queue_cnt[i])
    BY <1>4, <2>2, <2>3 DEF AlarmFits
  <2>5. UNCHANGED <<exploit_queue, unfuzzed_favored, overlap_favored, rank_queue_cnt>>
    BY <1>7 DEF RankDistance, TakeTop
  <2>6. /\ exploit_queue' = [exploit_queue EXCEPT ![i] = exploit_queue[i]]
        /\ unfuzzed_favored' = [unfuzzed_favored EXCEPT ![i] = unfuzzed_favored[i]]
        /\ overlap_favored' = [overlap_favored EXCEPT ![i] = overlap_favored[i]]
        /\ rank_queue_cnt' = [rank_queue_cnt EXCEPT ![i] = rank_queue_cnt[i]]
    BY <2>5 DEF AlarmsFit
  <2> QED BY <2>1, <2>4, <2>6, OneChanges
<1>8. CASE RankOverlap
  <2>1. PICK o : /\ overlap_favored' = [overlap_favored EXCEPT ![i] = o]
                 /\ Sunk(overlap_favored[i], binding_cnt, o)
    BY <1>3, <1>8, OverlapPops
  <2>2. o \in Seq(Entries) /\ Len(o) = Len(overlap_favored[i]) - 1 /\ Range(o) \subseteq Range(overlap_favored[i])
    BY <2>1 DEF Sunk
  <2>3. Len(o) <= capacity /\ Len(o) <= Len(exploit_queue[i])
    <3>1. /\ Len(overlap_favored[i]) <= capacity /\ Len(overlap_favored[i]) \in Nat
          /\ Len(overlap_favored[i]) <= Len(exploit_queue[i]) /\ Len(exploit_queue[i]) \in Nat
      BY <1>4 DEF AlarmFits
    <3> QED BY <1>5, <2>2, <3>1
  <2>4. AlarmFits(i, exploit_queue[i], distance_favored[i], o, unfuzzed_favored[i], rank_queue_cnt[i])
    BY <1>4, <2>2, <2>3 DEF AlarmFits
  <2>5. UNCHANGED <<exploit_queue, unfuzzed_favored, distance_favored, rank_queue_cnt>>
    BY <1>8 DEF RankOverlap, TakeTop
  <2>6. /\ exploit_queue' = [exploit_queue EXCEPT ![i] = exploit_queue[i]]
        /\ unfuzzed_favored' = [unfuzzed_favored EXCEPT ![i] = unfuzzed_favored[i]]
        /\ distance_favored' = [distance_favored EXCEPT ![i] = distance_favored[i]]
        /\ rank_queue_cnt' = [rank_queue_cnt EXCEPT ![i] = rank_queue_cnt[i]]
    BY <2>5 DEF AlarmsFit
  <2> QED BY <2>1, <2>4, <2>6, OneChanges
<1>9. CASE Rebuild
  <2>1. UNCHANGED <<exploit_queue, unfuzzed_favored, rank_queue_cnt>>
    BY <1>9 DEF Rebuild
  <2>2. CASE UNCHANGED <<exploit_was_fuzzed, distance_favored, overlap_favored, fresh>>
    BY <2>1, <2>2 DEF AlarmsFit
  <2>3. ASSUME NEW d, NEW o, NEW ewf, Rebuilds(d, o, ewf) PROVE AlarmsFit'
    <3>1. AlarmFits(i, exploit_queue[i], d, o, unfuzzed_favored[i], rank_queue_cnt[i])
      BY <1>3, <1>4, <2>3 DEF AlarmFits, Rebuilds, Seeds
    <3>2. /\ exploit_queue' = [exploit_queue EXCEPT ![i] = exploit_queue[i]]
          /\ unfuzzed_favored' = [unfuzzed_favored EXCEPT ![i] = unfuzzed_favored[i]]
          /\ rank_queue_cnt' = [rank_queue_cnt EXCEPT ![i] = rank_queue_cnt[i]]
      BY <2>1 DEF AlarmsFit
    <3>3. /\ distance_favored' = [distance_favored EXCEPT ![i] = d]
          /\ overlap_favored' = [overlap_favored EXCEPT ![i] = o]
      BY <1>3, <2>3 DEF Rebuilds
    <3> QED BY <3>1, <3>2, <3>3, OneChanges
  <2> QED BY <1>9, <2>2, <2>3, RebuildIs
<1> QED BY <1>1, <1>2, <1>6, <1>7, <1>8, <1>9, StepIs

\* A heap stays ordered until a key changes.
LEMMA OrderIsKept ==
  ASSUME HeapInv, [Next]_vars
  PROVE  Ordered'
<1> USE DEF HeapInv
<1>1. \/ fresh' = {}
      \/ UNCHANGED <<fresh, keys>>
      \/ UNCHANGED keys /\ Rebuild
  <2>1. ASSUME NEW i, NEW q, BindCur(i, q) \/ BindVirgin(i, q) \/ BindHit(i, q) \/ Rejected(i, q)
        PROVE  fresh' = {}
    BY <2>1 DEF BindCur, BindVirgin, BindHit, Bind, Rejected
  <2>2. ASSUME NEW q, CountBinding(q) PROVE fresh' = {}
    BY <2>2 DEF CountBinding
  <2>3. ASSUME NEW q, FuzzOne(q) PROVE UNCHANGED <<fresh, keys>>
    BY <2>3 DEF FuzzOne
  <2>4. ASSUME NEW i, RankQueue(i) PROVE UNCHANGED <<fresh, keys>>
    BY <2>4 DEF RankQueue
  <2>5. ASSUME TryUnfuzzed \/ TryDistance \/ TryOverlap \/ PickFromQueue \/ HeapEmpty
        PROVE  UNCHANGED <<fresh, keys>>
    BY <2>5 DEF TryUnfuzzed, TryDistance, TryOverlap, Branch, PickFromQueue, HeapEmpty
  <2>6. ASSUME RankUnfuzzed \/ RankDistance \/ RankOverlap PROVE UNCHANGED <<fresh, keys>>
    BY <2>6 DEF RankUnfuzzed, RankDistance, RankOverlap, TakeTop
  <2>7. ASSUME Rebuild PROVE UNCHANGED keys
    BY <2>7 DEF Rebuild
  <2>8. ASSUME UNCHANGED vars PROVE UNCHANGED <<fresh, keys>>
    BY <2>8 DEF vars
  <2> QED BY <2>1, <2>2, <2>3, <2>4, <2>5, <2>6, <2>7, <2>8 DEF Next, RankStep
<1>2. CASE fresh' = {}
  BY <1>2 DEF Ordered
<1>3. ASSUME UNCHANGED keys
      PROVE  \A i : [e \in Entries |-> distance'[e][i]] = Distance(i) /\ binding_cnt' = binding_cnt
  BY <1>3 DEF keys, Distance
<1>4. \A i \in fresh : i \in Alarms /\ IsHeap(distance_favored[i], Distance(i)) /\ IsHeap(overlap_favored[i], binding_cnt)
  BY DEF Ordered, RestOK, Distance
<1>5. ASSUME UNCHANGED keys,
             \A i \in fresh' : IsHeap(distance_favored'[i], Distance(i)) /\ IsHeap(overlap_favored'[i], binding_cnt)
      PROVE  Ordered'
  BY <1>3, <1>5 DEF Ordered
<1>6. PICK t \in Alarms : t = target
  BY DEF RestOK
<1>7. CASE UNCHANGED <<fresh, keys>>
  <2> SUFFICES ASSUME NEW i \in fresh
               PROVE  IsHeap(distance_favored'[i], Distance(i)) /\ IsHeap(overlap_favored'[i], binding_cnt)
    BY <1>5, <1>7
  <2>1. CASE Quiet
    BY <1>4, <2>1 DEF Quiet, heaps
  <2>2. CASE RankUnfuzzed
    BY <1>4, <2>2 DEF RankUnfuzzed
  <2>3. CASE RankDistance
    <3>1. PICK d : /\ distance_favored' = [distance_favored EXCEPT ![t] = d]
                   /\ Sunk(distance_favored[t], Distance(t), d)
      BY <1>6, <2>3, DistancePops
    <3>2. IsHeap(distance_favored'[i], Distance(i))
      BY <1>4, <3>1 DEF Sunk, AlarmsFit
    <3> QED BY <1>4, <2>3, <3>2 DEF RankDistance
  <2>4. CASE RankOverlap
    <3>1. PICK o : /\ overlap_favored' = [overlap_favored EXCEPT ![t] = o]
                   /\ Sunk(overlap_favored[t], binding_cnt, o)
      BY <1>6, <2>4, OverlapPops
    <3>2. IsHeap(overlap_favored'[i], binding_cnt)
      BY <1>4, <3>1 DEF Sunk, AlarmsFit
    <3> QED BY <1>4, <2>4, <3>2 DEF RankOverlap
  <2>5. CASE Rebuild
    <3>1. CASE UNCHANGED <<exploit_was_fuzzed, distance_favored, overlap_favored, fresh>>
      BY <1>4, <3>1
    <3>2. ASSUME NEW d, NEW o, NEW ewf, Rebuilds(d, o, ewf)
          PROVE  IsHeap(distance_favored'[i], Distance(i)) /\ IsHeap(overlap_favored'[i], binding_cnt)
      BY <1>4, <1>6, <3>2 DEF Rebuilds, AlarmsFit
    <3> QED BY <2>5, <3>1, <3>2, RebuildIs
  <2>6. ASSUME NEW a \in Alarms, NEW q \in Entries, NEW q0, NEW d0, NEW o0, NEW d, NEW o, NEW u,
               Adds(a, q, q0, d0, o0, d, o, u)
        PROVE  FALSE
    BY <1>7, <2>6 DEF Adds
  <2> QED BY <2>1, <2>2, <2>3, <2>4, <2>5, <2>6, StepIs
<1>8. CASE UNCHANGED keys /\ Rebuild
  <2>1. CASE UNCHANGED <<exploit_was_fuzzed, distance_favored, overlap_favored, fresh>>
    BY <1>7, <1>8, <2>1
  <2>2. ASSUME NEW d, NEW o, NEW ewf, Rebuilds(d, o, ewf) PROVE Ordered'
    <3>1. ASSUME NEW i \in fresh'
          PROVE  IsHeap(distance_favored'[i], Distance(i)) /\ IsHeap(overlap_favored'[i], binding_cnt)
      <4>1. i = t \/ i \in fresh
        BY <1>6, <2>2 DEF Rebuilds
      <4>2. CASE i = t
        BY <1>6, <2>2, <4>2 DEF Rebuilds, AlarmsFit
      <4>3. CASE i # t
        BY <1>4, <1>6, <2>2, <4>1, <4>3 DEF Rebuilds, AlarmsFit
      <4> QED BY <4>2, <4>3
    <3> QED BY <1>5, <1>8, <3>1
  <2> QED BY <1>8, <2>1, <2>2, RebuildIs
<1> QED BY <1>1, <1>2, <1>7, <1>8

\* The invariant holds of the empty queues a fuzzer starts with.
LEMMA HeapInvInit == Init => HeapInv
<1> SUFFICES ASSUME Init PROVE HeapInv
  OBVIOUS
<1>1. AlarmsFit
  <2>1. \A i \in Alarms : AlarmFits(i, exploit_queue[i], distance_favored[i], overlap_favored[i],
                                    unfuzzed_favored[i], rank_queue_cnt[i])
    BY EmptyFits DEF Init
  <2> QED BY <2>1 DEF Init, AlarmsFit
<1>2. RestOK
  BY HeapAssumption DEF Init, RestOK
<1>3. Ordered
  BY DEF Init, Ordered
<1> QED BY <1>1, <1>2, <1>3 DEF HeapInv

\* Every step keeps the invariant: what is pushed, popped or rebuilt stays within
\* the queue and its capacity, and the order of a rebuilt heap outlives its pops.
LEMMA HeapInvNext == HeapInv /\ [Next]_vars => HeapInv'
BY AlarmsAreKept, RestIsKept, OrderIsKept DEF HeapInv

\* The inductive invariant: the heaps of an alarm rank its exploit queue and have
\* room for it, the overlap heap is not longer than the queue, and the heaps
\* rank_queue has rebuilt since the last change of a key are ordered.
THEOREM HeapInvHolds == Spec => []HeapInv
<1>1. Init => HeapInv
  BY HeapInvInit
<1>2. HeapInv /\ [Next]_vars => HeapInv'
  BY HeapInvNext
<1> QED BY <1>1, <1>2, PTL DEF Spec

\* Every array add_to_exploit_queue and heap_push write to stays within ARR_SIZE, and
\* every variable keeps its type.
THEOREM TypesHold == Spec => []TypeOK
<1>1. HeapInv => TypeOK
  BY InvImplies
<1> QED BY <1>1, HeapInvHolds, PTL

\* What rank_queue can pop for an alarm is on the alarm's exploit queue, restarts
\* included, and rank_queue_cnt, by which calculate_score divides, is its length.
THEOREM HeapsRankTheQueue == Spec => []HeapsRankSeeds
<1>1. HeapInv => HeapsRankSeeds
  BY InvImplies
<1> QED BY <1>1, HeapInvHolds, PTL

\* heap_push and heap_pop keep the heap order: heaps rank_queue has rebuilt stay
\* heaps until the next change of a key in place.
THEOREM HeapsStayOrdered == Spec => []RebuiltHeapsAreOrdered
<1>1. HeapInv => RebuiltHeapsAreOrdered
  BY InvImplies
<1> QED BY <1>1, HeapInvHolds, PTL

---------------------------------------------------------------------------
(* What a step may take from a heap                                        *)

\* A heap that is left alone loses nothing.
LEMMA CountIs ==
  ASSUME NEW h \in Seq(Entries), NEW e
  PROVE  /\ Count(h, e) \in Nat /\ (h = <<>> => Count(h, e) = 0)
         /\ LosesOnlyTop(h, h, e)
<1>1. Len(h) \in Nat
  OBVIOUS
<1>2. IsFiniteSet(Places(h, e)) /\ Count(h, e) = Cardinality(Places(h, e)) /\ Count(h, e) \in Nat
  BY <1>1, PlacesAreFinite
<1>3. h = <<>> => Count(h, e) = 0
  <2>1. h = <<>> => Places(h, e) = {}
    BY DEF Places
  <2> QED BY <1>2, <2>1, FS_EmptySet
<1>4. LosesOnlyTop(h, h, e)
  BY <1>2 DEF LosesOnlyTop
<1> QED BY <1>2, <1>3, <1>4

\* heap_push loses nothing.
LEMMA PushLosesNone ==
  ASSUME NEW h \in Seq(Entries), NEW q, NEW r, NEW key, NEW ewf, Pushes(h, q, r, key, ewf), NEW e
  PROVE  LosesOnlyTop(h, r, e)
<1>1. Count(r, e) >= Count(h, e) /\ r \in Seq(Entries)
  BY DEF Pushes
<1>2. Count(r, e) \in Nat /\ Count(h, e) \in Nat
  BY <1>1, CountIs
<1> QED BY <1>1, <1>2 DEF LosesOnlyTop

\* heap_pop loses no more than the top.
LEMMA PopLosesTop ==
  ASSUME NEW h \in Seq(Entries), h # <<>>, NEW r, NEW key, Sunk(h, key, r), NEW e
  PROVE  LosesOnlyTop(h, r, e)
BY DEF Sunk, LosesOnlyTop

\* An empty heap, which is what a rebuild starts from, has nothing to lose.
LEMMA EmptyLosesNone ==
  ASSUME NEW h, h = <<>>, NEW r \in Seq(Entries), NEW e
  PROVE  LosesOnlyTop(h, r, e)
<1>1. h \in Seq(Entries)
  OBVIOUS
<1>2. Count(h, e) = 0 /\ Count(r, e) \in Nat
  BY <1>1, CountIs
<1> QED BY <1>2 DEF LosesOnlyTop

\* The action property for one step and one alarm.
LEMMA StepLosesOnlyTop ==
  ASSUME AlarmsFit, RestOK, [Next]_vars, NEW j \in Alarms, NEW e \in Entries
  PROVE  \/ Len(exploit_queue'[j]) <= 1
         \/ /\ LosesOnlyTop(distance_favored[j], distance_favored'[j], e)
            /\ LosesOnlyTop(overlap_favored[j], overlap_favored'[j], e)
<1>1. distance_favored[j] \in Seq(Entries) /\ overlap_favored[j] \in Seq(Entries)
  BY DEF AlarmsFit
<1>2. /\ LosesOnlyTop(distance_favored[j], distance_favored[j], e)
      /\ LosesOnlyTop(overlap_favored[j], overlap_favored[j], e)
  BY <1>1, CountIs
<1>3. PICK t \in Alarms : t = target
  BY DEF RestOK
<1>4. ASSUME NEW i \in Alarms, NEW q \in Entries, NEW q0, NEW d0, NEW o0, NEW d, NEW o, NEW u,
             Adds(i, q, q0, d0, o0, d, o, u)
      PROVE  \/ Len(exploit_queue'[j]) <= 1
             \/ /\ LosesOnlyTop(distance_favored[j], distance_favored'[j], e)
                /\ LosesOnlyTop(overlap_favored[j], overlap_favored'[j], e)
  <2>1. CASE j # i
    <3>1. distance_favored'[j] = distance_favored[j] /\ overlap_favored'[j] = overlap_favored[j]
      BY <1>4, <2>1 DEF Adds, AlarmsFit
    <3> QED BY <1>2, <3>1
  <2>2. CASE j = i /\ q0 = <<>>
    <3>1. exploit_queue'[j] = <<q>> \o q0 /\ Len(<<q>> \o q0) = Len(q0) + 1 /\ Len(q0) = 0
      BY <1>4, <2>2 DEF Adds, AlarmsFit
    <3> QED BY <3>1
  <2>3. CASE j = i /\ q0 # <<>>
    <3>1. d0 = distance_favored[j] /\ o0 = overlap_favored[j]
      BY <1>4, <2>3 DEF Adds
    <3>2. distance_favored'[j] = d /\ overlap_favored'[j] = o
      BY <1>4, <2>3 DEF Adds, AlarmsFit
    <3>3. LosesOnlyTop(distance_favored[j], d, e)
      <4>1. PICK key : Pushes(distance_favored[j], q, d, key, exploit_was_fuzzed)
        BY <1>4, <3>1 DEF Adds
      <4> QED BY <1>1, <4>1, PushLosesNone
    <3>4. LosesOnlyTop(overlap_favored[j], o, e)
      <4>1. PICK key : Pushes(overlap_favored[j], q, o, key, exploit_was_fuzzed)
        BY <1>4, <3>1 DEF Adds
      <4> QED BY <1>1, <4>1, PushLosesNone
    <3> QED BY <3>2, <3>3, <3>4
  <2> QED BY <2>1, <2>2, <2>3
<1>5. CASE Quiet \/ RankUnfuzzed
  <2>1. UNCHANGED <<distance_favored, overlap_favored>>
    BY <1>5 DEF Quiet, heaps, RankUnfuzzed
  <2> QED BY <1>2, <2>1
<1>6. CASE RankDistance
  <2>1. PICK d : /\ distance_favored' = [distance_favored EXCEPT ![t] = d]
                 /\ distance_favored[t] # <<>>
                 /\ Sunk(distance_favored[t], Distance(t), d)
    BY <1>3, <1>6, DistancePops
  <2>2. overlap_favored' = overlap_favored
    BY <1>6 DEF RankDistance
  <2>3. CASE j = t
    <3>1. LosesOnlyTop(distance_favored[j], d, e)
      BY <1>1, <2>1, <2>3, PopLosesTop
    <3>2. distance_favored'[j] = d
      BY <2>1, <2>3 DEF AlarmsFit
    <3> QED BY <1>2, <2>2, <3>1, <3>2
  <2>4. CASE j # t
    <3>1. distance_favored'[j] = distance_favored[j]
      BY <2>1, <2>4 DEF AlarmsFit
    <3> QED BY <1>2, <2>2, <3>1
  <2> QED BY <2>3, <2>4
<1>7. CASE RankOverlap
  <2>1. PICK o : /\ overlap_favored' = [overlap_favored EXCEPT ![t] = o]
                 /\ overlap_favored[t] # <<>>
                 /\ Sunk(overlap_favored[t], binding_cnt, o)
    BY <1>3, <1>7, OverlapPops
  <2>2. distance_favored' = distance_favored
    BY <1>7 DEF RankOverlap
  <2>3. CASE j = t
    <3>1. LosesOnlyTop(overlap_favored[j], o, e)
      BY <1>1, <2>1, <2>3, PopLosesTop
    <3>2. overlap_favored'[j] = o
      BY <2>1, <2>3 DEF AlarmsFit
    <3> QED BY <1>2, <2>2, <3>1, <3>2
  <2>4. CASE j # t
    <3>1. overlap_favored'[j] = overlap_favored[j]
      BY <2>1, <2>4 DEF AlarmsFit
    <3> QED BY <1>2, <2>2, <3>1
  <2> QED BY <2>3, <2>4
<1>8. CASE Rebuild
  <2>1. CASE UNCHANGED <<exploit_was_fuzzed, distance_favored, overlap_favored, fresh>>
    BY <1>2, <2>1
  <2>2. ASSUME NEW d, NEW o, NEW ewf, Rebuilds(d, o, ewf)
        PROVE  /\ LosesOnlyTop(distance_favored[j], distance_favored'[j], e)
               /\ LosesOnlyTop(overlap_favored[j], overlap_favored'[j], e)
    <3>1. CASE j = t
      <4>1. /\ distance_favored[j] = <<>> /\ overlap_favored[j] = <<>>
            /\ d \in Seq(Entries) /\ o \in Seq(Entries)
            /\ distance_favored'[j] = d /\ overlap_favored'[j] = o
        BY <1>3, <2>2, <3>1 DEF Rebuilds, AlarmsFit
      <4> QED BY <4>1, EmptyLosesNone
    <3>2. CASE j # t
      <4>1. distance_favored'[j] = distance_favored[j] /\ overlap_favored'[j] = overlap_favored[j]
        BY <1>3, <2>2, <3>2 DEF Rebuilds, AlarmsFit
      <4> QED BY <1>2, <4>1
    <3> QED BY <3>1, <3>2
  <2> QED BY <1>8, <2>1, <2>2, RebuildIs
<1> QED BY <1>4, <1>5, <1>6, <1>7, <1>8, StepIs

\* Whatever the order of a heap is worth after its keys changed in place, a step
\* of rank_queue removes nothing but the entry at the top, and a binding nothing
\* but what a restart of the queue drops.
THEOREM PopsLoseOnlyTheTop == Spec => OnlyTheTopLeaves
<1>1. HeapInv /\ [Next]_vars =>
        [\A i \in Alarms, e \in Entries :
           \/ Len(exploit_queue'[i]) <= 1
           \/ /\ LosesOnlyTop(distance_favored[i], distance_favored'[i], e)
              /\ LosesOnlyTop(overlap_favored[i], overlap_favored'[i], e)]_vars
  BY StepLosesOnlyTop DEF HeapInv
<1> QED BY <1>1, HeapInvHolds, PTL DEF Spec, OnlyTheTopLeaves

---------------------------------------------------------------------------
(* No seed is lost between two rebuilds                                    *)

\* No entry is on the queues of two alarms.
Unshared == \A q \in Entries : \A a, b \in Reaches[q] : a = b

\* A step keeps the seeds of unshared entries ranked: the pop of a seed marks it,
\* and the rebuild that clears the mark ranks it again.
LEMMA SeedsRankedNext ==
  ASSUME HeapInv, [Next]_vars, Unshared, SeedsAreRankedOrFuzzed
  PROVE  SeedsAreRankedOrFuzzed'
<1> USE DEF HeapInv
<1>1. ASSUME NEW j \in Alarms
      PROVE  /\ exploit_queue[j] \in Seq(Entries) /\ overlap_favored[j] \in Seq(Entries)
             /\ Len(exploit_queue[j]) <= capacity =>
                  Range(exploit_queue[j]) \ exploit_was_fuzzed \subseteq Range(overlap_favored[j])
             /\ \A e \in Range(exploit_queue[j]) : e \in Entries /\ j \in Reaches[e]
  <2>1. exploit_queue[j] \in Seq(Entries) /\ overlap_favored[j] \in Seq(Entries)
    BY DEF AlarmsFit
  <2>2. \A e \in Range(exploit_queue[j]) : e \in Entries
    BY <2>1 DEF Range
  <2>3. \A e \in Range(exploit_queue[j]) : j \in Reaches[e]
    BY DEF AlarmsFit, AlarmFits
  <2> QED BY <2>1, <2>2, <2>3 DEF SeedsAreRankedOrFuzzed, Seeds
<1> SUFFICES ASSUME NEW j \in Alarms, Len(exploit_queue'[j]) <= capacity,
                    NEW e \in Range(exploit_queue'[j]), e \notin exploit_was_fuzzed'
             PROVE  e \in Range(overlap_favored'[j])
  BY DEF SeedsAreRankedOrFuzzed, Seeds
<1>2. PICK t \in Alarms : t = target
  BY DEF RestOK
<1>3. ASSUME exploit_queue'[j] = exploit_queue[j], overlap_favored'[j] = overlap_favored[j],
             exploit_was_fuzzed \subseteq exploit_was_fuzzed'
      PROVE  e \in Range(overlap_favored'[j])
  BY <1>1, <1>3
<1>4. ASSUME NEW i \in Alarms, NEW q \in Entries, NEW q0, NEW d0, NEW o0, NEW d, NEW o, NEW u,
             Adds(i, q, q0, d0, o0, d, o, u)
      PROVE  e \in Range(overlap_favored'[j])
  <2>0. exploit_was_fuzzed' = exploit_was_fuzzed
    BY <1>4 DEF Adds, flags
  <2>1. CASE j # i
    <3>1. exploit_queue'[j] = exploit_queue[j] /\ overlap_favored'[j] = overlap_favored[j]
      BY <1>4, <2>1 DEF Adds, AlarmsFit
    <3> QED BY <1>3, <2>0, <3>1
  <2>2. CASE j = i
    <3>1. exploit_queue'[j] = <<q>> \o q0 /\ overlap_favored'[j] = o
      BY <1>4, <2>2 DEF Adds, AlarmsFit
    <3>2. PICK key : Pushes(o0, q, o, key, exploit_was_fuzzed)
      BY <1>4 DEF Adds
    <3>3. /\ q0 \in Seq(Entries) /\ o0 \in Seq(Entries) /\ Len(o0) <= Len(q0)
          /\ Len(<<q>> \o q0) = Len(q0) + 1 /\ Range(<<q>> \o q0) = {q} \cup Range(q0)
      BY <1>4 DEF Adds
    <3>4. Len(q0) < capacity /\ Len(o0) < capacity
      <4>1. Len(q0) \in Nat /\ Len(o0) \in Nat /\ capacity \in Nat
        BY <3>3, HeapAssumption
      <4>2. Len(q0) + 1 <= capacity
        BY <3>1, <3>3
      <4>3. Len(o0) <= Len(q0)
        BY <3>3
      <4> QED BY <4>1, <4>2, <4>3
    <3>5. CASE e = q
      BY <2>0, <3>1, <3>2, <3>4, <3>5 DEF Pushes
    <3>6. CASE e \in Range(q0)
      <4>1. CASE q0 = <<>>
        BY <3>6, <4>1 DEF Range
      <4>2. CASE q0 = exploit_queue[i] /\ o0 = overlap_favored[i]
        <5>1. Len(exploit_queue[i]) <= capacity
          <6>1. Len(q0) \in Nat /\ capacity \in Nat
            BY <3>3, HeapAssumption
          <6> QED BY <3>4, <4>2, <6>1
        <5>2. e \in Range(overlap_favored[i])
          BY <1>1, <2>0, <3>6, <4>2, <5>1
        <5> QED BY <3>1, <3>2, <4>2, <5>2 DEF Pushes
      <4> QED BY <1>4, <4>1, <4>2 DEF Adds
    <3> QED BY <3>1, <3>3, <3>5, <3>6
  <2> QED BY <2>1, <2>2
<1>5. CASE Quiet
  BY <1>3, <1>5 DEF Quiet, heaps
<1>6. CASE RankUnfuzzed
  <2>1. UNCHANGED <<exploit_queue, overlap_favored>> /\ exploit_was_fuzzed \subseteq exploit_was_fuzzed'
    BY <1>6 DEF RankUnfuzzed, TakeTop
  <2> QED BY <1>3, <2>1
<1>7. CASE RankDistance
  <2>1. UNCHANGED <<exploit_queue, overlap_favored>> /\ exploit_was_fuzzed \subseteq exploit_was_fuzzed'
    BY <1>7 DEF RankDistance, TakeTop
  <2> QED BY <1>3, <2>1
<1>8. CASE RankOverlap
  <2>1. PICK o : /\ overlap_favored' = [overlap_favored EXCEPT ![t] = o]
                 /\ Sunk(overlap_favored[t], binding_cnt, o)
    BY <1>2, <1>8, OverlapPops
  <2>2. exploit_queue' = exploit_queue /\ exploit_was_fuzzed \subseteq exploit_was_fuzzed'
    BY <1>8 DEF RankOverlap, TakeTop
  <2>3. CASE j # t
    <3>1. overlap_favored'[j] = overlap_favored[j]
      BY <2>1, <2>3 DEF AlarmsFit
    <3> QED BY <1>3, <2>2, <3>1
  <2>4. CASE j = t
    <3>1. overlap_favored'[j] = o
      BY <2>1, <2>4 DEF AlarmsFit
    <3>2. e \in Range(overlap_favored[j])
      BY <1>1, <2>2
    <3>3. e # overlap_favored[j][1]
      \* The top is picked, or it had been picked before.
      <4>1. overlap_favored[t][1] \in exploit_was_fuzzed'
        BY <1>2, <1>8 DEF RankOverlap, TakeTop
      <4> QED BY <2>4, <4>1
    <3> QED BY <2>1, <2>4, <3>1, <3>2, <3>3 DEF Sunk
  <2> QED BY <2>3, <2>4
<1>9. CASE Rebuild
  <2>1. exploit_queue' = exploit_queue
    BY <1>9 DEF Rebuild
  <2>2. CASE UNCHANGED <<exploit_was_fuzzed, distance_favored, overlap_favored, fresh>>
    BY <1>3, <2>1, <2>2
  <2>3. ASSUME NEW d, NEW o, NEW ewf, Rebuilds(d, o, ewf) PROVE e \in Range(overlap_favored'[j])
    <3>1. CASE j = t
      <4>1. overlap_favored'[j] = o /\ Seeds(t) \subseteq Range(o)
        BY <1>2, <2>1, <2>3, <3>1 DEF Rebuilds, AlarmsFit
      <4> QED BY <2>1, <3>1, <4>1 DEF Seeds
    <3>2. CASE j # t
      <4>1. overlap_favored'[j] = overlap_favored[j] /\ exploit_was_fuzzed' = exploit_was_fuzzed \ Seeds(t)
        BY <1>2, <2>3, <3>2 DEF Rebuilds, AlarmsFit
      <4>2. e \notin Seeds(t)
        \* An entry of both queues would be shared.
        BY <1>1, <2>1, <3>2 DEF Unshared, Seeds
      <4>3. e \notin exploit_was_fuzzed
        BY <4>1, <4>2
      <4> QED BY <1>1, <2>1, <4>1, <4>3
    <3> QED BY <3>1, <3>2
  <2> QED BY <1>9, <2>2, <2>3, RebuildIs
<1> QED BY <1>4, <1>5, <1>6, <1>7, <1>8, <1>9, StepIs DEF HeapInv

\* As long as no entry is on the queues of two alarms, and a queue fits its heaps,
\* rank_queue loses none of its seeds: each is fuzzed or still in the overlap heap.
THEOREM NoSeedIsLost == Unshared => (Spec => []SeedsAreRankedOrFuzzed)
<1> SUFFICES ASSUME Unshared PROVE Spec => []SeedsAreRankedOrFuzzed
  OBVIOUS
<1>1. Init => SeedsAreRankedOrFuzzed
  BY DEF Init, SeedsAreRankedOrFuzzed, Seeds, Range
<1>2. HeapInv /\ [Next]_vars /\ SeedsAreRankedOrFuzzed => SeedsAreRankedOrFuzzed'
  BY SeedsRankedNext
<1> QED BY <1>1, <1>2, HeapInvHolds, PTL DEF Spec

---------------------------------------------------------------------------
(* A rebuild gives rank_queue something to pick                            *)

\* rank_queue ranks for an alarm with seeds, and nothing is queued meanwhile.
TargetHasSeeds == at # "idle" => exploit_queue[target] # <<>>

\* The step of a rebuild leaves seeds in the overlap heap, all of them eligible.
RebuildsRefill ==
  [][Rebuild /\ distance_favored[target] = <<>> /\ overlap_favored[target] = <<>> =>
       /\ overlap_favored'[target] # <<>>
       /\ Range(overlap_favored'[target]) \cap exploit_was_fuzzed' = {}]_vars

\* Only the call of rank_queue leaves the idle state, and only then has it to look.
LEMMA TargetKeepsSeeds == TargetHasSeeds /\ [Next]_vars => TargetHasSeeds'
<1> SUFFICES ASSUME TargetHasSeeds, [Next]_vars PROVE TargetHasSeeds'
  OBVIOUS
<1> USE DEF TargetHasSeeds
<1>1. ASSUME NEW i, NEW q, BindCur(i, q) \/ BindVirgin(i, q) \/ BindHit(i, q) \/ Rejected(i, q)
      PROVE  at' = "idle"
  BY <1>1 DEF BindCur, BindVirgin, BindHit, Bind, Rejected
<1>2. ASSUME NEW q, CountBinding(q) \/ FuzzOne(q) PROVE at' = "idle"
  BY <1>2 DEF CountBinding, FuzzOne
<1>3. ASSUME NEW i, RankQueue(i) PROVE exploit_queue'[target'] # <<>>
  BY <1>3 DEF RankQueue
<1>4. ASSUME TryUnfuzzed \/ TryDistance \/ TryOverlap
      PROVE  at # "idle" /\ UNCHANGED <<exploit_queue, target>>
  BY <1>4 DEF TryUnfuzzed, TryDistance, TryOverlap, Branch
<1>5. ASSUME PickFromQueue PROVE at' = "idle"
  BY <1>5 DEF PickFromQueue
<1>6. ASSUME RankUnfuzzed \/ RankDistance \/ RankOverlap \/ HeapEmpty \/ Rebuild
      PROVE  at # "idle" /\ UNCHANGED <<exploit_queue, target>>
  BY <1>6 DEF RankUnfuzzed, RankDistance, RankOverlap, TakeTop, HeapEmpty, Rebuild
<1>7. ASSUME UNCHANGED vars PROVE UNCHANGED <<at, exploit_queue, target>>
  BY <1>7 DEF vars
<1> QED BY <1>1, <1>2, <1>3, <1>4, <1>5, <1>6, <1>7 DEF Next, RankStep

\* rank_queue's loop has no bound; what ends it is that a rebuild, of a queue of any
\* length, makes every seed eligible again and ranks at least one: the next pop from
\* the overlap heap is a pick, whatever other alarms did to flags and keys before.
THEOREM RebuildsGivePicks == Spec => RebuildsRefill
<1>1. Init => TargetHasSeeds
  BY DEF Init, TargetHasSeeds
<1>2. HeapInv /\ TargetHasSeeds /\ [Next]_vars =>
        [Rebuild /\ distance_favored[target] = <<>> /\ overlap_favored[target] = <<>> =>
           /\ overlap_favored'[target] # <<>>
           /\ Range(overlap_favored'[target]) \cap exploit_was_fuzzed' = {}]_vars
  <2> SUFFICES ASSUME HeapInv, TargetHasSeeds, Rebuild,
                      distance_favored[target] = <<>>, overlap_favored[target] = <<>>
               PROVE  /\ overlap_favored'[target] # <<>>
                      /\ Range(overlap_favored'[target]) \cap exploit_was_fuzzed' = {}
    OBVIOUS
  <2> USE DEF HeapInv
  <2>1. PICK t \in Alarms : t = target
    BY DEF RestOK
  <2>2. Seeds(t) # {}
    <3>1. exploit_queue[t] # <<>> /\ exploit_queue[t] \in Seq(Entries)
      BY <2>1 DEF TargetHasSeeds, Rebuild, AlarmsFit
    <3>2. exploit_queue[t][1] \in Range(exploit_queue[t])
      BY <3>1 DEF Range
    <3> QED BY <3>2 DEF Seeds
  <2>3. PICK ewf : /\ ewf = exploit_was_fuzzed \ Seeds(t) /\ exploit_was_fuzzed' = ewf
                   /\ Range(overlap_favored'[t]) \subseteq Seeds(t)
                   /\ Range(overlap_favored'[t]) # {}
    <3>1. PICK d, o, ewf : Rebuilds(d, o, ewf)
      BY RebuildFills
    <3>2. overlap_favored'[t] = o
      BY <2>1, <3>1 DEF Rebuilds, AlarmsFit
    <3> QED BY <2>1, <2>2, <3>1, <3>2 DEF Rebuilds
  <2>4. overlap_favored'[t] # <<>>
    <3>1. Range(<<>>) = {}
      BY DEF Range
    <3> QED BY <2>3, <3>1
  <2> QED BY <2>1, <2>3, <2>4
<1> QED BY <1>1, <1>2, TargetKeepsSeeds, HeapInvHolds, PTL DEF Spec, RebuildsRefill
=============================================================================
