--------------------------- MODULE FuzzOne_proofs ---------------------------
(***************************************************************************)
(* One call of fuzz_one, for every dictionary, target and size of the      *)
(* limits: trimming keeps what the target makes of an input, every         *)
(* position of the deterministic stages starts from the input, and havoc   *)
(* stays within its buffers and its energy.                                *)
(*                                                                         *)
(* Restorable says in which bytes out_buf may differ from the input: the   *)
(* word, or the last token, at the position; and that the tokens still to  *)
(* come at the position are at least as long as the last, so that what is  *)
(* put back covers them all.  For the automatic tokens that rests on       *)
(* Resorted: maybe_add_auto sorts those in use by length whatever it adds. *)
(*                                                                         *)
(* Trimming adds to TrimKeepsTrace that the input in memory always has the *)
(* recorded checksum, and the file is behind only when needs_write is set. *)
(* Lengths and Energy are what each stage of havoc hands to the next: room *)
(* for the input before every stack of tweaks, and the score of the entry  *)
(* when a stage begins.  FuzzInv puts the parts in the order of fuzz_one.  *)
(*                                                                         *)
(* CoverInv says what the stages have run: behind the current position     *)
(* every flip, every sum in both byte orders and every known integer has   *)
(* been run or straddles bytes, and at the position every attempt so far,  *)
(* but for big-endian known integers that are the little-endian form of    *)
(* one still to come.  What could_be_arith and could_be_interest accept,   *)
(* and the sums that do not carry, are then sums and known integers of     *)
(* places that were passed.  What could_be_bitflip accepts rests on the    *)
(* exclusive or, a sum over bits, and is the hypothesis BitflipsAreWalked. *)
(***************************************************************************)
EXTENDS FuzzOne, SequenceTheorems, WellFoundedInduction, TLAPS

Token == Seq(Byte)
AutoToken == [data : Token, hit_cnt : Nat]

LEMMA Sizes ==
  /\ ByteBits \in Nat \ {0} /\ Interesting \in [{1, 2, 4} -> Seq(Int)]
  /\ MAX_FILE \in Nat \ {0} /\ USE_AUTO_EXTRAS \in Nat /\ MAX_AUTO_EXTRAS \in Nat
  BY ConfigAssumption, DetAssumption

\* The bytes a read returns are those of the buffer, as far as it goes.
LEMMA AtIs ==
  ASSUME NEW s \in Seq(Byte), NEW p \in 0 .. Len(s), NEW n \in Nat
  PROVE  /\ \A x \in Int : x \in DOMAIN At(s, p, n) <=> x \in 1 .. n /\ p + x <= Len(s)
         /\ \A x \in DOMAIN At(s, p, n) : At(s, p, n)[x] = s[p + x]
<1>1. PICK m \in Nat : m = Smaller(p + n, Len(s)) /\ m <= Len(s) /\ p <= m
  BY DEF Smaller
<1>2. At(s, p, n) = SubSeq(s, p + 1, m)
  BY <1>1 DEF At
<1>3. PICK r : r = SubSeq(s, p + 1, m)
  OBVIOUS
<1>4. /\ r \in Seq(Byte) /\ Len(r) = IF p + 1 <= m THEN m - (p + 1) + 1 ELSE 0
      /\ \A x \in 1 .. m - (p + 1) + 1 : r[x] = s[(p + 1) + x - 1]
  <2>1. \A x \in p + 1 .. m : s[x] \in Byte
    BY <1>1
  <2>2. m \in Int /\ p + 1 \in Int
    BY <1>1
  <2> HIDE DEF Byte
  <2> QED BY <1>3, <2>1, <2>2, SubSeqProperties
<1>5. Len(r) = m - p /\ \A x \in 1 .. m - p : r[x] = s[p + x]
  <2>1. \A x \in 1 .. m - p : (p + 1) + x - 1 = p + x
    OBVIOUS
  <2>2. m - (p + 1) + 1 = m - p
    BY <1>1
  <2> QED BY <1>1, <1>4, <2>1, <2>2
<1>6. DOMAIN r = 1 .. m - p
  BY <1>4, <1>5
<1>7. \A x \in Int : x \in 1 .. m - p <=> x \in 1 .. n /\ p + x <= Len(s)
  <2>1. m = IF p + n < Len(s) THEN p + n ELSE Len(s)
    BY <1>1 DEF Smaller
  <2> QED BY <2>1
<1> QED BY <1>2, <1>3, <1>5, <1>6, <1>7

\* A write changes the bytes it is given, in a buffer of the same length.
LEMMA PutIs ==
  ASSUME NEW buf, Len(buf) \in Nat, NEW p, NEW bytes
  PROVE  /\ DOMAIN Put(buf, p, bytes) = 1 .. Len(buf)
         /\ Len(Put(buf, p, bytes)) = Len(buf)
         /\ \A k \in 1 .. Len(buf) :
              Put(buf, p, bytes)[k] = IF k - p \in DOMAIN bytes THEN bytes[k - p] ELSE buf[k]
  BY DEF Put

LEMMA SameBuffer ==
  ASSUME NEW s \in Seq(Byte), NEW b, DOMAIN b = 1 .. Len(s), b = [k \in DOMAIN b |-> b[k]],
         \A k \in 1 .. Len(s) : b[k] = s[k]
  PROVE  b = s
  OBVIOUS

\* The least of some numbers, and what Min makes of them.
LEMMA MinIsLeast ==
  ASSUME NEW S \in SUBSET Nat, S # {}
  PROVE  Min(S) \in S /\ \A m \in S : Min(S) <= m
<1>1. PICK m : m \in S
  OBVIOUS
<1>2. IsWellFoundedOn(OpToRel(<, Nat), Nat)
  BY NatLessThanWellFounded
<1>3. PICK k \in S : \A x \in S : ~ (<<x, k>> \in OpToRel(<, Nat))
  BY <1>1, <1>2, WFMin
<1>4. \A x \in S : k <= x
  <2> SUFFICES ASSUME NEW x \in S, x < k PROVE FALSE
    OBVIOUS
  <2>1. <<x, k>> \in OpToRel(<, Nat)
    BY DEF OpToRel
  <2> QED BY <1>3, <2>1
<1> QED BY <1>3, <1>4 DEF Min

\* Numbers that do not fall from one to the next do not fall at all.
LEMMA NoneFalls ==
  ASSUME NEW n \in Nat, NEW f, \A k \in 1 .. n : f[k] \in Nat,
         \A k \in 1 .. n - 1 : f[k] <= f[k + 1]
  PROVE  \A a, b \in 1 .. n : a <= b => f[a] <= f[b]
<1> SUFFICES ASSUME NEW a \in 1 .. n
             PROVE  \A b \in 1 .. n : a <= b => f[a] <= f[b]
  OBVIOUS
<1> DEFINE Bad == {b \in 1 .. n : a <= b /\ ~(f[a] <= f[b])}
<1>1. CASE Bad = {}
  BY <1>1
<1>2. CASE Bad # {}
  <2>1. Min(Bad) \in Bad /\ \A m \in Bad : Min(Bad) <= m
    <3>1. Bad \in SUBSET Nat
      OBVIOUS
    <3> HIDE DEF Bad
    <3> QED BY <1>2, <3>1, MinIsLeast
  <2>2. PICK m \in 1 .. n : m \in Bad /\ \A x \in Bad : m <= x
    BY <2>1
  <2>3. a < m
    BY <2>2
  <2>4. m - 1 \in 1 .. n - 1 /\ m - 1 \notin Bad /\ a <= m - 1
    BY <2>2, <2>3
  <2>5. f[m - 1] <= f[m] /\ f[a] <= f[m - 1]
    BY <2>4
  <2> QED BY <2>2, <2>4, <2>5
<1> QED BY <1>1, <1>2

\* In a list that is ordered no token is longer than a later one.
LEMMA OrderedIs ==
  ASSUME NEW tokens \in Seq(Token), Ordered(tokens)
  PROVE  \A a, b \in 1 .. Len(tokens) : a <= b => Len(tokens[a]) <= Len(tokens[b])
<1> DEFINE f == [k \in 1 .. Len(tokens) |-> Len(tokens[k])]
<1>1. \A k \in 1 .. Len(tokens) : f[k] \in Nat
  BY DEF Token
<1>2. \A k \in 1 .. Len(tokens) - 1 : f[k] <= f[k + 1]
  BY DEF Ordered
<1>3. \A a, b \in 1 .. Len(tokens) : a <= b => f[a] <= f[b]
  <2>1. Len(tokens) \in Nat
    OBVIOUS
  <2> HIDE DEF f
  <2> QED BY <1>1, <1>2, <2>1, NoneFalls
<1> QED BY <1>3

---------------------------------------------------------------------------
(* The automatic tokens                                                    *)

\* qsort moves elements about among the first m.
LEMMA SortingsAre ==
  ASSUME NEW s \in Seq(AutoToken), NEW m \in 0 .. Len(s), NEW rank, NEW r \in Sortings(s, m, rank)
  PROVE  /\ r \in Seq(AutoToken) /\ Len(r) = Len(s)
         /\ \E f \in [1 .. m -> 1 .. m] :
              /\ \A k \in 1 .. m - 1 : rank[f[k]] <= rank[f[k + 1]]
              /\ \A k \in 1 .. m : r[k] = s[f[k]]
<1>1. PICK f \in [1 .. m -> 1 .. m] :
        /\ \A k \in 1 .. m - 1 : rank[f[k]] <= rank[f[k + 1]]
        /\ r = [k \in DOMAIN s |-> IF k <= m THEN s[f[k]] ELSE s[k]]
  BY DEF Sortings
<1>2. DOMAIN s = 1 .. Len(s) /\ \A k \in 1 .. Len(s) : s[k] \in AutoToken
  OBVIOUS
<1>3. \A k \in 1 .. m : f[k] \in 1 .. Len(s)
  BY <1>1
<1>4. r \in [1 .. Len(s) -> AutoToken]
  BY <1>1, <1>2, <1>3
<1>5. r \in Seq(AutoToken) /\ Len(r) = Len(s)
  BY <1>4
<1>6. \A k \in 1 .. m : r[k] = s[f[k]]
  BY <1>1, <1>2
<1> QED BY <1>1, <1>5, <1>6

LEMMA ResortedIs ==
  ASSUME NEW s \in Seq(AutoToken), NEW r \in Resorted(s)
  PROVE  r \in Seq(AutoToken) /\ Ordered(Used(r)) /\ Len(r) = Len(s)
<1>1. PICK t \in ByUse(s) : r \in ByLength(t)
  BY DEF Resorted
<1>2. t \in Seq(AutoToken) /\ Len(t) = Len(s)
  BY <1>1, SortingsAre DEF ByUse
<1>3. PICK m \in 0 .. Len(t) : m = Smaller(USE_AUTO_EXTRAS, Len(t))
  BY <1>2, Sizes DEF Smaller
<1> DEFINE rank == [k \in DOMAIN t |-> Len(t[k].data)]
<1>4. r \in Sortings(t, m, rank)
  BY <1>1, <1>3 DEF ByLength
<1>5. r \in Seq(AutoToken) /\ Len(r) = Len(t)
  BY <1>2, <1>4, SortingsAre
<1>6. PICK f \in [1 .. m -> 1 .. m] :
        /\ \A k \in 1 .. m - 1 : rank[f[k]] <= rank[f[k + 1]]
        /\ \A k \in 1 .. m : r[k] = t[f[k]]
  <2> HIDE DEF rank
  <2>1. PICK g \in [1 .. m -> 1 .. m] :
          /\ \A k \in 1 .. m - 1 : rank[g[k]] <= rank[g[k + 1]]
          /\ \A k \in 1 .. m : r[k] = t[g[k]]
    BY <1>2, <1>3, <1>4, SortingsAre
  <2> QED BY <2>1
<1>7. \A k \in 1 .. m : rank[f[k]] = Len(r[k].data)
  BY <1>2, <1>6
<1>8. Smaller(Len(r), USE_AUTO_EXTRAS) = m
  BY <1>2, <1>3, <1>5, Sizes DEF Smaller
<1>9. Used(r) = [k \in 1 .. m |-> r[k].data]
  BY <1>8 DEF Used
<1>10. Len(Used(r)) = m
  BY <1>9
<1>11. Ordered(Used(r))
  <2> SUFFICES ASSUME NEW k \in 1 .. m - 1
               PROVE  Len(Used(r)[k]) <= Len(Used(r)[k + 1])
    BY <1>10 DEF Ordered
  <2>1. k \in 1 .. m /\ k + 1 \in 1 .. m
    OBVIOUS
  <2>2. Used(r)[k] = r[k].data /\ Used(r)[k + 1] = r[k + 1].data
    BY <1>9, <2>1
  <2>3. rank[f[k]] <= rank[f[k + 1]]
    BY <1>6
  <2> HIDE DEF rank
  <2> QED BY <1>7, <2>1, <2>2, <2>3
<1> QED BY <1>2, <1>5, <1>11

\* A token that is added takes its place in the order.
LEMMA CollectedIs ==
  ASSUME a_extras \in Seq(AutoToken), Ordered(Used(a_extras)), NEW mem \in Token,
         NEW r \in Collected(mem)
  PROVE  r \in Seq(AutoToken) /\ Ordered(Used(r))
<1> DEFINE new == [data |-> mem, hit_cnt |-> 0]
           Same == {k \in DOMAIN a_extras : SameNoCase(a_extras[k].data, mem)}
<1>1. new \in AutoToken
  BY DEF AutoToken
<1>2. CASE r = a_extras
  BY <1>2
<1>3. CASE Same # {} /\ r \in Resorted([a_extras EXCEPT ![Min(Same)].hit_cnt = @ + 1])
  <2>1. Same \in SUBSET Nat
    OBVIOUS
  <2>2. Min(Same) \in Same
    <3> HIDE DEF Same
    <3> QED BY <1>3, <2>1, MinIsLeast
  <2>3. PICK k \in 1 .. Len(a_extras) : k = Min(Same)
    <3>1. Same \subseteq 1 .. Len(a_extras)
      OBVIOUS
    <3> HIDE DEF Same
    <3> QED BY <2>2, <3>1
  <2>4. [a_extras[k] EXCEPT !.hit_cnt = @ + 1] \in AutoToken
    <3>1. PICK u \in AutoToken : u = a_extras[k]
      OBVIOUS
    <3> QED BY <3>1 DEF AutoToken
  <2>5. [a_extras EXCEPT ![k].hit_cnt = @ + 1] = [a_extras EXCEPT ![k] = [a_extras[k] EXCEPT !.hit_cnt = @ + 1]]
    OBVIOUS
  <2>6. [a_extras EXCEPT ![k].hit_cnt = @ + 1] \in Seq(AutoToken)
    BY <2>4, <2>5
  <2> QED BY <1>3, <2>3, <2>6, ResortedIs
<1>4. CASE r \in Resorted(Append(a_extras, new))
  <2>1. Append(a_extras, new) \in Seq(AutoToken)
    <3> HIDE DEF new
    <3> QED BY <1>1
  <2> QED BY <1>4, <2>1, ResortedIs
<1>5. CASE r \in UNION {Resorted([a_extras EXCEPT ![k] = new]) :
                          k \in 1 + MAX_AUTO_EXTRAS \div 2 .. MAX_AUTO_EXTRAS}
  <2>1. PICK k : r \in Resorted([a_extras EXCEPT ![k] = new])
    BY <1>5
  <2>2. [a_extras EXCEPT ![k] = new] \in Seq(AutoToken)
    <3> HIDE DEF new
    <3>1. a_extras \in [1 .. Len(a_extras) -> AutoToken]
      OBVIOUS
    <3>2. [a_extras EXCEPT ![k] = new] \in [1 .. Len(a_extras) -> AutoToken]
      BY <1>1, <3>1
    <3> QED BY <3>2
  <2> QED BY <2>1, <2>2, ResortedIs
<1>6. r = a_extras \/ r \in maybe_add_auto(mem)
  BY DEF Collected
<1>7. CASE r \in maybe_add_auto(mem)
  <2>1. CASE Rejected(mem)
    BY <1>2, <1>7, <2>1 DEF maybe_add_auto
  <2> QED BY <1>2, <1>3, <1>4, <1>5, <1>7, <2>1 DEF maybe_add_auto
<1> QED BY <1>2, <1>6, <1>7

---------------------------------------------------------------------------
(* The deterministic stages                                                *)

\* What out_buf may differ in, and what is known of the next tokens and of the
\* word that is put back.
Restorable ==
  /\ Len(out_buf) = in_len /\ DOMAIN out_buf = 1 .. in_len
  /\ out_buf = [k \in DOMAIN out_buf |-> out_buf[k]]
  /\ j = 0 => last_len = 0
  /\ InDet => orig = At(in_buf, i, Width)
  /\ ~InPosition \/ Kind \in {"bit", "byte"} => j = 0
  /\ \A k \in 1 .. in_len : out_buf[k] # in_buf[k] =>
       \/ Kind \in {"arith", "int"} /\ j > 0 /\ k - i \in 1 .. Width
       \/ Kind \in {"over", "auto"} /\ k - i \in 1 .. last_len
  /\ Kind \in {"over", "auto"} =>
       \A m \in 1 .. Len(Tokens) : m > j => last_len <= Len(Tokens[m])

DetTypes ==
  /\ in_buf \in Seq(Byte)
  /\ extras \in Seq(Token) /\ Ordered(extras)
  /\ a_extras \in Seq(AutoToken) /\ Ordered(Used(a_extras))
  /\ a_collect \in Token
  /\ stage \in 0 .. 16 /\ i \in Nat /\ j \in Nat /\ last_len \in Nat

DetInv == DetTypes /\ (stage > 0 => Restorable)

LEMMA StagesAre ==
  /\ DOMAIN Stages = 1 .. 15 /\ Len(Stages) = 15
  /\ Stages[1] = [kind |-> "bit", n |-> 1]
  /\ \A s \in 1 .. 15 :
       /\ Stages[s].kind \in {"bit", "byte", "arith", "int", "over", "insert", "auto"}
       /\ Stages[s].n \in {0, 1, 2, 4}
       /\ Stages[s].kind \in {"arith", "int"} => Stages[s].n \in {1, 2, 4}
       /\ Stages[s].kind = "bit" => Stages[s].n \in {1, 2, 4}
<1>1. DOMAIN Stages = 1 .. 15 /\ Len(Stages) = 15
  BY DEF Stages
<1>2. \A s \in 1 .. 15 : s \in {1, 2, 3, 4, 5, 6, 7, 8, 9, 10, 11, 12, 13, 14, 15}
  OBVIOUS
<1>3. /\ Stages[1] = [kind |-> "bit", n |-> 1] /\ Stages[2] = [kind |-> "bit", n |-> 2]
      /\ Stages[3] = [kind |-> "bit", n |-> 4] /\ Stages[4] = [kind |-> "byte", n |-> 1]
      /\ Stages[5] = [kind |-> "byte", n |-> 2] /\ Stages[6] = [kind |-> "byte", n |-> 4]
      /\ Stages[7] = [kind |-> "arith", n |-> 1] /\ Stages[8] = [kind |-> "arith", n |-> 2]
      /\ Stages[9] = [kind |-> "arith", n |-> 4] /\ Stages[10] = [kind |-> "int", n |-> 1]
      /\ Stages[11] = [kind |-> "int", n |-> 2] /\ Stages[12] = [kind |-> "int", n |-> 4]
      /\ Stages[13] = [kind |-> "over", n |-> 0] /\ Stages[14] = [kind |-> "insert", n |-> 0]
      /\ Stages[15] = [kind |-> "auto", n |-> 0]
  BY DEF Stages
<1>4. \A s \in 1 .. 15 :
       /\ Stages[s].kind \in {"bit", "byte", "arith", "int", "over", "insert", "auto"}
       /\ Stages[s].n \in {0, 1, 2, 4}
       /\ Stages[s].kind \in {"arith", "int"} => Stages[s].n \in {1, 2, 4}
       /\ Stages[s].kind = "bit" => Stages[s].n \in {1, 2, 4}
  BY <1>2, <1>3
<1> QED BY <1>1, <1>3, <1>4

LEMMA KindIs ==
  /\ InDet <=> stage \in 1 .. 15
  /\ InDet => /\ Kind \in {"bit", "byte", "arith", "int", "over", "insert", "auto"}
              /\ Width \in {0, 1, 2, 4}
              /\ Kind \in {"arith", "int"} => Width \in {1, 2, 4}
              /\ Kind = "bit" => Width \in {1, 2, 4}
  /\ ~InDet => Kind = "none"
  /\ stage = 1 => InDet /\ Kind = "bit" /\ Width = 1
  BY StagesAre DEF InDet, Kind, Width

\* At the start of a position out_buf is the input.
LEMMA BufferIsInput ==
  ASSUME DetTypes, Restorable, j = 0 \/ Kind \notin {"arith", "int", "over", "auto"}
  PROVE  out_buf = in_buf
<1>1. \A k \in 1 .. in_len : out_buf[k] = in_buf[k]
  <2> SUFFICES ASSUME NEW k \in 1 .. in_len, out_buf[k] # in_buf[k] PROVE FALSE
    OBVIOUS
  <2>1. \/ Kind \in {"arith", "int"} /\ j > 0 /\ k - i \in 1 .. Width
        \/ Kind \in {"over", "auto"} /\ k - i \in 1 .. last_len
    BY DEF Restorable
  <2>2. j = 0 => last_len = 0
    BY DEF Restorable
  <2> QED BY <2>1, <2>2 DEF DetTypes
<1> QED BY <1>1, SameBuffer DEF DetTypes, Restorable, in_len

LEMMA UsedAre ==
  ASSUME NEW autos \in Seq(AutoToken)
  PROVE  Used(autos) \in Seq(Token)
<1>0. Len(autos) \in Nat
  OBVIOUS
<1>1. PICK m \in 0 .. Len(autos) : m = Smaller(Len(autos), USE_AUTO_EXTRAS)
  <2>1. PICK n \in Nat : n = Len(autos)
    BY <1>0
  <2>2. PICK u \in Nat : u = USE_AUTO_EXTRAS
    BY Sizes
  <2>3. Smaller(n, u) \in 0 .. n
    BY DEF Smaller
  <2> QED BY <2>1, <2>2, <2>3
<1>2. Used(autos) = [k \in 1 .. m |-> autos[k].data]
  BY <1>1 DEF Used
<1>3. \A k \in 1 .. m : autos[k].data \in Token
  <2>1. \A k \in 1 .. m : autos[k] \in AutoToken
    OBVIOUS
  <2> QED BY <2>1 DEF AutoToken
<1>4. Used(autos) \in [1 .. m -> Token]
  BY <1>2, <1>3
<1> QED BY <1>4

\* The tokens of a stage come in the order of their lengths.
LEMMA TokensAre ==
  ASSUME DetTypes
  PROVE  /\ Tokens \in Seq(Token)
         /\ \A a, b \in 1 .. Len(Tokens) : a <= b => Len(Tokens[a]) <= Len(Tokens[b])
<1>1. Tokens = Used(a_extras) \/ Tokens = extras
  BY DEF Tokens, Used
<1>2. Tokens \in Seq(Token) /\ Ordered(Tokens)
  BY <1>1, UsedAre DEF DetTypes
<1> QED BY <1>2, OrderedIs

\* The input, at a new position or in a new stage, is restorable.
LEMMA FreshIsRestorable ==
  ASSUME DetTypes', out_buf' = in_buf', j' = 0, last_len' = 0,
         InDet' => orig' = At(in_buf', i', Width')
  PROVE  Restorable'
<1>1. Len(out_buf') = in_len' /\ DOMAIN out_buf' = 1 .. in_len'
      /\ out_buf' = [k \in DOMAIN out_buf' |-> out_buf'[k]]
  BY DEF DetTypes, in_len
<1>2. Kind' \in {"over", "auto"} =>
        \A m \in 1 .. Len(Tokens') : m > j' => last_len' <= Len(Tokens'[m])
  <2>1. Tokens' \in Seq(Token)
    <3>1. Tokens' = Used(a_extras') \/ Tokens' = extras'
      BY DEF Tokens, Used
    <3> QED BY <3>1, UsedAre DEF DetTypes
  <2> QED BY <2>1 DEF Token
<1> QED BY <1>1, <1>2 DEF Restorable

\* What an attempt at a position leaves alone.
LEMMA AttemptFrame ==
  ASSUME DetTypes, InPosition,
         UNCHANGED <<in_buf, extras, a_extras, a_collect, stage, i>>,
         j' = j + 1, last_len' \in Nat
  PROVE  /\ DetTypes' /\ Kind' = Kind /\ Width' = Width /\ Tokens' = Tokens /\ in_len' = in_len
         /\ InDet' /\ InPosition' /\ InDet
<1>1. Kind' = Kind /\ Width' = Width /\ in_len' = in_len
  BY DEF Kind, Width, in_len
<1>2. Tokens' = Tokens
  BY <1>1 DEF Tokens
<1>3. Positions' = Positions
  BY <1>1 DEF Positions
<1>4. InDet /\ InDet' /\ InPosition'
  BY <1>3 DEF InPosition, InDet
<1>5. DetTypes'
  BY DEF DetTypes
<1> QED BY <1>1, <1>2, <1>4, <1>5

LEMMA SkippedIsRestorable ==
  ASSUME DetTypes, Restorable, InPosition, Kind \notin {"bit", "byte"},
         UNCHANGED <<in_buf, extras, a_extras, a_collect, stage, i, out_buf, orig, last_len>>,
         j' = j + 1
  PROVE  DetInv'
<1>1. /\ DetTypes' /\ Kind' = Kind /\ Width' = Width /\ Tokens' = Tokens /\ in_len' = in_len
      /\ InDet' /\ InPosition' /\ InDet
  BY AttemptFrame DEF DetTypes
<1>2. j \in Nat /\ j' > 0 /\ j' # 0
  BY DEF DetTypes
<1>3. \A m \in 1 .. Len(Tokens) : m > j' => m > j
  <2>1. Len(Tokens) \in Nat
    BY TokensAre
  <2> QED BY <1>2, <2>1
<1>4. \A k \in 1 .. in_len' : out_buf'[k] # in_buf'[k] =>
       \/ Kind' \in {"arith", "int"} /\ j' > 0 /\ k - i' \in 1 .. Width'
       \/ Kind' \in {"over", "auto"} /\ k - i' \in 1 .. last_len'
  BY <1>1, <1>2 DEF Restorable
<1>5. Kind' \in {"over", "auto"} =>
       \A m \in 1 .. Len(Tokens') : m > j' => last_len' <= Len(Tokens'[m])
  BY <1>1, <1>3 DEF Restorable
<1>6. orig' = At(in_buf', i', Width')
  BY <1>1 DEF Restorable
<1>7. Len(out_buf') = in_len' /\ DOMAIN out_buf' = 1 .. in_len'
      /\ out_buf' = [k \in DOMAIN out_buf' |-> out_buf'[k]]
  BY <1>1 DEF Restorable
<1>8. Restorable'
  BY <1>1, <1>2, <1>4, <1>5, <1>6, <1>7 DEF Restorable
<1> QED BY <1>1, <1>8 DEF DetInv

\* Another word over the one at the position.
LEMMA MutateKeeps ==
  ASSUME DetTypes, Restorable, Mutate, UNCHANGED in_buf
  PROVE  DetInv'
<1>1. /\ InPosition /\ Kind \in {"arith", "int"}
      /\ out_buf' = Put(out_buf, i, Replacement) /\ j' = j + 1
      /\ UNCHANGED <<extras, a_extras, a_collect, stage, i, orig, last_len>>
  BY DEF Mutate, InAttempt, settings, token
<1>2. /\ DetTypes' /\ Kind' = Kind /\ Width' = Width /\ Tokens' = Tokens /\ in_len' = in_len
      /\ InDet' /\ InPosition' /\ InDet
  BY <1>1, AttemptFrame DEF DetTypes
<1>3. j \in Nat /\ j' > 0 /\ j' # 0
  BY <1>1 DEF DetTypes
<1>4. DOMAIN Replacement = 1 .. Width
  <2>1. Width \in {1, 2, 4}
    BY <1>1, <1>2, KindIs
  <2>2. PICK v : Replacement = InOrder(Bytes(v, Width))
    BY DEF Replacement
  <2>3. DOMAIN Bytes(v, Width) = 1 .. Width /\ Len(Bytes(v, Width)) = Width
    BY <2>1 DEF Bytes
  <2>4. DOMAIN Reverse(Bytes(v, Width)) = 1 .. Width
    BY <2>3 DEF Reverse
  <2> QED BY <2>2, <2>3, <2>4 DEF InOrder
<1>5. Len(out_buf) = in_len /\ in_len \in Nat
  BY DEF Restorable, DetTypes, in_len
<1>6. /\ DOMAIN out_buf' = 1 .. in_len' /\ Len(out_buf') = in_len'
      /\ \A k \in 1 .. in_len : k - i \notin 1 .. Width => out_buf'[k] = out_buf[k]
  <2>1. PICK w : w = Replacement
    OBVIOUS
  <2>2. DOMAIN w = 1 .. Width /\ out_buf' = Put(out_buf, i, w)
    BY <1>1, <1>4, <2>1
  <2>3. /\ DOMAIN out_buf' = 1 .. in_len /\ Len(out_buf') = in_len
        /\ \A k \in 1 .. in_len : out_buf'[k] = IF k - i \in DOMAIN w THEN w[k - i] ELSE out_buf[k]
    <3>1. Len(out_buf) \in Nat
      BY <1>5
    <3>2. /\ DOMAIN Put(out_buf, i, w) = 1 .. Len(out_buf)
          /\ Len(Put(out_buf, i, w)) = Len(out_buf)
          /\ \A k \in 1 .. Len(out_buf) :
               Put(out_buf, i, w)[k] = IF k - i \in DOMAIN w THEN w[k - i] ELSE out_buf[k]
      BY ONLY <3>1, PutIs
    <3> QED BY <1>5, <2>2, <3>2
  <2> QED BY <1>2, <2>2, <2>3
<1>7. out_buf' = [k \in DOMAIN out_buf' |-> out_buf'[k]]
  BY <1>1 DEF Put
<1>8. \A k \in 1 .. in_len : out_buf'[k] # in_buf[k] => k - i \in 1 .. Width
  <2> SUFFICES ASSUME NEW k \in 1 .. in_len, out_buf'[k] # in_buf[k], k - i \notin 1 .. Width
               PROVE  FALSE
    OBVIOUS
  <2>1. out_buf[k] # in_buf[k]
    BY <1>6
  <2> QED BY <1>1, <2>1 DEF Restorable
<1>9. orig' = At(in_buf', i', Width')
  BY <1>1, <1>2 DEF Restorable
<1>10. Restorable'
  BY <1>1, <1>2, <1>3, <1>6, <1>7, <1>8, <1>9 DEF Restorable
<1> QED BY <1>2, <1>10 DEF DetInv

\* Another token over the last one, which it covers.
LEMMA OverwriteKeeps ==
  ASSUME DetTypes, Restorable, Overwrite, UNCHANGED in_buf
  PROVE  DetInv'
<1> DEFINE t == Tokens[j + 1]
<1>1. /\ InPosition /\ Kind \in {"over", "auto"} /\ j < Attempts
      /\ out_buf' = Put(out_buf, i, t) /\ j' = j + 1 /\ last_len' = Len(t)
      /\ UNCHANGED <<extras, a_extras, a_collect, stage, i, orig>>
  BY DEF Overwrite, InAttempt, settings, token
<1>2. /\ Tokens \in Seq(Token) /\ j \in Nat /\ j + 1 \in 1 .. Len(Tokens)
  <2>1. Tokens \in Seq(Token) /\ j \in Nat
    BY TokensAre DEF DetTypes
  <2>2. Attempts = Len(Tokens)
    BY <1>1 DEF Attempts
  <2> QED BY <1>1, <2>1, <2>2
<1>3. t \in Seq(Byte) /\ Len(t) \in Nat /\ DOMAIN t = 1 .. Len(t)
  <2>1. t \in Token
    BY <1>2
  <2> HIDE DEF t
  <2> QED BY <2>1 DEF Token
<1>4. /\ DetTypes' /\ Kind' = Kind /\ Width' = Width /\ Tokens' = Tokens /\ in_len' = in_len
      /\ InDet' /\ InPosition' /\ InDet
  <2> HIDE DEF t
  <2> QED BY <1>1, <1>3, AttemptFrame
<1>5. last_len <= Len(t) /\ last_len \in Nat
  BY <1>1, <1>2 DEF Restorable, DetTypes
<1>6. Len(out_buf) = in_len /\ in_len \in Nat
  BY DEF Restorable, DetTypes, in_len
<1>7. /\ DOMAIN out_buf' = 1 .. in_len' /\ Len(out_buf') = in_len'
      /\ \A k \in 1 .. in_len : k - i \notin 1 .. Len(t) => out_buf'[k] = out_buf[k]
  <2> HIDE DEF t
  <2> QED BY <1>1, <1>3, <1>4, <1>6, PutIs
<1>8. out_buf' = [k \in DOMAIN out_buf' |-> out_buf'[k]]
  BY <1>1 DEF Put
<1>9. \A k \in 1 .. in_len : out_buf'[k] # in_buf[k] => k - i \in 1 .. last_len'
  <2> SUFFICES ASSUME NEW k \in 1 .. in_len, out_buf'[k] # in_buf[k], k - i \notin 1 .. Len(t)
               PROVE  FALSE
    BY <1>1
  <2>1. out_buf[k] # in_buf[k]
    BY <1>7
  <2>2. k - i \in 1 .. last_len
    BY <1>1, <2>1 DEF Restorable
  <2> HIDE DEF t
  <2> QED BY <1>3, <1>5, <2>2
<1>10. \A m \in 1 .. Len(Tokens') : m > j' => last_len' <= Len(Tokens'[m])
  <2>1. \A m \in 1 .. Len(Tokens) : m > j + 1 => Len(Tokens[j + 1]) <= Len(Tokens[m])
    BY <1>2, TokensAre
  <2> QED BY <1>1, <1>4, <2>1
<1>11. orig' = At(in_buf', i', Width') /\ j' # 0
  BY <1>1, <1>2, <1>4 DEF Restorable
<1>12. Restorable'
  <2> HIDE DEF t
  <2> QED BY <1>1, <1>4, <1>7, <1>8, <1>9, <1>10, <1>11 DEF Restorable
<1> QED BY <1>4, <1>12 DEF DetInv

\* What is put back makes out_buf the input again.
LEMMA RestoredIsInput ==
  ASSUME DetTypes, Restorable, InPosition, Kind \notin {"bit", "byte"}
  PROVE  Restored = in_buf
<1>0. InDet /\ i \in Nat /\ in_len \in Nat /\ Len(out_buf) = in_len /\ last_len \in Nat
      /\ in_buf \in Seq(Byte) /\ in_len = Len(in_buf)
  BY DEF InPosition, DetTypes, Restorable, in_len
<1>1. CASE Kind = "insert"
  BY <1>1, BufferIsInput DEF Restored
<1>2. CASE Kind \in {"arith", "int", "over", "auto"}
  <2>1. PICK n \in Nat :
          /\ Restored = Put(out_buf, i, At(in_buf, i, n))
          /\ \A k \in 1 .. in_len : out_buf[k] # in_buf[k] => k - i \in 1 .. n
    <3>1. CASE Kind \in {"arith", "int"}
      <4>1. Width \in Nat
        BY <1>0, <3>1, KindIs
      <4>2. Restored = Put(out_buf, i, At(in_buf, i, Width))
        BY <1>0, <3>1 DEF Restored, Restorable
      <4>3. \A k \in 1 .. in_len : out_buf[k] # in_buf[k] => k - i \in 1 .. Width
        BY <3>1 DEF Restorable
      <4> QED BY <4>1, <4>2, <4>3
    <3>2. CASE Kind \in {"over", "auto"}
      <4>2. Restored = Put(out_buf, i, At(in_buf, i, last_len))
        BY <1>0, <3>2 DEF Restored
      <4>3. \A k \in 1 .. in_len : out_buf[k] # in_buf[k] => k - i \in 1 .. last_len
        BY <3>2 DEF Restorable
      <4> QED BY <1>0, <4>2, <4>3
    <3> QED BY <1>2, <3>1, <3>2
  <2> DEFINE back == At(in_buf, i, n)
  <2>2. i < in_len
    <3>1. i < Positions
      BY DEF InPosition
    <3>2. Positions = in_len \/ (Positions = in_len - (Width - 1) /\ Width \in {1, 2, 4})
      BY <1>0, <1>2, KindIs DEF Positions
    <3> QED BY <1>0, <3>1, <3>2
  <2>3. /\ \A x \in Int : x \in DOMAIN back <=> x \in 1 .. n /\ i + x <= in_len
        /\ \A x \in DOMAIN back : back[x] = in_buf[i + x]
    <3>1. i \in 0 .. Len(in_buf)
      BY <1>0, <2>2
    <3>2. n \in Nat /\ in_buf \in Seq(Byte)
      BY <1>0, <2>1
    <3>3. /\ \A x \in Int : x \in DOMAIN At(in_buf, i, n) <=> x \in 1 .. n /\ i + x <= Len(in_buf)
          /\ \A x \in DOMAIN At(in_buf, i, n) : At(in_buf, i, n)[x] = in_buf[i + x]
      BY ONLY <3>1, <3>2, AtIs
    <3> QED BY <1>0, <3>3
  <2> HIDE DEF back
  <2>4. Restored = Put(out_buf, i, back)
    BY <2>1 DEF back
  <2>5. /\ DOMAIN Restored = 1 .. in_len
        /\ \A k \in 1 .. in_len : Restored[k] = IF k - i \in DOMAIN back THEN back[k - i] ELSE out_buf[k]
    BY <1>0, <2>4, PutIs
  <2>6. Restored = [k \in DOMAIN Restored |-> Restored[k]]
    BY <2>4 DEF Put
  <2>7. \A k \in 1 .. in_len : Restored[k] = in_buf[k]
    <3> SUFFICES ASSUME NEW k \in 1 .. in_len PROVE Restored[k] = in_buf[k]
      OBVIOUS
    <3>1. k - i \in Int /\ i + (k - i) = k /\ k <= in_len
      BY <1>0
    <3>2. CASE k - i \in DOMAIN back
      BY <2>3, <2>5, <3>1, <3>2
    <3>3. CASE k - i \notin DOMAIN back
      <4>1. k - i \notin 1 .. n
        BY <2>3, <3>1, <3>3
      <4>2. out_buf[k] = in_buf[k]
        BY <2>1, <4>1
      <4> QED BY <2>5, <3>3, <4>2
    <3> QED BY <3>2, <3>3
  <2> QED BY <1>0, <2>5, <2>6, <2>7, SameBuffer
<1> QED BY <1>0, <1>1, <1>2, KindIs

\* The byte a bit is in.
LEMMA QuotientIsBelow ==
  ASSUME NEW a \in Nat, NEW n \in Nat, NEW b \in Nat \ {0}, a < n * b
  PROVE  a \div b \in 0 .. n - 1
<1>1. PICK q : q = a \div b
  OBVIOUS
<1>2. q \in Nat /\ a = b * q + (a % b) /\ a % b \in 0 .. b - 1
  BY <1>1
<1>3. ~(q >= n)
  <2> SUFFICES ASSUME q >= n PROVE FALSE
    OBVIOUS
  <2>1. PICK d \in Nat : q = n + d
    BY <1>2
  <2>2. b * q = n * b + b * d /\ b * d \in Nat /\ n * b \in Nat
    BY <2>1
  <2> QED BY <1>2, <2>2
<1> QED BY <1>1, <1>2, <1>3

\* The tokens the first stage collects are made of bytes of the input.
LEMMA CollectTokenTypes ==
  ASSUME DetTypes, InPosition, stage = 1, NEW cksum, CollectToken(cksum)
  PROVE  a_extras' \in Seq(AutoToken) /\ Ordered(Used(a_extras')) /\ a_collect' \in Token
<1> DEFINE byte == in_buf[i \div ByteBits + 1]
           at_end == i = Positions - 1 /\ cksum = prev_cksum
           kept == CASE at_end -> Append(a_collect, byte)
                     [] cksum # prev_cksum -> <<>>
                     [] OTHER -> a_collect
<1>1. byte \in Byte
  <2>1. i \in Nat /\ in_len \in Nat /\ ByteBits \in Nat \ {0} /\ i < in_len * ByteBits
    <3>1. Positions = in_len * ByteBits - (1 - 1)
      BY KindIs DEF Positions
    <3>2. in_len \in Nat /\ in_len * ByteBits \in Nat
      BY Sizes DEF DetTypes, in_len
    <3> QED BY <3>1, <3>2, Sizes DEF InPosition, DetTypes
  <2>2. i \div ByteBits \in 0 .. in_len - 1
    BY <2>1, QuotientIsBelow
  <2>3. i \div ByteBits + 1 \in 1 .. Len(in_buf)
    BY <2>2 DEF DetTypes, in_len
  <2> HIDE DEF Byte
  <2> QED BY <2>3 DEF DetTypes
<1>2. a_collect \in Token /\ <<>> \in Token /\ Append(a_collect, byte) \in Token
  <2>1. a_collect \in Seq(Byte)
    BY DEF DetTypes, Token
  <2> HIDE DEF byte, Byte
  <2> QED BY <1>1, <2>1 DEF Token
<1>3. kept \in Token
  BY <1>2
<1>4. /\ a_extras' \in CASE at_end -> Collected(kept)
                        [] cksum # prev_cksum -> Collected(a_collect)
                        [] OTHER -> {a_extras}
      /\ a_collect' = IF cksum # exec_cksum THEN Append(kept, byte) ELSE kept
  BY DEF CollectToken
<1>5. a_collect' \in Token
  <2>1. Append(kept, byte) \in Token
    <3> HIDE DEF byte, Byte, kept
    <3> QED BY <1>1, <1>3 DEF Token
  <2> HIDE DEF byte, kept
  <2> QED BY <1>3, <1>4, <2>1
<1>6. a_extras' \in Collected(kept) \/ a_extras' \in Collected(a_collect) \/ a_extras' = a_extras
  <2> HIDE DEF byte, kept
  <2> QED BY <1>4
<1>7. a_extras \in Seq(AutoToken) /\ Ordered(Used(a_extras))
  BY DEF DetTypes
<1> HIDE DEF byte, kept
<1> QED BY <1>2, <1>3, <1>5, <1>6, <1>7, CollectedIs

\* The first stage starts from the input.
LEMMA StartIsFresh ==
  ASSUME in_buf \in Seq(Byte), extras \in Seq(Token), Ordered(extras),
         a_extras \in Seq(AutoToken), Ordered(Used(a_extras)), StartDet, UNCHANGED in_buf
  PROVE  DetInv'
<1>1. /\ out_buf' = in_buf /\ stage' = 1 /\ i' = 0 /\ j' = 0 /\ last_len' = 0 /\ a_collect' = <<>>
      /\ UNCHANGED <<extras, a_extras>>
      /\ orig' = IF 1 \in DOMAIN Stages THEN At(out_buf', 0, Stages[1].n) ELSE <<>>
  BY DEF StartDet, Start, settings
<1>2. orig' = At(in_buf', i', Width')
  BY <1>1, StagesAre DEF Width
<1>3. DetTypes'
  BY <1>1 DEF DetTypes, Token
<1>4. out_buf' = in_buf'
  BY <1>1
<1> QED BY <1>1, <1>2, <1>3, <1>4, FreshIsRestorable DEF DetInv

\* The next position starts from the input.
LEMMA NextIsFresh ==
  ASSUME DetTypes, InPosition, NextPosition(in_buf), last_len' = 0, UNCHANGED <<in_buf, extras, stage>>,
         a_extras' \in Seq(AutoToken), Ordered(Used(a_extras')), a_collect' \in Token
  PROVE  DetInv'
<1>1. /\ out_buf' = in_buf' /\ i' = i + 1 /\ j' = 0 /\ orig' = At(in_buf', i', Width)
  BY DEF NextPosition
<1>2. Width' = Width
  BY DEF Width
<1>3. DetTypes'
  BY <1>1 DEF DetTypes
<1> QED BY <1>1, <1>2, <1>3, FreshIsRestorable DEF DetInv

\* And so does the next stage.
LEMMA EndStageIsFresh ==
  ASSUME DetTypes, Restorable, EndStage, UNCHANGED in_buf
  PROVE  DetInv'
<1> DEFINE next == {s \in DOMAIN Stages : s > stage /\ Runs(Stages[s])} \cup {Len(Stages) + 1}
<1>1. /\ InDet /\ ~InPosition /\ UNCHANGED <<extras, a_extras, a_collect, out_buf, last_len>>
      /\ Start(Min(next))
  <2>1. i >= Positions /\ InDet /\ UNCHANGED <<settings, a_extras, token, out_buf, last_len>> /\ Start(Min(next))
    BY DEF EndStage
  <2>2. i \in Int /\ Positions \in Int
    <3>1. in_len \in Nat
      BY DEF DetTypes, in_len
    <3>2. in_len * ByteBits \in Nat
      BY <3>1, Sizes
    <3>3. Width \in {0, 1, 2, 4}
      BY <2>1, KindIs
    <3>4. Positions \in Int
      BY <3>1, <3>2, <3>3 DEF Positions
    <3> QED BY <3>4 DEF DetTypes
  <2>3. ~(i < Positions)
    BY <2>1, <2>2
  <2> HIDE DEF next
  <2> QED BY <2>1, <2>3 DEF InPosition, settings, token
<1>2. j = 0 /\ last_len = 0
  BY <1>1 DEF Restorable
<1>3. out_buf = in_buf
  BY <1>2, BufferIsInput
<1>4. Min(next) \in 1 .. 16
  <2>1. next \subseteq 1 .. 16 /\ next # {}
    BY StagesAre
  <2>2. next \in SUBSET Nat
    BY <2>1
  <2> HIDE DEF next
  <2> QED BY <2>1, <2>2, MinIsLeast
<1>5. PICK s \in 1 .. 16 : s = Min(next) /\ Start(s)
  BY <1>1, <1>4
<1>6. stage' = s /\ i' = 0 /\ j' = 0 /\ out_buf' = in_buf'
      /\ orig' = IF s \in DOMAIN Stages THEN At(out_buf', 0, Stages[s].n) ELSE <<>>
  BY <1>1, <1>3, <1>5 DEF Start
<1>7. InDet' => orig' = At(in_buf', i', Width')
  BY <1>6 DEF InDet, Width
<1>8. DetTypes'
  BY <1>1, <1>6 DEF DetTypes
<1> HIDE DEF next
<1> QED BY <1>1, <1>2, <1>6, <1>7, <1>8, FreshIsRestorable DEF DetInv

LEMMA DetKept ==
  ASSUME DetInv, DetNext, UNCHANGED in_buf
  PROVE  DetInv'
<1>0. DetTypes /\ InDet /\ Restorable
  <2>1. InDet
    BY DEF DetNext, Flip, SkipPosition, SkipMutation, Mutate, SkipToken, Overwrite, Insert,
       EndPosition, EndStage, InAttempt, InPosition
  <2>2. stage > 0
    BY <2>1, KindIs
  <2> QED BY <2>1, <2>2 DEF DetInv
<1>1. CASE Flip
  <2>1. /\ InPosition /\ Kind \in {"bit", "byte"} /\ NextPosition(out_buf)
        /\ UNCHANGED <<extras, last_len, stage>>
        /\ \/ stage = 1 /\ CollectToken(Cksum(target, Flipped))
           \/ UNCHANGED <<a_extras, a_collect>>
    BY <1>1 DEF Flip, settings, token
  <2>2. out_buf = in_buf
    BY <1>0, <2>1, BufferIsInput
  <2>3. last_len = 0
    BY <1>0, <2>1 DEF Restorable
  <2>4. a_extras' \in Seq(AutoToken) /\ Ordered(Used(a_extras')) /\ a_collect' \in Token
    <3>1. CASE stage = 1 /\ CollectToken(Cksum(target, Flipped))
      BY <1>0, <2>1, <3>1, CollectTokenTypes
    <3>2. CASE UNCHANGED <<a_extras, a_collect>>
      BY <1>0, <3>2 DEF DetTypes
    <3> QED BY <2>1, <3>1, <3>2
  <2> QED BY <1>0, <2>1, <2>2, <2>3, <2>4, NextIsFresh
<1>2. CASE SkipPosition
  <2>1. /\ InPosition /\ j = 0 /\ NextPosition(out_buf)
        /\ UNCHANGED <<extras, a_extras, a_collect, last_len, stage>>
    BY <1>2 DEF SkipPosition, settings, token
  <2>2. out_buf = in_buf /\ last_len = 0
    BY <1>0, <2>1, BufferIsInput DEF Restorable
  <2> QED BY <1>0, <2>1, <2>2, NextIsFresh DEF DetTypes
<1>3. CASE SkipMutation \/ SkipToken \/ Insert
  BY <1>0, <1>3, SkippedIsRestorable DEF SkipMutation, SkipToken, Insert, InAttempt, settings, token
<1>4. CASE Mutate
  BY <1>0, <1>4, MutateKeeps
<1>5. CASE Overwrite
  BY <1>0, <1>5, OverwriteKeeps
<1>6. CASE EndPosition
  <2>1. /\ InPosition /\ Kind \notin {"bit", "byte"} /\ NextPosition(Restored) /\ last_len' = 0
        /\ UNCHANGED <<extras, a_extras, a_collect, stage>>
    BY <1>6 DEF EndPosition, settings, token
  <2>2. Restored = in_buf
    BY <1>0, <2>1, RestoredIsInput
  <2> QED BY <1>0, <2>1, <2>2, NextIsFresh DEF DetTypes
<1>7. CASE EndStage
  BY <1>0, <1>7, EndStageIsFresh
<1> QED BY <1>1, <1>2, <1>3, <1>4, <1>5, <1>6, <1>7 DEF DetNext

---------------------------------------------------------------------------
(* Trimming                                                                *)

Trimming ==
  /\ in_buf \in Seq(Byte) /\ Len(in_buf) \in 1 .. MAX_FILE
  /\ Cksum(target, in_buf) = exec_cksum
  /\ trim = NoTrim => file = in_buf
  /\ trim # NoTrim => trim \in TrimState /\ (~trim.needs_write => file = in_buf)

\* There is a power of two for every length.
LEMMA Powers ==
  ASSUME NEW val \in 1 .. MAX_FILE
  PROVE  next_p2(val) \in Nat
<1>1. {2^k : k \in 0 .. 20} =
        {1, 2, 4, 8, 16, 32, 64, 128, 256, 512, 1024, 2048, 4096, 8192, 16384, 32768, 65536,
         131072, 262144, 524288, 1048576}
  <2>1. \A k \in 0 .. 20 : k \in {0, 1, 2, 3, 4, 5, 6, 7, 8, 9, 10, 11, 12, 13, 14, 15, 16, 17, 18, 19, 20}
    OBVIOUS
  <2>2. /\ 2^0 = 1 /\ 2^1 = 2 /\ 2^2 = 4 /\ 2^3 = 8 /\ 2^4 = 16 /\ 2^5 = 32 /\ 2^6 = 64
        /\ 2^7 = 128 /\ 2^8 = 256 /\ 2^9 = 512 /\ 2^10 = 1024 /\ 2^11 = 2048 /\ 2^12 = 4096
        /\ 2^13 = 8192 /\ 2^14 = 16384 /\ 2^15 = 32768 /\ 2^16 = 65536 /\ 2^17 = 131072
        /\ 2^18 = 262144 /\ 2^19 = 524288 /\ 2^20 = 1048576
    OBVIOUS
  <2> QED BY <2>1, <2>2
<1>2. val <= 1048576
  BY Sizes, TrimAssumption
<1>3. PICK P : P = {2^k : k \in 0 .. 20}
  OBVIOUS
<1>4. P = {1, 2, 4, 8, 16, 32, 64, 128, 256, 512, 1024, 2048, 4096, 8192, 16384, 32768, 65536,
           131072, 262144, 524288, 1048576}
  BY <1>1, <1>3
<1>5. P \subseteq Nat /\ \E p \in P : p >= val /\ (p = 1 \/ p < 2 * val)
  BY <1>2, <1>4
<1>6. next_p2(val) = CHOOSE p \in P : p >= val /\ (p = 1 \/ p < 2 * val)
  BY <1>3 DEF next_p2
<1>7. next_p2(val) \in P
  BY <1>5, <1>6
<1> QED BY <1>5, <1>7

\* An input without a chunk has the bytes before it.
LEMMA WithoutIs ==
  ASSUME NEW s \in Seq(Byte), NEW p \in Nat \ {0}, p < Len(s), NEW n \in Nat
  PROVE  Without(s, p, n) \in Seq(Byte) /\ Len(Without(s, p, n)) \in 1 .. Len(s)
<1>1. PICK a : a = SubSeq(s, 1, p)
  OBVIOUS
<1>2. PICK b : b = SubSeq(s, p + n + 1, Len(s))
  OBVIOUS
<1>3. a \in Seq(Byte) /\ Len(a) = p
  <2>1. \A x \in 1 .. p : s[x] \in Byte
    OBVIOUS
  <2> HIDE DEF Byte
  <2> QED BY <1>1, <2>1, SubSeqProperties
<1>4. b \in Seq(Byte) /\ Len(b) = IF p + n + 1 <= Len(s) THEN Len(s) - (p + n + 1) + 1 ELSE 0
  <2>1. \A x \in p + n + 1 .. Len(s) : s[x] \in Byte
    OBVIOUS
  <2>2. p + n + 1 \in Int /\ Len(s) \in Int
    OBVIOUS
  <2> HIDE DEF Byte
  <2> QED BY <1>2, <2>1, <2>2, SubSeqProperties
<1>5. a \o b \in Seq(Byte) /\ Len(a \o b) = Len(a) + Len(b)
  <2> HIDE DEF Byte
  <2>1. a \in Seq(Byte) /\ b \in Seq(Byte)
    BY <1>3, <1>4
  <2> QED BY <2>1
<1>6. Len(s) \in Nat
  OBVIOUS
<1>7. Len(a \o b) \in 1 .. Len(s)
  BY <1>3, <1>4, <1>5, <1>6
<1> QED BY <1>1, <1>2, <1>5, <1>7 DEF Without

LEMMA TrimStarts ==
  ASSUME Trimming, trim = NoTrim, StartTrim, UNCHANGED <<target, in_buf, file, exec_cksum>>
  PROVE  Trimming'
<1>1. next_p2(Len(in_buf)) \in Nat
  BY Powers DEF Trimming
<1>2. PICK p \in Nat : p = next_p2(Len(in_buf))
  BY <1>1
<1>3. TRIM_MIN_BYTES \in Nat \ {0} /\ TRIM_START_STEPS \in Nat \ {0}
  BY ConfigAssumption
<1>4. p \div TRIM_START_STEPS \in Int
  BY <1>2, <1>3
<1>5. Larger(p \div TRIM_START_STEPS, TRIM_MIN_BYTES) \in Nat \ {0}
  BY <1>3, <1>4 DEF Larger
<1>6. trim' \in TrimState
  BY <1>2, <1>5 DEF StartTrim, TrimState
<1> QED BY <1>6 DEF Trimming

LEMMA TrimKept ==
  ASSUME Trimming, TrimRun \/ TrimPass \/ TrimEnd
  PROVE  Trimming'
<1>0. /\ trim # NoTrim /\ trim.remove_len \in Nat \ {0} /\ trim.remove_pos \in Nat \ {0}
      /\ trim.len_p2 \in Nat /\ trim.needs_write \in BOOLEAN /\ trim \in TrimState
  BY DEF Trimming, TrimRun, TrimPass, TrimEnd, TrimState
<1>1. CASE TrimRun
  <2>1. /\ trim.remove_pos < Len(in_buf) /\ UNCHANGED <<target, file, exec_cksum>>
    BY <1>1 DEF TrimRun
  <2>2. CASE Cksum(target, Without(in_buf, trim.remove_pos, Chunk)) = exec_cksum
    <3>1. /\ in_buf' = Kept /\ trim' = [trim EXCEPT !.len_p2 = next_p2(Len(in_buf')), !.needs_write = TRUE]
      BY <1>1, <2>2 DEF TrimRun
    <3>2. Chunk \in Nat
      <4>1. Len(in_buf) \in Nat
        BY DEF Trimming
      <4> QED BY <1>0, <2>1, <4>1 DEF Chunk, Smaller
    <3>3. in_buf' \in Seq(Byte) /\ Len(in_buf') \in 1 .. Len(in_buf)
      <4> HIDE DEF Byte
      <4> QED BY <1>0, <2>1, <3>1, <3>2, WithoutIs DEF Trimming, Kept
    <3>4. Len(in_buf') \in 1 .. MAX_FILE
      BY <3>3, Sizes DEF Trimming
    <3>5. PICK p \in Nat : p = next_p2(Len(in_buf'))
      BY <3>4, Powers
    <3>6. trim' \in TrimState /\ trim'.needs_write
      BY <1>0, <3>1, <3>5 DEF TrimState
    <3>7. trim' # NoTrim
      BY <3>6, TrimAssumption
    <3>8. Cksum(target', in_buf') = exec_cksum'
      BY <2>1, <2>2, <3>1 DEF Kept
    <3> QED BY <3>3, <3>4, <3>6, <3>7, <3>8 DEF Trimming
  <2>3. CASE ~(Cksum(target, Without(in_buf, trim.remove_pos, Chunk)) = exec_cksum)
    <3>1. trim' = [trim EXCEPT !.remove_pos = @ + trim.remove_len] /\ UNCHANGED in_buf
      BY <1>1, <2>3 DEF TrimRun
    <3>2. trim' \in TrimState /\ trim'.needs_write = trim.needs_write
      BY <1>0, <3>1 DEF TrimState
    <3> QED BY <1>0, <2>1, <3>1, <3>2, TrimAssumption DEF Trimming
  <2> QED BY <2>2, <2>3
<1>2. CASE TrimPass
  <2>1. /\ NextLen >= Shortest /\ trim' = [trim EXCEPT !.remove_len = NextLen, !.remove_pos = NextLen]
        /\ UNCHANGED <<target, in_buf, file, exec_cksum>>
    BY <1>2 DEF TrimPass
  <2>2. NextLen \in Nat
    BY <1>0 DEF NextLen
  <2>3. Shortest \in Nat \ {0}
    <3>1. TRIM_MIN_BYTES \in Nat \ {0} /\ TRIM_END_STEPS \in Nat \ {0}
      BY ConfigAssumption
    <3>2. trim.len_p2 \div TRIM_END_STEPS \in Int
      BY <1>0, <3>1
    <3> QED BY <3>1, <3>2 DEF Shortest, Larger
  <2>4. NextLen \in Nat \ {0}
    BY <2>1, <2>2, <2>3
  <2>5. trim' \in TrimState /\ trim'.needs_write = trim.needs_write
    BY <1>0, <2>1, <2>4 DEF TrimState
  <2> QED BY <1>0, <2>1, <2>5, TrimAssumption DEF Trimming
<1>3. CASE TrimEnd
  <2>1. /\ file' = IF trim.needs_write THEN in_buf ELSE file
        /\ trim' = NoTrim /\ UNCHANGED <<target, in_buf, exec_cksum>>
    BY <1>3 DEF TrimEnd
  <2>2. file' = in_buf
    BY <1>0, <2>1 DEF Trimming
  <2> QED BY <2>1, <2>2 DEF Trimming
<1> QED BY <1>1, <1>2, <1>3

---------------------------------------------------------------------------
(* The score                                                               *)

\* A chain of conditions gives the value of one of its rows, or the default.
LEMMA FirstOfIs ==
  ASSUME NEW rows, DOMAIN rows \subseteq Nat, NEW otherwise
  PROVE  FirstOf(rows, otherwise) = otherwise \/ \E k \in DOMAIN rows : FirstOf(rows, otherwise) = rows[k][2]
<1> DEFINE hits == {k \in DOMAIN rows : rows[k][1]}
<1>1. hits \in SUBSET DOMAIN rows
  OBVIOUS
<1>2. FirstOf(rows, otherwise) = IF hits = {} THEN otherwise ELSE rows[Min(hits)][2]
  BY DEF FirstOf
<1> HIDE DEF hits
<1>3. CASE hits = {}
  BY <1>2, <1>3
<1>4. CASE hits # {}
  <2>1. Min(hits) \in hits
    BY <1>1, <1>4, MinIsLeast
  <2> QED BY <1>1, <1>2, <1>4, <2>1
<1> QED BY <1>3, <1>4

LEMMA SpeedIs == ASSUME NEW s PROVE SpeedScore(s) \in Nat /\ SpeedScore(s) >= 10
<1> DEFINE rows == << <<s.exec_us > 10 * s.avg_exec_us, 10>>,
             <<s.exec_us > 4 * s.avg_exec_us, 25>>,
             <<s.exec_us > 2 * s.avg_exec_us, 50>>,
             <<3 * s.exec_us > 4 * s.avg_exec_us, 75>>,
             <<s.exec_us * 4 < s.avg_exec_us, 300>>,
             <<s.exec_us * 3 < s.avg_exec_us, 200>>,
             <<s.exec_us * 2 < s.avg_exec_us, 150>> >>
<1>1. DOMAIN rows = 1 .. 7
  OBVIOUS
<1>2. \A k \in 1 .. 7 : rows[k][2] \in {10, 25, 50, 75, 300, 200, 150}
  <2>1. \A k \in 1 .. 7 : k \in {1, 2, 3, 4, 5, 6, 7}
    OBVIOUS
  <2>2. /\ rows[1][2] = 10 /\ rows[2][2] = 25 /\ rows[3][2] = 50 /\ rows[4][2] = 75
        /\ rows[5][2] = 300 /\ rows[6][2] = 200 /\ rows[7][2] = 150
    OBVIOUS
  <2> HIDE DEF rows
  <2> QED BY <2>1, <2>2
<1>3. SpeedScore(s) = FirstOf(rows, 100)
  BY DEF SpeedScore
<1> HIDE DEF rows
<1>4. SpeedScore(s) = 100 \/ \E k \in DOMAIN rows : SpeedScore(s) = rows[k][2]
  BY <1>1, <1>3, FirstOfIs
<1> QED BY <1>1, <1>2, <1>4

LEMMA CoverageIs ==
  ASSUME NEW s
  PROVE  CoverageFactor(s) \in {<<3, 1>>, <<2, 1>>, <<3, 2>>, <<1, 4>>, <<1, 2>>, <<3, 4>>, <<1, 1>>}
<1> DEFINE rows == << <<3 * s.bitmap_size > 10 * s.avg_bitmap_size, <<3, 1>> >>,
             <<s.bitmap_size > 2 * s.avg_bitmap_size, <<2, 1>> >>,
             <<3 * s.bitmap_size > 4 * s.avg_bitmap_size, <<3, 2>> >>,
             <<s.bitmap_size * 3 < s.avg_bitmap_size, <<1, 4>> >>,
             <<s.bitmap_size * 2 < s.avg_bitmap_size, <<1, 2>> >>,
             <<s.bitmap_size * 3 < 2 * s.avg_bitmap_size, <<3, 4>> >> >>
<1>1. DOMAIN rows = 1 .. 6
  OBVIOUS
<1>2. \A k \in 1 .. 6 :
        rows[k][2] \in {<<3, 1>>, <<2, 1>>, <<3, 2>>, <<1, 4>>, <<1, 2>>, <<3, 4>>, <<1, 1>>}
  <2>1. \A k \in 1 .. 6 : k \in {1, 2, 3, 4, 5, 6}
    OBVIOUS
  <2>2. /\ rows[1][2] = <<3, 1>> /\ rows[2][2] = <<2, 1>> /\ rows[3][2] = <<3, 2>>
        /\ rows[4][2] = <<1, 4>> /\ rows[5][2] = <<1, 2>> /\ rows[6][2] = <<3, 4>>
    OBVIOUS
  <2> HIDE DEF rows
  <2> QED BY <2>1, <2>2
<1>3. CoverageFactor(s) = FirstOf(rows, <<1, 1>>)
  BY DEF CoverageFactor
<1> HIDE DEF rows
<1>4. CoverageFactor(s) = <<1, 1>> \/ \E k \in DOMAIN rows : CoverageFactor(s) = rows[k][2]
  BY <1>1, <1>3, FirstOfIs
<1> QED BY <1>1, <1>2, <1>4

LEMMA DensityIs ==
  ASSUME NEW s
  PROVE  DensityFactor(s)[1] \in 1 .. 10 /\ DensityFactor(s)[2] \in 1 .. 10
<1> DEFINE seeds == s.rank_queue_cnt * s.total_alarm
           bound == s.queued_with_binding
           rows == << <<seeds * 10 < bound, <<10, 1>> >>,
                <<seeds * 8 < bound, <<8, 1>> >>,
                <<seeds * 6 < bound, <<6, 1>> >>,
                <<seeds * 4 < bound, <<4, 1>> >>,
                <<seeds * 2 < bound, <<2, 1>> >>,
                <<seeds < bound, <<1, 1>> >>,
                <<3 * seeds > 4 * bound, <<3, 4>> >>,
                <<seeds > 2 * bound, <<1, 2>> >>,
                <<seeds > 4 * bound, <<1, 4>> >>,
                <<seeds > 10 * bound, <<1, 10>> >> >>
<1>1. DOMAIN rows = 1 .. 10
  OBVIOUS
<1>2. \A k \in 1 .. 10 : rows[k][2][1] \in 1 .. 10 /\ rows[k][2][2] \in 1 .. 10
  <2>1. \A k \in 1 .. 10 : k \in {1, 2, 3, 4, 5, 6, 7, 8, 9, 10}
    OBVIOUS
  <2>2. /\ rows[1][2] = <<10, 1>> /\ rows[2][2] = <<8, 1>> /\ rows[3][2] = <<6, 1>>
        /\ rows[4][2] = <<4, 1>> /\ rows[5][2] = <<2, 1>> /\ rows[6][2] = <<1, 1>>
        /\ rows[7][2] = <<3, 4>> /\ rows[8][2] = <<1, 2>> /\ rows[9][2] = <<1, 4>>
        /\ rows[10][2] = <<1, 10>>
    OBVIOUS
  <2> HIDE DEF rows
  <2> QED BY <2>1, <2>2
<1>3. DensityFactor(s) = FirstOf(rows, <<1, 1>>)
  BY DEF DensityFactor
<1> HIDE DEF rows
<1>4. DensityFactor(s) = <<1, 1>> \/ \E k \in DOMAIN rows : DensityFactor(s) = rows[k][2]
  BY <1>1, <1>3, FirstOfIs
<1> QED BY <1>1, <1>2, <1>4

LEMMA DepthIs == ASSUME NEW s PROVE DepthFactor(s) \in 1 .. 5
<1> DEFINE rows == << <<s.depth <= 3, 1>>, <<s.depth <= 7, 2>>, <<s.depth <= 13, 3>>, <<s.depth <= 25, 4>> >>
<1>1. DOMAIN rows = 1 .. 4
  OBVIOUS
<1>2. \A k \in 1 .. 4 : rows[k][2] \in 1 .. 5
  <2>1. \A k \in 1 .. 4 : k \in {1, 2, 3, 4}
    OBVIOUS
  <2>2. rows[1][2] = 1 /\ rows[2][2] = 2 /\ rows[3][2] = 3 /\ rows[4][2] = 4
    OBVIOUS
  <2> HIDE DEF rows
  <2> QED BY <2>1, <2>2
<1>3. DepthFactor(s) = FirstOf(rows, 5)
  BY DEF DepthFactor
<1> HIDE DEF rows
<1>4. DepthFactor(s) = 5 \/ \E k \in DOMAIN rows : DepthFactor(s) = rows[k][2]
  BY <1>1, <1>3, FirstOfIs
<1> QED BY <1>1, <1>2, <1>4

\* Whatever the figures of an entry, its score is at least one, and limited.
LEMMA ScoreIsLimited ==
  ASSUME NEW s, NEW score \in calculate_score(s)
  PROVE  score \in 1 .. HAVOC_MAX_MULT * 100
<1>1. PICK speed \in Nat : speed = SpeedScore(s) /\ speed >= 10
  BY SpeedIs
<1>2. PICK x \in Nat \ {0} : x = Scaled(SpeedScore(s), CoverageFactor(s))
  <2>1. PICK r \in {<<3, 1>>, <<2, 1>>, <<3, 2>>, <<1, 4>>, <<1, 2>>, <<3, 4>>, <<1, 1>>} : r = CoverageFactor(s)
    BY CoverageIs
  <2>2. (speed * r[1]) \div r[2] \in Nat \ {0}
    BY <1>1, <2>1
  <2> QED BY <1>1, <2>1, <2>2 DEF Scaled
<1>3. PICK limit \in Nat : limit = HAVOC_MAX_MULT * 100 /\ limit >= 100
  BY ConfigAssumption
<1>4. CASE s.explore
  <2>1. PICK h \in {1, 2, 4} : h = HandicapFactor(s)
    BY DEF HandicapFactor
  <2>2. PICK d \in {1, 2, 3, 4, 5} : d = DepthFactor(s)
    BY DepthIs
  <2>3. x * h * d \in Nat \ {0}
    BY <2>1, <2>2
  <2>4. score = AtMost(x * h * d, limit)
    BY <1>2, <1>3, <1>4, <2>1, <2>2 DEF calculate_score
  <2> QED BY <1>3, <2>3, <2>4 DEF AtMost
<1>5. CASE ~s.explore
  <2>1. PICK y \in PowerScores(s, Scaled(x, DensityFactor(s))) : score = AtMost(AtLeast(y, 200), limit)
    BY <1>2, <1>3, <1>5 DEF calculate_score
  <2>2. PICK z \in Int : z = Scaled(x, DensityFactor(s))
    <3>1. PICK a \in 1 .. 10, b \in 1 .. 10 : a = DensityFactor(s)[1] /\ b = DensityFactor(s)[2]
      BY DensityIs
    <3>2. (x * a) \div b \in Int
      BY <3>1
    <3> QED BY <3>1, <3>2 DEF Scaled
  <2>3. y \in Int
    BY <2>1, <2>2 DEF PowerScores
  <2> QED BY <1>3, <2>1, <2>3 DEF AtMost, AtLeast
<1> QED BY <1>4, <1>5

---------------------------------------------------------------------------
(* Havoc                                                                   *)

Lengths ==
  /\ at \in {"havoc_stage", "loop", "tweak", "run", "splicing"}
  /\ q_len \in 1 .. MAX_FILE /\ len \in 1 .. MAX_FILE
  /\ out_size \in Nat /\ temp_len \in Nat
  /\ spliced \in BOOLEAN
  /\ ~spliced => len = q_len
  /\ at = "havoc_stage" => len <= out_size
  /\ at # "havoc_stage" => temp_len \in 1 .. MAX_FILE /\ temp_len <= out_size
  /\ overrun = FALSE

Energy ==
  /\ orig_perf \in 1 .. HAVOC_MAX_MULT * 100
  /\ havoc_div \in Nat \ {0} /\ splice_cycle \in Nat /\ doing_det \in BOOLEAN
  /\ at \in {"havoc_stage", "loop", "tweak", "run", "splicing"}
  /\ at = "havoc_stage" /\ splice_cycle = 0 => perf_score = orig_perf
  /\ at \in {"loop", "tweak", "run"} =>
       /\ perf_score \in 1 .. 2 * HAVOC_MAX_MULT * 100
       /\ stage_max \in Nat
       /\ stage_max * orig_perf = Planned * perf_score

---------------------------------------------------------------------------
LEMMA Limits ==
  /\ MAX_FILE \in Nat \ {0} /\ HAVOC_BLK_SMALL \in Nat \ {0}
  /\ HAVOC_BLK_MEDIUM \in Nat /\ HAVOC_BLK_LARGE \in Nat /\ HAVOC_BLK_XL \in Nat
  /\ HAVOC_BLK_SMALL <= HAVOC_BLK_MEDIUM /\ HAVOC_BLK_MEDIUM <= HAVOC_BLK_LARGE
  /\ HAVOC_BLK_LARGE <= HAVOC_BLK_XL
  /\ HAVOC_MIN \in Nat \ {0} /\ HAVOC_MAX_MULT \in Nat \ {0}
  /\ HAVOC_CYCLES \in Nat /\ HAVOC_CYCLES_INIT \in Nat /\ SPLICE_HAVOC \in Nat
  /\ TokenLens \subseteq Nat \ {0} /\ OtherLens \subseteq 1 .. MAX_FILE
  BY ConfigAssumption, HavocAssumption

\* A block is not empty, not longer than asked for, and no longer than the largest.
LEMMA BlockLen ==
  ASSUME NEW limit \in Nat \ {0}, NEW n \in choose_block_len(limit)
  PROVE  n \in 1 .. limit /\ n <= HAVOC_BLK_XL
<1> DEFINE Ranges == {<<1, HAVOC_BLK_SMALL>>, <<HAVOC_BLK_SMALL, HAVOC_BLK_MEDIUM>>,
                      <<HAVOC_BLK_MEDIUM, HAVOC_BLK_LARGE>>, <<HAVOC_BLK_LARGE, HAVOC_BLK_XL>>}
<1>1. PICK range \in Ranges :
        n \in (IF range[1] >= limit THEN 1 ELSE range[1]) .. Least(range[2], limit)
  BY DEF choose_block_len
<1>2. range[1] \in Nat \ {0} /\ range[2] \in Nat /\ range[2] <= HAVOC_BLK_XL
  BY <1>1, Limits
<1>3. Least(range[2], limit) <= limit /\ Least(range[2], limit) <= range[2]
  BY <1>2 DEF Least
<1>4. Least(range[2], limit) \in Nat
  BY <1>2 DEF Least
<1> QED BY <1>1, <1>2, <1>3, <1>4, Limits

---------------------------------------------------------------------------
\* A tweak that ends within the buffer does not overrun it.
LEMMA NoOverrun ==
  ASSUME overrun = FALSE, NEW ends, Touch(ends), \A e \in ends : ~(e > temp_len)
  PROVE  overrun' = FALSE
<1>1. ~ \E e \in ends : e > temp_len
  OBVIOUS
<1> QED BY ONLY overrun = FALSE, Touch(ends), <1>1, Zenon DEF Touch

LEMMA TweakKeepsLengths ==
  ASSUME Lengths, Tweak
  PROVE  Lengths'
<1>1. /\ at = "tweak" /\ at' = at /\ UNCHANGED <<q_len, spliced, len>>
      /\ temp_len \in 1 .. MAX_FILE /\ temp_len <= out_size /\ out_size \in Nat
      /\ overrun = FALSE
  BY DEF Lengths, Tweak, Tweaks, ChangeWord, Delete, Clone, CopyOver, TokenOver
<1> SUFFICES temp_len' \in 1 .. MAX_FILE /\ out_size' \in Nat /\ temp_len' <= out_size' /\ overrun' = FALSE
  BY <1>1, Limits DEF Lengths
<1>2. CASE ChangeWord
  <2>1. PICK w \in Widths :
          IF temp_len < w.needs
            THEN UNCHANGED overrun
            ELSE Touch({p + w.n : p \in 0 .. temp_len - w.n})
    BY <1>2 DEF ChangeWord
  <2>2. w.n \in Nat
    BY DEF Widths
  <2>3. \A e \in {p + w.n : p \in 0 .. temp_len - w.n} : ~(e > temp_len)
    BY <1>1, <2>2
  <2>4. overrun' = FALSE
    BY <1>1, <2>1, <2>3, NoOverrun
  <2> QED BY <1>1, <1>2, <2>4 DEF ChangeWord
<1>3. CASE Delete
  <2>1. CASE temp_len < 2
    BY <1>1, <1>3, <2>1 DEF Delete
  <2>2. CASE ~(temp_len < 2)
    <3>1. PICK n \in choose_block_len(temp_len - 1) :
            /\ temp_len' = temp_len - n
            /\ Touch({from + n : from \in 0 .. temp_len - n})
      BY <1>3, <2>2 DEF Delete
    <3>2. n \in 1 .. temp_len - 1
      BY <1>1, <2>2, BlockLen
    <3>3. \A e \in {from + n : from \in 0 .. temp_len - n} : ~(e > temp_len)
      BY <1>1, <3>2
    <3>4. overrun' = FALSE
      BY <1>1, <3>1, <3>3, NoOverrun
    <3> QED BY <1>1, <1>3, <3>1, <3>2, <3>4, Limits DEF Delete
  <2> QED BY <2>1, <2>2
<1>4. CASE Clone
  <2>1. CASE temp_len + HAVOC_BLK_XL >= MAX_FILE
    BY <1>1, <1>4, <2>1 DEF Clone
  <2>2. CASE ~(temp_len + HAVOC_BLK_XL >= MAX_FILE)
    <3>1. CASE \E n \in choose_block_len(temp_len) :
                 /\ temp_len' = temp_len + n
                 /\ Touch({from + n : from \in 0 .. temp_len - n})
      <4>1. PICK n \in choose_block_len(temp_len) :
              /\ temp_len' = temp_len + n
              /\ Touch({from + n : from \in 0 .. temp_len - n})
        BY <3>1
      <4>2. n \in 1 .. temp_len /\ n <= HAVOC_BLK_XL
        BY <1>1, BlockLen
      <4>3. overrun' = FALSE
        <5>1. \A e \in {from + n : from \in 0 .. temp_len - n} : ~(e > temp_len)
          BY <1>1, <4>2
        <5> QED BY <1>1, <4>1, <5>1, NoOverrun
      <4>4. out_size' = temp_len'
        BY <1>4, <2>2 DEF Clone
      <4> QED BY <1>1, <2>2, <4>1, <4>2, <4>3, <4>4, Limits
    <3>2. CASE \E n \in choose_block_len(HAVOC_BLK_XL) :
                 /\ temp_len' = temp_len + n
                 /\ UNCHANGED overrun
      <4>1. PICK n \in choose_block_len(HAVOC_BLK_XL) : temp_len' = temp_len + n /\ UNCHANGED overrun
        BY <3>2
      <4>2. n \in 1 .. HAVOC_BLK_XL
        BY Limits, BlockLen
      <4>3. out_size' = temp_len'
        BY <1>4, <2>2 DEF Clone
      <4> QED BY <1>1, <2>2, <4>1, <4>2, <4>3, Limits DEF Lengths
    <3> QED BY <1>4, <2>2, <3>1, <3>2 DEF Clone
  <2> QED BY <2>1, <2>2
<1>5. CASE CopyOver
  <2>1. CASE temp_len < 2
    BY <1>1, <1>5, <2>1 DEF CopyOver
  <2>2. CASE ~(temp_len < 2)
    <3>1. PICK n \in choose_block_len(temp_len - 1) : Touch({p + n : p \in 0 .. temp_len - n})
      BY <1>5, <2>2 DEF CopyOver
    <3>2. n \in 1 .. temp_len - 1
      BY <1>1, <2>2, BlockLen
    <3>3. \A e \in {p + n : p \in 0 .. temp_len - n} : ~(e > temp_len)
      BY <1>1, <3>2
    <3>4. overrun' = FALSE
      BY <1>1, <3>1, <3>3, NoOverrun
    <3> QED BY <1>1, <1>5, <3>4 DEF CopyOver
  <2> QED BY <2>1, <2>2
<1>6. CASE TokenOver
  <2>1. PICK n \in TokenLens :
          IF n > temp_len
            THEN UNCHANGED overrun
            ELSE Touch({p + n : p \in 0 .. temp_len - n})
    BY <1>6 DEF TokenOver
  <2>2. n \in Nat
    BY Limits
  <2>3. \A e \in {p + n : p \in 0 .. temp_len - n} : ~(e > temp_len)
    BY <1>1, <2>2
  <2>4. overrun' = FALSE
    BY <1>1, <2>1, <2>3, NoOverrun
  <2> QED BY <1>1, <1>6, <2>4 DEF TokenOver
<1> QED BY <1>2, <1>3, <1>4, <1>5, <1>6 DEF Tweak

LEMMA SpliceKeepsLengths ==
  ASSUME Lengths, Splice
  PROVE  Lengths'
<1>1. /\ at = "splicing" /\ temp_len' = temp_len /\ q_len' = q_len
      /\ temp_len \in 1 .. MAX_FILE /\ temp_len <= out_size /\ overrun = FALSE
  BY DEF Lengths, Splice
<1>2. CASE /\ at' = "splicing"
           /\ spliced' = FALSE
           /\ len' = IF spliced THEN q_len ELSE len
           /\ UNCHANGED <<out_size, overrun>>
  BY <1>1, <1>2 DEF Lengths
<1>3. CASE \E other \in OtherLens :
             \E first, last \in 0 .. Least(q_len, other) - 1 :
               /\ other >= 2 /\ last >= 2 /\ first < last
               /\ \E split_at \in first .. last - 1 :
                    overrun' = (overrun \/ split_at > other \/ split_at > q_len)
               /\ at' = "havoc_stage"
               /\ spliced' = TRUE
               /\ len' = other
               /\ out_size' = other
  <2>1. PICK other \in OtherLens :
          \E first, last \in 0 .. Least(q_len, other) - 1 :
            /\ other >= 2 /\ last >= 2 /\ first < last
            /\ \E split_at \in first .. last - 1 :
                 overrun' = (overrun \/ split_at > other \/ split_at > q_len)
            /\ at' = "havoc_stage"
            /\ spliced' = TRUE
            /\ len' = other
            /\ out_size' = other
    BY <1>3
  <2>2. PICK first \in 0 .. Least(q_len, other) - 1, last \in 0 .. Least(q_len, other) - 1 :
          \E split_at \in first .. last - 1 :
            overrun' = (overrun \/ split_at > other \/ split_at > q_len)
    BY <2>1
  <2>3. PICK split_at \in first .. last - 1 :
          overrun' = (overrun \/ split_at > other \/ split_at > q_len)
    BY <2>2
  <2>4. other \in 1 .. MAX_FILE /\ q_len \in 1 .. MAX_FILE
    BY Limits DEF Lengths
  <2>5. Least(q_len, other) <= q_len /\ Least(q_len, other) <= other /\ Least(q_len, other) \in Nat
    BY <2>4 DEF Least
  <2>6. ~(split_at > other) /\ ~(split_at > q_len)
    BY <2>2, <2>3, <2>4, <2>5
  <2>7. overrun' = FALSE
    BY ONLY <1>1, <2>3, <2>6, Zenon
  <2> QED BY <1>1, <2>1, <2>4, <2>7 DEF Lengths
<1> QED BY <1>2, <1>3 DEF Splice

LEMMA LengthsKept == Lengths /\ [HavocNext]_havocVars => Lengths'
<1> SUFFICES ASSUME Lengths, [HavocNext]_havocVars PROVE Lengths'
  OBVIOUS
<1>1. CASE HavocStage
  BY <1>1, Limits DEF Lengths, HavocStage
<1>2. CASE Stack
  BY <1>2 DEF Lengths, Stack, buffers
<1>3. CASE Tweak
  BY <1>3, TweakKeepsLengths
<1>4. CASE Run
  BY <1>4 DEF Lengths, Run, buffers
<1>5. CASE RestoreAndExtend
  <2>1. /\ at = "run" /\ at' = "loop" /\ UNCHANGED <<q_len, spliced, len>>
        /\ out_size' = Enlarged /\ temp_len' = len
        /\ overrun' = (overrun \/ len > out_size')
    BY <1>5 DEF RestoreAndExtend
  <2>2. len <= Enlarged /\ Enlarged \in Nat
    BY <2>1, Limits DEF Lengths, Enlarged
  <2>3. ~(len > out_size')
    BY <2>1, <2>2 DEF Lengths
  <2>4. overrun' = FALSE
    BY <2>1, <2>3, Zenon DEF Lengths
  <2> QED BY <2>1, <2>2, <2>4, Limits DEF Lengths
<1>6. CASE HavocEnd
  BY <1>6 DEF Lengths, HavocEnd, buffers
<1>7. CASE Splice
  BY <1>7, SpliceKeepsLengths
<1>8. CASE UNCHANGED havocVars
  BY <1>8 DEF Lengths, havocVars, buffers
<1> QED BY <1>1, <1>2, <1>3, <1>4, <1>5, <1>6, <1>7, <1>8 DEF HavocNext

---------------------------------------------------------------------------
LEMMA PlannedIsPositive ==
  ASSUME Energy
  PROVE  Planned \in Nat /\ Cycles \in Nat
<1>1. Cycles \in Nat
  BY Limits DEF Cycles
<1>2. ((Cycles * orig_perf) \div havoc_div) \div 100 \in Int
  <2>1. Cycles * orig_perf \in Nat
    BY <1>1 DEF Energy
  <2>2. (Cycles * orig_perf) \div havoc_div \in Int
    BY <2>1 DEF Energy
  <2> QED BY <2>2
<1> QED BY <1>1, <1>2, Limits DEF Planned, Most

LEMMA Doubled ==
  ASSUME NEW a \in Nat, NEW b \in Nat, NEW c \in Nat, NEW d \in Nat, a * b = c * d
  PROVE  (2 * a) * b = c * (2 * d)
<1>1. (2 * a) * b = 2 * (a * b)
  OBVIOUS
<1>2. c * (2 * d) = 2 * (c * d)
  OBVIOUS
<1> QED BY <1>1, <1>2

LEMMA EnergyKept == Energy /\ [HavocNext]_havocVars => Energy'
<1> SUFFICES ASSUME Energy, [HavocNext]_havocVars PROVE Energy'
  OBVIOUS
<1>1. CASE HavocStage
  <2>1. /\ at = "havoc_stage" /\ at' = "loop"
        /\ UNCHANGED <<orig_perf, havoc_div, splice_cycle, doing_det>>
        /\ perf_score' = StartScore /\ stage_max' = Planned
    BY <1>1 DEF HavocStage
  <2>2. StartScore = orig_perf
    BY <2>1 DEF Energy, StartScore
  <2>3. Planned' = Planned /\ Planned \in Nat
    BY <2>1, PlannedIsPositive DEF Planned, Cycles
  <2>4. orig_perf \in 1 .. 2 * HAVOC_MAX_MULT * 100
    BY Limits DEF Energy
  <2> QED BY <2>1, <2>2, <2>3, <2>4 DEF Energy
<1>2. CASE Stack \/ Tweak \/ Run \/ UNCHANGED havocVars
  <2>1. /\ UNCHANGED <<orig_perf, havoc_div, splice_cycle, doing_det, perf_score, stage_max>>
        /\ at' = "havoc_stage" => at = "havoc_stage"
        /\ at' \in {"loop", "tweak", "run"} => at \in {"loop", "tweak", "run"}
        /\ at' \in {"havoc_stage", "loop", "tweak", "run", "splicing"}
    BY <1>2 DEF Energy, Stack, Tweak, Tweaks, ChangeWord, Delete, Clone, CopyOver, TokenOver, Run,
       havocVars, energy
  <2>2. Planned' = Planned
    BY <2>1 DEF Planned, Cycles
  <2> QED BY <2>1, <2>2 DEF Energy
<1>3. CASE RestoreAndExtend
  <2>1. /\ at = "run" /\ at' = "loop" /\ UNCHANGED <<orig_perf, havoc_div, splice_cycle, doing_det>>
        /\ stage_max' = IF Longer THEN 2 * stage_max ELSE stage_max
        /\ perf_score' = IF Longer THEN 2 * perf_score ELSE perf_score
    BY <1>3 DEF RestoreAndExtend
  <2>2. Planned' = Planned /\ Planned \in Nat
    BY <2>1, PlannedIsPositive DEF Planned, Cycles
  <2>3. /\ perf_score \in 1 .. 2 * HAVOC_MAX_MULT * 100 /\ perf_score \in Nat
        /\ stage_max \in Nat /\ orig_perf \in Nat
        /\ stage_max * orig_perf = Planned * perf_score
    BY <2>1, Limits DEF Energy
  <2>4. CASE Longer
    <3>1. perf_score <= HAVOC_MAX_MULT * 100
      BY <2>4 DEF Longer
    <3>2. (2 * stage_max) * orig_perf = Planned * (2 * perf_score)
      BY <2>2, <2>3, Doubled
    <3>3. 2 * perf_score \in 1 .. 2 * HAVOC_MAX_MULT * 100 /\ 2 * stage_max \in Nat
      BY <2>3, <3>1, Limits
    <3> QED BY <2>1, <2>2, <2>4, <3>2, <3>3 DEF Energy
  <2>5. CASE ~Longer
    BY <2>1, <2>2, <2>3, <2>5 DEF Energy
  <2> QED BY <2>4, <2>5
<1>4. CASE HavocEnd \/ Splice
  <2>1. /\ UNCHANGED <<orig_perf, havoc_div, doing_det>>
        /\ at' \in {"havoc_stage", "splicing"} /\ splice_cycle' \in Nat
        /\ at' = "havoc_stage" => splice_cycle' # 0
    BY <1>4 DEF Energy, HavocEnd, Splice, energy
  <2> QED BY <2>1 DEF Energy
<1> QED BY <1>1, <1>2, <1>3, <1>4 DEF HavocNext

---------------------------------------------------------------------------
(* One call of fuzz_one                                                    *)

\* The entry is worked on: havoc has not forgotten it.
Alive == pc \in {"calibration", "trimming", "deterministic"} \/ (pc = "random" /\ at = "off")

FuzzInv ==
  /\ pc \in {"calibration", "trimming", "deterministic", "random", "abandon_entry", "returned"}
  /\ DetInv
  /\ pc \in {"calibration", "trimming"} => stage = 0
  /\ Alive => Trimming
  /\ trim # NoTrim => pc = "trimming" /\ ~trim_done
  /\ at # "off" => pc = "random" /\ Lengths /\ Energy
  /\ at = "off" => spliced = FALSE /\ overrun = FALSE /\ temp_len = 0 /\ splice_cycle = 0
  /\ pc \in {"deterministic", "random"} /\ at = "off" =>
       orig_perf \in 1 .. HAVOC_MAX_MULT * 100 /\ perf_score = orig_perf /\ doing_det \in BOOLEAN

\* Nothing is forgotten by halves: what an entry leaves behind says nothing.
LEMMA NoTokens == <<>> \in Seq(AutoToken) /\ Ordered(Used(<<>>)) /\ <<>> \in Seq(Token) /\ Ordered(<<>>)
<1>1. Len(<<>>) = 0
  OBVIOUS
<1>2. Smaller(0, USE_AUTO_EXTRAS) = 0
  BY Sizes DEF Smaller
<1>3. Len(Used(<<>>)) = 0
  BY <1>1, <1>2 DEF Used
<1> QED BY <1>1, <1>3 DEF Ordered

LEMMA ForgetKeeps == ASSUME Forget PROVE DetInv' /\ stage' = 0 /\ trim' = NoTrim
<1>1. /\ in_buf' = <<>> /\ extras' = <<>> /\ a_extras' = <<>> /\ last_len' = 0
      /\ stage' = 0 /\ i' = 0 /\ j' = 0 /\ a_collect' = <<>> /\ trim' = NoTrim
  BY DEF Forget
<1>2. DetTypes'
  BY <1>1, NoTokens DEF DetTypes, Token
<1> QED BY <1>1, <1>2 DEF DetInv

LEMMA LeaveKeeps == ASSUME NEW res, Leave(res) PROVE FuzzInv'
<1>1. /\ pc' = "abandon_entry" /\ Forget
      /\ at' = "off" /\ spliced' = FALSE /\ overrun' = FALSE /\ temp_len' = 0 /\ splice_cycle' = 0
  BY DEF Leave
<1>2. DetInv' /\ stage' = 0 /\ trim' = NoTrim
  BY <1>1, ForgetKeeps
<1> QED BY <1>1, <1>2 DEF FuzzInv, Alive

\* What depends on the variables of a part only.
LEMMA DetFrame == ASSUME DetInv, UNCHANGED detVars, UNCHANGED in_buf PROVE DetInv'
<1>1. /\ UNCHANGED <<in_buf, extras, no_arith, a_extras, a_collect, stage, i, j, last_len, out_buf, orig>>
  BY DEF detVars, settings, token
<1>2. DetTypes' <=> DetTypes
  BY <1>1 DEF DetTypes
<1>3. Kind' = Kind /\ Width' = Width /\ in_len' = in_len /\ (InDet' <=> InDet)
  BY <1>1 DEF Kind, Width, in_len, InDet
<1>4. Tokens' = Tokens /\ Positions' = Positions
  BY <1>1, <1>3 DEF Tokens, Positions
<1>5. InPosition' <=> InPosition
  BY <1>1, <1>3, <1>4 DEF InPosition
<1>6. Restorable' <=> Restorable
  BY <1>1, <1>3, <1>4, <1>5 DEF Restorable
<1> QED BY <1>1, <1>2, <1>6 DEF DetInv

LEMMA DetIdle ==
  ASSUME DetInv, stage = 0, UNCHANGED detVars, in_buf' \in Seq(Byte)
  PROVE  DetInv'
BY DEF DetInv, DetTypes, detVars, settings, token

LEMMA TrimFrame == ASSUME Trimming, UNCHANGED trimVars PROVE Trimming'
BY DEF Trimming, trimVars

LEMMA FuzzStarts == Init => FuzzInv
<1> SUFFICES ASSUME Init PROVE FuzzInv
  OBVIOUS
<1>1. /\ pc = "calibration" /\ file \in Inputs /\ in_buf = file
      /\ exec_cksum = Cksum(target, file) /\ trim = NoTrim
      /\ extras \in Dictionaries /\ a_extras \in AutoTokens /\ NoDet /\ NoHavoc
  BY DEF Init
<1>2. in_buf \in Seq(Byte) /\ Len(in_buf) \in 1 .. MAX_FILE
  BY <1>1, FuzzAssumption
<1>3. extras \in Seq(Token) /\ Ordered(extras) /\ a_extras \in Seq(AutoToken) /\ Ordered(Used(a_extras))
  <2> HIDE DEF Byte
  <2> QED BY <1>1, FuzzAssumption DEF Token, AutoToken
<1>4. DetInv
  BY <1>1, <1>2, <1>3 DEF DetInv, DetTypes, NoDet, Token
<1>5. Trimming
  BY <1>1, <1>2 DEF Trimming
<1> QED BY <1>1, <1>4, <1>5 DEF FuzzInv, NoDet, NoHavoc

LEMMA CalibrateKeeps == ASSUME FuzzInv, Calibrate PROVE FuzzInv'
<1>1. CASE \E res : Leave(res)
  BY <1>1, LeaveKeeps
<1>2. CASE pc = "calibration" /\ pc' = "trimming" /\ UNCHANGED <<trim_done, trimVars, detVars, havocVars>>
  <2>1. Trimming' /\ DetInv' /\ stage' = 0 /\ trim' = NoTrim
    BY <1>2, TrimFrame, DetFrame DEF FuzzInv, Alive, trimVars, detVars
  <2>2. at = "off" /\ UNCHANGED <<at, spliced, overrun, temp_len, splice_cycle>>
    BY <1>2 DEF FuzzInv, havocVars, buffers, energy
  <2> QED BY <1>2, <2>1, <2>2 DEF FuzzInv
<1> QED BY <1>1, <1>2 DEF Calibrate

LEMMA BeginTrimKeeps == ASSUME FuzzInv, BeginTrim PROVE FuzzInv'
<1>1. /\ pc = "trimming" /\ trim = NoTrim /\ ~trim_done
      /\ \/ trim_done' = TRUE /\ UNCHANGED trim
         \/ StartTrim /\ UNCHANGED trim_done
      /\ UNCHANGED <<pc, target, in_buf, file, exec_cksum, detVars, havocVars>>
  BY DEF BeginTrim
<1>2. Trimming /\ stage = 0 /\ at = "off"
  BY <1>1 DEF FuzzInv, Alive
<1>3. Trimming'
  BY <1>1, <1>2, TrimStarts DEF Trimming
<1>4. DetInv' /\ stage' = 0
  BY <1>1, <1>2, DetFrame DEF FuzzInv, detVars
<1>5. UNCHANGED <<at, spliced, overrun, temp_len, splice_cycle>>
  BY <1>1 DEF havocVars, buffers, energy
<1> QED BY <1>1, <1>2, <1>3, <1>4, <1>5 DEF FuzzInv

LEMMA TrimStepKeeps == ASSUME FuzzInv, TrimStep PROVE FuzzInv'
<1>1. /\ pc = "trimming" /\ UNCHANGED <<pc, detVars, havocVars>>
      /\ TrimRun \/ TrimPass \/ TrimEnd
      /\ trim # NoTrim
      /\ trim' = NoTrim \/ UNCHANGED trim_done
  BY DEF TrimStep, TrimRun, TrimPass, TrimEnd
<1>2. Trimming /\ stage = 0 /\ at = "off" /\ ~trim_done
  BY <1>1 DEF FuzzInv, Alive
<1>3. Trimming'
  BY <1>1, <1>2, TrimKept
<1>4. DetInv' /\ stage' = 0
  BY <1>1, <1>2, <1>3, DetIdle DEF FuzzInv, detVars, Trimming
<1>5. UNCHANGED <<at, spliced, overrun, temp_len, splice_cycle>>
  BY <1>1 DEF havocVars, buffers, energy
<1> QED BY <1>1, <1>2, <1>3, <1>4, <1>5 DEF FuzzInv

\* Trimming is over, and the score in range, when the stages begin.
LEMMA ScoreKeeps == ASSUME FuzzInv, Score PROVE FuzzInv'
<1>1. /\ pc = "trimming" /\ trim_done /\ UNCHANGED <<entry, trimVars, at, buffers, splice_cycle>>
      /\ \E s \in Entries : orig_perf' \in calculate_score(s)
      /\ perf_score' = orig_perf'
  BY DEF Score
<1>2. PICK det \in {FALSE, ~SkipsDet} :
        /\ doing_det' = det
        /\ IF det THEN StartDet ELSE UNCHANGED detVars
        /\ pc' = IF det THEN "deterministic" ELSE "random"
  BY DEF Score
<1>3. Trimming /\ Trimming' /\ at = "off" /\ trim = NoTrim /\ UNCHANGED <<in_buf, trim>>
  BY <1>1, TrimFrame DEF FuzzInv, Alive, trimVars
<1>4. DetInv'
  <2>1. CASE det
    BY <1>2, <1>3, <2>1, StartIsFresh DEF FuzzInv, DetInv, DetTypes
  <2>2. CASE ~det
    BY <1>2, <1>3, <2>2, DetFrame DEF FuzzInv
  <2> QED BY <2>1, <2>2
<1>5. orig_perf' \in 1 .. HAVOC_MAX_MULT * 100
  BY <1>1, ScoreIsLimited
<1>6. doing_det' \in BOOLEAN /\ pc' \in {"deterministic", "random"}
  BY <1>2 DEF SkipsDet
<1>7. UNCHANGED <<at, spliced, overrun, temp_len, splice_cycle>>
  BY <1>1 DEF buffers
<1> QED BY <1>1, <1>3, <1>4, <1>5, <1>6, <1>7 DEF FuzzInv

LEMMA DeterministicKeeps == ASSUME FuzzInv, Deterministic PROVE FuzzInv'
<1>1. pc = "deterministic" /\ DetNext /\ UNCHANGED <<pc, entry, trimVars, havocVars>>
  BY DEF Deterministic, control
<1>2. Trimming /\ Trimming' /\ UNCHANGED <<in_buf, trim, trim_done>> /\ at = "off"
  BY <1>1, TrimFrame DEF FuzzInv, Alive, trimVars, entry
<1>3. DetInv'
  BY <1>1, <1>2, DetKept DEF FuzzInv
<1>4. UNCHANGED <<at, spliced, overrun, temp_len, splice_cycle, orig_perf, perf_score, doing_det>>
  BY <1>1 DEF havocVars, buffers, energy
<1> QED BY <1>1, <1>2, <1>3, <1>4 DEF FuzzInv

LEMMA DetDoneKeeps == ASSUME FuzzInv, DetDone PROVE FuzzInv'
<1>1. pc = "deterministic" /\ pc' = "random" /\ UNCHANGED <<trim_done, trimVars, detVars, havocVars>>
  BY DEF DetDone
<1>2. Trimming /\ Trimming' /\ UNCHANGED <<in_buf, trim, trim_done>> /\ at = "off"
  BY <1>1, TrimFrame DEF FuzzInv, Alive, trimVars
<1>3. DetInv'
  BY <1>1, <1>2, DetFrame DEF FuzzInv
<1>4. UNCHANGED <<at, spliced, overrun, temp_len, splice_cycle, orig_perf, perf_score, doing_det>>
  BY <1>1 DEF havocVars, buffers, energy
<1> QED BY <1>1, <1>2, <1>3, <1>4 DEF FuzzInv

LEMMA EnterHavocKeeps == ASSUME FuzzInv, EnterHavoc PROVE FuzzInv'
<1>1. /\ pc = "random" /\ at = "off" /\ at' = "havoc_stage" /\ UNCHANGED pc
      /\ q_len' = Len(in_buf) /\ len' = Len(in_buf)
      /\ havoc_div' \in Divisors /\ Forget
      /\ UNCHANGED <<spliced, temp_len, overrun, doing_det, orig_perf, perf_score, splice_cycle>>
  BY DEF EnterHavoc, control
<1>2. out_size' \in Nat /\ out_size' >= Len(in_buf)
  <2>1. PICK b \in Inputs : Len(b) >= Len(in_buf) /\ out_size' = Len(b)
    BY DEF EnterHavoc
  <2>2. Len(b) \in 1 .. MAX_FILE
    BY FuzzAssumption
  <2> QED BY <2>1, <2>2, Sizes
<1>3. DetInv' /\ stage' = 0 /\ trim' = NoTrim
  BY <1>1, ForgetKeeps
<1>4. Len(in_buf) \in 1 .. MAX_FILE
  BY <1>1 DEF FuzzInv, Alive, Trimming
<1>5. /\ spliced = FALSE /\ overrun = FALSE /\ temp_len = 0 /\ splice_cycle = 0
      /\ orig_perf \in 1 .. HAVOC_MAX_MULT * 100 /\ perf_score = orig_perf /\ doing_det \in BOOLEAN
  BY <1>1 DEF FuzzInv
<1>6. Lengths'
  <2>1. Len(in_buf) \in Nat /\ Len(in_buf) <= out_size'
    BY <1>2, <1>4, Sizes
  <2> QED BY <1>1, <1>2, <1>4, <1>5, <2>1 DEF Lengths
<1>7. Energy'
  BY <1>1, <1>5, FuzzAssumption DEF Energy
<1> QED BY <1>1, <1>3, <1>6, <1>7 DEF FuzzInv, Alive

LEMMA RandomKeeps == ASSUME FuzzInv, Random PROVE FuzzInv'
<1>1. pc = "random" /\ HavocNext /\ UNCHANGED <<pc, entry, trimVars, detVars>>
  BY DEF Random, control
<1>2. at # "off"
  BY <1>1 DEF HavocNext, HavocStage, Stack, Tweak, Tweaks, ChangeWord, Delete, Clone, CopyOver,
     TokenOver, Run, RestoreAndExtend, HavocEnd, Splice
<1>3. Lengths' /\ Energy'
  BY <1>1, <1>2, LengthsKept, EnergyKept DEF FuzzInv
<1>4. at' # "off"
  BY <1>3 DEF Lengths
<1>5. DetInv' /\ UNCHANGED <<trim, trim_done>>
  BY <1>1, DetFrame DEF FuzzInv, trimVars, entry
<1> QED BY <1>1, <1>2, <1>3, <1>4, <1>5 DEF FuzzInv, Alive

LEMMA ReturnKeeps == ASSUME FuzzInv, Return PROVE FuzzInv'
<1>1. pc = "abandon_entry" /\ pc' = "returned" /\ UNCHANGED <<trim_done, trimVars, detVars, havocVars>>
  BY DEF Return
<1>2. DetInv' /\ UNCHANGED <<trim, trim_done>>
  BY <1>1, DetFrame DEF FuzzInv, trimVars
<1>3. at = "off" /\ UNCHANGED <<at, spliced, overrun, temp_len, splice_cycle>>
  BY <1>1 DEF FuzzInv, havocVars, buffers, energy
<1> QED BY <1>1, <1>2, <1>3 DEF FuzzInv, Alive

LEMMA StutterKeeps == ASSUME FuzzInv, UNCHANGED vars PROVE FuzzInv'
<1>1. UNCHANGED <<pc, trim_done, trim, stage, trimVars, detVars, havocVars>>
  BY DEF vars, control, entry, trimVars, detVars
<1>2. DetInv' /\ (Alive => Trimming')
  BY <1>1, DetFrame, TrimFrame DEF FuzzInv, trimVars
<1>3. at # "off" => Lengths' /\ Energy'
  BY <1>1, LengthsKept, EnergyKept DEF FuzzInv
<1>4. UNCHANGED <<at, spliced, overrun, temp_len, splice_cycle, orig_perf, perf_score, doing_det>>
  BY <1>1 DEF havocVars, buffers, energy
<1> QED BY <1>1, <1>2, <1>3, <1>4 DEF FuzzInv, Alive

LEMMA FuzzKept == FuzzInv /\ [Next]_vars => FuzzInv'
<1> SUFFICES ASSUME FuzzInv, [Next]_vars PROVE FuzzInv'
  OBVIOUS
<1>1. CASE \E res : Leave(res)
  BY <1>1, LeaveKeeps
<1>2. CASE TrimStopped \/ AllDone \/ Abandon
  BY <1>1, <1>2 DEF TrimStopped, AllDone, Abandon
<1>3. CASE Returned \/ UNCHANGED vars
  BY <1>3, StutterKeeps DEF Returned
<1> QED BY <1>2, <1>3, CalibrateKeeps, BeginTrimKeeps, TrimStepKeeps, ScoreKeeps, DeterministicKeeps,
     DetDoneKeeps, EnterHavocKeeps, RandomKeeps, ReturnKeeps DEF Next

---------------------------------------------------------------------------
\* The parts are handed on in the order of fuzz_one, from calibration to the return.
THEOREM FuzzInvHolds == Spec => []FuzzInv
BY FuzzStarts, FuzzKept, PTL DEF Spec

\* Whichever chunks trim_case takes out, what is left has the checksum recorded for
\* the entry, in memory and on disk, when it is over; for every deterministic target.
THEOREM TrimmingKeepsTrace == Spec => []TrimKeepsTrace
<1>1. FuzzInv => TrimKeepsTrace
  BY DEF FuzzInv, Alive, Trimming, TrimKeepsTrace
<1> QED BY <1>1, FuzzInvHolds, PTL

\* Words, and tokens laid one on top of the other, are all put back when a position
\* is left, whatever the dictionary and whatever was collected on the way.
THEOREM BuffersAreRestored == Spec => []BufferIsRestored
<1>1. FuzzInv => BufferIsRestored
  BY BufferIsInput DEF FuzzInv, DetInv, BufferIsRestored
<1> QED BY <1>1, FuzzInvHolds, PTL

\* However the tweaks shrink and grow out_buf, none of them and no restoring
\* memcpy of fuzz_one leaves it, and no run gets an empty or oversized input.
THEOREM HavocStaysInBuffer == Spec => []HavocFitsBuffer
<1>1. FuzzInv => HavocFitsBuffer
  BY DEF FuzzInv, Lengths, HavocFitsBuffer
<1> QED BY <1>1, FuzzInvHolds, PTL

\* The stage of an entry is lengthened in step with the score calculate_score gave
\* it, up to twice what HAVOC_MAX_MULT allows, in havoc and in every splice after it.
THEOREM HavocEnergyIsBounded == Spec => []EnergyIsBounded
<1>1. FuzzInv => EnergyIsBounded
  BY DEF FuzzInv, Energy, EnergyIsBounded
<1> QED BY <1>1, FuzzInvHolds, PTL

---------------------------------------------------------------------------
(* Words                                                                   *)

\* n bytes, the least first.
Word(n) == [1 .. n -> Byte]

\* The quotient and the rest are the only ones there are.
Splits(v, b, r, q) == b \in Nat \ {0} /\ r \in 0 .. b - 1 /\ q \in Int /\ v = r + b * q

LEMMA DivisionIs ==
  ASSUME NEW v, NEW b, NEW r, NEW q, Splits(v, b, r, q)
  PROVE  v \div b = q /\ v % b = r
<1>1. b \in Nat /\ b > 0 /\ r \in 0 .. b - 1 /\ q \in Int /\ v = r + b * q
  BY DEF Splits
<1>2. v \div b = q
  BY <1>1
<1>3. v % b = r
  BY <1>1
<1> QED BY <1>2, <1>3

\* The quotient and the rest of any number.
LEMMA DivisionHas ==
  ASSUME NEW b \in Nat \ {0}, NEW a \in Int
  PROVE  /\ a \div b \in Int /\ a % b \in 0 .. b - 1 /\ a = (a % b) + b * (a \div b)
<1>1. b \in Nat /\ b > 0
  OBVIOUS
<1>2. a \div b \in Int
  BY <1>1
<1>3. a % b \in 0 .. b - 1
  BY <1>1
<1>4. a = (a % b) + b * (a \div b)
  BY <1>1
<1> QED BY <1>2, <1>3, <1>4

\* Two digits make a number.
LEMMA DigitsAreBelow ==
  ASSUME NEW b \in Nat \ {0}, NEW c \in Nat \ {0}, NEW x \in 0 .. b - 1, NEW y \in 0 .. c - 1
  PROVE  b * c \in Nat \ {0} /\ x + b * y \in 0 .. b * c - 1
<1>1. b * y \in Nat /\ b * c \in Nat
  OBVIOUS
<1>2. b * (c - 1 - y) \in Nat
  <2>1. c - 1 - y \in Nat
    OBVIOUS
  <2> QED BY <2>1
<1>3. b * (c - 1 - y) = b * c - b - b * y
  OBVIOUS
<1>4. x + b * y <= b * c - 1
  BY <1>1, <1>2, <1>3
<1> QED BY <1>1, <1>4

\* The powers of Base that words of one, two and four bytes need.
LEMMA BaseIs ==
  /\ Base \in Nat \ {0} /\ Base * Base \in Nat \ {0} /\ Base * (Base * Base) \in Nat \ {0}
  /\ (Base * Base) * (Base * Base) \in Nat \ {0}
<1>1. Base \in Nat \ {0}
  BY PowersAssumption
<1>2. 0 \in 0 .. Base - 1
  BY <1>1
<1>3. Base * Base \in Nat \ {0}
  BY <1>1, <1>2, DigitsAreBelow
<1>4. 0 \in 0 .. Base * Base - 1
  BY <1>3
<1>5. Base * (Base * Base) \in Nat \ {0} /\ (Base * Base) * (Base * Base) \in Nat \ {0}
  BY <1>1, <1>2, <1>3, <1>4, DigitsAreBelow
<1> QED BY <1>1, <1>3, <1>5

\* A word of n bytes is a number below Base ^ n.
LEMMA NumberIs ==
  ASSUME NEW n \in {1, 2, 4}, NEW w \in Word(n)
  PROVE  /\ Number(w) \in 0 .. Base ^ n - 1 /\ Number(w) \in Int
         /\ n = 1 => Number(w) = w[1]
         /\ n = 2 => Number(w) = w[1] + Base * w[2]
         /\ n = 4 => Number(w) = (w[1] + Base * w[2]) + (Base * Base) * (w[3] + Base * w[4])
<1> USE BaseIs
<1> DEFINE B == Base
<1>1. Len(w) = n /\ \A k \in 1 .. n : w[k] \in 0 .. B - 1
  BY DEF Word, Byte
<1>2. CASE n = 1
  <2>1. Number(w) = w[1]
    BY <1>1, <1>2 DEF Number
  <2> QED BY <1>1, <1>2, <2>1, PowersAssumption
<1>3. CASE n = 2
  <2>1. Number(w) = w[1] + B * w[2]
    BY <1>1, <1>3 DEF Number
  <2>2. w[1] \in 0 .. B - 1 /\ w[2] \in 0 .. B - 1 /\ B \in Nat \ {0}
    BY <1>1, <1>3
  <2>3. w[1] + B * w[2] \in 0 .. B * B - 1
    <3> HIDE DEF B
    <3> QED BY <2>2, DigitsAreBelow
  <2> QED BY <1>3, <2>1, <2>3, PowersAssumption
<1>4. CASE n = 4
  <2>1. /\ w[1] \in 0 .. B - 1 /\ w[2] \in 0 .. B - 1 /\ w[3] \in 0 .. B - 1 /\ w[4] \in 0 .. B - 1
        /\ B \in Nat \ {0}
    BY <1>1, <1>4
  <2>2. w[1] + B * w[2] \in 0 .. B * B - 1 /\ w[3] + B * w[4] \in 0 .. B * B - 1
    <3> HIDE DEF B
    <3> QED BY <2>1, DigitsAreBelow
  <2>3. (w[1] + B * w[2]) + (B * B) * (w[3] + B * w[4]) \in 0 .. (B * B) * (B * B) - 1
    <3>1. PICK x, y : x = w[1] + B * w[2] /\ y = w[3] + B * w[4]
      OBVIOUS
    <3>2. PICK C : C = B * B
      OBVIOUS
    <3>3. C \in Nat \ {0} /\ x \in 0 .. C - 1 /\ y \in 0 .. C - 1
      BY <2>2, <3>1, <3>2, BaseIs
    <3>4. x + C * y \in 0 .. C * C - 1
      BY ONLY <3>3, DigitsAreBelow
    <3> QED BY <3>1, <3>2, <3>4
  <2>4. Number(w) = w[1] + B * w[2] + (B * B) * w[3] + (B * (B * B)) * w[4]
    BY <1>1, <1>4, PowersAssumption DEF Number
  <2>5. Number(w) = (w[1] + B * w[2]) + (B * B) * (w[3] + B * w[4])
    <3>1. \A p, q, r, s \in Int : \A c \in Int :
            p + c * q + (c * c) * r + (c * (c * c)) * s = (p + c * q) + (c * c) * (r + c * s)
      OBVIOUS
    <3> HIDE DEF B
    <3> QED BY <2>1, <2>4, <3>1
  <2> QED BY <1>4, <2>3, <2>5, PowersAssumption
<1> QED BY <1>2, <1>3, <1>4

\* The bytes of a number are those of any word it agrees with, whatever is carried
\* out of the word.
LEMMA BytesAre ==
  ASSUME NEW n \in {1, 2, 4}, NEW w \in Word(n), NEW v \in Int, NEW q \in Int,
         v = Number(w) + Base ^ n * q
  PROVE  Bytes(v, n) = w
<1> PICK B : B = Base
  OBVIOUS
<1> PICK C : C = B * B
  OBVIOUS
<1>0. B \in Nat \ {0} /\ C \in Nat \ {0} /\ B * C \in Nat \ {0}
  BY BaseIs
<1>1. /\ n >= 1 => w[1] \in 0 .. B - 1
      /\ n >= 2 => w[2] \in 0 .. B - 1
      /\ n = 4 => w[3] \in 0 .. B - 1 /\ w[4] \in 0 .. B - 1
  BY DEF Word, Byte
<1>2. Base ^ 0 = 1 /\ Base ^ 1 = B /\ Base ^ 2 = C /\ Base ^ 3 = B * C /\ Base ^ 4 = C * C
  BY PowersAssumption
<1>3. v \div 1 = v
  OBVIOUS
<1>4. CASE n = 1
  <2>1. Splits(v, B, w[1], q)
    <3>1. v = w[1] + B * q
      BY <1>2, <1>4, NumberIs
    <3> QED BY <1>0, <1>1, <1>4, <3>1 DEF Splits
  <2>2. v % B = w[1]
    BY <2>1, DivisionIs
  <2>3. \A k \in 1 .. 1 : (v \div (Base ^ (k - 1))) % Base = w[k]
    <3>1. \A k \in 1 .. 1 : k = 1
      OBVIOUS
    <3>2. (v \div (Base ^ (1 - 1))) % Base = w[1]
      BY <1>2, <1>3, <2>2
    <3> QED BY <3>1, <3>2
  <2> QED BY <1>4, <2>3 DEF Bytes, Word
<1>5. CASE n = 2
  <2> PICK u : u = w[2] + B * q
    OBVIOUS
  <2>0. w[1] \in 0 .. B - 1 /\ w[2] \in 0 .. B - 1
    BY <1>1, <1>5
  <2>1. Splits(u, B, w[2], q)
    BY <1>0, <2>0 DEF Splits
  <2>2. Splits(v, B, w[1], u)
    <3>1. v = (w[1] + B * w[2]) + (B * B) * q
      BY <1>2, <1>5, NumberIs
    <3>2. \A x, y, z \in Int : (x + z * y) + (z * z) * q = x + z * (y + z * q)
      OBVIOUS
    <3>3. v = w[1] + B * u
      BY <1>0, <2>0, <3>1, <3>2
    <3>4. u \in Int
      BY <1>0, <2>0
    <3> QED BY <1>0, <2>0, <3>3, <3>4 DEF Splits
  <2>3. v % B = w[1] /\ v \div B = u /\ u % B = w[2]
    BY <2>1, <2>2, DivisionIs
  <2>4. (v \div B) % B = w[2]
    BY <2>3
  <2>5. \A k \in 1 .. 2 : (v \div (Base ^ (k - 1))) % Base = w[k]
    <3>1. \A k \in 1 .. 2 : k = 1 \/ k = 2
      OBVIOUS
    <3>2. (v \div (Base ^ (1 - 1))) % Base = w[1]
      BY <1>2, <1>3, <2>3
    <3>3. (v \div (Base ^ (2 - 1))) % Base = w[2]
      BY <1>2, <2>4
    <3> QED BY <3>1, <3>2, <3>3
  <2> QED BY <1>5, <2>5 DEF Bytes, Word
<1>6. CASE n = 4
  <2> PICK x, y : x = w[1] + B * w[2] /\ y = w[3] + B * w[4]
    OBVIOUS
  <2> PICK t, u : t = y + C * q /\ u = w[4] + B * q
    OBVIOUS
  <2>0. w[1] \in 0 .. B - 1 /\ w[2] \in 0 .. B - 1 /\ w[3] \in 0 .. B - 1 /\ w[4] \in 0 .. B - 1
    BY <1>1, <1>6
  <2>1. x \in 0 .. C - 1 /\ y \in Int /\ t \in Int /\ u \in Int
    <3>1. w[1] + B * w[2] \in 0 .. B * B - 1
      BY <1>0, <2>0, DigitsAreBelow
    <3> QED BY <1>0, <2>0, <3>1
  <2>2. \A a, b, c, d \in Int : (a + c * b) + (c * c) * d = a + c * (b + c * d)
    OBVIOUS
  <2>3. Splits(v, C, x, t)
    <3>1. Number(w) = (w[1] + B * w[2]) + (B * B) * (w[3] + B * w[4])
      BY <1>6, NumberIs
    <3>2. v = (x + C * y) + (C * C) * q
      BY <1>2, <1>6, <3>1
    <3>3. v = x + C * t
      BY <1>0, <2>1, <2>2, <3>2
    <3> QED BY <1>0, <2>1, <3>3 DEF Splits
  <2>4. Splits(t, B, w[3], u)
    <3>1. t = w[3] + B * u
      BY <1>0, <2>0, <2>2
    <3> QED BY <1>0, <2>0, <2>1, <3>1 DEF Splits
  <2>5. Splits(u, B, w[4], q)
    BY <1>0, <2>0 DEF Splits
  <2>6. PICK z : z = w[2] + B * t
    OBVIOUS
  <2>7. Splits(z, B, w[2], t)
    BY <1>0, <2>0, <2>1, <2>6 DEF Splits
  <2>8. Splits(v, B, w[1], z)
    <3>1. v = x + C * t
      BY <2>3 DEF Splits
    <3>2. v = w[1] + B * z /\ z \in Int
      BY <1>0, <2>0, <2>1, <2>2, <2>6, <3>1
    <3> QED BY <1>0, <2>0, <3>2 DEF Splits
  <2>9. Splits(v, B * C, x + C * w[3], u)
    <3>1. x + C * w[3] \in 0 .. C * B - 1
      BY <1>0, <2>0, <2>1, DigitsAreBelow
    <3>2. v = x + C * t /\ t = w[3] + B * u
      BY <2>3, <2>4 DEF Splits
    <3>3. \A a, b, c, d \in Int : a + b * (c + B * d) = (a + b * c) + (B * b) * d
      BY <1>0
    <3>4. v = (x + C * w[3]) + (B * C) * u
      BY <1>0, <2>0, <2>1, <3>2, <3>3
    <3>5. C * B = B * C
      BY <1>0
    <3> QED BY <1>0, <2>1, <3>1, <3>4, <3>5 DEF Splits
  <2>10. /\ v % B = w[1] /\ v \div B = z /\ z % B = w[2] /\ v \div C = t /\ t % B = w[3]
         /\ v \div (B * C) = u /\ u % B = w[4]
    BY <2>3, <2>4, <2>5, <2>7, <2>8, <2>9, DivisionIs
  <2>11. \A k \in 1 .. 4 : (v \div (Base ^ (k - 1))) % Base = w[k]
    <3>1. \A k \in 1 .. 4 : k = 1 \/ k = 2 \/ k = 3 \/ k = 4
      OBVIOUS
    <3>2. (v \div (Base ^ (1 - 1))) % Base = w[1]
      BY <1>2, <1>3, <2>10
    <3>3. (v \div (Base ^ (2 - 1))) % Base = w[2]
      BY <1>2, <2>10
    <3>4. (v \div (Base ^ (3 - 1))) % Base = w[3]
      BY <1>2, <2>10
    <3>5. (v \div (Base ^ (4 - 1))) % Base = w[4]
      BY <1>2, <2>10
    <3> QED BY <3>1, <3>2, <3>3, <3>4, <3>5
  <2> QED BY <1>6, <2>11 DEF Bytes, Word
<1> QED BY <1>4, <1>5, <1>6

\* The bytes of a number make a word, which is the number if it is small enough.
LEMMA BytesMakeWord ==
  ASSUME NEW n \in {1, 2, 4}, NEW v \in Int
  PROVE  /\ Bytes(v, n) \in Word(n)
         /\ n < 4 /\ v \in 0 .. Base ^ n - 1 => Number(Bytes(v, n)) = v
<1> PICK w : w = Bytes(v, n)
  OBVIOUS
<1> PICK B : B = Base
  OBVIOUS
<1> PICK C : C = B * B
  OBVIOUS
<1>0. B \in Nat \ {0} /\ C \in Nat \ {0} /\ B * C \in Nat \ {0}
  BY BaseIs
<1>1. Base ^ 0 = 1 /\ Base ^ 1 = B /\ Base ^ 2 = C /\ Base ^ 3 = B * C /\ Base ^ 4 = C * C
  BY PowersAssumption
<1>2. \A k \in 1 .. n : v \div (Base ^ (k - 1)) \in Int /\ w[k] = (v \div (Base ^ (k - 1))) % Base
  <2>1. \A k \in 1 .. n : Base ^ (k - 1) \in Nat \ {0}
    <3>1. \A k \in 1 .. n : k - 1 \in {0, 1, 2, 3}
      OBVIOUS
    <3> QED BY <1>0, <1>1, <3>1
  <2>2. \A k \in 1 .. n : v \div (Base ^ (k - 1)) \in Int
    BY <2>1, DivisionHas
  <2> QED BY <2>2 DEF Bytes
<1>3. w \in Word(n)
  <2>1. \A k \in 1 .. n : (v \div (Base ^ (k - 1))) % Base \in 0 .. Base - 1
    BY <1>0, <1>2, DivisionHas
  <2> QED BY <2>1 DEF Bytes, Word, Byte
<1>4. ASSUME n < 4, v \in 0 .. Base ^ n - 1 PROVE Number(w) = v
  <2> PICK m : m = Number(w)
    OBVIOUS
  <2>1. m \in 0 .. Base ^ n - 1
    BY <1>3, NumberIs
  <2>2. v \div 1 = v
    OBVIOUS
  <2>3. CASE n = 1
    <3>1. m = w[1] /\ w[1] = v % B
      BY <1>1, <1>2, <1>3, <2>2, <2>3, NumberIs
    <3>2. v \in 0 .. B - 1
      BY <1>1, <1>4, <2>3
    <3>3. Splits(v, B, v, 0)
      BY <1>0, <3>2 DEF Splits
    <3>4. v % B = v
      BY <3>3, DivisionIs
    <3> QED BY <3>1, <3>4
  <2>4. CASE n = 2
    <3>1. w[1] = (v \div (Base ^ (1 - 1))) % Base /\ w[2] = (v \div (Base ^ (2 - 1))) % Base
      BY <1>2, <2>4
    <3>2. w[1] = v % B /\ w[2] = (v \div B) % B
      BY <1>1, <2>2, <3>1
    <3>3. v = w[1] + B * (v \div B) /\ v \div B \in Int /\ w[1] \in 0 .. B - 1
      <4>1. v = (v % B) + B * (v \div B) /\ v \div B \in Int /\ v % B \in 0 .. B - 1
        BY <1>0, DivisionHas
      <4> QED BY <3>2, <4>1
    <3>4. v \in 0 .. B * B - 1
      BY <1>1, <1>4, <2>4
    <3>5. v \div B \in 0 .. B - 1
      <4> PICK u \in Int : u = v \div B
        BY <3>3
      <4>1. v = w[1] + B * u /\ w[1] \in 0 .. B - 1
        BY <3>3
      <4>2. u >= 0
        <5> SUFFICES ASSUME u <= -1 PROVE FALSE
          OBVIOUS
        <5>1. B * (-1 - u) >= 0
          BY <1>0
        <5>2. B * (-1 - u) = -B - B * u
          BY <1>0
        <5>3. B * u \in Int
          BY <1>0
        <5> QED BY <1>0, <3>4, <4>1, <5>1, <5>2, <5>3
      <4>3. u <= B - 1
        <5> SUFFICES ASSUME u >= B PROVE FALSE
          BY <1>0
        <5>1. B * (u - B) >= 0
          BY <1>0
        <5>2. B * (u - B) = B * u - B * B
          BY <1>0
        <5>3. B * u \in Int /\ B * B \in Int
          BY <1>0
        <5> QED BY <1>0, <3>4, <4>1, <5>1, <5>2, <5>3
      <4> QED BY <4>2, <4>3
    <3>6. (v \div B) % B = v \div B
      <4>1. Splits(v \div B, B, v \div B, 0)
        BY <1>0, <3>3, <3>5 DEF Splits
      <4> QED BY <4>1, DivisionIs
    <3>7. m = w[1] + B * w[2]
      BY <1>3, <2>4, NumberIs
    <3> QED BY <3>2, <3>3, <3>6, <3>7
  <2> QED BY <1>4, <2>3, <2>4
<1> QED BY <1>3, <1>4

\* A word of the input, and a word put in its bytes' order.
OrderOf(big, w) == IF big THEN Reverse(w) ELSE w
Sum(n, big, w, d) == OrderOf(big, Bytes(Number(OrderOf(big, w)) + d, n))
SumBuf(n, p, big, d) == Put(in_buf, p, Sum(n, big, At(in_buf, p, n), d))
KnownBuf(n, p, big, v) == Put(in_buf, p, OrderOf(big, Bytes(v, n)))

\* Turned around twice a word is the same.
LEMMA ReverseIs ==
  ASSUME NEW n \in {1, 2, 4}, NEW w \in Word(n)
  PROVE  /\ Reverse(w) \in Word(n) /\ Reverse(Reverse(w)) = w
         /\ \A k \in 1 .. n : Reverse(w)[k] = w[n + 1 - k]
         /\ n = 1 => Reverse(w) = w
<1>1. Len(w) = n
  BY DEF Word
<1>2. Reverse(w) = [k \in 1 .. n |-> w[n + 1 - k]]
  <2>1. \A k \in 1 .. n : (n - k) + 1 = n + 1 - k
    OBVIOUS
  <2> QED BY <1>1, <2>1 DEF Reverse
<1>3. \A k \in 1 .. n : n + 1 - k \in 1 .. n
  OBVIOUS
<1>4. Reverse(w) \in Word(n)
  BY <1>2, <1>3 DEF Word
<1>5. Len(Reverse(w)) = n
  BY <1>4 DEF Word
<1>6. Reverse(Reverse(w)) = [k \in 1 .. n |-> Reverse(w)[n + 1 - k]]
  <2>1. \A k \in 1 .. n : (n - k) + 1 = n + 1 - k
    OBVIOUS
  <2> QED BY <1>5, <2>1 DEF Reverse
<1>7. \A k \in 1 .. n : Reverse(w)[n + 1 - k] = w[k]
  <2>1. \A k \in 1 .. n : n + 1 - (n + 1 - k) = k
    OBVIOUS
  <2> QED BY <1>2, <1>3, <2>1
<1>8. Reverse(Reverse(w)) = w
  BY <1>6, <1>7 DEF Word
<1>9. n = 1 => Reverse(w) = w
  <2> SUFFICES ASSUME n = 1 PROVE Reverse(w) = w
    OBVIOUS
  <2>1. \A k \in 1 .. n : n + 1 - k = k
    OBVIOUS
  <2> QED BY <1>2, <2>1 DEF Word
<1> QED BY <1>2, <1>4, <1>8, <1>9

\* In either order a word is a word.
LEMMA OrderKeepsWord ==
  ASSUME NEW n \in {1, 2, 4}, NEW w \in Word(n), NEW big
  PROVE  OrderOf(big, w) \in Word(n) /\ OrderOf(big, OrderOf(big, w)) = w
  BY ReverseIs DEF OrderOf

\* The word at a place in the input, and in a word.
LEMMA WordAt ==
  ASSUME NEW s \in Seq(Byte), NEW p \in Nat, NEW n \in {1, 2, 4}, p + n <= Len(s)
  PROVE  At(s, p, n) \in Word(n) /\ \A x \in 1 .. n : At(s, p, n)[x] = s[p + x]
<1>1. Len(s) \in Nat /\ p + 1 \in Int /\ p + n \in Int
  OBVIOUS
<1> PICK w : w = At(s, p, n)
  OBVIOUS
<1>2. w = SubSeq(s, p + 1, p + n)
  BY <1>1 DEF At, Smaller
<1>3. /\ w \in Seq(Byte) /\ Len(w) = IF p + 1 <= p + n THEN (p + n) - (p + 1) + 1 ELSE 0
      /\ \A x \in 1 .. (p + n) - (p + 1) + 1 : w[x] = s[(p + 1) + x - 1]
  <2>1. \A x \in p + 1 .. p + n : s[x] \in Byte
    BY <1>1
  <2> HIDE DEF Byte
  <2> QED BY <1>1, <1>2, <2>1, SubSeqProperties
<1>4. Len(w) = n /\ \A x \in 1 .. n : w[x] = s[p + x]
  <2>1. \A x \in 1 .. n : (p + 1) + x - 1 = p + x
    OBVIOUS
  <2>2. (p + n) - (p + 1) + 1 = n /\ p + 1 <= p + n
    OBVIOUS
  <2>3. Len(w) = n
    BY <1>3, <2>2
  <2>4. \A x \in 1 .. n : w[x] = s[(p + 1) + x - 1]
    BY <1>3, <2>2
  <2> QED BY <2>1, <2>3, <2>4
<1> QED BY <1>3, <1>4 DEF Word

\* The word w, to go to p, is the word u, to go to q, among bytes of the input.
Surrounds(p, n, w, q, m, u) ==
  /\ p \in Nat /\ n \in Nat /\ q \in Nat /\ m \in Nat
  /\ p + n <= in_len /\ p <= q /\ q + m <= p + n
  /\ DOMAIN w = 1 .. n /\ DOMAIN u = 1 .. m
  /\ \A x \in 1 .. n : w[x] = IF x + p - q \in 1 .. m THEN u[x + p - q] ELSE in_buf[p + x]

\* Then both make the same buffer.
LEMMA SamePut ==
  ASSUME DetTypes, NEW p, NEW n, NEW w, NEW q, NEW m, NEW u, Surrounds(p, n, w, q, m, u)
  PROVE  Put(in_buf, p, w) = Put(in_buf, q, u)
<1> USE DEF Surrounds
<1>1. Len(in_buf) \in Nat /\ Len(in_buf) = in_len
  BY DEF DetTypes, in_len
<1>2. /\ Put(in_buf, p, w) = [k \in 1 .. in_len |-> IF k - p \in 1 .. n THEN w[k - p] ELSE in_buf[k]]
      /\ Put(in_buf, q, u) = [k \in 1 .. in_len |-> IF k - q \in 1 .. m THEN u[k - q] ELSE in_buf[k]]
  BY <1>1 DEF Put
<1>3. \A k \in 1 .. in_len :
        (IF k - p \in 1 .. n THEN w[k - p] ELSE in_buf[k])
          = (IF k - q \in 1 .. m THEN u[k - q] ELSE in_buf[k])
  <2> TAKE k \in 1 .. in_len
  <2>1. CASE k - p \in 1 .. n
    <3>1. PICK x \in 1 .. n : x = k - p
      BY <2>1
    <3>2. x + p - q = k - q /\ p + x = k
      BY <1>1, <3>1
    <3>3. w[x] = IF k - q \in 1 .. m THEN u[k - q] ELSE in_buf[k]
      BY <3>2
    <3> QED BY <2>1, <3>1, <3>3
  <2>2. CASE k - p \notin 1 .. n
    <3>1. k - q \notin 1 .. m
      BY <1>1, <2>2
    <3> QED BY <2>2, <3>1
  <2> QED BY <2>1, <2>2
<1> QED BY <1>2, <1>3

---------------------------------------------------------------------------
(* Sums                                                                    *)

\* The sum of w and d stays within the lower half of w.
StaysLow(n, w, m, lo, d) ==
  /\ n \in {2, 4} /\ m \in {1, 2} /\ n = m + m /\ w \in Word(n) /\ d \in Int
  /\ (Number(w) % Base ^ m) + d \in 0 .. Base ^ m - 1
  /\ lo \in Word(m) /\ \A x \in 1 .. m : lo[x] = w[x]

\* Then it changes that half alone.
LEMMA LowHalf ==
  ASSUME NEW n, NEW w, NEW m, NEW lo, NEW d, StaysLow(n, w, m, lo, d)
  PROVE  /\ Bytes(Number(lo) + d, m) \in Word(m)
         /\ Bytes(Number(w) + d, n)
              = [x \in 1 .. n |-> IF x <= m THEN Bytes(Number(lo) + d, m)[x] ELSE w[x]]
<1> USE DEF StaysLow
<1> PICK H : H = Base ^ m
  OBVIOUS
<1> PICK hi : hi = [x \in 1 .. m |-> w[x + m]]
  OBVIOUS
<1>0. H \in Nat \ {0} /\ H = IF m = 1 THEN Base ELSE Base * Base
  BY BaseIs, PowersAssumption
<1>1. hi \in Word(m)
  BY DEF Word
<1>2. \A z \in Word(n), y \in Word(m) :
        (\A x \in 1 .. m : y[x] = z[x] /\ hi[x] = z[x + m]) => Number(z) = Number(y) + H * Number(hi)
  <2> SUFFICES ASSUME NEW z \in Word(n), NEW y \in Word(m),
                      \A x \in 1 .. m : y[x] = z[x] /\ hi[x] = z[x + m]
               PROVE  Number(z) = Number(y) + H * Number(hi)
    OBVIOUS
  <2>1. CASE m = 1
    <3>1. Number(z) = z[1] + Base * z[2]
      BY <2>1, NumberIs
    <3>2. Number(y) = y[1] /\ Number(hi) = hi[1]
      BY <1>1, <2>1, NumberIs
    <3>3. y[1] = z[1] /\ hi[1] = z[1 + 1]
      BY <2>1
    <3> QED BY <1>0, <2>1, <3>1, <3>2, <3>3
  <2>2. CASE m = 2
    <3>1. Number(z) = (z[1] + Base * z[2]) + (Base * Base) * (z[3] + Base * z[4])
      BY <2>2, NumberIs
    <3>2. Number(y) = y[1] + Base * y[2] /\ Number(hi) = hi[1] + Base * hi[2]
      BY <1>1, <2>2, NumberIs
    <3>3. y[1] = z[1] /\ hi[1] = z[1 + 2] /\ y[2] = z[2] /\ hi[2] = z[2 + 2]
      BY <2>2
    <3> QED BY <1>0, <2>2, <3>1, <3>2, <3>3
  <2> QED BY <2>1, <2>2
<1>3. Number(w) = Number(lo) + H * Number(hi)
  BY <1>2
<1>4. Number(lo) \in 0 .. H - 1 /\ Number(hi) \in 0 .. H - 1
  BY <1>1, NumberIs
<1>5. Number(w) % H = Number(lo)
  <2>1. Splits(Number(w), H, Number(lo), Number(hi))
    BY <1>0, <1>3, <1>4 DEF Splits
  <2> QED BY <2>1, DivisionIs
<1> PICK s : s = Number(lo) + d
  OBVIOUS
<1>6. s \in 0 .. Base ^ m - 1 /\ s \in Int
  BY <1>0, <1>4, <1>5
<1>7. Bytes(s, m) \in Word(m) /\ Number(Bytes(s, m)) = s
  BY <1>6, BytesMakeWord
<1> PICK z : z = [x \in 1 .. n |-> IF x <= m THEN Bytes(s, m)[x] ELSE w[x]]
  OBVIOUS
<1>8. z \in Word(n) /\ \A x \in 1 .. m : Bytes(s, m)[x] = z[x] /\ hi[x] = z[x + m]
  BY <1>7 DEF Word
<1>9. Number(z) = s + H * Number(hi)
  BY <1>2, <1>7, <1>8
<1>10. Number(w) + d = Number(z) + Base ^ n * 0 /\ Number(w) + d \in Int
  <2>1. Base ^ n * 0 = 0
    <3>1. Base ^ n \in Int
      BY BaseIs, PowersAssumption
    <3>2. \A c \in Int : c * 0 = 0
      OBVIOUS
    <3> QED BY <3>1, <3>2
  <2>2. PICK b \in Int : b = Number(hi)
    BY <1>1, NumberIs
  <2>3. PICK l \in Int : l = Number(lo)
    BY NumberIs
  <2>4. PICK a \in Int : a = H * b
    <3>1. \A x, y \in Int : x * y \in Int
      OBVIOUS
    <3>2. H \in Int
      BY <1>0
    <3> QED BY <3>1, <3>2
  <2>5. Number(w) = l + a /\ Number(z) = s + a /\ s = l + d
    BY <1>3, <1>9, <2>2, <2>3, <2>4
  <2>6. Number(w) + d = Number(z) /\ Number(w) + d \in Int
    <3>1. (l + a) + d = (l + d) + a /\ (l + a) + d \in Int
      OBVIOUS
    <3> QED BY <2>5, <3>1
  <2> QED BY <2>1, <2>6
<1>11. Bytes(Number(w) + d, n) = z
  <2>1. PICK v \in Int : v = Number(w) + d
    BY <1>10
  <2> QED BY <1>8, <1>10, <2>1, BytesAre
<1> QED BY <1>7, <1>11

\* So an addition that does not carry is one to half of the word: its lower half,
\* at the end of a big-endian word.
LEMMA HalfSum ==
  ASSUME DetTypes, NEW n \in {2, 4}, NEW m \in {1, 2}, n = m + m,
         NEW p \in Nat, p + n <= in_len, NEW big \in BOOLEAN, NEW d \in Int,
         (Number(OrderOf(big, At(in_buf, p, n))) % Base ^ m) + d \in 0 .. Base ^ m - 1
  PROVE  SumBuf(n, p, big, d) = SumBuf(m, IF big THEN p + m ELSE p, big, d)
<1> PICK q : q = IF big THEN p + m ELSE p
  OBVIOUS
<1>0. q \in Nat /\ p <= q /\ q + m <= p + n /\ q + m <= in_len /\ in_len \in Nat
  BY DEF DetTypes, in_len
<1> PICK W : W = At(in_buf, p, n)
  OBVIOUS
<1> PICK r : r = OrderOf(big, W)
  OBVIOUS
<1> PICK V : V = At(in_buf, q, m)
  OBVIOUS
<1> PICK lo : lo = OrderOf(big, V)
  OBVIOUS
<1>1. /\ W \in Word(n) /\ \A x \in 1 .. n : W[x] = in_buf[p + x]
      /\ V \in Word(m) /\ \A x \in 1 .. m : V[x] = in_buf[q + x]
  <2>1. in_buf \in Seq(Byte) /\ Len(in_buf) = in_len /\ n \in {1, 2, 4} /\ m \in {1, 2, 4}
    BY DEF DetTypes, in_len
  <2> HIDE DEF Byte
  <2>2. W \in Word(n) /\ \A x \in 1 .. n : W[x] = in_buf[p + x]
    BY <2>1, WordAt
  <2>3. V \in Word(m) /\ \A x \in 1 .. m : V[x] = in_buf[q + x]
    BY <1>0, <2>1, WordAt
  <2> QED BY <2>2, <2>3
<1>2. r \in Word(n) /\ lo \in Word(m)
  BY <1>1, OrderKeepsWord
<1>3. \A x \in 1 .. m : lo[x] = r[x]
  <2>1. CASE ~big
    BY <1>1, <2>1 DEF OrderOf
  <2>2. CASE big
    <3>1. \A x \in 1 .. m : lo[x] = V[m + 1 - x] /\ r[x] = W[n + 1 - x]
      BY <1>1, <2>2, ReverseIs DEF OrderOf
    <3>2. \A x \in 1 .. m : m + 1 - x \in 1 .. m /\ n + 1 - x \in 1 .. n
                            /\ q + (m + 1 - x) = p + (n + 1 - x)
      BY <2>2
    <3> QED BY <1>1, <3>1, <3>2
  <2> QED BY <2>1, <2>2
<1> PICK s : s = Bytes(Number(lo) + d, m)
  OBVIOUS
<1> PICK t : t = [x \in 1 .. n |-> IF x <= m THEN s[x] ELSE r[x]]
  OBVIOUS
<1>4. s \in Word(m) /\ Bytes(Number(r) + d, n) = t
  <2>1. (Number(r) % Base ^ m) + d \in 0 .. Base ^ m - 1
    OBVIOUS
  <2>2. /\ Bytes(Number(lo) + d, m) \in Word(m)
        /\ Bytes(Number(r) + d, n)
             = [x \in 1 .. n |-> IF x <= m THEN Bytes(Number(lo) + d, m)[x] ELSE r[x]]
    <3>1. StaysLow(n, r, m, lo, d)
      BY <1>2, <1>3, <2>1 DEF StaysLow
    <3> QED BY <3>1, LowHalf
  <2> QED BY <2>2
<1>5. t \in Word(n)
  BY <1>2, <1>4 DEF Word
<1> PICK w, u : w = OrderOf(big, t) /\ u = OrderOf(big, s)
  OBVIOUS
<1>6. w \in Word(n) /\ u \in Word(m)
  BY <1>4, <1>5, OrderKeepsWord
<1>7. \A x \in 1 .. n : w[x] = IF x + p - q \in 1 .. m THEN u[x + p - q] ELSE in_buf[p + x]
  <2>1. CASE ~big
    <3>1. w = t /\ u = s /\ r = W /\ p = q
      BY <2>1 DEF OrderOf
    <3> SUFFICES ASSUME NEW x \in 1 .. n
                 PROVE  w[x] = IF x + p - q \in 1 .. m THEN u[x + p - q] ELSE in_buf[p + x]
      OBVIOUS
    <3>2. x + p - q = x /\ (x \in 1 .. m <=> x <= m)
      BY <3>1
    <3>3. w[x] = IF x <= m THEN s[x] ELSE W[x]
      BY <3>1
    <3> QED BY <1>1, <3>1, <3>2, <3>3
  <2>2. CASE big
    <3>1. /\ \A x \in 1 .. n : w[x] = t[n + 1 - x] /\ r[x] = W[n + 1 - x]
          /\ \A x \in 1 .. m : u[x] = s[m + 1 - x]
      <4>1. w = Reverse(t) /\ r = Reverse(W) /\ u = Reverse(s)
        BY <2>2 DEF OrderOf
      <4>2. \A x \in 1 .. n : Reverse(t)[x] = t[n + 1 - x] /\ Reverse(W)[x] = W[n + 1 - x]
        <5>1. n \in {1, 2, 4}
          OBVIOUS
        <5> QED BY <1>1, <1>5, <5>1, ReverseIs
      <4>3. \A x \in 1 .. m : Reverse(s)[x] = s[m + 1 - x]
        <5>1. m \in {1, 2, 4} /\ s \in Word(m)
          BY <1>4
        <5> HIDE DEF Word
        <5> QED BY <5>1, ReverseIs
      <4>4. \A x \in 1 .. n : w[x] = t[n + 1 - x] /\ r[x] = W[n + 1 - x]
        BY <4>1, <4>2
      <4> QED BY <4>1, <4>3, <4>4
    <3> SUFFICES ASSUME NEW x \in 1 .. n
                 PROVE  w[x] = IF x + p - q \in 1 .. m THEN u[x + p - q] ELSE in_buf[p + x]
      OBVIOUS
    <3>2. n + 1 - x \in 1 .. n /\ n + 1 - (n + 1 - x) = x /\ x + p - q = x - m
      BY <2>2
    <3>3. CASE x > m
      <4>1. x - m \in 1 .. m /\ n + 1 - x <= m /\ m + 1 - (x - m) = n + 1 - x
        BY <3>3
      <4>2. w[x] = s[n + 1 - x]
        BY <3>1, <3>2, <4>1
      <4>3. u[x - m] = s[m + 1 - (x - m)]
        BY <3>1, <4>1
      <4> QED BY <3>2, <4>1, <4>2, <4>3
    <3>4. CASE x <= m
      <4>1. x - m \notin 1 .. m /\ ~(n + 1 - x <= m)
        BY <3>4
      <4>2. w[x] = r[n + 1 - x]
        BY <3>1, <3>2, <4>1
      <4>3. r[n + 1 - x] = W[x]
        <5>1. PICK y \in 1 .. n : y = n + 1 - x /\ n + 1 - y = x
          BY <3>2
        <5>2. r[y] = W[n + 1 - y]
          BY <3>1
        <5> QED BY <5>1, <5>2
      <4> QED BY <1>1, <3>2, <4>1, <4>2, <4>3
    <3> QED BY <3>3, <3>4
  <2> QED BY <2>1, <2>2
<1>8. Put(in_buf, p, w) = Put(in_buf, q, u)
  <2>1. DOMAIN w = 1 .. n /\ DOMAIN u = 1 .. m
    BY <1>6 DEF Word
  <2>2. n \in Nat /\ m \in Nat /\ q \in Nat /\ p <= q /\ q + m <= p + n
    BY <1>0
  <2>3. Surrounds(p, n, w, q, m, u)
    BY <1>7, <2>1, <2>2 DEF Surrounds
  <2> QED BY <2>3, SamePut
<1> QED BY <1>4, <1>8 DEF SumBuf, Sum

\* A byte has no order.
LEMMA ByteSum ==
  ASSUME DetTypes, NEW p \in Nat, p + 1 <= in_len, NEW d \in Int, NEW big \in BOOLEAN
  PROVE  SumBuf(1, p, big, d) = SumBuf(1, p, FALSE, d)
<1> PICK w : w = At(in_buf, p, 1)
  OBVIOUS
<1>1. w \in Word(1)
  BY WordAt DEF DetTypes, in_len
<1>2. Number(w) + d \in Int
  BY <1>1, NumberIs
<1>3. Bytes(Number(w) + d, 1) \in Word(1)
  BY <1>2, BytesMakeWord
<1>4. \A b : OrderOf(b, w) = w /\ OrderOf(b, Bytes(Number(w) + d, 1)) = Bytes(Number(w) + d, 1)
  BY <1>1, <1>3, ReverseIs DEF OrderOf
<1> QED BY <1>4 DEF SumBuf, Sum

\* The distances the arithmetic stages add.
Distances == {d \in Int : -ARITH_MAX <= d /\ d <= ARITH_MAX /\ d # 0}

\* Words that are near differ by one of them.
LEMMA NearIs ==
  ASSUME NEW n \in {1, 2, 4}, NEW a \in Word(n), NEW b \in Word(n), a # b, Near(a, b, n)
  PROVE  \E d \in Distances : Bytes(Number(a) + d, n) = b
<1> PICK M \in Nat \ {0} : M = Base ^ n
  BY BaseIs, PowersAssumption
<1> PICK x \in Int, y \in Int : x = Number(a) /\ y = Number(b)
  BY NumberIs
<1>0. ARITH_MAX \in Nat
  BY ConfigAssumption
<1>1. \A d, q \in Int : x + d = y + M * q => Bytes(x + d, n) = b
  <2> SUFFICES ASSUME NEW d \in Int, NEW q \in Int, x + d = y + M * q
               PROVE  Bytes(x + d, n) = b
    OBVIOUS
  <2>1. PICK v \in Int : v = x + d
    OBVIOUS
  <2> QED BY <2>1, BytesAre
<1>2. Bytes(x, n) = a
  <2>1. x = x + M * 0
    OBVIOUS
  <2> QED BY <2>1, BytesAre
<1>3. CASE (x - y) % M <= ARITH_MAX
  <2>1. PICK e, q : e = (x - y) % M /\ q = (x - y) \div M
    OBVIOUS
  <2>2. q \in Int /\ e \in 0 .. M - 1 /\ x - y = e + M * q
    <3>1. PICK z \in Int : z = x - y
      OBVIOUS
    <3> QED BY <2>1, <3>1, DivisionHas
  <2>3. x + (-e) = y + M * q /\ -e \in Int
    <3>1. PICK z \in Int : z = M * q
      BY <2>2
    <3> QED BY <2>2, <3>1
  <2>4. Bytes(x + (-e), n) = b
    BY <1>1, <2>2, <2>3
  <2>5. -e # 0
    <3> SUFFICES ASSUME -e = 0 PROVE FALSE
      OBVIOUS
    <3>1. x + (-e) = x
      OBVIOUS
    <3> QED BY <1>2, <2>4, <3>1
  <2>6. -e \in Distances
    <3>1. e \in Nat /\ e <= ARITH_MAX
      BY <1>3, <2>1, <2>2
    <3> QED BY <1>0, <2>5, <3>1 DEF Distances
  <2> QED BY <2>4, <2>6
<1>4. CASE (y - x) % M <= ARITH_MAX
  <2>1. PICK e, q : e = (y - x) % M /\ q = (y - x) \div M
    OBVIOUS
  <2>2. q \in Int /\ e \in 0 .. M - 1 /\ y - x = e + M * q
    <3>1. PICK z \in Int : z = y - x
      OBVIOUS
    <3> QED BY <2>1, <3>1, DivisionHas
  <2>3. x + e = y + M * (-q) /\ -q \in Int /\ e \in Int
    <3>1. PICK z \in Int : z = M * q
      BY <2>2
    <3>2. M * (-q) = -z
      BY <2>2, <3>1
    <3> QED BY <2>2, <3>1, <3>2
  <2>4. Bytes(x + e, n) = b
    BY <1>1, <2>2, <2>3
  <2>5. e # 0
    <3> SUFFICES ASSUME e = 0 PROVE FALSE
      OBVIOUS
    <3>1. x + e = x
      OBVIOUS
    <3> QED BY <1>2, <2>4, <3>1
  <2>6. e \in Distances
    BY <1>0, <1>4, <2>1, <2>2, <2>5 DEF Distances
  <2> QED BY <2>4, <2>6
<1> QED BY <1>3, <1>4 DEF Near

\* Words are the same byte by byte.
LEMMA SameWord ==
  ASSUME NEW n, NEW a \in Word(n), NEW b \in Word(n), \A x \in 1 .. n : a[x] = b[x]
  PROVE  a = b
<1>1. /\ a = [x \in 1 .. n |-> a[x]] /\ b = [x \in 1 .. n |-> b[x]]
  <2> HIDE DEF Byte
  <2> QED BY DEF Word
<1> QED BY <1>1

\* Part k, of n bytes, of a word of N bytes.
IsPart(N, n, k) == N \in {1, 2, 4} /\ n \in {1, 2, 4} /\ n <= N /\ k \in 0 .. N \div n - 1

\* A part of a word is a word, and has its bytes.
LEMMA PartAt ==
  ASSUME NEW N, NEW n, NEW k, IsPart(N, n, k), NEW w \in Word(N)
  PROVE  /\ k * n \in Nat /\ k * n + n <= N
         /\ At(w, k * n, n) \in Word(n)
         /\ \A x \in 1 .. n : At(w, k * n, n)[x] = w[k * n + x]
<1>1. k * n \in Nat /\ k * n + n <= N /\ n \in {1, 2, 4} /\ N \in {1, 2, 4}
  BY DEF IsPart
<1>2. w \in Seq(Byte) /\ Len(w) = N
  BY <1>1 DEF Word
<1>3. PICK q \in Nat : q = k * n
  BY <1>1
<1>4. At(w, q, n) \in Word(n) /\ \A x \in 1 .. n : At(w, q, n)[x] = w[q + x]
  BY <1>1, <1>2, <1>3, WordAt
<1> QED BY <1>1, <1>3, <1>4

\* Words that differ in one part only.
LEMMA OnePart ==
  ASSUME NEW N, NEW n, NEW k, IsPart(N, n, k), NEW a \in Word(N), NEW b \in Word(N),
         Differ(a, b, n) = {k}
  PROVE  /\ At(a, k * n, n) # At(b, k * n, n)
         /\ \A x \in 1 .. N : x - k * n \notin 1 .. n => b[x] = a[x]
<1>1. Len(a) = N
  BY DEF Word, IsPart
<1>2. At(a, k * n, n) # At(b, k * n, n)
  BY DEF Differ
<1>3. \A l \in 0 .. N \div n - 1 : l # k => At(a, l * n, n) = At(b, l * n, n)
  BY <1>1 DEF Differ
<1>4. \A x \in 1 .. N : x - k * n \notin 1 .. n => b[x] = a[x]
  <2> SUFFICES ASSUME NEW x \in 1 .. N, x - k * n \notin 1 .. n
               PROVE  b[x] = a[x]
    OBVIOUS
  <2>1. PICK l : l = (x - 1) \div n
    OBVIOUS
  <2>2. IsPart(N, n, l) /\ l # k /\ x - l * n \in 1 .. n
    <3>1. CASE n = 1
      BY <2>1, <3>1 DEF IsPart
    <3>2. CASE n = 2
      BY <2>1, <3>2 DEF IsPart
    <3>3. CASE n = 4
      BY <2>1, <3>3 DEF IsPart
    <3> QED BY <3>1, <3>2, <3>3 DEF IsPart
  <2>3. PICK y \in 1 .. n : y = x - l * n
    BY <2>2
  <2>4. At(a, l * n, n) = At(b, l * n, n)
    BY <1>3, <2>2 DEF IsPart
  <2>5. At(a, l * n, n)[y] = a[l * n + y] /\ At(b, l * n, n)[y] = b[l * n + y]
    BY <2>2, PartAt
  <2>6. l * n + y = x
    BY <2>2, <2>3 DEF IsPart
  <2> QED BY <2>4, <2>5, <2>6
<1> QED BY <1>2, <1>4

\* Where a word of N bytes at p in the input is.
InInput(p, N) == N \in {1, 2, 4} /\ p \in Nat /\ p + N <= in_len

\* What stands in the input is a word.
LEMMA InputWord ==
  ASSUME DetTypes, NEW p, NEW N, InInput(p, N)
  PROVE  At(in_buf, p, N) \in Word(N) /\ \A x \in 1 .. N : At(in_buf, p, N)[x] = in_buf[p + x]
<1>1. in_buf \in Seq(Byte) /\ p \in Nat /\ N \in {1, 2, 4} /\ p + N <= Len(in_buf)
  BY DEF DetTypes, in_len, InInput
<1> QED BY <1>1, WordAt

\* The word new is that at p in the input, but for part k, which is u.
Changes(p, N, n, k, new, u) ==
  /\ InInput(p, N) /\ IsPart(N, n, k) /\ DOMAIN new = 1 .. N /\ DOMAIN u = 1 .. n
  /\ \A x \in 1 .. N : new[x] = IF x - k * n \in 1 .. n THEN u[x - k * n] ELSE in_buf[p + x]

\* It makes the buffer that u makes.
LEMMA PartPut ==
  ASSUME DetTypes, NEW p, NEW N, NEW n, NEW k, NEW new, NEW u, Changes(p, N, n, k, new, u)
  PROVE  Put(in_buf, p, new) = Put(in_buf, p + k * n, u) /\ InInput(p + k * n, n)
<1> USE DEF Changes
<1>1. PICK q \in Nat : q = k * n /\ q + n <= N
  BY DEF IsPart
<1>2. N \in Nat /\ n \in {1, 2, 4} /\ p \in Nat /\ p + N <= in_len /\ in_len \in Nat
  BY DEF InInput, DetTypes, in_len, IsPart
<1>3. \A x \in 1 .. N : x + p - (p + q) = x - q
  BY <1>2
<1>4. Surrounds(p, N, new, p + q, n, u)
  <2>1. \A x \in 1 .. N : new[x] = IF x - q \in 1 .. n THEN u[x - q] ELSE in_buf[p + x]
    BY <1>1
  <2>2. \A x \in 1 .. N :
          new[x] = IF x + p - (p + q) \in 1 .. n THEN u[x + p - (p + q)] ELSE in_buf[p + x]
    <3> SUFFICES ASSUME NEW x \in 1 .. N
                 PROVE  new[x] = IF x + p - (p + q) \in 1 .. n THEN u[x + p - (p + q)] ELSE in_buf[p + x]
      OBVIOUS
    <3> QED BY <1>3, <2>1
  <2>3. /\ p \in Nat /\ N \in Nat /\ p + q \in Nat /\ n \in Nat
        /\ p + N <= in_len /\ p <= p + q /\ (p + q) + n <= p + N
    BY <1>1, <1>2
  <2>4. DOMAIN new = 1 .. N /\ DOMAIN u = 1 .. n
    OBVIOUS
  <2> QED BY <2>2, <2>3, <2>4 DEF Surrounds
<1>5. Put(in_buf, p, new) = Put(in_buf, p + q, u)
  BY <1>4, SamePut
<1>6. InInput(p + q, n)
  BY <1>1, <1>2 DEF InInput
<1> QED BY <1>1, <1>5, <1>6

\* A sum of a word somewhere in the input and one of the distances.
IsSum(buf) ==
  \E m \in {1, 2, 4}, q \in Nat, big \in BOOLEAN, d \in Distances :
    /\ InInput(q, m) /\ buf = SumBuf(m, q, big, d) /\ (m = 1 => ~big)

\* A change of one part to a number near it is a sum at that part.
LEMMA PartSum ==
  ASSUME DetTypes, NEW p, NEW N, InInput(p, N), NEW n, NEW k, IsPart(N, n, k),
         NEW new \in Word(N), Differ(At(in_buf, p, N), new, n) = {k},
         \/ Near(At(At(in_buf, p, N), k * n, n), At(new, k * n, n), n)
         \/ n > 1 /\ Near(Reverse(At(At(in_buf, p, N), k * n, n)), Reverse(At(new, k * n, n)), n)
  PROVE  IsSum(Put(in_buf, p, new))
<1> PICK q, a, b : q = p + k * n /\ a = At(At(in_buf, p, N), k * n, n) /\ b = At(new, k * n, n)
  OBVIOUS
<1>0. N \in {1, 2, 4} /\ n \in {1, 2, 4} /\ p \in Nat /\ k * n \in Nat
  BY DEF InInput, IsPart
<1>1. At(in_buf, p, N) \in Word(N) /\ \A x \in 1 .. N : At(in_buf, p, N)[x] = in_buf[p + x]
  BY InputWord
<1>2. /\ a \in Word(n) /\ \A x \in 1 .. n : a[x] = At(in_buf, p, N)[k * n + x]
      /\ b \in Word(n) /\ \A x \in 1 .. n : b[x] = new[k * n + x]
      /\ k * n + n <= N
  BY <1>1, PartAt
<1>3. a # b /\ \A x \in 1 .. N : x - k * n \notin 1 .. n => new[x] = At(in_buf, p, N)[x]
  BY <1>1, OnePart
<1>4. \A x \in 1 .. N : new[x] = IF x - k * n \in 1 .. n THEN b[x - k * n] ELSE in_buf[p + x]
  <2> SUFFICES ASSUME NEW x \in 1 .. N
               PROVE  new[x] = IF x - k * n \in 1 .. n THEN b[x - k * n] ELSE in_buf[p + x]
    OBVIOUS
  <2>1. CASE x - k * n \in 1 .. n
    <3>1. b[x - k * n] = new[k * n + (x - k * n)]
      BY <1>2, <2>1
    <3>2. k * n + (x - k * n) = x
      BY <1>0
    <3> QED BY <2>1, <3>1, <3>2
  <2>2. CASE x - k * n \notin 1 .. n
    BY <1>1, <1>3, <2>2
  <2> QED BY <2>1, <2>2
<1>5. Put(in_buf, p, new) = Put(in_buf, q, b) /\ InInput(q, n)
  <2>1. DOMAIN new = 1 .. N /\ DOMAIN b = 1 .. n
    BY <1>2 DEF Word
  <2>2. Changes(p, N, n, k, new, b)
    BY <1>4, <2>1 DEF Changes
  <2> QED BY <2>2, PartPut
<1>6. a = At(in_buf, q, n)
  <2>1. At(in_buf, q, n) \in Word(n) /\ \A x \in 1 .. n : At(in_buf, q, n)[x] = in_buf[q + x]
    BY <1>5, InputWord
  <2>2. \A x \in 1 .. n : a[x] = in_buf[q + x]
    <3> SUFFICES ASSUME NEW x \in 1 .. n PROVE a[x] = in_buf[q + x]
      OBVIOUS
    <3>1. k * n + x \in 1 .. N /\ p + (k * n + x) = q + x
      BY <1>0, <1>2
    <3> QED BY <1>1, <1>2, <3>1
  <2> QED BY <1>2, <2>1, <2>2, SameWord
<1>7. \E big \in BOOLEAN, d \in Distances : b = Sum(n, big, a, d) /\ (n = 1 => ~big)
  <2>1. CASE Near(a, b, n)
    <3>1. PICK d \in Distances : Bytes(Number(a) + d, n) = b
      BY <1>0, <1>2, <1>3, <2>1, NearIs
    <3>2. b = Sum(n, FALSE, a, d)
      BY <3>1 DEF Sum, OrderOf
    <3> QED BY <3>2
  <2>2. CASE n > 1 /\ Near(Reverse(a), Reverse(b), n)
    <3>1. Reverse(a) \in Word(n) /\ Reverse(b) \in Word(n) /\ Reverse(Reverse(a)) = a /\ Reverse(Reverse(b)) = b
      BY <1>0, <1>2, ReverseIs
    <3>2. Reverse(a) # Reverse(b)
      BY <1>3, <3>1
    <3>3. PICK d \in Distances : Bytes(Number(Reverse(a)) + d, n) = Reverse(b)
      BY <1>0, <2>2, <3>1, <3>2, NearIs
    <3>4. b = Sum(n, TRUE, a, d)
      BY <3>1, <3>3 DEF Sum, OrderOf
    <3>5. TRUE \in BOOLEAN /\ n # 1
      BY <2>2
    <3> QED BY <3>3, <3>4, <3>5
  <2> QED BY <2>1, <2>2
<1>8. PICK big \in BOOLEAN, d \in Distances : b = Sum(n, big, a, d) /\ (n = 1 => ~big)
  BY <1>7
<1>9. Put(in_buf, p, new) = SumBuf(n, q, big, d)
  BY <1>5, <1>6, <1>8 DEF SumBuf
<1>10. q \in Nat
  BY <1>0
<1> QED BY <1>0, <1>5, <1>8, <1>9, <1>10 DEF IsSum

\* What could_be_arith takes for a sum is one, or the input.
LEMMA ArithIsSum ==
  ASSUME DetTypes, NEW p, NEW N, InInput(p, N), NEW new \in Word(N),
         could_be_arith(At(in_buf, p, N), new)
  PROVE  new = At(in_buf, p, N) \/ IsSum(Put(in_buf, p, new))
<1> PICK old : old = At(in_buf, p, N)
  OBVIOUS
<1>0. N \in {1, 2, 4} /\ old \in Word(N) /\ Len(old) = N
  BY InputWord DEF InInput, Word
<1>1. CASE old = new
  BY <1>1
<1>2. ASSUME NEW k \in Differ(old, new, 1), Differ(old, new, 1) = {k},
             Near(At(old, k, 1), At(new, k, 1), 1)
      PROVE  IsSum(Put(in_buf, p, new))
  <2>1. k \in 0 .. N \div 1 - 1
    BY <1>0, <1>2 DEF Differ
  <2>2. IsPart(N, 1, k) /\ k * 1 = k
    BY <1>0, <2>1 DEF IsPart
  <2>3. Near(At(old, k * 1, 1), At(new, k * 1, 1), 1)
    BY <1>2, <2>2
  <2> QED BY <1>2, <2>2, <2>3, PartSum
<1>3. ASSUME NEW n \in {2, 4}, NEW k \in {0, 1}, n <= N, Differ(old, new, n) = {k},
             \/ Near(At(old, n * k, n), At(new, n * k, n), n)
             \/ Near(Reverse(At(old, n * k, n)), Reverse(At(new, n * k, n)), n)
      PROVE  IsSum(Put(in_buf, p, new))
  <2>1. k \in 0 .. N \div n - 1
    BY <1>0, <1>3 DEF Differ
  <2>2. IsPart(N, n, k) /\ n * k = k * n /\ n > 1
    BY <1>0, <1>3, <2>1 DEF IsPart
  <2>3. \/ Near(At(old, k * n, n), At(new, k * n, n), n)
        \/ n > 1 /\ Near(Reverse(At(old, k * n, n)), Reverse(At(new, k * n, n)), n)
    BY <1>3, <2>2
  <2> QED BY <1>3, <2>2, <2>3, PartSum
<1>4. \/ old = new
      \/ \E k \in Differ(old, new, 1) : Differ(old, new, 1) = {k} /\ Near(At(old, k, 1), At(new, k, 1), 1)
      \/ \E n \in {2, 4}, k \in {0, 1} :
           /\ n <= N /\ Differ(old, new, n) = {k}
           /\ \/ Near(At(old, n * k, n), At(new, n * k, n), n)
              \/ Near(Reverse(At(old, n * k, n)), Reverse(At(new, n * k, n)), n)
  BY <1>0 DEF could_be_arith
<1> QED BY <1>1, <1>2, <1>3, <1>4

---------------------------------------------------------------------------
(* Known integers                                                          *)

KnownOf(n) == ToSet(Interesting[n])

\* A known integer of m bytes, where a word of the input is.
IsKnown(buf, m, big) ==
  \E q \in Nat, v \in KnownOf(m) : InInput(q, m) /\ buf = KnownBuf(m, q, big, v)

\* A known integer makes a word.
LEMMA KnownIs == ASSUME NEW n \in {1, 2, 4}, NEW v \in KnownOf(n) PROVE v \in Int /\ Bytes(v, n) \in Word(n)
<1>1. Interesting[n] \in Seq(Int)
  BY Sizes
<1>2. v \in Int
  BY <1>1 DEF KnownOf, ToSet
<1> QED BY <1>2, BytesMakeWord

\* What could_be_interest takes for a known integer is the input, or a known integer
\* of a shorter word, or, when it is asked to look for them, of this word.
LEMMA InterestIsKnown ==
  ASSUME DetTypes, NEW p, NEW N, InInput(p, N), N > 1, NEW new \in Word(N), NEW check_le \in BOOLEAN,
         could_be_interest(At(in_buf, p, N), new, check_le)
  PROVE  \/ new = At(in_buf, p, N)
         \/ IsKnown(Put(in_buf, p, new), 1, FALSE)
         \/ N = 4 /\ \E big \in BOOLEAN : IsKnown(Put(in_buf, p, new), 2, big)
         \/ check_le /\ \E v \in KnownOf(N) : new = Bytes(v, N)
<1> PICK old : old = At(in_buf, p, N)
  OBVIOUS
<1>0. /\ N \in {2, 4} /\ old \in Word(N) /\ Len(old) = N /\ \A x \in 1 .. N : old[x] = in_buf[p + x]
      /\ p \in Nat
  BY InputWord DEF InInput, Word
<1>1. ASSUME NEW n \in {1, 2}, NEW k \in 0 .. N - n, NEW u \in Word(n), new = Put(old, k, u)
      PROVE  Put(in_buf, p, new) = Put(in_buf, p + k, u) /\ InInput(p + k, n)
  <2>1. new = [x \in 1 .. N |-> IF x - k \in 1 .. n THEN u[x - k] ELSE old[x]]
    BY <1>0, <1>1 DEF Put, Word
  <2>2. Surrounds(p, N, new, p + k, n, u)
    <3>1. \A x \in 1 .. N : x + p - (p + k) = x - k
      BY <1>0
    <3>2. \A x \in 1 .. N : new[x] = IF x + p - (p + k) \in 1 .. n THEN u[x + p - (p + k)] ELSE in_buf[p + x]
      BY <1>0, <2>1, <3>1
    <3>3. p \in Nat /\ N \in Nat /\ p + k \in Nat /\ n \in Nat /\ p + N <= in_len /\ p <= p + k
          /\ (p + k) + n <= p + N
      BY <1>0 DEF InInput
    <3>4. DOMAIN new = 1 .. N /\ DOMAIN u = 1 .. n
      BY DEF Word
    <3> QED BY <3>2, <3>3, <3>4 DEF Surrounds
  <2>3. InInput(p + k, n)
    <3>1. in_len \in Nat
      BY DEF DetTypes, in_len
    <3> QED BY <1>0, <3>1 DEF InInput
  <2> QED BY <2>2, <2>3, SamePut
<1>2. ASSUME NEW k \in 0 .. N - 1, NEW v \in KnownOf(1), new = Put(old, k, Bytes(v, 1))
      PROVE  IsKnown(Put(in_buf, p, new), 1, FALSE)
  <2>1. Bytes(v, 1) \in Word(1)
    BY KnownIs
  <2>2. Put(in_buf, p, new) = Put(in_buf, p + k, Bytes(v, 1)) /\ InInput(p + k, 1)
    BY <1>1, <1>2, <2>1
  <2>3. Put(in_buf, p, new) = KnownBuf(1, p + k, FALSE, v)
    BY <2>2 DEF KnownBuf, OrderOf
  <2>4. p + k \in Nat
    BY <1>0
  <2> QED BY <2>2, <2>3, <2>4 DEF IsKnown
<1>3. ASSUME NEW k \in 0 .. N - 2, NEW v \in KnownOf(2), NEW big \in BOOLEAN,
             new = Put(old, k, OrderOf(big, Bytes(v, 2)))
      PROVE  IsKnown(Put(in_buf, p, new), 2, big)
  <2>1. OrderOf(big, Bytes(v, 2)) \in Word(2)
    BY KnownIs, OrderKeepsWord
  <2>2. Put(in_buf, p, new) = Put(in_buf, p + k, OrderOf(big, Bytes(v, 2))) /\ InInput(p + k, 2)
    BY <1>1, <1>3, <2>1
  <2>3. Put(in_buf, p, new) = KnownBuf(2, p + k, big, v)
    BY <2>2 DEF KnownBuf
  <2>4. p + k \in Nat
    BY <1>0
  <2> QED BY <2>2, <2>3, <2>4 DEF IsKnown
<1>4. ASSUME N = 2, NEW k \in 0 .. N - 2, NEW v \in KnownOf(2), new = Put(old, k, Bytes(v, 2))
      PROVE  new = Bytes(v, N)
  <2>1. Bytes(v, 2) \in Word(2) /\ k = 0
    BY <1>4, KnownIs
  <2>2. new = [x \in 1 .. 2 |-> IF x - k \in 1 .. 2 THEN Bytes(v, 2)[x - k] ELSE old[x]]
    BY <1>0, <1>4, <2>1 DEF Put, Word
  <2>3. \A x \in 1 .. 2 : new[x] = Bytes(v, 2)[x]
    <3>1. \A x \in 1 .. 2 : x - k = x
      BY <2>1
    <3> QED BY <2>2, <3>1
  <2> QED BY <1>4, <2>1, <2>3, SameWord
<1>5. \/ old = new
      \/ \E k \in 0 .. N - 1, v \in KnownOf(1) : new = Put(old, k, Bytes(v, 1))
      \/ /\ N > 2 \/ check_le
         /\ \E k \in 0 .. N - 2, v \in KnownOf(2) :
              \/ new = Put(old, k, OrderOf(FALSE, Bytes(v, 2)))
              \/ N > 2 /\ new = Put(old, k, OrderOf(TRUE, Bytes(v, 2)))
      \/ N = 4 /\ check_le /\ \E v \in KnownOf(4) : new = Bytes(v, 4)
  BY <1>0 DEF could_be_interest, KnownOf, OrderOf
<1>6. ASSUME NEW k \in 0 .. N - 2, NEW v \in KnownOf(2), N > 2 \/ check_le,
             \/ new = Put(old, k, OrderOf(FALSE, Bytes(v, 2)))
             \/ N > 2 /\ new = Put(old, k, OrderOf(TRUE, Bytes(v, 2)))
      PROVE  \/ N = 4 /\ \E big \in BOOLEAN : IsKnown(Put(in_buf, p, new), 2, big)
             \/ check_le /\ \E w \in KnownOf(N) : new = Bytes(w, N)
  <2>1. CASE N = 4
    <3>1. PICK big \in BOOLEAN : new = Put(old, k, OrderOf(big, Bytes(v, 2)))
      BY <1>6
    <3>2. IsKnown(Put(in_buf, p, new), 2, big)
      BY <1>3, <3>1
    <3> QED BY <2>1, <3>2
  <2>2. CASE N = 2
    <3>1. check_le /\ new = Put(old, k, Bytes(v, 2))
      BY <1>6, <2>2 DEF OrderOf
    <3>2. new = Bytes(v, N)
      BY <1>4, <2>2, <3>1
    <3> QED BY <2>2, <3>1, <3>2
  <2> QED BY <1>0, <2>1, <2>2
<1> QED BY <1>2, <1>5, <1>6

---------------------------------------------------------------------------
(* What the stages have run                                                *)

\* The walking flip of stage s at p, and the number of places of a stage.
FlipOf(s, p) ==
  IF Stages[s].kind = "bit" THEN FLIP_BIT(in_buf, p, Stages[s].n)
                            ELSE FLIP_BIT(in_buf, p * ByteBits, Stages[s].n * ByteBits)
PlacesOf(s) ==
  IF Stages[s].kind = "bit" THEN in_len * ByteBits - (Stages[s].n - 1) ELSE in_len - (Stages[s].n - 1)
Passed(s, p) == p \in Nat /\ p < PlacesOf(s) /\ (s < stage \/ (s = stage /\ p < i))

\* Nothing is left out on purpose.
Whole == ~no_arith /\ (stage > 4 => eff_map = 0 .. EFF_ALEN - 1)

Reached(buf) == buf \in tried \/ Straddles(buf)
SumsReached(n, p) ==
  \A big \in BOOLEAN, d \in Distances : (n = 1 => ~big) => Reached(SumBuf(n, p, big, d))
KnownReached(n, p) ==
  \A big \in BOOLEAN, v \in KnownOf(n) : (n = 1 => ~big) => Reached(KnownBuf(n, p, big, v))

\* Attempt a at a position.
VariantsOf(n) == IF n = 1 THEN 1 ELSE 2
SumBig(n, a) == n > 1 /\ a % 4 >= 2
SumDelta(n, a) ==
  LET distance == 1 + a \div (2 * VariantsOf(n)) IN IF a % 2 = 0 THEN distance ELSE -distance
KnownBig(n, a) == n > 1 /\ a % 2 = 1
KnownAt(n, a) == Interesting[n][1 + a \div VariantsOf(n)]

\* The little-endian form of a known integer of this position.
OwnKnown(buf) ==
  Kind = "int" /\ j > 0 /\ \E v \in KnownOf(Width) : buf = KnownBuf(Width, i, FALSE, v)

FlipsTried == \A s \in 1 .. 6 : \A p : Passed(s, p) => FlipOf(s, p) \in tried
SumsTried == \A s \in 7 .. 9 : \A p : Passed(s, p) => SumsReached(Stages[s].n, p)
KnownTried == \A s \in 10 .. 12 : \A p : Passed(s, p) => KnownReached(Stages[s].n, p)
SumsSoFar ==
  Kind = "arith" =>
    \A a \in 0 .. j - 1 : Reached(SumBuf(Width, i, SumBig(Width, a), SumDelta(Width, a)))
KnownSoFar ==
  Kind = "int" =>
    \A a \in 0 .. j - 1 :
      LET buf == KnownBuf(Width, i, KnownBig(Width, a), KnownAt(Width, a))
      IN Reached(buf) \/ (KnownBig(Width, a) /\ OwnKnown(buf))
SkippedReached == \A buf \in skipped : Reached(buf) \/ OwnKnown(buf)

\* The stages one by one.
LEMMA StageList ==
  /\ Stages[1] = [kind |-> "bit", n |-> 1] /\ Stages[2] = [kind |-> "bit", n |-> 2]
  /\ Stages[3] = [kind |-> "bit", n |-> 4] /\ Stages[4] = [kind |-> "byte", n |-> 1]
  /\ Stages[5] = [kind |-> "byte", n |-> 2] /\ Stages[6] = [kind |-> "byte", n |-> 4]
  /\ Stages[7] = [kind |-> "arith", n |-> 1] /\ Stages[8] = [kind |-> "arith", n |-> 2]
  /\ Stages[9] = [kind |-> "arith", n |-> 4] /\ Stages[10] = [kind |-> "int", n |-> 1]
  /\ Stages[11] = [kind |-> "int", n |-> 2] /\ Stages[12] = [kind |-> "int", n |-> 4]
  /\ Stages[13] = [kind |-> "over", n |-> 0] /\ Stages[14] = [kind |-> "insert", n |-> 0]
  /\ Stages[15] = [kind |-> "auto", n |-> 0]
  BY DEF Stages

\* Which stages are of which kind.
LEMMA KindsAre ==
  /\ stage \in 1 .. 3 => Kind = "bit"
  /\ stage \in 4 .. 6 => Kind = "byte"
  /\ Kind \in {"bit", "byte"} => stage \in 1 .. 6
  /\ stage \in 7 .. 9 <=> Kind = "arith"
  /\ stage \in 10 .. 12 <=> Kind = "int"
  /\ stage \in DOMAIN Stages => Width = Stages[stage].n
<1>1. DOMAIN Stages = 1 .. 15
  BY StagesAre
<1>2. stage \in 1 .. 15 => stage \in {1, 2, 3, 4, 5, 6, 7, 8, 9, 10, 11, 12, 13, 14, 15}
  OBVIOUS
<1> QED BY <1>1, <1>2, StageList DEF Kind, Width

\* The attempt at hand.
LEMMA AttemptIs ==
  ASSUME DetTypes, Restorable, InAttempt({"arith", "int"})
  PROVE  /\ InInput(i, Width) /\ orig = At(in_buf, i, Width) /\ stage \in 7 .. 12
         /\ Replacement \in Word(Width)
         /\ Put(out_buf, i, Replacement) = Put(in_buf, i, Replacement)
<1>1. InDet /\ Kind \in {"arith", "int"} /\ i < Positions /\ InPosition
  BY DEF InAttempt, InPosition
<1>2. Width \in {1, 2, 4} /\ stage \in 7 .. 12
  BY <1>1, KindIs, KindsAre
<1>3. Positions = in_len - (Width - 1) /\ in_len \in Nat /\ i \in Nat
  BY <1>1 DEF Positions, DetTypes, in_len
<1>4. InInput(i, Width)
  BY <1>1, <1>2, <1>3 DEF InInput
<1>5. orig = At(in_buf, i, Width)
  BY <1>1 DEF Restorable
<1>6. orig \in Word(Width)
  BY <1>4, <1>5, InputWord
<1>7. Replacement \in Word(Width)
  <2>1. Interesting[Width] \in Seq(Int)
    BY <1>2, Sizes
  <2>2. Kind = "arith" => Number(InOrder(orig)) + Delta \in Int
    <3>1. InOrder(orig) \in Word(Width)
      BY <1>2, <1>6, ReverseIs DEF InOrder
    <3>2. Number(InOrder(orig)) \in Int
      BY <1>2, <3>1, NumberIs
    <3>3. Delta \in Int
      <4>1. Variants \in {1, 2} /\ j \in Nat
        BY DEF Variants, DetTypes
      <4> QED BY <4>1 DEF Delta
    <3> QED BY <3>2, <3>3
  <2>3. Kind = "int" => Known \in Int
    <3>1. 1 + j \div Variants \in 1 .. Len(Interesting[Width]) \/ Kind # "int"
      <4>1. Variants \in {1, 2} /\ j \in Nat /\ Len(Interesting[Width]) \in Nat
        BY <2>1 DEF Variants, DetTypes
      <4>2. Kind = "int" => j < Variants * Len(Interesting[Width])
        BY DEF InAttempt, Attempts
      <4>3. CASE Variants = 1
        BY <4>1, <4>2, <4>3
      <4>4. CASE Variants = 2
        BY <4>1, <4>2, <4>4
      <4> QED BY <4>1, <4>3, <4>4
    <3> QED BY <2>1, <3>1 DEF Known
  <2>4. PICK v \in Int : Replacement = InOrder(Bytes(v, Width))
    BY <1>1, <2>2, <2>3 DEF Replacement
  <2>5. Bytes(v, Width) \in Word(Width)
    BY <1>2, BytesMakeWord
  <2> QED BY <1>2, <2>4, <2>5, ReverseIs DEF InOrder
<1>8. Put(out_buf, i, Replacement) = Put(in_buf, i, Replacement)
  <2>1. PICK w : w = Replacement /\ DOMAIN w = 1 .. Width
    BY <1>7 DEF Word
  <2>2. Len(out_buf) = in_len /\ Len(in_buf) = in_len
    BY DEF Restorable, in_len
  <2>3. \A k \in 1 .. in_len : k - i \notin 1 .. Width => out_buf[k] = in_buf[k]
    BY <1>1, KindsAre DEF Restorable
  <2>4. \A k \in 1 .. in_len : (IF k - i \in DOMAIN w THEN w[k - i] ELSE out_buf[k])
                                  = (IF k - i \in DOMAIN w THEN w[k - i] ELSE in_buf[k])
    BY <2>1, <2>3
  <2>5. Put(out_buf, i, w) = Put(in_buf, i, w)
    BY <2>2, <2>4 DEF Put
  <2> QED BY <2>1, <2>5
<1> QED BY <1>2, <1>4, <1>5, <1>7, <1>8

\* Which sum an attempt of an arithmetic stage is.
LEMMA SumAttempt ==
  ASSUME DetTypes, Restorable, InAttempt({"arith"})
  PROVE  /\ SumBig(Width, j) = BigEndian /\ SumDelta(Width, j) = Delta
         /\ SumDelta(Width, j) \in Distances
         /\ Put(in_buf, i, Replacement) = SumBuf(Width, i, SumBig(Width, j), SumDelta(Width, j))
<1>1. Kind = "arith" /\ InAttempt({"arith", "int"}) /\ j < Attempts
  BY DEF InAttempt
<1>2. Width \in {1, 2, 4} /\ orig = At(in_buf, i, Width)
  BY <1>1, AttemptIs DEF InInput
<1>3. Variants = VariantsOf(Width) /\ j \in Nat /\ ARITH_MAX \in Nat /\ Variants \in {1, 2}
  BY ConfigAssumption DEF Variants, VariantsOf, DetTypes
<1>4. SumBig(Width, j) = BigEndian /\ SumDelta(Width, j) = Delta
  BY <1>1, <1>3 DEF SumBig, BigEndian, SumDelta, Delta
<1>5. Delta \in Distances
  <2>1. j < 2 * Variants * ARITH_MAX
    BY <1>1 DEF Attempts
  <2>2. 1 + j \div (2 * Variants) \in 1 .. ARITH_MAX
    <3>1. CASE Variants = 1
      BY <1>3, <2>1, <3>1
    <3>2. CASE Variants = 2
      BY <1>3, <2>1, <3>2
    <3> QED BY <1>3, <3>1, <3>2
  <2>3. PICK c \in 1 .. ARITH_MAX : Delta = IF j % 2 = 0 THEN c ELSE -c
    BY <2>2 DEF Delta
  <2> QED BY <1>3, <2>3 DEF Distances
<1>6. Replacement = Sum(Width, BigEndian, orig, Delta)
  BY <1>1 DEF Replacement, Sum, InOrder, OrderOf
<1> QED BY <1>2, <1>4, <1>5, <1>6 DEF SumBuf

\* Which known integer an attempt of the next stages is.
LEMMA KnownAttempt ==
  ASSUME DetTypes, Restorable, InAttempt({"int"})
  PROVE  /\ KnownBig(Width, j) = BigEndian /\ KnownAt(Width, j) \in KnownOf(Width)
         /\ Replacement = OrderOf(BigEndian, Bytes(KnownAt(Width, j), Width))
         /\ Put(in_buf, i, Replacement) = KnownBuf(Width, i, KnownBig(Width, j), KnownAt(Width, j))
<1>1. Kind = "int" /\ InAttempt({"arith", "int"}) /\ j < Attempts
  BY DEF InAttempt
<1>2. Width \in {1, 2, 4}
  BY <1>1, AttemptIs DEF InInput
<1>3. Variants = VariantsOf(Width) /\ j \in Nat /\ Variants \in {1, 2}
  BY DEF Variants, VariantsOf, DetTypes
<1>4. KnownBig(Width, j) = BigEndian /\ KnownAt(Width, j) = Known
  BY <1>1, <1>3 DEF KnownBig, BigEndian, KnownAt, Known
<1>5. KnownAt(Width, j) \in KnownOf(Width)
  <2>1. Interesting[Width] \in Seq(Int) /\ Len(Interesting[Width]) \in Nat
    BY <1>2, Sizes
  <2>2. j < Variants * Len(Interesting[Width])
    BY <1>1 DEF Attempts
  <2>3. 1 + j \div Variants \in 1 .. Len(Interesting[Width])
    <3>1. CASE Variants = 1
      BY <1>3, <2>1, <2>2, <3>1
    <3>2. CASE Variants = 2
      BY <1>3, <2>1, <2>2, <3>2
    <3> QED BY <1>3, <3>1, <3>2
  <2> QED BY <1>4, <2>1, <2>3 DEF KnownOf, ToSet, Known
<1>6. Replacement = OrderOf(BigEndian, Bytes(KnownAt(Width, j), Width))
  BY <1>1, <1>4 DEF Replacement, InOrder, OrderOf
<1> QED BY <1>4, <1>5, <1>6 DEF KnownBuf

\* What the stages before have reached.
LEMMA WalkedIsReached ==
  ASSUME DetTypes, FlipsTried, stage > 6, NEW buf, WalkingFlip(buf)
  PROVE  Reached(buf)
<1>0. in_len \in Nat /\ in_len * ByteBits \in Nat /\ stage \in Nat
  BY Sizes DEF DetTypes, in_len
<1> PICK bits \in Nat : bits = in_len * ByteBits
  BY <1>0
<1>1. PICK n \in {1, 2, 4} :
        \/ \E b \in 0 .. in_len * ByteBits - n : buf = FLIP_BIT(in_buf, b, n)
        \/ \E p \in 0 .. in_len - n : buf = FLIP_BIT(in_buf, p * ByteBits, n * ByteBits)
  BY DEF WalkingFlip
<1>2. ASSUME NEW b \in 0 .. in_len * ByteBits - n, buf = FLIP_BIT(in_buf, b, n) PROVE buf \in tried
  <2>1. PICK s \in 1 .. 6 : Stages[s].kind = "bit" /\ Stages[s].n = n
    BY StageList
  <2>2. b < PlacesOf(s) /\ b \in Nat
    BY <1>0, <1>2, <2>1 DEF PlacesOf
  <2>3. Passed(s, b)
    BY <1>0, <2>2 DEF Passed
  <2>4. FlipOf(s, b) = buf
    BY <1>2, <2>1 DEF FlipOf
  <2> QED BY <2>3, <2>4 DEF FlipsTried
<1>3. ASSUME NEW p \in 0 .. in_len - n, buf = FLIP_BIT(in_buf, p * ByteBits, n * ByteBits)
      PROVE  buf \in tried
  <2>1. PICK s \in 1 .. 6 : Stages[s].kind = "byte" /\ Stages[s].n = n
    BY StageList
  <2>2. p < PlacesOf(s) /\ p \in Nat
    BY <1>0, <1>3, <2>1 DEF PlacesOf
  <2>3. Passed(s, p)
    BY <1>0, <2>2 DEF Passed
  <2>4. FlipOf(s, p) = buf
    BY <1>3, <2>1 DEF FlipOf
  <2> QED BY <2>3, <2>4 DEF FlipsTried
<1> QED BY <1>1, <1>2, <1>3 DEF Reached

\* The words at these places were passed.
LEMMA WordPassed ==
  ASSUME DetTypes, NEW p, NEW n, InInput(p, n), NEW s \in 4 .. 12, Stages[s].n = n, s < stage
  PROVE  Passed(s, p)
<1>1. in_len \in Nat /\ stage \in Nat /\ p \in Nat /\ n \in {1, 2, 4} /\ p + n <= in_len
  BY DEF DetTypes, in_len, InInput
<1>2. s \in {4, 5, 6, 7, 8, 9, 10, 11, 12}
  OBVIOUS
<1>3. Stages[s].kind # "bit"
  BY <1>2, StageList
<1> QED BY <1>1, <1>3 DEF Passed, PlacesOf

\* A sum at a place that was passed is reached, and so is a known integer.
LEMMA SumIsReached ==
  ASSUME DetTypes, SumsTried, NEW p, NEW n, InInput(p, n), NEW big \in BOOLEAN, n = 1 => ~big,
         NEW d \in Distances, NEW s \in 7 .. 9, Stages[s].n = n, s < stage
  PROVE  Reached(SumBuf(n, p, big, d))
<1>1. Passed(s, p)
  BY WordPassed
<1>2. SumsReached(n, p)
  BY <1>1 DEF SumsTried
<1> QED BY <1>2 DEF SumsReached

LEMMA KnownIsReached ==
  ASSUME DetTypes, KnownTried, NEW buf, NEW n, NEW big \in BOOLEAN, n = 1 => ~big,
         IsKnown(buf, n, big), NEW s \in 10 .. 12, Stages[s].n = n, s < stage
  PROVE  Reached(buf)
<1>1. PICK q \in Nat, v \in KnownOf(n) : InInput(q, n) /\ buf = KnownBuf(n, q, big, v)
  BY DEF IsKnown
<1>2. Passed(s, q)
  BY <1>1, WordPassed
<1>3. KnownReached(n, q)
  BY <1>2 DEF KnownTried
<1> QED BY <1>1, <1>3 DEF KnownReached

\* The input, put back.
LEMMA PutBack ==
  ASSUME DetTypes, NEW p, NEW n, InInput(p, n)
  PROVE  Put(in_buf, p, At(in_buf, p, n)) = in_buf
<1>1. in_buf \in Seq(Byte) /\ Len(in_buf) \in Nat /\ p \in Nat /\ n \in Nat /\ p + n <= Len(in_buf)
  BY DEF DetTypes, InInput, in_len
<1> PICK w : w = At(in_buf, p, n)
  OBVIOUS
<1>2. DOMAIN w = 1 .. n /\ \A x \in 1 .. n : w[x] = in_buf[p + x]
  BY InputWord DEF Word
<1> PICK b : b = Put(in_buf, p, w)
  OBVIOUS
<1>3. b = [k \in 1 .. Len(in_buf) |-> IF k - p \in 1 .. n THEN w[k - p] ELSE in_buf[k]]
  BY <1>2 DEF Put
<1>4. \A k \in 1 .. Len(in_buf) : b[k] = in_buf[k]
  <2> SUFFICES ASSUME NEW k \in 1 .. Len(in_buf) PROVE b[k] = in_buf[k]
    OBVIOUS
  <2>1. CASE k - p \in 1 .. n
    <3>1. w[k - p] = in_buf[p + (k - p)]
      BY <1>2, <2>1
    <3>2. p + (k - p) = k
      BY <1>1
    <3> QED BY <1>3, <2>1, <3>1, <3>2
  <2>2. CASE k - p \notin 1 .. n
    BY <1>3, <2>2
  <2> QED BY <2>1, <2>2
<1>5. DOMAIN b = 1 .. Len(in_buf) /\ b = [k \in DOMAIN b |-> b[k]]
  BY <1>3
<1> QED BY <1>1, <1>4, <1>5, SameBuffer

\* An attempt that is left out has been run, or is about to be.
LEMMA SkippedWasRun ==
  ASSUME DetTypes, Restorable, in_buf \in tried, FlipsTried, SumsTried, KnownTried, BitflipsAreWalked,
         InAttempt({"arith", "int"}), ~Fresh, NEW buf, buf = Put(in_buf, i, Replacement)
  PROVE  \/ Reached(buf)
         \/ Kind = "int" /\ KnownBig(Width, j) /\ \E v \in KnownOf(Width) : buf = KnownBuf(Width, i, FALSE, v)
<1>1. /\ InInput(i, Width) /\ orig = At(in_buf, i, Width) /\ stage \in 7 .. 12
      /\ Replacement \in Word(Width) /\ Width \in {1, 2, 4}
  BY AttemptIs DEF InInput
<1>2. Reached(in_buf)
  BY DEF Reached
<1>3. CASE could_be_bitflip(XorOf(orig, Replacement))
  <2>1. buf = in_buf \/ WalkingFlip(buf) \/ Straddles(buf)
    BY <1>3 DEF BitflipsAreWalked
  <2>2. stage > 6
    BY <1>1
  <2>3. WalkingFlip(buf) => Reached(buf)
    BY <2>2, WalkedIsReached
  <2> QED BY <1>2, <2>1, <2>3 DEF Reached
<1>4. Replacement = orig => Reached(buf)
  BY <1>1, <1>2, PutBack
<1>5. CASE Kind = "arith" /\ ~Carries
  <2>1. Width \in {2, 4} /\ InAttempt({"arith"})
    BY <1>1, <1>5 DEF Carries, InAttempt
  <2> PICK m \in {1, 2} : m = Width \div 2 /\ Width = m + m
    BY <2>1
  <2>2. /\ SumBig(Width, j) = BigEndian /\ SumDelta(Width, j) = Delta
        /\ SumDelta(Width, j) \in Distances
        /\ buf = SumBuf(Width, i, BigEndian, Delta)
    BY <2>1, SumAttempt
  <2>3. BigEndian \in BOOLEAN /\ Delta \in Int
    BY <2>2 DEF BigEndian, Distances
  <2>4. (Number(OrderOf(BigEndian, At(in_buf, i, Width))) % Base ^ m) + Delta \in 0 .. Base ^ m - 1
    BY <1>1, <1>5 DEF Carries, InOrder, OrderOf
  <2> PICK q : q = IF BigEndian THEN i + m ELSE i
    OBVIOUS
  <2>5. buf = SumBuf(m, q, BigEndian, Delta)
    <3>1. i \in Nat /\ i + Width <= in_len
      BY <1>1 DEF InInput
    <3> QED BY <2>1, <2>2, <2>3, <2>4, <3>1, HalfSum
  <2>6. InInput(q, m)
    BY <1>1 DEF InInput, DetTypes, in_len
  <2>7. PICK s \in 7 .. 9 : Stages[s].n = m /\ s < stage
    <3>1. stage \in 7 .. 9 /\ Width = Stages[stage].n
      BY <1>5, KindsAre, StagesAre
    <3>2. stage = 7 \/ stage = 8 \/ stage = 9
      BY <3>1
    <3> QED BY <2>1, <3>1, <3>2, StageList
  <2>8. CASE m = 2
    <3>1. Delta \in Distances /\ (m = 1 => ~BigEndian)
      BY <2>2, <2>8
    <3>2. Reached(SumBuf(m, q, BigEndian, Delta))
      BY <2>3, <2>6, <2>7, <3>1, SumIsReached
    <3> QED BY <2>5, <3>2
  <2>9. CASE m = 1
    <3>1. q \in Nat /\ q + 1 <= in_len
      BY <2>6, <2>9 DEF InInput
    <3>2. buf = SumBuf(1, q, FALSE, Delta)
      BY <2>3, <2>5, <2>9, <3>1, ByteSum
    <3>3. Delta \in Distances /\ FALSE \in BOOLEAN
      BY <2>2
    <3>4. Reached(SumBuf(m, q, FALSE, Delta))
      BY <2>6, <2>7, <3>3, SumIsReached
    <3> QED BY <2>9, <3>2, <3>4
  <2> QED BY <2>8, <2>9
<1>6. CASE Kind = "int" /\ BigEndian /\ Replacement = Reverse(Replacement)
  <2>1. InAttempt({"int"})
    BY <1>6 DEF InAttempt
  <2> PICK v : v = KnownAt(Width, j)
    OBVIOUS
  <2>2. KnownBig(Width, j) = BigEndian /\ v \in KnownOf(Width) /\ Replacement = OrderOf(BigEndian, Bytes(v, Width))
    BY <2>1, KnownAttempt
  <2>3. Bytes(v, Width) \in Word(Width)
    BY <1>1, <2>2, KnownIs
  <2>4. Replacement = Bytes(v, Width)
    BY <1>1, <1>6, <2>2, <2>3, ReverseIs DEF OrderOf
  <2>5. buf = KnownBuf(Width, i, FALSE, v)
    BY <2>4 DEF KnownBuf, OrderOf
  <2> QED BY <1>6, <2>2, <2>5
<1>7. CASE Kind = "int" /\ could_be_arith(orig, Replacement)
  <2>1. Replacement = orig \/ IsSum(buf)
    BY <1>1, <1>7, ArithIsSum
  <2>2. stage > 9
    BY <1>1, <1>7, KindsAre
  <2>3. IsSum(buf) => Reached(buf)
    <3> SUFFICES ASSUME IsSum(buf) PROVE Reached(buf)
      OBVIOUS
    <3>1. PICK m \in {1, 2, 4}, q \in Nat, big \in BOOLEAN, d \in Distances :
            InInput(q, m) /\ buf = SumBuf(m, q, big, d) /\ (m = 1 => ~big)
      BY DEF IsSum
    <3>2. PICK s \in 7 .. 9 : Stages[s].n = m /\ s < stage
      BY <1>1, <2>2, StageList
    <3> QED BY <3>1, <3>2, SumIsReached
  <2> QED BY <1>4, <2>1, <2>3
<1>8. CASE Kind = "int" /\ Width > 1 /\ could_be_interest(orig, Replacement, BigEndian)
  <2>0. stage \in 10 .. 12 /\ Width = Stages[stage].n
    BY <1>8, KindsAre, StagesAre
  <2>1. (stage = 11 /\ Width = 2) \/ (stage = 12 /\ Width = 4)
    <3>1. stage = 10 \/ stage = 11 \/ stage = 12
      BY <2>0
    <3> QED BY <1>8, <2>0, <3>1, StageList
  <2>2. BigEndian \in BOOLEAN /\ KnownBig(Width, j) = BigEndian
    <3>1. InAttempt({"int"})
      BY <1>8 DEF InAttempt
    <3> QED BY <3>1, KnownAttempt DEF BigEndian
  <2>3. \/ Replacement = orig
        \/ IsKnown(buf, 1, FALSE)
        \/ Width = 4 /\ \E big \in BOOLEAN : IsKnown(buf, 2, big)
        \/ BigEndian /\ \E v \in KnownOf(Width) : Replacement = Bytes(v, Width)
    <3> PICK p, N, new, le : p = i /\ N = Width /\ new = Replacement /\ le = BigEndian
      OBVIOUS
    <3>1. /\ InInput(p, N) /\ N > 1 /\ new \in Word(N) /\ le \in BOOLEAN
          /\ could_be_interest(At(in_buf, p, N), new, le)
      BY <1>1, <1>8, <2>2
    <3>2. /\ orig = At(in_buf, p, N) /\ buf = Put(in_buf, p, new)
      BY <1>1
    <3>3. \/ new = At(in_buf, p, N)
          \/ IsKnown(Put(in_buf, p, new), 1, FALSE)
          \/ N = 4 /\ \E big \in BOOLEAN : IsKnown(Put(in_buf, p, new), 2, big)
          \/ le /\ \E v \in KnownOf(N) : new = Bytes(v, N)
      BY <3>1, InterestIsKnown
    <3> QED BY <3>2, <3>3
  <2>4. IsKnown(buf, 1, FALSE) => Reached(buf)
    <3>1. Stages[10].n = 1 /\ 10 < stage /\ 10 \in 10 .. 12
      BY <2>1, StageList
    <3> QED BY <3>1, KnownIsReached
  <2>5. ASSUME Width = 4, NEW big \in BOOLEAN, IsKnown(buf, 2, big) PROVE Reached(buf)
    <3>1. Stages[11].n = 2 /\ 11 < stage /\ 11 \in 10 .. 12 /\ 2 # 1
      BY <2>1, <2>5, StageList
    <3> QED BY <2>5, <3>1, KnownIsReached
  <2>6. ASSUME BigEndian, NEW v \in KnownOf(Width), Replacement = Bytes(v, Width)
        PROVE  KnownBig(Width, j) /\ buf = KnownBuf(Width, i, FALSE, v)
    BY <2>2, <2>6 DEF KnownBuf, OrderOf
  <2> QED BY <1>4, <1>8, <2>3, <2>4, <2>5, <2>6
<1>9. Kind \in {"arith", "int"}
  BY DEF InAttempt
<1> QED BY <1>3, <1>5, <1>6, <1>7, <1>8, <1>9 DEF Fresh

\* Everything an earlier stage or attempt was to run has been run.
Covered ==
  /\ in_buf \in tried
  /\ FlipsTried /\ SumsTried /\ KnownTried
  /\ SumsSoFar /\ KnownSoFar /\ SkippedReached

CoverInv == (stage = 0 => skipped = {}) /\ (stage > 0 /\ Whole => Covered)

\* Nothing that was reached is lost.
LEMMA ReachedStays ==
  ASSUME in_buf' = in_buf, tried \subseteq tried'
  PROVE  /\ \A buf : Reached(buf) => Reached(buf)'
         /\ \A s, p : FlipOf(s, p)' = FlipOf(s, p)
         /\ \A s : PlacesOf(s)' = PlacesOf(s)
         /\ \A n, p, big, d : SumBuf(n, p, big, d)' = SumBuf(n, p, big, d)
         /\ \A n, p, big, v : KnownBuf(n, p, big, v)' = KnownBuf(n, p, big, v)
         /\ \A n, p : SumsReached(n, p) => SumsReached(n, p)'
         /\ \A n, p : KnownReached(n, p) => KnownReached(n, p)'
<1>1. \A buf : Reached(buf) => Reached(buf)'
  <2>1. in_len' = in_len
    BY DEF in_len
  <2>2. \A buf : Straddles(buf) => Straddles(buf)'
    BY <2>1 DEF Straddles
  <2> QED BY <2>2 DEF Reached
<1>2. \A s, p : FlipOf(s, p)' = FlipOf(s, p)
  BY DEF FlipOf
<1>3. \A s : PlacesOf(s)' = PlacesOf(s)
  BY DEF PlacesOf, in_len
<1>4. \A n, p, big, d : SumBuf(n, p, big, d)' = SumBuf(n, p, big, d)
  BY DEF SumBuf
<1>5. \A n, p, big, v : KnownBuf(n, p, big, v)' = KnownBuf(n, p, big, v)
  BY DEF KnownBuf
<1>6. \A n, p : SumsReached(n, p) => SumsReached(n, p)'
  BY <1>1, <1>4 DEF SumsReached
<1>7. \A n, p : KnownReached(n, p) => KnownReached(n, p)'
  BY <1>1, <1>5 DEF KnownReached
<1> QED BY <1>1, <1>2, <1>3, <1>4, <1>5, <1>6, <1>7

\* Every place that is passed anew has been reached.
Gained(s, p) ==
  \/ Passed(s, p)
  \/ s \in 1 .. 6 /\ FlipOf(s, p) \in tried'
  \/ s \in 7 .. 9 /\ SumsReached(Stages[s].n, p)
  \/ s \in 10 .. 12 /\ KnownReached(Stages[s].n, p)

\* So the three parts about places that were passed are kept.
LEMMA PlacesKept ==
  ASSUME FlipsTried, SumsTried, KnownTried, in_buf' = in_buf, tried \subseteq tried',
         \A s \in 1 .. 12 : \A p : Passed(s, p)' => Gained(s, p)
  PROVE  FlipsTried' /\ SumsTried' /\ KnownTried'
<1>1. FlipsTried'
  <2> SUFFICES ASSUME NEW s \in 1 .. 6, NEW p, Passed(s, p)' PROVE FlipOf(s, p)' \in tried'
    BY DEF FlipsTried
  <2>1. s \in 1 .. 12 /\ s \notin 7 .. 9 /\ s \notin 10 .. 12
    OBVIOUS
  <2>2. Passed(s, p) \/ FlipOf(s, p) \in tried'
    BY <2>1 DEF Gained
  <2> QED BY <2>2, ReachedStays DEF FlipsTried
<1>2. SumsTried'
  <2> SUFFICES ASSUME NEW s \in 7 .. 9, NEW p, Passed(s, p)' PROVE SumsReached(Stages[s].n, p)'
    BY DEF SumsTried
  <2>1. s \in 1 .. 12 /\ s \notin 1 .. 6 /\ s \notin 10 .. 12
    OBVIOUS
  <2>2. Passed(s, p) \/ SumsReached(Stages[s].n, p)
    BY <2>1 DEF Gained
  <2>3. SumsReached(Stages[s].n, p)
    BY <2>2 DEF SumsTried
  <2> QED BY <2>3, ReachedStays
<1>3. KnownTried'
  <2> SUFFICES ASSUME NEW s \in 10 .. 12, NEW p, Passed(s, p)' PROVE KnownReached(Stages[s].n, p)'
    BY DEF KnownTried
  <2>1. s \in 1 .. 12 /\ s \notin 1 .. 6 /\ s \notin 7 .. 9
    OBVIOUS
  <2>2. Passed(s, p) \/ KnownReached(Stages[s].n, p)
    BY <2>1 DEF Gained
  <2>3. KnownReached(Stages[s].n, p)
    BY <2>2 DEF KnownTried
  <2> QED BY <2>3, ReachedStays
<1> QED BY <1>1, <1>2, <1>3

\* Where the places are the same.
LEMMA SamePlaces ==
  ASSUME UNCHANGED <<in_buf, stage>>, i' = i \/ stage \notin 1 .. 12
  PROVE  \A s \in 1 .. 12 : \A p : Passed(s, p)' => Passed(s, p)
<1>1. \A s : PlacesOf(s)' = PlacesOf(s)
  BY DEF PlacesOf, in_len
<1> QED BY <1>1 DEF Passed

\* An attempt, tried or skipped.
LEMMA AttemptCovers ==
  ASSUME DetTypes, Restorable, InAttempt({"arith", "int"}), Covered,
         UNCHANGED <<in_buf, stage, i>>, j' = j + 1, tried \subseteq tried',
         NEW buf, buf = Put(in_buf, i, Replacement), skipped' \subseteq skipped \cup {buf},
         \/ Reached(buf)'
         \/ Kind = "int" /\ KnownBig(Width, j) /\ \E v \in KnownOf(Width) : buf = KnownBuf(Width, i, FALSE, v)
  PROVE  Covered'
<1>1. Kind' = Kind /\ Width' = Width /\ j \in Nat /\ j' > 0
  BY DEF Kind, Width, DetTypes
<1>2. FlipsTried' /\ SumsTried' /\ KnownTried'
  BY SamePlaces, PlacesKept DEF Covered, Gained
<1>3. SumsSoFar'
  <2> SUFFICES ASSUME Kind = "arith", NEW a \in 0 .. j
               PROVE  Reached(SumBuf(Width, i, SumBig(Width, a), SumDelta(Width, a)))'
    BY <1>1 DEF SumsSoFar
  <2>1. CASE a \in 0 .. j - 1
    <3>1. Reached(SumBuf(Width, i, SumBig(Width, a), SumDelta(Width, a)))
      BY <2>1 DEF Covered, SumsSoFar
    <3> QED BY <1>1, <3>1, ReachedStays
  <2>2. CASE a = j
    <3>1. InAttempt({"arith"})
      BY DEF InAttempt
    <3>2. buf = SumBuf(Width, i, SumBig(Width, a), SumDelta(Width, a))
      BY <2>2, <3>1, SumAttempt
    <3>3. Reached(buf)'
      OBVIOUS
    <3> QED BY <1>1, <3>2, <3>3, ReachedStays
  <2> QED BY <1>1, <2>1, <2>2
<1>4. ASSUME NEW b, OwnKnown(b) PROVE OwnKnown(b)'
  <2>1. PICK v \in KnownOf(Width) : b = KnownBuf(Width, i, FALSE, v)
    BY <1>4 DEF OwnKnown
  <2>2. b = KnownBuf(Width, i, FALSE, v)'
    BY <1>1, <2>1, ReachedStays
  <2>3. KnownOf(Width)' = KnownOf(Width)
    BY <1>1 DEF KnownOf
  <2>4. Kind' = "int"
    BY <1>1, <1>4 DEF OwnKnown
  <2> QED BY <1>1, <2>2, <2>3, <2>4 DEF OwnKnown
<1>5. ASSUME Kind = "int", NEW v \in KnownOf(Width), buf = KnownBuf(Width, i, FALSE, v) PROVE OwnKnown(buf)'
  <2>1. buf = KnownBuf(Width, i, FALSE, v)'
    BY <1>1, <1>5, ReachedStays
  <2>2. KnownOf(Width)' = KnownOf(Width)
    BY <1>1 DEF KnownOf
  <2> QED BY <1>1, <1>5, <2>1, <2>2 DEF OwnKnown
<1>6. KnownSoFar'
  <2> SUFFICES ASSUME Kind = "int", NEW a \in 0 .. j,
                      NEW b, b = KnownBuf(Width, i, KnownBig(Width, a), KnownAt(Width, a))
               PROVE  Reached(b)' \/ (KnownBig(Width, a) /\ OwnKnown(b)')
    <3>1. \A a : KnownBuf(Width, i, KnownBig(Width, a), KnownAt(Width, a))'
                   = KnownBuf(Width, i, KnownBig(Width, a), KnownAt(Width, a))
      BY <1>1, ReachedStays
    <3>2. \A a : KnownBig(Width, a)' = KnownBig(Width, a)
      BY <1>1
    <3> QED BY <1>1, <3>1, <3>2 DEF KnownSoFar
  <2>1. CASE a \in 0 .. j - 1
    <3>1. Reached(b) \/ (KnownBig(Width, a) /\ OwnKnown(b))
      BY <2>1 DEF Covered, KnownSoFar
    <3> QED BY <1>4, <3>1, ReachedStays
  <2>2. CASE a = j
    <3>1. InAttempt({"int"})
      BY DEF InAttempt
    <3>2. buf = b
      BY <2>2, <3>1, KnownAttempt
    <3> QED BY <1>5, <2>2, <3>2
  <2> QED BY <1>1, <2>1, <2>2
<1>7. SkippedReached'
  <2> SUFFICES ASSUME NEW b \in skipped' PROVE Reached(b)' \/ OwnKnown(b)'
    BY DEF SkippedReached
  <2>1. CASE b \in skipped
    BY <1>4, <2>1, ReachedStays DEF Covered, SkippedReached
  <2>2. CASE b = buf
    BY <1>5, <2>2
  <2> QED BY <2>1, <2>2
<1> QED BY <1>2, <1>3, <1>6, <1>7 DEF Covered

\* At the start of a position nothing is open.
LEMMA NothingOpen ==
  ASSUME j' = 0, SkippedReached'
  PROVE  SumsSoFar' /\ KnownSoFar' /\ \A buf : ~OwnKnown(buf)'
<1>1. \A a : a \notin 0 .. j' - 1
  OBVIOUS
<1>2. SumsSoFar' /\ KnownSoFar'
  BY <1>1 DEF SumsSoFar, KnownSoFar
<1>3. \A buf : ~OwnKnown(buf)'
  BY DEF OwnKnown
<1> QED BY <1>2, <1>3

\* What was skipped where no known integers are tried stays reached.
LEMMA SkippedStay ==
  ASSUME SkippedReached, in_buf' = in_buf, tried \subseteq tried', skipped' = skipped,
         \A buf \in skipped : OwnKnown(buf) => Reached(buf)
  PROVE  SkippedReached'
  BY ReachedStays DEF SkippedReached

\* A flip adds the place it is made at.
LEMMA FlipCovers ==
  ASSUME DetTypes, Restorable, Flip, UNCHANGED in_buf, Covered
  PROVE  Covered'
<1>1. /\ InPosition /\ Kind \in {"bit", "byte"} /\ NextPosition(out_buf)
      /\ tried' = tried \cup {Flipped} /\ UNCHANGED <<stage, skipped>>
  BY DEF Flip
<1>2. out_buf = in_buf /\ stage \in 1 .. 6 /\ j' = 0 /\ i' = i + 1 /\ i \in Nat
  BY <1>1, BufferIsInput, KindsAre DEF NextPosition, DetTypes
<1>3. Stages[stage].kind = Kind /\ Stages[stage].n = Width
  BY <1>2, StagesAre DEF Kind, Width
<1>4. FlipOf(stage, i) = Flipped
  BY <1>1, <1>2, <1>3 DEF FlipOf, Flipped
<1>5. \A s \in 1 .. 12 : \A p : Passed(s, p)' => Gained(s, p)
  <2> SUFFICES ASSUME NEW s \in 1 .. 12, NEW p, Passed(s, p)' PROVE Gained(s, p)
    OBVIOUS
  <2>1. p \in Nat /\ p < PlacesOf(s) /\ (s < stage \/ (s = stage /\ p < i + 1))
    <3>1. PlacesOf(s)' = PlacesOf(s)
      BY DEF PlacesOf, in_len
    <3> QED BY <1>1, <1>2, <3>1 DEF Passed
  <2>2. CASE s < stage \/ p < i
    BY <2>1, <2>2 DEF Gained, Passed
  <2>3. CASE s = stage /\ p = i
    BY <1>1, <1>2, <1>4, <2>3 DEF Gained
  <2> QED BY <1>2, <2>1, <2>2, <2>3
<1>6. FlipsTried' /\ SumsTried' /\ KnownTried'
  BY <1>1, <1>5, PlacesKept DEF Covered
<1>7. SkippedReached'
  <2>1. Kind # "int"
    BY <1>1
  <2> QED BY <1>1, <2>1, SkippedStay DEF Covered, OwnKnown
<1> QED BY <1>1, <1>2, <1>6, <1>7, NothingOpen DEF Covered

\* With the whole map every word has an effect.
LEMMA WholeIsEffective ==
  ASSUME DetTypes, InPosition, Kind \in {"byte", "arith", "int"}, eff_map = 0 .. EFF_ALEN - 1
  PROVE  Effective(i, Width)
<1> PICK S \in Nat \ {0} : S = 2 ^ EFF_MAP_SCALE2
  BY PowersAssumption
<1>1. Width \in {1, 2, 4} /\ in_len \in Nat /\ i \in Nat /\ i < in_len - (Width - 1)
  <2>1. InDet /\ i < Positions
    BY DEF InPosition
  <2>2. stage \in 4 .. 12
    BY <2>1, KindIs, KindsAre
  <2>3. stage \in {4, 5, 6, 7, 8, 9, 10, 11, 12} /\ stage \in DOMAIN Stages
    BY <2>2, StagesAre
  <2>4. Width \in {1, 2, 4}
    BY <2>3, StageList, KindsAre
  <2> QED BY <2>1, <2>4 DEF Positions, DetTypes, in_len
<1>2. \A a, b \in Nat : a <= b => a \div S <= b \div S /\ a \div S \in Nat /\ b \div S \in Nat
  <2> SUFFICES ASSUME NEW a \in Nat, NEW b \in Nat, a <= b
               PROVE  a \div S <= b \div S /\ a \div S \in Nat /\ b \div S \in Nat
    OBVIOUS
  <2>1. a \div S \in Nat
    BY S > 0
  <2>2. b \div S \in Nat
    BY S > 0
  <2>3. PICK q \in Nat, r \in Nat : q = a \div S /\ r = b \div S
    BY <2>1, <2>2
  <2>4. b < (r + 1) * S
    <3>1. b % S \in 0 .. S - 1 /\ b = (b % S) + S * (b \div S)
      <4>1. b \in Int
        OBVIOUS
      <4> QED BY <4>1, DivisionHas
    <3>2. PICK c \in 0 .. S - 1 : b = c + S * r
      BY <2>3, <3>1
    <3>3. (r + 1) * S = S * r + S
      OBVIOUS
    <3>4. PICK e \in Nat : e = S * r
      OBVIOUS
    <3>5. b = c + e /\ (r + 1) * S = e + S
      BY <3>2, <3>3, <3>4
    <3>6. c + e < e + S
      BY <3>4
    <3> QED BY <3>5, <3>6
  <2>5. a < (r + 1) * S
    <3>1. (r + 1) * S \in Nat
      OBVIOUS
    <3> QED BY <2>4, <3>1
  <2>6. a \div S \in 0 .. (r + 1) - 1
    <3>1. r + 1 \in Nat
      OBVIOUS
    <3> QED BY <2>5, <3>1, QuotientIsBelow
  <2> QED BY <2>1, <2>2, <2>3, <2>6
<1>3. /\ i \in Nat /\ i + Width - 1 \in Nat /\ in_len - 1 \in Nat
      /\ i <= i + Width - 1 /\ i <= in_len - 1
  BY <1>1
<1>4. i \div S \in Nat /\ (i + Width - 1) \div S \in Nat /\ (in_len - 1) \div S \in Nat
      /\ i \div S <= (i + Width - 1) \div S /\ i \div S <= (in_len - 1) \div S
  BY <1>2, <1>3
<1>5. PICK e \in Nat : e = EFF_APOS(i) /\ e \in EFF_APOS(i) .. EFF_APOS(i + Width - 1) /\ e \in 0 .. EFF_ALEN - 1
  <2>1. PICK e \in Nat : e = i \div S
    BY <1>4
  <2>2. PICK f \in Nat : f = (i + Width - 1) \div S /\ e <= f
    BY <1>4, <2>1
  <2>3. PICK g \in Nat : g = (in_len - 1) \div S /\ e <= g
    BY <1>4, <2>1
  <2>4. EFF_APOS(i) = e /\ EFF_APOS(i + Width - 1) = f /\ EFF_ALEN = g + 1
    BY <2>1, <2>2, <2>3 DEF EFF_APOS, EFF_ALEN
  <2> QED BY <2>2, <2>3, <2>4
<1> QED BY <1>5 DEF Effective

\* The stages after the known integers run what they like.
LEMMA LaterCovers ==
  ASSUME Covered, UNCHANGED <<in_buf, stage, skipped>>, tried \subseteq tried',
         Kind \in {"over", "auto", "insert"}, InDet
  PROVE  Covered'
<1>1. stage \notin 1 .. 12 /\ Kind # "int" /\ Kind' = Kind
  <2>1. stage \in 1 .. 15
    BY KindIs
  <2> QED BY <2>1, KindsAre DEF Kind
<1>2. FlipsTried' /\ SumsTried' /\ KnownTried'
  BY <1>1, SamePlaces, PlacesKept DEF Covered, Gained
<1>3. SkippedReached'
  BY <1>1, SkippedStay DEF Covered, OwnKnown
<1>4. SumsSoFar' /\ KnownSoFar'
  BY <1>1 DEF SumsSoFar, KnownSoFar
<1> QED BY <1>2, <1>3, <1>4 DEF Covered

\* The attempts of a position are all sums, and all known integers.
LEMMA EverySum ==
  ASSUME NEW n \in {1, 2, 4}, NEW big \in BOOLEAN, n = 1 => ~big, NEW d \in Distances
  PROVE  \E a \in 0 .. 2 * VariantsOf(n) * ARITH_MAX - 1 : SumBig(n, a) = big /\ SumDelta(n, a) = d
<1> PICK c \in 1 .. ARITH_MAX : d = c \/ d = -c
  BY ConfigAssumption DEF Distances
<1>0. ARITH_MAX \in Nat
  BY ConfigAssumption
<1> PICK sign \in {0, 1} : d = IF sign = 0 THEN c ELSE -c
  OBVIOUS
<1>1. CASE n = 1
  <2> PICK a \in Nat : a = 2 * (c - 1) + sign
    OBVIOUS
  <2>1. a \in 0 .. 2 * ARITH_MAX - 1 /\ a \div 2 = c - 1 /\ a % 2 = sign
    BY <1>0
  <2>2. VariantsOf(n) = 1
    BY <1>1 DEF VariantsOf
  <2>3. SumDelta(n, a) = d
    BY <2>1, <2>2 DEF SumDelta
  <2>4. SumBig(n, a) = big
    BY <1>1 DEF SumBig
  <2> QED BY <2>1, <2>2, <2>3, <2>4
<1>2. CASE n > 1
  <2> PICK o \in {0, 1} : big = (o = 1)
    OBVIOUS
  <2> PICK a \in Nat : a = 4 * (c - 1) + 2 * o + sign
    OBVIOUS
  <2>1. a \in 0 .. 4 * ARITH_MAX - 1 /\ a \div 4 = c - 1 /\ a % 2 = sign /\ (a % 4 >= 2 <=> o = 1)
    BY <1>0
  <2>2. VariantsOf(n) = 2
    BY <1>2 DEF VariantsOf
  <2>3. SumDelta(n, a) = d
    BY <2>1, <2>2 DEF SumDelta
  <2>4. SumBig(n, a) = big
    BY <1>2, <2>1 DEF SumBig
  <2> QED BY <2>1, <2>2, <2>3, <2>4
<1> QED BY <1>1, <1>2

\* Nor is a known integer missing.
LEMMA EveryKnown ==
  ASSUME NEW n \in {1, 2, 4}, NEW big \in BOOLEAN, n = 1 => ~big, NEW v \in KnownOf(n)
  PROVE  \E a \in 0 .. VariantsOf(n) * Len(Interesting[n]) - 1 : KnownBig(n, a) = big /\ KnownAt(n, a) = v
<1>1. Interesting[n] \in Seq(Int) /\ Len(Interesting[n]) \in Nat
  BY Sizes
<1> PICK l \in Nat : l = Len(Interesting[n])
  BY <1>1
<1> PICK k \in 1 .. l : v = Interesting[n][k]
  BY <1>1 DEF KnownOf, ToSet
<1>2. CASE n = 1
  <2> PICK a \in 0 .. l - 1 : a = k - 1
    OBVIOUS
  <2>1. VariantsOf(n) = 1
    BY <1>2 DEF VariantsOf
  <2>2. KnownAt(n, a) = v /\ KnownBig(n, a) = big
    <3>1. 1 + a \div 1 = k
      OBVIOUS
    <3> QED BY <1>2, <2>1, <3>1 DEF KnownAt, KnownBig
  <2> QED BY <2>1, <2>2
<1>3. CASE n > 1
  <2> PICK o \in {0, 1} : big = (o = 1)
    OBVIOUS
  <2> PICK a \in Nat : a = 2 * (k - 1) + o
    OBVIOUS
  <2>1. VariantsOf(n) = 2
    BY <1>3 DEF VariantsOf
  <2>2. KnownAt(n, a) = v /\ KnownBig(n, a) = big
    <3>1. a \div 2 = k - 1 /\ a % 2 = o
      <4>1. CASE o = 0
        BY <4>1
      <4>2. CASE o = 1
        BY <4>2
      <4> QED BY <4>1, <4>2
    <3> QED BY <1>3, <2>1, <3>1 DEF KnownAt, KnownBig
  <2>3. a \in 0 .. 2 * l - 1
    OBVIOUS
  <2> QED BY <2>1, <2>2, <2>3
<1> QED BY <1>2, <1>3

\* At the end of a position all of them have been reached.
LEMMA AllSumsReached ==
  ASSUME SumsSoFar, Kind = "arith", j = Attempts, Width \in {1, 2, 4}
  PROVE  SumsReached(Width, i)
<1>1. j = 2 * VariantsOf(Width) * ARITH_MAX
  BY DEF Attempts, Variants, VariantsOf
<1> SUFFICES ASSUME NEW big \in BOOLEAN, NEW d \in Distances, Width = 1 => ~big
             PROVE  Reached(SumBuf(Width, i, big, d))
  BY DEF SumsReached
<1>2. PICK a \in 0 .. j - 1 : SumBig(Width, a) = big /\ SumDelta(Width, a) = d
  BY <1>1, EverySum
<1> QED BY <1>2 DEF SumsSoFar

\* The same for known integers; those left out for a later one have met it.
LEMMA AllKnownReached ==
  ASSUME KnownSoFar, Kind = "int", j = Attempts, Width \in {1, 2, 4}
  PROVE  /\ KnownReached(Width, i)
         /\ \A buf : OwnKnown(buf) => Reached(buf)
<1>1. j = VariantsOf(Width) * Len(Interesting[Width])
  BY DEF Attempts, Variants, VariantsOf
<1>2. \A v \in KnownOf(Width) : Reached(KnownBuf(Width, i, FALSE, v))
  <2> SUFFICES ASSUME NEW v \in KnownOf(Width) PROVE Reached(KnownBuf(Width, i, FALSE, v))
    OBVIOUS
  <2>0. FALSE \in BOOLEAN /\ (Width = 1 => ~FALSE)
    OBVIOUS
  <2>1. PICK a \in 0 .. j - 1 : KnownBig(Width, a) = FALSE /\ KnownAt(Width, a) = v
    <3> PICK n \in {1, 2, 4}, big \in BOOLEAN : n = Width /\ big = FALSE
      OBVIOUS
    <3> QED BY <1>1, EveryKnown
  <2> QED BY <2>1 DEF KnownSoFar
<1>3. \A buf : OwnKnown(buf) => Reached(buf)
  BY <1>2 DEF OwnKnown
<1>4. KnownReached(Width, i)
  <2> SUFFICES ASSUME NEW big \in BOOLEAN, NEW v \in KnownOf(Width), Width = 1 => ~big
               PROVE  Reached(KnownBuf(Width, i, big, v))
    BY DEF KnownReached
  <2>1. PICK a \in 0 .. j - 1 : KnownBig(Width, a) = big /\ KnownAt(Width, a) = v
    BY <1>1, EveryKnown
  <2>2. PICK buf : buf = KnownBuf(Width, i, big, v)
    OBVIOUS
  <2>3. Reached(buf) \/ OwnKnown(buf)
    BY <2>1, <2>2 DEF KnownSoFar
  <2> QED BY <1>3, <2>2, <2>3
<1> QED BY <1>3, <1>4

\* So a position that is left has been passed.
LEMMA EndPositionCovers ==
  ASSUME DetTypes, Restorable, EndPosition, UNCHANGED in_buf, Covered
  PROVE  Covered'
<1>1. /\ InPosition /\ InDet /\ Kind \notin {"bit", "byte"} /\ j = Attempts
      /\ i' = i + 1 /\ j' = 0 /\ UNCHANGED <<stage, tried, skipped>>
  BY DEF EndPosition, NextPosition, InPosition
<1>2. CASE Kind \in {"over", "auto", "insert"}
  BY <1>1, <1>2, LaterCovers
<1>3. CASE Kind \in {"arith", "int"}
  <2>1. /\ Width \in {1, 2, 4} /\ stage \in 7 .. 12 /\ Width = Stages[stage].n /\ i \in Nat
    BY <1>1, <1>3, KindIs, KindsAre, StagesAre DEF DetTypes
  <2>2. Kind = "arith" => SumsReached(Width, i) /\ stage \in 7 .. 9
    BY <1>1, <2>1, AllSumsReached, KindsAre DEF Covered
  <2>3. Kind = "int" => KnownReached(Width, i) /\ stage \in 10 .. 12
    BY <1>1, <2>1, AllKnownReached, KindsAre DEF Covered
  <2>4. \A s \in 1 .. 12 : \A p : Passed(s, p)' => Gained(s, p)
    <3> SUFFICES ASSUME NEW s \in 1 .. 12, NEW p, Passed(s, p)' PROVE Gained(s, p)
      OBVIOUS
    <3>1. p \in Nat /\ p < PlacesOf(s) /\ (s < stage \/ (s = stage /\ p < i + 1))
      <4>1. PlacesOf(s)' = PlacesOf(s)
        BY DEF PlacesOf, in_len
      <4> QED BY <1>1, <4>1 DEF Passed
    <3>2. CASE s < stage \/ p < i
      BY <3>1, <3>2 DEF Gained, Passed
    <3>3. CASE s = stage /\ p = i
      BY <1>3, <2>1, <2>2, <2>3, <3>3 DEF Gained
    <3> QED BY <2>1, <3>1, <3>2, <3>3
  <2>5. FlipsTried' /\ SumsTried' /\ KnownTried'
    BY <1>1, <2>4, PlacesKept DEF Covered
  <2>6. \A buf : OwnKnown(buf) => Reached(buf)
    BY <1>1, <2>1, AllKnownReached DEF Covered, OwnKnown
  <2>7. SkippedReached'
    BY <1>1, <2>6, SkippedStay DEF Covered
  <2> QED BY <1>1, <2>5, <2>7, NothingOpen DEF Covered
<1> QED BY <1>1, <1>2, <1>3, KindIs

\* And a stage that is left, or does not run, has no places that were not.
LEMMA EndStageCovers ==
  ASSUME DetTypes, Restorable, EndStage, UNCHANGED in_buf, ~no_arith, Covered
  PROVE  Covered'
<1> DEFINE next == {s \in DOMAIN Stages : s > stage /\ Runs(Stages[s])} \cup {Len(Stages) + 1}
<1>1. InDet /\ i >= Positions /\ Start(Min(next)) /\ UNCHANGED <<tried, skipped>>
  BY DEF EndStage
<1>2. next \in SUBSET Nat /\ next \subseteq 1 .. 16 /\ next # {}
  BY StagesAre
<1>3. PICK t \in 1 .. 16 : t = Min(next) /\ \A s \in next : t <= s
  <2> HIDE DEF next
  <2> QED BY <1>2, MinIsLeast
<1>4. stage' = t /\ i' = 0 /\ j' = 0
  BY <1>1, <1>3 DEF Start
<1>5. stage \in 1 .. 15 /\ i \in Nat /\ in_len \in Nat
  BY <1>1, KindIs DEF DetTypes, in_len
<1>6. \A s \in 1 .. 12 : s > stage /\ s < t => in_len < Stages[s].n
  <2> SUFFICES ASSUME NEW s \in 1 .. 12, s > stage, s < t PROVE in_len < Stages[s].n
    OBVIOUS
  <2>1. s \in DOMAIN Stages /\ s \notin next
    <3>1. s \in DOMAIN Stages /\ ~(t <= s)
      BY StagesAre
    <3> HIDE DEF next
    <3> QED BY <1>3, <3>1
  <2>2. ~Runs(Stages[s])
    BY <2>1
  <2>3. s \in {1, 2, 3, 4, 5, 6, 7, 8, 9, 10, 11, 12}
    OBVIOUS
  <2>4. Stages[s].kind \in {"bit", "byte", "arith", "int"} /\ Stages[s].n \in {1, 2, 4}
    BY <2>3, StageList
  <2>5. ~(in_len >= Stages[s].n)
    BY <2>2, <2>4 DEF Runs
  <2> QED BY <1>5, <2>4, <2>5
<1>7. \A s \in 1 .. 12 : \A p : Passed(s, p)' => Gained(s, p)
  <2> SUFFICES ASSUME NEW s \in 1 .. 12, NEW p, Passed(s, p)' PROVE Gained(s, p)
    OBVIOUS
  <2>1. p \in Nat /\ p < PlacesOf(s) /\ s < t
    <3>1. PlacesOf(s)' = PlacesOf(s)
      BY DEF PlacesOf, in_len
    <3> QED BY <1>4, <3>1 DEF Passed
  <2>2. CASE s < stage
    BY <2>1, <2>2 DEF Gained, Passed
  <2>3. CASE s = stage
    <3>1. PlacesOf(s) = Positions /\ PlacesOf(s) \in Int
      <4>1. Stages[s].kind = Kind /\ Stages[s].n = Width
        BY <2>3, StagesAre DEF Kind, Width
      <4>2. s \in {1, 2, 3, 4, 5, 6, 7, 8, 9, 10, 11, 12}
        OBVIOUS
      <4>3. Kind \in {"bit", "byte", "arith", "int"} /\ Width \in {1, 2, 4}
        BY <4>1, <4>2, StageList
      <4>4. in_len * ByteBits \in Nat
        BY <1>5, Sizes
      <4> QED BY <1>5, <4>1, <4>3, <4>4 DEF PlacesOf, Positions
    <3>2. p < i
      BY <1>1, <1>5, <2>1, <3>1
    <3> QED BY <2>1, <2>3, <3>2 DEF Gained, Passed
  <2>4. CASE s > stage
    <3>1. in_len < Stages[s].n
      BY <1>6, <2>1, <2>4
    <3>2. s \in {1, 2, 3, 4, 5, 6, 7, 8, 9, 10, 11, 12}
      OBVIOUS
    <3>3. Stages[s].n \in {1, 2, 4}
      BY <3>2, StageList
    <3>4. Stages[s].kind # "bit"
      <4>1. s # 1
        BY <1>5, <2>4
      <4>2. Runs(Stages[s]) \/ Stages[s].kind # "bit"
        BY DEF Runs
      <4>3. s \notin next
        <5>1. ~(t <= s)
          BY <2>1
        <5> HIDE DEF next
        <5> QED BY <1>3, <5>1
      <4>4. s \in DOMAIN Stages
        BY StagesAre
      <4> QED BY <2>4, <4>2, <4>3, <4>4
    <3>5. ~(p < PlacesOf(s))
      BY <1>5, <2>1, <3>1, <3>3, <3>4 DEF PlacesOf
    <3> QED BY <2>1, <3>5
  <2> QED BY <1>5, <2>2, <2>3, <2>4
<1>8. FlipsTried' /\ SumsTried' /\ KnownTried'
  BY <1>1, <1>7, PlacesKept DEF Covered
<1>9. SkippedReached'
  <2>1. j = 0
    <3>1. ~InPosition
      <4>1. Positions \in Int
        <5>1. in_len * ByteBits \in Nat /\ Width \in {0, 1, 2, 4}
          BY <1>1, <1>5, Sizes, KindIs
        <5> QED BY <1>5, <5>1 DEF Positions
      <4> QED BY <1>1, <1>5, <4>1 DEF InPosition
    <3> QED BY <3>1 DEF Restorable
  <2> QED BY <1>1, <2>1, SkippedStay DEF Covered, OwnKnown
<1> QED BY <1>1, <1>4, <1>8, <1>9, NothingOpen DEF Covered

\* The stages go on in order.
LEMMA StagesGoOn == ASSUME EndStage PROVE stage' \in 1 .. 16 /\ stage' > stage
<1> DEFINE next == {s \in DOMAIN Stages : s > stage /\ Runs(Stages[s])} \cup {Len(Stages) + 1}
<1>1. stage \in 1 .. 15
  BY StagesAre DEF EndStage, InDet
<1>2. next \in SUBSET Nat /\ next \subseteq 1 .. 16 /\ next # {} /\ (\A s \in next : s > stage)
  BY <1>1, StagesAre
<1>3. stage' = Min(next)
  BY DEF EndStage, Start
<1> HIDE DEF next
<1>4. Min(next) \in next
  BY <1>2, MinIsLeast
<1>5. PICK t \in 1 .. 16 : stage' = t /\ t > stage
  BY <1>2, <1>3, <1>4
<1> QED BY <1>5

\* No step of the stages opens a gap in the map behind a place that was passed.
LEMMA WholeBefore ==
  ASSUME InDet, DetNext, UNCHANGED in_buf, Whole'
  PROVE  Whole
<1>1. UNCHANGED no_arith
  BY DEF DetNext, Flip, SkipPosition, SkipMutation, Mutate, SkipToken, Overwrite, Insert,
     EndPosition, EndStage, settings
<1>2. EFF_ALEN' = EFF_ALEN
  BY DEF EFF_ALEN, EFF_APOS, in_len
<1>3. CASE EndStage
  <2>1. eff_map' = IF stage = 4 /\ Dense THEN 0 .. EFF_ALEN - 1 ELSE eff_map
    BY <1>3 DEF EndStage
  <2>2. stage > 4 => stage' > 4
    <3>1. PICK t \in 1 .. 16 : stage' = t /\ t > stage
      BY <1>3, StagesGoOn
    <3>2. stage \in 1 .. 15
      BY StagesAre DEF InDet
    <3> QED BY <3>1, <3>2
  <2> QED BY <1>1, <1>2, <2>1, <2>2 DEF Whole
<1>4. CASE Flip
  <2>1. stage' = stage /\ (stage > 4 => eff_map' = eff_map)
    BY <1>4, StagesAre DEF Flip, InDet
  <2> QED BY <1>1, <1>2, <2>1 DEF Whole
<1>5. CASE UNCHANGED <<stage, eff_map>>
  BY <1>1, <1>2, <1>5 DEF Whole
<1> QED BY <1>3, <1>4, <1>5 DEF DetNext, SkipPosition, SkipMutation, Mutate, SkipToken, Overwrite,
     Insert, EndPosition

\* Every step of the stages keeps CoverInv.
LEMMA DetCovers ==
  ASSUME DetInv, stage > 0, CoverInv, BitflipsAreWalked, DetNext, UNCHANGED in_buf
  PROVE  CoverInv'
<1>1. InDet /\ DetTypes /\ Restorable
  BY DEF DetInv, DetNext, Flip, SkipPosition, SkipMutation, Mutate, SkipToken, Overwrite, Insert,
     EndPosition, EndStage, InAttempt, InPosition
<1>2. stage' > 0
  <2>1. CASE EndStage
    <3>1. PICK t \in 1 .. 16 : stage' = t
      BY <2>1, StagesGoOn
    <3> QED BY <3>1
  <2>2. CASE UNCHANGED stage
    BY <2>2
  <2> QED BY <2>1, <2>2 DEF DetNext, Flip, SkipPosition, SkipMutation, Mutate, SkipToken, Overwrite,
     Insert, EndPosition
<1> SUFFICES ASSUME Whole' PROVE Covered'
  BY <1>2 DEF CoverInv
<1>3. Whole /\ Covered
  BY <1>1, WholeBefore DEF CoverInv
<1>4. CASE Flip
  BY <1>1, <1>3, <1>4, FlipCovers
<1>5. CASE SkipPosition
  <2>1. InPosition /\ stage > 4 /\ Kind \in {"byte", "arith", "int"} /\ ~Effective(i, Width)
    BY <1>5 DEF SkipPosition
  <2>2. eff_map = 0 .. EFF_ALEN - 1
    BY <1>3, <2>1 DEF Whole
  <2> QED BY <1>1, <2>1, <2>2, WholeIsEffective
<1>6. CASE SkipMutation \/ Mutate
  <2>1. InAttempt({"arith", "int"}) /\ j' = j + 1 /\ UNCHANGED <<stage, i>> /\ tried \subseteq tried'
    BY <1>6 DEF SkipMutation, Mutate
  <2>2. PICK buf : buf = Put(in_buf, i, Replacement)
    OBVIOUS
  <2>3. Put(out_buf, i, Replacement) = buf
    BY <1>1, <2>1, <2>2, AttemptIs
  <2>4. skipped' \subseteq skipped \cup {buf}
    BY <1>6, <2>3 DEF SkipMutation, Mutate
  <2>5. \/ Reached(buf)'
        \/ Kind = "int" /\ KnownBig(Width, j) /\ \E v \in KnownOf(Width) : buf = KnownBuf(Width, i, FALSE, v)
    <3>1. CASE SkipMutation
      <4>1. ~Fresh
        BY <3>1 DEF SkipMutation
      <4>2. \/ Reached(buf)
            \/ Kind = "int" /\ KnownBig(Width, j) /\ \E v \in KnownOf(Width) : buf = KnownBuf(Width, i, FALSE, v)
        BY <1>1, <1>3, <2>1, <2>2, <4>1, SkippedWasRun DEF Covered
      <4>3. Reached(buf) => Reached(buf)'
        BY <2>1, ReachedStays
      <4> QED BY <4>2, <4>3
    <3>2. CASE Mutate
      <4>1. buf \in tried'
        BY <2>3, <3>2 DEF Mutate
      <4> QED BY <4>1 DEF Reached
    <3> QED BY <1>6, <3>1, <3>2
  <2> QED BY <1>1, <1>3, <2>1, <2>2, <2>4, <2>5, AttemptCovers
<1>7. CASE SkipToken \/ Overwrite \/ Insert
  <2>1. Kind \in {"over", "auto", "insert"} /\ UNCHANGED <<stage, skipped>> /\ tried \subseteq tried'
    BY <1>7 DEF SkipToken, Overwrite, Insert, InAttempt
  <2> QED BY <1>1, <1>3, <2>1, LaterCovers
<1>8. CASE EndPosition
  BY <1>1, <1>3, <1>8, EndPositionCovers
<1>9. CASE EndStage
  BY <1>1, <1>3, <1>9, EndStageCovers DEF Whole
<1> QED BY <1>4, <1>5, <1>6, <1>7, <1>8, <1>9 DEF DetNext

\* When the stages begin nothing is passed, and nothing left out.
LEMMA StartCovers ==
  ASSUME StartDet, UNCHANGED in_buf
  PROVE  CoverInv'
<1>1. /\ stage' = 1 /\ i' = 0 /\ j' = 0 /\ tried' = {in_buf} /\ skipped' = {}
  BY DEF StartDet, Start
<1>2. \A s \in 1 .. 12 : \A p : ~Passed(s, p)'
  BY <1>1 DEF Passed
<1>3. FlipsTried' /\ SumsTried' /\ KnownTried'
  BY <1>2 DEF FlipsTried, SumsTried, KnownTried
<1>4. SkippedReached'
  BY <1>1 DEF SkippedReached
<1> QED BY <1>1, <1>3, <1>4, NothingOpen DEF CoverInv, Covered

\* What depends on the input and the variables of the stages only.
LEMMA CoverFrame ==
  ASSUME CoverInv, UNCHANGED detVars, UNCHANGED in_buf
  PROVE  CoverInv'
<1>1. UNCHANGED <<in_buf, no_arith, stage, i, j, eff_map, tried, skipped>>
  BY DEF detVars, settings
<1>2. Kind' = Kind /\ Width' = Width /\ (Whole' <=> Whole)
  BY <1>1 DEF Kind, Width, Whole, EFF_ALEN, EFF_APOS, in_len
<1> SUFFICES ASSUME Covered PROVE Covered'
  BY <1>1, <1>2 DEF CoverInv
<1>3. FlipsTried' /\ SumsTried' /\ KnownTried'
  BY <1>1, SamePlaces, PlacesKept DEF Covered, Gained
<1>4. \A b : OwnKnown(b)' <=> OwnKnown(b)
  BY <1>1, <1>2, ReachedStays DEF OwnKnown, KnownOf
<1>5. SkippedReached'
  BY <1>1, <1>4, ReachedStays DEF Covered, SkippedReached
<1>6. SumsSoFar'
  BY <1>1, <1>2, ReachedStays DEF Covered, SumsSoFar
<1>7. KnownSoFar'
  BY <1>1, <1>2, <1>4, ReachedStays DEF Covered, KnownSoFar
<1> QED BY <1>1, <1>3, <1>5, <1>6, <1>7 DEF Covered

\* Outside the stages nothing is left out.
LEMMA IdleCovers == ASSUME stage' = 0, skipped' = {} PROVE CoverInv'
BY DEF CoverInv

\* Before the stages nothing is left out.
LEMMA CoverStarts == Init => CoverInv
BY DEF Init, NoDet, CoverInv

\* And so does every step of fuzz_one.
LEMMA CoverKept == FuzzInv /\ CoverInv /\ BitflipsAreWalked /\ [Next]_vars => CoverInv'
<1> SUFFICES ASSUME FuzzInv, CoverInv, BitflipsAreWalked, [Next]_vars PROVE CoverInv'
  OBVIOUS
<1>1. CASE Forget
  BY <1>1, IdleCovers DEF Forget
<1>2. CASE \E res : Leave(res)
  BY <1>1, <1>2 DEF Leave
<1>3. CASE stage = 0 /\ UNCHANGED detVars
  BY <1>3, IdleCovers DEF CoverInv, detVars
<1>4. CASE UNCHANGED <<in_buf, detVars>>
  BY <1>4, CoverFrame
<1>5. CASE Calibrate
  <2>1. stage = 0
    BY <1>5 DEF Calibrate, FuzzInv
  <2> QED BY <1>2, <1>3, <1>5, <2>1 DEF Calibrate
<1>6. CASE BeginTrim \/ TrimStep
  <2>1. stage = 0 /\ UNCHANGED detVars
    BY <1>6 DEF BeginTrim, TrimStep, FuzzInv
  <2> QED BY <1>3, <2>1
<1>7. CASE TrimStopped \/ AllDone \/ Abandon
  BY <1>2, <1>7 DEF TrimStopped, AllDone, Abandon
<1>8. CASE Score
  <2>1. UNCHANGED in_buf /\ (StartDet \/ UNCHANGED detVars)
    BY <1>8 DEF Score, trimVars
  <2> QED BY <1>4, <2>1, StartCovers
<1>9. CASE Deterministic
  <2>1. DetNext /\ UNCHANGED in_buf /\ DetInv
    BY <1>9 DEF Deterministic, trimVars, FuzzInv
  <2>2. stage > 0
    <3>1. InDet
      BY <2>1 DEF DetNext, Flip, SkipPosition, SkipMutation, Mutate, SkipToken, Overwrite, Insert,
         EndPosition, EndStage, InAttempt, InPosition
    <3> QED BY <3>1, StagesAre DEF InDet
  <2> QED BY <2>1, <2>2, DetCovers
<1>10. CASE EnterHavoc
  BY <1>1, <1>10 DEF EnterHavoc
<1>11. CASE DetDone \/ Random \/ Return \/ Returned \/ UNCHANGED vars
  BY <1>4, <1>11 DEF DetDone, Random, Return, Returned, vars, trimVars
<1> QED BY <1>5, <1>6, <1>7, <1>8, <1>9, <1>10, <1>11 DEF Next

\* Whatever the input, the dictionaries, the known integers and the limits: what an
\* arithmetic or known-integer stage leaves out was run by an earlier stage or attempt,
\* if what could_be_bitflip accepts was.
THEOREM SkipsHaveBeenTried == Spec /\ []BitflipsAreWalked => []SkipsWereTried
<1>1. FuzzInv /\ CoverInv => SkipsWereTried
  <2> SUFFICES ASSUME FuzzInv, CoverInv, ~no_arith, eff_map = 0 .. EFF_ALEN - 1, j = 0, NEW buf \in skipped
               PROVE  buf \in tried \/ Straddles(buf)
    BY DEF SkipsWereTried
  <2>1. stage > 0
    BY DEF FuzzInv, DetInv, DetTypes, CoverInv
  <2>2. SkippedReached /\ ~OwnKnown(buf)
    BY <2>1 DEF CoverInv, Covered, Whole, OwnKnown
  <2> QED BY <2>2 DEF SkippedReached, Reached
<1> QED BY <1>1, CoverStarts, CoverKept, FuzzInvHolds, PTL DEF Spec
=============================================================================
