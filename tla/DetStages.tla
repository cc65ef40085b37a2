----------------------------- MODULE DetStages -----------------------------
(***************************************************************************)
(* The deterministic stages of fuzz_one (lyso/repo/afl-fuzz.c): walking    *)
(* bit and byte flips, the effector map they fill, arithmetics, known      *)
(* integers, dictionary tokens, and the tokens the first stage collects.   *)
(* One step per mutation tried or skipped.                                 *)
(*                                                                         *)
(* A byte has ByteBits bits, so that words of four bytes stay within TLC's *)
(* integers; words are little-endian.  Offsets count from 0 as in the      *)
(* code: byte i of a buffer is its element i + 1.                          *)
(***************************************************************************)
EXTENDS TrimCase, FiniteSetsExt

CONSTANTS
  ByteBits,
  Interesting,     \* Interesting[n]: the sequence interesting_8, _16, _32 for n = 1, 2, 4
  ToLower          \* tolower on bytes

ASSUME DetAssumption ==
  ByteBits \in Nat \ {0} /\ Interesting \in [{1, 2, 4} -> Seq(Int)]

VARIABLES
  no_arith,    \* AFL_NO_ARITH
  extras,      \* user tokens, by length
  a_extras,    \* automatic tokens: [data, hit_cnt]
  out_buf,     \* the buffer that is run
  orig,        \* the bytes of out_buf at the start of a position
  last_len,    \* length of the last token written over out_buf
  stage,       \* index into Stages, 0 outside the deterministic stages
  i, j,        \* loop indices: position, and attempt at that position
  eff_map,     \* the positions of the effector map that are set
  a_collect, prev_cksum,   \* the token being collected; a_len is Len(a_collect)
  tried,       \* history: the buffers run so far
  skipped      \* history: the buffers left out as already tried

settings == <<no_arith, extras>>
token == <<a_collect, prev_cksum>>
detVars == <<settings, a_extras, out_buf, orig, last_len, stage, i, j, eff_map, token, tried, skipped>>

in_len == Len(in_buf)   \* len
Base == 2 ^ ByteBits
Byte == 0 .. Base - 1

\* Arithmetic that the provers do not have.
ASSUME PowersAssumption ==
  /\ Base \in Nat \ {0} /\ Base ^ 0 = 1 /\ Base ^ 1 = Base /\ Base ^ 2 = Base * Base
  /\ Base ^ 3 = Base * (Base * Base) /\ Base ^ 4 = (Base * Base) * (Base * Base)
  /\ 2 ^ EFF_MAP_SCALE2 \in Nat \ {0}

---------------------------------------------------------------------------
(* Bytes, words, bits *)

Number(bytes) ==
  CASE Len(bytes) = 1 -> bytes[1]
    [] Len(bytes) = 2 -> bytes[1] + Base * bytes[2]
    [] OTHER          -> bytes[1] + Base * bytes[2] + Base ^ 2 * bytes[3] + Base ^ 3 * bytes[4]
Bytes(v, n) == [k \in 1 .. n |-> (v \div (Base ^ (k - 1))) % Base]
At(buf, pos, n) == SubSeq(buf, pos + 1, Smaller(pos + n, Len(buf)))
Put(buf, pos, bytes) ==
  [k \in 1 .. Len(buf) |-> IF k - pos \in DOMAIN bytes THEN bytes[k - pos] ELSE buf[k]]

Bit(v, s) == (v \div 2 ^ s) % 2
Xor(x, y, bits) ==
  MapThenSumSet(LAMBDA s : IF Bit(x, s) = Bit(y, s) THEN 0 ELSE 2 ^ s, 0 .. bits - 1)

\* FLIP_BIT on the bits b .. b + n - 1; bit 0 is the most significant of byte 0.
FLIP_BIT(buf, b, n) ==
  [k \in 1 .. Len(buf) |->
     LET bits == {x \in b .. b + n - 1 : x \div ByteBits = k - 1}
     IN  Xor(buf[k], MapThenSumSet(LAMBDA x : 2 ^ (ByteBits - 1 - (x % ByteBits)), bits), ByteBits)]

---------------------------------------------------------------------------
(* What earlier stages have done already *)

\* The changes of 1, 2 or 4 bits anywhere, and of 1, 2 or 4 whole bytes.
BitPatterns == {p * 2 ^ s : p \in {1, 3, 15}, s \in 0 .. 4 * ByteBits - 1}
BytePatterns == UNION {{(Base ^ w - 1) * Base ^ k : k \in 0 .. 4 - w} : w \in {1, 2, 4}}

\* A byte may be flipped from any bit on.
could_be_bitflip_Slip(xor_val) ==
  xor_val = 0 \/ xor_val \in BitPatterns \/ xor_val \in BytePatterns
  \/ xor_val \in {(Base - 1) * 2 ^ s : s \in 0 .. 3 * ByteBits}

could_be_bitflip(xor_val) == xor_val = 0 \/ xor_val \in BitPatterns \/ xor_val \in BytePatterns

\* Numbers of n bytes no more than ARITH_MAX apart.
Near(a, b, n) ==
  \/ (Number(a) - Number(b)) % (Base ^ n) <= ARITH_MAX
  \/ (Number(b) - Number(a)) % (Base ^ n) <= ARITH_MAX

\* The parts of n bytes each in which two words differ.
Differ(a, b, n) ==
  {k \in 0 .. Len(a) \div n - 1 : At(a, k * n, n) # At(b, k * n, n)}

could_be_arith(old, new) ==
  \/ old = new
  \/ \E k \in Differ(old, new, 1) : Differ(old, new, 1) = {k} /\ Near(At(old, k, 1), At(new, k, 1), 1)
  \/ \E n \in {2, 4}, k \in {0, 1} :
       /\ n <= Len(old) /\ Differ(old, new, n) = {k}
       /\ LET a == At(old, n * k, n)
              b == At(new, n * k, n)
          IN Near(a, b, n) \/ Near(Reverse(a), Reverse(b), n)

could_be_interest(old, new, check_le) ==
  LET blen == Len(old)
      Values(n) == {Bytes(v, n) : v \in ToSet(Interesting[n])}
  IN \/ old = new
     \/ \E k \in 0 .. blen - 1, v \in Values(1) : new = Put(old, k, v)
     \/ /\ blen > 2 \/ check_le
        /\ \E k \in 0 .. blen - 2, v \in Values(2) :
             new = Put(old, k, v) \/ (blen > 2 /\ new = Put(old, k, Reverse(v)))
     \/ blen = 4 /\ check_le /\ new \in Values(4)

XorOf(a, b) == Xor(Number(a), Number(b), Len(a) * ByteBits)

---------------------------------------------------------------------------
(* The stages.  Arithmetic stages go LE +, LE -, BE +, BE - for every       *)
(* distance up to ARITH_MAX, stages of known integers LE, BE for every      *)
(* value; words of one byte have no BE.                                     *)

Stages == <<[kind |-> "bit", n |-> 1], [kind |-> "bit", n |-> 2], [kind |-> "bit", n |-> 4],
            [kind |-> "byte", n |-> 1], [kind |-> "byte", n |-> 2], [kind |-> "byte", n |-> 4],
            [kind |-> "arith", n |-> 1], [kind |-> "arith", n |-> 2], [kind |-> "arith", n |-> 4],
            [kind |-> "int", n |-> 1], [kind |-> "int", n |-> 2], [kind |-> "int", n |-> 4],
            [kind |-> "over", n |-> 0], [kind |-> "insert", n |-> 0], [kind |-> "auto", n |-> 0]>>

Kind == IF stage \in DOMAIN Stages THEN Stages[stage].kind ELSE "none"
Width == Stages[stage].n
Variants == IF Width = 1 THEN 1 ELSE 2   \* byte orders

Tokens == IF Kind = "auto"
            THEN [k \in 1 .. Smaller(Len(a_extras), USE_AUTO_EXTRAS) |-> a_extras[k].data]
            ELSE extras

\* The goto's to skip_bitflip, skip_arith, skip_interest, skip_user_extras, skip_extras.
Runs(s) ==
  CASE s.kind = "bit"    -> TRUE
    [] s.kind = "byte"   -> in_len >= s.n
    [] s.kind = "arith"  -> ~no_arith /\ in_len >= s.n
    [] s.kind = "int"    -> s.n = 1 \/ (~no_arith /\ in_len >= s.n)
    [] s.kind = "auto"   -> a_extras # <<>>
    [] OTHER             -> extras # <<>>

Positions ==
  CASE Kind = "bit"    -> in_len * ByteBits - (Width - 1)
    [] Kind = "insert" -> in_len + 1
    [] Kind \in {"over", "auto"} -> in_len
    [] OTHER           -> in_len - (Width - 1)

Attempts ==
  CASE Kind \in {"bit", "byte"} -> 1
    [] Kind = "arith" -> 2 * Variants * ARITH_MAX
    [] Kind = "int"   -> Variants * Len(Interesting[Width])
    [] OTHER          -> Len(Tokens)

\* Attempt j of the arithmetic and known-integer stages.
BigEndian == Width > 1 /\ (IF Kind = "arith" THEN j % 4 >= 2 ELSE j % 2 = 1)
InOrder(bytes) == IF BigEndian THEN Reverse(bytes) ELSE bytes
Delta == LET distance == 1 + j \div (2 * Variants)
         IN IF j % 2 = 0 THEN distance ELSE -distance
Known == Interesting[Width][1 + j \div Variants]
Replacement ==
  InOrder(Bytes(IF Kind = "arith" THEN Number(InOrder(orig)) + Delta ELSE Known, Width))

\* The sum changes more than the lower half of the word.
Carries ==
  LET half == Base ^ (Width \div 2)
  IN Width = 1 \/ (Number(InOrder(orig)) % half) + Delta \notin 0 .. half - 1

\* No earlier stage has run the result.
Fresh ==
  IF Kind = "arith"
    THEN Carries /\ ~could_be_bitflip(XorOf(orig, Replacement))
    ELSE /\ ~(BigEndian /\ Replacement = Reverse(Replacement))
         /\ ~could_be_bitflip(XorOf(orig, Replacement))
         /\ ~could_be_arith(orig, Replacement)
         /\ ~(Width > 1 /\ could_be_interest(orig, Replacement, BigEndian))

\* EFF_APOS, EFF_ALEN, and the test of the map under some bytes.
EFF_APOS(p) == p \div (2 ^ EFF_MAP_SCALE2)
EFF_ALEN == EFF_APOS(in_len - 1) + 1
Effective(p, width) == \E e \in EFF_APOS(p) .. EFF_APOS(p + width - 1) : e \in eff_map

---------------------------------------------------------------------------
(* maybe_add_auto *)

SameNoCase(a, b) == Len(a) = Len(b) /\ \A k \in DOMAIN a : ToLower[a[k]] = ToLower[b[k]]

\* An interesting value, in either byte order; but a u16 is compared with an s16,
\* and never equals a negative one.
Builtin(mem) ==
  Len(mem) \in {2, 4} /\ \E v \in ToSet(Interesting[Len(mem)]) :
    \/ mem = Bytes(v, Len(mem)) /\ (Len(mem) = 2 => v >= 0)
    \/ mem = Reverse(Bytes(v, Len(mem)))

Rejected(mem) ==
  \/ \A k \in DOMAIN mem : mem[k] = mem[1]
  \/ Builtin(mem)
  \/ \E k \in DOMAIN extras : SameNoCase(extras[k], mem)

\* qsort of the first m elements of s by rank, which orders equal elements
\* either way.
Sortings(s, m, rank) ==
  LET orders == {f \in [1 .. m -> 1 .. m] :
                   /\ \A x, y \in 1 .. m : x # y => f[x] # f[y]
                   /\ \A k \in 1 .. m - 1 : rank[f[k]] <= rank[f[k + 1]]}
  IN {[k \in DOMAIN s |-> IF k <= m THEN s[f[k]] ELSE s[k]] : f \in orders}

ByUse(s) == Sortings(s, Len(s), [k \in DOMAIN s |-> -s[k].hit_cnt])
ByLength(s) ==
  Sortings(s, Smaller(USE_AUTO_EXTRAS, Len(s)), [k \in DOMAIN s |-> Len(s[k].data)])

\* The most used tokens first, in whatever order of length.
Resorted_Slip(s) == ByUse(s)

Resorted(s) == UNION {ByLength(t) : t \in ByUse(s)}

maybe_add_auto(mem) ==
  LET Same == {k \in DOMAIN a_extras : SameNoCase(a_extras[k].data, mem)}
      entry == [data |-> mem, hit_cnt |-> 0]
  IN CASE Rejected(mem) -> {a_extras}
       [] ~Rejected(mem) /\ Same # {} -> Resorted([a_extras EXCEPT ![Min(Same)].hit_cnt = @ + 1])
       [] ~Rejected(mem) /\ Same = {} /\ Len(a_extras) < MAX_AUTO_EXTRAS ->
            Resorted(Append(a_extras, entry))
       [] OTHER -> UNION {Resorted([a_extras EXCEPT ![k] = entry]) :
                            k \in 1 + MAX_AUTO_EXTRAS \div 2 .. MAX_AUTO_EXTRAS}

Collected(mem) ==
  IF Len(mem) \in MIN_AUTO_EXTRA .. MAX_AUTO_EXTRA THEN maybe_add_auto(mem) ELSE {a_extras}

\* The trick of the first stage, at the last bit of every byte: bytes that
\* change the trace in the same way one after another make a token.
CollectToken(cksum) ==
  LET byte == in_buf[i \div ByteBits + 1]
      at_end == i = Positions - 1 /\ cksum = prev_cksum
      kept == CASE at_end -> Append(a_collect, byte)
                [] cksum # prev_cksum -> <<>>
                [] OTHER -> a_collect
  IN /\ a_extras' \in CASE at_end -> Collected(kept)
                        [] cksum # prev_cksum -> Collected(a_collect)
                        [] OTHER -> {a_extras}
     /\ a_collect' = IF cksum # exec_cksum THEN Append(kept, byte) ELSE kept
     /\ prev_cksum' = cksum

---------------------------------------------------------------------------
(* The loops.  What a run leads to in the queue is no matter here; every run *)
(* may also end the stages (Abandon, in FuzzOne).                            *)

InDet == stage \in DOMAIN Stages
InPosition == InDet /\ i < Positions

Start(s) ==
  /\ stage' = s /\ i' = 0 /\ j' = 0
  /\ orig' = IF s \in DOMAIN Stages THEN At(out_buf', 0, Stages[s].n) ELSE <<>>

\* memcpy(out_buf, in_buf, len) and the first stage.  The effector map is set up
\* after the third; no stage before reads it.
StartDet ==
  /\ out_buf' = in_buf
  /\ Start(1)
  /\ last_len' = 0 /\ a_collect' = <<>> /\ prev_cksum' = exec_cksum
  /\ eff_map' = {0, EFF_APOS(in_len - 1)}
  /\ tried' = {in_buf} /\ skipped' = {}   \* the calibration ran the input
  /\ UNCHANGED <<settings, a_extras>>

NextPosition(buf) ==
  /\ out_buf' = buf
  /\ i' = i + 1 /\ j' = 0
  /\ orig' = At(buf, i + 1, Width)

\* Walking bits and bytes: flip, run, flip back.
Flipped == IF Kind = "bit" THEN FLIP_BIT(out_buf, i, Width)
                           ELSE FLIP_BIT(out_buf, i * ByteBits, Width * ByteBits)

Flip ==
  /\ InPosition /\ Kind \in {"bit", "byte"}
  /\ stage > 4 => Effective(i, Width)
  /\ tried' = tried \cup {Flipped}
  /\ LET cksum == Cksum(target, Flipped)
     IN /\ IF stage = 1 /\ i % ByteBits = ByteBits - 1
             THEN CollectToken(cksum)
             ELSE UNCHANGED <<a_extras, token>>
        /\ eff_map' = IF stage = 4 /\ (in_len < EFF_MIN_LEN \/ cksum # exec_cksum)
                        THEN eff_map \cup {EFF_APOS(i)} ELSE eff_map
  /\ NextPosition(out_buf)
  /\ UNCHANGED <<settings, last_len, stage, skipped>>

\* None of the bytes has an effect.
SkipPosition ==
  /\ InPosition /\ j = 0
  /\ stage > 4 /\ Kind \in {"byte", "arith", "int"} /\ ~Effective(i, Width)
  /\ NextPosition(out_buf)
  /\ UNCHANGED <<settings, a_extras, last_len, stage, eff_map, token, tried, skipped>>

InAttempt(kinds) == InPosition /\ Kind \in kinds /\ j < Attempts

SkipMutation ==
  /\ InAttempt({"arith", "int"}) /\ Effective(i, Width) /\ ~Fresh
  /\ skipped' = skipped \cup {Put(out_buf, i, Replacement)}
  /\ j' = j + 1
  /\ UNCHANGED <<settings, a_extras, out_buf, orig, last_len, stage, i, eff_map, token, tried>>

Mutate ==
  /\ InAttempt({"arith", "int"}) /\ Effective(i, Width) /\ Fresh
  /\ out_buf' = Put(out_buf, i, Replacement)
  /\ tried' = tried \cup {out_buf'}
  /\ j' = j + 1
  /\ UNCHANGED <<settings, a_extras, orig, last_len, stage, i, eff_map, token, skipped>>

\* Tokens over the bytes at i, one on top of the other.
Unfit(t) ==
  \/ Len(t) > in_len - i
  \/ At(out_buf, i, Len(t)) = t
  \/ ~Effective(i, Len(t))

SkipToken ==
  /\ InAttempt({"over", "auto", "insert"})
  /\ LET t == Tokens[j + 1]
     IN IF Kind = "insert"
          THEN in_len + Len(t) > MAX_FILE
          ELSE Unfit(t) \/ (Kind = "over" /\ Len(extras) > MAX_DET_EXTRAS)
  /\ j' = j + 1
  /\ UNCHANGED <<settings, a_extras, out_buf, orig, last_len, stage, i, eff_map, token, tried, skipped>>

Overwrite ==
  /\ InAttempt({"over", "auto"})
  /\ LET t == Tokens[j + 1]
     IN /\ ~Unfit(t)
        /\ out_buf' = Put(out_buf, i, t)
        /\ last_len' = Len(t)
  /\ tried' = tried \cup {out_buf'}
  /\ j' = j + 1
  /\ UNCHANGED <<settings, a_extras, orig, stage, i, eff_map, token, skipped>>

Insert ==
  /\ InAttempt({"insert"})
  /\ LET t == Tokens[j + 1]
     IN /\ in_len + Len(t) <= MAX_FILE
        /\ tried' = tried \cup {SubSeq(out_buf, 1, i) \o t \o SubSeq(out_buf, i + 1, in_len)}
  /\ j' = j + 1
  /\ UNCHANGED <<settings, a_extras, out_buf, orig, last_len, stage, i, eff_map, token, skipped>>

\* The end of the inner loop puts back what was there: the word from orig, the
\* bytes under the last token from in_buf.
Restored ==
  CASE Kind \in {"arith", "int"} -> Put(out_buf, i, orig)
    [] Kind \in {"over", "auto"} -> Put(out_buf, i, At(in_buf, i, last_len))
    [] OTHER -> out_buf

EndPosition ==
  /\ InPosition /\ Kind \notin {"bit", "byte"} /\ j = Attempts
  /\ NextPosition(Restored)
  /\ last_len' = 0
  /\ UNCHANGED <<settings, a_extras, stage, eff_map, token, tried, skipped>>

\* A map that is nearly full is filled after the stage that set it.
Dense == (Cardinality(eff_map) * 100) \div EFF_ALEN > EFF_MAX_PERC

EndStage ==
  /\ InDet /\ i >= Positions
  /\ eff_map' = IF stage = 4 /\ Dense THEN 0 .. EFF_ALEN - 1 ELSE eff_map
  /\ UNCHANGED <<settings, a_extras, out_buf, last_len, token, tried, skipped>>
  /\ Start(Min({s \in DOMAIN Stages : s > stage /\ Runs(Stages[s])} \cup {Len(Stages) + 1}))

DetNext == Flip \/ SkipPosition \/ SkipMutation \/ Mutate \/ SkipToken \/ Overwrite \/ Insert
             \/ EndPosition \/ EndStage

---------------------------------------------------------------------------
(* Properties *)

\* Every position of every stage starts from the input, and so does havoc after the
\* last, whatever was written over it before: words, or tokens one on top of the
\* other, of which only the bytes under the last are put back.
BufferIsRestored == stage > 0 /\ j = 0 => out_buf = in_buf

\* Two or four bits in a row of a little-endian word, some in each of two bytes.
\* Walking flips go through each byte from the top and never flip just these.
Straddles(buf) ==
  \E p \in 0 .. in_len - 2 :
    LET a == At(in_buf, p, 2)
        b == At(buf, p, 2)
    IN /\ a[1] # b[1] /\ a[2] # b[2] /\ buf = Put(in_buf, p, b)
       /\ XorOf(a, b) \in {q * 2 ^ s : q \in {3, 15}, s \in 0 .. ByteBits - 1}

\* A buffer one of the walking flips makes of the input.
WalkingFlip(buf) ==
  \E n \in {1, 2, 4} :
    \/ \E b \in 0 .. in_len * ByteBits - n : buf = FLIP_BIT(in_buf, b, n)
    \/ \E p \in 0 .. in_len - n : buf = FLIP_BIT(in_buf, p * ByteBits, n * ByteBits)

\* What could_be_bitflip takes for a walking flip is one, but for those that straddle.
BitflipsAreWalked ==
  InAttempt({"arith", "int"}) /\ could_be_bitflip(XorOf(orig, Replacement)) =>
    LET buf == Put(in_buf, i, Replacement)
    IN  buf = in_buf \/ WalkingFlip(buf) \/ Straddles(buf)

\* When a position is done, every mutation left out there, as one that another stage or
\* attempt has run, was run, when no stage was left out and the map has no gaps; but
\* for the changes could_be_bitflip takes for walking flips that straddle bytes.  (Not
\* before: the big-endian form of one known integer is the little-endian form of a
\* later one, and left out for it.)
SkipsWereTried ==
  ~no_arith /\ eff_map = 0 .. EFF_ALEN - 1 /\ j = 0 =>
    \A buf \in skipped : buf \in tried \/ Straddles(buf)
=============================================================================
