--------------------------- MODULE Canary_proofs ---------------------------
(***************************************************************************)
(* What the monitor prints is a snapshot, and each is newer than the last, *)
(* for any canaries that fit a buffer, any number of target processes and  *)
(* any order of their steps with the monitor's.                            *)
(*                                                                         *)
(* The flag makes the two sides take turns, with no lock: the target is    *)
(* between its check and its publication only while the flag is set, the   *)
(* monitor between its look and its consumption only while it is clear.    *)
(* HandOver says so, together with what either side has copied meanwhile;  *)
(* Growing is the order of the three copies of the counts.                 *)
(***************************************************************************)
EXTENDS Canary, FiniteSetTheorems, WellFoundedInduction, TLAPS

\* The buffers have room for every canary; stor_get does not check.
Fits == IsFiniteSet(Bugs) /\ Cardinality(Bugs) <= BUFFERLEN

Canaries == [name : Bugs \cup {NoName}, reached : Nat, triggered : Nat]

\* Canaries take the slots of the producer buffer one after the other.
Named ==
  \E n \in 0 .. BUFFERLEN :
    /\ \A k \in Slots : mem[k].name # NoName <=> k <= n
    /\ \A j, k \in Slots : mem[j].name = mem[k].name /\ j # k => mem[j].name = NoName

Types ==
  /\ TypeOK
  /\ slot \in Slots

HandOver ==
  /\ ~consumed => \A k \in Slots : mem[BUFFERLEN + k] = published[k]
  /\ pc = "copy" => consumed
  /\ pc \notin {"copy", "return"} => copied = 0
  /\ \A k \in Slots : pc = "copy" /\ k <= copied => mem[BUFFERLEN + k] = mem[k]
  /\ file # "sized" \/ mon \in {"truncate", "memset"} =>
       ~consumed /\ pc # "copy" /\ published = Blank
  /\ mon \in {"memset", "fetch", "read"} => file = "sized"
  /\ mon = "idle" => file # "empty"
  /\ mon = "read" => ~consumed
  /\ mon # "read" => fetched = 0
  /\ \A k \in Slots : k <= fetched => data[k] = published[k]

\* Every canary of d is in e at the same slot, with counts as high.
AtMost(d, e) ==
  \A k \in Slots :
    d[k].name # NoName =>
      /\ e[k].name = d[k].name
      /\ e[k].reached >= d[k].reached
      /\ e[k].triggered >= d[k].triggered

Growing == AtMost(published, Producer) /\ AtMost(dumped, published)

Inv == Types /\ Named /\ HandOver /\ Growing

---------------------------------------------------------------------------
LEMMA Sizes ==
  /\ BUFFERLEN \in Nat \ {0} /\ NoName \notin Bugs
  /\ \A k \in Slots : k \in Memory /\ BUFFERLEN + k \in Memory /\ k \in Nat
  /\ \A j, k \in Slots : BUFFERLEN + j # k
  /\ \A i \in Memory : i \in Nat
  /\ Blank \in [Slots -> Canaries] /\ Zero \in Canaries
  /\ Producer = [k \in Slots |-> mem[k]]
  BY CanaryAssumption DEF Slots, Memory, Blank, Zero, Producer, Canaries

\* stor_get finds the slot of the canary, or the next one: if every slot held
\* another canary there would be more of them than fit.
LEMMA GetFindsSlot ==
  ASSUME Fits, Types, Named, NEW b \in Bugs
  PROVE  /\ Get(b) \in Slots
         /\ mem[Get(b)].name \in {b, NoName}
         /\ \A j \in Slots : j < Get(b) => mem[j].name \notin {b, NoName}
<1> DEFINE hit == {k \in Slots : mem[k].name \in {b, NoName}}
<1>1. PICK n \in 0 .. BUFFERLEN :
        /\ \A k \in Slots : mem[k].name # NoName <=> k <= n
        /\ \A j, k \in Slots : mem[j].name = mem[k].name /\ j # k => mem[j].name = NoName
  BY DEF Named
<1>2. hit # {}
  <2> SUFFICES ASSUME hit = {} PROVE FALSE
    OBVIOUS
  <2>1. \A k \in Slots : mem[k].name \in Bugs \ {b}
    BY Sizes DEF Types, TypeOK
  <2> DEFINE f == [k \in Slots |-> mem[k].name]
  <2>2. f \in [Slots -> Bugs \ {b}]
    BY <2>1
  <2>3. IsFiniteSet(Slots) /\ Cardinality(Slots) = BUFFERLEN
    BY Sizes, FS_Interval DEF Slots
  <2>4. IsFiniteSet(Bugs \ {b}) /\ Cardinality(Bugs \ {b}) = Cardinality(Bugs) - 1
    BY FS_RemoveElement DEF Fits
  <2>5. Cardinality(Bugs) \in Nat
    BY FS_CardinalityType DEF Fits
  <2>6. Cardinality(Bugs \ {b}) < Cardinality(Slots)
    BY <2>3, <2>4, <2>5, Sizes DEF Fits
  <2>7. \E x, y \in Slots : x # y /\ f[x] = f[y]
    <3> HIDE DEF f
    <3> QED BY <2>2, <2>3, <2>4, <2>6, FS_PigeonHole
  <2> QED BY <1>1, <2>1, <2>7, Sizes
<1>3. \E k \in hit : \A j \in hit : k <= j
  <2>1. CASE \E k \in Slots : mem[k].name = b
    <3>1. PICK k \in Slots : mem[k].name = b
      BY <2>1
    <3>2. \A j \in hit : k <= j
      BY <1>1, <3>1, Sizes
    <3> QED BY <3>1, <3>2
  <2>2. CASE ~ \E k \in Slots : mem[k].name = b
    <3>1. n + 1 \in Slots
      BY <1>1, <1>2, <2>2, Sizes DEF Slots
    <3>2. n + 1 \in hit /\ \A j \in hit : n + 1 <= j
      BY <1>1, <2>2, <3>1, Sizes
    <3> QED BY <3>2
  <2> QED BY <2>1, <2>2
<1>4. Get(b) = CHOOSE k \in hit : \A j \in hit : k <= j
  BY <1>2 DEF Get
<1>5. Get(b) \in hit /\ \A j \in hit : Get(b) <= j
  BY <1>3, <1>4
<1> QED BY <1>5, Sizes

---------------------------------------------------------------------------
LEMMA InitInv == Init => Inv
<1> SUFFICES ASSUME Init PROVE Inv
  OBVIOUS
<1>1. Types
  <2>1. mem \in [Memory -> Canaries] /\ slot \in Slots /\ 0 \in 0 .. BUFFERLEN /\ 0 \in 0 .. MaxRuns
    BY Sizes, CanaryAssumption DEF Init, Slots
  <2>2. \A d \in {data, published, dumped} : d \in [Slots -> Canaries]
    BY Sizes DEF Init
  <2>3. slot \in 1 .. BUFFERLEN + 1
    BY Sizes DEF Init
  <2> HIDE DEF Blank, Zero
  <2> QED BY <2>1, <2>2, <2>3 DEF Init, Types, TypeOK, Canaries
<1>2. \A k \in Slots : mem[k] = Zero /\ mem[BUFFERLEN + k] = Zero /\ Blank[k] = Zero
  BY Sizes DEF Init, Blank
<1>3. Named
  <2>1. \A k \in Slots : mem[k].name = NoName /\ ~(k <= 0)
    BY <1>2 DEF Zero, Slots
  <2>2. 0 \in 0 .. BUFFERLEN
    BY Sizes
  <2> QED BY <2>1, <2>2 DEF Named
<1>4. HandOver
  BY <1>2, Sizes DEF Init, HandOver, Slots
<1>5. Growing
  BY <1>2 DEF Init, Growing, AtMost, Zero
<1> QED BY <1>1, <1>3, <1>4, <1>5 DEF Inv

\* Steps of the target outside the memory.
LEMMA TargetStepKeeps ==
  ASSUME Inv, Start \/ Stop \/ Check \/ Return
  PROVE  Inv'
<1>1. UNCHANGED <<storage, monitor, published>>
  BY DEF Start, Stop, Check, Return
<1>2. Types'
  <2>1. /\ slot' \in Slots /\ copied' \in 0 .. BUFFERLEN /\ condition' \in BOOLEAN
        /\ runs' \in 0 .. MaxRuns /\ faulty' \in BOOLEAN
        /\ mapped' \in {"unset", "yes", "no"}
        /\ pc' \in {"off", "run", "reach", "trigger", "check", "copy", "return"}
    <3>1. /\ 1 \in Slots /\ 0 \in 0 .. BUFFERLEN /\ MaxRuns \in Nat
          /\ slot \in Slots /\ copied \in 0 .. BUFFERLEN /\ condition \in BOOLEAN
          /\ runs \in 0 .. MaxRuns /\ faulty \in BOOLEAN
          /\ mapped \in {"unset", "yes", "no"}
      BY CanaryAssumption, Sizes DEF Inv, Types, TypeOK, Slots
    <3>2. CASE Start
      BY <3>1, <3>2 DEF Start
    <3>3. CASE Stop
      BY <3>1, <3>3 DEF Stop, Forget
    <3>4. CASE Check
      BY <3>1, <3>4 DEF Check
    <3>5. CASE Return
      BY <3>1, <3>5 DEF Return, Forget
    <3> QED BY <3>2, <3>3, <3>4, <3>5
  <2>2. \A d \in {data', published', dumped'} :
          d \in [Slots -> [name : Bugs \cup {NoName}, reached : Nat, triggered : Nat]]
    BY <1>1 DEF Inv, Types, TypeOK, monitor
  <2>3. slot' \in 1 .. BUFFERLEN + 1
    BY <2>1, Sizes DEF Slots
  <2> QED BY <1>1, <2>1, <2>2, <2>3 DEF Inv, Types, TypeOK, storage, monitor
<1>3. Named'
  BY <1>1 DEF Inv, Named, storage
<1>4. /\ pc' = "copy" => consumed /\ copied' = 0
      /\ pc' \notin {"copy", "return"} => copied' = 0
  BY DEF Inv, HandOver, Start, Stop, Check, Return, Forget
<1>5. HandOver'
  <2>1. \A k \in Slots : ~(pc' = "copy" /\ k <= copied')
    BY <1>4 DEF Slots
  <2> QED BY <1>1, <1>4, <2>1 DEF Inv, HandOver, storage, monitor
<1>6. Growing'
  BY <1>1 DEF Inv, Growing, AtMost, Producer, storage, monitor
<1> QED BY <1>2, <1>3, <1>5, <1>6 DEF Inv

\* Steps of the monitor outside the memory.
LEMMA MonitorStepKeeps ==
  ASSUME Inv, Fetch \/ Truncate \/ Look \/ Read
  PROVE  Inv'
<1>1. UNCHANGED <<consumed, mem, target, dumped, published>>
  BY DEF Fetch, Truncate, Look, Read, storage
<1>2. data' \in [Slots -> Canaries] /\ fetched' \in 0 .. BUFFERLEN
  <2>1. data \in [Slots -> Canaries] /\ fetched \in 0 .. BUFFERLEN
    BY DEF Inv, Types, TypeOK, Canaries
  <2>2. CASE Read
    <3>1. fetched + 1 \in Slots /\ BUFFERLEN + fetched + 1 = BUFFERLEN + (fetched + 1)
      BY <2>1, <2>2, Sizes DEF Read, Slots
    <3>2. mem[BUFFERLEN + fetched + 1] \in Canaries
      BY <3>1, Sizes DEF Inv, Types, TypeOK, Canaries
    <3> QED BY <2>1, <2>2, <3>1, <3>2, Sizes DEF Read, Slots
  <2>3. CASE ~Read
    BY <2>1, <2>3 DEF Fetch, Truncate, Look
  <2> QED BY <2>2, <2>3
<1>3. Types'
  <2>1. /\ file' \in {"absent", "empty", "sized"}
        /\ mon' \in {"idle", "truncate", "memset", "fetch", "read"}
    BY DEF Inv, Types, TypeOK, Fetch, Truncate, Look, Read, storage
  <2>2. \A d \in {data', published', dumped'} :
          d \in [Slots -> [name : Bugs \cup {NoName}, reached : Nat, triggered : Nat]]
    BY <1>1, <1>2 DEF Inv, Types, TypeOK, Canaries
  <2> QED BY <1>1, <1>2, <2>1, <2>2 DEF Inv, Types, TypeOK, target
<1>4. Named'
  BY <1>1 DEF Inv, Named
<1>5. \A k \in Slots : k <= fetched' => data'[k] = published[k]
  <2>1. CASE Read
    <3>1. \A k \in Slots : mem[BUFFERLEN + k] = published[k]
      BY <2>1 DEF Inv, HandOver, Read
    <3>2. fetched + 1 \in Slots /\ data'[fetched + 1] = mem[BUFFERLEN + fetched + 1]
      BY <2>1, Sizes DEF Inv, Types, TypeOK, Read, Slots
    <3>3. BUFFERLEN + fetched + 1 = BUFFERLEN + (fetched + 1)
      BY Sizes DEF Inv, Types, TypeOK
    <3>4. \A k \in Slots : k # fetched + 1 => data'[k] = data[k]
      BY <2>1 DEF Inv, Types, TypeOK, Read
    <3>5. \A k \in Slots : k <= fetched' /\ k # fetched + 1 => k <= fetched
      BY <2>1, Sizes DEF Inv, Types, TypeOK, Read
    <3> QED BY <3>1, <3>2, <3>3, <3>4, <3>5 DEF Inv, HandOver
  <2>2. CASE ~Read
    BY <2>2 DEF Inv, HandOver, Fetch, Truncate, Look
  <2> QED BY <2>1, <2>2
<1>6. HandOver'
  <2>1. /\ file' # "sized" \/ mon' \in {"truncate", "memset"} =>
             file # "sized" \/ mon \in {"truncate", "memset"}
        /\ mon' \in {"memset", "fetch", "read"} => file' = "sized"
        /\ mon' = "idle" => file' # "empty"
        /\ mon' = "read" => ~consumed
        /\ mon' # "read" => fetched' = 0
    BY DEF Inv, Types, TypeOK, HandOver, Fetch, Truncate, Look, Read, storage
  <2> QED BY <1>1, <1>5, <2>1 DEF Inv, HandOver, target
<1>7. Growing'
  BY <1>1 DEF Inv, Growing, AtMost, Producer
<1> QED BY <1>3, <1>4, <1>6, <1>7 DEF Inv

\* A poll: what was read is what was published, all of it.
LEMMA PollIsPublished ==
  ASSUME Inv, Consume
  PROVE  Inv' /\ dumped' = published
<1>1. dumped' = published
  <2>1. \A k \in Slots : data[k] = published[k]
    BY DEF Inv, HandOver, Consume, Slots
  <2>2. data \in [Slots -> Canaries] /\ published \in [Slots -> Canaries]
    BY DEF Inv, Types, TypeOK, Canaries
  <2> QED BY <2>1, <2>2 DEF Consume
<1>2. Types'
  <2>1. /\ UNCHANGED <<file, mem, target, published>>
        /\ consumed' \in BOOLEAN /\ mon' = "idle" /\ fetched' \in 0 .. BUFFERLEN
    BY Sizes DEF Consume
  <2>2. \A d \in {data', published', dumped'} :
          d \in [Slots -> [name : Bugs \cup {NoName}, reached : Nat, triggered : Nat]]
    BY <1>1, Sizes DEF Inv, Types, TypeOK, Consume, Canaries
  <2> QED BY <2>1, <2>2 DEF Inv, Types, TypeOK, target
<1>3. Named'
  BY DEF Inv, Named, Consume
<1>4. file = "sized" /\ mon = "read"
  BY DEF Inv, Types, HandOver, Consume, TypeOK
<1>5. HandOver'
  BY <1>4, Sizes DEF Inv, HandOver, Consume, target, Slots
<1>6. Growing'
  <2>1. AtMost(dumped', published)
    BY <1>1 DEF AtMost, Inv, Types, TypeOK
  <2> QED BY <2>1 DEF Inv, Growing, AtMost, Producer, Consume
<1> QED BY <1>1, <1>2, <1>3, <1>5, <1>6 DEF Inv

---------------------------------------------------------------------------
\* The target writes one producer slot: a free one, or one whose canary it
\* leaves there with counts as high.
LEMMA CountingKeeps ==
  ASSUME Inv, NEW s \in Slots, NEW c \in Canaries,
         mem' = [mem EXCEPT ![s] = c],
         mem[s].name # NoName =>
           /\ c.name = mem[s].name
           /\ c.reached >= mem[s].reached
           /\ c.triggered >= mem[s].triggered,
         pc \notin {"copy", "return"}, pc' # "copy",
         UNCHANGED <<file, consumed, copied, monitor, published>>
  PROVE  mem' \in [Memory -> Canaries] /\ HandOver' /\ Growing'
<1>1. mem \in [Memory -> Canaries] /\ s \in Memory
  BY Sizes DEF Inv, Types, TypeOK, Canaries
<1>2. mem' \in [Memory -> Canaries] /\ mem'[s] = c
  BY <1>1
<1>3. \A k \in Slots : k # s => mem'[k] = mem[k]
  BY <1>1, Sizes
<1>4. \A k \in Slots : mem'[BUFFERLEN + k] = mem[BUFFERLEN + k]
  <2>1. \A k \in Slots : BUFFERLEN + k # s /\ BUFFERLEN + k \in Memory
    BY Sizes
  <2> QED BY <1>1, <2>1
<1>5. HandOver'
  BY <1>4 DEF Inv, HandOver, monitor
<1>6. \A k \in Slots : mem[k] \in Canaries /\ published[k] \in Canaries /\ mem'[k] \in Canaries
  BY <1>1, <1>2, Sizes DEF Inv, Types, TypeOK, Canaries
<1>7. AtMost(published, Producer)'
  <2> SUFFICES ASSUME NEW k \in Slots, published[k].name # NoName
               PROVE  /\ mem'[k].name = published[k].name
                      /\ mem'[k].reached >= published[k].reached
                      /\ mem'[k].triggered >= published[k].triggered
    BY DEF AtMost, Producer
  <2>1. /\ mem[k].name = published[k].name
        /\ mem[k].reached >= published[k].reached
        /\ mem[k].triggered >= published[k].triggered
    BY DEF Inv, Growing, AtMost, Producer
  <2>2. CASE k = s
    BY <1>2, <1>6, <2>1, <2>2 DEF Canaries
  <2>3. CASE k # s
    BY <1>3, <2>1, <2>3
  <2> QED BY <2>2, <2>3
<1>8. AtMost(dumped, published)'
  BY DEF Inv, Growing, AtMost, monitor
<1> QED BY <1>2, <1>5, <1>7, <1>8 DEF Growing

\* The types, when the target writes the memory.
LEMMA TypesKept ==
  ASSUME Inv, mem' \in [Memory -> Canaries], slot' \in Slots, condition' \in BOOLEAN,
         mapped' \in {"unset", "yes", "no"},
         pc' \in {"off", "run", "reach", "trigger", "check", "copy", "return"},
         UNCHANGED <<file, consumed, faulty, copied, runs, monitor, published>>
  PROVE  Types'
<1>1. slot' \in 1 .. BUFFERLEN + 1
  BY Sizes DEF Slots
<1>2. \A d \in {data', published', dumped'} :
        d \in [Slots -> [name : Bugs \cup {NoName}, reached : Nat, triggered : Nat]]
  BY DEF Inv, Types, TypeOK, monitor
<1> QED BY <1>1, <1>2 DEF Inv, Types, TypeOK, Canaries, monitor

\* Names stay where they are.
LEMMA NamesKept ==
  ASSUME Inv, \A k \in Slots : mem'[k].name = mem[k].name
  PROVE  Named'
<1>1. PICK n \in 0 .. BUFFERLEN :
        /\ \A k \in Slots : mem[k].name # NoName <=> k <= n
        /\ \A j, k \in Slots : mem[j].name = mem[k].name /\ j # k => mem[j].name = NoName
  BY DEF Inv, Named
<1> QED BY <1>1 DEF Named

LEMMA LogKeeps ==
  ASSUME Fits, Inv, NEW b \in Bugs, NEW c \in BOOLEAN, Log(b, c)
  PROVE  Inv'
<1>1. /\ pc = "run" /\ UNCHANGED <<file, consumed, faulty, copied, runs, monitor, published>>
  BY DEF Log
<1>2. mem \in [Memory -> Canaries] /\ slot \in Slots /\ condition \in BOOLEAN
  BY DEF Inv, Types, TypeOK, Canaries
<1>3. CASE file # "sized"
  <2>1. /\ mem' = mem /\ slot' = slot /\ condition' = condition
        /\ pc' \in {"run", "off"} /\ mapped' \in {"unset", "no"}
    BY <1>1, <1>3 DEF Log
  <2>2. Types'
    BY <1>1, <1>2, <2>1, TypesKept
  <2>3. HandOver'
    BY <1>1, <2>1 DEF Inv, HandOver, monitor
  <2>4. Named' /\ Growing'
    BY <1>1, <2>1 DEF Inv, Named, Growing, AtMost, Producer, monitor
  <2> QED BY <2>2, <2>3, <2>4 DEF Inv
<1>4. CASE file = "sized"
  <2> DEFINE s == Get(b)
  <2>1. /\ s \in Slots /\ mem[s].name \in {b, NoName}
        /\ \A j \in Slots : j < s => mem[j].name \notin {b, NoName}
    BY GetFindsSlot DEF Inv
  <2>2. /\ mapped' = "yes" /\ slot' = s /\ condition' = c /\ pc' = "reach"
        /\ mem' = IF mem[s].name = b THEN mem ELSE [mem EXCEPT ![s] = [Zero EXCEPT !.name = b]]
    BY <1>4, <2>1 DEF Log
  <2>3. PICK n \in 0 .. BUFFERLEN :
          /\ \A k \in Slots : mem[k].name # NoName <=> k <= n
          /\ \A j, k \in Slots : mem[j].name = mem[k].name /\ j # k => mem[j].name = NoName
    BY DEF Inv, Named
  <2> HIDE DEF s
  <2>4. CASE mem[s].name = b
    <3>1. mem' = mem
      BY <2>2, <2>4
    <3>2. Types'
      BY <1>1, <1>2, <2>1, <2>2, <3>1, TypesKept
    <3>3. HandOver'
      BY <1>1, <2>2, <3>1 DEF Inv, HandOver, monitor
    <3>4. Named' /\ Growing'
      BY <1>1, <3>1 DEF Inv, Named, Growing, AtMost, Producer, monitor
    <3> QED BY <3>2, <3>3, <3>4 DEF Inv
  <2>5. CASE mem[s].name # b
    <3> DEFINE d == [Zero EXCEPT !.name = b]
    <3>1. d \in Canaries /\ d.name = b /\ b # NoName
      BY Sizes DEF Zero, Canaries
    <3> HIDE DEF d
    <3>2. mem[s].name = NoName /\ mem' = [mem EXCEPT ![s] = d]
      BY <2>1, <2>2, <2>5 DEF d
    <3>3. mem' \in [Memory -> Canaries] /\ HandOver' /\ Growing'
      BY <1>1, <2>1, <2>2, <3>1, <3>2, CountingKeeps
    <3>4. Types'
      BY <1>1, <2>1, <2>2, <3>3, TypesKept
    <3>5. mem'[s] = d /\ \A k \in Slots : k # s => mem'[k] = mem[k]
      BY <1>2, <2>1, <3>2, Sizes
    <3>6. n + 1 = s /\ n + 1 \in 0 .. BUFFERLEN
      <4>1. \A k \in Slots : k < s => k <= n
        BY <2>1, <2>3
      <4>2. ~(s <= n)
        BY <2>1, <2>3, <3>2
      <4>3. s \in 1 .. BUFFERLEN
        BY <2>1 DEF Slots
      <4>4. s - 1 \in Slots \/ s = 1
        BY <4>3, Sizes DEF Slots
      <4>5. n + 1 = s
        BY <4>1, <4>2, <4>3, <4>4, Sizes
      <4> QED BY <4>3, <4>5, Sizes
    <3>7. \A k \in Slots : mem'[k].name # NoName <=> k <= n + 1
      BY <2>1, <2>3, <3>1, <3>5, <3>6, Sizes
    <3>8. \A k \in Slots : mem[k].name # b
      <4>1. \A k \in Slots : k < s => mem[k].name # b
        BY <2>1
      <4>2. \A k \in Slots : ~(k < s) => mem[k].name = NoName
        BY <2>1, <2>3, <3>6, Sizes
      <4> QED BY <3>1, <4>1, <4>2
    <3>9. \A j, k \in Slots : mem'[j].name = mem'[k].name /\ j # k => mem'[j].name = NoName
      BY <2>3, <3>1, <3>5, <3>8
    <3>10. Named'
      BY <3>6, <3>7, <3>9 DEF Named
    <3> QED BY <3>3, <3>4, <3>10 DEF Inv
  <2> QED BY <2>4, <2>5
<1> QED BY <1>3, <1>4

\* The two increments of magma_log.
LEMMA CountKeeps ==
  ASSUME Inv, Reach \/ Trigger
  PROVE  Inv'
<1>1. /\ UNCHANGED <<file, consumed, mapped, faulty, slot, condition, copied, runs, monitor, published>>
      /\ pc \in {"reach", "trigger"} /\ pc' \in {"trigger", "check"}
  BY DEF Reach, Trigger
<1>2. mem \in [Memory -> Canaries] /\ slot \in Slots /\ slot \in Memory
  BY Sizes DEF Inv, Types, TypeOK, Canaries
<1>3. PICK d \in Canaries :
        /\ mem' = [mem EXCEPT ![slot] = d]
        /\ d.name = mem[slot].name
        /\ d.reached >= mem[slot].reached /\ d.triggered >= mem[slot].triggered
  <2> DEFINE u == mem[slot]
             r == [u EXCEPT !.reached = @ + 1]
             t == [u EXCEPT !.triggered = @ + 1]
  <2>1. /\ u \in Canaries /\ r \in Canaries /\ t \in Canaries
        /\ r.name = u.name /\ r.reached >= u.reached /\ r.triggered >= u.triggered
        /\ t.name = u.name /\ t.reached >= u.reached /\ t.triggered >= u.triggered
        /\ u.reached >= u.reached /\ u.triggered >= u.triggered
    BY <1>2 DEF Canaries
  <2>2. mem = [mem EXCEPT ![slot] = u]
    BY <1>2
  <2>3. mem' = mem \/ mem' = [mem EXCEPT ![slot] = r] \/ mem' = [mem EXCEPT ![slot] = t]
    <3>1. [mem EXCEPT ![slot].reached = @ + 1] = [mem EXCEPT ![slot] = r]
      BY <1>2
    <3>2. [mem EXCEPT ![slot].triggered = @ + 1] = [mem EXCEPT ![slot] = t]
      BY <1>2
    <3> QED BY <3>1, <3>2 DEF Reach, Trigger
  <2> HIDE DEF u, r, t
  <2>4. CASE mem' = mem
    BY <2>1, <2>2, <2>4 DEF u
  <2>5. CASE mem' = [mem EXCEPT ![slot] = r]
    BY <2>1, <2>5 DEF u
  <2>6. CASE mem' = [mem EXCEPT ![slot] = t]
    BY <2>1, <2>6 DEF u
  <2> QED BY <2>3, <2>4, <2>5, <2>6
<1>4. mem' \in [Memory -> Canaries] /\ HandOver' /\ Growing'
  BY <1>1, <1>2, <1>3, CountingKeeps
<1>5. Types'
  <2>1. /\ slot' \in Slots /\ condition' \in BOOLEAN /\ mapped' \in {"unset", "yes", "no"}
    BY <1>1 DEF Inv, Types, TypeOK
  <2> QED BY <1>1, <1>4, <2>1, TypesKept
<1>6. \A k \in Slots : mem'[k].name = mem[k].name
  BY <1>2, <1>3, Sizes
<1>7. Named'
  BY <1>6, NamesKept
<1> QED BY <1>4, <1>5, <1>7 DEF Inv

\* One slot of the copy, while the flag keeps the monitor away.
LEMMA CopyKeeps ==
  ASSUME Inv, Copy
  PROVE  Inv'
<1>1. /\ pc = "copy" /\ pc' = pc /\ consumed /\ copied < BUFFERLEN /\ copied' = copied + 1
      /\ UNCHANGED <<file, consumed, mapped, faulty, slot, condition, runs, monitor, published>>
  BY DEF Copy, Inv, HandOver
<1>2. mem \in [Memory -> Canaries] /\ copied \in 0 .. BUFFERLEN
  BY DEF Inv, Types, TypeOK, Canaries
<1>3. copied + 1 \in Slots /\ BUFFERLEN + copied + 1 = BUFFERLEN + (copied + 1)
  BY <1>1, <1>2, Sizes DEF Slots
<1>4. mem' = [mem EXCEPT ![BUFFERLEN + (copied + 1)] = mem[copied + 1]]
  BY <1>3 DEF Copy
<1>5. mem' \in [Memory -> Canaries] /\ mem'[BUFFERLEN + (copied + 1)] = mem[copied + 1]
  BY <1>2, <1>3, <1>4, Sizes
<1>6. \A k \in Slots : mem'[k] = mem[k]
  BY <1>2, <1>3, <1>4, Sizes
<1>7. \A k \in Slots : k # copied + 1 => mem'[BUFFERLEN + k] = mem[BUFFERLEN + k]
  <2>1. \A k \in Slots : k # copied + 1 => BUFFERLEN + k # BUFFERLEN + (copied + 1)
    BY <1>2, Sizes
  <2> QED BY <1>2, <1>4, <2>1, Sizes
<1>8. \A k \in Slots : k <= copied' => mem'[BUFFERLEN + k] = mem'[k]
  <2>1. \A k \in Slots : k <= copied => mem[BUFFERLEN + k] = mem[k]
    BY <1>1 DEF Inv, HandOver
  <2>2. \A k \in Slots : k <= copied' /\ k # copied + 1 => k <= copied
    BY <1>1, <1>2, Sizes
  <2> QED BY <1>3, <1>5, <1>6, <1>7, <2>1, <2>2
<1>9. HandOver'
  BY <1>1, <1>8 DEF Inv, HandOver, monitor
<1>10. Types'
  <2>1. copied' \in 0 .. BUFFERLEN
    BY <1>1, <1>2, Sizes
  <2>2. \A d \in {data', published', dumped'} :
          d \in [Slots -> [name : Bugs \cup {NoName}, reached : Nat, triggered : Nat]]
    BY <1>1 DEF Inv, Types, TypeOK, monitor
  <2> QED BY <1>1, <1>5, <2>1, <2>2 DEF Inv, Types, TypeOK, Canaries, monitor
<1>11. Named'
  BY <1>6, NamesKept
<1>12. Growing'
  BY <1>1, <1>6 DEF Inv, Growing, AtMost, Producer, monitor
<1> QED BY <1>9, <1>10, <1>11, <1>12 DEF Inv

\* The flag is cleared when all slots are copied.
LEMMA PublishKeeps ==
  ASSUME Inv, Publish
  PROVE  Inv'
<1>1. /\ pc = "copy" /\ pc' = "return" /\ consumed /\ ~consumed' /\ copied = BUFFERLEN
      /\ published' = Producer /\ file = "sized" /\ mon \notin {"truncate", "memset", "read"}
      /\ UNCHANGED <<file, mem, mapped, faulty, slot, condition, copied, runs, monitor>>
  BY DEF Publish, Inv, HandOver
<1>2. Producer \in [Slots -> Canaries] /\ \A k \in Slots : Producer[k] = mem[k]
  BY Sizes DEF Inv, Types, TypeOK, Producer, Canaries
<1>3. Types'
  <2>1. \A d \in {data', published', dumped'} :
          d \in [Slots -> [name : Bugs \cup {NoName}, reached : Nat, triggered : Nat]]
    BY <1>1, <1>2 DEF Inv, Types, TypeOK, monitor, Canaries
  <2>2. consumed' \in BOOLEAN
    BY <1>1 DEF Publish
  <2> QED BY <1>1, <2>1, <2>2 DEF Inv, Types, TypeOK, monitor
<1>4. Named'
  BY <1>1 DEF Inv, Named
<1>5. HandOver'
  <2>1. \A k \in Slots : mem[BUFFERLEN + k] = mem[k]
    BY <1>1 DEF Inv, HandOver, Slots
  <2>2. fetched = 0 /\ \A k \in Slots : ~(k <= fetched)
    BY <1>1 DEF Inv, HandOver, Slots
  <2> QED BY <1>1, <1>2, <2>1, <2>2 DEF Inv, HandOver, monitor
<1>6. AtMost(published', Producer')
  BY <1>1, <1>2 DEF AtMost, Canaries, Producer
<1>7. AtMost(dumped', published')
  <2>1. AtMost(dumped, published) /\ AtMost(published, Producer)
    BY DEF Inv, Growing
  <2>2. \A k \in Slots : dumped[k] \in Canaries /\ published[k] \in Canaries /\ Producer[k] \in Canaries
    BY <1>2 DEF Inv, Types, TypeOK, Canaries
  <2> QED BY <1>1, <2>1, <2>2 DEF AtMost, Canaries, monitor
<1> QED BY <1>3, <1>4, <1>5, <1>6, <1>7 DEF Inv, Growing, AtMost

\* A new file is cleared before anything was published.
LEMMA MemsetKeeps ==
  ASSUME Inv, Memset
  PROVE  Inv'
<1>1. /\ mon = "memset" /\ mon' = "fetch" /\ mem' = [i \in Memory |-> Zero] /\ ~consumed'
      /\ consumed' = FALSE
      /\ pc # "copy" /\ published = Blank /\ file = "sized" /\ fetched = 0
      /\ UNCHANGED <<file, target, data, fetched, dumped, published>>
  BY DEF Memset, Inv, HandOver
<1>2. \A k \in Slots : mem'[k] = Zero /\ mem'[BUFFERLEN + k] = Zero /\ published[k] = Zero
  BY <1>1, Sizes DEF Blank
<1>3. mem' \in [Memory -> Canaries]
  BY <1>1, Sizes
<1>4. Types'
  <2>1. \A d \in {data', published', dumped'} :
          d \in [Slots -> [name : Bugs \cup {NoName}, reached : Nat, triggered : Nat]]
    BY <1>1 DEF Inv, Types, TypeOK
  <2> QED BY <1>1, <1>3, <2>1 DEF Inv, Types, TypeOK, target, Canaries
<1>5. Named'
  <2>1. \A k \in Slots : mem'[k].name = NoName /\ ~(k <= 0)
    BY <1>2 DEF Zero, Slots
  <2> QED BY <2>1, Sizes DEF Named
<1>6. HandOver'
  BY <1>1, <1>2 DEF Inv, HandOver, target
<1>7. Growing'
  <2>1. \A k \in Slots : published[k].name = NoName
    BY <1>2 DEF Zero
  <2> QED BY <1>1, <2>1 DEF Inv, Growing, AtMost
<1> QED BY <1>4, <1>5, <1>6, <1>7 DEF Inv

---------------------------------------------------------------------------
LEMMA NextInv ==
  ASSUME Fits
  PROVE  Inv /\ [Next]_vars => Inv' /\ (Consume => dumped' = published)
<1> SUFFICES ASSUME Inv, [Next]_vars
             PROVE  Inv' /\ (Consume => dumped' = published)
  OBVIOUS
<1>1. CASE Start \/ Stop \/ Check \/ Return
  BY <1>1, TargetStepKeeps, PollIsPublished
<1>2. CASE \E b \in Bugs, c \in BOOLEAN : Log(b, c)
  BY <1>2, LogKeeps, PollIsPublished
<1>3. CASE Reach \/ Trigger
  BY <1>3, CountKeeps, PollIsPublished
<1>4. CASE Copy
  BY <1>4, CopyKeeps, PollIsPublished
<1>5. CASE Publish
  BY <1>5, PublishKeeps, PollIsPublished
<1>6. CASE Fetch \/ Truncate \/ Look \/ Read
  BY <1>6, MonitorStepKeeps, PollIsPublished
<1>7. CASE Memset
  BY <1>7, MemsetKeeps, PollIsPublished
<1>8. CASE Consume
  BY <1>8, PollIsPublished
<1>9. CASE UNCHANGED vars
  <2>1. Types' /\ Named'
    BY <1>9 DEF Inv, Types, TypeOK, Named, vars, storage, target, monitor
  <2>2. HandOver' /\ Growing'
    BY <1>9 DEF Inv, HandOver, Growing, AtMost, Producer, vars, storage, target, monitor
  <2> QED BY <2>1, <2>2, PollIsPublished DEF Inv
<1> QED BY <1>1, <1>2, <1>3, <1>4, <1>5, <1>6, <1>7, <1>8, <1>9 DEF Next

\* Only a poll changes what was printed last, and it prints more.
LEMMA DumpGrows ==
  ASSUME Fits, Inv, [Next]_vars
  PROVE  AtMost(dumped, dumped')
<1>1. \A k \in Slots : dumped[k] \in Canaries
  BY DEF Inv, Types, TypeOK, Canaries
<1>2. CASE Consume
  BY <1>2, PollIsPublished DEF Inv, Growing
<1>3. CASE ~Consume
  <2>1. dumped' = dumped
    BY <1>3 DEF Next, Start, Stop, Log, Reach, Trigger, Check, Copy, Publish, Return,
       Fetch, Truncate, Memset, Look, Read, vars, monitor
  <2> QED BY <1>1, <2>1 DEF AtMost, Canaries
<1> QED BY <1>2, <1>3

---------------------------------------------------------------------------
\* For any number of canaries that fit the buffer, what the monitor prints is
\* the producer buffer as a target published it (fetch_file, magma_log).
THEOREM DumpsAreSnapshots ==
  ASSUME Fits
  PROVE  Spec => DumpIsSnapshot
<1>1. Inv /\ [Next]_vars => Inv' /\ [Consume => dumped' = published]_vars
  BY NextInv
<1> QED BY <1>1, InitInv, PTL DEF Spec, DumpIsSnapshot

\* Under the same assumption no canary is lost and no count falls between two
\* polls, whatever is killed in between.
THEOREM DumpsGrow ==
  ASSUME Fits
  PROVE  Spec => DumpsOnlyGrow
<1>1. Inv /\ [Next]_vars => Inv'
  BY NextInv
<1>2. Inv /\ [Next]_vars =>
        [\A k \in Slots :
           dumped[k].name # NoName =>
             /\ dumped'[k].name = dumped[k].name
             /\ dumped'[k].reached >= dumped[k].reached
             /\ dumped'[k].triggered >= dumped[k].triggered]_vars
  BY DumpGrows DEF AtMost
<1> QED BY <1>1, <1>2, InitInv, PTL DEF Spec, DumpsOnlyGrow

---------------------------------------------------------------------------
(* One trigger per process.  This one needs no room for the canaries.      *)

PlainTypes ==
  /\ mem \in [Memory -> Canaries]
  /\ slot \in 1 .. BUFFERLEN + 1
  /\ pc \in {"off", "run", "reach", "trigger", "check", "copy", "return"}
  /\ faulty \in BOOLEAN /\ condition \in BOOLEAN
  /\ copied \in 0 .. BUFFERLEN /\ runs \in Nat

\* The process has not counted its trigger yet.
Armed == pc # "off" /\ ~faulty /\ ~(condition /\ pc \in {"check", "copy", "return"})

Counted ==
  /\ IsFiniteSet(Triggers)
  /\ Cardinality(Triggers) <= runs
  /\ Armed => Cardinality(Triggers) + 1 <= runs

CountInv == PlainTypes /\ Counted

LEMMA Ends == 1 \in 1 .. BUFFERLEN + 1 /\ 0 \in 0 .. BUFFERLEN /\ 0 \in Nat
  BY CanaryAssumption

\* Where no count rises there are no more triggers.
LEMMA FewerTriggers ==
  ASSUME PlainTypes, mem' \in [Memory -> Canaries],
         \A k \in Slots : mem'[k].triggered <= mem[k].triggered,
         IsFiniteSet(Triggers)
  PROVE  /\ IsFiniteSet(Triggers') /\ Cardinality(Triggers') \in Nat
         /\ Cardinality(Triggers) \in Nat /\ Cardinality(Triggers') <= Cardinality(Triggers)
<1>1. \A k \in Slots : mem[k].triggered \in Nat /\ mem'[k].triggered \in Nat
  BY Sizes DEF PlainTypes, Canaries
<1>2. Triggers' \subseteq Triggers
  BY <1>1 DEF Triggers
<1> QED BY <1>2, FS_Subset, FS_CardinalityType

\* A count that rises by one makes one more.
LEMMA OneMoreTrigger ==
  ASSUME PlainTypes, IsFiniteSet(Triggers),
         mem' = [mem EXCEPT ![slot].triggered = @ + 1]
  PROVE  /\ IsFiniteSet(Triggers') /\ Cardinality(Triggers') \in Nat
         /\ Cardinality(Triggers) \in Nat /\ Cardinality(Triggers') <= Cardinality(Triggers) + 1
<1> DEFINE u == mem[slot]
           new == <<slot, u.triggered + 1>>
<1>1. slot \in Memory /\ \A k \in Slots : k \in Memory
  BY Sizes DEF PlainTypes, Memory
<1>2. \A k \in Slots : mem[k].triggered \in Nat
  BY <1>1 DEF PlainTypes, Canaries
<1>3. mem[slot].triggered \in Nat
  BY <1>1 DEF PlainTypes, Canaries
<1>4. \A k \in Slots : k # slot => mem'[k] = mem[k]
  BY <1>1 DEF PlainTypes
<1>5. mem'[slot].triggered = mem[slot].triggered + 1
  BY <1>1 DEF PlainTypes, Canaries
<1>6. Triggers' \subseteq Triggers \cup {new}
  <2> SUFFICES ASSUME NEW k \in Slots, NEW n \in 1 .. mem'[k].triggered
               PROVE  <<k, n>> \in Triggers \cup {new}
    BY DEF Triggers
  <2>1. CASE k # slot
    BY <1>4, <2>1 DEF Triggers
  <2>2. CASE k = slot /\ n \in 1 .. mem[k].triggered
    BY <2>2 DEF Triggers
  <2>3. CASE k = slot /\ n \notin 1 .. mem[k].triggered
    <3>1. n = u.triggered + 1
      BY <1>3, <1>5, <2>3
    <3> QED BY <2>3, <3>1
  <2> QED BY <2>1, <2>2, <2>3
<1>7. /\ IsFiniteSet(Triggers \cup {new})
      /\ Cardinality(Triggers \cup {new}) \in {Cardinality(Triggers), Cardinality(Triggers) + 1}
  <2> HIDE DEF new
  <2> QED BY FS_AddElement
<1> QED BY <1>6, <1>7, FS_Subset, FS_CardinalityType

LEMMA SlotExists ==
  ASSUME PlainTypes, NEW b \in Bugs
  PROVE  Get(b) \in 1 .. BUFFERLEN + 1
<1> DEFINE hit == {k \in Slots : mem[k].name \in {b, NoName}}
<1>1. CASE hit = {}
  BY <1>1, Sizes DEF Get
<1>2. CASE hit # {}
  <2>1. hit \subseteq Nat
    BY Sizes
  <2>2. PICK k \in hit : \A j \in hit : ~ (<<j, k>> \in OpToRel(<, Nat))
    BY <1>2, <2>1, NatLessThanWellFounded, WFMin
  <2>3. \A j \in hit : k <= j
    <3> SUFFICES ASSUME NEW j \in hit, j < k PROVE FALSE
      BY <2>1
    <3>1. <<j, k>> \in OpToRel(<, Nat)
      BY <2>1 DEF OpToRel
    <3> QED BY <2>2, <3>1
  <2>4. Get(b) = CHOOSE m \in hit : \A j \in hit : m <= j
    BY <1>2 DEF Get
  <2>5. Get(b) \in hit
    BY <2>3, <2>4
  <2> QED BY <2>5, Sizes DEF Slots
<1> QED BY <1>1, <1>2

\* The steps that count nothing.
LEMMA NotCounting ==
  ASSUME CountInv, PlainTypes', runs' = runs, Armed' => Armed,
         \A k \in Slots : mem'[k].triggered <= mem[k].triggered
  PROVE  CountInv'
<1>1. /\ IsFiniteSet(Triggers') /\ Cardinality(Triggers') \in Nat
      /\ Cardinality(Triggers) \in Nat /\ Cardinality(Triggers') <= Cardinality(Triggers)
  BY FewerTriggers DEF CountInv, Counted, PlainTypes
<1> QED BY <1>1 DEF CountInv, Counted, PlainTypes

LEMMA CountsStay ==
  ASSUME PlainTypes, \A k \in Slots : mem'[k] = mem[k]
  PROVE  \A k \in Slots : mem'[k].triggered <= mem[k].triggered
<1>1. \A k \in Slots : mem[k].triggered \in Nat
  BY Sizes DEF PlainTypes, Canaries
<1> QED BY <1>1

LEMMA CountInvInit == Init => CountInv
<1> SUFFICES ASSUME Init PROVE CountInv
  OBVIOUS
<1>1. PlainTypes
  <2>1. mem \in [Memory -> Canaries]
    BY Sizes DEF Init
  <2> QED BY <2>1, Ends DEF Init, PlainTypes
<1>2. Triggers = {}
  BY Sizes DEF Init, Triggers, Zero
<1>3. IsFiniteSet(Triggers) /\ Cardinality(Triggers) = 0
  BY <1>2, FS_EmptySet
<1> QED BY <1>1, <1>3 DEF Init, CountInv, Counted, Armed

LEMMA CountInvNext == CountInv /\ [Next]_vars => CountInv'
<1> SUFFICES ASSUME CountInv, [Next]_vars PROVE CountInv'
  OBVIOUS
<1>0. PlainTypes
  BY DEF CountInv
<1>1. CASE Start
  <2>1. pc = "off" /\ pc' = "run" /\ runs' = runs + 1
        /\ UNCHANGED <<mem, slot, faulty, condition, copied>>
    BY <1>1 DEF Start, storage
  <2>2. PlainTypes'
    BY <1>0, <2>1 DEF PlainTypes
  <2>3. Triggers' = Triggers /\ Cardinality(Triggers) \in Nat
    BY <2>1, FS_CardinalityType DEF Triggers, CountInv, Counted
  <2> QED BY <1>0, <2>1, <2>2, <2>3 DEF CountInv, Counted, PlainTypes
<1>2. CASE Stop
  <2>1. /\ UNCHANGED <<mem, runs>> /\ pc' = "off" /\ slot' = 1 /\ condition' = FALSE /\ copied' = 0
        /\ faulty' = FALSE
    BY <1>2 DEF Stop, Forget, storage
  <2>2. PlainTypes' /\ ~Armed'
    BY <1>0, <2>1, Ends DEF PlainTypes, Armed
  <2> QED BY <1>0, <2>1, <2>2, CountsStay, NotCounting
<1>3. CASE \E b \in Bugs, c \in BOOLEAN : Log(b, c)
  <2>1. PICK b \in Bugs, c \in BOOLEAN : Log(b, c)
    BY <1>3
  <2>2. UNCHANGED <<faulty, copied, runs>> /\ pc = "run"
    BY <2>1 DEF Log
  <2>3. CASE UNCHANGED <<mem, slot, condition>> /\ pc' \in {"run", "off"}
    <3>1. PlainTypes'
      BY <1>0, <2>2, <2>3 DEF PlainTypes
    <3>2. Armed' => Armed
      BY <2>2, <2>3 DEF Armed
    <3> QED BY <1>0, <2>2, <2>3, <3>1, <3>2, CountsStay, NotCounting
  <2>4. CASE /\ slot' = Get(b) /\ condition' = c /\ pc' = "reach"
             /\ mem' = IF Get(b) \in Slots /\ mem[Get(b)].name = b THEN mem
                       ELSE [mem EXCEPT ![Get(b)] = [Zero EXCEPT !.name = b]]
    <3> DEFINE d == [Zero EXCEPT !.name = b]
    <3>1. Get(b) \in 1 .. BUFFERLEN + 1 /\ Get(b) \in Memory
      BY <1>0, SlotExists, Sizes DEF Memory
    <3>2. d \in Canaries /\ d.triggered = 0
      BY DEF Zero, Canaries
    <3> HIDE DEF d
    <3>3. mem' = mem \/ mem' = [mem EXCEPT ![Get(b)] = d]
      BY <2>4 DEF d
    <3>4. PlainTypes'
      BY <1>0, <2>2, <2>4, <3>1, <3>2, <3>3 DEF PlainTypes
    <3>5. \A k \in Slots : mem'[k].triggered <= mem[k].triggered
      <4>1. \A k \in Slots : mem[k].triggered \in Nat /\ k \in Memory
        BY <1>0, Sizes DEF PlainTypes, Canaries
      <4>2. \A k \in Slots : mem'[k] = mem[k] \/ mem'[k] = d
        BY <1>0, <3>1, <3>3, <4>1 DEF PlainTypes
      <4> QED BY <3>2, <4>1, <4>2
    <3>6. Armed' => Armed
      BY <2>2, <2>4 DEF Armed
    <3> QED BY <2>2, <3>4, <3>5, <3>6, NotCounting
  <2> QED BY <2>1, <2>3, <2>4 DEF Log
<1>4. CASE Reach
  <2>1. UNCHANGED <<slot, condition, faulty, copied, runs>> /\ pc = "reach" /\ pc' = "trigger"
    BY <1>4 DEF Reach
  <2>2. slot \in Memory
    BY <1>0, Sizes DEF PlainTypes, Memory
  <2> DEFINE d == [mem[slot] EXCEPT !.reached = @ + 1]
  <2>3. d \in Canaries /\ d.triggered = mem[slot].triggered
    BY <1>0, <2>2 DEF PlainTypes, Canaries
  <2>4. mem' = mem \/ mem' = [mem EXCEPT ![slot] = d]
    <3>1. [mem EXCEPT ![slot].reached = @ + 1] = [mem EXCEPT ![slot] = d]
      BY <1>0, <2>2 DEF PlainTypes
    <3> QED BY <1>4, <3>1 DEF Reach
  <2> HIDE DEF d
  <2>5. PlainTypes'
    BY <1>0, <2>1, <2>2, <2>3, <2>4 DEF PlainTypes
  <2>6. \A k \in Slots : mem'[k].triggered <= mem[k].triggered
    <3>1. \A k \in Slots : mem[k].triggered \in Nat /\ k \in Memory
      BY <1>0, Sizes DEF PlainTypes, Canaries
    <3>2. \A k \in Slots : mem'[k].triggered = mem[k].triggered
      BY <1>0, <2>2, <2>3, <2>4, <3>1 DEF PlainTypes
    <3> QED BY <3>1, <3>2
  <2>7. Armed' => Armed
    BY <2>1 DEF Armed
  <2> QED BY <2>1, <2>5, <2>6, <2>7, NotCounting
<1>5. CASE Trigger /\ (faulty \/ ~condition)
  <2>1. UNCHANGED <<mem, slot, condition, faulty, copied, runs>> /\ pc = "trigger" /\ pc' = "check"
    BY <1>5 DEF Trigger
  <2>2. PlainTypes' /\ (Armed' => Armed)
    BY <1>0, <2>1 DEF PlainTypes, Armed
  <2> QED BY <1>0, <2>1, <2>2, CountsStay, NotCounting
<1>6. CASE Trigger /\ ~faulty /\ condition
  <2>1. /\ UNCHANGED <<slot, condition, faulty, copied, runs>> /\ pc = "trigger" /\ pc' = "check"
        /\ mem' = [mem EXCEPT ![slot].triggered = @ + 1]
    BY <1>6 DEF Trigger
  <2>2. slot \in Memory
    BY <1>0, Sizes DEF PlainTypes, Memory
  <2> DEFINE d == [mem[slot] EXCEPT !.triggered = @ + 1]
  <2>3. d \in Canaries
    BY <1>0, <2>2 DEF PlainTypes, Canaries
  <2>4. mem' = [mem EXCEPT ![slot] = d]
    BY <1>0, <2>1, <2>2 DEF PlainTypes
  <2> HIDE DEF d
  <2>5. PlainTypes'
    BY <1>0, <2>1, <2>2, <2>3, <2>4 DEF PlainTypes
  <2>6. /\ IsFiniteSet(Triggers') /\ Cardinality(Triggers') \in Nat
        /\ Cardinality(Triggers) \in Nat /\ Cardinality(Triggers') <= Cardinality(Triggers) + 1
    BY <1>0, <2>1, OneMoreTrigger DEF CountInv, Counted
  <2>7. Armed /\ ~Armed'
    BY <1>6, <2>1 DEF Armed
  <2> QED BY <1>0, <2>1, <2>5, <2>6, <2>7 DEF CountInv, Counted, PlainTypes
<1>7. CASE Check
  <2>1. /\ UNCHANGED <<mem, slot, condition, faulty, copied, runs>>
        /\ pc = "check" /\ pc' \in {"copy", "return"}
    BY <1>7 DEF Check, storage
  <2>2. PlainTypes' /\ (Armed' => Armed)
    BY <1>0, <2>1 DEF PlainTypes, Armed
  <2> QED BY <1>0, <2>1, <2>2, CountsStay, NotCounting
<1>8. CASE Copy
  <2>1. /\ UNCHANGED <<slot, condition, faulty, pc, runs>> /\ copied < BUFFERLEN
        /\ copied' = copied + 1
        /\ mem' = [mem EXCEPT ![BUFFERLEN + copied + 1] = mem[copied + 1]]
    BY <1>8 DEF Copy
  <2>2. copied + 1 \in Memory /\ BUFFERLEN + copied + 1 \in Memory
        /\ \A k \in Slots : BUFFERLEN + copied + 1 # k
    BY <1>0, <2>1, Sizes DEF PlainTypes, Memory, Slots
  <2>3. \A k \in Slots : mem'[k] = mem[k]
    BY <1>0, <2>1, <2>2, Sizes DEF PlainTypes
  <2>4. PlainTypes'
    BY <1>0, <2>1, <2>2, Sizes DEF PlainTypes
  <2>5. Armed' => Armed
    BY <2>1 DEF Armed
  <2> QED BY <1>0, <2>1, <2>3, <2>4, <2>5, CountsStay, NotCounting
<1>9. CASE Publish
  <2>1. UNCHANGED <<mem, slot, condition, faulty, copied, runs>> /\ pc = "copy" /\ pc' = "return"
    BY <1>9 DEF Publish
  <2>2. PlainTypes' /\ (Armed' => Armed)
    BY <1>0, <2>1 DEF PlainTypes, Armed
  <2> QED BY <1>0, <2>1, <2>2, CountsStay, NotCounting
<1>10. CASE Return
  <2>1. /\ UNCHANGED <<mem, runs>> /\ pc = "return" /\ pc' = "run"
        /\ faulty' = (faulty \/ condition)
        /\ slot' = 1 /\ condition' = FALSE /\ copied' = 0
    BY <1>10 DEF Return, Forget, storage
  <2>2. PlainTypes'
    <3>1. faulty' \in BOOLEAN
      BY <1>0, <2>1 DEF PlainTypes
    <3> QED BY <1>0, <2>1, <3>1, Ends DEF PlainTypes
  <2>3. Armed' => Armed
    BY <2>1 DEF Armed
  <2> QED BY <1>0, <2>1, <2>2, <2>3, CountsStay, NotCounting
<1>11. CASE Memset
  <2>1. UNCHANGED <<slot, condition, faulty, copied, runs, pc>> /\ mem' = [k \in Memory |-> Zero]
    BY <1>11 DEF Memset, target
  <2>2. PlainTypes' /\ (Armed' => Armed)
    BY <1>0, <2>1, Sizes DEF PlainTypes, Armed
  <2>3. \A k \in Slots : mem'[k].triggered <= mem[k].triggered
    <3>1. \A k \in Slots : mem[k].triggered \in Nat /\ mem'[k] = Zero
      BY <1>0, <2>1, Sizes DEF PlainTypes, Canaries
    <3> QED BY <3>1 DEF Zero
  <2> QED BY <2>1, <2>2, <2>3, NotCounting
<1>12. CASE UNCHANGED vars \/ Fetch \/ Truncate \/ Look \/ Read \/ Consume
  <2>1. UNCHANGED <<mem, slot, condition, faulty, copied, runs, pc>>
    BY <1>12 DEF vars, target, storage, Fetch, Truncate, Look, Read, Consume
  <2>2. PlainTypes' /\ (Armed' => Armed)
    BY <1>0, <2>1 DEF PlainTypes, Armed
  <2> QED BY <1>0, <2>1, <2>2, CountsStay, NotCounting
<1> QED BY <1>1, <1>2, <1>3, <1>4, <1>5, <1>6, <1>7, <1>8, <1>9, <1>10, <1>11, <1>12 DEF Next

\* However many canaries, processes, kills and polls, and even where the buffers
\* are too small for the canaries: a target process counts one trigger at most
\* (magma_log, magma_faulty).
THEOREM TriggersAreCountedOnce == Spec => []TriggersAreRuns
<1>1. CountInv => TriggersAreRuns
  BY DEF CountInv, Counted, TriggersAreRuns
<1> QED BY <1>1, CountInvInit, CountInvNext, PTL DEF Spec
=============================================================================
