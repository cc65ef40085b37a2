--------------------------- MODULE Campaign_proofs ---------------------------
(***************************************************************************)
(* No kill loses a saved test case, and the files of a session stand for   *)
(* its queue, for any number of instances, sessions, finds and trims.      *)
(*                                                                         *)
(* Three things are known of an instance at every step: which files its    *)
(* directory has (Filed), that the cases of a sync in progress are in      *)
(* memory (Scanned), and which of the two directories holds what was saved *)
(* (Safe).  Only the last is about kills: what a killed process leaves is  *)
(* what the next session starts from.                                      *)
(***************************************************************************)
EXTENDS Campaign, FiniteSetTheorems, TLAPS

File == [case : Cases, full : BOOLEAN]
FiniteIds == {S \in SUBSET Nat : IsFiniteSet(S)}
Dirs == UNION {[D -> File] : D \in FiniteIds}
Scans == [peer : Fuzzers, of : Nat, min : Nat, next : Nat,
          left : SUBSET (Nat \X Cases), done : SUBSET (Nat \X Cases), ran : SUBSET Cases]

\* The null values are not values.
Distinct == NoDir \notin Dirs /\ NoScan \notin Scans

Starting == {"clear", "read", "pivot"}
Running == {"fuzz", "sync", "create", "write", "recreate"}
Opened == {"pivot", "nuke"} \cup Running

TypeOK ==
  /\ pc \in [Fuzzers -> {"off", "nuke"} \cup Starting \cup Running]
  /\ in_place \in [Fuzzers -> BOOLEAN] /\ tainted \in [Fuzzers -> BOOLEAN]
  /\ mem \in [Fuzzers -> Seq(Cases)]
  /\ at \in [Fuzzers -> Nat] /\ starts \in [Fuzzers -> Nat]
  /\ trimmed \in [Fuzzers -> SUBSET Nat]
  /\ scan \in [Fuzzers -> Scans \cup {NoScan}]
  /\ queue \in [Fuzzers -> Dirs \cup {NoDir}]
  /\ resume \in [Fuzzers -> Dirs \cup {NoDir}]
  /\ synced \in [Fuzzers -> [Fuzzers -> Nat]]
  /\ kept \in [Fuzzers -> SUBSET Cases] /\ ran \in [Fuzzers -> SUBSET Cases]
  /\ lost \in [Fuzzers -> SUBSET Cases]

Ids(f) == 0 .. Len(mem[f]) - 1

\* The files of a session: one for each entry of memory, but for those that are
\* still to be linked or created, and the one a trim has unlinked; all but the
\* one that is being written have their contents.
Filed(f) ==
  /\ pc[f] \in Opened =>
       /\ queue[f] \in Dirs
       /\ \A i \in DOMAIN queue[f] :
            /\ i < Len(mem[f])
            /\ queue[f][i].case = mem[f][i + 1]
            /\ queue[f][i].full \/ (pc[f] = "write" /\ i = at[f])
  /\ pc[f] = "pivot" => \E n \in 0 .. Len(mem[f]) : DOMAIN queue[f] = 0 .. n - 1
  /\ pc[f] \in {"nuke", "fuzz", "sync", "write"} => DOMAIN queue[f] = Ids(f)
  /\ pc[f] = "create" => Len(mem[f]) > 0 /\ DOMAIN queue[f] = 0 .. Len(mem[f]) - 2
  /\ pc[f] = "write" => at[f] \in DOMAIN queue[f]
  /\ pc[f] = "recreate" => at[f] \in Ids(f) /\ DOMAIN queue[f] = Ids(f) \ {at[f]}

\* What a sync has run is in memory.
Scanned(f) ==
  /\ pc[f] \in {"off", "nuke"} \cup Starting => scan[f] = NoScan
  /\ pc[f] = "sync" => scan[f] \in Scans
  /\ scan[f] \in Scans => scan[f].ran \subseteq InMemory(f)

Held(f) == (kept[f] \cup ran[f]) \ lost[f]

\* What was saved is in queue while the instance works, in _resume while it
\* starts in place, and in both while _resume is deleted; a dead instance
\* leaves it in the directory that the next session will read.
Safe(f) ==
  /\ pc[f] = "pivot" /\ in_place[f] =>
       resume[f] \in Dirs /\ InMemory(f) = FullCases(resume[f])
  /\ pc[f] = "nuke" => resume[f] \in Dirs
  /\ ~tainted[f] =>
       /\ pc[f] = "off" =>
            /\ Held(f) \subseteq OnDisk(f)
            /\ Names(resume[f]) # {} => Held(f) \subseteq FullCases(resume[f])
       /\ pc[f] \in Starting /\ in_place[f] => Held(f) \subseteq FullCases(resume[f])
       /\ pc[f] \in Starting /\ ~in_place[f] => Held(f) = {} /\ Names(resume[f]) = {}
       /\ pc[f] = "nuke" => Held(f) \subseteq InMemory(f)
       /\ pc[f] \in Running => Held(f) \subseteq FullCases(queue[f]) /\ Names(resume[f]) = {}

Good(f) == Filed(f) /\ Scanned(f) /\ Safe(f)

Inv == TypeOK /\ \A f \in Fuzzers : Good(f)

---------------------------------------------------------------------------
(* Directories *)

LEMMA EmptyIsDir == EmptyDir \in Dirs /\ DOMAIN EmptyDir = {}
<1>1. {} \in FiniteIds
  BY FS_EmptySet DEF FiniteIds
<1>2. EmptyDir \in [{} -> File] /\ DOMAIN EmptyDir = {}
  BY DEF EmptyDir
<1> QED BY <1>1, <1>2 DEF Dirs

LEMMA DirHas ==
  ASSUME NEW dir \in Dirs
  PROVE  /\ DOMAIN dir \in SUBSET Nat /\ IsFiniteSet(DOMAIN dir)
         /\ dir \in [DOMAIN dir -> File]
         /\ \A i \in DOMAIN dir : dir[i].case \in Cases /\ dir[i].full \in BOOLEAN
BY DEF Dirs, FiniteIds, File

LEMMA PutIsDir ==
  ASSUME NEW dir \in Dirs, NEW i \in Nat, NEW c \in Cases, NEW full \in BOOLEAN
  PROVE  /\ Put(dir, i, c, full) \in Dirs
         /\ DOMAIN Put(dir, i, c, full) = DOMAIN dir \cup {i}
         /\ Put(dir, i, c, full)[i] = [case |-> c, full |-> full]
         /\ \A j \in DOMAIN dir : j # i => Put(dir, i, c, full)[j] = dir[j]
<1> DEFINE D == DOMAIN dir \cup {i}
<1>1. D \in FiniteIds
  BY DirHas, FS_AddElement DEF FiniteIds
<1>2. Put(dir, i, c, full) \in [D -> File]
  BY DirHas DEF Put, File
<1> QED BY <1>1, <1>2 DEF Put, Dirs

LEMMA UnlinkIsDir ==
  ASSUME NEW dir \in Dirs, NEW i
  PROVE  /\ Unlink(dir, i) \in Dirs
         /\ DOMAIN Unlink(dir, i) = DOMAIN dir \ {i}
         /\ \A j \in DOMAIN dir : j # i => Unlink(dir, i)[j] = dir[j]
<1> DEFINE D == DOMAIN dir \ {i}
<1>1. D \in FiniteIds
  BY DirHas, FS_RemoveElement DEF FiniteIds
<1>2. Unlink(dir, i) \in [D -> File]
  BY DirHas DEF Unlink
<1> QED BY <1>1, <1>2 DEF Unlink, Dirs

Rank(ids, i) == Cardinality({j \in ids : j < i})

\* The ranks of finitely many numbers are all numbers below their count.
LEMMA RankBounds ==
  ASSUME NEW ids \in SUBSET Nat, IsFiniteSet(ids), NEW i \in ids
  PROVE  Rank(ids, i) \in 0 .. Cardinality(ids) - 1
<1> DEFINE below == {j \in ids : j < i}
<1>1. below \in SUBSET ids /\ i \notin below
  OBVIOUS
<1>2. /\ IsFiniteSet(below) /\ Cardinality(below) <= Cardinality(ids)
      /\ Cardinality(ids) = Cardinality(below) => ids = below
  BY <1>1, FS_Subset
<1>3. Cardinality(below) \in Nat /\ Cardinality(ids) \in Nat
  BY <1>2, FS_CardinalityType
<1>4. Cardinality(ids) # Cardinality(below)
  BY <1>1, <1>2
<1>5. Rank(ids, i) = Cardinality(below)
  BY DEF Rank
<1> HIDE DEF below
<1> QED BY <1>2, <1>3, <1>4, <1>5

LEMMA RankGrows ==
  ASSUME NEW ids \in SUBSET Nat, IsFiniteSet(ids), NEW i \in ids, NEW j \in ids, i < j
  PROVE  Rank(ids, i) < Rank(ids, j)
<1> DEFINE S == {x \in ids : x < i}
           T == {x \in ids : x < j}
<1>1. T \in SUBSET ids /\ i \in T /\ i \notin S
  OBVIOUS
<1>0. S \in SUBSET T
  <2>1. \A x \in ids : x < i => x < j
    OBVIOUS
  <2> QED BY <2>1
<1>2. IsFiniteSet(T)
  BY <1>1, FS_Subset
<1>3. Cardinality(S) <= Cardinality(T) /\ (Cardinality(T) = Cardinality(S) => T = S)
  BY <1>0, <1>2, FS_Subset
<1>4. Cardinality(T) # Cardinality(S)
  BY <1>1, <1>3
<1>5. Rank(ids, i) = Cardinality(S) /\ Rank(ids, j) = Cardinality(T)
  BY DEF Rank
<1>6. Rank(ids, i) \in Int /\ Rank(ids, j) \in Int
  BY RankBounds, FS_CardinalityType
<1> HIDE DEF S, T
<1> QED BY <1>3, <1>4, <1>5, <1>6

LEMMA RanksAreDistinct ==
  ASSUME NEW ids \in SUBSET Nat, IsFiniteSet(ids), NEW i \in ids, NEW j \in ids,
         Rank(ids, i) = Rank(ids, j)
  PROVE  i = j
<1>1. CASE i < j
  BY <1>1, RankGrows, RankBounds, FS_CardinalityType
<1>2. CASE j < i
  BY <1>2, RankGrows, RankBounds, FS_CardinalityType
<1> QED BY <1>1, <1>2

LEMMA RanksAreAll ==
  ASSUME NEW ids \in SUBSET Nat, IsFiniteSet(ids), NEW k \in 1 .. Cardinality(ids)
  PROVE  \E i \in ids : Rank(ids, i) = k - 1
<1> DEFINE n == Cardinality(ids)
           rank == [i \in ids |-> Rank(ids, i)]
<1>1. n \in Nat
  BY FS_CardinalityType
<1>2. rank \in Injection(ids, 0 .. n - 1)
  BY RankBounds, RanksAreDistinct DEF Injection, IsInjective
<1>3. IsFiniteSet(0 .. n - 1) /\ Cardinality(0 .. n - 1) = n
  <2> HIDE DEF n
  <2>1. n - 1 \in Int /\ (0 > n - 1 => n = 0) /\ n - 1 - 0 + 1 = n
    BY <1>1
  <2> QED BY <2>1, FS_Interval
<1> HIDE DEF rank
<1>4. Cardinality(ids) = Cardinality(0 .. n - 1) <=> rank \in Surjection(ids, 0 .. n - 1)
  BY <1>2, <1>3, FS_Injection
<1>5. \A t \in 0 .. n - 1 : \E i \in ids : rank[i] = t
  BY <1>3, <1>4 DEF Surjection
<1>6. k - 1 \in 0 .. n - 1
  BY <1>1
<1> QED BY <1>5, <1>6 DEF rank

\* read_testcases comes upon every file of the directory, and no other.
LEMMA ListedAll ==
  ASSUME Distinct, NEW dir \in Dirs
  PROVE  /\ Listed(dir) \in Seq(Cases)
         /\ {Listed(dir)[k] : k \in 1 .. Len(Listed(dir))} = FullCases(dir)
<1> DEFINE ids == FullIds(dir)
           n == Cardinality(ids)
           Nth(k) == CHOOSE i \in ids : Rank(ids, i) = k - 1
<1>1. ids \in SUBSET DOMAIN dir /\ ids \in SUBSET Nat
  BY DirHas DEF FullIds, Distinct
<1>2. IsFiniteSet(ids)
  BY <1>1, DirHas, FS_Subset
<1>3. n \in Nat
  BY <1>2, FS_CardinalityType
<1>4. Listed(dir) = [k \in 1 .. n |-> dir[Nth(k)].case]
  BY DEF Listed, Rank
<1> HIDE DEF ids, n
<1>5. \A k \in 1 .. n : Nth(k) \in ids /\ Rank(ids, Nth(k)) = k - 1
  <2> TAKE k \in 1 .. n
  <2>1. \E i \in ids : Rank(ids, i) = k - 1
    BY <1>1, <1>2, RanksAreAll DEF n
  <2> QED BY <2>1
<1>6. ASSUME NEW i \in ids
      PROVE  Rank(ids, i) + 1 \in 1 .. n /\ Nth(Rank(ids, i) + 1) = i
  <2>1. Rank(ids, i) \in 0 .. n - 1
    BY <1>1, <1>2, RankBounds DEF n
  <2>2. PICK k \in 1 .. n : k = Rank(ids, i) + 1
    BY <1>3, <2>1
  <2>3. Nth(k) \in ids /\ Rank(ids, Nth(k)) = Rank(ids, i)
    BY <1>5, <2>1, <2>2
  <2>4. Nth(k) = i
    BY <1>1, <1>2, <2>3, RanksAreDistinct
  <2> QED BY <2>2, <2>4
<1> HIDE DEF Nth
<1>7. Listed(dir) \in [1 .. n -> Cases]
  BY <1>1, <1>4, <1>5, DirHas
<1>8. Listed(dir) \in Seq(Cases) /\ Len(Listed(dir)) = n
  BY <1>3, <1>7
<1>9. \A c : c \in {Listed(dir)[k] : k \in 1 .. n} <=> c \in FullCases(dir)
  <2>1. ASSUME NEW k \in 1 .. n PROVE Listed(dir)[k] \in FullCases(dir)
    BY <1>4, <1>5 DEF FullCases, ids
  <2>2. ASSUME NEW c \in FullCases(dir) PROVE c \in {Listed(dir)[k] : k \in 1 .. n}
    <3>1. PICK i \in ids : c = dir[i].case
      BY DEF FullCases, ids
    <3> QED BY <1>4, <1>6, <3>1
  <2> QED BY <2>1, <2>2
<1> QED BY <1>8, <1>9

LEMMA DirOf ==
  ASSUME Distinct, NEW dir \in Dirs
  PROVE  /\ Names(dir) = {<<i, dir[i].case>> : i \in DOMAIN dir}
         /\ Names(dir) = {} <=> DOMAIN dir = {}
         /\ FullIds(dir) = {i \in DOMAIN dir : dir[i].full}
         /\ FullCases(dir) \subseteq Cases
<1>1. dir # NoDir
  BY DEF Distinct
<1>2. /\ Names(dir) = {<<i, dir[i].case>> : i \in DOMAIN dir}
      /\ FullIds(dir) = {i \in DOMAIN dir : dir[i].full}
  BY <1>1 DEF Names, FullIds
<1>3. Names(dir) = {} <=> DOMAIN dir = {}
  BY <1>2
<1>4. FullCases(dir) \subseteq Cases
  BY <1>2, DirHas DEF FullCases
<1> QED BY <1>2, <1>3, <1>4

LEMMA NoDirOf == Names(NoDir) = {} /\ FullIds(NoDir) = {} /\ FullCases(NoDir) = {}
BY DEF Names, FullIds, FullCases

---------------------------------------------------------------------------
(* What a step of another instance leaves alone *)

Same(g) ==
  /\ pc'[g] = pc[g] /\ in_place'[g] = in_place[g] /\ mem'[g] = mem[g] /\ at'[g] = at[g]
  /\ scan'[g] = scan[g] /\ queue'[g] = queue[g] /\ resume'[g] = resume[g]
  /\ kept'[g] = kept[g] /\ ran'[g] = ran[g] /\ lost'[g] = lost[g] /\ tainted'[g] = tainted[g]

Keeps(f) == TypeOK' /\ Good(f)' /\ \A g \in Fuzzers \ {f} : Same(g)

LEMMA OthersKeep ==
  ASSUME NEW g \in Fuzzers, Same(g), Good(g)
  PROVE  Good(g)'
<1>1. Filed(g)'
  BY DEF Good, Same, Filed, Ids
<1>2. Scanned(g)'
  BY DEF Good, Same, Scanned, InMemory
<1>3. Safe(g)'
  BY DEF Good, Same, Safe, InMemory, Held, OnDisk
<1> QED BY <1>1, <1>2, <1>3 DEF Good

LEMMA InitGood == Distinct /\ Init => Inv
<1> SUFFICES ASSUME Distinct, Init PROVE Inv
  OBVIOUS
<1>1. TypeOK
  BY DEF Init, TypeOK
<1>2. ASSUME NEW f \in Fuzzers PROVE Good(f)
  <2>1. Filed(f)
    BY DEF Init, Filed, Opened, Running
  <2>2. Scanned(f)
    BY DEF Init, Scanned, Distinct
  <2>3. Safe(f)
    BY NoDirOf DEF Init, Safe, Held, OnDisk, Starting, Running
  <2> QED BY <2>1, <2>2, <2>3 DEF Good
<1> QED BY <1>1, <1>2 DEF Inv

---------------------------------------------------------------------------
(* Start and end of a session *)

LEMMA StartInPlaceKeeps ==
  ASSUME Distinct, NEW f \in Fuzzers, TypeOK, Good(f), StartInPlace(f)
  PROVE  Keeps(f)
<1> USE DEF StartInPlace, Go, history
<1>1. /\ resume' \in [Fuzzers -> Dirs \cup {NoDir}] /\ queue' \in [Fuzzers -> Dirs \cup {NoDir}]
      /\ \A g \in Fuzzers \ {f} : resume'[g] = resume[g] /\ queue'[g] = queue[g]
  BY DEF TypeOK, MoveQueueAside
<1>2. TypeOK'
  <2>1. /\ starts' \in [Fuzzers -> Nat] /\ in_place' \in [Fuzzers -> BOOLEAN]
        /\ pc' \in [Fuzzers -> {"off", "nuke"} \cup Starting \cup Running]
    BY DEF TypeOK, Starting
  <2> QED BY <1>1, <2>1 DEF TypeOK
<1>3. \A g \in Fuzzers \ {f} : Same(g)
  BY <1>1 DEF TypeOK, Same
<1>4. pc[f] = "off" /\ pc'[f] = "clear" /\ in_place'[f]
  BY DEF TypeOK
<1>5. Filed(f)' /\ Scanned(f)'
  <2>1. scan[f] = NoScan /\ scan'[f] = scan[f]
    BY <1>4 DEF Good, Scanned
  <2>2. Filed(f)'
    BY <1>4 DEF Filed, Opened, Running
  <2> QED BY <1>4, <2>1, <2>2 DEF Scanned, Distinct
<1>6. ASSUME ~tainted[f] PROVE Held(f) \subseteq FullCases(resume'[f])
  <2>1. /\ Held(f) \subseteq FullCases(queue[f]) \cup FullCases(resume[f])
        /\ Names(resume[f]) # {} => Held(f) \subseteq FullCases(resume[f])
    BY <1>4, <1>6 DEF Good, Safe, OnDisk
  <2>2. CASE queue[f] # NoDir /\ (resume[f] = NoDir \/ DOMAIN resume[f] = {})
    <3>1. FullCases(resume[f]) = {}
      BY <2>2, NoDirOf, DirOf DEF TypeOK, FullCases
    <3>2. resume'[f] = queue[f]
      BY <2>2 DEF MoveQueueAside, TypeOK
    <3> QED BY <2>1, <3>1, <3>2
  <2>3. CASE queue[f] = NoDir
    <3>1. resume'[f] = resume[f]
      BY <2>3 DEF MoveQueueAside
    <3> QED BY <2>1, <2>3, <3>1, NoDirOf
  <2>4. CASE resume[f] # NoDir /\ DOMAIN resume[f] # {}
    <3>1. resume'[f] = resume[f]
      BY <2>4 DEF MoveQueueAside
    <3>2. Names(resume[f]) # {}
      BY <2>4, DirOf DEF TypeOK
    <3> QED BY <2>1, <3>1, <3>2
  <2> QED BY <2>2, <2>3, <2>4
<1>7. Safe(f)'
  BY <1>4, <1>6 DEF Safe, Held, Starting, Running
<1> QED BY <1>2, <1>3, <1>5, <1>7 DEF Keeps, Good

LEMMA StartAfreshKeeps ==
  ASSUME Distinct, NEW f \in Fuzzers, TypeOK, Good(f), StartAfresh(f)
  PROVE  Keeps(f)
<1> USE DEF StartAfresh, Go
<1>1. TypeOK'
  BY DEF TypeOK, Starting
<1>2. \A g \in Fuzzers \ {f} : Same(g)
  BY DEF TypeOK, Same
<1>3. /\ pc[f] = "off" /\ pc'[f] = "clear" /\ ~in_place'[f]
      /\ kept'[f] = {} /\ ran'[f] = {} /\ tainted'[f] = (Names(resume[f]) # {})
  BY DEF TypeOK
<1>4. Filed(f)' /\ Scanned(f)'
  BY <1>3 DEF TypeOK, Good, Filed, Scanned, Opened, Running, Starting, InMemory
<1>5. Safe(f)'
  BY <1>3 DEF Safe, Held, Starting, Running
<1> QED BY <1>1, <1>2, <1>4, <1>5 DEF Keeps, Good

LEMMA ClearQueueKeeps ==
  ASSUME Distinct, NEW f \in Fuzzers, TypeOK, Good(f), ClearQueue(f)
  PROVE  Keeps(f)
<1> USE DEF ClearQueue, Go, history
<1>1. queue' \in [Fuzzers -> Dirs \cup {NoDir}] /\ \A g \in Fuzzers \ {f} : queue'[g] = queue[g]
  <2>1. CASE Names(queue[f]) = {} /\ queue' = [queue EXCEPT ![f] = NoDir]
    BY <2>1 DEF TypeOK
  <2>2. ASSUME queue[f] # NoDir, NEW i, queue' = [queue EXCEPT ![f] = Unlink(@, i)]
        PROVE  <1>1!1 /\ <1>1!2
    <3>1. Unlink(queue[f], i) \in Dirs
      BY <2>2, UnlinkIsDir DEF TypeOK
    <3> QED BY <2>2, <3>1 DEF TypeOK
  <2> QED BY <2>1, <2>2
<1>2. TypeOK'
  BY <1>1 DEF TypeOK, Starting
<1>3. \A g \in Fuzzers \ {f} : Same(g)
  BY <1>1 DEF TypeOK, Same
<1>4. pc[f] = "clear" /\ pc'[f] \in {"clear", "read"}
  BY DEF TypeOK
<1>5. Filed(f)' /\ Scanned(f)'
  BY <1>4 DEF TypeOK, Good, Filed, Scanned, Opened, Running, Starting, InMemory
<1>6. Safe(f)'
  BY <1>4 DEF Good, Safe, Held, Starting, Running
<1> QED BY <1>2, <1>3, <1>5, <1>6 DEF Keeps, Good

LEMMA ReadTestcasesKeeps ==
  ASSUME Distinct, NEW f \in Fuzzers, TypeOK, Good(f), ReadTestcases(f)
  PROVE  Keeps(f)
<1> USE DEF ReadTestcases, Go, history
<1> DEFINE found == IF in_place[f] THEN Listed(resume[f]) ELSE Seeds
<1>0. Listed(NoDir) = <<>>
  BY NoDirOf, FS_EmptySet DEF Listed
<1>1. found \in Seq(Cases)
  <2>1. CASE in_place[f]
    <3>1. CASE resume[f] \in Dirs
      BY <2>1, <3>1, ListedAll
    <3>2. CASE resume[f] = NoDir
      BY <1>0, <2>1, <3>2
    <3> QED BY <3>1, <3>2 DEF TypeOK
  <2>2. CASE ~in_place[f]
    BY <2>2, SeedsAssumption
  <2> QED BY <2>1, <2>2
<1>2. /\ pc[f] = "read" /\ pc'[f] = IF found = <<>> THEN "off" ELSE "pivot"
      /\ mem'[f] = found /\ queue'[f] = EmptyDir
  BY DEF TypeOK
<1> HIDE DEF found
<1>3. TypeOK'
  BY <1>1, <1>2, EmptyIsDir DEF TypeOK, Starting, found
<1>4. \A g \in Fuzzers \ {f} : Same(g)
  BY DEF TypeOK, Same
<1>5. Filed(f)'
  <2>1. \E n \in 0 .. Len(mem'[f]) : DOMAIN queue'[f] = 0 .. n - 1
    <3>1. 0 \in 0 .. Len(mem'[f]) /\ DOMAIN queue'[f] = 0 .. 0 - 1
      BY <1>1, <1>2, EmptyIsDir
    <3> QED BY <3>1
  <2>2. queue'[f] \in Dirs /\ DOMAIN queue'[f] = {}
    BY <1>2, EmptyIsDir
  <2> QED BY <1>2, <2>1, <2>2 DEF Filed, Opened, Running
<1>9. Scanned(f)'
  <2>1. scan'[f] = NoScan /\ scan'[f] \notin Scans
    BY <1>2 DEF TypeOK, Good, Scanned, Starting, Distinct
  <2> QED BY <1>2, <2>1 DEF Scanned
<1>6. ASSUME in_place[f], found # <<>>
      PROVE  resume[f] \in Dirs /\ InMemory(f)' = FullCases(resume[f])
  <2>1. resume[f] \in Dirs /\ mem'[f] = Listed(resume[f])
    BY <1>0, <1>2, <1>6 DEF TypeOK, found
  <2> QED BY <2>1, ListedAll DEF InMemory
<1>7. ASSUME found = <<>> PROVE Safe(f)'
  <2>1. in_place[f]
    BY <1>7, SeedsAssumption DEF found
  <2>2. FullCases(resume[f]) = {}
    <3>1. CASE resume[f] \in Dirs
      <4>1. mem'[f] = Listed(resume[f]) /\ Len(mem'[f]) = 0
        BY <1>2, <1>7, <2>1 DEF found
      <4>2. {Listed(resume[f])[k] : k \in 1 .. 0} = FullCases(resume[f])
        BY <3>1, <4>1, ListedAll
      <4> QED BY <4>2
    <3>2. CASE resume[f] = NoDir
      BY <3>2, NoDirOf
    <3> QED BY <3>1, <3>2 DEF TypeOK
  <2>3. ~tainted[f] => Held(f) = {}
    BY <1>2, <2>1, <2>2 DEF Good, Safe, Starting
  <2>4. /\ pc'[f] = "off" /\ tainted'[f] = tainted[f]
        /\ kept'[f] = kept[f] /\ ran'[f] = ran[f] /\ lost'[f] = lost[f]
    BY <1>2, <1>7
  <2> QED BY <2>3, <2>4 DEF Safe, Held, Starting, Running
<1>8. ASSUME found # <<>> PROVE Safe(f)'
  <2>1. /\ pc'[f] = "pivot" /\ tainted'[f] = tainted[f]
        /\ kept'[f] = kept[f] /\ ran'[f] = ran[f] /\ lost'[f] = lost[f]
        /\ in_place'[f] = in_place[f] /\ resume'[f] = resume[f]
    BY <1>2, <1>8
  <2> QED BY <1>2, <1>6, <1>8, <2>1 DEF Good, Safe, Held, Starting, Running
<1> QED BY <1>3, <1>4, <1>5, <1>7, <1>8, <1>9 DEF Keeps, Good

\* A file that is added or removed, seen from the cases on disk.
LEMMA CasesOfPut ==
  ASSUME Distinct, NEW dir \in Dirs, NEW i \in Nat, NEW c \in Cases, NEW full \in BOOLEAN
  PROVE  /\ i \notin DOMAIN dir => FullCases(dir) \subseteq FullCases(Put(dir, i, c, full))
         /\ full => c \in FullCases(Put(dir, i, c, full))
         /\ i \in DOMAIN dir /\ ~dir[i].full =>
              FullCases(dir) \subseteq FullCases(Put(dir, i, c, full))
<1> DEFINE new == Put(dir, i, c, full)
<1>1. /\ new \in Dirs /\ DOMAIN new = DOMAIN dir \cup {i}
      /\ new[i] = [case |-> c, full |-> full]
      /\ \A j \in DOMAIN dir : j # i => new[j] = dir[j]
  BY PutIsDir
<1> HIDE DEF new
<1>2. FullIds(dir) = {j \in DOMAIN dir : dir[j].full} /\ FullIds(new) = {j \in DOMAIN new : new[j].full}
  BY <1>1, DirOf
<1>3. full => c \in FullCases(new)
  BY <1>1, <1>2 DEF FullCases
<1>4. ASSUME i \notin DOMAIN dir \/ ~dir[i].full
      PROVE  FullCases(dir) \subseteq FullCases(new)
  <2> SUFFICES ASSUME NEW j \in FullIds(dir) PROVE dir[j].case \in FullCases(new)
    BY DEF FullCases
  <2>1. j \in FullIds(new) /\ new[j] = dir[j]
    BY <1>1, <1>2, <1>4
  <2> QED BY <2>1 DEF FullCases
<1> QED BY <1>3, <1>4 DEF new

\* The same of the directory of an instance.
LEMMA PutHere ==
  ASSUME Distinct, NEW f, queue[f] \in Dirs,
         NEW i \in Nat, NEW c \in Cases, NEW full \in BOOLEAN,
         queue'[f] = Put(queue[f], i, c, full)
  PROVE  /\ queue'[f] \in Dirs
         /\ DOMAIN queue'[f] = DOMAIN queue[f] \cup {i}
         /\ queue'[f][i] = [case |-> c, full |-> full]
         /\ \A j \in DOMAIN queue[f] : j # i => queue'[f][j] = queue[f][j]
         /\ i \notin DOMAIN queue[f] => FullCases(queue[f]) \subseteq FullCases(queue'[f])
         /\ full => c \in FullCases(queue'[f])
         /\ i \in DOMAIN queue[f] /\ ~queue[f][i].full =>
              FullCases(queue[f]) \subseteq FullCases(queue'[f])
<1>1. PICK dir \in Dirs : dir = queue[f]
  OBVIOUS
<1>2. queue'[f] = Put(dir, i, c, full)
  BY <1>1
<1>3. /\ Put(dir, i, c, full) \in Dirs /\ DOMAIN Put(dir, i, c, full) = DOMAIN dir \cup {i}
      /\ Put(dir, i, c, full)[i] = [case |-> c, full |-> full]
      /\ \A j \in DOMAIN dir : j # i => Put(dir, i, c, full)[j] = dir[j]
  BY PutIsDir
<1>4. /\ i \notin DOMAIN dir => FullCases(dir) \subseteq FullCases(Put(dir, i, c, full))
      /\ full => c \in FullCases(Put(dir, i, c, full))
      /\ i \in DOMAIN dir /\ ~dir[i].full =>
           FullCases(dir) \subseteq FullCases(Put(dir, i, c, full))
  BY CasesOfPut
<1> QED BY <1>1, <1>2, <1>3, <1>4

\* When every file is full, the cases on disk are the cases in memory.
LEMMA FullQueue ==
  ASSUME Distinct, NEW f \in Fuzzers, TypeOK, Good(f), pc[f] \in {"nuke", "fuzz", "sync"}
  PROVE  FullCases(queue[f]) = InMemory(f)
<1>1. /\ queue[f] \in Dirs /\ DOMAIN queue[f] = Ids(f)
      /\ \A i \in Ids(f) : queue[f][i].case = mem[f][i + 1] /\ queue[f][i].full
  BY DEF Good, Filed, Opened, Running
<1>2. FullIds(queue[f]) = Ids(f)
  BY <1>1, DirOf
<1>3. Len(mem[f]) \in Nat
  BY DEF TypeOK
<1>4. ASSUME NEW i \in Ids(f) PROVE queue[f][i].case \in InMemory(f)
  <2>1. i + 1 \in 1 .. Len(mem[f])
    BY <1>3 DEF Ids
  <2> QED BY <1>1, <2>1 DEF InMemory
<1>5. ASSUME NEW k \in 1 .. Len(mem[f]) PROVE mem[f][k] \in FullCases(queue[f])
  <2>1. k - 1 \in Ids(f) /\ (k - 1) + 1 = k
    BY <1>3 DEF Ids
  <2> QED BY <1>1, <1>2, <2>1 DEF FullCases
<1> QED BY <1>2, <1>4, <1>5 DEF FullCases, InMemory

LEMMA PivotInputKeeps ==
  ASSUME Distinct, NEW f \in Fuzzers, TypeOK, Good(f), PivotInput(f)
  PROVE  Keeps(f)
<1> USE DEF PivotInput, Go
<1> DEFINE id == Cardinality(DOMAIN queue[f])
<1>1. pc[f] = "pivot" /\ queue[f] \in Dirs /\ Len(mem[f]) \in Nat
  BY DEF TypeOK, Good, Filed, Opened, Running
<1>2. id \in 0 .. Len(mem[f]) /\ DOMAIN queue[f] = 0 .. id - 1
  <2>1. PICK n \in 0 .. Len(mem[f]) : DOMAIN queue[f] = 0 .. n - 1
    BY <1>1 DEF Good, Filed
  <2>2. n \in Nat /\ n - 1 \in Int /\ (0 > n - 1 => n = 0) /\ n - 1 - 0 + 1 = n
    BY <1>1, <2>1
  <2>3. Cardinality(0 .. n - 1) = n
    BY <2>2, FS_Interval
  <2> QED BY <2>1, <2>3
<1>3. scan[f] = NoScan /\ scan[f] \notin Scans
  BY <1>1 DEF Good, Scanned, Starting, Distinct
<1>4. \A i \in DOMAIN queue[f] : queue[f][i].case = mem[f][i + 1] /\ queue[f][i].full
  BY <1>1 DEF Good, Filed, Opened, Running
<1> HIDE DEF id
<1>5. CASE id < Len(mem[f])
  <2>1. mem[f][id + 1] \in Cases /\ id \in Nat
    BY <1>1, <1>2, <1>5 DEF TypeOK
  <2>2. queue' = [queue EXCEPT ![f] = Put(@, id, mem[f][id + 1], TRUE)] /\ UNCHANGED <<pc, kept>>
    BY <1>5 DEF id
  <2>3. /\ queue'[f] \in Dirs
        /\ DOMAIN queue'[f] = DOMAIN queue[f] \cup {id}
        /\ queue'[f][id] = [case |-> mem[f][id + 1], full |-> TRUE]
        /\ \A j \in DOMAIN queue[f] : j # id => queue'[f][j] = queue[f][j]
    <3>1. PICK c \in Cases : c = mem[f][id + 1]
      BY <2>1
    <3>2. queue'[f] = Put(queue[f], id, c, TRUE)
      BY <2>2, <3>1 DEF TypeOK
    <3> HIDE DEF PivotInput
    <3>3. /\ queue'[f] \in Dirs
          /\ DOMAIN queue'[f] = DOMAIN queue[f] \cup {id}
          /\ queue'[f][id] = [case |-> c, full |-> TRUE]
          /\ \A j \in DOMAIN queue[f] : j # id => queue'[f][j] = queue[f][j]
      BY <1>1, <2>1, <3>2, PutHere
    <3> QED BY <3>1, <3>3
  <2>4. TypeOK'
    BY <2>2, <2>3 DEF TypeOK
  <2>5. \A g \in Fuzzers \ {f} : Same(g)
    BY <2>2 DEF TypeOK, Same
  <2>6. pc'[f] = "pivot" /\ mem'[f] = mem[f]
    BY <1>1, <2>2 DEF TypeOK
  <2>7. Filed(f)'
    <3>1. DOMAIN queue'[f] = 0 .. (id + 1) - 1 /\ id + 1 \in 0 .. Len(mem[f])
      BY <1>1, <1>2, <1>5, <2>3
    <3>2. \E n \in 0 .. Len(mem[f]) : DOMAIN queue'[f] = 0 .. n - 1
      BY <3>1
    <3>3. \A i \in DOMAIN queue'[f] :
            i < Len(mem[f]) /\ queue'[f][i].case = mem[f][i + 1] /\ queue'[f][i].full
      BY <1>1, <1>2, <1>4, <1>5, <2>3
    <3> QED BY <2>3, <2>6, <3>2, <3>3 DEF Filed, Opened, Running
  <2>8. Scanned(f)'
    BY <1>3, <2>6 DEF Scanned
  <2>9. Safe(f)'
    <3>1. /\ kept'[f] = kept[f] /\ ran'[f] = ran[f] /\ lost'[f] = lost[f]
          /\ resume'[f] = resume[f] /\ in_place'[f] = in_place[f] /\ tainted'[f] = tainted[f]
      BY <2>2
    <3> HIDE DEF PivotInput
    <3>2. Held(f)' = Held(f) /\ InMemory(f)' = InMemory(f)
      BY <2>6, <3>1 DEF Held, InMemory
    <3> QED BY <1>1, <2>6, <3>1, <3>2 DEF Good, Safe, Starting, Running
  <2> QED BY <2>4, <2>5, <2>7, <2>8, <2>9 DEF Keeps, Good
<1>6. CASE ~(id < Len(mem[f]))
  <2>1. /\ UNCHANGED queue /\ pc' = [pc EXCEPT ![f] = IF in_place[f] THEN "nuke" ELSE "fuzz"]
        /\ kept' = [kept EXCEPT ![f] = @ \cup InMemory(f)]
    BY <1>6 DEF id
  <2>2. InMemory(f) \subseteq Cases
    BY DEF InMemory, TypeOK
  <2>3. TypeOK'
    BY <2>1, <2>2 DEF TypeOK, Running
  <2>4. \A g \in Fuzzers \ {f} : Same(g)
    BY <2>1 DEF TypeOK, Same
  <2>5. /\ pc'[f] = IF in_place[f] THEN "nuke" ELSE "fuzz"
        /\ kept'[f] = kept[f] \cup InMemory(f)
        /\ queue'[f] = queue[f] /\ mem'[f] = mem[f] /\ resume'[f] = resume[f]
        /\ scan'[f] = scan[f] /\ ran'[f] = ran[f] /\ lost'[f] = lost[f] /\ tainted'[f] = tainted[f]
    BY <2>1 DEF TypeOK
  <2>6. DOMAIN queue[f] = Ids(f)
    BY <1>1, <1>2, <1>6 DEF Ids
  <2>7. Filed(f)'
    BY <1>1, <1>4, <2>5, <2>6 DEF Good, Filed, Opened, Running, Ids
  <2>8. Scanned(f)'
    BY <1>3, <2>5 DEF Scanned, Distinct
  <2>9. FullCases(queue[f]) = InMemory(f)
    <3>1. FullIds(queue[f]) = Ids(f)
      BY <1>1, <1>4, <2>6, DirOf
    <3>2. ASSUME NEW i \in Ids(f) PROVE queue[f][i].case \in InMemory(f)
      <4>1. i + 1 \in 1 .. Len(mem[f])
        BY <1>1 DEF Ids
      <4> QED BY <1>4, <2>6, <4>1 DEF InMemory
    <3>3. ASSUME NEW k \in 1 .. Len(mem[f]) PROVE mem[f][k] \in FullCases(queue[f])
      <4>1. k - 1 \in Ids(f) /\ (k - 1) + 1 = k
        BY <1>1 DEF Ids
      <4> QED BY <1>4, <2>6, <3>1, <4>1 DEF FullCases
    <3> QED BY <3>1, <3>2, <3>3 DEF FullCases, InMemory
  <2>10. Safe(f)'
    <3>1. CASE in_place[f]
      <4>1. resume[f] \in Dirs /\ InMemory(f) = FullCases(resume[f])
        BY <1>1, <3>1 DEF Good, Safe
      <4>2. ~tainted[f] => Held(f) \subseteq InMemory(f)
        BY <1>1, <3>1, <4>1 DEF Good, Safe, Starting
      <4> QED BY <2>5, <3>1, <4>1, <4>2 DEF Safe, Held, InMemory, Starting, Running
    <3>2. CASE ~in_place[f]
      <4>1. ~tainted[f] => Held(f) = {} /\ Names(resume[f]) = {}
        BY <1>1, <3>2 DEF Good, Safe, Starting
      <4> QED BY <2>5, <2>9, <3>2, <4>1 DEF Safe, Held, Starting, Running
    <3> QED BY <3>1, <3>2
  <2> QED BY <2>3, <2>4, <2>7, <2>8, <2>10 DEF Keeps, Good
<1> QED BY <1>5, <1>6

LEMMA NukeResumeKeeps ==
  ASSUME Distinct, NEW f \in Fuzzers, TypeOK, Good(f), NukeResume(f)
  PROVE  Keeps(f)
<1> USE DEF NukeResume, Go, history
<1>1. pc[f] = "nuke" /\ resume[f] \in Dirs
  BY DEF Good, Safe
<1>2. FullCases(queue[f]) = InMemory(f)
  BY <1>1, FullQueue
<1>3. ASSUME NEW i, resume' = [resume EXCEPT ![f] = Unlink(@, i)], UNCHANGED pc
      PROVE  Keeps(f)
  <2>1. Unlink(resume[f], i) \in Dirs
    BY <1>1, UnlinkIsDir
  <2>2. TypeOK'
    BY <1>3, <2>1 DEF TypeOK
  <2>3. \A g \in Fuzzers \ {f} : Same(g)
    BY <1>3 DEF TypeOK, Same
  <2>4. /\ pc'[f] = "nuke" /\ resume'[f] \in Dirs
        /\ scan'[f] = scan[f] /\ mem'[f] = mem[f] /\ queue'[f] = queue[f]
    BY <1>1, <1>3, <2>1 DEF TypeOK
  <2>5. Filed(f)' /\ Scanned(f)'
    BY <1>1, <2>4 DEF Good, Filed, Scanned, Opened, Running, Ids, InMemory
  <2>6. Safe(f)'
    BY <1>1, <2>4 DEF Good, Safe, Held, InMemory, Starting, Running
  <2> QED BY <2>2, <2>3, <2>5, <2>6 DEF Keeps, Good
<1>4. ASSUME resume' = [resume EXCEPT ![f] = NoDir], pc' = [pc EXCEPT ![f] = "fuzz"]
      PROVE  Keeps(f)
  <2>1. TypeOK'
    BY <1>4 DEF TypeOK, Running
  <2>2. \A g \in Fuzzers \ {f} : Same(g)
    BY <1>4 DEF TypeOK, Same
  <2>3. /\ pc'[f] = "fuzz" /\ resume'[f] = NoDir
        /\ scan'[f] = scan[f] /\ mem'[f] = mem[f] /\ queue'[f] = queue[f]
    BY <1>4 DEF TypeOK
  <2>4. Filed(f)' /\ Scanned(f)'
    BY <1>1, <2>3 DEF Good, Filed, Scanned, Opened, Running, Starting, Ids, InMemory
  <2>5. Safe(f)'
    BY <1>1, <1>2, <2>3, NoDirOf DEF Good, Safe, Held, Starting, Running
  <2> QED BY <2>1, <2>2, <2>4, <2>5 DEF Keeps, Good
<1> QED BY <1>3, <1>4

LEMMA KillKeeps ==
  ASSUME Distinct, NEW f \in Fuzzers, TypeOK, Good(f), Kill(f)
  PROVE  Keeps(f)
<1> USE DEF Kill, Go, disk
<1>1. TypeOK'
  <2>1. HalfDeleted(f) \in BOOLEAN
    BY DEF HalfDeleted
  <2>2. tainted' \in [Fuzzers -> BOOLEAN]
    BY <2>1 DEF TypeOK
  <2>3. <<>> \in Seq(Cases)
    OBVIOUS
  <2> QED BY <2>2, <2>3 DEF TypeOK
<1>2. \A g \in Fuzzers \ {f} : Same(g)
  BY DEF TypeOK, Same
<1>3. /\ pc'[f] = "off" /\ scan'[f] = NoScan
      /\ tainted'[f] = (tainted[f] \/ HalfDeleted(f))
      /\ queue'[f] = queue[f] /\ resume'[f] = resume[f]
      /\ kept'[f] = kept[f] /\ ran'[f] = ran[f] /\ lost'[f] = lost[f]
  BY DEF TypeOK
<1>4. Filed(f)' /\ Scanned(f)'
  BY <1>3 DEF Filed, Scanned, Opened, Running, Distinct
<1>5. ASSUME ~tainted[f], ~HalfDeleted(f)
      PROVE  /\ Held(f) \subseteq OnDisk(f)
             /\ Names(resume[f]) # {} => Held(f) \subseteq FullCases(resume[f])
  <2>1. CASE pc[f] \in Starting
    BY <1>5, <2>1 DEF Good, Safe, OnDisk
  <2>2. CASE pc[f] = "nuke"
    <3>1. Held(f) \subseteq InMemory(f) /\ InMemory(f) = FullCases(queue[f])
      BY <1>5, <2>2, FullQueue DEF Good, Safe
    <3> QED BY <1>5, <2>2, <3>1 DEF HalfDeleted, OnDisk
  <2>3. CASE pc[f] \in Running
    BY <1>5, <2>3 DEF Good, Safe, OnDisk
  <2> QED BY <2>1, <2>2, <2>3 DEF TypeOK
<1>6. Safe(f)'
  BY <1>3, <1>5 DEF Safe, Held, OnDisk, Starting, Running
<1> QED BY <1>1, <1>2, <1>4, <1>6 DEF Keeps, Good

---------------------------------------------------------------------------
(* Finds and trims *)

\* A case that joins the queue: its file comes later.
LEMMA KeepAdds ==
  ASSUME Distinct, NEW f \in Fuzzers, TypeOK, Good(f), pc[f] \in {"fuzz", "sync"},
         NEW c \in Cases, Keep(f, c)
  PROVE  /\ pc' \in [Fuzzers -> {"off", "nuke"} \cup Starting \cup Running]
         /\ mem' \in [Fuzzers -> Seq(Cases)]
         /\ \A g \in Fuzzers \ {f} : pc'[g] = pc[g] /\ mem'[g] = mem[g]
         /\ pc'[f] = "create"
         /\ queue'[f] = queue[f] => Filed(f)'
         /\ InMemory(f)' = InMemory(f) \cup {c}
<1> USE DEF Keep, Go
<1>1. /\ Len(mem[f]) \in Nat /\ mem'[f] = Append(mem[f], c)
      /\ mem' \in [Fuzzers -> Seq(Cases)]
      /\ \A g \in Fuzzers \ {f} : pc'[g] = pc[g] /\ mem'[g] = mem[g]
  BY DEF TypeOK
<1>2. pc'[f] = "create" /\ pc' \in [Fuzzers -> {"off", "nuke"} \cup Starting \cup Running]
  BY DEF TypeOK, Running
<1>3. /\ Len(mem'[f]) = Len(mem[f]) + 1 /\ mem'[f][Len(mem[f]) + 1] = c
      /\ \A k \in 1 .. Len(mem[f]) : mem'[f][k] = mem[f][k]
  BY <1>1 DEF TypeOK
<1>4. /\ queue[f] \in Dirs /\ DOMAIN queue[f] = 0 .. Len(mem[f]) - 1
      /\ \A i \in DOMAIN queue[f] : queue[f][i].case = mem[f][i + 1] /\ queue[f][i].full
  BY DEF Good, Filed, Opened, Running, Ids
<1>5. ASSUME queue'[f] = queue[f] PROVE Filed(f)'
  <2>1. DOMAIN queue'[f] = 0 .. Len(mem'[f]) - 2 /\ Len(mem'[f]) > 0
    BY <1>1, <1>3, <1>4, <1>5
  <2>2. \A i \in DOMAIN queue'[f] :
          i < Len(mem'[f]) /\ queue'[f][i].case = mem'[f][i + 1] /\ queue'[f][i].full
    <3> SUFFICES ASSUME NEW i \in 0 .. Len(mem[f]) - 1
                 PROVE  i < Len(mem[f]) + 1 /\ i + 1 \in 1 .. Len(mem[f])
      BY <1>3, <1>4, <1>5
    <3> QED BY <1>1
  <2> QED BY <1>2, <1>4, <1>5, <2>1, <2>2 DEF Filed, Opened, Running
<1>6. InMemory(f)' = InMemory(f) \cup {c}
  <2>1. 1 .. Len(mem'[f]) = (1 .. Len(mem[f])) \cup {Len(mem[f]) + 1}
    BY <1>1, <1>3
  <2> QED BY <1>3, <2>1 DEF InMemory
<1> QED BY <1>1, <1>2, <1>5, <1>6

LEMMA FindKeeps ==
  ASSUME Distinct, NEW f \in Fuzzers, TypeOK, Good(f), Find(f)
  PROVE  Keeps(f)
<1>1. PICK c \in Finds[f] \ InMemory(f) : Keep(f, c)
  BY DEF Find
<1>2. c \in Cases /\ pc[f] = "fuzz" /\ UNCHANGED <<in_place, at, trimmed, scan, disk, starts, history>>
  BY DEF Cases, Find
<1>3. /\ pc' \in [Fuzzers -> {"off", "nuke"} \cup Starting \cup Running]
      /\ mem' \in [Fuzzers -> Seq(Cases)]
      /\ \A g \in Fuzzers \ {f} : pc'[g] = pc[g] /\ mem'[g] = mem[g]
      /\ pc'[f] = "create" /\ Filed(f)' /\ InMemory(f)' = InMemory(f) \cup {c}
  BY <1>1, <1>2, KeepAdds DEF disk
<1>4. TypeOK'
  BY <1>2, <1>3 DEF TypeOK, disk, history
<1>5. \A g \in Fuzzers \ {f} : Same(g)
  BY <1>2, <1>3 DEF Same, disk, history
<1>6. Scanned(f)'
  BY <1>2, <1>3 DEF Good, Scanned, Starting
<1>7. Safe(f)'
  BY <1>2, <1>3 DEF Good, Safe, Held, Starting, Running, disk, history
<1> QED BY <1>3, <1>4, <1>5, <1>6, <1>7 DEF Keeps, Good

LEMMA CreateFileKeeps ==
  ASSUME Distinct, NEW f \in Fuzzers, TypeOK, Good(f), CreateFile(f)
  PROVE  Keeps(f)
<1> DEFINE i == Len(mem[f]) - 1
<1>1. /\ pc[f] = "create" /\ queue[f] \in Dirs
      /\ i \in Nat /\ DOMAIN queue[f] = 0 .. i - 1 /\ NextId(f) = i
      /\ mem[f][i + 1] \in Cases /\ i \notin DOMAIN queue[f] /\ Len(mem[f]) = i + 1
  BY DEF CreateFile, TypeOK, Good, Filed, Opened, Running, NextId
<1>2. /\ at' = [at EXCEPT ![f] = i]
      /\ queue' = [queue EXCEPT ![f] = Put(queue[f], i, mem[f][i + 1], FALSE)]
      /\ pc' = [pc EXCEPT ![f] = "write"]
      /\ UNCHANGED <<in_place, mem, trimmed, scan, resume, synced, starts, kept, ran, lost, tainted>>
  BY <1>1 DEF CreateFile, Go, history
<1> HIDE DEF i
<1>3. PICK c \in Cases : c = mem[f][i + 1]
  BY <1>1
<1>4. queue'[f] = Put(queue[f], i, c, FALSE)
  BY <1>2, <1>3 DEF TypeOK
<1>5. /\ queue'[f] \in Dirs
      /\ DOMAIN queue'[f] = DOMAIN queue[f] \cup {i}
      /\ queue'[f][i] = [case |-> c, full |-> FALSE]
      /\ \A j \in DOMAIN queue[f] : j # i => queue'[f][j] = queue[f][j]
      /\ FullCases(queue[f]) \subseteq FullCases(queue'[f])
  <2>1. queue[f] \in Dirs /\ i \in Nat /\ i \notin DOMAIN queue[f]
    BY <1>1
  <2>2. PICK full \in BOOLEAN : full = FALSE
    OBVIOUS
  <2>3. queue'[f] = Put(queue[f], i, c, full)
    BY <1>4, <2>2
  <2>4. /\ queue'[f] \in Dirs
        /\ DOMAIN queue'[f] = DOMAIN queue[f] \cup {i}
        /\ queue'[f][i] = [case |-> c, full |-> full]
        /\ \A j \in DOMAIN queue[f] : j # i => queue'[f][j] = queue[f][j]
        /\ FullCases(queue[f]) \subseteq FullCases(queue'[f])
    BY <2>1, <2>3, PutHere, SMTT(20)
  <2> QED BY <2>2, <2>4
<1>6. TypeOK'
  BY <1>1, <1>2, <1>5 DEF TypeOK, Running
<1>7. \A g \in Fuzzers \ {f} : Same(g)
  BY <1>2 DEF TypeOK, Same
<1>8. pc'[f] = "write" /\ at'[f] = i /\ mem'[f] = mem[f] /\ scan'[f] = scan[f]
  BY <1>2 DEF TypeOK
<1>9. Filed(f)'
  <2>1. DOMAIN queue'[f] = 0 .. Len(mem[f]) - 1
    BY <1>1, <1>5
  <2>2. \A j \in DOMAIN queue'[f] :
          /\ j < Len(mem[f]) /\ queue'[f][j].case = mem[f][j + 1]
          /\ queue'[f][j].full \/ j = i
    <3>1. \A j \in DOMAIN queue[f] : j < i /\ queue[f][j].case = mem[f][j + 1] /\ queue[f][j].full
      BY <1>1 DEF Good, Filed, Opened, Running
    <3>2. \A j \in DOMAIN queue[f] : j # i /\ queue'[f][j] = queue[f][j]
      BY <1>1, <1>5
    <3>3. queue'[f][i].case = mem[f][i + 1] /\ i < Len(mem[f])
      BY <1>1, <1>3, <1>5
    <3>4. \A j \in DOMAIN queue[f] : j < Len(mem[f])
      BY <1>1
    <3> QED BY <1>5, <3>1, <3>2, <3>3, <3>4
  <2> QED BY <1>1, <1>5, <1>8, <2>1, <2>2 DEF Filed, Opened, Running, Ids
<1>10. Scanned(f)'
  BY <1>1, <1>8 DEF Good, Scanned, Starting, InMemory
<1>11. Safe(f)'
  BY <1>1, <1>2, <1>5, <1>8 DEF Good, Safe, Held, Starting, Running
<1> QED BY <1>6, <1>7, <1>9, <1>10, <1>11 DEF Keeps, Good

LEMMA WriteFileKeeps ==
  ASSUME Distinct, NEW f \in Fuzzers, TypeOK, Good(f), WriteFile(f)
  PROVE  Keeps(f)
<1> DEFINE i == at[f]
<1>1. /\ pc[f] = "write" /\ queue[f] \in Dirs /\ DOMAIN queue[f] = Ids(f)
      /\ i \in Nat /\ i \in Ids(f) /\ Len(mem[f]) \in Nat /\ mem[f][i + 1] \in Cases
      /\ queue[f][i].case = mem[f][i + 1]
  BY DEF WriteFile, TypeOK, Good, Filed, Opened, Running, Ids
<1>2. PICK c \in Cases : c = mem[f][i + 1]
  BY <1>1
<1>3. /\ queue' = [queue EXCEPT ![f] = Put(queue[f], i, c, TRUE)]
      /\ kept' = [kept EXCEPT ![f] = @ \cup {c}]
      /\ lost' = [lost EXCEPT ![f] = @ \ {c}]
      /\ at' = [at EXCEPT ![f] = 0]
      /\ pc' = [pc EXCEPT ![f] = IF scan[f] = NoScan THEN "fuzz" ELSE "sync"]
      /\ UNCHANGED <<in_place, mem, trimmed, scan, resume, synced, starts, ran, tainted>>
  BY <1>2 DEF WriteFile, Go
<1> HIDE DEF i
<1>4. queue'[f] = Put(queue[f], i, c, TRUE)
  BY <1>3 DEF TypeOK
<1>5. /\ queue'[f] \in Dirs
      /\ DOMAIN queue'[f] = DOMAIN queue[f] \cup {i}
      /\ queue'[f][i] = [case |-> c, full |-> TRUE]
      /\ \A j \in DOMAIN queue[f] : j # i => queue'[f][j] = queue[f][j]
      /\ c \in FullCases(queue'[f])
      /\ ~queue[f][i].full => FullCases(queue[f]) \subseteq FullCases(queue'[f])
  BY <1>1, <1>4, PutHere
<1>6. TypeOK'
  BY <1>1, <1>3, <1>5 DEF TypeOK, Running
<1>7. \A g \in Fuzzers \ {f} : Same(g)
  BY <1>3 DEF TypeOK, Same
<1>8. /\ pc'[f] \in {"fuzz", "sync"} /\ (pc'[f] = "sync" => scan[f] # NoScan)
      /\ mem'[f] = mem[f] /\ scan'[f] = scan[f] /\ resume'[f] = resume[f]
      /\ kept'[f] = kept[f] \cup {c} /\ lost'[f] = lost[f] \ {c}
      /\ ran'[f] = ran[f] /\ tainted'[f] = tainted[f]
  BY <1>3 DEF TypeOK
<1>9. Filed(f)'
  <2>1. DOMAIN queue'[f] = Ids(f)
    BY <1>1, <1>5
  <2>2. \A j \in Ids(f) :
          j < Len(mem[f]) /\ queue'[f][j].case = mem[f][j + 1] /\ queue'[f][j].full
    <3>1. \A j \in Ids(f) : /\ j < Len(mem[f]) /\ queue[f][j].case = mem[f][j + 1]
                            /\ queue[f][j].full \/ j = i
      <4>1. \A j \in DOMAIN queue[f] :
              /\ j < Len(mem[f]) /\ queue[f][j].case = mem[f][j + 1]
              /\ queue[f][j].full \/ j = i
        BY <1>1 DEF Good, Filed, Opened, Running, i
      <4> QED BY <1>1, <4>1
    <3> QED BY <1>1, <1>2, <1>5, <3>1
  <2> QED BY <1>5, <1>8, <2>1, <2>2 DEF Filed, Opened, Running, Ids
<1>10. Scanned(f)'
  <2>1. scan[f] \in Scans \cup {NoScan} /\ (scan[f] \in Scans => scan[f].ran \subseteq InMemory(f))
    BY DEF TypeOK, Good, Scanned
  <2>2. InMemory(f)' = InMemory(f)
    BY <1>8 DEF InMemory
  <2> QED BY <1>8, <2>1, <2>2 DEF Scanned, Starting
<1>11. FullCases(queue[f]) \subseteq FullCases(queue'[f])
  <2>1. CASE queue[f][i].full
    <3>1. queue'[f][i].case = queue[f][i].case /\ queue'[f][i].full
      BY <1>1, <1>2, <1>5
    <3>2. \A j \in DOMAIN queue[f] : queue'[f][j].case = queue[f][j].case
                                   /\ (queue[f][j].full => queue'[f][j].full)
      BY <1>5, <3>1
    <3>3. FullIds(queue[f]) = {j \in DOMAIN queue[f] : queue[f][j].full}
      BY <1>1, DirOf
    <3>4. FullIds(queue'[f]) = {j \in DOMAIN queue'[f] : queue'[f][j].full}
      BY <1>5, DirOf
    <3>5. \A j \in FullIds(queue[f]) : j \in FullIds(queue'[f]) /\ queue'[f][j].case = queue[f][j].case
      BY <1>5, <3>2, <3>3, <3>4
    <3> QED BY <3>5 DEF FullCases
  <2> QED BY <1>5, <2>1
<1>12. Safe(f)'
  BY <1>1, <1>5, <1>8, <1>11 DEF Good, Safe, Held, Starting, Running
<1> QED BY <1>6, <1>7, <1>9, <1>10, <1>12 DEF Keeps, Good

LEMMA TrimUnlinkKeeps ==
  ASSUME Distinct, NEW f \in Fuzzers, TypeOK, Good(f), TrimUnlink(f)
  PROVE  Keeps(f)
<1>1. PICK i \in DOMAIN queue[f] \ trimmed[f] :
        /\ queue' = [queue EXCEPT ![f] = Unlink(@, i)]
        /\ lost' = [lost EXCEPT ![f] = @ \cup {mem[f][i + 1]}]
        /\ at' = [at EXCEPT ![f] = i]
        /\ trimmed' = [trimmed EXCEPT ![f] = @ \cup {i}]
  BY DEF TrimUnlink
<1>2. /\ pc[f] = "fuzz" /\ pc' = [pc EXCEPT ![f] = "recreate"]
      /\ UNCHANGED <<in_place, mem, scan, resume, synced, starts, kept, ran, tainted>>
  BY DEF TrimUnlink, Go
<1>3. /\ queue[f] \in Dirs /\ DOMAIN queue[f] = Ids(f)
      /\ \A j \in Ids(f) : /\ j < Len(mem[f]) /\ queue[f][j].case = mem[f][j + 1]
                           /\ queue[f][j].full
      /\ i \in Nat /\ i \in Ids(f) /\ mem[f][i + 1] \in Cases
  <2>1. /\ queue[f] \in Dirs /\ DOMAIN queue[f] = Ids(f)
        /\ \A j \in Ids(f) : /\ j < Len(mem[f]) /\ queue[f][j].case = mem[f][j + 1]
                             /\ queue[f][j].full
    BY <1>2 DEF Good, Filed, Opened, Running
  <2>2. Len(mem[f]) \in Nat /\ mem[f] \in Seq(Cases)
    BY DEF TypeOK
  <2>3. i \in Ids(f)
    BY <2>1
  <2>4. i \in Nat /\ i + 1 \in 1 .. Len(mem[f])
    BY <2>2, <2>3 DEF Ids
  <2>5. PICK k \in 1 .. Len(mem[f]) : k = i + 1
    BY <2>4
  <2>6. mem[f][k] \in Cases
    BY <2>2
  <2> QED BY <2>1, <2>3, <2>4, <2>5, <2>6
<1>4. queue'[f] = Unlink(queue[f], i)
  BY <1>1 DEF TypeOK
<1>5. /\ queue'[f] \in Dirs /\ DOMAIN queue'[f] = DOMAIN queue[f] \ {i}
      /\ \A j \in DOMAIN queue[f] : j # i => queue'[f][j] = queue[f][j]
  <2>1. PICK dir \in Dirs : dir = queue[f]
    BY <1>3
  <2>2. PICK new : new = Unlink(dir, i)
    OBVIOUS
  <2>3. /\ new \in Dirs /\ DOMAIN new = DOMAIN dir \ {i}
        /\ \A j \in DOMAIN dir : j # i => new[j] = dir[j]
    BY <2>2, UnlinkIsDir
  <2>4. queue'[f] = new
    BY <1>4, <2>1, <2>2
  <2> QED BY <2>1, <2>3, <2>4
<1>6. TypeOK'
  BY <1>1, <1>2, <1>3, <1>5 DEF TypeOK, Running
<1>7. \A g \in Fuzzers \ {f} : Same(g)
  BY <1>1, <1>2 DEF TypeOK, Same
<1>8. /\ pc'[f] = "recreate" /\ at'[f] = i /\ mem'[f] = mem[f] /\ scan'[f] = scan[f]
      /\ lost'[f] = lost[f] \cup {mem[f][i + 1]}
      /\ resume'[f] = resume[f] /\ kept'[f] = kept[f] /\ ran'[f] = ran[f]
      /\ tainted'[f] = tainted[f]
  BY <1>1, <1>2 DEF TypeOK
<1>9. Filed(f)'
  BY <1>3, <1>5, <1>8 DEF Filed, Opened, Running, Ids
<1>10. Scanned(f)'
  BY <1>2, <1>8 DEF Good, Scanned, Starting, InMemory
<1>11. \A c \in FullCases(queue[f]) \ {mem[f][i + 1]} : c \in FullCases(queue'[f])
  <2> TAKE c \in FullCases(queue[f]) \ {mem[f][i + 1]}
  <2>1. PICK j \in FullIds(queue[f]) : c = queue[f][j].case
    BY DEF FullCases
  <2>2. j \in Ids(f) /\ j # i
    BY <1>3, <2>1, DirOf
  <2>3. j \in FullIds(queue'[f]) /\ queue'[f][j].case = c
    BY <1>3, <1>5, <2>1, <2>2, DirOf
  <2> QED BY <2>3 DEF FullCases
<1>12. Safe(f)'
  BY <1>2, <1>8, <1>11 DEF Good, Safe, Held, Starting, Running
<1> QED BY <1>6, <1>7, <1>9, <1>10, <1>12 DEF Keeps, Good

LEMMA TrimCreateKeeps ==
  ASSUME Distinct, NEW f \in Fuzzers, TypeOK, Good(f), TrimCreate(f)
  PROVE  Keeps(f)
<1> DEFINE i == at[f]
<1>1. /\ pc[f] = "recreate" /\ queue[f] \in Dirs /\ DOMAIN queue[f] = Ids(f) \ {i}
      /\ i \in Nat /\ i \in Ids(f) /\ mem[f][i + 1] \in Cases
      /\ \A j \in DOMAIN queue[f] : /\ j < Len(mem[f]) /\ queue[f][j].case = mem[f][j + 1]
                                    /\ queue[f][j].full
  BY DEF TrimCreate, TypeOK, Good, Filed, Opened, Running, Ids
<1>2. PICK c \in Cases : c = mem[f][i + 1]
  BY <1>1
<1>3. /\ queue' = [queue EXCEPT ![f] = Put(queue[f], i, c, FALSE)]
      /\ pc' = [pc EXCEPT ![f] = "write"]
      /\ UNCHANGED <<in_place, mem, at, trimmed, scan, resume, synced, starts,
                     kept, ran, lost, tainted>>
  BY <1>2 DEF TrimCreate, Go, history
<1> HIDE DEF i
<1>4. queue'[f] = Put(queue[f], i, c, FALSE)
  BY <1>3 DEF TypeOK
<1>5. /\ queue'[f] \in Dirs
      /\ DOMAIN queue'[f] = DOMAIN queue[f] \cup {i}
      /\ queue'[f][i] = [case |-> c, full |-> FALSE]
      /\ \A j \in DOMAIN queue[f] : j # i => queue'[f][j] = queue[f][j]
      /\ FullCases(queue[f]) \subseteq FullCases(queue'[f])
  <2>1. queue[f] \in Dirs /\ i \in Nat /\ i \notin DOMAIN queue[f]
    BY <1>1
  <2>2. PICK full \in BOOLEAN : full = FALSE
    OBVIOUS
  <2>3. queue'[f] = Put(queue[f], i, c, full)
    BY <1>4, <2>2
  <2>4. /\ queue'[f] \in Dirs
        /\ DOMAIN queue'[f] = DOMAIN queue[f] \cup {i}
        /\ queue'[f][i] = [case |-> c, full |-> full]
        /\ \A j \in DOMAIN queue[f] : j # i => queue'[f][j] = queue[f][j]
        /\ FullCases(queue[f]) \subseteq FullCases(queue'[f])
    BY <2>1, <2>3, PutHere, SMTT(20)
  <2> QED BY <2>2, <2>4
<1>6. TypeOK'
  BY <1>1, <1>3, <1>5 DEF TypeOK, Running
<1>7. \A g \in Fuzzers \ {f} : Same(g)
  BY <1>3 DEF TypeOK, Same
<1>8. pc'[f] = "write" /\ at'[f] = i /\ mem'[f] = mem[f] /\ scan'[f] = scan[f]
  BY <1>3 DEF TypeOK, i
<1>9. Filed(f)'
  <2>1. DOMAIN queue'[f] = Ids(f)
    BY <1>1, <1>5
  <2>2. \A j \in Ids(f) : /\ j < Len(mem[f]) /\ queue'[f][j].case = mem[f][j + 1]
                          /\ queue'[f][j].full \/ j = i
    <3>1. queue'[f][i].case = mem[f][i + 1] /\ i < Len(mem[f])
      <4>1. Len(mem[f]) \in Nat
        BY DEF TypeOK
      <4> QED BY <1>1, <1>2, <1>5, <4>1 DEF Ids
    <3>2. \A j \in Ids(f) : j # i => j \in DOMAIN queue[f] /\ queue'[f][j] = queue[f][j]
      BY <1>1, <1>5
    <3> QED BY <1>1, <3>1, <3>2
  <2> QED BY <1>1, <1>5, <1>8, <2>1, <2>2 DEF Filed, Opened, Running, Ids
<1>10. Scanned(f)'
  BY <1>1, <1>8 DEF Good, Scanned, Starting, InMemory
<1>11. Safe(f)'
  BY <1>1, <1>3, <1>5, <1>8 DEF Good, Safe, Held, Starting, Running
<1> QED BY <1>6, <1>7, <1>9, <1>10, <1>11 DEF Keeps, Good

---------------------------------------------------------------------------
(* sync_fuzzers *)

LEMMA NamesAre ==
  ASSUME Distinct, TypeOK, NEW p \in Fuzzers
  PROVE  Names(queue[p]) \subseteq Nat \X Cases
<1>1. CASE queue[p] \in Dirs
  BY <1>1, DirOf, DirHas
<1>2. CASE queue[p] = NoDir
  BY <1>2, NoDirOf
<1> QED BY <1>1, <1>2 DEF TypeOK

LEMMA SyncOpenKeeps ==
  ASSUME Distinct, NEW f \in Fuzzers, NEW p \in Fuzzers, TypeOK, Good(f), SyncOpen(f, p)
  PROVE  Keeps(f)
<1> DEFINE s == [peer |-> p, of |-> starts[p], min |-> synced[f][p], next |-> synced[f][p],
                 left |-> {n \in Names(queue[p]) : n[1] >= synced[f][p]},
                 done |-> {}, ran |-> {}]
<1>1. /\ pc[f] = "fuzz" /\ pc' = [pc EXCEPT ![f] = "sync"] /\ scan' = [scan EXCEPT ![f] = s]
      /\ UNCHANGED <<in_place, mem, at, trimmed, queue, resume, synced, starts,
                     kept, ran, lost, tainted>>
  BY DEF SyncOpen, Go, disk, history
<1>2. s \in Scans
  <2>1. starts[p] \in Nat /\ synced[f][p] \in Nat
    BY DEF TypeOK
  <2>2. {n \in Names(queue[p]) : n[1] >= synced[f][p]} \in SUBSET (Nat \X Cases)
    BY NamesAre
  <2> QED BY <2>1, <2>2 DEF Scans
<1>3. s.ran = {}
  OBVIOUS
<1> HIDE DEF s
<1>4. TypeOK'
  BY <1>1, <1>2 DEF TypeOK, Running
<1>5. \A g \in Fuzzers \ {f} : Same(g)
  BY <1>1 DEF TypeOK, Same
<1>6. pc'[f] = "sync" /\ scan'[f] = s
  BY <1>1 DEF TypeOK
<1>7. Filed(f)' /\ Scanned(f)'
  BY <1>1, <1>2, <1>3, <1>6 DEF Good, Filed, Scanned, Opened, Running, Starting, Ids
<1>8. Safe(f)'
  BY <1>1, <1>6 DEF Good, Safe, Held, Starting, Running
<1> QED BY <1>4, <1>5, <1>7, <1>8 DEF Keeps, Good

LEMMA SyncReadKeeps ==
  ASSUME Distinct, NEW f \in Fuzzers, TypeOK, Good(f), SyncRead(f)
  PROVE  Keeps(f)
<1>1. /\ pc[f] = "sync" /\ scan[f] \in Scans /\ scan[f].ran \subseteq InMemory(f)
      /\ UNCHANGED <<in_place, at, trimmed, queue, resume, synced, starts,
                     kept, ran, lost, tainted>>
  BY DEF SyncRead, disk, history, Good, Scanned
<1>2. PICK n \in Readable(scan[f]) :
        LET t == [scan[f] EXCEPT !.done = @ \cup {n}, !.left = @ \ {n},
                                 !.next = IF n[1] >= @ THEN n[1] + 1 ELSE @]
        IN  IF Opens(scan[f].peer, n)
              THEN /\ scan' = [scan EXCEPT ![f] = [t EXCEPT !.ran = @ \cup {n[2]}]]
                   /\ IF n[2] \in InMemory(f) THEN UNCHANGED <<pc, mem>> ELSE Keep(f, n[2])
              ELSE scan' = [scan EXCEPT ![f] = t] /\ UNCHANGED <<pc, mem>>
  BY DEF SyncRead
<1>3. n \in Nat \X Cases /\ n[1] \in Nat /\ n[2] \in Cases
  <2>1. scan[f].left \subseteq Nat \X Cases /\ Names(queue[scan[f].peer]) \subseteq Nat \X Cases
    BY <1>1, NamesAre DEF Scans
  <2> QED BY <1>2, <2>1 DEF Readable
<1> DEFINE t == [scan[f] EXCEPT !.done = @ \cup {n}, !.left = @ \ {n},
                                !.next = IF n[1] >= @ THEN n[1] + 1 ELSE @]
           u == [t EXCEPT !.ran = @ \cup {n[2]}]
<1>4. t \in Scans /\ t.ran = scan[f].ran
  <2>1. PICK s \in Scans : s = scan[f]
    BY <1>1
  <2>2. PICK done \in SUBSET (Nat \X Cases) : done = s.done \cup {n}
    BY <1>3 DEF Scans
  <2>3. PICK left \in SUBSET (Nat \X Cases) : left = s.left \ {n}
    BY DEF Scans
  <2>4. PICK next \in Nat : next = IF n[1] >= s.next THEN n[1] + 1 ELSE s.next
    BY <1>3 DEF Scans
  <2>5. [s EXCEPT !.done = done, !.left = left, !.next = next] \in Scans
    BY DEF Scans
  <2>6. [s EXCEPT !.done = done, !.left = left, !.next = next].ran = s.ran
    BY DEF Scans
  <2>7. t = [s EXCEPT !.done = done, !.left = left, !.next = next]
    BY <2>1, <2>2, <2>3, <2>4 DEF Scans
  <2> HIDE DEF t
  <2> QED BY <2>1, <2>5, <2>6, <2>7
<1>5. u \in Scans /\ u.ran = scan[f].ran \cup {n[2]}
  BY <1>3, <1>4 DEF Scans
<1>6. \/ scan' = [scan EXCEPT ![f] = t] /\ UNCHANGED <<pc, mem>>
      \/ scan' = [scan EXCEPT ![f] = u] /\ n[2] \in InMemory(f) /\ UNCHANGED <<pc, mem>>
      \/ scan' = [scan EXCEPT ![f] = u] /\ Keep(f, n[2])
  BY <1>2
<1> HIDE DEF t, u
<1>7. ASSUME NEW x \in Scans, scan' = [scan EXCEPT ![f] = x], UNCHANGED <<pc, mem>>,
             x.ran \subseteq InMemory(f)
      PROVE  Keeps(f)
  <2>1. TypeOK'
    BY <1>1, <1>7 DEF TypeOK
  <2>2. \A g \in Fuzzers \ {f} : Same(g)
    BY <1>1, <1>7 DEF TypeOK, Same
  <2>3. pc'[f] = "sync" /\ scan'[f] = x
    BY <1>1, <1>7 DEF TypeOK
  <2>4. Filed(f)' /\ Scanned(f)'
    BY <1>1, <1>7, <2>3 DEF Good, Filed, Scanned, Opened, Running, Starting, Ids, InMemory
  <2>5. Safe(f)'
    BY <1>1, <1>7, <2>3 DEF Good, Safe, Held, Starting, Running
  <2> QED BY <2>1, <2>2, <2>4, <2>5 DEF Keeps, Good
<1>8. ASSUME scan' = [scan EXCEPT ![f] = u], Keep(f, n[2])
      PROVE  Keeps(f)
  <2>0. PICK c \in Cases : c = n[2]
    BY <1>3
  <2>1. /\ pc' \in [Fuzzers -> {"off", "nuke"} \cup Starting \cup Running]
        /\ mem' \in [Fuzzers -> Seq(Cases)]
        /\ \A g \in Fuzzers \ {f} : pc'[g] = pc[g] /\ mem'[g] = mem[g]
        /\ pc'[f] = "create" /\ Filed(f)' /\ InMemory(f)' = InMemory(f) \cup {c}
    BY <1>1, <1>8, <2>0, KeepAdds
  <2>2. TypeOK'
    BY <1>1, <1>5, <1>8, <2>1 DEF TypeOK
  <2>3. \A g \in Fuzzers \ {f} : Same(g)
    BY <1>1, <1>8, <2>1 DEF TypeOK, Same
  <2>4. scan'[f] = u
    BY <1>8 DEF TypeOK
  <2>5. Scanned(f)'
    BY <1>1, <1>5, <2>0, <2>1, <2>4 DEF Scanned, Starting
  <2>6. Safe(f)'
    BY <1>1, <2>1 DEF Good, Safe, Held, Starting, Running
  <2> QED BY <2>1, <2>2, <2>3, <2>5, <2>6 DEF Keeps, Good
<1> QED BY <1>1, <1>4, <1>5, <1>6, <1>7, <1>8

LEMMA SyncEndKeeps ==
  ASSUME Distinct, NEW f \in Fuzzers, TypeOK, Good(f), SyncEnd(f)
  PROVE  Keeps(f)
<1>1. /\ pc[f] = "sync" /\ scan[f] \in Scans /\ scan[f].ran \subseteq InMemory(f)
      /\ synced' = [synced EXCEPT ![f][scan[f].peer] = scan[f].next]
      /\ ran' = [ran EXCEPT ![f] = @ \cup scan[f].ran]
      /\ scan' = [scan EXCEPT ![f] = NoScan]
      /\ pc' = [pc EXCEPT ![f] = "fuzz"]
      /\ UNCHANGED <<in_place, mem, at, trimmed, queue, resume, starts, kept, lost, tainted>>
  BY DEF SyncEnd, Go, Good, Scanned
<1>2. scan[f].peer \in Fuzzers /\ scan[f].next \in Nat /\ scan[f].ran \subseteq Cases
  BY <1>1 DEF Scans
<1>3. TypeOK'
  <2>1. synced' \in [Fuzzers -> [Fuzzers -> Nat]]
    BY <1>1, <1>2 DEF TypeOK
  <2>2. ran' \in [Fuzzers -> SUBSET Cases]
    BY <1>1, <1>2 DEF TypeOK
  <2> QED BY <1>1, <2>1, <2>2 DEF TypeOK, Running
<1>4. \A g \in Fuzzers \ {f} : Same(g)
  BY <1>1 DEF TypeOK, Same
<1>5. pc'[f] = "fuzz" /\ scan'[f] = NoScan /\ ran'[f] = ran[f] \cup scan[f].ran
  BY <1>1 DEF TypeOK
<1>6. Filed(f)' /\ Scanned(f)'
  BY <1>1, <1>5 DEF Good, Filed, Scanned, Opened, Running, Starting, Ids, Distinct
<1>7. FullCases(queue[f]) = InMemory(f)
  BY <1>1, FullQueue
<1>8. Safe(f)'
  BY <1>1, <1>5, <1>7 DEF Good, Safe, Held, Starting, Running
<1> QED BY <1>3, <1>4, <1>6, <1>8 DEF Keeps, Good

---------------------------------------------------------------------------
LEMMA NextGood ==
  ASSUME Distinct, Inv, [Next]_vars
  PROVE  Inv'
<1>1. ASSUME NEW f \in Fuzzers, Keeps(f) PROVE Inv'
  BY <1>1, OthersKeep DEF Inv, Keeps
<1>2. CASE Next
  <2>1. PICK f \in Fuzzers :
          StartInPlace(f) \/ StartAfresh(f) \/ Kill(f) \/ Find(f) \/ TrimUnlink(f) \/ Proceed(f)
    BY <1>2 DEF Next
  <2>2. TypeOK /\ Good(f)
    BY DEF Inv
  <2>3. CASE StartInPlace(f) \/ StartAfresh(f) \/ Kill(f) \/ Find(f) \/ TrimUnlink(f)
    BY <1>1, <2>2, <2>3, StartInPlaceKeeps, StartAfreshKeeps, KillKeeps, FindKeeps, TrimUnlinkKeeps
  <2>4. CASE ClearQueue(f) \/ ReadTestcases(f) \/ PivotInput(f) \/ NukeResume(f)
    BY <1>1, <2>2, <2>4, ClearQueueKeeps, ReadTestcasesKeeps, PivotInputKeeps, NukeResumeKeeps
  <2>5. CASE CreateFile(f) \/ WriteFile(f) \/ TrimCreate(f)
    BY <1>1, <2>2, <2>5, CreateFileKeeps, WriteFileKeeps, TrimCreateKeeps
  <2>6. CASE (\E p \in Fuzzers : SyncOpen(f, p)) \/ SyncRead(f) \/ SyncEnd(f)
    BY <1>1, <2>2, <2>6, SyncOpenKeeps, SyncReadKeeps, SyncEndKeeps
  <2> QED BY <2>1, <2>3, <2>4, <2>5, <2>6 DEF Proceed
<1>3. CASE UNCHANGED vars
  <2>1. TypeOK'
    BY <1>3 DEF Inv, TypeOK, vars, memory, disk, history
  <2>2. \A g \in Fuzzers : Same(g)
    BY <1>3 DEF Same, vars, memory, disk, history
  <2> QED BY <2>1, <2>2, OthersKeep DEF Inv
<1> QED BY <1>2, <1>3

\* Between two file operations of a session the file with id i holds the entry at
\* position i (pivot_inputs, save_if_interesting, trim_case), whatever was
\* killed before.
THEOREM QueueIsMirrored ==
  ASSUME Distinct
  PROVE  Spec => []QueueMirrorsMemory
<1>1. Inv => QueueMirrorsMemory
  <2> SUFFICES ASSUME Inv, NEW f \in Fuzzers, Settled(f)
               PROVE  Names(queue[f]) = {<<i - 1, mem[f][i]>> : i \in 1 .. Len(mem[f])}
    BY DEF QueueMirrorsMemory
  <2>1. /\ queue[f] \in Dirs /\ DOMAIN queue[f] = Ids(f)
        /\ \A i \in Ids(f) : queue[f][i].case = mem[f][i + 1]
    BY DEF Inv, Good, Filed, Settled, Opened, Running
  <2>2. Names(queue[f]) = {<<i, queue[f][i].case>> : i \in Ids(f)}
    BY <2>1, DirOf
  <2>3. Len(mem[f]) \in Nat
    BY DEF Inv, TypeOK
  <2>4. ASSUME NEW i \in Ids(f)
        PROVE  <<i, queue[f][i].case>> \in {<<k - 1, mem[f][k]>> : k \in 1 .. Len(mem[f])}
    <3>1. i + 1 \in 1 .. Len(mem[f]) /\ (i + 1) - 1 = i
      BY <2>3 DEF Ids
    <3> QED BY <2>1, <3>1
  <2>5. ASSUME NEW k \in 1 .. Len(mem[f])
        PROVE  <<k - 1, mem[f][k]>> \in {<<i, queue[f][i].case>> : i \in Ids(f)}
    <3>1. k - 1 \in Ids(f) /\ (k - 1) + 1 = k
      BY <2>3 DEF Ids
    <3> QED BY <2>1, <3>1
  <2> QED BY <2>2, <2>4, <2>5
<1>2. Inv /\ [Next]_vars => Inv'
  BY NextGood
<1> QED BY <1>1, <1>2, InitGood, PTL DEF Spec

\* No kill at any file operation of any session loses what was saved or what the
\* numbers in .synced stand for, but for the exceptions the property names.
THEOREM NothingIsEverLost ==
  ASSUME Distinct
  PROVE  Spec => []NothingIsLost
<1>1. Inv => NothingIsLost
  <2> SUFFICES ASSUME Inv, NEW f \in Fuzzers, ~tainted[f]
               PROVE  Held(f) \subseteq OnDisk(f)
    BY DEF NothingIsLost, Held
  <2>1. TypeOK /\ Good(f)
    BY DEF Inv
  <2>2. CASE pc[f] \in {"off"} \cup Starting
    BY <2>1, <2>2 DEF Good, Safe, OnDisk
  <2>3. CASE pc[f] = "nuke"
    BY <2>1, <2>3, FullQueue DEF Good, Safe, OnDisk
  <2>4. CASE pc[f] \in Running
    BY <2>1, <2>4 DEF Good, Safe, OnDisk
  <2> QED BY <2>1, <2>2, <2>3, <2>4 DEF TypeOK
<1>2. Inv /\ [Next]_vars => Inv'
  BY NextGood
<1> QED BY <1>1, <1>2, InitGood, PTL DEF Spec
=============================================================================
