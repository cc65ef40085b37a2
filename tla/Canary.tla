------------------------------- MODULE Canary -------------------------------
(***************************************************************************)
(* The canaries of the Magma benchmark and the monitor that reads them     *)
(* (magma_dgf/magma/src/canary.c, storage.c, monitor.c; run.sh polls).     *)
(*                                                                         *)
(* A target process logs, for a bug, that its code was reached and whether *)
(* its condition held, in a memory-mapped file of one flag, consumed, and  *)
(* two buffers.  Counts are kept in the producer buffer.  When the monitor *)
(* has consumed the consumer buffer the target copies the one to the other *)
(* and clears the flag; the monitor copies the consumer buffer out and     *)
(* sets the flag.  There is no lock: the flag is all.  One target process  *)
(* runs at a time; the fuzzer may kill it at any instruction and start     *)
(* the next one.                                                           *)
(***************************************************************************)
EXTENDS Naturals, FiniteSets

CONSTANTS
  Bugs,       \* names of the canaries
  BUFFERLEN,  \* canaries a buffer has room for
  NoName,     \* the name of a slot not in use
  MaxCount,   \* bound on the calls of magma_log that are counted
  MaxRuns     \* bound on the target processes

ASSUME CanaryAssumption == BUFFERLEN \in Nat \ {0} /\ NoName \notin Bugs /\ MaxRuns \in Nat

\* The two buffers lie one behind the other: slot BUFFERLEN + k is slot k of
\* the consumer's.
Slots == 1 .. BUFFERLEN
Memory == 1 .. 2 * BUFFERLEN

VARIABLES
  file,       \* the storage file: "absent", "empty" or "sized"
  consumed,   \* the flag in it
  mem,        \* mem[i]: [name, reached, triggered]
  pc,         \* the target: "off", "run", or where in magma_log it is
  mapped,     \* data_ptr: "unset", "yes", or "no" after magma_init failed
  faulty,     \* magma_faulty
  slot,       \* prod_canary
  condition,  \* the argument of the call
  copied,     \* slots copied so far by the target
  mon,        \* the monitor: "idle" or where in fetch_file it is
  data,       \* the buffer fetch_file fills
  fetched,    \* slots copied so far by the monitor
  runs,       \* history: target processes so far
  published,  \* history: the producer buffer when the flag was cleared last
  dumped      \* history: what the monitor printed last

storage == <<file, consumed, mem>>
target == <<pc, mapped, faulty, slot, condition, copied, runs>>
monitor == <<mon, data, fetched, dumped>>
vars == <<storage, target, monitor, published>>

Zero == [name |-> NoName, reached |-> 0, triggered |-> 0]
Producer == [k \in Slots |-> mem[k]]
Blank == [k \in Slots |-> Zero]

---------------------------------------------------------------------------
(* The target *)

Start ==
  /\ pc = "off" /\ runs < MaxRuns
  /\ pc' = "run" /\ runs' = runs + 1
  /\ UNCHANGED <<mapped, faulty, slot, condition, copied, storage, monitor, published>>

\* The local variables of magma_log are gone.
Forget == slot' = 1 /\ condition' = FALSE /\ copied' = 0

\* A timeout, a crash, or the end of the program.
Stop ==
  /\ pc # "off"
  /\ pc' = "off" /\ mapped' = "unset" /\ faulty' = FALSE
  /\ Forget
  /\ UNCHANGED <<runs, storage, monitor, published>>

\* What if a name took the first slot whatever it holds?
Get_Slip(b) == IF \E k \in Slots : mem[k].name = b THEN CHOOSE k \in Slots : mem[k].name = b ELSE 1

\* stor_get: the slot of the name, or the first one not in use, or, when all
\* are in use by others, the one behind the buffer, which is made anew at
\* every call.  A record is made in one step.
Get(b) ==
  LET hit == {k \in Slots : mem[k].name \in {b, NoName}}
  IN  IF hit = {} THEN BUFFERLEN + 1 ELSE CHOOSE k \in hit : \A j \in hit : k <= j

\* The call of magma_log, up to prod_canary.  A file that has no size yet is
\* mapped, and the first access to it is fatal.
Log(b, c) ==
  /\ pc = "run" /\ mapped # "no"
  /\ \/ /\ file = "absent" /\ mapped = "unset"
        /\ mapped' = "no"
        /\ UNCHANGED <<pc, slot, condition, mem>>
     \/ /\ file = "empty"
        /\ pc' = "off" /\ mapped' = "unset"
        /\ UNCHANGED <<slot, condition, mem>>
     \/ /\ file = "sized"
        /\ mapped' = "yes"
        /\ slot' = Get(b)
        /\ condition' = c
        /\ mem' = IF Get(b) \in Slots /\ mem[Get(b)].name = b
                    THEN mem ELSE [mem EXCEPT ![Get(b)] = [Zero EXCEPT !.name = b]]
        /\ pc' = "reach"
  /\ UNCHANGED <<file, consumed, faulty, copied, runs, monitor, published>>

Reach ==
  /\ pc = "reach" /\ mem[slot].reached < MaxCount
  /\ mem' = IF faulty THEN mem ELSE [mem EXCEPT ![slot].reached = @ + 1]
  /\ pc' = "trigger"
  /\ UNCHANGED <<file, consumed, mapped, faulty, slot, condition, copied, runs, monitor, published>>

\* What if a fault did not end the counting?
Trigger_Slip ==
  /\ pc = "trigger"
  /\ mem' = IF ~ condition THEN mem ELSE [mem EXCEPT ![slot].triggered = @ + 1]
  /\ pc' = "check"
  /\ UNCHANGED <<file, consumed, mapped, faulty, slot, condition, copied, runs, monitor, published>>

Trigger ==
  /\ pc = "trigger"
  /\ mem' = IF faulty \/ ~ condition THEN mem ELSE [mem EXCEPT ![slot].triggered = @ + 1]
  /\ pc' = "check"
  /\ UNCHANGED <<file, consumed, mapped, faulty, slot, condition, copied, runs, monitor, published>>

\* What if the flag were cleared before the copy?
Check_Slip ==
  /\ pc = "check"
  /\ pc' = IF consumed THEN "copy" ELSE "return"
  /\ consumed' = FALSE
  /\ published' = IF consumed THEN Producer ELSE published
  /\ UNCHANGED <<file, mem, mapped, faulty, slot, condition, copied, runs, monitor>>

Check ==
  /\ pc = "check"
  /\ pc' = IF consumed THEN "copy" ELSE "return"
  /\ UNCHANGED <<mapped, faulty, slot, condition, copied, runs, storage, monitor, published>>

\* memcpy, slot by slot.
Copy ==
  /\ pc = "copy" /\ copied < BUFFERLEN
  /\ copied' = copied + 1
  /\ mem' = [mem EXCEPT ![BUFFERLEN + copied + 1] = mem[copied + 1]]
  /\ UNCHANGED <<file, consumed, pc, mapped, faulty, slot, condition, runs, monitor, published>>

\* The barrier keeps this behind the copy.
Publish ==
  /\ pc = "copy" /\ copied = BUFFERLEN
  /\ consumed' = FALSE
  /\ published' = Producer
  /\ pc' = "return"
  /\ UNCHANGED <<file, mem, mapped, faulty, slot, condition, copied, runs, monitor>>

\* What a process does after a fault is not counted.
Return ==
  /\ pc = "return"
  /\ faulty' = (faulty \/ condition)
  /\ pc' = "run"
  /\ Forget
  /\ UNCHANGED <<mapped, runs, storage, monitor, published>>

---------------------------------------------------------------------------
(* The monitor: one fetch_file after the other *)

\* open(O_CREAT), ftruncate, memset; a file that is there is taken as it is.
Fetch ==
  /\ mon = "idle"
  /\ file' = IF file = "absent" THEN "empty" ELSE file
  /\ mon' = IF file = "absent" THEN "truncate" ELSE "fetch"
  /\ UNCHANGED <<consumed, mem, target, data, fetched, dumped, published>>

Truncate ==
  /\ mon = "truncate"
  /\ file' = "sized" /\ mon' = "memset"
  /\ UNCHANGED <<consumed, mem, target, data, fetched, dumped, published>>

Memset ==
  /\ mon = "memset"
  /\ mem' = [i \in Memory |-> Zero]
  /\ consumed' = FALSE
  /\ mon' = "fetch"
  /\ UNCHANGED <<file, target, data, fetched, dumped, published>>

\* Nothing new: fetch_file fails and run.sh removes the poll.
Look ==
  /\ mon = "fetch"
  /\ mon' = IF consumed THEN "idle" ELSE "read"
  /\ UNCHANGED <<data, fetched, dumped, storage, target, published>>

Read ==
  /\ mon = "read" /\ fetched < BUFFERLEN
  /\ fetched' = fetched + 1
  /\ data' = [data EXCEPT ![fetched + 1] = mem[BUFFERLEN + fetched + 1]]
  /\ UNCHANGED <<mon, dumped, storage, target, published>>

Consume ==
  /\ mon = "read" /\ fetched = BUFFERLEN
  /\ consumed' = TRUE
  /\ dumped' = data
  /\ mon' = "idle" /\ data' = Blank /\ fetched' = 0
  /\ UNCHANGED <<file, mem, target, published>>

---------------------------------------------------------------------------
Init ==
  /\ file = "absent" /\ consumed = FALSE /\ mem = [i \in Memory |-> Zero]
  /\ pc = "off" /\ mapped = "unset" /\ faulty = FALSE
  /\ slot = 1 /\ condition = FALSE /\ copied = 0 /\ runs = 0
  /\ mon = "idle" /\ data = Blank /\ fetched = 0
  /\ published = Blank /\ dumped = Blank

Next ==
  \/ Start \/ Stop
  \/ \E b \in Bugs, c \in BOOLEAN : Log(b, c)
  \/ Reach \/ Trigger \/ Check \/ Copy \/ Publish \/ Return
  \/ Fetch \/ Truncate \/ Memset \/ Look \/ Read \/ Consume

Spec == Init /\ [][Next]_vars

---------------------------------------------------------------------------
(* Properties *)

TypeOK ==
  /\ file \in {"absent", "empty", "sized"} /\ consumed \in BOOLEAN
  /\ mem \in [Memory -> [name : Bugs \cup {NoName}, reached : Nat, triggered : Nat]]
  /\ pc \in {"off", "run", "reach", "trigger", "check", "copy", "return"}
  /\ mapped \in {"unset", "yes", "no"} /\ faulty \in BOOLEAN
  /\ slot \in 1 .. BUFFERLEN + 1 /\ condition \in BOOLEAN
  /\ copied \in 0 .. BUFFERLEN /\ runs \in 0 .. MaxRuns
  /\ mon \in {"idle", "truncate", "memset", "fetch", "read"}
  /\ fetched \in 0 .. BUFFERLEN
  /\ \A d \in {data, published, dumped} :
       d \in [Slots -> [name : Bugs \cup {NoName}, reached : Nat, triggered : Nat]]

\* Every trigger that is counted in the producer buffer, of any bug.
Triggers == UNION {{k} \X (1 .. mem[k].triggered) : k \in Slots}

\* A process counts at most one trigger, of all bugs and over all its inputs:
\* the state behind the first fault is not to be trusted.
TriggersAreRuns == Cardinality(Triggers) <= runs

\* What the monitor prints is the producer buffer as it was when a target
\* cleared the flag: never a mixture of two copies, whatever is killed, while
\* targets go on counting and monitors go on reading without a lock.
DumpIsSnapshot == [][Consume => dumped' = published]_vars

\* From one poll to the next no canary disappears and no count falls.
DumpsOnlyGrow ==
  [][\A k \in Slots :
       dumped[k].name # NoName =>
         /\ dumped'[k].name = dumped[k].name
         /\ dumped'[k].reached >= dumped[k].reached
         /\ dumped'[k].triggered >= dumped[k].triggered]_vars
=============================================================================
