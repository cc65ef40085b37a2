------------------------------ MODULE Campaign ------------------------------
(***************************************************************************)
(* The output directory of afl-fuzz over several sessions, and the sharing *)
(* of finds between the instances of one sync directory                    *)
(* (lyso/repo/afl-fuzz.c: main, maybe_delete_out_dir, setup_dirs_fds,      *)
(* read_testcases, pivot_inputs, nuke_resume_dir, the file writes of       *)
(* save_if_interesting and trim_case, sync_fuzzers).                       *)
(*                                                                         *)
(* Every instance may be killed between two file operations, and started   *)
(* again afresh (-i dir) or in place (-i -).  A test case is reduced to    *)
(* what it covers: two files of one case are interchangeable, and a case   *)
(* is interesting to an instance that has none of it in memory.  Case, id  *)
(* and origin make up the file name, so a name is the pair <<id, case>>.   *)
(***************************************************************************)
EXTENDS Naturals, Sequences, FiniteSets

CONSTANTS
  Fuzzers,    \* the instances, one directory each under sync_dir
  Seeds,      \* the user's input directory: a sequence of cases
  Finds,      \* Finds[f]: the cases that fuzzing by f can come up with
  MaxStarts,  \* bound: how often each instance is started
  MaxTrims,   \* bound: how many entries each instance trims in a session
  NoDir,      \* a directory that does not exist
  NoScan      \* no sync in progress

Cases == {Seeds[i] : i \in 1 .. Len(Seeds)} \cup UNION {Finds[f] : f \in Fuzzers}

ASSUME SeedsAssumption == Seeds \in Seq(Cases) /\ Seeds # <<>>

VARIABLES
  pc,        \* pc[f]: what instance f is doing, "off" when no process runs
  in_place,  \* in_place[f]: in_place_resume, the session was started with -i -
  mem,       \* mem[f]: the queue in memory, position = id + 1
  at,        \* at[f]: the id of the file a save or a trim is writing
  trimmed,   \* trimmed[f]: ids with trim_done set in this session
  scan,      \* scan[f]: the readdir loop of sync_fuzzers
  queue,     \* queue[f]: <out_dir>/queue, id -> [case, full], full FALSE for a file of no bytes
  resume,    \* resume[f]: <out_dir>/_resume, likewise
  synced,    \* synced[f][p]: the number in <out_dir>/.synced/p
  starts,    \* starts[f]: sessions so far; also tells a directory from its successor
  kept,      \* history: cases f finished saving since its last fresh start
  ran,       \* history: cases f ran in the scans its .synced files count
  lost,      \* history: cases a trim unlinked and did not write back
  tainted    \* history: _resume is known not to stand for the queue beside it

memory == <<pc, in_place, mem, at, trimmed, scan>>
disk == <<queue, resume, synced>>
history == <<kept, ran, lost, tainted>>
vars == <<memory, disk, starts, history>>

EmptyDir == [i \in {} |-> [case |-> Seeds[1], full |-> TRUE]]
Names(dir) == IF dir = NoDir THEN {} ELSE {<<i, dir[i].case>> : i \in DOMAIN dir}
FullIds(dir) == IF dir = NoDir THEN {} ELSE {i \in DOMAIN dir : dir[i].full}
FullCases(dir) == {dir[i].case : i \in FullIds(dir)}
OnDisk(f) == FullCases(queue[f]) \cup FullCases(resume[f])

Put(dir, i, c, full) ==
  [j \in DOMAIN dir \cup {i} |-> IF j = i THEN [case |-> c, full |-> full] ELSE dir[j]]
Unlink(dir, i) == [j \in DOMAIN dir \ {i} |-> dir[j]]

InMemory(f) == {mem[f][i] : i \in 1 .. Len(mem[f])}
NextId(f) == Len(mem[f]) - 1   \* the id of the entry added last

Go(f, state) == pc' = [pc EXCEPT ![f] = state]

---------------------------------------------------------------------------
(* Start and end of a session *)

\* rename(queue, _resume), its errors ignored: it replaces nothing but an empty
\* directory.
MoveQueueAside(f) ==
  IF queue[f] # NoDir /\ (resume[f] = NoDir \/ DOMAIN resume[f] = {})
    THEN /\ resume' = [resume EXCEPT ![f] = queue[f]]
         /\ queue' = [queue EXCEPT ![f] = NoDir]
    ELSE UNCHANGED <<queue, resume>>

\* afl-fuzz -i - : what is in queue becomes the input.
StartInPlace(f) ==
  /\ pc[f] = "off" /\ 0 < starts[f] /\ starts[f] < MaxStarts[f]
  /\ starts' = [starts EXCEPT ![f] = @ + 1]
  /\ in_place' = [in_place EXCEPT ![f] = TRUE]
  /\ MoveQueueAside(f)
  /\ Go(f, "clear")
  /\ UNCHANGED <<mem, at, trimmed, scan, synced, history>>

\* afl-fuzz -i dir, on a directory that is new or holds no more than
\* OUTPUT_GRACE minutes of work: .synced goes first.
StartAfresh(f) ==
  /\ pc[f] = "off" /\ starts[f] < MaxStarts[f]
  /\ starts' = [starts EXCEPT ![f] = @ + 1]
  /\ in_place' = [in_place EXCEPT ![f] = FALSE]
  /\ synced' = [synced EXCEPT ![f] = [p \in Fuzzers |-> 0]]
  /\ Go(f, "clear")
  /\ kept' = [kept EXCEPT ![f] = {}]
  /\ ran' = [ran EXCEPT ![f] = {}]
  /\ lost' = [lost EXCEPT ![f] = {}]
  /\ tainted' = [tainted EXCEPT ![f] = Names(resume[f]) # {}]
  /\ UNCHANGED <<mem, at, trimmed, scan, queue, resume>>

\* delete_files(queue): one unlink at a time in directory order, then rmdir.
ClearQueue(f) ==
  /\ pc[f] = "clear"
  /\ \/ /\ queue[f] # NoDir
        /\ \E i \in DOMAIN queue[f] : queue' = [queue EXCEPT ![f] = Unlink(@, i)]
        /\ UNCHANGED pc
     \/ /\ Names(queue[f]) = {}
        /\ queue' = [queue EXCEPT ![f] = NoDir]
        /\ Go(f, "read")
  /\ UNCHANGED <<in_place, mem, at, trimmed, scan, resume, synced, starts, history>>

\* The non-empty files of a directory in alphabetical order.
Listed(dir) ==
  LET ids == FullIds(dir)
      Nth(k) == CHOOSE i \in ids : Cardinality({j \in ids : j < i}) = k - 1
  IN  [k \in 1 .. Cardinality(ids) |-> dir[Nth(k)].case]

\* mkdir(queue), and the scan of the input directory, which only fills memory.
ReadTestcases(f) ==
  /\ pc[f] = "read"
  /\ queue' = [queue EXCEPT ![f] = EmptyDir]
  /\ LET found == IF in_place[f] THEN Listed(resume[f]) ELSE Seeds
     IN  /\ mem' = [mem EXCEPT ![f] = found]
         /\ Go(f, IF found = <<>> THEN "off" ELSE "pivot")   \* FATAL: no usable test cases
  /\ UNCHANGED <<in_place, at, trimmed, scan, resume, synced, starts, history>>

\* What if an entry kept the id it had in _resume?
PivotInput_Slip(f) ==
  /\ pc[f] = "pivot"
  /\ LET n == Cardinality(DOMAIN queue[f])
         id == IF in_place[f]
                 THEN CHOOSE i \in FullIds(resume[f]) : resume[f][i].case = mem[f][n + 1] ELSE n
     IN  IF n < Len(mem[f])
           THEN /\ queue' = [queue EXCEPT ![f] = Put(@, id, mem[f][n + 1], TRUE)]
                /\ UNCHANGED <<pc, kept>>
           ELSE /\ Go(f, IF in_place[f] THEN "nuke" ELSE "fuzz")
                /\ kept' = [kept EXCEPT ![f] = @ \cup InMemory(f)]
                /\ UNCHANGED queue
  /\ UNCHANGED <<in_place, mem, at, trimmed, scan, resume, synced, starts, ran, lost, tainted>>

\* One link per entry under the id its position gives it.
PivotInput(f) ==
  /\ pc[f] = "pivot"
  /\ LET id == Cardinality(DOMAIN queue[f])
     IN  IF id < Len(mem[f])
           THEN /\ queue' = [queue EXCEPT ![f] = Put(@, id, mem[f][id + 1], TRUE)]
                /\ UNCHANGED <<pc, kept>>
           ELSE /\ Go(f, IF in_place[f] THEN "nuke" ELSE "fuzz")
                /\ kept' = [kept EXCEPT ![f] = @ \cup InMemory(f)]
                /\ UNCHANGED queue
  /\ UNCHANGED <<in_place, mem, at, trimmed, scan, resume, synced, starts, ran, lost, tainted>>

\* nuke_resume_dir: one unlink at a time, then rmdir; the dry run that follows
\* gives memory every entry's coverage.
NukeResume(f) ==
  /\ pc[f] = "nuke"
  /\ \/ /\ \E i \in DOMAIN resume[f] : resume' = [resume EXCEPT ![f] = Unlink(@, i)]
        /\ UNCHANGED pc
     \/ /\ DOMAIN resume[f] = {}
        /\ resume' = [resume EXCEPT ![f] = NoDir]
        /\ Go(f, "fuzz")
  /\ UNCHANGED <<in_place, mem, at, trimmed, scan, queue, synced, starts, history>>

HalfDeleted(f) ==
  pc[f] = "nuke" /\ Names(resume[f]) # {} /\ ~ (InMemory(f) \subseteq FullCases(resume[f]))

\* The process dies, wherever it is: SIGKILL, a crash, a power failure.  (Ctrl-C
\* lets it finish what it is at, and then looks the same.)
Kill(f) ==
  /\ pc[f] # "off"
  /\ Go(f, "off")
  /\ in_place' = [in_place EXCEPT ![f] = FALSE]
  /\ mem' = [mem EXCEPT ![f] = <<>>]
  /\ at' = [at EXCEPT ![f] = 0]
  /\ trimmed' = [trimmed EXCEPT ![f] = {}]
  /\ scan' = [scan EXCEPT ![f] = NoScan]
  /\ tainted' = [tainted EXCEPT ![f] =
       @ \/ HalfDeleted(f)]
  /\ UNCHANGED <<disk, starts, kept, ran, lost>>

---------------------------------------------------------------------------
(* Finds and trims *)

\* add_to_queue comes first, then the calibration; only then is the file
\* created and written.
Keep(f, c) ==
  /\ mem' = [mem EXCEPT ![f] = Append(@, c)]
  /\ Go(f, "create")

Find(f) ==
  /\ pc[f] = "fuzz"
  /\ \E c \in Finds[f] \ InMemory(f) : Keep(f, c)
  /\ UNCHANGED <<in_place, at, trimmed, scan, disk, starts, history>>

CreateFile(f) ==
  /\ pc[f] = "create"
  /\ at' = [at EXCEPT ![f] = NextId(f)]
  /\ queue' = [queue EXCEPT ![f] = Put(@, NextId(f), mem[f][NextId(f) + 1], FALSE)]
  /\ Go(f, "write")
  /\ UNCHANGED <<in_place, mem, trimmed, scan, resume, synced, starts, history>>

\* ck_write, of a saved case and of a trimmed one.
WriteFile(f) ==
  /\ pc[f] = "write"
  /\ LET c == mem[f][at[f] + 1]
     IN  /\ queue' = [queue EXCEPT ![f] = Put(@, at[f], c, TRUE)]
         /\ kept' = [kept EXCEPT ![f] = @ \cup {c}]
         /\ lost' = [lost EXCEPT ![f] = @ \ {c}]
  /\ at' = [at EXCEPT ![f] = 0]
  /\ Go(f, IF scan[f] = NoScan THEN "fuzz" ELSE "sync")
  /\ UNCHANGED <<in_place, mem, trimmed, scan, resume, synced, starts, ran, tainted>>

\* The end of trim_case: unlink the old file, create it again, write it.  An
\* entry is trimmed once in a session.
TrimUnlink(f) ==
  /\ pc[f] = "fuzz" /\ Cardinality(trimmed[f]) < MaxTrims[f]
  /\ \E i \in DOMAIN queue[f] \ trimmed[f] :
       /\ queue' = [queue EXCEPT ![f] = Unlink(@, i)]
       /\ lost' = [lost EXCEPT ![f] = @ \cup {mem[f][i + 1]}]
       /\ at' = [at EXCEPT ![f] = i]
       /\ trimmed' = [trimmed EXCEPT ![f] = @ \cup {i}]
  /\ Go(f, "recreate")
  /\ UNCHANGED <<in_place, mem, scan, resume, synced, starts, kept, ran, tainted>>

TrimCreate(f) ==
  /\ pc[f] = "recreate"
  /\ queue' = [queue EXCEPT ![f] = Put(@, at[f], mem[f][at[f] + 1], FALSE)]
  /\ Go(f, "write")
  /\ UNCHANGED <<in_place, mem, at, trimmed, scan, resume, synced, starts, history>>

---------------------------------------------------------------------------
(* sync_fuzzers *)

\* What if the id next to accept were taken for seen?
SyncOpen_Slip(f, p) ==
  /\ pc[f] = "fuzz" /\ p # f /\ queue[p] # NoDir
  /\ scan' = [scan EXCEPT ![f] =
       [peer |-> p, of |-> starts[p], min |-> synced[f][p] + 1, next |-> synced[f][p],
        left |-> {n \in Names(queue[p]) : n[1] > synced[f][p]}, done |-> {}, ran |-> {}]]
  /\ Go(f, "sync")
  /\ UNCHANGED <<in_place, mem, at, trimmed, disk, starts, history>>

\* opendir of a peer's queue; a peer without one is passed over.
SyncOpen(f, p) ==
  /\ pc[f] = "fuzz" /\ p # f /\ queue[p] # NoDir
  /\ scan' = [scan EXCEPT ![f] =
       [peer |-> p, of |-> starts[p], min |-> synced[f][p], next |-> synced[f][p],
        left |-> {n \in Names(queue[p]) : n[1] >= synced[f][p]}, done |-> {}, ran |-> {}]]
  /\ Go(f, "sync")
  /\ UNCHANGED <<in_place, mem, at, trimmed, disk, starts, history>>

\* What readdir may return next: what was there at opendir, and what was added
\* since, as long as the directory has not been moved away.
Readable(s) ==
  (s.left \cup (IF starts[s.peer] = s.of
                  THEN {n \in Names(queue[s.peer]) : n[1] >= s.min} ELSE {})) \ s.done

\* open() goes by path: after a move it finds the new directory.
Opens(p, n) == n \in Names(queue[p]) /\ n[1] \in FullIds(queue[p])

\* What if the number were written back with every file?
SyncRead_Slip(f) ==
  /\ pc[f] = "sync"
  /\ LET s == scan[f]
     IN  \E n \in Readable(s) :
           /\ scan' = [scan EXCEPT ![f].done = @ \cup {n}, ![f].left = @ \ {n},
                                  ![f].next = IF n[1] >= @ THEN n[1] + 1 ELSE @]
           /\ synced' = [synced EXCEPT ![f][s.peer] = scan'[f].next]
           /\ IF Opens(s.peer, n)
                THEN /\ ran' = [ran EXCEPT ![f] = @ \cup {n[2]}]
                     /\ IF n[2] \in InMemory(f) THEN UNCHANGED <<pc, mem>> ELSE Keep(f, n[2])
                ELSE UNCHANGED <<pc, mem, ran>>
  /\ UNCHANGED <<in_place, at, trimmed, queue, resume, starts, kept, lost, tainted>>

\* The id counts as seen before the file is opened, whatever comes of that.
SyncRead(f) ==
  /\ pc[f] = "sync"
  /\ LET s == scan[f]
     IN  \E n \in Readable(s) :
           LET t == [s EXCEPT !.done = @ \cup {n}, !.left = @ \ {n},
                              !.next = IF n[1] >= @ THEN n[1] + 1 ELSE @]
           IN  IF Opens(s.peer, n)
                 THEN /\ scan' = [scan EXCEPT ![f] = [t EXCEPT !.ran = @ \cup {n[2]}]]
                      /\ IF n[2] \in InMemory(f) THEN UNCHANGED <<pc, mem>> ELSE Keep(f, n[2])
                 ELSE scan' = [scan EXCEPT ![f] = t] /\ UNCHANGED <<pc, mem>>
  /\ UNCHANGED <<in_place, at, trimmed, disk, starts, history>>

\* The end of the listing, when what is left of it has been deleted; only now
\* is the number written back.
Gone(s, n) == n \notin Names(IF starts[s.peer] = s.of THEN queue[s.peer] ELSE resume[s.peer])

SyncEnd(f) ==
  /\ pc[f] = "sync"
  /\ LET s == scan[f]
     IN  /\ \A n \in s.left : Gone(s, n)
         /\ synced' = [synced EXCEPT ![f][s.peer] = s.next]
         /\ ran' = [ran EXCEPT ![f] = @ \cup s.ran]
  /\ scan' = [scan EXCEPT ![f] = NoScan]
  /\ Go(f, "fuzz")
  /\ UNCHANGED <<in_place, mem, at, trimmed, queue, resume, starts, kept, lost, tainted>>

---------------------------------------------------------------------------
Init ==
  /\ pc = [f \in Fuzzers |-> "off"]
  /\ in_place = [f \in Fuzzers |-> FALSE]
  /\ mem = [f \in Fuzzers |-> <<>>]
  /\ at = [f \in Fuzzers |-> 0]
  /\ trimmed = [f \in Fuzzers |-> {}]
  /\ scan = [f \in Fuzzers |-> NoScan]
  /\ queue = [f \in Fuzzers |-> NoDir]
  /\ resume = [f \in Fuzzers |-> NoDir]
  /\ synced = [f \in Fuzzers |-> [p \in Fuzzers |-> 0]]
  /\ starts = [f \in Fuzzers |-> 0]
  /\ kept = [f \in Fuzzers |-> {}]
  /\ ran = [f \in Fuzzers |-> {}]
  /\ lost = [f \in Fuzzers |-> {}]
  /\ tainted = [f \in Fuzzers |-> FALSE]

\* A step of a process that runs and is left alone, other than a new find or trim.
Proceed(f) ==
  \/ ClearQueue(f) \/ ReadTestcases(f) \/ PivotInput(f) \/ NukeResume(f)
  \/ CreateFile(f) \/ WriteFile(f) \/ TrimCreate(f)
  \/ \E p \in Fuzzers : SyncOpen(f, p)
  \/ SyncRead(f) \/ SyncEnd(f)

Next ==
  \E f \in Fuzzers :
    \/ StartInPlace(f) \/ StartAfresh(f) \/ Kill(f)
    \/ Find(f) \/ TrimUnlink(f)
    \/ Proceed(f)

Spec == Init /\ [][Next]_vars

\* A process left alone goes on, and syncs again and again.
FairSpec == Spec /\ \A f \in Fuzzers : WF_vars(Proceed(f))

---------------------------------------------------------------------------
(* Properties *)

Settled(f) == pc[f] \in {"nuke", "fuzz", "sync"}

\* Between two file operations of a session the directory mirrors the queue in
\* memory: the file with id i holds the entry at position i (pivot_inputs,
\* save_if_interesting and trim_case name files by position).
QueueMirrorsMemory ==
  \A f \in Fuzzers : Settled(f) =>
    Names(queue[f]) = {<<i - 1, mem[f][i]>> : i \in 1 .. Len(mem[f])}

\* No kill at any step of any session loses a case that was saved, or that the
\* number in .synced stands for, unless a kill hit the deletion of _resume, a
\* fresh start left an old _resume behind, or the trimmed file of the case was
\* not yet written back: an interrupted sync imports again, and a fresh start
\* forgets what it has seen before it deletes what it has.
NothingIsLost ==
  \A f \in Fuzzers :
    ~ tainted[f] => (kept[f] \cup ran[f]) \ lost[f] \subseteq OnDisk(f)

\* "We temporarily move the old queue/ to a new location that gets deleted once
\* import to the new queue/ is finished ... we want to use the old _resume/":
\* a resumed session has every case that was saved.
ResumeKeepsQueue ==
  \A f \in Fuzzers : kept[f] \ lost[f] \subseteq OnDisk(f)

Passed(f, p, c) == \E i \in FullIds(queue[p]) : queue[p][i].case = c /\ i < synced[f][p]

\* While two instances stay up, what one has saved reaches the other, unless
\* the number in .synced has passed it.
FindsAreShared ==
  \A f \in Fuzzers, p \in Fuzzers, c \in Cases :
    p # f =>
      (<>[](pc[f] # "off" /\ pc[p] # "off") =>
        []<>(c \in FullCases(queue[p]) => c \in InMemory(f) \/ Passed(f, p, c)))
=============================================================================
