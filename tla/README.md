# Lysofuzzing in TLA+

Lyso is a directed grey-box fuzzer: AFL 2.57b extended with *alarms*, lists of
basic blocks that lead to a suspicious place, and with a scheduler that
alternates between exploring the queue and exploiting one alarm.  The program
is `src/lyso` (mostly `src/lyso/repo/afl-fuzz.c`, called *afl-fuzz* below, and
the runtime `src/lyso/repo/llvm_mode/afl-llvm-rt.o.c`, the *runtime*).
`src/magma_dgf` is the benchmark it is evaluated in; its `fuzzers/lyso` is a
second copy of the program.

This directory holds TLA+ modules of the parts of afl-fuzz, of the runtime and
of Magma's canaries that are stateful and hard to test, TLC runs of small
instances, and theorems checked by TLAPS.

## 1. Inventory

### Components, their state and how they interact

| component | code | state | operations | module |
|---|---|---|---|---|
| Step tracking | runtime `__instr_bb` | `cur_alarm_state`, `cur_bb_status_table`, `trace_bb`, re-run request | one call per executed block | `StepTrace` |
| Target execution, fork server | afl-fuzz `run_target`, `handle_timeout`, `handle_stop_sig`; runtime `__afl_start_forkserver`, `__afl_persistent_loop` | two pipes, shared memory, `child_pid`, `child_timed_out`, `child_stopped` | request, fork or SIGCONT, wait, verdict; two signals | `ForkServer` |
| Seed triage | afl-fuzz `save_if_interesting`, `calibrate_case`, `check_cur_uncov_step`, `check_virgin_uncov_step`, `add_to_exploit_queue`, `perform_dry_run` | virgin table, `total_hit`, `exploit_index`, `exploit_state`, exploit queues, heat | what an execution teaches about every alarm | `SeedTriage`, `ExploitFrontier` |
| Exploit heaps | afl-fuzz `heap_push`, `heap_pop`, `rank_queue` | three arrays per alarm, keys and flags of entries | rank, pick, rebuild | `ExploitHeap` |
| Queue scoring | afl-fuzz `update_bitmap_score`, `cull_queue_default`, parts of `fuzz_one` and `trim_case` | `top_rated`, `top_rated_alarm`, reference counts, favored flags, pending counters | score, cull, count down | `QueueScore` |
| Scheduler | afl-fuzz `main`, `cull_queue`, `choose_target`, `run_exploit` | `queue_cur`, `current_entry`, mode, selected alarms | which entry is fuzzed next | `Scheduler` |
| Fuzzing one entry | afl-fuzz `fuzz_one`, `trim_case`, `calculate_score` | buffers, stage counters, effector map, tokens, energy | calibrate, trim, deterministic stages, havoc, splice, way out | `FuzzOne` with `TrimCase`, `DetStages`, `PerfScore`, `Havoc`, `Config` |
| Output directory, resume, synchronisation | afl-fuzz `maybe_delete_out_dir`, `read_testcases`, `pivot_inputs`, `nuke_resume_dir`, `sync_fuzzers`, the file writes of `save_if_interesting` and `trim_case` | `queue`, `_resume`, `.synced` of every instance; the queue in memory | start afresh or in place, find, trim, import; a kill anywhere | `Campaign` |
| Magma canaries and monitor | `magma/src/canary.c`, `storage.c`, `monitor.c` | one shared file: flag, producer and consumer buffer | log, hand over, fetch | `Canary` |

The scheduler calls `fuzz_one` on `queue_cur`; that mutates the entry and hands
each mutant to `common_fuzz_stuff`, which runs the target (fork server, step
tracking) and the triage; the triage queues entries, sets `exec_cksum` and
`cal_failed`, scores them, and pushes them on the exploit queues and heaps the
scheduler ranks.  What is queued is written to the output directory, where
other instances and later sessions read it.  All of afl-fuzz is one thread with
two signal handlers; the runtime is in the target's processes, behind pipes and
shared memory; instances of one campaign share nothing but files.

Not modelled: the alarm tables and distance maps read at start-up, the LLVM
passes and the static distance computation, AFL's companion tools and add-ons,
the target driver, Magma's campaign scripts, and the vendored fuzzers and
targets (section 6 and "components" in `PROJECT.json`).

### What is hard here

* *Re-runs inside loops.*  The binding checks look at shared memory row by row,
  and `get_dyn_distance` re-runs the target in the middle, overwriting the rows
  still to be read and the fault of the caller.  Targets may be nondeterministic,
  and any run may be cut short by the timeout or by Ctrl-C.
* *Signals.*  SIGALRM races with the end of the child it is to kill.
* *Persistent processes* that stop, are resumed, or are dead when they should be
  resumed; a re-run request left in shared memory.
* *Kills and restarts.*  Directories are moved, emptied and filled one file at a
  time, and the next session takes what it finds for the truth; peers read the
  same directories meanwhile.
* *Keys that change in place* in binary heaps, arrays that fill, one flag per
  entry shared by several alarms.
* *Counters and reference counts* kept up to date by distant code.
* *Buffers that are shrunk, grown and restored* by a dozen mutation stages, and
  stages that leave out what an earlier stage is thought to have tried.
* *Progress*: `rank_queue` and `choose_target` are loops without a bound; two
  modes move the same `queue_cur`.
* *Lock-free hand-over* between the canaries and their monitor.

The hazards are listed line by line in `PROJECT.json`, each with the properties
that would notice.

## 2. Modules

A definition named `X_Slip` is the definition `X` with a plausible programming
mistake.  It is not part of any behaviour: it exists to show that a property
notices.

**`SeedTriage`** follows the triage of one input through a program counter
(`pc`: `check_cur`, `check_virgin`, `saved`, `cal_run`, `abort_calibration`,
`cal_return`, `switch`), one step per target run or per alarm of a check loop.
`RunTarget` gives either a complete run of the input or one cut short at any
point; `Runs[x]` may hold several runs (nondeterministic targets).  The edge
bitmap is a free `has_new_bits` answer, checksums are free, heats are zero or
not.  **`ExploitFrontier`** is the abstract promise for deterministic targets:
per alarm a frontier that only advances, and the inputs that stand on it.
`ImplementsFrontier` maps `frontier <- total_hit`, `seeds <- exploit_queue`.

**`ExploitHeap`** has the heaps as sequences, with the sift-up and sift-down of
the source as functions.  A step of `rank_queue` is one iteration of an inner
loop.  `MCExploitHeap` also assumes (so TLC evaluates) that pushing and popping
up to five keys sorts them, in increasing order in both modes.

**`QueueScore`** has the winners of bytes and steps, reference counts, and the
life of an entry: saved, culled, recalibrated, trimmed, fuzzed.  The product
`exec_us * len` is one number; a run is the set of bytes it touches.  Cases the
code treats alike are merged: an entry whose calibration fails counts as having
no saved checksum.  A recalibration in `fuzz_one` that succeeds may still end in
`abandon_entry` (`FAULT_NOBITS`, or the fault of a re-run in the checks); the entry
then counts as fuzzed (`Recalibrate`, `MarkFuzzed`).  Of any entry of the dry run,
whether its runs differ or not, the re-run of the checks may time out after it was
scored: it is written off (`SaveThenWriteOff`, history `written_off`).

**`ForkServer`** interleaves `run_target` (five steps), the server, the process
that executes the input, and both signals.  Runs are numbered, so that verdicts
and traces can be attributed.  The first pass of `__afl_persistent_loop`, which
clears the request, is folded into the fork of a persistent process.  Left out:
the server's start-up with its own timer, fork failures, and dumb mode.

**`StepTrace`** is one run of the instrumented target: `__instr_bb` for each
block, on an ordinary run or on a re-run for a column.  A history variable has
the blocks executed.

**`Scheduler`** is the main loop: explore walks the queue, exploit chooses a
target and fuzzes what `rank_queue` picks.  Runs of the target, those of a failed
calibration included, may heat alarms and unselect them.  Timers and chance tests are free
choices, so are the heats beyond zero or not (any reached alarm may be the
coolest), what the heaps give, and whether explore mode skips an entry.  The
counters that only feed the energy and the status screen are left out.

**`FuzzOne`** is one call of `fuzz_one` that takes its entry.  Its parts are
modules of their own: **`TrimCase`**, one step per run of the target without a
chunk; **`PerfScore`**, `calculate_score` as an operator on the figures it
reads (the power law, a `pow` on doubles, is an interval between its end
points); **`DetStages`**, one step per mutation tried or skipped, with the
effector map, the three tests of what was tried before, user tokens and the
tokens collected on the way; **`Havoc`**, the stacked tweaks, energy that
doubles with finds, and splicing.  **`Config`** has the limits of `config.h`.
Up to havoc the contents of buffers are followed byte by byte; havoc works on
lengths, so contents and the target are forgotten when it starts (`Forget`).
The calibration's outcome is free, `Abandon` stands for every reason to leave a
stage early (Ctrl-C, SIGUSR1, too many timeouts), what a mutant finds is free, and
so is whether splicing is in use.
The choice which parallel instance runs which stages is left out.

**`Campaign`** has, per instance, a program counter and one file operation per
step: a start in place moves `queue` to `_resume`, a fresh one drops `.synced`;
then the old directory is emptied file by file, the input directory is scanned,
entries are linked one by one, and `_resume` is emptied file by file.  Finds
and imports go to memory first and become a file by a create and a write; a
trim is an unlink, a create and a write.  `SyncOpen`, `SyncRead`, `SyncEnd` are
the readdir loop of `sync_fuzzers` over a directory that its owner changes,
moves away or replaces.  `Kill` may come before any step.  A case stands for
what it covers; `kept`, `ran`, `lost` and `tainted` are history, for the
properties.

**`Canary`** has the storage file with its flag and two buffers, a target
process in `magma_log` and the monitor in `fetch_file`; processes are killed
anywhere and started again.  A step of either is one access to the flag, to a count
or to a record; to look for a record and to make one (its name and two zeros) is one
step, and so is the `memset` of the monitor.

`PROJECT.json` ("map") gives the source lines of each definition.

## 3. Runs

| run | instance and bounds | what it shows |
|---|---|---|
| `SeedTriage_var` | alarms of 2 and 1 steps; a seed and an input with three different complete runs, one crashing | `total_hit` counts the covered steps; `exploit_index` is the frontier; reached alarms have seeds; the exploit cycle is long enough for its seeds; nothing is forgotten |
| `SeedTriage_det` | the same alarms; three deterministic inputs on successive frontiers | refinement of `ExploitFrontier`; heat only where there are seeds, "hit" only when all steps are covered |
| `ExploitHeap` | one alarm, capacity 3, up to 4 bindings of 2 entries, distances 0-1, binding counts to 2 | heaps hold seeds of their queue only, keep the order of their comparators after a rebuild, lose nothing but their top |
| `ExploitHeap_shared` | two alarms sharing an entry, capacity 2, keys constant | `rank_queue` ends; no seed starves |
| `QueueScore` | 3 entries, 3 bytes, 2 steps, factors 1-2, one entry with differing runs | reference counts; favored cover; pending counters, bounded from both sides; who holds a slot can be fuzzed, but for the entries the dry run writes off |
| `ForkServer` | 4 runs, persistent or not | traces and verdicts belong to their run; re-run requests; dead processes are reported; `run_target` returns |
| `StepTrace` | all runs of up to 6 blocks out of 4; alarms `<<b1,b2,b1>>` and `<<b2,b3>>`; bytes that wrap at 3 | states are longest prefixes; a re-run traces exactly the suffix |
| `Scheduler` | 2 alarms, 2 to 3 entries, 2 calibration attempts | `fuzz_one` always has an entry; the walk keeps its place; targets take turns; no entry waits for ever |
| `FuzzOne` | bytes of 5 bits, inputs of 1 to 5 bytes, three targets, two dictionaries | trimming keeps the trace; buffers are restored; what is skipped was run by the end of the position; havoc stays in its buffers; energy is bounded |
| `Campaign` | two instances; `f1` is started 3 times and trims once, `f2` started once; a seed and one find | files mirror memory; no kill loses what was saved, but for named exceptions; finds reach the peer |
| `Campaign_resume` | the same, one property without the exceptions | violated: `ResumeKeepsQueue` (section 5) |
| `Canary` | 2 canaries, buffers of 2, counts to 2, 3 processes | the monitor prints what was published, whole; nothing it printed is taken back; one trigger per process |

Why these bounds.  *Alarms*: the rows of a check interact only through the
table a re-run overwrites for the rows after it, so two alarms, one with two
steps, have every such pair.  *Heaps*: capacity 3 with 4 bindings has full
arrays, a root with two children, duplicates and a pop that must choose a child;
sorting is checked for five.  *Scores*: three entries let a winner be replaced,
keep one slot and lose another.  *Runs of the fork server*: the longest
interplay is stop, kill, write off, re-fork, left-over request: four runs.
*Trace bytes* wrap at 3 instead of 256, so that a run of 6 blocks wraps.
*Mutations*: words of four 5-bit bytes stay within TLC's integers, and every
limit of `MCFuzzOne` is the smallest that lets both sides of its test happen:
inputs below and above the trim and effector thresholds, tokens longer and
shorter than the input, files at `MAX_FILE`; the known integers 3 and 96 are each
other's big-endian form, so that one is left out for another that comes later.  *Sessions*: the loss of
`ResumeKeepsQueue` needs a session, a resume that is killed, and another
resume, so three starts; the peer needs one, since what it reads is `f1`'s
directory under every restart of `f1`.  *Canaries*: as many as fit, so that
the last slot is used; three processes let one be killed inside the hand-over
and one be the first to see what it left.
*Bounded counters* (`MaxSeeds`, `MaxBindings`, `MaxFactor`, `MaxRuns`,
`MaxPath`, `MaxPaths`, `MaxFinds`, `MaxStarts`, `MaxTrims`, `MaxCount`,
calibration cycles and attempts) are named constants.
`binding_cnt` saturates at its bound, and so does `current_entry`, which grows
without limit in the code once `run_exploit` moves `queue_cur` back; the
properties are about its value before that.

`CHECK_DEADLOCK FALSE` is given where the system really may stop: `Scheduler`
after Ctrl-C, `Campaign`, `Campaign_resume` and `Canary` when every process has
died and the bound on starts is used up.

### Fairness

* `ExploitHeap`: the loop of `rank_queue` goes on (WF), and for every alarm the
  branch that starts with the overlap heap is taken infinitely often if it can be
  (SF): `UR(100)` does not avoid a branch for ever.  The starvation property is
  about an alarm that is ranked again and again and whose queue has settled.
* `ForkServer`: afl-fuzz's reads and the server go on, and an armed timer
  expires (WF).  Nothing is assumed of the target, which may hang.
* `Scheduler`: the thread goes on (WF); the chance test that skips an entry does
  not skip it for ever and `rank_queue`'s queue branch is taken eventually (SF).
  Nothing is assumed of the mode timers: the fuzzer may explore for ever.
* `Campaign`: a process that is left alone goes on and calls `sync_fuzzers`
  again (WF of `Proceed(f)`, which the main loop does every `SYNC_INTERVAL`
  cycles).  Finds, trims, starts and kills are never required.


## 4. Proofs

TLC checks one small instance of each module; the theorems below hold for every
value of the constants that satisfies the `ASSUME` of the module, which TLC
evaluates in every run.  Six have one more condition.  `HeatIsEarned` and
`QueuesFollowFrontier` are about a `DeterministicTarget`, whose complete runs of
an input make the same progress (runs may still be cut short anywhere), the
assumption under which `ExploitFrontier` is what the queues promise; the run
`SeedTriage_det` is an instance of it.  `NoSeedIsLost` is about entries that are
`Unshared`, on the queue of one alarm at most, as in the run `ExploitHeap`: with
two alarms the rebuild of one makes an entry eligible again that the other has
popped, and TLC refutes `SeedsAreRankedOrFuzzed` in the instance of
`ExploitHeap_shared`; what then remains is `NoSeedStarves`.  `RunsReturn`,
`TargetIsFound` and `SkipsHaveBeenTried` have a hypothesis the prover has no rules
for; it is a state predicate of the module, and no run lists it (see below).  `tlapm`
checks the theorems to the last leaf.  Each follows the same line: an inductive invariant
with the initial states, one lemma per action, and the theorem as a consequence;
a `PTL` step joins them.

| module | theorems | why the property is not inductive by itself |
|---|---|---|
| `SeedTriage_proofs` | `TypeCorrect`, `VirginStaysPrefix`, `HitsAreCounted`, `IndexFollowsFrontier`, `ReachedAlarmsAreSeeded`, `NothingForgotten`, `CyclesCoverSeeds`, `HeatIsEarned`, `QueuesFollowFrontier` | between the steps of one triage `total_hit` is ahead of or behind the virgin table; `Shape` says which `pc` goes with which data, `FrontierInv` what is owed at each `pc`, aborted calibrations included; `CycleInv` allows the one entry a check is about to be queued and not yet counted; for the last two, `ReachInv` says that what a check is about was merged by a complete run and that the shared tables never show more |
| `Runtime_proofs` (about `StepTrace`) | `TraceTypes`, `GreedyIsLongest`, `StatusFollowsState`, `ReRunTracesSuffix` | "no longer prefix embeds" must survive one more block: `EmbedsStep` and `EmbedsShrinks` say how embeddings of a prefix grow and shrink; `PrefixInv` says that `is_prefix` is TRUE exactly when the prefix was complete before the last block |
| `Runtime_proofs` (about `ForkServer`) | `TraceIsOwn`, `VerdictsAreOwn`, `ReRunsAreRequested`, `ServerIsTold`, `ServerTypes`, `NobodyWaitsForEver`, `RunsReturn` | a run goes through the phases free, asked, awaited, reported; the invariant ties pipes, child, flags, timer and run number to the phase, under both signals |
| `Scheduler_proofs` | `SchedulerTypes`, `NeverFuzzesNull`, `WalkKeepsPlace`, `TargetIsFound` | `WalkInv` also says what `queue_cur` may be while a target is exploited |
| `QueueScore_proofs` | `ScoreTypes`, `ReferencesAreCounted`, `FavoredCover`, `PendingIsCounted`, `FavoredAreFuzzable` | `Rated` and `Calibrations` say who may hold a slot; the loops over the bitmap are followed by taking the least byte at which a claim about them would fail (`UpTo`, `Iterates`) |
| `ExploitHeap_proofs` | `TypesHold`, `HeapsRankTheQueue`, `HeapsStayOrdered`, `PopsLoseOnlyTheTop`, `NoSeedIsLost`, `RebuildsGivePicks` | see below |
| `FuzzOne_proofs` | `TrimmingKeepsTrace`, `BuffersAreRestored`, `HavocStaysInBuffer`, `HavocEnergyIsBounded`, `SkipsHaveBeenTried` | about all of `FuzzOne`: `FuzzInv` puts the invariants of the stages in the order of `fuzz_one`; what was skipped says nothing of what was run: `CoverInv` does; see below |
| `Canary_proofs` | `DumpsAreSnapshots`, `DumpsGrow`, `TriggersAreCountedOnce` | what a reader may see at each of its accesses, wherever each writer stands; the first two assume `Fits`: finitely many canaries, no more than `BUFFERLEN`; for the third, a count in the buffer is the number of processes that triggered it, and the writer between its read and its write is the one not counted yet |
| `Campaign_proofs` | `QueueIsMirrored`, `NothingIsEverLost` | `Filed`, `Scanned` and `Safe` say where a case still is while directories are moved, listed, linked and emptied; `ListedAll` counts ranks; assumes `Distinct`, that the null values are no values |

*Scores* (`QueueScore_proofs`).  The pending counters are compared with the entries
they count in both directions.  That `pending_alarm_favored` does not run away rests
on `StepsOutnumber`: when it is set it is ahead of its entries by the steps some of
them won beyond their first, and `MarkKeeps` says that no way out of `fuzz_one`, the
abandoned call of a recalibrated entry included, adds to that.  `FavoredAreFuzzable`
makes no assumption about the runs of an entry: `Calibrations` says that who holds a
slot has not failed since it was scored, or was written off by the dry run.

*Heaps* (`ExploitHeap_proofs`).  `heap_push` shifts the entries on the line from
the new position to the root by one generation, as far down as the new entry does
not rise; `heap_pop` shifts those on a way down from the root.  `Rises` and
`Sinks` say what that does to a heap of any size, without an induction over its
levels: an entry that stays has a place of its own (`Moved`, an injection between
the places of an entry before and after, which needs no order), and the order is
compared at one position and its parent, by cases of which of the two are on the
way.  The way itself (`Climb`, `WayDown`) comes from the least position of the line
at which the comparison stops.  The loop of a rebuild is followed by taking the
first push after which the claim would fail.  `HeapInv` adds to the three
invariants that the overlap heap is never longer than the exploit queue: since
every entry with room is taken, a queue that fits its heaps is ranked completely.

*Liveness.*  `RunsReturn` and `TargetIsFound` are liveness properties under the
fairness of section 3.  The prover has no rules for `ENABLED`, so what it would say
is a hypothesis: `[]GuardsEnable`, that a step of afl-fuzz, of the server and of the
timer is enabled where its guards are true, and `[]ThreadEnabled`, the same of
`choose_target` with a candidate or with alarms to unselect.  Each is a state
predicate of the module.  The runs do not list them, since they speak of the
specification and not of the code; TLC, which can evaluate `ENABLED`, finds them true
in all 14,585 and 41,568 states when they are added to the `INVARIANTS` of
`ForkServer.cfg` and `Scheduler.cfg`.  The rest is proved.  For
`run_target`: asked, the server reads, reaps and starts; then the timer runs, or the
child has ended, or a status is on its way; each of these is left by a fair step and
none comes back in the same run, whatever the target does.  That the phases cover
every state of a run is `NobodyWaitsForEver`.  For `choose_target`: alarms that were
all selected before are unselected in one pass, and the next finds one.  The other
liveness properties need an induction over a measure (entries left in a heap, alarms
not yet selected, entries ahead in the queue, files not yet read) and stay with TLC.
`RebuildsGivePicks` is the safety part of `RankQueueReturns`: what a rebuild leaves
in the overlap heap is there and eligible, for a queue of any length.

*One call of `fuzz_one`* (`FuzzOne_proofs`).  Trimming: the input in memory always
has the recorded checksum, and only `needs_write` lets the file be behind.
Deterministic stages: `Restorable` says where `out_buf` may differ from the input
(the word, or the last token, at the position) and that the tokens to come there are
no shorter than the last, so that what is put back covers them all; this rests on
`maybe_add_auto` sorting the tokens in use by length.  Mutations left out: `CoverInv`
says what has been run when nothing is skipped for `AFL_NO_ARITH` or for a gap in the
map (`Whole`): behind the position every flip, every sum of up to `ARITH_MAX` in both
byte orders and every known integer, and at the position every attempt so far.  That
is what makes a skip harmless: a sum that does not carry is a sum of half the word
(`HalfSum`), what `could_be_arith` accepts is a sum of one part of the word
(`ArithIsSum`), what `could_be_interest` accepts is a known integer somewhere in it or
the little-endian form of one of this position (`InterestIsKnown`), and the stages and
positions that did these come before, or have none (`WordPassed`, `EndStageCovers`).
Words are added modulo a power of `Base`, by quotient and rest (`Splits`); the powers
are `PowersAssumption`, since the provers have no arithmetic of `^`.  What
`could_be_bitflip` accepts is about the exclusive or, a sum over bits that needs an
induction: that it is a walking flip, or straddles bytes, is the hypothesis
`BitflipsAreWalked`.  No run lists it; TLC finds it true in all 768,694 states when
it is added to the `INVARIANTS` of `FuzzOne.cfg`, and false there with
`could_be_bitflip_Slip` in place of `could_be_bitflip`.  For that, limits like those
of `config.h` matter (bytes of four bits at least).  Havoc: `Lengths` and `Energy`
are what each stage hands to the next, splice buffers included.

Types are an invariant of every module.  They are theorems for `SeedTriage`,
`StepTrace`, `ForkServer`, `ExploitHeap`, `Scheduler` and `QueueScore`, conjuncts of the
invariants proved for the other modules with proofs, and model-checked where a run lists them.
`VirginIsPrefix` (in `VirginStaysPrefix`) and `StatusIsPrefix` (in
`StatusFollowsState`) are shown by proof only.

Only model-checked:

* liveness under fairness that needs a measure: `RankQueueReturns`, `NoSeedStarves`,
  `NoAlarmStarves`, `NoEntryWaitsForever` and `FindsAreShared`;
* that pushing and popping sorts (`HeapSorts` in `MCExploitHeap`): an induction
  over the number of entries.

Neither proved nor in a run are the three hypotheses `GuardsEnable` and
`ThreadEnabled` (about `ENABLED`) and `BitflipsAreWalked` (the exclusive or of words
is a fold, and what a fold computes is an induction over its set): theorems that
rest on them are as good as the separate checks described above.

No module declares a `RECURSIVE` operator: recursion is by functions and folds.

## 5. Where code and comments disagree

*The finding* (run `Campaign_resume`, property `ResumeKeepsQueue`): the comment at
afl-fuzz.c:4813 explains why an existing `_resume` is preferred to `queue` ("the
current queue/ may be incomplete due to an earlier abort").  `_resume` may itself
be incomplete, when the abort came while `nuke_resume_dir` was deleting it; the
next in-place resume then prefers the remains and deletes the complete `queue`.
`NothingIsLost` is the property with this and two other exceptions named.

Seen while modelling, and stated as premises or exceptions of the properties:

* `choose_target` does not return while no alarm has heat (`ChooseTargetReturns`
  has the premise that one does).
* `rank_queue`'s branch for the first entry not fuzzed keeps picking an entry
  whose calibration was given up; `NoEntryWaitsForever` excepts those behind it.
* Trace bytes count modulo 256, and the block of the highest number is neither
  cleared nor read (`SuffixIsTraced`).
* The first pass of a new persistent process clears a re-run request that was
  meant for it (`ReRunMatchesRequest`).
* `current_entry` is stale after `run_exploit` moved `queue_cur`
  (`CurrentEntryIsPosition`).
* The overlap heap has the entry that overlaps least on top: `overlap_cmp(v1, v2)`
  is `v2 > v1`, the order of `distance_cmp`, where the comment at 1718 says "rank
  overlap in decreasing order".  `rank_queue` therefore picks the entry with the
  fewest bindings first.  `HeapSorts` in `MCExploitHeap`, evaluated in both runs of
  `ExploitHeap`, states the order as it is.  `RebuiltHeapsAreOrdered` and the theorem
  `HeapsStayOrdered` are about the sifting, relative to the comparators as they are
  (TLC finds the property true as well with the comparator the comment describes):
  they do not say that the order is the one that was meant.
* `pending_alarm_favored` is counted per step and counted down per entry
  (afl-fuzz.c:1658), so that it may stay above zero when nothing is pending, by a
  bounded number (`PendingCountsHold`).
* Entries the dry run scored and then skipped (3733-3738) hold slots, become favored
  and are never marked fuzzed (`FavoredCanBeFuzzed`).
* `trim_case` restores the bitmap and not the step table (5712); `FavoredCoverBitmap`
  says nothing of the steps of trimmed entries.
* `could_be_bitflip` says that 1-, 2- and 4-bit patterns "are OK anywhere" (5964).
  The flips count bits from the top of each byte, so no stage flips a 2- or 4-bit
  pattern that straddles two bytes of a little-endian word.  With `AFL_NO_ARITH`,
  and where the effector map has gaps, the interesting values left out as
  "reachable by arithmetics" were not run either (`SkipsWereTried`).
* `next_min_accept` is raised before the peer's file is opened, so a file that is
  empty at that moment, or renumbered later, is never imported (`FindsAreShared`).
* A case under the knife of `trim_case` has no file between unlink and write
  (`NothingIsLost`).

Seen, and not the subject of a property:

* The havoc switch has the cases 0 to 21 and draws below 19 without extras, below
  21 with them: case 19, which needs none, is left out without extras, and case
  21, which inserts one, is never drawn.  The comment at 7629 speaks of 15 and 16.
* The 4-byte flip uses `0xFFFFFFF` (7358): 28 bits.
* `calculate_score` tests its density rows in an order in which only the first
  can apply (5901).
* `split_at` may equal the first difference, and the splice is then the target
  file verbatim.
* An entry left early (skip, timeouts) is still marked fuzzed and its
  deterministic stages are not run again.
* In `canary.c`, two processes may set up the file at once, `stor_get` writes
  behind the buffer when all `BUFFERLEN` records are taken, and `magma_faulty`
  freezes the counts for good.

## 6. Not modelled, and the plan

* *Alarm tables and start-up* (afl-fuzz.c:8841-8985): one pass over text files
  into arrays.  `total_alarm` and `max_col_cnt` come from `target.txt`, the table
  from `BBtargets.txt`, and the line that opens an alarm is not checked against
  the first.  The other modules take the tables as constants.
* *LLVM passes, static analysis, distances*: compile-time tools on LLVM's own
  data structures; their result is the constant tables.
* *Companion tools* (`afl-tmin`, `afl-analyze`, `afl-showmap`, `afl-gotcpu`,
  wrappers) and *optional libraries and modes* (libdislocator, libtokencap,
  QEMU): AFL's, unchanged by this program and apart from its core.
* *Target driver, Magma campaign scripts*: start processes and copy files.
* *Vendored fuzzers and targets*: other people's programs, and a copy of
  `src/lyso` in `src/magma_dgf/fuzzers/lyso`.  They are most of the repository's
  lines, which is why the share of lines mapped is small.
* In modelled components: the server's start-up (afl-fuzz.c:2911-3195), dumb mode,
  statistics, the status screen, and the choice which parallel instance runs
  deterministic stages.

What is left, in order: the alarm tables; the start-up of the fork server; the
composition of `Scheduler`, `ExploitHeap` and `SeedTriage`.
