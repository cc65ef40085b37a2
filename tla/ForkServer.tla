----------------------------- MODULE ForkServer -----------------------------
(***************************************************************************)
(* One execution of the target: run_target in afl-fuzz, the fork server    *)
(* that the runtime starts in the target, and the process that executes    *)
(* the input, with the two pipes, the shared memory and the signals        *)
(* between them.                                                           *)
(*                                                                         *)
(* A persistent process stops itself after an input and is resumed for     *)
(* the next one.  The timer of afl-fuzz may expire at any moment between   *)
(* arming it and disarming it: while the process runs, when it has just    *)
(* stopped, crashed or exited, and when its status is already read.        *)
(*                                                                         *)
(* A run that get_dyn_distance makes carries a re-run request in shared    *)
(* memory, which the process picks up when it starts or resumes and is     *)
(* to remove before it ends.  Runs are numbered to tell them apart.        *)
(***************************************************************************)
EXTENDS Integers, Sequences, FiniteSets

CONSTANT MaxRuns   \* bound on the number of runs

ASSUME RunsAssumption == MaxRuns \in Nat

VARIABLES
  is_persistent,
  \* afl-fuzz
  fz,                \* where run_target is
  run,               \* number of the current run
  child_pid,         \* whether it holds a pid (TRUE) or 0
  child_timed_out, prev_timed_out, stop_soon,
  armed,             \* the timer runs
  status,            \* the status read last
  verdict,           \* what the last finished run_target returned
  \* pipes
  ctl, st,
  \* the fork server
  sv,                \* where __afl_start_forkserver is
  child_stopped,
  \* the process that executes the input
  child,             \* its state
  serves,            \* the run it was started or resumed for
  re_run,            \* its copy of the re-run request
  \* shared memory
  re_run_info,       \* re_run_info[0]
  traced,            \* the runs that wrote the trace since it was cleared
  \* history
  requested,         \* get_dyn_distance made this run
  fresh,             \* the process was forked for this run
  dirty              \* a process ended without its clean-up, and no later
                     \* one has cleared the request since

fuzzerVars == <<fz, run, child_pid, child_timed_out, prev_timed_out, armed,
                status, verdict, requested>>
serverVars == <<sv, child_stopped>>
childVars  == <<child, serves, re_run, re_run_info, traced, fresh, dirty>>
vars == <<is_persistent, fuzzerVars, stop_soon, ctl, st, serverVars, childVars>>

Alive == {"running", "stopped"}
(* What waitpid reports: SIGSTOP, exit, SIGKILL, another signal.            *)
Dead  == {"exited", "sigkill", "sigsegv"}

-----------------------------------------------------------------------------
TypeOK ==
  /\ {is_persistent, child_pid, child_timed_out, prev_timed_out, stop_soon, armed,
      child_stopped, re_run, re_run_info, requested, fresh, dirty} \subseteq BOOLEAN
  /\ fz \in {"idle", "wrote", "running", "status", "cleared"}
  /\ {run, serves} \subseteq 0 .. MaxRuns
  /\ status \in Dead \cup {"stopped"}
  /\ verdict \in {"FAULT_NONE", "FAULT_TMOUT", "FAULT_CRASH"}
  /\ ctl \in Seq(BOOLEAN) /\ Len(ctl) <= 1
  /\ st \in Seq(Dead \cup {"pid", "stopped"}) /\ Len(st) <= 2
  /\ sv \in {"read", "reap", "start", "wait", "dead"}
  /\ child \in Alive \cup Dead \cup {"none"}
  /\ traced \subseteq 1 .. MaxRuns

Init ==
  /\ is_persistent \in BOOLEAN
  /\ fz = "idle" /\ run = 0 /\ child_pid = FALSE
  /\ child_timed_out = FALSE /\ prev_timed_out = FALSE /\ stop_soon = FALSE
  /\ armed = FALSE /\ status = "exited" /\ verdict = "FAULT_NONE"
  /\ ctl = <<>> /\ st = <<>>
  /\ sv = "read" /\ child_stopped = FALSE
  /\ child = "none" /\ serves = 0
  /\ re_run = FALSE /\ re_run_info = FALSE /\ traced = {}
  /\ requested = FALSE /\ fresh = FALSE /\ dirty = FALSE

(* kill(child_pid, SIGKILL), which a dead process does not notice.          *)
Killed == IF child \in Alive THEN "sigkill" ELSE child

-----------------------------------------------------------------------------
(* run_target, up to the request; from_distance if get_dyn_distance calls   *)
(* it, which has set re_run_info.                                           *)
Request(from_distance) ==
  /\ fz = "idle" /\ ~stop_soon /\ run < MaxRuns
  /\ run' = run + 1 /\ requested' = from_distance
  /\ re_run_info' = (re_run_info \/ from_distance)
  /\ child_timed_out' = FALSE
  /\ traced' = {}
  /\ ctl' = Append(ctl, prev_timed_out)
  /\ fz' = "wrote"
  /\ UNCHANGED <<is_persistent, child_pid, prev_timed_out, armed, status, verdict,
                 stop_soon, st, serverVars, child, serves, re_run, fresh, dirty>>

ReadPid ==
  /\ fz = "wrote" /\ st # <<>>
  /\ st' = Tail(st) /\ child_pid' = TRUE /\ armed' = TRUE
  /\ fz' = "running"
  /\ UNCHANGED <<is_persistent, run, child_timed_out, prev_timed_out, status,
                 verdict, requested, stop_soon, ctl, serverVars, childVars>>

ReadStatus ==
  /\ fz = "running" /\ st # <<>>
  /\ status' = Head(st) /\ st' = Tail(st)
  /\ fz' = "status"
  /\ UNCHANGED <<is_persistent, run, child_pid, child_timed_out, prev_timed_out,
                 armed, verdict, requested, stop_soon, ctl, serverVars, childVars>>

ClearPid ==
  /\ fz = "status"
  /\ child_pid' = (status = "stopped")
  /\ fz' = "cleared"
  /\ UNCHANGED <<is_persistent, run, child_timed_out, prev_timed_out, armed, status,
                 verdict, requested, stop_soon, ctl, st, serverVars, childVars>>

(* A definition X_Slip is X with a plausible programming mistake; no        *)
(* behaviour uses it, it tests that a property would notice.                *)
Verdict_AnySignal ==
  IF status \in {"sigkill", "sigsegv"} /\ ~stop_soon
    THEN IF child_timed_out THEN "FAULT_TMOUT" ELSE "FAULT_CRASH"
    ELSE "FAULT_NONE"

Verdict ==
  IF status \in {"sigkill", "sigsegv"} /\ ~stop_soon
    THEN IF child_timed_out /\ status = "sigkill" THEN "FAULT_TMOUT" ELSE "FAULT_CRASH"
    ELSE "FAULT_NONE"

(* The timer is disarmed, so that the rest of run_target is not interrupted *)
(* by it.                                                                   *)
Return ==
  /\ fz = "cleared"
  /\ armed' = FALSE
  /\ prev_timed_out' = child_timed_out
  /\ verdict' = Verdict
  /\ fz' = "idle"
  /\ UNCHANGED <<is_persistent, run, child_pid, child_timed_out, status, requested,
                 stop_soon, ctl, st, serverVars, childVars>>

(* The fork server is gone and its pipe is empty: run_target returns 0.     *)
Abort ==
  /\ fz \in {"wrote", "running"} /\ sv = "dead" /\ st = <<>> /\ stop_soon
  /\ verdict' = "FAULT_NONE" /\ fz' = "idle"
  /\ UNCHANGED <<is_persistent, run, child_pid, child_timed_out, prev_timed_out,
                 armed, status, requested, stop_soon, ctl, st, serverVars,
                 childVars>>

(* SIGALRM.                                                                 *)
handle_timeout_Unmarked ==
  /\ armed /\ armed' = FALSE
  /\ child' = IF child_pid THEN Killed ELSE child
  /\ dirty' = (dirty \/ (child_pid /\ child = "running"))
  /\ UNCHANGED <<is_persistent, fz, run, child_pid, child_timed_out, prev_timed_out,
                 status, verdict, requested, stop_soon, ctl, st, serverVars, serves,
                 re_run, re_run_info, traced, fresh>>

handle_timeout ==
  /\ armed /\ armed' = FALSE
  /\ child_timed_out' = (child_timed_out \/ child_pid)
  /\ child' = IF child_pid THEN Killed ELSE child
  /\ dirty' = (dirty \/ (child_pid /\ child = "running"))
  /\ UNCHANGED <<is_persistent, fz, run, child_pid, prev_timed_out, status, verdict,
                 requested, stop_soon, ctl, st, serverVars, serves, re_run,
                 re_run_info, traced, fresh>>

(* Ctrl-C.                                                                  *)
handle_stop_sig ==
  /\ ~stop_soon /\ stop_soon' = TRUE
  /\ child' = IF child_pid THEN Killed ELSE child
  /\ dirty' = (dirty \/ (child_pid /\ child = "running"))
  /\ sv' = "dead"
  /\ UNCHANGED <<is_persistent, fuzzerVars, ctl, st, child_stopped, serves, re_run,
                 re_run_info, traced, fresh>>
-----------------------------------------------------------------------------
(* The fork server: a process that was stopped when afl-fuzz killed it is   *)
(* written off first.                                                       *)
SvRead_NeverWritesOff ==
  /\ sv = "read" /\ ctl # <<>> /\ ctl' = Tail(ctl)
  /\ sv' = "start"
  /\ UNCHANGED <<is_persistent, fuzzerVars, stop_soon, st, child_stopped, childVars>>

SvRead_AlwaysWritesOff ==
  /\ sv = "read" /\ ctl # <<>> /\ ctl' = Tail(ctl)
  /\ IF child_stopped THEN sv' = "reap" /\ child_stopped' = FALSE
                      ELSE sv' = "start" /\ UNCHANGED child_stopped
  /\ UNCHANGED <<is_persistent, fuzzerVars, stop_soon, st, childVars>>

SvRead ==
  /\ sv = "read" /\ ctl # <<>> /\ ctl' = Tail(ctl)
  /\ IF child_stopped /\ Head(ctl) THEN sv' = "reap" /\ child_stopped' = FALSE
                                   ELSE sv' = "start" /\ UNCHANGED child_stopped
  /\ UNCHANGED <<is_persistent, fuzzerVars, stop_soon, st, childVars>>

SvReap ==
  /\ sv = "reap" /\ child \in Dead
  /\ sv' = "start"
  /\ UNCHANGED <<is_persistent, fuzzerVars, stop_soon, ctl, st, child_stopped,
                 childVars>>

(* fork: the new process looks for a request in __afl_manual_init, and the  *)
(* first pass of __afl_persistent_loop forgets it and clears it.            *)
SvFork ==
  /\ sv = "start" /\ ~child_stopped
  /\ child' = "running" /\ serves' = run /\ fresh' = TRUE
  /\ re_run' = (re_run_info /\ ~is_persistent)
  /\ re_run_info' = (re_run_info /\ ~is_persistent)
  /\ dirty' = (dirty /\ ~is_persistent)
  /\ st' = Append(st, "pid") /\ sv' = "wait"
  /\ UNCHANGED <<is_persistent, fuzzerVars, stop_soon, ctl, child_stopped, traced>>

(* SIGCONT: a stopped process goes on behind its raise(SIGSTOP).            *)
SvContinue ==
  /\ sv = "start" /\ child_stopped
  /\ IF child = "stopped"
       THEN child' = "running" /\ serves' = run /\ re_run' = re_run_info
       ELSE UNCHANGED <<child, serves, re_run>>
  /\ fresh' = FALSE
  /\ child_stopped' = FALSE
  /\ st' = Append(st, "pid") /\ sv' = "wait"
  /\ UNCHANGED <<is_persistent, fuzzerVars, stop_soon, ctl, re_run_info, traced,
                 dirty>>

(* waitpid, with WUNTRACED for a persistent target.                         *)
SvWait ==
  /\ sv = "wait" /\ child \in Dead \cup {"stopped"}
  /\ st' = Append(st, child)
  /\ child_stopped' = (child = "stopped")
  /\ sv' = "read"
  /\ UNCHANGED <<is_persistent, fuzzerVars, stop_soon, ctl, childVars>>
-----------------------------------------------------------------------------
(* The instrumentation of the process writes to the trace.                  *)
ChildTraces ==
  /\ child = "running"
  /\ traced' = traced \cup {serves}
  /\ UNCHANGED <<is_persistent, fuzzerVars, stop_soon, ctl, st, serverVars, child,
                 serves, re_run, re_run_info, fresh, dirty>>

CleansUp_Not == UNCHANGED <<re_run, re_run_info>> /\ dirty' = FALSE

CleansUp == re_run' = FALSE /\ re_run_info' = FALSE /\ dirty' = FALSE

(* __afl_persistent_loop, when it is called after an input: the request is  *)
(* removed, then the process stops.                                         *)
ChildStops ==
  /\ child = "running" /\ is_persistent /\ serves \in traced
  /\ child' = "stopped" /\ CleansUp
  /\ UNCHANGED <<is_persistent, fuzzerVars, stop_soon, ctl, st, serverVars, serves,
                 traced, fresh>>

(* main returns, and the destructor runs.                                   *)
ChildExits ==
  /\ child = "running" /\ serves \in traced
  /\ child' = "exited" /\ CleansUp
  /\ UNCHANGED <<is_persistent, fuzzerVars, stop_soon, ctl, st, serverVars, serves,
                 traced, fresh>>

(* _exit, a crash, or a SIGKILL that is not afl-fuzz's.                     *)
ChildDies ==
  /\ child = "running" /\ serves \in traced
  /\ child' \in Dead /\ dirty' = TRUE
  /\ UNCHANGED <<is_persistent, fuzzerVars, stop_soon, ctl, st, serverVars, serves,
                 re_run, re_run_info, traced, fresh>>

Fuzzer ==
  \/ (\E from_distance \in BOOLEAN : Request(from_distance))
  \/ ReadPid \/ ReadStatus \/ ClearPid \/ Return \/ Abort
Server == SvRead \/ SvReap \/ SvFork \/ SvContinue \/ SvWait
Child  == ChildTraces \/ ChildStops \/ ChildExits \/ ChildDies

(* The last run is over.                                                    *)
Done == fz = "idle" /\ (run = MaxRuns \/ stop_soon) /\ UNCHANGED vars

Next == Fuzzer \/ Server \/ Child \/ handle_timeout \/ handle_stop_sig \/ Done

Spec == Init /\ [][Next]_vars

Proceeds == ReadPid \/ ReadStatus \/ ClearPid \/ Return \/ Abort

(* Processes that can go on do, and a timer expires; the target owes        *)
(* nothing.                                                                 *)
Fairness == WF_vars(Proceeds) /\ WF_vars(Server) /\ WF_vars(handle_timeout)

FairSpec == Spec /\ Fairness

(* When they can go on: the guards of these actions, and that a step which  *)
(* is taken with its guard true changes something.                          *)
CanProceed ==
  \/ fz \in {"wrote", "running"} /\ (st # <<>> \/ (sv = "dead" /\ stop_soon))
  \/ fz \in {"status", "cleared"}
CanServe ==
  \/ sv = "read" /\ ctl # <<>>
  \/ sv = "reap" /\ child \in Dead
  \/ sv = "start"
  \/ sv = "wait" /\ child \in Dead \cup {"stopped"}

GuardsEnable ==
  /\ CanProceed => ENABLED <<Proceeds>>_vars
  /\ CanServe => ENABLED <<Server>>_vars
  /\ armed => ENABLED <<handle_timeout>>_vars
-----------------------------------------------------------------------------
Returned == fz = "idle" /\ run > 0 /\ ~stop_soon

(* The trace run_target leaves is the one of this run, whole unless the     *)
(* process was killed: no process of an earlier run has written into it,    *)
(* and the run was not a process that was dead to begin with.               *)
TraceIsOfThisRun ==
  /\ traced \subseteq {run}
  /\ Returned /\ verdict # "FAULT_TMOUT" => traced = {run}

(* A crash is reported for a process that died in this run and that the     *)
(* timer did not kill; a timeout only if the timer expired in this run.     *)
(* A process killed after it had stopped itself is not taken for the crash  *)
(* of the input that is run next.                                           *)
VerdictIsOwn ==
  Returned =>
    /\ verdict = "FAULT_CRASH" =>
         /\ serves = run /\ child \in {"sigkill", "sigsegv"}
         /\ child = "sigkill" => ~child_timed_out
    /\ verdict = "FAULT_TMOUT" => serves = run /\ child = "sigkill" /\ child_timed_out

(* A process re-runs only if it was asked to, or a request was left over by *)
(* a process that ended without its clean-up; and it does if it was asked   *)
(* to, unless it is the first pass of a new persistent process.             *)
ReRunMatchesRequest ==
  child = "running" /\ serves = run =>
    /\ re_run => requested \/ dirty
    /\ requested => re_run \/ (is_persistent /\ fresh)

(* The server believes the process stopped only while it is, or was killed  *)
(* by afl-fuzz, which then says so with the next request.                   *)
StoppedOrTold ==
  child_stopped /\ child # "stopped" /\ fz = "idle" /\ ~stop_soon => prev_timed_out

(* run_target returns, whatever the target does.                            *)
RunReturns == fz = "wrote" ~> fz = "idle"
=============================================================================
