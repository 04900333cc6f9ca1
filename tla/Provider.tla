------------------------------ MODULE Provider ------------------------------
(***************************************************************************)
(* One run of the provider: the adapter (providers/claude.ts), the process  *)
(* group it spawns and tears down (providers/subprocess.ts) and the reading *)
(* of its two pipes (readLines, providers/stream_json.ts).                  *)
(*                                                                         *)
(* The adapter is asynchronous code in one thread.  It waits for the first  *)
(* of: the CLI's exit, an abort, a limit.  An abort or a limit tears the    *)
(* process group down; then both pipes are read to their end, and the run   *)
(* returns.  The CLI may start helpers, which inherit its pipes and its     *)
(* group unless they change them.  What processes do is up to them; what    *)
(* signals do is up to the kernel.                                         *)
(*                                                                         *)
(* Time is left out: a timer may go off whenever it is running.  A line is  *)
(* a unit of output.                                                       *)
(***************************************************************************)
EXTENDS Naturals

CONSTANTS
  Helpers,        \* processes the CLI may start
  MaxLines,       \* bound: lines written in all
  MaxOutput,      \* max_output_bytes
  Limits          \* which limits are configured

Cli == "cli"
Procs == {Cli} \union Helpers
Streams == {"stdout", "stderr"}

ASSUME ProviderAssumption ==
  /\ Cli \notin Helpers
  /\ MaxLines \in Nat /\ MaxOutput \in Nat
  /\ Limits \subseteq {"runtime", "stall", "output"}

VARIABLES
  born, alive,    \* processes
  group,          \* the processes of the CLI's group
  stubborn,       \* those that ignore SIGTERM
  writers,        \* which processes hold the write end of each pipe
  written, read,  \* lines, by pipe
  code,           \* the CLI's exit code
  termed, doomed, \* processes that were sent SIGTERM, SIGKILL
  pc, winner,     \* the adapter's place, and what won its race
  aborted,        \* the abort signal of the job
  outcome

procs == <<born, alive, group, stubborn, writers, written, code>>
adapter == <<read, termed, doomed, pc, winner, aborted, outcome>>
vars == <<procs, adapter>>

Pc == {"start", "race", "term", "kill", "drain", "returned"}
Timeouts == {"runtime", "stall", "output"}
Holders(s) == writers[s] \intersect alive
Total(f) == f["stdout"] + f["stderr"]

Init ==
  /\ born = {} /\ alive = {} /\ group = {} /\ stubborn = {}
  /\ writers = [s \in Streams |-> {}]
  /\ written = [s \in Streams |-> 0] /\ read = [s \in Streams |-> 0]
  /\ code = "none" /\ termed = {} /\ doomed = {}
  /\ pc = "start" /\ winner = "none" /\ aborted = FALSE /\ outcome = "none"

-----------------------------------------------------------------------------
(* The processes.  A process that was sent SIGKILL does nothing any more.   *)

Acts(p) == p \in alive \ doomed

Fork(p, h) ==
  /\ Acts(p) /\ h \in Helpers \ born
  /\ born' = born \union {h} /\ alive' = alive \union {h}
  /\ group' \in {group, IF p \in group THEN group \union {h} ELSE group}
  /\ stubborn' \in {stubborn, stubborn \union {h}}
  /\ \E kept \in SUBSET {s \in Streams : p \in writers[s]} :
       writers' = [s \in Streams |-> IF s \in kept THEN writers[s] \union {h} ELSE writers[s]]
  /\ UNCHANGED <<written, code, adapter>>

Write(p, s) ==
  /\ Acts(p) /\ p \in writers[s] /\ Total(written) < MaxLines
  /\ written' = [written EXCEPT ![s] = @ + 1]
  /\ UNCHANGED <<born, alive, group, stubborn, writers, code, adapter>>

Close(p, s) ==
  /\ Acts(p) /\ p \in writers[s]
  /\ writers' = [writers EXCEPT ![s] = @ \ {p}]
  /\ UNCHANGED <<born, alive, group, stubborn, written, code, adapter>>

Dies(p, how) ==
  /\ alive' = alive \ {p}
  /\ code' = IF p = Cli THEN how ELSE code
  /\ UNCHANGED <<born, group, stubborn, writers, written, adapter>>

Exit(p) == Acts(p) /\ \E how \in {"zero", "nonzero"} : Dies(p, how)
Terminated(p) == p \in (alive \intersect termed) \ stubborn /\ Dies(p, "nonzero")
Killed(p) == p \in alive \intersect doomed /\ Dies(p, "nonzero")

-----------------------------------------------------------------------------
(* The adapter.                                                            *)

Returns(how) == pc' = "returned" /\ outcome' = how

Failed == Returns("failed")

Spawned ==
  /\ pc = "start"
  /\ born' = {Cli} /\ alive' = {Cli} /\ group' = {Cli}
  /\ stubborn' \in {{}, {Cli}}
  /\ writers' = [s \in Streams |-> {Cli}]
  /\ UNCHANGED <<written, code, read, termed, doomed, winner, aborted>>

(* Spawn, record the group's id, listen: no await in between.              *)
Spawn == Spawned /\ pc' = "race" /\ UNCHANGED outcome

(* The prompt is too long, a flag is forbidden or the binary is missing.    *)
SpawnFails ==
  /\ pc = "start" /\ Failed
  /\ UNCHANGED <<procs, read, termed, doomed, winner, aborted>>

(* The write of the group's id throws, inside the same try.                 *)
RecordFails == Spawned /\ Failed

(* kill(-pgid): to every process of the group.                             *)
Group == group \intersect alive

TearDown(cause) ==
  /\ pc = "race"
  /\ winner' = cause /\ pc' = "term" /\ termed' = Group
  /\ UNCHANGED <<doomed, outcome>>

OverLimit(f) == "output" \in Limits /\ Total(f) > MaxOutput

ReadLine(s) ==
  /\ pc \in {"race", "term", "kill", "drain"} /\ read[s] < written[s]
  /\ read' = [read EXCEPT ![s] = @ + 1]
  /\ IF pc = "race" /\ OverLimit(read') THEN TearDown("output")
     ELSE UNCHANGED <<termed, doomed, pc, winner, outcome>>
  /\ UNCHANGED <<procs, aborted>>

TimerUp(limit) ==
  /\ limit \in Limits /\ TearDown(limit)
  /\ UNCHANGED <<procs, read, aborted>>

(* The abort of the job: heard in the race only.                           *)
Cancel ==
  /\ ~aborted /\ aborted' = TRUE
  /\ TearDown("cancel")
  /\ UNCHANGED <<procs, read>>

CancelUnheard ==
  /\ ~aborted /\ pc # "race" /\ pc # "returned" /\ aborted' = TRUE
  /\ UNCHANGED <<procs, read, termed, doomed, pc, winner, outcome>>

ExitSeen ==
  /\ pc = "race" /\ Cli \in born \ alive
  /\ winner' = "exit" /\ pc' = "drain"
  /\ UNCHANGED <<procs, read, termed, doomed, aborted, outcome>>

(* Mutant: the second signal is SIGTERM as well.                           *)
DoomNobody == doomed' = {}

Doom == doomed' = Group

(* grace_ms is over, or an abort during a timeout's teardown cuts it short. *)
GraceOver ==
  /\ pc = "term" /\ pc' = "kill" /\ Doom
  /\ UNCHANGED <<procs, read, termed, winner, aborted, outcome>>

TornDown ==
  /\ pc \in {"term", "kill"} /\ Cli \notin alive /\ pc' = "drain"
  /\ UNCHANGED <<procs, read, termed, doomed, winner, aborted, outcome>>

(* hard_kill_ms is over: teardown throws, the adapter goes on.              *)
GiveUp ==
  /\ pc = "kill" /\ pc' = "drain"
  /\ UNCHANGED <<procs, read, termed, doomed, winner, aborted, outcome>>

(* Mutant: stderr is not waited for.                                       *)
EndedStdout(s) == s = "stdout" => Holders(s) = {} /\ read[s] = written[s]

(* A pipe ends when nobody can write to it and all of it was read.          *)
Ended(s) == Holders(s) = {} /\ read[s] = written[s]

(* Mutant: child.exited is not awaited after the streams.                   *)
ReapedOrNot == TRUE

Reaped == Cli \notin alive

(* Mutant: the signal is looked at when the run is over, not what won.      *)
VerdictBySignal ==
  CASE aborted -> "cancelled"
    [] winner = "exit" /\ code = "zero" -> "succeeded"
    [] OTHER -> "failed"

Verdict ==
  CASE winner = "cancel" -> "cancelled"
    [] winner = "exit" /\ code = "zero" -> "succeeded"
    [] OTHER -> "failed"

Return ==
  /\ pc = "drain" /\ (\A s \in Streams : Ended(s)) /\ Reaped
  /\ Returns(Verdict)
  /\ UNCHANGED <<procs, read, termed, doomed, winner, aborted>>

-----------------------------------------------------------------------------
Process(p) ==
  \/ \E h \in Helpers : Fork(p, h)
  \/ \E s \in Streams : Write(p, s) \/ Close(p, s)
  \/ Exit(p)

Kernel(p) == Terminated(p) \/ Killed(p)

Timer == \E limit \in {"runtime", "stall"} : TimerUp(limit)

Adapter ==
  \/ Spawn \/ SpawnFails \/ RecordFails
  \/ \E s \in Streams : ReadLine(s)
  \/ ExitSeen \/ GraceOver \/ TornDown \/ GiveUp \/ Return

Next ==
  \/ Adapter \/ Timer \/ Cancel \/ CancelUnheard
  \/ \E p \in Procs : Process(p) \/ Kernel(p)

Spec == Init /\ [][Next]_vars

(* The adapter's continuations and timers are run, pipes are read, and      *)
(* processes die of the signals that kill them.  Nothing makes a process    *)
(* exit by itself or a user cancel.                                        *)
Fairness ==
  /\ WF_vars(Adapter) /\ WF_vars(Timer)
  /\ \A s \in Streams : WF_vars(ReadLine(s))
  /\ \A p \in Procs : WF_vars(Kernel(p))

FairSpec == Spec /\ Fairness

-----------------------------------------------------------------------------
(* Properties.                                                             *)

TypeOK ==
  /\ born \subseteq Procs /\ alive \subseteq born
  /\ group \subseteq born /\ stubborn \subseteq born
  /\ writers \in [Streams -> SUBSET born]
  /\ written \in [Streams -> Nat] /\ read \in [Streams -> Nat]
  /\ \A s \in Streams : read[s] <= written[s]
  /\ code \in {"none", "zero", "nonzero"} /\ (code # "none" <=> Cli \in born \ alive)
  /\ termed \subseteq group /\ doomed \subseteq group
  /\ pc \in Pc /\ winner \in {"none", "exit", "cancel"} \union Timeouts
  /\ aborted \in BOOLEAN
  /\ outcome \in {"none", "succeeded", "failed", "cancelled"}
  /\ outcome # "none" <=> pc = "returned"

(* An answer is never cut short: a run that succeeded was read to the last  *)
(* line of both pipes, from the CLI and from whatever it had started, and   *)
(* nothing is written to them any more (claude.ts:238-281).                 *)
AnswerIsWhole ==
  outcome = "succeeded" =>
    code = "zero" /\ \A s \in Streams : read[s] = written[s] /\ Holders(s) = {}

(* Said by providers/subprocess.ts:47-50: the caller awaits the exit or     *)
(* tears the process down before it abandons the handle.  A run that got as *)
(* far as its race never returns beside a CLI that still lives; one whose   *)
(* group's id could not be written does (RecordFails).                     *)
NotAbandoned == pc = "returned" /\ winner # "none" => Cli \notin alive

(* The run as the worker knows it.                                         *)
Place ==
  CASE pc = "start" -> "waiting"
    [] pc = "race" -> "listening"
    [] pc = "returned" -> "over"
    [] OTHER -> "settled"

Says ==
  CASE pc \in {"start", "race"} -> "none"
    [] pc = "returned" -> outcome
    [] OTHER -> Verdict

Run == INSTANCE ProviderRun
         WITH place <- Place, live <- Cli \in alive, asked <- aborted, says <- Says

(* The run keeps what ProviderRun promises the worker: a cancel counts if   *)
(* and only if it comes while the race is on, also when the CLI then exits  *)
(* with code 0 while it is torn down; what will be reported is settled when *)
(* the race is, whatever is torn down, read or asked for afterwards; and it *)
(* is reported when the CLI is dead (types.ts:50-63, claude.ts:207-281).    *)
RefinesRun == Run!Spec

(* With a limit on its runtime every run returns, unless a helper that      *)
(* survived goes on holding a pipe for ever (claude.ts:215-243).           *)
EveryRunReturns ==
  \/ <>(pc = "returned")
  \/ <>[](\E h \in Helpers, s \in Streams : h \in Holders(s))

=============================================================================
