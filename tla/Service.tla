------------------------------ MODULE Service -------------------------------
(***************************************************************************)
(* The process: how it boots (main.ts), the guard of migration 006, the     *)
(* migrator (db/migrator.ts), recovery, the two loops and how they end, and *)
(* the append-only ledger of the control gate that the guard protects.      *)
(*                                                                         *)
(* systemd starts the process again when it fails; an operator replaces the *)
(* build that has the migrations up to OldFile with the one that has one    *)
(* more, in the way docs/OPERATIONS.md describes.  The old build is not in  *)
(* the repository: it is taken to be this one without the guard and with    *)
(* gate rows that name no job, as main.ts says it wrote them.              *)
(*                                                                         *)
(* Jobs are chat messages.  Their order, their cancels and what a run does  *)
(* are in module Worker.                                                   *)
(***************************************************************************)
EXTENDS Naturals, FiniteSets

CONSTANTS
  Jobs,         \* the messages that may come
  OldFile,      \* the last migration of the old build
  StartSchemas, \* migrations the database may have at first: 0 if it is new
  MaxAttempts,  \* jobs.max_attempts
  MaxCrashes,   \* bound: kills of the process
  MaxErrors     \* bound: exceptions of the database

ASSUME ServiceAssumption ==
  /\ OldFile \in Nat \ {0} /\ StartSchemas \subseteq 0 .. OldFile
  /\ MaxAttempts \in Nat \ {0} /\ {MaxCrashes, MaxErrors} \subseteq Nat

VARIABLES
  schema,    \* settings: the migrations recorded as applied
  build,     \* the build that is installed
  phase,     \* of the process, or of its unit when there is none
  polling,   \* the poller's loop goes on
  worker,    \* where the worker's loop is; "gone" when it has ended
  hand,      \* the job the worker has claimed
  jobs,      \* rows of jobs
  gate,      \* rows of control_gate_events for each job, by whether they name it
  idleSeen,  \* the operator has seen the queue empty
  faults     \* crashes and errors so far

process == <<phase, polling, worker, hand>>
vars == <<schema, build, process, jobs, gate, idleSeen, faults>>

LastFile == IF build = "old" THEN OldFile ELSE OldFile + 1

Nobody == "nobody"

Unsent == [status |-> "none", attempts |-> 0, replay |-> FALSE]

Init ==
  /\ schema \in StartSchemas
  /\ build = IF schema = 0 THEN "new" ELSE "old"
  /\ phase = "opening" /\ polling = FALSE /\ worker = "gone" /\ hand = Nobody
  /\ jobs = [j \in Jobs |-> Unsent]
  /\ gate = [j \in Jobs |-> [unnamed |-> 0, named |-> 0]]
  /\ idleSeen = FALSE
  /\ faults = [crashes |-> 0, errors |-> 0]

Open(j) == jobs[j].status \in {"queued", "running"}
Settled(j) == jobs[j].status \in {"succeeded", "over", "interrupted"}

-----------------------------------------------------------------------------
(* Boot.                                                                   *)

(* A bug: only rows of a crashed run count.                                *)
PendingRunning == {j \in Jobs : jobs[j].status = "running"}

(* A bug: whatever did not succeed counts.                                 *)
PendingStill == {j \in Jobs : jobs[j].status \notin {"none", "succeeded"}}

Pending == {j \in Jobs : Open(j)}

(* assertNoPendingProviderRunsBeforeMigration006.  A new database has no    *)
(* settings and no jobs.                                                   *)
Refuses == build = "new" /\ schema \in 1 .. OldFile /\ Pending # {}

Guard ==
  /\ phase = "opening"
  /\ phase' = IF Refuses THEN "failed" ELSE "migrating"
  /\ UNCHANGED <<schema, build, polling, worker, hand, jobs, gate, idleSeen, faults>>

(* One file and its row of settings in one transaction.                    *)
Migrate ==
  /\ phase = "migrating" /\ schema < LastFile
  /\ schema' = schema + 1
  /\ UNCHANGED <<build, process, jobs, gate, idleSeen, faults>>

(* A bug: recovery leaves the rows that are running.                       *)
LeftRunning(j) == jobs[j]

Recovered(j) ==
  IF jobs[j].status # "running" THEN jobs[j]
  ELSE [jobs[j] EXCEPT !.status = IF jobs[j].attempts < MaxAttempts THEN "queued"
                                  ELSE "interrupted"]

(* runStartupRecovery, and the launch of the loops.                        *)
Recover ==
  /\ phase = "migrating" /\ schema >= LastFile
  /\ jobs' = [j \in Jobs |-> Recovered(j)]
  /\ phase' = "running" /\ polling' = TRUE /\ worker' = "idle"
  /\ UNCHANGED <<schema, build, hand, gate, idleSeen, faults>>

NoProcess(ph) == phase' = ph /\ polling' = FALSE /\ worker' = "gone" /\ hand' = Nobody

(* An exception before the loops: main rejects and exits with 1.           *)
BootFails ==
  /\ phase \in {"opening", "migrating"} /\ faults.errors < MaxErrors
  /\ faults' = [faults EXCEPT !.errors = @ + 1]
  /\ NoProcess("failed")
  /\ UNCHANGED <<schema, build, jobs, gate, idleSeen>>

(* The process is killed; during a stop nothing starts it again.           *)
Crash ==
  /\ phase \in {"opening", "migrating", "running", "stopping"} /\ faults.crashes < MaxCrashes
  /\ faults' = [faults EXCEPT !.crashes = @ + 1]
  /\ NoProcess(IF phase = "stopping" THEN "stopped" ELSE "failed")
  /\ UNCHANGED <<schema, build, jobs, gate, idleSeen>>

(* Restart=on-failure.                                                     *)
Restart ==
  /\ phase = "failed"
  /\ phase' = "opening"
  /\ UNCHANGED <<schema, build, polling, worker, hand, jobs, gate, idleSeen, faults>>

-----------------------------------------------------------------------------
(* The loops.                                                              *)

(* A poll commits a message; one that is under way does so after a stop     *)
(* was ordered, too.                                                       *)
Arrive(j) ==
  /\ polling /\ jobs[j].status = "none"
  /\ jobs' = [jobs EXCEPT ![j].status = "queued"]
  /\ UNCHANGED <<schema, build, process, gate, idleSeen, faults>>

PollerEnds ==
  /\ polling /\ phase = "stopping"
  /\ polling' = FALSE
  /\ UNCHANGED <<schema, build, phase, worker, hand, jobs, gate, idleSeen, faults>>

Claim(j) ==
  /\ phase = "running" /\ worker = "idle" /\ jobs[j].status = "queued"
  /\ jobs' = [jobs EXCEPT ![j].status = "running", ![j].attempts = @ + 1]
  /\ worker' = "claimed" /\ hand' = j
  /\ UNCHANGED <<schema, build, phase, polling, gate, idleSeen, faults>>

(* recordControlGateDecision: a row that names the job is written once; the *)
(* old build's rows name none.                                             *)
Recorded(row) ==
  IF build = "old" THEN [row EXCEPT !.unnamed = @ + 1]
  ELSE [row EXCEPT !.named = IF @ = 0 THEN 1 ELSE @]

RecordGate ==
  /\ worker = "claimed"
  /\ gate' = [gate EXCEPT ![hand] = Recorded(@)]
  /\ worker' = "gated"
  /\ UNCHANGED <<schema, build, phase, polling, hand, jobs, idleSeen, faults>>

Released(row) ==
  /\ jobs' = [jobs EXCEPT ![hand] = row]
  /\ worker' = "idle" /\ hand' = Nobody
  /\ UNCHANGED <<schema, build, phase, polling, gate, idleSeen, faults>>

(* The terminal transaction.                                               *)
Finish ==
  /\ worker = "gated"
  /\ \E end \in {"succeeded", "over"} : Released([jobs[hand] EXCEPT !.status = end])

(* The resume fallback: queued again, the attempt given back.              *)
FallBack ==
  /\ worker = "gated" /\ ~ jobs[hand].replay
  /\ Released([status |-> "queued", attempts |-> jobs[hand].attempts - 1, replay |-> TRUE])

(* An exception outside a job's own try: the loop's promise is rejected,    *)
(* Promise.allSettled waits for the poller, and the row stays as it is.     *)
LoopDies ==
  /\ worker # "gone" /\ faults.errors < MaxErrors
  /\ faults' = [faults EXCEPT !.errors = @ + 1]
  /\ worker' = "gone" /\ hand' = Nobody
  /\ UNCHANGED <<schema, build, phase, polling, jobs, gate, idleSeen>>

WorkerEnds ==
  /\ phase = "stopping" /\ worker = "idle"
  /\ worker' = "gone"
  /\ UNCHANGED <<schema, build, phase, polling, hand, jobs, gate, idleSeen, faults>>

(* Both have ended: the database is closed, the exit code is 0.            *)
Exit ==
  /\ phase = "stopping" /\ ~ polling /\ worker = "gone"
  /\ phase' = "stopped"
  /\ UNCHANGED <<schema, build, polling, worker, hand, jobs, gate, idleSeen, faults>>

-----------------------------------------------------------------------------
(* The operator (docs/OPERATIONS.md, "Schema upgrade notes").              *)

Verify ==
  /\ build = "old" /\ phase = "running" /\ ~ idleSeen /\ Pending = {}
  /\ idleSeen' = TRUE
  /\ UNCHANGED <<schema, build, process, jobs, gate, faults>>

(* systemctl stop: SIGTERM.                                                *)
Stop ==
  /\ build = "old" /\ phase = "running" /\ idleSeen
  /\ phase' = "stopping"
  /\ UNCHANGED <<schema, build, polling, worker, hand, jobs, gate, idleSeen, faults>>

Deploy ==
  /\ build = "old" /\ phase = "stopped"
  /\ build' = "new" /\ phase' = "opening"
  /\ UNCHANGED <<schema, polling, worker, hand, jobs, gate, idleSeen, faults>>

(* The guard has fired: back to the old build until the queue is empty.     *)
GoBack ==
  /\ phase = "failed" /\ Refuses
  /\ build' = "old" /\ phase' = "opening" /\ idleSeen' = FALSE
  /\ UNCHANGED <<schema, polling, worker, hand, jobs, gate, faults>>

Boot == Guard \/ Migrate \/ Recover \/ Restart
Loops == RecordGate \/ Finish \/ FallBack \/ PollerEnds \/ WorkerEnds \/ Exit
Operator == Verify \/ Stop \/ Deploy \/ GoBack
Next ==
  \/ Boot \/ BootFails \/ Crash \/ Loops \/ LoopDies \/ Operator
  \/ \E j \in Jobs : Arrive(j) \/ Claim(j)

Spec == Init /\ [][Next]_vars

(* The boot and the loops go on, a run of the provider returns (module      *)
(* Provider), and the operator, once begun, follows the document: systemd   *)
(* may win any number of races against GoBack, but not all of them.         *)
Fairness ==
  /\ WF_vars(Boot) /\ WF_vars(Loops) /\ WF_vars(\E j \in Jobs : Claim(j))
  /\ WF_vars(Verify \/ Stop \/ Deploy) /\ SF_vars(GoBack)
FairSpec == Spec /\ Fairness

-----------------------------------------------------------------------------
(* Properties.                                                             *)

(* Every variable has its type; the loops are those of a booted process, a  *)
(* job in hand is running, and what is queued has an attempt left.         *)
TypeOK ==
  /\ schema \in 0 .. OldFile + 1 /\ build \in {"old", "new"}
  /\ phase \in {"opening", "migrating", "running", "stopping", "stopped", "failed"}
  /\ polling \in BOOLEAN /\ worker \in {"gone", "idle", "claimed", "gated"}
  /\ phase \notin {"running", "stopping"} => worker = "gone" /\ ~ polling
  /\ IF worker \in {"claimed", "gated"} THEN hand \in Jobs /\ jobs[hand].status = "running"
     ELSE hand = Nobody
  /\ jobs \in [Jobs -> [status : {"none", "queued", "running", "succeeded", "over", "interrupted"},
                        attempts : 0 .. MaxAttempts, replay : BOOLEAN]]
  /\ \A j \in Jobs : /\ jobs[j].status \in {"none", "queued"} => jobs[j].attempts < MaxAttempts
                     /\ jobs[j].status = "running" => jobs[j].attempts > 0
  /\ gate \in [Jobs -> [unnamed : Nat, named : Nat]]
  /\ idleSeen \in BOOLEAN
  /\ faults \in [crashes : 0 .. MaxCrashes, errors : 0 .. MaxErrors]

(* The ledger that nothing can correct has one row for a job, whatever is   *)
(* run again after a crash or a fallback and on whichever side of the       *)
(* upgrade; and no run succeeds without its row.                           *)
GateRowsAreSound ==
  \A j \in Jobs :
    /\ gate[j].named <= 1
    /\ gate[j].named = 1 => gate[j].unnamed = 0
    /\ jobs[j].status = "succeeded" => gate[j].named + gate[j].unnamed > 0

(* The worker's loop has ended and its process goes on.                    *)
LoopIsDead == phase = "running" /\ worker = "gone"

(* Each message is settled in the end, through crashes, refusals of the     *)
(* guard and changes of the build, unless the process is left for ever with *)
(* a worker whose loop an exception ended.                                 *)
ServedUnlessLoopIsDead ==
  \A j \in Jobs : (Open(j) ~> Settled(j)) \/ <>[]LoopIsDead

(* The procedure comes to an end though the guard runs before recovery, a   *)
(* stop or a crash may leave rows running, and messages come until the      *)
(* process is down.                                                        *)
UpgradeEnds == <>(schema > OldFile) \/ <>[]LoopIsDead
=============================================================================
