------------------------------- MODULE Worker -------------------------------
(***************************************************************************)
(* The job queue of actwyn: the worker loop (queue/worker.ts) running one  *)
(* job at a time, the poller that enqueues jobs and handles /cancel on the *)
(* same thread, the provider subprocess, process crashes, graceful stops   *)
(* and startup recovery.                                                   *)
(*                                                                         *)
(* One JavaScript thread: the poller runs only where the worker awaits     *)
(* (Awaiting); a crash may fall between any two committed writes, so every *)
(* action ends where the database commits or the worker awaits.  Rows of   *)
(* the jobs table are numbered in the order of their creation, which is    *)
(* the order of scheduled_at and created_at.  The queue's own follow-up    *)
(* jobs (notification_retry, storage_sync) are not modelled here: while    *)
(* one runs, this specification stutters.                                  *)
(***************************************************************************)
EXTENDS Naturals, Sequences, FiniteSets

CONSTANTS
  MaxJobs,       \* bound: rows of the jobs table
  MaxSessions,   \* bound: rows of the sessions table
  MaxAttempts,   \* jobs.max_attempts of the rows the poller inserts
  UserKinds,     \* what the user sends
  MaxCrashes,    \* bound: process crashes
  MaxStops       \* bound: graceful stops

Commands  == {"command", "new"}           \* provider_run rows run locally
Summaries == {"summary", "end", "auto"}   \* summary_generation rows
Kinds     == {"chat"} \union Commands \union Summaries

ASSUME BoundsAssumption ==
  /\ MaxJobs \in Nat \ {0} /\ MaxSessions \in Nat \ {0}
  /\ MaxAttempts \in Nat \ {0} /\ MaxCrashes \in Nat /\ MaxStops \in Nat
  /\ UserKinds \subseteq Kinds \ {"auto"}

JobId == 1 .. MaxJobs
NoJob == 0
SessionId == 1 .. MaxSessions
NoSession == 0

VARIABLES
  kind, session, status, attempts, replay,  \* jobs: a column each; replay is
                                            \* request_json.context_packing_mode
  runs,      \* provider_runs of each job, in order: [resumes, status]
  answers,   \* assistant turns the worker wrote for each job
  notes,     \* outbound_notifications: <<job, notification_type>>
  sessions,  \* number of sessions rows
  open,      \* the active session, or NoSession
  live,      \* <<job, n>>: the process group of the job's n-th run is alive
  pc, cur,   \* where the worker is, and the job it has claimed
  aborted,   \* the claimed job's AbortController
  hearing,   \* ... aborted, and the adapter has had the event
  outcome,   \* what the adapter returned
  swept,     \* the jobs recovery interrupted, kept in memory for the sweep
  stopping,  \* SIGTERM received
  crashes, stops,
  asked,     \* history: jobs a /cancel or a stop was signalled to
  heard,     \* history: ... while the adapter was listening, for the first time in
             \* this run of the job, and no crash since
  strays     \* history: groups a boot was about to kill when it crashed itself

jobsTable == <<kind, session, status, attempts, replay>>
database  == <<jobsTable, runs, answers, notes, sessions, open>>
memory    == <<pc, cur, aborted, hearing, outcome, swept, stopping>>
history   == <<crashes, stops, asked, heard, strays>>
vars      == <<database, live, memory, history>>

Terminal == {"succeeded", "failed", "cancelled", "interrupted"}
Status   == {"absent", "queued", "running"} \union Terminal
RunStatus == {"started", "succeeded", "failed", "cancelled"}
Run == [resumes : JobId \union {NoJob}, status : RunStatus]
NoteTypes == {"job_accepted", "job_completed", "job_failed", "job_cancelled",
              "summary", "restart_accepted", "restart_failed"}
Outcome == [kind : {"succeeded", "failed", "cancelled"}, text : BOOLEAN]
NoOutcome == [kind |-> "failed", text |-> FALSE]

\* The claimed job is still running in the database.
Holding == {"capture", "command", "dispatched", "turned", "accept", "run", "drain"}
\* The worker awaits, so that the poller may run.
Awaiting == {"idle", "capture", "command", "dispatched", "accept", "run",
             "drain", "after", "send"}
Up == Awaiting \union {"turned", "notify"}
Pc == Up \union {"down", "stopped", "sweep"}

Init ==
  /\ kind = [j \in JobId |-> "chat"]
  /\ session = [j \in JobId |-> NoSession]
  /\ status = [j \in JobId |-> "absent"]
  /\ attempts = [j \in JobId |-> 0]
  /\ replay = [j \in JobId |-> FALSE]
  /\ runs = [j \in JobId |-> << >>]
  /\ answers = [j \in JobId |-> 0]
  /\ notes = {} /\ sessions = 0 /\ open = NoSession /\ live = {}
  /\ pc = "idle" /\ cur = NoJob /\ aborted = FALSE /\ hearing = FALSE
  /\ outcome = NoOutcome /\ swept = {} /\ stopping = FALSE
  /\ crashes = 0 /\ stops = 0 /\ asked = {} /\ heard = {} /\ strays = {}

-----------------------------------------------------------------------------
(* Helpers *)

\* The next row of the jobs table: ids are given in order.
Free(j) ==
  /\ status[j] = "absent"
  /\ \A i \in JobId : i < j => status[i] # "absent"

\* ensureActiveSession: the active session, or a new one.
Ensured == IF open # NoSession THEN open ELSE sessions + 1
EnsureActiveSession ==
  /\ Ensured \in SessionId
  /\ open' = Ensured
  /\ sessions' = IF open # NoSession THEN sessions ELSE sessions + 1

Insert(j, k, s) ==
  /\ kind' = [kind EXCEPT ![j] = k]
  /\ session' = [session EXCEPT ![j] = s]
  /\ status' = [status EXCEPT ![j] = "queued"]
  /\ UNCHANGED <<attempts, replay>>

\* endSession touches an active session only.
EndSession(s) == open' = IF open = s THEN NoSession ELSE open

\* The latest succeeded run of the session, whatever the type of its job.
Ended(s) == {k \in JobId : /\ session[k] = s
                           /\ \E i \in 1 .. Len(runs[k]) : runs[k][i].status = "succeeded"}
Latest(s) == {k \in Ended(s) : \A i \in Ended(s) : i <= k}
PriorRun(s) == IF Latest(s) = {} THEN NoJob ELSE CHOOSE k \in Latest(s) : TRUE

\* A bug: the fallback's replay_mode is forgotten on the next claim.
ResumesAgain(j) == IF kind[j] \in Summaries THEN NoJob ELSE PriorRun(session[j])

\* summary_generation, and a job flipped to replay_mode, never resume.
Resumes(j) ==
  IF kind[j] \in Summaries \/ replay[j] THEN NoJob ELSE PriorRun(session[j])

\* A bug: every run of the job is updated, not the one that ended.
WithAll(s, st) == [i \in 1 .. Len(s) |-> [s[i] EXCEPT !.status = st]]

WithLast(s, st) ==
  [i \in 1 .. Len(s) |-> IF i = Len(s) THEN [s[i] EXCEPT !.status = st] ELSE s[i]]
LastRun(j) == <<j, Len(runs[j])>>

-----------------------------------------------------------------------------
(* The poller: one update, one transaction *)

\* A message or a command becomes a row of the jobs table.
Receive(k) ==
  /\ pc \in Awaiting /\ ~stopping
  /\ \E j \in JobId : Free(j) /\ Insert(j, k, Ensured)
  /\ EnsureActiveSession
  /\ UNCHANGED <<runs, answers, notes, live, memory, history>>

\* /cancel: the most recent provider_run row of the session that is not over.
Cancellable == {j \in JobId : /\ session[j] = Ensured
                              /\ kind[j] \notin Summaries
                              /\ status[j] \in {"queued", "running"}}
Target(j) == j \in Cancellable /\ \A i \in Cancellable : i <= j

CancelNothing ==
  /\ pc \in Awaiting /\ ~stopping
  /\ Cancellable = {}
  /\ EnsureActiveSession
  /\ UNCHANGED <<jobsTable, runs, answers, notes, live, memory, history>>

CancelQueued(j) ==
  /\ pc \in Awaiting /\ ~stopping
  /\ Target(j) /\ status[j] = "queued"
  /\ status' = [status EXCEPT ![j] = "cancelled"]
  /\ asked' = asked \union {j}
  /\ EnsureActiveSession
  /\ UNCHANGED <<kind, session, attempts, replay, runs, answers, notes, live,
                 memory, crashes, stops, heard, strays>>

\* The adapter listens from the spawn until its race resolves, for an event
\* that a controller fires once, at its first abort.
Listening == pc = "run" /\ ~aborted

\* Abort the claimed job's controller.
Abort ==
  /\ aborted' = TRUE
  /\ hearing' = (hearing \/ Listening)
  /\ asked' = asked \union {cur}
  /\ heard' = IF Listening THEN heard \union {cur} ELSE heard

CancelRunning(j) ==
  /\ pc \in Awaiting /\ ~stopping
  /\ Target(j) /\ status[j] = "running" /\ cur = j
  /\ Abort
  /\ EnsureActiveSession
  /\ UNCHANGED <<jobsTable, runs, answers, notes, live, pc, cur, outcome, swept,
                 stopping, crashes, stops, strays>>

-----------------------------------------------------------------------------
(* The worker *)

Queued == {j \in JobId : status[j] = "queued"}

\* Nothing to do: the loop sleeps and polls again.
Sleep ==
  /\ pc = "idle" /\ ~stopping
  /\ Queued = {}
  /\ UNCHANGED vars

\* A bug: a row queued again waits for the fresh ones.
FreshFirst(j) ==
  \A i \in Queued : attempts[j] < attempts[i] \/ (attempts[j] = attempts[i] /\ j <= i)

Oldest(j) == \A i \in Queued : j <= i

FreshController == aborted' = FALSE /\ hearing' = FALSE

\* The oldest queued row; the attempt is charged here.
Claim(j) ==
  /\ pc = "idle" /\ ~stopping
  /\ j \in Queued /\ Oldest(j)
  /\ status' = [status EXCEPT ![j] = "running"]
  /\ attempts' = [attempts EXCEPT ![j] = @ + 1]
  /\ cur' = j /\ pc' = "capture"
  /\ FreshController
  /\ UNCHANGED <<kind, session, replay, runs, answers, notes, sessions, open, live,
                 outcome, swept, stopping, history>>

\* The capture pass is over; a system command takes its own path.
EnterCommand ==
  /\ pc = "capture" /\ kind[cur] \in Commands
  /\ pc' = "command"
  /\ UNCHANGED <<database, live, cur, aborted, hearing, outcome, swept, stopping, history>>

\* job_accepted is created, then sent.
Accept ==
  /\ pc = "capture" /\ kind[cur] = "chat"
  /\ notes' = notes \union {<<cur, "job_accepted">>}
  /\ pc' = "accept"
  /\ UNCHANGED <<jobsTable, runs, answers, sessions, open, live, cur, aborted,
                 hearing, outcome, swept, stopping, history>>

Compiling ==
  \/ pc = "accept" /\ kind[cur] = "chat"
  \/ pc = "capture" /\ kind[cur] \in Summaries

\* The prompt does not fit: the job fails before any run.
PromptOverflow ==
  /\ Compiling /\ kind[cur] = "chat"
  /\ status' = [status EXCEPT ![cur] = "failed"]
  /\ outcome' = NoOutcome
  /\ pc' = "notify"
  /\ UNCHANGED <<kind, session, attempts, replay, runs, answers, notes, sessions,
                 open, live, cur, aborted, hearing, swept, stopping, history>>

NewRun == Append(runs[cur], [resumes |-> Resumes(cur), status |-> "started"])

\* The run's row is inserted, the subprocess spawned, its group recorded; the
\* adapter adds its abort listener without looking at signal.aborted.
StartRun ==
  /\ Compiling
  /\ runs' = [runs EXCEPT ![cur] = NewRun]
  /\ live' = live \union {<<cur, Len(runs[cur]) + 1>>}
  /\ pc' = "run"
  /\ UNCHANGED <<jobsTable, answers, notes, sessions, open, cur, aborted, hearing,
                 outcome, swept, stopping, history>>

\* The spawn throws: a failed outcome, and no subprocess.
SpawnFails ==
  /\ Compiling
  /\ runs' = [runs EXCEPT ![cur] = NewRun]
  /\ outcome' = NoOutcome
  /\ pc' = "drain"
  /\ UNCHANGED <<jobsTable, answers, notes, sessions, open, live, cur, aborted,
                 hearing, swept, stopping, history>>

\* The subprocess exits before the adapter hears an abort.
ProviderExits ==
  /\ pc = "run" /\ ~hearing
  /\ \E k \in {"succeeded", "failed"}, t \in BOOLEAN : outcome' = [kind |-> k, text |-> t]
  /\ live' = live \ {LastRun(cur)}
  /\ pc' = "drain"
  /\ UNCHANGED <<database, cur, aborted, hearing, swept, stopping, history>>

\* The adapter heard the abort: SIGTERM, grace, SIGKILL, then the exit.
TearDown ==
  /\ pc = "run" /\ hearing
  /\ \E t \in BOOLEAN : outcome' = [kind |-> "cancelled", text |-> t]
  /\ live' = live \ {LastRun(cur)}
  /\ pc' = "drain"
  /\ UNCHANGED <<database, cur, aborted, hearing, swept, stopping, history>>

LoopAgain == pc' = IF stopping THEN "stopped" ELSE "idle"

\* A bug: a cancelled resume falls back as well.
FellBackCancelled == outcome.kind # "succeeded" /\ runs[cur][Len(runs[cur])].resumes # NoJob

FellBack ==
  /\ outcome.kind = "failed"
  /\ runs[cur][Len(runs[cur])].resumes # NoJob

\* A failed resume: the same row goes back in replay_mode, uncharged.
ResumeFallback ==
  /\ pc = "drain" /\ FellBack
  /\ runs' = [runs EXCEPT ![cur] = WithLast(@, "failed")]
  /\ status' = [status EXCEPT ![cur] = "queued"]
  /\ attempts' = [attempts EXCEPT ![cur] = IF @ = 0 THEN 0 ELSE @ - 1]
  /\ replay' = [replay EXCEPT ![cur] = TRUE]
  /\ cur' = NoJob
  /\ LoopAgain
  /\ UNCHANGED <<kind, session, answers, notes, sessions, open, live, aborted,
                 hearing, outcome, swept, stopping, history>>

\* A bug: only a successful /end closes its session.
ClosesOnSuccess == kind[cur] = "end" /\ outcome.kind = "succeeded"

ClosesSession == kind[cur] = "end"

\* Transaction T5: the run, the turns, the job, and the session of an /end.
Commit ==
  /\ pc = "drain" /\ ~FellBack
  /\ runs' = [runs EXCEPT ![cur] = WithLast(@, outcome.kind)]
  /\ answers' = IF kind[cur] = "chat" /\ outcome.text
                THEN [answers EXCEPT ![cur] = @ + 1] ELSE answers
  /\ status' = [status EXCEPT ![cur] = outcome.kind]
  /\ IF ClosesSession THEN EndSession(session[cur]) ELSE UNCHANGED open
  /\ pc' = "after"
  /\ UNCHANGED <<kind, session, attempts, replay, notes, sessions, live, cur,
                 aborted, hearing, outcome, swept, stopping, history>>

SummaryPending(s) ==
  \E j \in JobId : /\ session[j] = s /\ kind[j] \in Summaries
                   /\ status[j] \in {"queued", "running"}

\* A successful chat may trigger a summary, unless one is pending.
AutoSummary ==
  /\ pc = "after" /\ kind[cur] = "chat" /\ outcome.kind = "succeeded"
  /\ ~SummaryPending(session[cur])
  /\ \E j \in JobId : Free(j) /\ Insert(j, "auto", session[cur])
  /\ pc' = "notify"
  /\ UNCHANGED <<runs, answers, notes, sessions, open, live, cur, aborted, hearing,
                 outcome, swept, stopping, history>>

NoAutoSummary ==
  /\ pc = "after"
  /\ pc' = "notify"
  /\ UNCHANGED <<database, live, cur, aborted, hearing, outcome, swept, stopping, history>>

NoteType ==
  CASE outcome.kind = "cancelled" -> "job_cancelled"
    [] outcome.kind = "failed" -> "job_failed"
    [] kind[cur] \in Summaries -> "summary"
    [] OTHER -> "job_completed"

\* The notification's rows, in a transaction of their own.
Notify ==
  /\ pc = "notify"
  /\ notes' = notes \union {<<cur, NoteType>>}
  /\ pc' = "send"
  /\ UNCHANGED <<jobsTable, runs, answers, sessions, open, live, cur, aborted,
                 hearing, outcome, swept, stopping, history>>

\* The send is over, with a retry job or without one (Outbound.tla).
Send ==
  /\ pc = "send"
  /\ cur' = NoJob
  /\ LoopAgain
  /\ UNCHANGED <<database, live, aborted, hearing, outcome, swept, stopping, history>>

\* The command's effect: of those modelled here, /new ends the session.
Dispatch ==
  /\ pc = "command"
  /\ IF kind[cur] = "new" THEN EndSession(session[cur]) ELSE UNCHANGED open
  /\ pc' = "dispatched"
  /\ UNCHANGED <<jobsTable, runs, answers, notes, sessions, live, cur, aborted,
                 hearing, outcome, swept, stopping, history>>

\* The command throws: the job fails and nobody is told.
CommandThrows ==
  /\ pc = "command"
  /\ status' = [status EXCEPT ![cur] = "failed"]
  /\ cur' = NoJob
  /\ LoopAgain
  /\ UNCHANGED <<kind, session, attempts, replay, runs, answers, notes, sessions,
                 open, live, aborted, hearing, outcome, swept, stopping, history>>

\* The reply is stored as a turn (a judgment command's reply is not) ...
StoreReply ==
  /\ pc = "dispatched"
  /\ \/ answers' = [answers EXCEPT ![cur] = @ + 1]
     \/ UNCHANGED answers
  /\ pc' = "turned"
  /\ UNCHANGED <<jobsTable, runs, notes, sessions, open, live, cur, aborted,
                 hearing, outcome, swept, stopping, history>>

\* ... and then, in another statement, the job succeeds.
CommandDone ==
  /\ pc = "turned"
  /\ status' = [status EXCEPT ![cur] = "succeeded"]
  /\ outcome' = [kind |-> "succeeded", text |-> TRUE]
  /\ pc' = "notify"
  /\ UNCHANGED <<kind, session, attempts, replay, runs, answers, notes, sessions,
                 open, live, cur, aborted, hearing, swept, stopping, history>>

-----------------------------------------------------------------------------
(* Stops, crashes and boot *)

\* SIGTERM: both loops see the signal; the claimed job's controller is chained.
Stop ==
  /\ pc \in Awaiting /\ ~stopping /\ stops < MaxStops
  /\ stopping' = TRUE /\ stops' = stops + 1
  /\ IF cur # NoJob /\ pc \in Holding THEN Abort
     ELSE UNCHANGED <<aborted, hearing, asked, heard>>
  /\ UNCHANGED <<database, live, pc, cur, outcome, swept, crashes, strays>>

\* The idle loop leaves.
Leave ==
  /\ pc = "idle" /\ stopping
  /\ pc' = "stopped"
  /\ UNCHANGED <<database, live, cur, aborted, hearing, outcome, swept, stopping, history>>

Forget ==
  /\ cur' = NoJob /\ aborted' = FALSE /\ hearing' = FALSE
  /\ outcome' = NoOutcome /\ swept' = {} /\ stopping' = FALSE

\* A bug: the sweep asks the table, where a retried job is no longer interrupted.
OrphansLeftInTable == {g \in live : g[1] \in swept /\ status[g[1]] = "interrupted"}

Orphans == {g \in live : g[1] \in swept}

\* The process dies; detached subprocesses may survive it.  A boot that dies
\* before its sweep forgets whom it was about to kill.
Crash ==
  /\ pc \in Up \union {"sweep"}
  /\ crashes < MaxCrashes /\ crashes' = crashes + 1
  /\ \E survivors \in SUBSET live : live' = survivors
  /\ pc' = "down" /\ Forget
  /\ heard' = IF pc \in Holding THEN heard \ {cur} ELSE heard
  /\ strays' = strays \union Orphans
  /\ UNCHANGED <<database, stops, asked>>

\* A bug: recovery queues failed rows again, too.
StaleOrFailed == {j \in JobId : status[j] \in {"running", "failed"}}
\* A bug: recovery looks only at rows with an attempt left.
StaleRetryable == {j \in JobId : status[j] = "running" /\ attempts[j] < MaxAttempts}

Stale == {j \in JobId : status[j] = "running"}
Retried(j) == attempts[j] < MaxAttempts

\* Recovery's transaction: every running row is interrupted, and queued again
\* when an attempt is left; the user is told either way.
Recover ==
  /\ pc \in {"down", "stopped"}
  /\ status' = [j \in JobId |-> IF j \notin Stale THEN status[j]
                                ELSE IF Retried(j) THEN "queued" ELSE "interrupted"]
  /\ notes' = notes \union
       {<<j, IF Retried(j) THEN "restart_accepted" ELSE "restart_failed">> : j \in Stale}
  /\ pc' = "sweep"
  /\ cur' = NoJob /\ aborted' = FALSE /\ hearing' = FALSE
  /\ outcome' = NoOutcome /\ swept' = Stale /\ stopping' = FALSE
  /\ UNCHANGED <<kind, session, attempts, replay, runs, answers, sessions, open,
                 live, history>>

\* The process groups of the jobs just interrupted are killed.
SweepOrphans ==
  /\ pc = "sweep"
  /\ live' = live \ Orphans
  /\ pc' = "idle" /\ swept' = {}
  /\ UNCHANGED <<database, cur, aborted, hearing, outcome, stopping, history>>

-----------------------------------------------------------------------------
Poller ==
  \/ \E k \in UserKinds : Receive(k)
  \/ CancelNothing
  \/ \E j \in JobId : CancelQueued(j) \/ CancelRunning(j)

CommandStep == Dispatch \/ CommandThrows \/ StoreReply \/ CommandDone
RunStep == PromptOverflow \/ StartRun \/ SpawnFails \/ ResumeFallback \/ Commit
AfterStep == AutoSummary \/ NoAutoSummary \/ Notify \/ Send
Provider == ProviderExits \/ TearDown
WorkerStep ==
  \/ \E j \in JobId : Claim(j)
  \/ EnterCommand \/ Accept
  \/ CommandStep \/ RunStep \/ AfterStep \/ Leave

Next == Poller \/ Sleep \/ WorkerStep \/ Provider \/ Stop \/ Crash \/ Recover \/ SweepOrphans

Spec == Init /\ [][Next]_vars

\* The event loop always runs the worker on; every provider process ends some
\* day (no timeout is configured); systemd restarts a crashed process.
Fairness ==
  /\ WF_vars(WorkerStep)
  /\ WF_vars(Provider)
  /\ WF_vars(pc = "down" /\ Recover)
  /\ WF_vars(SweepOrphans)
FairSpec == Spec /\ Fairness

-----------------------------------------------------------------------------
(* Correctness *)

\* The type of every variable; attempts never exceed the row's max_attempts.
TypeOK ==
  /\ kind \in [JobId -> Kinds]
  /\ session \in [JobId -> SessionId \union {NoSession}]
  /\ status \in [JobId -> Status]
  /\ attempts \in [JobId -> 0 .. MaxAttempts]
  /\ replay \in [JobId -> BOOLEAN]
  /\ runs \in [JobId -> Seq(Run)]
  /\ answers \in [JobId -> Nat]
  /\ notes \subseteq JobId \X NoteTypes
  /\ sessions \in 0 .. MaxSessions
  /\ open \in SessionId \union {NoSession}
  /\ live \subseteq JobId \X (Nat \ {0})
  /\ pc \in Pc
  /\ cur \in JobId \union {NoJob}
  /\ aborted \in BOOLEAN /\ hearing \in BOOLEAN
  /\ outcome \in Outcome
  /\ swept \subseteq JobId
  /\ stopping \in BOOLEAN
  /\ crashes \in 0 .. MaxCrashes /\ stops \in 0 .. MaxStops
  /\ asked \subseteq JobId /\ heard \subseteq JobId
  /\ strays \subseteq JobId \X (Nat \ {0})

\* While the process is up, the one running row is the job the worker holds:
\* no row is left running by an early return, a crash or a restart.
RunningIsOwned ==
  pc # "down" => \A j \in JobId : (status[j] = "running") <=> (j = cur /\ pc \in Holding)

SucceededRuns(j) == {i \in 1 .. Len(runs[j]) : runs[j][i].status = "succeeded"}

\* A job that calls the provider has succeeded exactly when its last run has,
\* and no earlier run of it did: no crash, retry or fallback runs a job again
\* after the provider answered and the answer was recorded.
SucceededExactlyOnce ==
  \A j \in JobId :
    /\ SucceededRuns(j) \subseteq {Len(runs[j])}
    /\ kind[j] \notin Commands =>
         (status[j] = "succeeded" <=> SucceededRuns(j) # {})

\* The user's message gets at most one answer turn over all the runs of its job.
ChatAnsweredOnce == \A j \in JobId : kind[j] = "chat" => answers[j] <= 1

\* Once a resumed run of a job has failed, no later run of it resumes, through
\* crashes and new claims.
NoResumeAfterFailedResume ==
  \A j \in JobId : \A m, n \in 1 .. Len(runs[j]) :
    (m < n /\ runs[j][m].resumes # NoJob /\ runs[j][m].status = "failed")
      => runs[j][n].resumes = NoJob

\* Jobs are served in the order they came, also those that were queued again:
\* no job gets ahead of an older one that still waits or runs.
FirstComeFirstServed ==
  \A i, j \in JobId :
    (i < j /\ status[i] \in {"queued", "running"})
      => status[j] \in {"absent", "queued", "cancelled"}

\* A job ends cancelled only when a /cancel or a stop was meant for it, and if
\* the first of them came while the adapter listened, it holds: unless the
\* process crashes before the commit, the job ends cancelled.
CancelsHold ==
  \A j \in JobId :
    /\ status[j] = "cancelled" => j \in asked
    /\ j \in heard => status[j] \in {"running", "cancelled"}

\* At most one provider process group is alive once boot is over, and it is
\* that of the worker's current run: an orphan never works beside a rerun.
\* Only what a boot that crashed before its sweep had to kill may live on.
OneProviderProcess ==
  pc \notin {"down", "sweep"} =>
    live \ strays \subseteq (IF pc = "run" THEN {LastRun(cur)} ELSE {})

\* A finished /end has closed its session, whatever its outcome, and none but
\* its own: a session is over only if an /end or a /new was sent in it, also
\* when one of them runs late and another session is open by then.
EndClosesSession ==
  /\ \A j \in JobId :
       (kind[j] = "end" /\ status[j] \in {"succeeded", "failed", "cancelled"})
         => open # session[j]
  /\ \A s \in (1 .. sessions) \ {open} :
       \E j \in JobId : session[j] = s /\ kind[j] \in {"end", "new"} /\ status[j] # "absent"

-----------------------------------------------------------------------------
(* What the invariants rest on *)

\* Where the worker holds a job's id.
Working == Holding \union {"after", "notify", "send"}
InRun == pc \in {"run", "drain"}

\* A row that waits can still be claimed, and a row not yet inserted is blank.
RowsOK ==
  \A j \in JobId :
    /\ status[j] = "queued" => attempts[j] < MaxAttempts
    /\ status[j] = "absent" => attempts[j] = 0 /\ runs[j] = << >> /\ ~replay[j]

\* The worker's place fits the job it holds; a flipped job is not resuming.
PlaceOK ==
  /\ pc \in Working <=> cur # NoJob
  /\ pc \in {"command", "dispatched", "turned"} => kind[cur] \in Commands
  /\ pc \in {"accept", "run", "drain"} => kind[cur] \notin Commands
  /\ InRun => /\ runs[cur] # << >>
              /\ runs[cur][Len(runs[cur])].status = "started"
              /\ replay[cur] => runs[cur][Len(runs[cur])].resumes = NoJob

\* Only a succeeded job has a succeeded run.
OnlySucceeded == \A j \in JobId : SucceededRuns(j) # {} => status[j] = "succeeded"

IInv == TypeOK /\ RowsOK /\ PlaceOK /\ RunningIsOwned /\ OnlySucceeded /\ SucceededExactlyOnce

-----------------------------------------------------------------------------
\* The jobs table lives as JobLedger promises.
Ledger == INSTANCE JobLedger WITH flipped <- {j \in JobId : replay[j]}
RefinesLedger == Ledger!Spec

\* Every queued job comes to its end, unless the process is told to stop: no
\* crash, fallback or cancel leaves it waiting or running for ever.
EveryJobSettles ==
  \A j \in JobId : status[j] = "queued" ~> (status[j] \in Terminal \/ stopping)

=============================================================================
