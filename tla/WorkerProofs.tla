---------------------------- MODULE WorkerProofs ----------------------------
(***************************************************************************)
(* Worker.tla for every number of jobs, sessions, attempts, crashes and    *)
(* stops.  IInv is the inductive invariant: the types, what a waiting row  *)
(* and a blank row look like, where the worker may be with which job, and  *)
(* which jobs have a succeeded run.  One lemma per conjunct of IInv shows  *)
(* that no step breaks it.  Each further property has an invariant of its  *)
(* own, in its section, that is inductive relative to IInv.                *)
(***************************************************************************)
EXTENDS Worker, TLAPS

\* Changing the status of the last run keeps the runs a sequence, of the same
\* length, and the earlier runs as they were.
LEMMA WithLastFacts ==
  ASSUME NEW s \in Seq(Run), s # << >>, NEW st \in RunStatus
  PROVE  /\ WithLast(s, st) \in Seq(Run)
         /\ Len(WithLast(s, st)) = Len(s)
         /\ \A i \in 1 .. Len(s) :
              WithLast(s, st)[i] = IF i = Len(s) THEN [s[i] EXCEPT !.status = st] ELSE s[i]
<1> DEFINE entry(i) == IF i = Len(s) THEN [s[i] EXCEPT !.status = st] ELSE s[i]
<1>1. \A i \in 1 .. Len(s) : entry(i) \in Run
  <2> SUFFICES ASSUME NEW i \in 1 .. Len(s) PROVE entry(i) \in Run
    OBVIOUS
  <2>1. s[i] \in Run
    OBVIOUS
  <2>2. [s[i] EXCEPT !.status = st] \in Run
    BY <2>1 DEF Run
  <2> QED BY <2>1, <2>2
<1>2. Len(s) \in Nat
  OBVIOUS
<1>3. WithLast(s, st) = [i \in 1 .. Len(s) |-> entry(i)]
  BY DEF WithLast
<1> HIDE DEF entry
<1>4. WithLast(s, st) \in Seq(Run) /\ Len(WithLast(s, st)) = Len(s)
  BY <1>1, <1>2, <1>3
<1>5. \A i \in 1 .. Len(s) : WithLast(s, st)[i] = entry(i)
  BY <1>3
<1> QED BY <1>4, <1>5 DEF entry

\* The run about to be inserted is well formed.
LEMMA NewRunType ==
  ASSUME TypeOK, cur \in JobId
  PROVE  /\ Resumes(cur) \in JobId \union {NoJob}
         /\ NewRun \in Seq(Run)
         /\ Len(NewRun) = Len(runs[cur]) + 1
<1>1. PriorRun(session[cur]) \in JobId \union {NoJob}
  BY DEF PriorRun, Latest, Ended
<1>2. Resumes(cur) \in JobId \union {NoJob}
  BY <1>1 DEF Resumes
<1>3. [resumes |-> Resumes(cur), status |-> "started"] \in Run
  BY <1>2 DEF Run, RunStatus
<1>4. runs[cur] \in Seq(Run)
  BY DEF TypeOK
<1> QED BY <1>2, <1>3, <1>4 DEF NewRun

-----------------------------------------------------------------------------
(* TypeOK is preserved *)

\* The poller's steps keep the types.
LEMMA TypePoller ==
  ASSUME TypeOK, PlaceOK, RowsOK, Poller
  PROVE  TypeOK'
<1> USE BoundsAssumption DEF TypeOK
<1>1. EnsureActiveSession => /\ open' \in SessionId \union {NoSession}
                             /\ sessions' \in 0 .. MaxSessions
  BY DEF EnsureActiveSession, Ensured, SessionId, NoSession
<1>2. ASSUME NEW k \in UserKinds, Receive(k) PROVE TypeOK'
  <2>1. Ensured \in SessionId /\ k \in Kinds
    BY <1>2 DEF Receive, EnsureActiveSession
  <2>2. PICK j \in JobId : Free(j) /\ Insert(j, k, Ensured)
    BY <1>2 DEF Receive
  <2>3. /\ kind' \in [JobId -> Kinds]
        /\ session' \in [JobId -> SessionId \union {NoSession}]
        /\ status' \in [JobId -> Status]
    BY <2>1, <2>2 DEF Insert, Status
  <2> QED BY <1>1, <1>2, <2>2, <2>3 DEF Receive, Insert, memory, history
<1>3. CancelNothing => TypeOK'
  BY <1>1 DEF CancelNothing, jobsTable, memory, history
<1>4. ASSUME NEW j \in JobId, CancelQueued(j) PROVE TypeOK'
  <2>1. status' \in [JobId -> Status]
    BY <1>4 DEF CancelQueued, Status, Terminal
  <2> QED BY <1>1, <1>4, <2>1 DEF CancelQueued, memory
<1>5. ASSUME NEW j \in JobId, CancelRunning(j) PROVE TypeOK'
  BY <1>1, <1>5 DEF CancelRunning, Abort, Listening, jobsTable
<1> QED BY <1>2, <1>3, <1>4, <1>5 DEF Poller

\* The steps between a claim and the end of a run keep the types.
LEMMA TypeRun ==
  ASSUME TypeOK, PlaceOK, RowsOK, RunStep \/ Provider
  PROVE  TypeOK'
<1> USE BoundsAssumption DEF TypeOK
<1>1. cur \in JobId
  BY DEF PlaceOK, RunStep, Provider, PromptOverflow, StartRun, SpawnFails, Compiling,
         ResumeFallback, Commit, ProviderExits, TearDown, Working, Holding, NoJob
<1>2. CASE PromptOverflow
  <2>1. status' \in [JobId -> Status]
    BY <1>2 DEF PromptOverflow, Status, Terminal
  <2> QED BY <1>2, <2>1 DEF PromptOverflow, history, Pc, Up, Outcome, NoOutcome
<1>3. CASE StartRun
  <2>1. runs' \in [JobId -> Seq(Run)]
    BY <1>1, <1>3, NewRunType DEF StartRun
  <2>2. Len(runs[cur]) + 1 \in Nat \ {0}
    BY <1>1
  <2>3. live' \subseteq JobId \X (Nat \ {0})
    BY <1>1, <1>3, <2>2 DEF StartRun
  <2> QED BY <1>3, <2>1, <2>3 DEF StartRun, jobsTable, history, Pc, Up, Awaiting
<1>4. CASE SpawnFails
  <2>1. runs' \in [JobId -> Seq(Run)]
    BY <1>1, <1>4, NewRunType DEF SpawnFails
  <2> QED BY <1>4, <2>1 DEF SpawnFails, jobsTable, history, Pc, Up, Awaiting, Outcome, NoOutcome
<1>5. CASE ResumeFallback
  <2>1. runs[cur] \in Seq(Run) /\ runs[cur] # << >>
    BY <1>1, <1>5 DEF ResumeFallback, PlaceOK, InRun
  <2>2. runs' \in [JobId -> Seq(Run)]
    BY <1>1, <1>5, <2>1, WithLastFacts DEF ResumeFallback, RunStatus
  <2>3. status' \in [JobId -> Status]
    BY <1>5 DEF ResumeFallback, Status
  <2>4. attempts' \in [JobId -> 0 .. MaxAttempts]
    BY <1>1, <1>5 DEF ResumeFallback
  <2> QED BY <1>5, <2>2, <2>3, <2>4 DEF ResumeFallback, history, LoopAgain, Pc, Up, Awaiting
<1>6. CASE Commit
  <2>1. runs[cur] \in Seq(Run) /\ runs[cur] # << >> /\ outcome.kind \in RunStatus
    BY <1>1, <1>6 DEF Commit, PlaceOK, InRun, Outcome, RunStatus
  <2>2. runs' \in [JobId -> Seq(Run)]
    BY <1>1, <1>6, <2>1, WithLastFacts DEF Commit
  <2>3. status' \in [JobId -> Status]
    BY <1>6 DEF Commit, Outcome, Status, Terminal
  <2>4. answers' \in [JobId -> Nat]
    BY <1>1, <1>6 DEF Commit
  <2> QED BY <1>6, <2>2, <2>3, <2>4 DEF Commit, EndSession, history, Pc, Up, Awaiting
<1>7. CASE ProviderExits
  BY <1>7 DEF ProviderExits, database, jobsTable, history, Pc, Up, Awaiting, Outcome
<1>8. CASE TearDown
  BY <1>8 DEF TearDown, database, jobsTable, history, Pc, Up, Awaiting, Outcome
<1> QED BY <1>2, <1>3, <1>4, <1>5, <1>6, <1>7, <1>8 DEF RunStep, Provider

\* The worker's other steps keep the types.
LEMMA TypeWorker ==
  ASSUME TypeOK, PlaceOK, RowsOK, WorkerStep, ~RunStep
  PROVE  TypeOK'
<1> USE BoundsAssumption DEF TypeOK
<1>1. ASSUME NEW j \in JobId, Claim(j) PROVE TypeOK'
  <2>1. status' \in [JobId -> Status]
    BY <1>1 DEF Claim, Status
  <2>2. attempts[j] + 1 \in 0 .. MaxAttempts
    BY <1>1 DEF Claim, Queued, RowsOK
  <2>3. attempts' \in [JobId -> 0 .. MaxAttempts]
    BY <1>1, <2>2 DEF Claim
  <2> QED BY <1>1, <2>1, <2>3 DEF Claim, FreshController, history, Pc, Up, Awaiting
<1>2. CASE EnterCommand
  BY <1>2 DEF EnterCommand, database, jobsTable, history, Pc, Up, Awaiting
<1>3. CASE Accept
  <2>1. cur \in JobId
    BY <1>3 DEF Accept, PlaceOK, Working, Holding
  <2> QED BY <1>3, <2>1 DEF Accept, jobsTable, history, Pc, Up, Awaiting, NoteTypes
<1>4. CASE CommandStep
  <2>1. cur \in JobId
    BY <1>4 DEF CommandStep, Dispatch, CommandThrows, StoreReply, CommandDone, PlaceOK,
               Working, Holding
  <2>2. CASE Dispatch
    BY <2>2 DEF Dispatch, EndSession, jobsTable, history, Pc, Up, Awaiting
  <2>3. CASE CommandThrows
    <3>1. status' \in [JobId -> Status]
      BY <2>3 DEF CommandThrows, Status, Terminal
    <3> QED BY <2>3, <3>1 DEF CommandThrows, LoopAgain, history, Pc, Up, Awaiting
  <2>4. CASE StoreReply
    <3>1. [answers EXCEPT ![cur] = @ + 1] \in [JobId -> Nat]
      BY <2>1
    <3>2. answers' \in [JobId -> Nat]
      BY <2>4, <3>1 DEF StoreReply
    <3> QED BY <2>4, <3>2 DEF StoreReply, jobsTable, history, Pc, Up
  <2>5. CASE CommandDone
    <3>1. status' \in [JobId -> Status]
      BY <2>5 DEF CommandDone, Status, Terminal
    <3> QED BY <2>5, <3>1 DEF CommandDone, history, Pc, Up, Outcome
  <2> QED BY <1>4, <2>2, <2>3, <2>4, <2>5 DEF CommandStep
<1>5. CASE AfterStep
  <2>1. cur \in JobId
    BY <1>5 DEF AfterStep, AutoSummary, NoAutoSummary, Notify, Send, PlaceOK, Working
  <2>2. CASE AutoSummary
    <3>1. PICK j \in JobId : Free(j) /\ Insert(j, "auto", session[cur])
      BY <2>2 DEF AutoSummary
    <3>2. /\ kind' \in [JobId -> Kinds]
          /\ session' \in [JobId -> SessionId \union {NoSession}]
          /\ status' \in [JobId -> Status]
      BY <2>1, <3>1 DEF Insert, Status, Kinds, Summaries
    <3> QED BY <2>2, <3>1, <3>2 DEF AutoSummary, Insert, history, Pc, Up
  <2>3. CASE NoAutoSummary
    BY <2>3 DEF NoAutoSummary, database, jobsTable, history, Pc, Up
  <2>4. CASE Notify
    <3>1. NoteType \in NoteTypes
      BY DEF NoteType, NoteTypes
    <3> QED BY <2>1, <2>4, <3>1 DEF Notify, jobsTable, history, Pc, Up, Awaiting
  <2>5. CASE Send
    BY <2>5 DEF Send, LoopAgain, database, jobsTable, history, Pc, Up, Awaiting
  <2> QED BY <1>5, <2>2, <2>3, <2>4, <2>5 DEF AfterStep
<1>6. CASE Leave
  BY <1>6 DEF Leave, database, jobsTable, history, Pc
<1> QED BY <1>1, <1>2, <1>3, <1>4, <1>5, <1>6 DEF WorkerStep

\* Stops, crashes and boot keep the types.
LEMMA TypeBoot ==
  ASSUME TypeOK, PlaceOK, Stop \/ Crash \/ Recover \/ SweepOrphans
  PROVE  TypeOK'
<1> USE BoundsAssumption DEF TypeOK
<1>1. CASE Stop
  <2>1. /\ aborted' \in BOOLEAN /\ hearing' \in BOOLEAN
        /\ asked' \subseteq JobId /\ heard' \subseteq JobId
    <3>1. CASE cur # NoJob /\ pc \in Holding
      BY <1>1, <3>1 DEF Stop, Abort, Listening
    <3>2. CASE ~(cur # NoJob /\ pc \in Holding)
      BY <1>1, <3>2 DEF Stop
    <3> QED BY <3>1, <3>2
  <2>2. stops' \in 0 .. MaxStops /\ stopping' \in BOOLEAN
    BY <1>1 DEF Stop
  <2> QED BY <1>1, <2>1, <2>2 DEF Stop, database, jobsTable
<1>2. CASE Crash
  <2>1. live' \subseteq JobId \X (Nat \ {0}) /\ heard' \subseteq JobId
    BY <1>2 DEF Crash
  <2>3. strays' \subseteq JobId \X (Nat \ {0})
    BY <1>2 DEF Crash, Orphans
  <2>2. crashes' \in 0 .. MaxCrashes
    BY <1>2 DEF Crash
  <2> QED BY <1>2, <2>1, <2>2, <2>3 DEF Crash, Forget, database, jobsTable, Pc, Outcome, NoOutcome
<1>3. CASE Recover
  <2>1. status' \in [JobId -> Status]
    BY <1>3 DEF Recover, Status, Terminal
  <2>2. notes' \subseteq JobId \X NoteTypes
    BY <1>3 DEF Recover, NoteTypes, Stale
  <2> QED BY <1>3, <2>1, <2>2 DEF Recover, Stale, history, Pc, Outcome, NoOutcome
<1>4. CASE SweepOrphans
  BY <1>4 DEF SweepOrphans, Orphans, database, jobsTable, history, Pc, Up, Awaiting
<1> QED BY <1>1, <1>2, <1>3, <1>4

LEMMA TypeStep ==
  ASSUME TypeOK, PlaceOK, RowsOK, [Next]_vars
  PROVE  TypeOK'
<1>1. CASE UNCHANGED vars
  BY <1>1 DEF vars, database, jobsTable, memory, history, TypeOK
<1>2. CASE Sleep
  BY <1>1, <1>2 DEF Sleep
<1> QED BY <1>1, <1>2, TypePoller, TypeRun, TypeWorker, TypeBoot DEF Next

-----------------------------------------------------------------------------
(* The other conjuncts of IInv *)

\* The steps that write the jobs table or the provider_runs table.
Writes ==
  \/ \E k \in UserKinds : Receive(k)
  \/ \E j \in JobId : CancelQueued(j) \/ Claim(j)
  \/ RunStep \/ AutoSummary \/ CommandThrows \/ CommandDone \/ Recover

LEMMA OtherSteps ==
  ASSUME [Next]_vars, ~Writes
  PROVE  UNCHANGED <<jobsTable, runs>>
  BY DEF Next, Writes, vars, database, Poller, CancelNothing, CancelRunning, Sleep, WorkerStep,
         EnterCommand, Accept, CommandStep, Dispatch, StoreReply, AfterStep, NoAutoSummary,
         Notify, Send, Leave, Provider, ProviderExits, TearDown, Stop, Crash, SweepOrphans

\* What Insert does to a blank row.
LEMMA InsertFacts ==
  ASSUME TypeOK, RowsOK, NEW j \in JobId, NEW k, NEW s, Free(j), Insert(j, k, s)
  PROVE  /\ status[j] = "absent" /\ status'[j] = "queued"
         /\ attempts[j] = 0 /\ runs[j] = << >> /\ ~replay[j]
         /\ \A i \in JobId : i # j => /\ status'[i] = status[i]
                                      /\ kind'[i] = kind[i]
                                      /\ session'[i] = session[i]
         /\ UNCHANGED <<attempts, replay>>
  BY DEF TypeOK, RowsOK, Free, Insert

\* The steps of a run work on the row the worker holds, which is running.
LEMMA RunFacts ==
  ASSUME TypeOK, PlaceOK, RunningIsOwned, RunStep \/ CommandThrows \/ CommandDone
  PROVE  cur \in JobId /\ status[cur] = "running"
<1>1. pc \in Holding
  BY DEF RunStep, PromptOverflow, StartRun, SpawnFails, Compiling, ResumeFallback, Commit,
         CommandThrows, CommandDone, Holding
<1>2. cur \in JobId
  BY <1>1 DEF PlaceOK, Working, TypeOK
<1> QED BY <1>1, <1>2 DEF RunningIsOwned, Holding

LEMMA RowsStep ==
  ASSUME IInv, [Next]_vars
  PROVE  RowsOK'
<1> USE BoundsAssumption DEF IInv
<1>1. CASE ~Writes
  BY <1>1, OtherSteps DEF RowsOK, jobsTable
<1>2. ASSUME NEW j \in JobId, NEW k, NEW s, Free(j), Insert(j, k, s), UNCHANGED runs
      PROVE  RowsOK'
  BY <1>2, InsertFacts DEF RowsOK
<1>3. ASSUME NEW k \in UserKinds, Receive(k) PROVE RowsOK'
  BY <1>2, <1>3 DEF Receive
<1>4. CASE AutoSummary
  BY <1>2, <1>4 DEF AutoSummary
<1>5. ASSUME NEW j \in JobId, CancelQueued(j) PROVE RowsOK'
  BY <1>5 DEF CancelQueued, RowsOK, TypeOK
<1>6. ASSUME NEW j \in JobId, Claim(j) PROVE RowsOK'
  BY <1>6 DEF Claim, Queued, RowsOK, TypeOK
<1>7. CASE RunStep \/ CommandThrows \/ CommandDone
  <2>1. cur \in JobId /\ status[cur] = "running"
    BY <1>7, RunFacts
  <2>2. CASE StartRun \/ SpawnFails
    BY <2>1, <2>2 DEF StartRun, SpawnFails, jobsTable, RowsOK, TypeOK
  <2>3. CASE PromptOverflow \/ CommandThrows \/ CommandDone
    BY <2>1, <2>3 DEF PromptOverflow, CommandThrows, CommandDone, RowsOK, TypeOK
  <2>4. CASE ResumeFallback
    \* the refund leaves at least one attempt
    <3>1. attempts'[cur] < MaxAttempts
      BY <2>1, <2>4 DEF ResumeFallback, TypeOK
    <3>2. status'[cur] = "queued"
      BY <2>1, <2>4 DEF ResumeFallback, TypeOK
    <3>3. \A j \in JobId \ {cur} : /\ status'[j] = status[j] /\ attempts'[j] = attempts[j]
                                  /\ runs'[j] = runs[j] /\ replay'[j] = replay[j]
      BY <2>1, <2>4 DEF ResumeFallback, TypeOK
    <3> QED BY <3>1, <3>2, <3>3 DEF RowsOK
  <2>5. CASE Commit
    BY <2>1, <2>5 DEF Commit, Outcome, RowsOK, TypeOK
  <2> QED BY <1>7, <2>2, <2>3, <2>4, <2>5 DEF RunStep
<1>8. CASE Recover
  BY <1>8 DEF Recover, Stale, Retried, RowsOK, TypeOK
<1> QED BY <1>1, <1>3, <1>4, <1>5, <1>6, <1>7, <1>8 DEF Writes

\* A row just inserted is not the one the worker holds.
LEMMA HeldRowStays ==
  ASSUME IInv, NEW j \in JobId, NEW k, NEW s, Free(j), Insert(j, k, s), pc \in Holding
  PROVE  kind'[cur] = kind[cur] /\ UNCHANGED replay
<1>1. cur \in JobId /\ status[cur] = "running"
  BY DEF IInv, PlaceOK, Working, RunningIsOwned, Holding, TypeOK
<1> QED BY <1>1, InsertFacts DEF IInv

LEMMA PlaceStep ==
  ASSUME IInv, [Next]_vars
  PROVE  PlaceOK'
<1> USE DEF IInv
<1>1. ASSUME UNCHANGED <<kind, replay, runs, pc, cur>> PROVE PlaceOK'
  BY <1>1 DEF PlaceOK, InRun
<1>2. ASSUME cur' = NoJob, pc' \in {"idle", "stopped", "down", "sweep"} PROVE PlaceOK'
  BY <1>2 DEF PlaceOK, InRun, Working, Holding
<1>3. ASSUME UNCHANGED cur, cur # NoJob, pc' \in {"after", "notify", "send", "capture"}
      PROVE  PlaceOK'
  BY <1>3 DEF PlaceOK, InRun, Working, Holding
<1>4. ASSUME NEW k \in UserKinds, Receive(k) PROVE PlaceOK'
  <2>1. PICK j \in JobId : Free(j) /\ Insert(j, k, Ensured)
    BY <1>4 DEF Receive
  <2>2. UNCHANGED <<runs, pc, cur>>
    BY <1>4 DEF Receive, memory
  <2>3. pc \in Holding => kind'[cur] = kind[cur] /\ replay'[cur] = replay[cur]
    BY <2>1, HeldRowStays
  <2> QED BY <2>2, <2>3 DEF PlaceOK, InRun, Holding
<1>5. CASE CancelNothing \/ \E j \in JobId : CancelQueued(j) \/ CancelRunning(j)
  BY <1>1, <1>5 DEF CancelNothing, CancelQueued, CancelRunning, jobsTable, memory
<1>6. CASE UNCHANGED vars \/ Sleep \/ Stop
  BY <1>1, <1>6 DEF Sleep, Stop, vars, database, jobsTable, memory
<1>7. ASSUME NEW j \in JobId, Claim(j) PROVE PlaceOK'
  <2>1. cur' # NoJob /\ pc' = "capture"
    BY <1>7 DEF Claim, JobId, NoJob
  <2> QED BY <2>1 DEF PlaceOK, InRun, Working, Holding
<1>8. CASE Recover \/ SweepOrphans \/ Crash \/ Leave \/ Send \/ CommandThrows \/ ResumeFallback
  <2>1. cur' = NoJob
    BY <1>8 DEF Recover, SweepOrphans, Crash, Leave, Send, CommandThrows, ResumeFallback, Forget,
                PlaceOK, Working, Holding
  <2>2. pc' \in {"idle", "stopped", "down", "sweep"}
    BY <1>8 DEF Recover, SweepOrphans, Crash, Leave, Send, CommandThrows, ResumeFallback, LoopAgain
  <2> QED BY <1>2, <2>1, <2>2
<1>9. CASE PromptOverflow \/ Commit \/ AutoSummary \/ NoAutoSummary \/ Notify \/ CommandDone
  <2>1. UNCHANGED cur /\ cur # NoJob
    BY <1>9 DEF PromptOverflow, Compiling, Commit, AutoSummary, NoAutoSummary, Notify, CommandDone,
                PlaceOK, Working, Holding
  <2>2. pc' \in {"after", "notify", "send"}
    BY <1>9 DEF PromptOverflow, Commit, AutoSummary, NoAutoSummary, Notify, CommandDone
  <2> QED BY <1>3, <2>1, <2>2
<1>10. CASE EnterCommand
  BY <1>10 DEF EnterCommand, database, jobsTable, PlaceOK, InRun, Working, Holding
<1>11. CASE Accept
  BY <1>11 DEF Accept, jobsTable, PlaceOK, InRun, Working, Holding, Commands
<1>12. CASE Dispatch \/ StoreReply
  BY <1>12 DEF Dispatch, StoreReply, jobsTable, PlaceOK, InRun, Working, Holding
<1>13. CASE StartRun \/ SpawnFails
  <2>1. cur \in JobId
    BY <1>13, RunFacts DEF RunStep
  <2>2. NewRun = Append(runs[cur], [resumes |-> Resumes(cur), status |-> "started"])
    BY DEF NewRun
  <2>3. runs'[cur] = NewRun /\ Len(NewRun) = Len(runs[cur]) + 1
    BY <1>13, <2>1, NewRunType DEF StartRun, SpawnFails, TypeOK
  <2>4. runs[cur] \in Seq(Run)
    BY <2>1 DEF TypeOK
  <2>5. runs'[cur] # << >> /\ runs'[cur][Len(runs'[cur])] = [resumes |-> Resumes(cur), status |-> "started"]
    BY <2>2, <2>3, <2>4
  <2>6. UNCHANGED <<kind, replay, cur>> /\ pc' \in {"run", "drain"}
    BY <1>13 DEF StartRun, SpawnFails, jobsTable
  <2>7. kind[cur] \notin Commands /\ pc \in Working
    BY <1>13 DEF StartRun, SpawnFails, Compiling, PlaceOK, Commands, Summaries, Working, Holding
  <2>8. replay[cur] => Resumes(cur) = NoJob
    BY DEF Resumes
  <2> QED BY <2>5, <2>6, <2>7, <2>8 DEF PlaceOK, InRun, Working, Holding
<1>14. CASE ProviderExits \/ TearDown
  BY <1>14 DEF ProviderExits, TearDown, database, jobsTable, PlaceOK, InRun, Working, Holding
<1> QED
  BY <1>4, <1>5, <1>6, <1>7, <1>8, <1>9, <1>10, <1>11, <1>12, <1>13, <1>14
  DEF Next, Poller, WorkerStep, CommandStep, RunStep, AfterStep, Provider

\* Where the worker goes, it holds the running row, and no other runs.
LEMMA OwnedStep ==
  ASSUME IInv, [Next]_vars
  PROVE  RunningIsOwned'
<1> USE DEF IInv
<1>1. ASSUME UNCHANGED <<status, cur>>, pc' # "down", pc # "down", pc \in Holding <=> pc' \in Holding
      PROVE  RunningIsOwned'
  BY <1>1 DEF RunningIsOwned
<1>2. CASE UNCHANGED vars \/ Sleep \/ CancelNothing \/ (\E j \in JobId : CancelRunning(j)) \/ Stop
  <2>1. UNCHANGED <<status, cur, pc>>
    BY <1>2 DEF vars, database, jobsTable, memory, Sleep, CancelNothing, CancelRunning, Stop
  <2> QED BY <2>1 DEF RunningIsOwned
<1>3. ASSUME NEW j \in JobId, NEW k, NEW s, Free(j), Insert(j, k, s), UNCHANGED cur, pc # "down",
             pc \in Holding <=> pc' \in Holding
      PROVE  RunningIsOwned'
  BY <1>3, InsertFacts DEF RunningIsOwned
<1>4. ASSUME NEW k \in UserKinds, Receive(k) PROVE RunningIsOwned'
  BY <1>3, <1>4 DEF Receive, memory, Awaiting
<1>5. CASE AutoSummary
  BY <1>3, <1>5 DEF AutoSummary, Holding
<1>6. ASSUME NEW j \in JobId, CancelQueued(j) PROVE RunningIsOwned'
  BY <1>6 DEF CancelQueued, memory, RunningIsOwned, TypeOK, Awaiting
<1>7. ASSUME NEW j \in JobId, Claim(j) PROVE RunningIsOwned'
  BY <1>7 DEF Claim, RunningIsOwned, TypeOK, Holding
<1>8. CASE RunStep \/ CommandThrows \/ CommandDone
  <2>1. cur \in JobId /\ status[cur] = "running"
    BY <1>8, RunFacts
  <2>2. pc # "down"
    BY <1>8 DEF RunStep, PromptOverflow, StartRun, SpawnFails, Compiling, ResumeFallback, Commit,
                CommandThrows, CommandDone
  <2>3. CASE StartRun \/ SpawnFails
    BY <1>1, <2>2, <2>3 DEF StartRun, SpawnFails, Compiling, jobsTable, Holding
  <2>4. CASE PromptOverflow \/ CommandThrows \/ CommandDone \/ ResumeFallback \/ Commit
    <3>1. \A j \in JobId \ {cur} : status'[j] = status[j] /\ status[j] # "running"
      BY <2>1, <2>2, <2>4 DEF PromptOverflow, CommandThrows, CommandDone, ResumeFallback, Commit,
                              RunningIsOwned, TypeOK
    <3>2. status'[cur] # "running"
      BY <2>1, <2>4 DEF PromptOverflow, CommandThrows, CommandDone, ResumeFallback, Commit,
                        TypeOK, Outcome
    <3>3. pc' \notin Holding
      BY <2>4 DEF PromptOverflow, CommandThrows, CommandDone, ResumeFallback, Commit, LoopAgain, Holding
    <3> QED BY <3>1, <3>2, <3>3 DEF RunningIsOwned
  <2> QED BY <1>8, <2>3, <2>4 DEF RunStep
<1>9. CASE EnterCommand \/ Accept \/ Dispatch \/ StoreReply \/ ProviderExits \/ TearDown
  BY <1>1, <1>9 DEF EnterCommand, Accept, Dispatch, StoreReply, ProviderExits, TearDown,
                    database, jobsTable, Holding
<1>10. CASE NoAutoSummary \/ Notify \/ Leave
  BY <1>1, <1>10 DEF NoAutoSummary, Notify, Leave, database, jobsTable, Holding
<1>11. CASE Send
  BY <1>11 DEF Send, LoopAgain, database, jobsTable, Holding, RunningIsOwned
<1>12. CASE Crash
  BY <1>12 DEF Crash, RunningIsOwned
<1>13. CASE Recover
  BY <1>13 DEF Recover, Stale, RunningIsOwned, Holding, TypeOK
<1>14. CASE SweepOrphans
  BY <1>14 DEF SweepOrphans, database, jobsTable, RunningIsOwned, Holding
<1> QED
  BY <1>2, <1>4, <1>5, <1>6, <1>7, <1>8, <1>9, <1>10, <1>11, <1>12, <1>13, <1>14
  DEF Next, Poller, WorkerStep, CommandStep, AfterStep, Provider

\* A run that ends is the last of a job without a succeeded run, so that the
\* job has a succeeded run afterwards exactly when this one succeeded.
LEMMA RunEnds ==
  ASSUME IInv, InRun, NEW st \in RunStatus, NEW c \in JobId, c = cur, status[c] = "running",
         runs' = [runs EXCEPT ![c] = WithLast(@, st)]
  PROVE  /\ SucceededRuns(c)' = IF st = "succeeded" THEN {Len(runs'[c])} ELSE {}
         /\ \A j \in JobId \ {c} : runs'[j] = runs[j]
<1>1. runs[c] \in Seq(Run) /\ runs[c] # << >>
  BY DEF IInv, TypeOK, PlaceOK
<1>2. \A i \in 1 .. Len(runs[c]) : runs[c][i].status # "succeeded"
  BY DEF IInv, OnlySucceeded, SucceededRuns
<1>3. runs'[c] = WithLast(runs[c], st)
  BY DEF IInv, TypeOK
<1>4. Len(runs'[c]) = Len(runs[c]) /\ Len(runs[c]) \in Nat \ {0}
  BY <1>1, <1>3, WithLastFacts
<1>5. \A i \in 1 .. Len(runs[c]) :
         runs'[c][i] = IF i = Len(runs[c]) THEN [runs[c][i] EXCEPT !.status = st]
                       ELSE runs[c][i]
  BY <1>1, <1>3, WithLastFacts
<1>6. \A i \in 1 .. Len(runs[c]) :
         runs'[c][i].status = IF i = Len(runs[c]) THEN st ELSE runs[c][i].status
  <2> SUFFICES ASSUME NEW i \in 1 .. Len(runs[c])
               PROVE  runs'[c][i].status = IF i = Len(runs[c]) THEN st ELSE runs[c][i].status
    OBVIOUS
  <2>1. runs[c][i] \in Run
    BY <1>1
  <2>2. [runs[c][i] EXCEPT !.status = st].status = st
    BY <2>1 DEF Run
  <2>3. CASE i = Len(runs[c])
    <3>1. runs'[c][i] = [runs[c][i] EXCEPT !.status = st]
      BY <1>5, <2>3
    <3> QED BY <2>2, <2>3, <3>1
  <2>4. CASE i # Len(runs[c])
    <3>1. runs'[c][i] = runs[c][i]
      BY <1>5, <2>4
    <3> QED BY <2>4, <3>1
  <2> QED BY <2>3, <2>4
<1>7. SucceededRuns(c)' = {i \in 1 .. Len(runs[c]) : runs'[c][i].status = "succeeded"}
  BY <1>4 DEF SucceededRuns
<1>8. SucceededRuns(c)' = IF st = "succeeded" THEN {Len(runs[c])} ELSE {}
  BY <1>2, <1>4, <1>6, <1>7
<1>9. \A j \in JobId \ {c} : runs'[j] = runs[j]
  BY DEF IInv, TypeOK
<1> QED BY <1>4, <1>8, <1>9

LEMMA OnceStep ==
  ASSUME IInv, [Next]_vars
  PROVE  OnlySucceeded' /\ SucceededExactlyOnce'
<1> USE DEF OnlySucceeded, SucceededExactlyOnce
<1>1. CASE ~Writes
  BY <1>1, OtherSteps DEF IInv, jobsTable, SucceededRuns
\* A row moves between statuses other than succeeded, and the runs stay.
<1>2. ASSUME UNCHANGED <<kind, runs>>,
             \A j \in JobId : status'[j] = status[j] \/ (status[j] # "succeeded" /\ status'[j] # "succeeded")
      PROVE  OnlySucceeded' /\ SucceededExactlyOnce'
  BY <1>2 DEF IInv, SucceededRuns
<1>3. ASSUME NEW j \in JobId, NEW k, NEW s, Free(j), Insert(j, k, s), UNCHANGED runs
      PROVE  OnlySucceeded' /\ SucceededExactlyOnce'
  <2>1. SucceededRuns(j) = {} /\ runs'[j] = runs[j]
    BY <1>3, InsertFacts DEF IInv, SucceededRuns
  <2>2. SucceededRuns(j)' = {} /\ status'[j] # "succeeded"
    BY <1>3, <2>1, InsertFacts DEF IInv, SucceededRuns
  <2>3. \A i \in JobId \ {j} : /\ SucceededRuns(i)' = SucceededRuns(i) /\ runs'[i] = runs[i]
                             /\ status'[i] = status[i] /\ kind'[i] = kind[i]
    BY <1>3, InsertFacts DEF IInv, SucceededRuns
  <2> QED BY <2>2, <2>3 DEF IInv
<1>4. ASSUME NEW k \in UserKinds, Receive(k) PROVE OnlySucceeded' /\ SucceededExactlyOnce'
  BY <1>3, <1>4 DEF Receive
<1>5. CASE AutoSummary
  BY <1>3, <1>5 DEF AutoSummary
<1>6. ASSUME NEW j \in JobId, CancelQueued(j) PROVE OnlySucceeded' /\ SucceededExactlyOnce'
  BY <1>2, <1>6 DEF CancelQueued, IInv, TypeOK
<1>7. ASSUME NEW j \in JobId, Claim(j) PROVE OnlySucceeded' /\ SucceededExactlyOnce'
  BY <1>2, <1>7 DEF Claim, Queued, IInv, TypeOK
<1>8. CASE RunStep \/ CommandThrows \/ CommandDone
  <2> PICK c \in JobId : c = cur /\ status[c] = "running"
    BY <1>8, RunFacts DEF IInv
  <2>1. c = cur /\ status[c] = "running"
    OBVIOUS
  <2>2. CASE PromptOverflow \/ CommandThrows
    BY <1>2, <2>1, <2>2 DEF PromptOverflow, CommandThrows, IInv, TypeOK
  <2>3. CASE CommandDone
    <3>1. kind[c] \in Commands /\ UNCHANGED <<kind, runs>>
      BY <2>1, <2>3 DEF CommandDone, IInv, PlaceOK
    <3>2. SucceededRuns(c) = {}
      BY <2>1 DEF IInv
    <3>3. \A j \in JobId \ {c} : status'[j] = status[j]
      BY <2>1, <2>3 DEF CommandDone, IInv, TypeOK
    <3> QED BY <2>1, <3>1, <3>2, <3>3 DEF IInv, SucceededRuns
  <2>4. CASE StartRun \/ SpawnFails
    <3>1. UNCHANGED <<kind, status>>
      BY <2>4 DEF StartRun, SpawnFails, jobsTable
    <3>2. runs'[c] = Append(runs[c], [resumes |-> Resumes(cur), status |-> "started"])
      BY <2>1, <2>4 DEF StartRun, SpawnFails, NewRun, IInv, TypeOK
    <3>3. SucceededRuns(c) = {} /\ runs[cur] \in Seq(Run)
      BY <2>1 DEF IInv, TypeOK
    <3>4. SucceededRuns(c)' = {}
      BY <3>2, <3>3 DEF SucceededRuns
    <3>5. \A j \in JobId \ {c} : runs'[j] = runs[j]
      BY <2>1, <2>4 DEF StartRun, SpawnFails, IInv, TypeOK
    <3> QED BY <2>1, <3>1, <3>4, <3>5 DEF IInv, SucceededRuns
  <2>5. CASE ResumeFallback \/ Commit
    <3> DEFINE st == IF ResumeFallback THEN "failed" ELSE outcome.kind
    <3>1. InRun /\ kind[c] \notin Commands /\ UNCHANGED kind
      BY <2>1, <2>5 DEF ResumeFallback, Commit, InRun, IInv, PlaceOK
    <3>2. st \in RunStatus /\ runs' = [runs EXCEPT ![c] = WithLast(@, st)]
      BY <2>1, <2>5 DEF ResumeFallback, Commit, IInv, TypeOK, Outcome, RunStatus
    <3>3. status'[c] = "succeeded" <=> st = "succeeded"
      <4>1. CASE ResumeFallback
        BY <2>1, <4>1 DEF ResumeFallback, IInv, TypeOK
      <4>2. CASE ~ResumeFallback
        BY <2>1, <2>5, <4>2 DEF Commit, IInv, TypeOK
      <4> QED BY <4>1, <4>2
    <3>4. \A j \in JobId \ {c} : status'[j] = status[j]
      BY <2>1, <2>5 DEF ResumeFallback, Commit, IInv, TypeOK
    <3> HIDE DEF st
    <3>5. /\ SucceededRuns(c)' = IF st = "succeeded" THEN {Len(runs'[c])} ELSE {}
          /\ \A j \in JobId \ {c} : runs'[j] = runs[j]
      BY <2>1, <3>1, <3>2, RunEnds
    <3>6. \A j \in JobId \ {c} : SucceededRuns(j)' = SucceededRuns(j)
      BY <3>5 DEF SucceededRuns
    <3>7. SucceededRuns(c)' # {} <=> status'[c] = "succeeded"
      BY <3>3, <3>5
    <3>8. SucceededRuns(c)' \subseteq {Len(runs'[c])}
      BY <3>5
    <3>9. OnlySucceeded /\ SucceededExactlyOnce
      BY DEF IInv
    <3>10. OnlySucceeded'
      BY <3>4, <3>6, <3>7, <3>9
    <3>11. SucceededExactlyOnce'
      BY <3>1, <3>4, <3>5, <3>6, <3>7, <3>8, <3>9
    <3> QED BY <3>10, <3>11
  <2> QED BY <1>8, <2>2, <2>3, <2>4, <2>5 DEF RunStep
<1>9. CASE Recover
  BY <1>2, <1>9 DEF Recover, Stale, IInv, TypeOK
<1> QED BY <1>1, <1>4, <1>5, <1>6, <1>7, <1>8, <1>9 DEF Writes

-----------------------------------------------------------------------------
(* The theorems *)

\* IInv holds at the start.
LEMMA InitIInv == Init => IInv
<1> SUFFICES ASSUME Init PROVE IInv
  OBVIOUS
<1>1. TypeOK
  <2>1. runs \in [JobId -> Seq(Run)]
    <3>1. << >> \in Seq(Run)
      OBVIOUS
    <3> QED BY <3>1 DEF Init
  <2>2. outcome \in Outcome
    BY DEF Init, NoOutcome, Outcome
  <2>3. kind \in [JobId -> Kinds] /\ session \in [JobId -> SessionId \union {NoSession}]
    BY DEF Init, Kinds
  <2>4. /\ status \in [JobId -> Status] /\ attempts \in [JobId -> 0 .. MaxAttempts]
        /\ replay \in [JobId -> BOOLEAN] /\ answers \in [JobId -> Nat]
    BY BoundsAssumption DEF Init, Status
  <2>5. sessions \in 0 .. MaxSessions /\ crashes \in 0 .. MaxCrashes /\ stops \in 0 .. MaxStops
    BY BoundsAssumption DEF Init
  <2> QED BY <2>1, <2>2, <2>3, <2>4, <2>5 DEF Init, TypeOK, Pc, Up, Awaiting
<1>2. RowsOK /\ PlaceOK /\ RunningIsOwned
  BY BoundsAssumption DEF Init, RowsOK, PlaceOK, InRun, Working, Holding, RunningIsOwned
<1>3. \A j \in JobId : SucceededRuns(j) = {} /\ status[j] = "absent"
  BY DEF Init, SucceededRuns
<1>4. OnlySucceeded /\ SucceededExactlyOnce
  BY <1>3 DEF OnlySucceeded, SucceededExactlyOnce
<1> QED BY <1>1, <1>2, <1>4 DEF IInv

LEMMA NextIInv == IInv /\ [Next]_vars => IInv'
  BY TypeStep, RowsStep, PlaceStep, OwnedStep, OnceStep DEF IInv

\* The inductive invariant holds in every reachable state.
THEOREM Invariance == Spec => []IInv
  BY InitIInv, NextIInv, PTL DEF Spec

\* Every variable keeps its type, for all bounds; in particular a job is
\* never claimed more than max_attempts times net of the fallback's refund.
THEOREM TypeCorrect == Spec => []TypeOK
  BY Invariance, PTL DEF IInv

\* While the process is up, the one running row is the one the worker holds.
THEOREM RunningOwned == Spec => []RunningIsOwned
  BY Invariance, PTL DEF IInv

\* A provider job has succeeded exactly when its last run has, and no earlier
\* run of it did, for every interleaving of crashes, retries and cancels.
THEOREM SucceededOnce == Spec => []SucceededExactlyOnce
  BY Invariance, PTL DEF IInv

-----------------------------------------------------------------------------
(* Worker implements JobLedger *)

\* A row inserted by the poller or for an auto summary is Enqueue.
LEMMA InsertIsEnqueue ==
  ASSUME IInv, NEW j \in JobId, NEW k, NEW s, Free(j), Insert(j, k, s)
  PROVE  Ledger!Enqueue(j)
<1>1. status[j] = "absent"
  BY DEF Free
<1>2. status' = [status EXCEPT ![j] = "queued"] /\ UNCHANGED replay
  BY DEF Insert
<1> QED BY <1>1, <1>2 DEF Ledger!Enqueue

\* Every step of the worker is a step of the ledger or leaves it alone.
LEMMA LedgerStep ==
  ASSUME IInv, [Next]_vars
  PROVE  [Ledger!Next]_(Ledger!ledger)
<1>1. CASE ~Writes
  BY <1>1, OtherSteps DEF jobsTable, Ledger!ledger
<1>2. ASSUME NEW k \in UserKinds, Receive(k) PROVE Ledger!Next
  BY <1>2, InsertIsEnqueue DEF Receive, Ledger!Next
<1>3. CASE AutoSummary
  BY <1>3, InsertIsEnqueue DEF AutoSummary, Ledger!Next
<1>4. ASSUME NEW j \in JobId, CancelQueued(j) PROVE Ledger!Next
  <2>1. Ledger!CancelQueued(j)
    BY <1>4 DEF CancelQueued, Ledger!CancelQueued
  <2> QED BY <2>1 DEF Ledger!Next
<1>5. ASSUME NEW j \in JobId, Claim(j) PROVE Ledger!Next
  <2>1. Ledger!Running = {}
    BY <1>5 DEF Claim, IInv, RunningIsOwned, Holding, Ledger!Running
  <2>2. Ledger!Claim(j)
    BY <1>5, <2>1 DEF Claim, Queued, Ledger!Claim
  <2> QED BY <2>2 DEF Ledger!Next
<1>6. CASE RunStep \/ CommandThrows \/ CommandDone
  <2>1. cur \in JobId /\ status[cur] = "running"
    BY <1>6, RunFacts DEF IInv
  <2>2. CASE StartRun \/ SpawnFails
    BY <2>2 DEF StartRun, SpawnFails, jobsTable, Ledger!ledger
  <2>3. CASE PromptOverflow \/ CommandThrows \/ CommandDone \/ Commit
    <3>1. \E t \in {"succeeded", "failed", "cancelled"} : status' = [status EXCEPT ![cur] = t]
      BY <2>3 DEF PromptOverflow, CommandThrows, CommandDone, Commit, IInv, TypeOK, Outcome
    <3>2. UNCHANGED replay
      BY <2>3 DEF PromptOverflow, CommandThrows, CommandDone, Commit
    <3>3. Ledger!Finish(cur)
      BY <2>1, <3>1, <3>2 DEF Ledger!Finish
    <3> QED BY <2>1, <3>3 DEF Ledger!Next
  <2>4. CASE ResumeFallback
    <3>1. ~replay[cur]
      BY <2>4 DEF ResumeFallback, FellBack, IInv, PlaceOK, InRun
    <3>2. {j \in JobId : replay'[j]} = {j \in JobId : replay[j]} \union {cur}
      BY <2>1, <2>4 DEF ResumeFallback, IInv, TypeOK
    <3>3. PICK c \in JobId : c = cur
      BY <2>1
    <3>4. Ledger!Flip(c)
      BY <2>1, <2>4, <3>1, <3>2, <3>3 DEF ResumeFallback, Ledger!Flip
    <3> QED BY <3>4 DEF Ledger!Next
  <2> QED BY <1>6, <2>2, <2>3, <2>4 DEF RunStep
<1>7. CASE Recover
  <2> DEFINE back == {j \in Stale : Retried(j)}
  <2>1. Ledger!Running = Stale
    BY DEF Ledger!Running, Stale
  <2>2. back \in SUBSET Ledger!Running
    BY <2>1
  <2>3. status' = [j \in JobId |-> IF j \in back THEN "queued"
                                 ELSE IF j \in Ledger!Running THEN "interrupted"
                                 ELSE status[j]]
    BY <1>7, <2>1 DEF Recover
  <2>4. UNCHANGED replay
    BY <1>7 DEF Recover
  <2>5. Ledger!Recover
    BY <2>2, <2>3, <2>4 DEF Ledger!Recover
  <2> QED BY <2>5 DEF Ledger!Next
<1> QED BY <1>1, <1>2, <1>3, <1>4, <1>5, <1>6, <1>7 DEF Writes

\* The jobs table lives as JobLedger.tla promises: one running row at most, no
\* row leaves a terminal status, the fallback flips a job once, and a row that
\* was running at a restart is queued again or interrupted.
THEOREM Refinement == Spec => RefinesLedger
<1>1. Init => Ledger!Init
  BY DEF Init, Ledger!Init
<1>2. IInv /\ [Next]_vars => [Ledger!Next]_(Ledger!ledger)
  BY LedgerStep
<1> QED BY <1>1, <1>2, Invariance, PTL DEF Spec, Ledger!Spec, RefinesLedger

-----------------------------------------------------------------------------
(* The order of service.  Ids are given in order, so that blank rows are    *)
(* the last ones and a new row is behind every other.                       *)

Dense == \A i, j \in JobId : i < j /\ status[i] = "absent" => status[j] = "absent"

OrderInv == FirstComeFirstServed /\ Dense

LEMMA OrderStep ==
  ASSUME IInv, OrderInv, [Next]_vars
  PROVE  OrderInv'
<1> USE DEF OrderInv, FirstComeFirstServed, Dense
<1> JobId \subseteq Nat
  BY BoundsAssumption DEF JobId
<1>1. CASE ~Writes
  BY <1>1, OtherSteps DEF jobsTable
<1>2. ASSUME NEW j \in JobId, NEW k, NEW s, Free(j), Insert(j, k, s) PROVE OrderInv'
  <2>1. \A i \in JobId : i < j => status[i] # "absent"
    BY <1>2 DEF Free
  <2>2. \A i \in JobId : j < i => status'[i] = "absent"
    BY <1>2, InsertFacts DEF IInv
  <2> QED BY <1>2, <2>1, <2>2, InsertFacts DEF IInv
<1>3. ASSUME NEW k \in UserKinds, Receive(k) PROVE OrderInv'
  BY <1>2, <1>3 DEF Receive
<1>4. CASE AutoSummary
  BY <1>2, <1>4 DEF AutoSummary
<1>5. ASSUME NEW j \in JobId, CancelQueued(j) PROVE OrderInv'
  BY <1>5 DEF CancelQueued, IInv, TypeOK
<1>6. ASSUME NEW j \in JobId, Claim(j) PROVE OrderInv'
  <2>1. \A i \in JobId : status[i] # "running"
    BY <1>6 DEF Claim, IInv, RunningIsOwned, Holding
  <2>2. \A i \in JobId : i < j => status[i] # "queued"
    BY <1>6 DEF Claim, Queued, Oldest
  <2>3. status[j] = "queued" /\ status' = [status EXCEPT ![j] = "running"]
    BY <1>6 DEF Claim, Queued
  <2> QED BY <2>1, <2>2, <2>3 DEF IInv, TypeOK
<1>7. CASE RunStep \/ CommandThrows \/ CommandDone
  <2>1. cur \in JobId /\ status[cur] = "running"
    BY <1>7, RunFacts DEF IInv
  <2>2. CASE StartRun \/ SpawnFails
    BY <2>2 DEF StartRun, SpawnFails, jobsTable
  <2>3. CASE PromptOverflow \/ CommandThrows \/ CommandDone \/ ResumeFallback \/ Commit
    <3>1. /\ \A j \in JobId \ {cur} : status'[j] = status[j]
          /\ status'[cur] \in {"queued", "succeeded", "failed", "cancelled"}
      BY <2>1, <2>3 DEF PromptOverflow, CommandThrows, CommandDone, ResumeFallback, Commit,
                        IInv, TypeOK, Outcome
    <3> QED BY <2>1, <3>1
  <2> QED BY <1>7, <2>2, <2>3 DEF RunStep
<1>8. CASE Recover
  <2>1. \A j \in JobId : status'[j] = status[j] \/
                         (status[j] = "running" /\ status'[j] \in {"queued", "interrupted"})
    BY <1>8 DEF Recover, Stale
  <2> QED BY <2>1
<1> QED BY <1>1, <1>3, <1>4, <1>5, <1>6, <1>7, <1>8 DEF Writes

\* Jobs are served in the order they came (claimNextJob), also those that
\* recovery or the resume fallback queued again.
THEOREM ServedInOrder == Spec => []FirstComeFirstServed
<1>1. Init => OrderInv
  BY DEF Init, OrderInv, FirstComeFirstServed, Dense
<1>2. IInv /\ OrderInv /\ [Next]_vars => OrderInv'
  BY OrderStep
<1>3. OrderInv => FirstComeFirstServed
  BY DEF OrderInv
<1> QED BY <1>1, <1>2, <1>3, Invariance, PTL DEF Spec

-----------------------------------------------------------------------------
(* One answer.  A message that waits or runs has none yet: the turn and the *)
(* end of the job are one transaction.                                      *)

AnswersInv ==
  /\ ChatAnsweredOnce
  /\ \A j \in JobId : status[j] = "absent" => answers[j] = 0
  /\ \A j \in JobId : kind[j] = "chat" /\ status[j] \in {"queued", "running"} => answers[j] = 0

\* A step that writes no answers may end rows or put them back, but not a row that is over.
LEMMA AnswersKept ==
  ASSUME AnswersInv, UNCHANGED <<kind, answers>>,
         \A j \in JobId : status'[j] = status[j] \/
           (status[j] \in {"queued", "running"} /\ status'[j] # "absent")
  PROVE  AnswersInv'
  BY DEF AnswersInv, ChatAnsweredOnce

LEMMA AnswersStep ==
  ASSUME IInv, AnswersInv, [Next]_vars
  PROVE  AnswersInv'
<1>1. ASSUME NEW j \in JobId, NEW k, NEW s, Free(j), Insert(j, k, s), UNCHANGED answers
      PROVE  AnswersInv'
  BY <1>1, InsertFacts DEF IInv, AnswersInv, ChatAnsweredOnce
<1>2. ASSUME NEW k \in UserKinds, Receive(k) PROVE AnswersInv'
  BY <1>1, <1>2 DEF Receive
<1>3. CASE AutoSummary
  BY <1>1, <1>3 DEF AutoSummary
<1>4. CASE StoreReply
  <2>1. cur \in JobId /\ kind[cur] # "chat" /\ status[cur] = "running"
    BY <1>4 DEF StoreReply, IInv, PlaceOK, Commands, Working, Holding, TypeOK, RunningIsOwned
  <2>2. UNCHANGED <<kind, status>> /\ \A j \in JobId \ {cur} : answers'[j] = answers[j]
    BY <1>4 DEF StoreReply, jobsTable, IInv, TypeOK
  <2> QED BY <2>1, <2>2 DEF AnswersInv, ChatAnsweredOnce
<1>5. CASE Commit
  <2>1. cur \in JobId /\ status[cur] = "running"
    BY <1>5, RunFacts DEF IInv, RunStep
  <2>2. status'[cur] \in {"succeeded", "failed", "cancelled"} /\ UNCHANGED kind
    BY <1>5, <2>1 DEF Commit, IInv, TypeOK, Outcome
  <2>3. kind[cur] = "chat" => answers'[cur] \in {0, 1}
    BY <1>5, <2>1 DEF Commit, AnswersInv, IInv, TypeOK
  <2>4. \A j \in JobId \ {cur} : answers'[j] = answers[j] /\ status'[j] = status[j]
    BY <1>5, <2>1 DEF Commit, IInv, TypeOK
  <2> QED BY <2>1, <2>2, <2>3, <2>4 DEF AnswersInv, ChatAnsweredOnce
<1>6. CASE ~Writes /\ ~StoreReply
  <2>1. UNCHANGED answers
    BY <1>6 DEF Next, Writes, vars, database, Poller, CancelNothing, CancelRunning, Sleep,
         WorkerStep, EnterCommand, Accept, CommandStep, Dispatch, AfterStep, NoAutoSummary,
         Notify, Send, Leave, Provider, ProviderExits, TearDown, Stop, Crash, SweepOrphans
  <2> QED BY <1>6, <2>1, OtherSteps, AnswersKept DEF jobsTable
<1>7. ASSUME NEW j \in JobId, CancelQueued(j) \/ Claim(j) PROVE AnswersInv'
  BY <1>7, AnswersKept DEF CancelQueued, Claim, Queued, IInv, TypeOK
<1>8. CASE (RunStep /\ ~Commit) \/ CommandThrows \/ CommandDone
  <2>1. cur \in JobId /\ status[cur] = "running"
    BY <1>8, RunFacts DEF IInv
  <2> QED BY <1>8, <2>1, AnswersKept DEF RunStep, PromptOverflow, StartRun, SpawnFails,
             ResumeFallback, CommandThrows, CommandDone, jobsTable, IInv, TypeOK
<1>9. CASE Recover
  BY <1>9, AnswersKept DEF Recover, Stale, IInv, TypeOK
<1> QED BY <1>2, <1>3, <1>4, <1>5, <1>6, <1>7, <1>8, <1>9 DEF Writes

\* A message gets one answer at most over all the runs of its job (T5).
THEOREM AnsweredOnce == Spec => []ChatAnsweredOnce
<1>1. Init => AnswersInv
  BY DEF Init, AnswersInv, ChatAnsweredOnce
<1>2. IInv /\ AnswersInv /\ [Next]_vars => AnswersInv'
  BY AnswersStep
<1>3. AnswersInv => ChatAnsweredOnce
  BY DEF AnswersInv
<1> QED BY <1>1, <1>2, <1>3, Invariance, PTL DEF Spec

-----------------------------------------------------------------------------
(* No resume after a failed one.  A failed resume leaves its job flipped to  *)
(* replay_mode, which no later claim or crash takes back.                   *)

ResumeFailed(r) == r.resumes # NoJob /\ r.status = "failed"

ResumeInv ==
  /\ NoResumeAfterFailedResume
  /\ \A j \in JobId : \A m \in 1 .. Len(runs[j]) : ResumeFailed(runs[j][m]) => replay[j]

\* The end of a run keeps what every run was started with.
LEMMA RunKeepsResume ==
  ASSUME NEW s \in Seq(Run), s # << >>, NEW st \in RunStatus
  PROVE  \A m \in 1 .. Len(s) :
           /\ WithLast(s, st)[m].resumes = s[m].resumes
           /\ WithLast(s, st)[m].status = IF m = Len(s) THEN st ELSE s[m].status
<1> TAKE m \in 1 .. Len(s)
<1>1. s[m] \in Run
  OBVIOUS
<1>2. WithLast(s, st)[m] = IF m = Len(s) THEN [s[m] EXCEPT !.status = st] ELSE s[m]
  BY WithLastFacts
<1>3. [s[m] EXCEPT !.status = st].resumes = s[m].resumes /\ [s[m] EXCEPT !.status = st].status = st
  BY <1>1 DEF Run
<1> QED BY <1>2, <1>3

\* The last run of a job ends: it was no failed resume, and is one only if the job is flipped.
LEMMA ResumeEnds ==
  ASSUME IInv, ResumeInv, NEW c \in JobId, InRun, c = cur, NEW st \in RunStatus,
         runs' = [runs EXCEPT ![c] = WithLast(@, st)],
         \A j \in JobId : replay[j] => replay'[j],
         st = "failed" /\ runs[c][Len(runs[c])].resumes # NoJob => replay'[c]
  PROVE  ResumeInv'
<1>1. runs[c] \in Seq(Run) /\ runs[c] # << >> /\ runs[c][Len(runs[c])].status = "started"
  BY DEF IInv, TypeOK, PlaceOK
<1>2. runs'[c] = WithLast(runs[c], st) /\ \A j \in JobId \ {c} : runs'[j] = runs[j]
  BY DEF IInv, TypeOK
<1>3. Len(runs'[c]) = Len(runs[c]) /\ Len(runs[c]) \in Nat \ {0}
  BY <1>1, <1>2, WithLastFacts
<1>4. \A m \in 1 .. Len(runs[c]) :
        /\ runs'[c][m].resumes = runs[c][m].resumes
        /\ runs'[c][m].status = IF m = Len(runs[c]) THEN st ELSE runs[c][m].status
  BY <1>1, <1>2, RunKeepsResume
<1>5. \A m \in 1 .. Len(runs'[c]) : ResumeFailed(runs'[c][m]) => replay'[c]
  <2> TAKE m \in 1 .. Len(runs'[c])
  <2>1. CASE m = Len(runs[c])
    BY <1>3, <1>4, <2>1 DEF ResumeFailed
  <2>2. CASE m # Len(runs[c])
    BY <1>3, <1>4, <2>2 DEF ResumeInv, ResumeFailed
  <2> QED BY <2>1, <2>2
<1>6. \A m, n \in 1 .. Len(runs'[c]) :
        m < n /\ ResumeFailed(runs'[c][m]) => runs'[c][n].resumes = NoJob
  <2> SUFFICES ASSUME NEW m \in 1 .. Len(runs[c]), NEW n \in 1 .. Len(runs[c]), m < n,
                      ResumeFailed(runs'[c][m])
               PROVE  runs'[c][n].resumes = NoJob
    BY <1>3
  <2>1. m # Len(runs[c])
    BY <1>3
  <2>2. runs[c][n].resumes = NoJob
    BY <1>4, <2>1 DEF ResumeInv, NoResumeAfterFailedResume, ResumeFailed
  <2> QED BY <1>4, <2>2
<1> QED BY <1>2, <1>5, <1>6 DEF ResumeInv, NoResumeAfterFailedResume, ResumeFailed

LEMMA ResumeStep ==
  ASSUME IInv, ResumeInv, [Next]_vars
  PROVE  ResumeInv'
<1>1. ASSUME UNCHANGED <<replay, runs>> PROVE ResumeInv'
  BY <1>1 DEF ResumeInv, NoResumeAfterFailedResume
<1>2. CASE ~Writes
  BY <1>1, <1>2, OtherSteps DEF jobsTable
<1>3. CASE (\E k \in UserKinds : Receive(k)) \/ AutoSummary
  BY <1>1, <1>3 DEF Receive, AutoSummary, Insert
<1>4. CASE (\E j \in JobId : CancelQueued(j) \/ Claim(j)) \/ PromptOverflow \/ CommandThrows
           \/ CommandDone \/ Recover
  BY <1>1, <1>4 DEF CancelQueued, Claim, PromptOverflow, CommandThrows, CommandDone, Recover
<1>5. CASE StartRun \/ SpawnFails
  <2>1. cur \in JobId
    BY <1>5, RunFacts DEF IInv, RunStep
  <2>2. runs[cur] \in Seq(Run) /\ UNCHANGED replay
    BY <1>5, <2>1 DEF StartRun, SpawnFails, jobsTable, IInv, TypeOK
  <2>3. /\ runs'[cur] = Append(runs[cur], [resumes |-> Resumes(cur), status |-> "started"])
        /\ \A j \in JobId \ {cur} : runs'[j] = runs[j]
    BY <1>5, <2>1 DEF StartRun, SpawnFails, NewRun, IInv, TypeOK
  <2> DEFINE l == Len(runs[cur])
  <2>4. /\ Len(runs'[cur]) = l + 1 /\ l \in Nat
        /\ \A m \in 1 .. l : runs'[cur][m] = runs[cur][m]
        /\ runs'[cur][l + 1] = [resumes |-> Resumes(cur), status |-> "started"]
    BY <2>2, <2>3
  <2>5. replay[cur] => runs'[cur][l + 1].resumes = NoJob
    BY <2>4 DEF Resumes
  <2> HIDE DEF l
  <2>6. \A m \in 1 .. l + 1 : ResumeFailed(runs'[cur][m]) => m \in 1 .. l /\ ResumeFailed(runs[cur][m])
    BY <2>4 DEF ResumeFailed
  <2>7. \A m \in 1 .. l + 1 : ResumeFailed(runs'[cur][m]) => replay[cur]
    BY <2>1, <2>6 DEF ResumeInv, l
  <2>8. \A m, n \in 1 .. l + 1 : m < n /\ ResumeFailed(runs'[cur][m]) => runs'[cur][n].resumes = NoJob
    <3> TAKE m, n \in 1 .. l + 1
    <3>1. CASE n = l + 1
      BY <2>5, <2>7, <3>1
    <3>2. CASE n # l + 1
      <4>1. n \in 1 .. l /\ runs'[cur][n] = runs[cur][n]
        BY <2>4, <3>2
      <4>2. ResumeFailed(runs'[cur][m]) => m \in 1 .. l /\ ResumeFailed(runs[cur][m])
        BY <2>6
      <4>3. ASSUME m < n, m \in 1 .. l, ResumeFailed(runs[cur][m]) PROVE runs[cur][n].resumes = NoJob
        BY <2>1, <4>1, <4>3 DEF ResumeInv, NoResumeAfterFailedResume, ResumeFailed, l
      <4> QED BY <4>1, <4>2, <4>3
    <3> QED BY <3>1, <3>2
  <2>9. \A j \in JobId \ {cur} :
          /\ \A m, n \in 1 .. Len(runs'[j]) :
               m < n /\ ResumeFailed(runs'[j][m]) => runs'[j][n].resumes = NoJob
          /\ \A m \in 1 .. Len(runs'[j]) : ResumeFailed(runs'[j][m]) => replay'[j]
    BY <2>2, <2>3 DEF ResumeInv, NoResumeAfterFailedResume, ResumeFailed
  <2>10. /\ \A m, n \in 1 .. Len(runs'[cur]) :
              m < n /\ ResumeFailed(runs'[cur][m]) => runs'[cur][n].resumes = NoJob
         /\ \A m \in 1 .. Len(runs'[cur]) : ResumeFailed(runs'[cur][m]) => replay'[cur]
    BY <2>2, <2>4, <2>7, <2>8
  <2>11. \A j \in JobId :
          /\ \A m, n \in 1 .. Len(runs'[j]) :
               m < n /\ ResumeFailed(runs'[j][m]) => runs'[j][n].resumes = NoJob
          /\ \A m \in 1 .. Len(runs'[j]) : ResumeFailed(runs'[j][m]) => replay'[j]
    BY <2>9, <2>10
  <2> QED BY <2>11 DEF ResumeInv, NoResumeAfterFailedResume, ResumeFailed
<1>6. CASE ResumeFallback \/ Commit
  <2> PICK c \in JobId : c = cur
    BY <1>6, RunFacts DEF IInv, RunStep
  <2> DEFINE st == IF ResumeFallback THEN "failed" ELSE outcome.kind
  <2>1. InRun /\ c = cur
    BY <1>6 DEF ResumeFallback, Commit, InRun
  <2>2. st \in RunStatus /\ runs' = [runs EXCEPT ![c] = WithLast(@, st)]
    BY <1>6, <2>1 DEF ResumeFallback, Commit, IInv, TypeOK, Outcome, RunStatus
  <2>3. \A j \in JobId : replay[j] => replay'[j]
    BY <1>6 DEF ResumeFallback, Commit, IInv, TypeOK
  <2>4. st = "failed" /\ runs[c][Len(runs[c])].resumes # NoJob => replay'[c]
    BY <1>6, <2>1 DEF ResumeFallback, Commit, FellBack, IInv, TypeOK
  <2> HIDE DEF st
  <2> QED BY <2>1, <2>2, <2>3, <2>4, ResumeEnds
<1> QED BY <1>2, <1>3, <1>4, <1>5, <1>6 DEF Writes, RunStep

\* Once a resumed run of a job has failed, no later one resumes (worker.ts: packing mode).
THEOREM NeverResumedAgain == Spec => []NoResumeAfterFailedResume
<1>1. Init => ResumeInv
  BY DEF Init, ResumeInv, NoResumeAfterFailedResume
<1>2. IInv /\ ResumeInv /\ [Next]_vars => ResumeInv'
  BY ResumeStep
<1>3. ResumeInv => NoResumeAfterFailedResume
  BY DEF ResumeInv
<1> QED BY <1>1, <1>2, <1>3, Invariance, PTL DEF Spec

-----------------------------------------------------------------------------
(* Cancels.  A cancel the adapter heard is on its way to the row: it is in   *)
(* the controller while the CLI runs, then in the outcome, and the commit   *)
(* writes it.                                                               *)

OnItsWay(j) ==
  /\ j = cur
  /\ (pc = "run" /\ hearing) \/ (pc = "drain" /\ outcome.kind = "cancelled")

CancelInv ==
  /\ \A j \in JobId : status[j] = "cancelled" => j \in asked
  /\ (pc = "run" /\ hearing) \/ (pc = "drain" /\ outcome.kind = "cancelled") => cur \in asked
  /\ pc \in {"capture", "accept"} => ~hearing
  /\ \A j \in heard : status[j] = "cancelled" \/ OnItsWay(j)

LEMMA CancelImpliesHolds == IInv /\ CancelInv => CancelsHold
  BY DEF IInv, CancelInv, CancelsHold, OnItsWay, RunningIsOwned, Holding, TypeOK

\* A step outside of a run that cancels no row, nor touches a cancelled one.
LEMMA CancelKept ==
  ASSUME CancelInv, heard \subseteq JobId, asked \subseteq asked', heard' \subseteq heard,
         pc' \notin {"run", "drain"},
         \A j \in heard' : ~OnItsWay(j), pc' \in {"capture", "accept"} => ~hearing',
         \A j \in JobId : status'[j] = "cancelled" <=> status[j] = "cancelled"
  PROVE  CancelInv'
  BY DEF CancelInv, OnItsWay

LEMMA CancelStep ==
  ASSUME IInv, CancelInv, [Next]_vars
  PROVE  CancelInv'
<1> heard \subseteq JobId
  BY DEF IInv, TypeOK
<1>1. ASSUME UNCHANGED <<pc, cur, hearing, outcome, asked, heard>>,
             \A j \in JobId : status'[j] = "cancelled" <=> status[j] = "cancelled"
      PROVE  CancelInv'
  BY <1>1 DEF CancelInv, OnItsWay
<1>2. ASSUME NEW k \in UserKinds, Receive(k) PROVE CancelInv'
  BY <1>1, <1>2, InsertFacts DEF Receive, memory, history, IInv
<1>3. CASE UNCHANGED vars \/ Sleep \/ CancelNothing
  BY <1>1, <1>3 DEF Sleep, CancelNothing, vars, database, jobsTable, memory, history
<1>4. ASSUME NEW j \in JobId, CancelQueued(j) PROVE CancelInv'
  <2>1. /\ status'[j] = "cancelled" /\ \A i \in JobId \ {j} : status'[i] = status[i]
        /\ asked' = asked \union {j} /\ UNCHANGED <<pc, cur, hearing, outcome, heard>>
    BY <1>4 DEF CancelQueued, memory, IInv, TypeOK
  <2> QED BY <2>1 DEF CancelInv, OnItsWay
<1>5. ASSUME cur \in JobId, Abort, UNCHANGED <<status, pc, cur, outcome>> PROVE CancelInv'
  BY <1>5 DEF Abort, Listening, CancelInv, OnItsWay
<1>6. ASSUME NEW j \in JobId, CancelRunning(j) PROVE CancelInv'
  BY <1>5, <1>6 DEF CancelRunning, jobsTable
<1>7. CASE Stop
  <2>1. UNCHANGED <<status, pc, cur, outcome>>
    BY <1>7 DEF Stop, database, jobsTable
  <2>2. CASE cur # NoJob /\ pc \in Holding
    BY <1>5, <1>7, <2>1, <2>2 DEF Stop, IInv, TypeOK
  <2>3. CASE ~(cur # NoJob /\ pc \in Holding)
    BY <1>1, <1>7, <2>1, <2>3 DEF Stop
  <2> QED BY <2>2, <2>3
<1>8. ASSUME NEW j \in JobId, Claim(j) PROVE CancelInv'
  <2>1. \A i \in JobId : status'[i] = "cancelled" <=> status[i] = "cancelled"
    BY <1>8 DEF Claim, Queued, IInv, TypeOK
  <2>2. pc = "idle" /\ pc' = "capture" /\ ~hearing' /\ UNCHANGED <<asked, heard>>
    BY <1>8 DEF Claim, FreshController, history
  <2> QED BY <2>1, <2>2, CancelKept DEF OnItsWay
<1>9. CASE EnterCommand \/ Accept \/ Dispatch \/ StoreReply \/ NoAutoSummary \/ Notify \/ Send
           \/ Leave \/ SweepOrphans
  BY <1>9, CancelKept DEF CancelInv, EnterCommand, Accept, Dispatch, StoreReply, NoAutoSummary, Notify, Send,
     Leave, SweepOrphans, LoopAgain, database, jobsTable, history, OnItsWay
<1>10. CASE AutoSummary
  <2>1. \A j \in JobId : status'[j] = "cancelled" <=> status[j] = "cancelled"
    BY <1>10, InsertFacts DEF AutoSummary, IInv
  <2> QED BY <1>10, <2>1, CancelKept DEF AutoSummary, history, OnItsWay
<1>11. CASE PromptOverflow \/ CommandThrows \/ CommandDone
  <2>1. cur \in JobId /\ status[cur] = "running" /\ pc \notin {"run", "drain"}
    BY <1>11, RunFacts DEF IInv, RunStep, PromptOverflow, Compiling, CommandThrows, CommandDone
  <2>2. \A j \in JobId : status'[j] = "cancelled" <=> status[j] = "cancelled"
    BY <1>11, <2>1 DEF PromptOverflow, CommandThrows, CommandDone, IInv, TypeOK
  <2> QED BY <1>11, <2>1, <2>2, CancelKept
      DEF PromptOverflow, CommandThrows, CommandDone, LoopAgain, history, OnItsWay
<1>12. CASE StartRun \/ SpawnFails
  <2>1. pc \notin {"run", "drain"}
    BY <1>12 DEF StartRun, SpawnFails, Compiling
  <2>2. \A j \in heard : status[j] = "cancelled"
    BY <2>1 DEF CancelInv, OnItsWay
  <2>3. UNCHANGED <<status, asked, heard>>
    BY <1>12 DEF StartRun, SpawnFails, jobsTable, history
  <2>4. SpawnFails => outcome'.kind = "failed" /\ pc' = "drain"
    BY DEF SpawnFails, NoOutcome
  <2>5. StartRun => ~hearing' /\ pc' = "run" /\ UNCHANGED cur
    BY DEF StartRun, Compiling, CancelInv
  <2> QED BY <1>12, <2>1, <2>2, <2>3, <2>4, <2>5 DEF CancelInv, OnItsWay
<1>13. CASE ProviderExits \/ TearDown
  <2>1. /\ UNCHANGED <<status, cur, hearing, asked, heard>> /\ pc = "run" /\ pc' = "drain"
        /\ outcome'.kind = "cancelled" <=> hearing
    BY <1>13 DEF ProviderExits, TearDown, database, jobsTable, history
  <2> QED BY <2>1 DEF CancelInv, OnItsWay
<1>14. CASE ResumeFallback
  <2>1. cur \in JobId /\ status[cur] = "running"
    BY <1>14, RunFacts DEF IInv, RunStep
  <2>2. \A j \in JobId : status'[j] = "cancelled" <=> status[j] = "cancelled"
    BY <1>14, <2>1 DEF ResumeFallback, IInv, TypeOK
  <2>3. pc = "drain" /\ outcome.kind = "failed" /\ UNCHANGED <<asked, heard>>
    BY <1>14 DEF ResumeFallback, FellBack, history
  <2> QED BY <1>14, <2>2, <2>3, CancelKept DEF ResumeFallback, LoopAgain, OnItsWay
<1>15. CASE Commit
  <2>1. cur \in JobId /\ status[cur] = "running"
    BY <1>15, RunFacts DEF IInv, RunStep
  <2>2. /\ status'[cur] = outcome.kind /\ \A j \in JobId \ {cur} : status'[j] = status[j]
        /\ pc = "drain" /\ pc' = "after" /\ UNCHANGED <<asked, heard>>
    BY <1>15, <2>1 DEF Commit, history, IInv, TypeOK
  <2> QED BY <2>1, <2>2 DEF CancelInv, OnItsWay
<1>16. CASE Crash
  <2>1. UNCHANGED <<status, asked>> /\ pc' = "down" /\ heard' \subseteq heard
    BY <1>16 DEF Crash, database, jobsTable
  <2>2. \A j \in heard' : ~OnItsWay(j)
    BY <1>16 DEF Crash, OnItsWay, Holding
  <2> QED BY <2>1, <2>2, CancelKept
<1>17. CASE Recover
  <2>1. \A j \in JobId : status'[j] = "cancelled" <=> status[j] = "cancelled"
    BY <1>17 DEF Recover, Stale
  <2> QED BY <1>17, <2>1, CancelKept DEF Recover, history, OnItsWay
<1> QED
  BY <1>2, <1>3, <1>4, <1>6, <1>7, <1>8, <1>9, <1>10, <1>11, <1>12, <1>13, <1>14, <1>15, <1>16, <1>17
  DEF Next, Poller, WorkerStep, CommandStep, RunStep, AfterStep, Provider

\* Nothing is cancelled unasked, and a cancel the adapter heard holds unless the process
\* crashes before the commit, whatever the exit and the fallback do meanwhile.
THEOREM CancelsKept == Spec => []CancelsHold
<1>1. Init => CancelInv
  BY DEF Init, CancelInv
<1>2. IInv /\ CancelInv /\ [Next]_vars => CancelInv'
  BY CancelStep
<1> QED BY <1>1, <1>2, CancelImpliesHolds, Invariance, PTL DEF Spec

-----------------------------------------------------------------------------
(* One process group.  A crash leaves the group of the job that is running; *)
(* recovery remembers that job until the sweep has killed its groups.       *)

GroupsInv ==
  /\ OneProviderProcess
  /\ pc = "down" => \A g \in live \ strays : status[g[1]] = "running"
  /\ pc = "sweep" => \A g \in live \ strays : g[1] \in swept

\* Outside of a run no group is alive but the strays.
LEMMA NoGroup ==
  ASSUME GroupsInv, pc \notin {"down", "sweep", "run"},
         live' = live, strays' = strays, pc' \notin {"down", "sweep", "run"}
  PROVE  GroupsInv'
  BY DEF GroupsInv, OneProviderProcess

LEMMA GroupsStep ==
  ASSUME IInv, GroupsInv, [Next]_vars
  PROVE  GroupsInv'
<1>1. CASE UNCHANGED vars \/ Sleep
  BY <1>1 DEF Sleep, vars, database, jobsTable, memory, history, GroupsInv, OneProviderProcess,
     LastRun
<1>2. CASE Poller \/ Stop
  <2>1. UNCHANGED <<runs, live, strays, pc, cur>> /\ pc \in Awaiting
    BY <1>2 DEF Poller, Stop, Receive, CancelNothing, CancelQueued, CancelRunning, memory, history,
       database
  <2> QED BY <2>1 DEF Awaiting, GroupsInv, OneProviderProcess, LastRun
<1>3. ASSUME NEW j \in JobId, Claim(j) PROVE GroupsInv'
  <2>1. pc = "idle" /\ pc' = "capture" /\ UNCHANGED <<live, strays>>
    BY <1>3 DEF Claim, history
  <2> QED BY <2>1, NoGroup
<1>4. CASE EnterCommand \/ Accept \/ CommandStep \/ AfterStep \/ Leave
  <2>1. UNCHANGED <<live, strays>> /\ {pc, pc'} \cap {"down", "sweep", "run"} = {}
    BY <1>4 DEF EnterCommand, Accept, CommandStep, Dispatch, CommandThrows, StoreReply, CommandDone,
       AfterStep, AutoSummary, NoAutoSummary, Notify, Send, Leave, LoopAgain, history
  <2> QED BY <2>1, NoGroup
<1>5. CASE PromptOverflow \/ SpawnFails \/ ResumeFallback \/ Commit
  <2>1. UNCHANGED <<live, strays>> /\ {pc, pc'} \cap {"down", "sweep", "run"} = {}
    BY <1>5 DEF PromptOverflow, SpawnFails, Compiling, ResumeFallback, Commit, LoopAgain, history
  <2> QED BY <2>1, NoGroup
<1>6. CASE StartRun
  <2>1. cur \in JobId
    BY <1>6, RunFacts DEF IInv, RunStep
  <2>2. live \ strays = {}
    BY <1>6 DEF StartRun, Compiling, GroupsInv, OneProviderProcess
  <2>3. Len(runs'[cur]) = Len(runs[cur]) + 1
    BY <1>6, <2>1, NewRunType DEF StartRun, IInv, TypeOK
  <2>4. LastRun(cur)' = <<cur, Len(runs[cur]) + 1>>
    BY <1>6, <2>3 DEF StartRun, LastRun
  <2> QED BY <1>6, <2>2, <2>4 DEF StartRun, history, GroupsInv, OneProviderProcess
<1>7. CASE Provider
  <2>1. /\ pc = "run" /\ pc' = "drain" /\ UNCHANGED strays
        /\ live' = live \ {LastRun(cur)}
    BY <1>7 DEF Provider, ProviderExits, TearDown, history
  <2> QED BY <2>1 DEF GroupsInv, OneProviderProcess
<1>8. CASE Crash
  <2>1. live' \subseteq live /\ pc' = "down" /\ strays' = strays \union Orphans /\ UNCHANGED status
    BY <1>8 DEF Crash, database, jobsTable
  <2>2. CASE pc = "sweep"
    BY <2>1, <2>2 DEF Orphans, GroupsInv, OneProviderProcess
  <2>3. CASE pc # "sweep"
    <3>1. pc = "run" => status[LastRun(cur)[1]] = "running"
      BY DEF IInv, PlaceOK, Working, Holding, RunningIsOwned, TypeOK, LastRun
    <3>2. live \ strays \subseteq IF pc = "run" THEN {LastRun(cur)} ELSE {}
      BY <1>8, <2>3 DEF Crash, Up, Awaiting, GroupsInv, OneProviderProcess
    <3>3. \A g \in live \ strays : status[g[1]] = "running"
      BY <3>1, <3>2
    <3> QED BY <2>1, <3>3 DEF GroupsInv, OneProviderProcess
  <2> QED BY <2>2, <2>3
<1>9. CASE Recover
  <2>1. pc' = "sweep" /\ swept' = Stale /\ UNCHANGED <<live, strays>>
    BY <1>9 DEF Recover, history
  <2>2. \A g \in live \ strays : g[1] \in Stale
    <3>1. CASE pc = "down"
      BY <3>1 DEF GroupsInv, Stale, IInv, TypeOK
    <3>2. CASE pc = "stopped"
      BY <3>2 DEF GroupsInv, OneProviderProcess
    <3> QED BY <1>9, <3>1, <3>2 DEF Recover
  <2> QED BY <2>1, <2>2 DEF GroupsInv, OneProviderProcess
<1>10. CASE SweepOrphans
  <2>1. pc = "sweep" /\ pc' = "idle" /\ live' = live \ Orphans /\ UNCHANGED strays
    BY <1>10 DEF SweepOrphans, history
  <2> QED BY <2>1 DEF Orphans, GroupsInv, OneProviderProcess
<1> QED
  BY <1>1, <1>2, <1>3, <1>4, <1>5, <1>6, <1>7, <1>8, <1>9, <1>10 DEF Next, WorkerStep, RunStep

\* Once boot is over the one provider process is the worker's own: an orphan of a crash
\* never works beside the rerun of its job, unless the boot that was to kill it crashed too.
THEOREM OneProvider == Spec => []OneProviderProcess
<1>1. Init => GroupsInv
  BY DEF Init, GroupsInv, OneProviderProcess
<1>2. IInv /\ GroupsInv /\ [Next]_vars => GroupsInv'
  BY GroupsStep
<1>3. GroupsInv => OneProviderProcess
  BY DEF GroupsInv
<1> QED BY <1>1, <1>2, <1>3, Invariance, PTL DEF Spec

-----------------------------------------------------------------------------
(* Sessions.  No row is inserted into a session that is over, since a new    *)
(* session takes a number no row has.                                       *)

Finished == {"succeeded", "failed", "cancelled"}

\* An /end or a /new was sent in the session.
AskedToEnd(s) ==
  \E j \in JobId : session[j] = s /\ kind[j] \in {"end", "new"} /\ status[j] # "absent"

\* What a step may do to the open session without opening another.
Closes == open' = NoSession /\ AskedToEnd(open)

SessionsInv ==
  /\ EndClosesSession
  /\ open <= sessions
  /\ cur # NoJob => status[cur] # "absent"
  /\ \A j \in JobId : status[j] # "absent" => session[j] \in 1 .. sessions

\* No session is opened that a finished /end has closed.
LEMMA EnsuredFacts ==
  ASSUME IInv, SessionsInv, EnsureActiveSession
  PROVE  /\ open' <= sessions' /\ sessions <= sessions' /\ Ensured \in 1 .. sessions'
         /\ open' = Ensured
         /\ sessions \in Nat /\ sessions' \in Nat
         /\ \A j \in JobId : kind[j] = "end" /\ status[j] \in Finished => session[j] # Ensured
         /\ \A t \in (1 .. sessions') \ {open'} : t \in (1 .. sessions) \ {open}
<1>1. sessions \in Nat /\ open \in Nat
  BY BoundsAssumption DEF IInv, TypeOK, SessionId, NoSession
<1>2. Ensured \in Nat \ {0}
  BY BoundsAssumption DEF EnsureActiveSession, SessionId
<1>3. CASE open # NoSession
  BY <1>1, <1>2, <1>3 DEF EnsureActiveSession, Ensured, SessionsInv, EndClosesSession, Finished
<1>4. CASE open = NoSession
  BY <1>1, <1>4 DEF EnsureActiveSession, Ensured, SessionsInv, NoSession, Finished
<1> QED BY <1>3, <1>4

\* A step that opens no session and finishes no /end, unless with its session closed.
LEMMA SessionsKept ==
  ASSUME SessionsInv, UNCHANGED <<kind, session, sessions>>,
         open' = open \/ Closes, sessions \in Nat,
         \A j \in JobId : status[j] = "absent" <=> status'[j] = "absent",
         cur' # NoJob => cur' \in JobId /\ status'[cur'] # "absent",
         \A j \in JobId : kind[j] = "end" /\ status'[j] \in Finished =>
           status[j] \in Finished \/ open' # session[j],
         \A j \in JobId : kind[j] = "end" /\ status'[j] \in Finished => session[j] # NoSession
  PROVE  SessionsInv'
<1>0. \A s : AskedToEnd(s) => AskedToEnd(s)'
  BY DEF AskedToEnd
<1>1. EndClosesSession'
  <2>1. \A s \in (1 .. sessions') \ {open'} : AskedToEnd(s)
    BY DEF SessionsInv, EndClosesSession, AskedToEnd, Closes
  <2>2. \A j \in JobId : kind'[j] = "end" /\ status'[j] \in Finished => open' # session'[j]
    BY DEF SessionsInv, EndClosesSession, Finished, Closes
  <2> QED BY <1>0, <2>1, <2>2 DEF EndClosesSession, AskedToEnd, Finished
<1>2. open' <= sessions'
  BY DEF SessionsInv, NoSession, Closes
<1> QED BY <1>1, <1>2 DEF SessionsInv

LEMMA SessionsStep ==
  ASSUME IInv, SessionsInv, [Next]_vars
  PROVE  SessionsInv'
<1> USE DEF Finished
<1>a. sessions \in Nat
  BY BoundsAssumption DEF IInv, TypeOK
<1>b. \A j \in JobId : status[j] # "absent" => session[j] # NoSession
  BY <1>a DEF SessionsInv, NoSession
<1>1. ASSUME UNCHANGED <<kind, session, status, sessions>>, cur' \in {cur, NoJob},
             open' = open \/ Closes
      PROVE  SessionsInv'
  <2>1. cur' # NoJob => cur' \in JobId /\ status'[cur'] # "absent"
    BY <1>1 DEF IInv, TypeOK, SessionsInv
  <2> QED BY <1>1, <1>a, <1>b, <2>1, SessionsKept
<1>2. ASSUME NEW j \in JobId, NEW k, NEW s, Free(j), Insert(j, k, s), s \in 1 .. sessions',
             sessions <= sessions', sessions' \in Nat, open' <= sessions', UNCHANGED cur,
             \A i \in JobId : kind[i] = "end" /\ status[i] \in Finished => session[i] # open',
             \A t \in (1 .. sessions') \ {open'} : t \in (1 .. sessions) \ {open}
      PROVE  SessionsInv'
  <2>0. \A t \in (1 .. sessions') \ {open'} : AskedToEnd(t)'
    <3>1. \A t : AskedToEnd(t) => AskedToEnd(t)'
      BY <1>2, InsertFacts DEF IInv, AskedToEnd
    <3> QED BY <1>2, <3>1 DEF SessionsInv, EndClosesSession, AskedToEnd
  <2>1. EndClosesSession'
    BY <1>2, <2>0, InsertFacts DEF IInv, SessionsInv, EndClosesSession, AskedToEnd
  <2>2. session'[j] = s
    BY <1>2 DEF Insert, IInv, TypeOK
  <2>3. \A i \in JobId : status'[i] # "absent" => session'[i] \in 1 .. sessions'
    BY <1>a, <1>2, <2>2, InsertFacts DEF IInv, SessionsInv
  <2>4. \A i \in JobId : status[i] # "absent" => status'[i] # "absent"
    BY <1>2, InsertFacts DEF IInv
  <2>5. cur' # NoJob => status'[cur'] # "absent"
    BY <1>2, <2>4 DEF IInv, TypeOK, SessionsInv
  <2> QED BY <1>2, <2>1, <2>3, <2>5 DEF SessionsInv
<1>3. ASSUME NEW k \in UserKinds, Receive(k) PROVE SessionsInv'
  <2>1. PICK j \in JobId : Free(j) /\ Insert(j, k, Ensured)
    BY <1>3 DEF Receive
  <2>2. EnsureActiveSession /\ UNCHANGED cur
    BY <1>3 DEF Receive, memory
  <2> HIDE DEF Finished
  <2> QED BY <1>2, <2>1, <2>2, EnsuredFacts DEF Finished
<1>4. CASE AutoSummary
  <2>1. PICK j \in JobId : Free(j) /\ Insert(j, "auto", session[cur])
    BY <1>4 DEF AutoSummary
  <2>2. cur \in JobId /\ cur # NoJob /\ UNCHANGED <<sessions, open, cur>>
    BY <1>4 DEF AutoSummary, IInv, PlaceOK, Working, TypeOK
  <2>3. session[cur] \in 1 .. sessions
    BY <2>2 DEF SessionsInv
  <2>4. \A i \in JobId : kind[i] = "end" /\ status[i] \in Finished => session[i] # open'
    BY <2>2 DEF SessionsInv, EndClosesSession
  <2>5. open <= sessions
    BY DEF SessionsInv
  <2> QED BY <1>2, <1>a, <2>1, <2>2, <2>3, <2>4, <2>5
\* a session may be opened, no row is inserted, and a row cancelled here is not an /end
<1>5. ASSUME EnsureActiveSession, UNCHANGED <<kind, session, cur>>,
             \A i \in JobId : \/ status'[i] = status[i]
                              \/ status[i] = "queued" /\ status'[i] = "cancelled" /\ kind[i] # "end"
      PROVE  SessionsInv'
  <2>0. \A t \in (1 .. sessions') \ {open'} : AskedToEnd(t)'
    <3>1. \A t : AskedToEnd(t) => AskedToEnd(t)'
      BY <1>5 DEF AskedToEnd
    <3> QED BY <1>5, <3>1, EnsuredFacts DEF SessionsInv, EndClosesSession, AskedToEnd
  <2>1. EndClosesSession'
    BY <1>5, <2>0, EnsuredFacts DEF EndClosesSession, AskedToEnd
  <2>2. \A i \in JobId : status'[i] # "absent" => session'[i] \in 1 .. sessions'
    BY <1>5, EnsuredFacts DEF SessionsInv
  <2>3. cur' # NoJob => status'[cur'] # "absent"
    BY <1>5 DEF IInv, TypeOK, SessionsInv
  <2> QED BY <1>5, <2>1, <2>2, <2>3, EnsuredFacts DEF SessionsInv
<1>6. CASE CancelNothing
  BY <1>5, <1>6 DEF CancelNothing, jobsTable, memory
<1>7. ASSUME NEW j \in JobId, CancelQueued(j) PROVE SessionsInv'
  <2>1. kind[j] # "end" /\ status[j] = "queued"
    BY <1>7 DEF CancelQueued, Target, Cancellable, Summaries
  <2>2. \A i \in JobId : status'[i] = IF i = j THEN "cancelled" ELSE status[i]
    BY <1>7 DEF CancelQueued, IInv, TypeOK
  <2> QED BY <1>5, <1>7, <2>1, <2>2 DEF CancelQueued, memory
<1>8. ASSUME NEW j \in JobId, CancelRunning(j) PROVE SessionsInv'
  BY <1>5, <1>8 DEF CancelRunning, jobsTable
<1>9. ASSUME NEW j \in JobId, Claim(j) PROVE SessionsInv'
  <2>1. \A i \in JobId : status'[i] = IF i = j THEN "running" ELSE status[i]
    BY <1>9 DEF Claim, IInv, TypeOK
  <2>2. status[j] = "queued" /\ cur' = j /\ UNCHANGED <<kind, session, sessions, open>>
    BY <1>9 DEF Claim, Queued
  <2> QED BY <1>a, <1>b, <2>1, <2>2, SessionsKept
<1>10. CASE PromptOverflow \/ CommandThrows \/ CommandDone
  <2>1. cur \in JobId /\ status[cur] = "running"
    BY <1>10, RunFacts DEF IInv, RunStep
  <2>2. kind[cur] # "end"
    BY <1>10 DEF PromptOverflow, CommandThrows, CommandDone, IInv, PlaceOK, Commands
  <2>3. /\ \A i \in JobId \ {cur} : status'[i] = status[i]
        /\ status'[cur] \in {"succeeded", "failed"} /\ cur' \in {cur, NoJob}
        /\ UNCHANGED <<kind, session, sessions, open>>
    BY <1>10, <2>1 DEF PromptOverflow, CommandThrows, CommandDone, IInv, TypeOK
  <2> QED BY <1>a, <1>b, <2>1, <2>2, <2>3, SessionsKept
<1>11. CASE ResumeFallback
  <2>1. cur \in JobId /\ status[cur] = "running"
    BY <1>11, RunFacts DEF IInv, RunStep
  <2>2. /\ \A i \in JobId \ {cur} : status'[i] = status[i]
        /\ status'[cur] = "queued" /\ cur' = NoJob
        /\ UNCHANGED <<kind, session, sessions, open>>
    BY <1>11, <2>1 DEF ResumeFallback, IInv, TypeOK
  <2> QED BY <1>a, <1>b, <2>1, <2>2, SessionsKept
<1>12. CASE Commit
  <2>1. cur \in JobId /\ status[cur] = "running"
    BY <1>12, RunFacts DEF IInv, RunStep
  <2>2. /\ \A i \in JobId \ {cur} : status'[i] = status[i]
        /\ status'[cur] # "absent" /\ cur' = cur
        /\ UNCHANGED <<kind, session, sessions>>
    BY <1>12, <2>1 DEF Commit, IInv, TypeOK, Outcome
  <2>3. session[cur] # NoSession
    BY <1>b, <2>1
  <2>4. (open' = open \/ Closes) /\ (kind[cur] = "end" => open' # session[cur])
    BY <1>12, <2>1, <2>3 DEF Commit, ClosesSession, EndSession, Closes, AskedToEnd
  <2> QED BY <1>a, <1>b, <2>1, <2>2, <2>4, SessionsKept
<1>13. CASE Recover
  <2>1. \A i \in JobId : \/ status'[i] = status[i]
                         \/ status[i] = "running" /\ status'[i] \in {"queued", "interrupted"}
    BY <1>13 DEF Recover, Stale
  <2>2. cur' = NoJob /\ UNCHANGED <<kind, session, sessions, open>>
    BY <1>13 DEF Recover
  <2> QED BY <1>a, <1>b, <2>1, <2>2, SessionsKept
<1>14. CASE Dispatch
  <2>1. cur \in JobId /\ status[cur] # "absent"
    BY <1>14 DEF Dispatch, IInv, PlaceOK, Working, Holding, TypeOK, SessionsInv
  <2>2. open' = open \/ Closes
    BY <1>14, <2>1 DEF Dispatch, EndSession, Closes, AskedToEnd
  <2> QED BY <1>1, <1>14, <2>2 DEF Dispatch, jobsTable
<1>15. CASE EnterCommand \/ Accept \/ StoreReply \/ NoAutoSummary \/ Notify \/ Send \/ Leave
            \/ StartRun \/ SpawnFails \/ Provider \/ Stop \/ Crash \/ SweepOrphans \/ Sleep
            \/ UNCHANGED vars
  BY <1>1, <1>15
  DEF EnterCommand, Accept, StoreReply, NoAutoSummary, Notify, Send, Leave, StartRun, SpawnFails,
      Provider, ProviderExits, TearDown, Stop, Crash, Forget, SweepOrphans, Sleep,
      vars, database, jobsTable, memory
<1> QED
  BY <1>3, <1>4, <1>6, <1>7, <1>8, <1>9, <1>10, <1>11, <1>12, <1>13, <1>14, <1>15
  DEF Next, Poller, WorkerStep, CommandStep, RunStep, AfterStep

\* A finished /end has closed its session, whatever its outcome, no later message opens
\* it again, and no session is over that no /end or /new was sent in.
THEOREM EndedStaysClosed == Spec => []EndClosesSession
<1>1. Init => SessionsInv
  BY DEF Init, SessionsInv, EndClosesSession, NoSession
<1>2. IInv /\ SessionsInv /\ [Next]_vars => SessionsInv'
  BY SessionsStep
<1>3. SessionsInv => EndClosesSession
  BY DEF SessionsInv
<1> QED BY <1>1, <1>2, <1>3, Invariance, PTL DEF Spec
=============================================================================
