# actwyn in TLA+

actwyn is a personal assistant behind one Telegram chat: a single Bun process that polls
Telegram, keeps every fact in SQLite, runs the Claude CLI for each message, answers through
Telegram and archives artifacts in an S3 bucket. It is built to be killed at any moment and to
carry on after the next boot. This directory specifies how it does that, checks the
specifications with TLC and proves the central properties with TLAPS.

Paths below are relative to the repository. `worker.ts` is `src/queue/worker.ts`, and so on.

## 1. The system

### 1.1 Parts

| Part | State | Operations | Correct when |
|---|---|---|---|
| inbound ledger, poller (`telegram/inbound.ts`, `poller.ts`) | `telegram_updates`, `settings['telegram.next_offset']`, `sessions` | poll, classify and commit a batch, reply at once to `/cancel`, `/whoami`, unknown commands | no update is lost or acts twice; users are told what was committed |
| `/cancel` (`commands/cancel.ts`) | `jobs`, the worker's table of `AbortController`s | cancel the newest queued job, or signal the running one | one request takes one job; a signal that is heard holds |
| job queue and worker (`queue/worker.ts`) | `jobs`, `provider_runs`, `turns`, the claimed job | claim, capture, compile, run the provider, fall back, commit (T5), notify, stop | one job at a time in order; a job succeeds once; the user hears of it |
| startup recovery (`startup/recovery.ts`) | the same rows after a crash | requeue or interrupt, notify, kill orphans, enqueue a sync | no job is stuck or run without an attempt; no CLI outlives its run |
| provider adapter and subprocess (`providers/claude.ts`, `subprocess.ts`) | a process group, two pipes, timers | spawn, race of exit, cancel and limits, teardown, drain | answers are whole, a cancel is reported, no process is left |
| outbound ledger and retry driver (`telegram/outbound.ts`, `queue/notification_retry.ts`) | `outbound_notifications`, `outbound_notification_chunks` | create, send pass, roll up, retry job | what is 'sent' was sent, duplicates are bounded, nothing is stranded |
| storage (`storage/*`, `telegram/attachment_*.ts`, `commands/save.ts`, `forget.ts`) | `storage_objects`, `memory_artifact_links`, files, the bucket | attach, capture, save, forget, upload, delete, retry, capacity gate | rows say what bytes exist; budgets hold; what is due has a job |
| judgments (`judgment/*`, `context/compiler.ts`) | `judgment_items`, `_sources`, `_evidence_links`, `_edges`, `_events` | propose, approve, reject, cite, commit, supersede, revoke, expire, show | only backed judgments reach the provider; retired ones stay retired; the log explains the row |
| memory (`memory/*`, `commands/correct.ts`, `forget.ts`) | `memory_items`, `memory_summaries`, `turns`, `sessions` | answer, summarise, correct, forget, save, end | one version of a chain is active; what was forgotten stays so; automatic summaries keep their distance |
| context (`context/*`) | none | find, weigh, order and pack the slots of a prompt | prompts fit, keep their floor, and lose their least important slots and no others |
| stream parser and splitter (`providers/stream_json.ts`, `telegram/outbound.ts`) | buffers of two pipes, the assembled answer | read, parse, assemble, split | lines are whole; raw output is marked; chunks carry the text and fit |
| main, migrator, control gate (`main.ts`, `db/migrator.ts`, `judgment/control_gate.ts`) | the schema, `settings`, the process, `control_gate_events` | guard, migrate, recover, start the two loops, append the gate's row, stop | a job has one gate row; an upgrade ends; jobs are served across boots |

### 1.2 How they interact

One JavaScript thread runs two loops: the poller and the worker. They share the database and
the table of controllers, and interleave only where one of them awaits: the worker while it
captures, compiles, runs the provider or sends; the poller while it polls or replies. Everything
else goes through tables: the poller inserts `jobs`, the worker claims them, writes
`outbound_notifications`, and inserts `notification_retry` and `storage_sync` jobs for itself. A
crash keeps what was committed. The next boot runs recovery to its end before either loop starts.

### 1.3 What is hard

Commits with a crash between them (a terminal transaction, then the notification, then its retry
job); calls whose answer is lost (Telegram, S3); a signal sent inside a transaction that may be
rolled back; a CLI with helpers that hold its pipes; retries counted at one place, given back at
another and limited at a third; long sequences of commands on rows that refer to each other. The
complete list, with the line where each bites, is under "hazards" in `PROJECT.json`.

## 2. Modules

| Module | Models | Composition |
|---|---|---|
| `JobLedger` | what a row of `jobs` may go through | abstract specification |
| `Worker` | worker, poller and recovery on `jobs`, `provider_runs`, `sessions`, notifications created, live CLIs | implements `JobLedger` (`INSTANCE JobLedger`, checked as `RefinesLedger`, proved as `Refinement`) |
| `Outbound` | the outbound ledger, its send pass, retry jobs and the crashes around them | has its own small job table |
| `ArtifactLedger` | what a row of `storage_objects` and its bytes may go through | abstract specification |
| `StorageSync` | artifacts from attachment to deletion, and the jobs that move them | implements `ArtifactLedger` (`RefinesLedger`, proved as `Refinement`); has its own small job table |
| `Inbound` | updates from Telegram to `jobs`, the batch's transaction, the offset | jobs end nondeterministically |
| `ProviderRun` | what one run of the provider promises the worker | abstract specification |
| `Provider` | one run of the adapter and its process group | implements `ProviderRun` (`RefinesRun`, proved as `Refinement`), which is what `Worker` has of a run (2.5) |
| `Judgment` | the judgment tables under every command, summaries and reruns | the worker's job in hand |
| `Prompt` | slots, weights, priorities, the packer | extended by `Memory` |
| `Memory` | a chat's turns, summaries, memory items and prompts under messages, commands and reruns | extends `Prompt`; has its own small queue |
| `Service` | boot, guard, migrations, the loops' life and death, the gate's rows, the upgrade | jobs are messages only |
| `Splitter` | `splitForTelegram` on lengths | extended by `Answer` |
| `Answer` | two pipes of bytes, lines, the assembler, the notification's chunks | extends `Splitter`; starts where `Provider` has a drained pipe and ends where `Outbound` has chunks |
| `WorkerProofs`, `StorageProofs`, `InboundProofs`, `ProviderProofs`, `JudgmentProofs`, `MemoryProofs`, `ServiceProofs` | theorems | extend the module they are about |
| `OutboundProofs` | theorems about a reply, what it says and how it is delivered | extends `Outbound` and `Answer` |
| `MC*` | what TLC needs beyond a `.cfg` | extend the module they check |

In every module a variable is a table's column, a table, or a local variable of the code that
survives an await; an action is what runs between two awaits or two commits; a crash is an action
of its own that keeps the database. Operators called `...Bare`, `Never...` and the like, placed
before the definition they vary and marked "Mutant" or "A bug", are plausible bugs: for each property one of
them shows that the property notices it.

### 2.1 Worker and JobLedger

`pc` is the worker's place in `runOneClaimedInner` or `runSystemCommandJob`; `cur` the job it
holds. `Claim`, `Accept`, `Compiling`, `StartRun`, `ProviderExits`/`TearDown`, `ResumeFallback`,
`Commit` (T5), `AutoSummary`, `Notify`, `Send` follow `worker.ts:163-850`; `Dispatch`,
`CommandThrows`, `StoreReply`, `CommandDone` follow 1434-1542; `Recover` and `SweepOrphans` follow
`recovery.ts`; `Receive` and `CancelQueued`/`CancelRunning` are what the poller does meanwhile.

Abstractions:
 - Job ids are the order of creation. The queue sorts by `scheduled_at`, then `created_at`; ties
   in the same millisecond are not modelled. The worker is serial, so the last run to finish is
   that of the latest job to run.
 - Storage and retry jobs stutter here: they are the business of their own modules.
 - Spawn and the record of the process group are one step: no await lies between them.
 - A provider that failed has a non-zero exit code, so every failed resume falls back.
 - The control-gate row and the `memory_summaries` row are state of `Service` and `Memory`; nothing
   here reads them, nor recovery's turns.
 - A branch that cannot be reached in one process is not modelled: the claim lost to another
   worker, the job cancelled under the running worker, the worker's own dispatch of `/cancel`.
 - Exceptions of the database that would end the loop are in `Service`.
 - An abort is heard (`Listening`) if it is the first of the claimed job's controller and comes
   while the adapter listens. A later one fires no event, be it a `/cancel` or the stop.
 - Recovery kills every recorded group of the jobs it interrupted. Reuse of ids by the kernel is
   not modelled. Under systemd `KillMode=control-group` (`deploy/systemd/actwyn.service:31`)
   kills most of them before.

### 2.2 Outbound

A work job ends with one notification; `chunk` has the status and attempts of its chunks, `got`
counts what Telegram took. One send is two steps, Telegram's and the ledger's, with an answer that
may be lost and a crash between them. The options are the defaults (three attempts, 3800
characters): `main.ts` sets none; runs use two attempts. A chunk refused for good is retried while
it has attempts, as in the code. Replies of the poller bypass the ledger and are in `Inbound`. A
graceful stop falls between jobs and changes nothing here. Recovery's notifications are unique
per job, so repeated boots add none.

### 2.3 StorageSync

Everything but the arrival of attachments and `/cancel` happens in jobs, and jobs are serial.
A job's `left` is how often recovery may still queue it (2 for messages, 3 for the sync of a
capture, 1 for the others). `keys` are the idempotency keys of sync jobs, which are never freed.
A PUT or DELETE is answered, refused, or done with the answer lost. A missing local file, a read
error and a hash mismatch are one failure. The level of the disk is any of `Levels` whenever it is
read. One message has one attachment. A crash and the next recovery are one step. A PUT that
arrives after the deletion of its object is not modelled.

`ArtifactLedger` has the rows and the bytes without jobs, passes, budgets and crashes: section 6.4 of
`docs/02_HLD.md` as the code has it. `StatusOf`, `CapturedRows` and `PromotedRows` are the refinement
mapping, `disk` and `remote` are its `local` and `stored`. A step of a pass is a step of the ledger
about the row in hand; the selection, the jobs and a crash leave the ledger alone.

### 2.4 Inbound

`db` is the database as the open transaction sees it and `saved` what it was at BEGIN: an
exception restores it, and `Durable` is what survives a crash. Telegram answers with a prefix of
what it holds from the offset on, in ascending order, and may answer twice (`MaxRepeats`); that
is an external assumption. The statuses `received` and `failed` are never committed, so
recovery's fast-forward of the offset does nothing. Corrections in natural language are messages.
`by` is the `/cancel` that cancelled a queued job; it is history and not a column. `heard` is the
signal of the running job's controller: it is no part of the database, so neither a rollback nor the
boot's recovery has it back.

### 2.5 Provider

The adapter's place, its race and the two pipes; the processes may fork a helper, write, close,
ignore SIGTERM, leave the group, and exit with any code. There is no clock: a timer that is
configured may go off while it runs. Output is counted in lines and pipes do not fill up. The
prompt limit, forbidden flags and a missing binary are one failure before the spawn. What the
lines say is in `Answer`; redaction is left out.

`ProviderRun` is what the worker may rely on: a cancel counts exactly when it comes during the race
and is then what is reported; the verdict is settled when the race is, before the teardown and the
pipes, and nothing that comes later changes it; success needs a CLI that left by itself; and when the
run reports, the CLI is dead, unless its group could not be recorded. The mapping is `Place` and `Says`,
which is the verdict of the race as soon as there is one. In `Worker` the same run is coarser:
`StartRun` is `Start`, `SpawnFails` is `Refuse`, `ProviderExits` is `Exit`, `Settle` and `Report` at
once, `CancelRunning` and `TearDown` are `Cancel`, `Exit` and `Report`. The case of the unrecorded group
is `Provider`'s and not `Worker`'s.

### 2.6 Judgment

A row has its lifecycle, approval, retention, authority and eligibility columns, its sources and
evidence, and its replacement. Inputs are what the runtime's callers give: commands of the worker
and proposals of summaries, so scope is global, importance 3, and nothing is pre-filled or dated.
The worker's job in hand may be interrupted by a crash after its effects and run again. The log
is kept per item; the event of a recorded source has no item and is left out. Arrays of ids are
sets. `Listings` is any choice the limit allows, the order being by time.

### 2.7 Prompt and Memory

One chat. Jobs wait in `queue`, and the worker's job goes through `phase`: `claimed`, `compiled` or
`done` (its effects are committed), `told` (its reply is a turn), `ended` (a message's last step,
`maybeEnqueueAutoSummary`). A crash runs it again, ahead of the others, if it has an attempt left.
Recovery says so, or that the job was given up, in a turn of the assistant whose id is made of the
job's and of what it says: one turn of each sort for a job, however often it is interrupted
(`warned`). The turn counts for the trigger and fills a slot of the next prompt. `resumable` has
the sessions with a succeeded run that named its CLI session, be it of a message or of a summary
(`KeepsSession`). A session's turns and summaries are counts, since the trigger and the throttle compare counts;
`Age` is the clock of the 24-hour trigger. The rows in `Init` are those earlier versions wrote:
today only corrections insert items. `chain` and `fact` are history and not columns.

`Compile` finds what `context/compiler.ts` finds in each mode, and `Prompt` weighs and packs it:
each slot has a constant weight, or one for each turn or item, in place of the estimator's count of
characters. The packer's sort and loop are a fold over the slots in the order of their priorities. Whether a judgment is eligible is any Boolean (module `Judgment` says which).
`/save_last_attachment` is here as far as its link goes; its bytes are in `StorageSync`. Messages
are not cancelled here. Creation times are unique.

### 2.8 Service

`phase` is the process's, or its unit's when there is none. `Guard`, `Migrate`, `Recover` follow
`main.ts`; `LoopDies` is an exception outside a job's own try. The operator follows the upgrade
notes of `docs/OPERATIONS.md:97-124`. The build before migration 006 is not in the repository:
the comment above the guard (`main.ts:285-292`) says what it wrote, and it is taken to be this build
otherwise. A poll under way commits its messages after a stop was ordered; a stop may be killed. A
rollback to the old build once 006 is applied is left out, since the document has none.

### 2.9 Splitter and Answer

A line is two characters, the first of two bytes, and a newline, so a read may end inside a
character, inside a line or after several lines; the CLI may be killed inside either. What a line is
(text, end, metadata, JSON that is no object, plain, blank) decides what `parseLine` makes of it.
`Decodable` counts the characters whose last byte is among the bytes read, which is what a
`TextDecoder` that is told of a stream yields. The names of `Answer`'s specification begin with
`Answer`, so that `OutboundProofs` may extend it beside `Outbound`.
A text is its length in UTF-16 units. `Splitter` has the arithmetic of `splitForTelegram` alone,
with fewer than 10000 chunks (`ManyChunks`), the answers of a CLI being shorter than 38 million
units.

## 3. Checks

`PROJECT.json` lists the runs. Passing runs, their bounds and sizes:

| Run | Bounds | Distinct states | What they leave room for |
|---|---|---|---|
| `worker_queue` | 2 jobs of 4 kinds, 2 sessions, 2 attempts, 2 crashes, 1 stop | 873,285 | two crashes exhaust a job's attempts, or fall into the job and into its recovery; the second job checks the order, is the first one's automatic summary, or is in the session an `/end` must not close |
| `outbound_ledger` | 1 job, 2 chunks, 2 attempts, 1 crash | 1,520,420 | one chunk done and one not, retried after a lost answer; a crash in the pass or in its retry |
| `storage_bytes` | 2 artifacts, 2 commands, 2 tries, 1 crash | 868,002 | a deletion beside an upload, both budgets used up, a batch that leaves one row out |
| `inbound_ledger` | 3 updates of 4 kinds, batch 2, an exception, a repeat, a crash | 475,082 | a batch rolled back, its repetition mixed with a new update; a cancel of the first of two jobs |
| `provider_run` | 1 helper, 2 lines, all limits | 757,228 | the line over the limit, a helper that outlives the CLI with or without its pipes, a CLI that ignores SIGTERM |
| `judgment_lifecycle` | 2 items, 1 source, 3 links, 2 attempts, 1 crash | 625,143 | one item replaces the other, the other tries to replace it back, a rerun at every point |
| `memory_chat` | 2 sessions, 3 items, 3 messages, 3 commands, 4 of both together, 2 attempts, 1 crash | 2,575,054 | a correction run twice, or of an item another command retires; a summary between the decision for an automatic one and its row; every slot dropped and kept, and a message that does not fit at all |
| `service_boot` | 2 messages, 2 crashes, 2 exceptions, 2 attempts | 117,424 | the guard fires after a crash during the stop, the old build drains the queue, systemd's restarts in between; one message on each side of the upgrade |
| `answer_text` | 2 lines on stdout and 1 on stderr, 6 kinds, 2 sizes | 1,193,036 | a read that ends in a character, two lines in one read, a line cut in two; a notification of 1, of up to 9 and of 10 and more chunks |

A second replacement of one judgment needs three items: the theorem `SupersessionIsSound` covers
it for any number. Thresholds of summaries are small (2 answered messages, 4 turns) so that three
messages reach them; `DistanceKept` proves the throttle for every value. A third automatic summary
does not fit; the same theorem covers it.

Each run takes between a quarter of a minute and two minutes. Bounds are constants named `Max...`; a guard of the
environment's actions (arrivals, crashes, exceptions, forks) uses them, never one of the code's,
but for the room in the tables (`MaxItems`, `MaxSessions`).
The other constants (`MaxAttempts`, `Chunks`, `Batch`, `Limits`, `ListLimit`, `Budget`, ...) are
parameters of the code.

### 3.1 Properties

 - Worker: `SucceededExactlyOnce`, `ChatAnsweredOnce`, `NoResumeAfterFailedResume`,
   `FirstComeFirstServed`, `CancelsHold` (nothing is cancelled that nobody asked for, and a cancel
   the adapter heard survives the race with the exit, the fallback and the commit),
   `OneProviderProcess`, `EndClosesSession` (a finished `/end` has closed its session and no other);
   `RefinesLedger`; `EveryJobSettles`.
 - Outbound: `DeliveryIsRecorded` (what is 'sent' was sent, and what was taken is counted),
   `StrandedByCrash`, `NeverResent`; `EveryNotificationSettles`.
 - StorageSync: `BytesAsRecorded` (uploaded bytes are remote, deleted ones gone, and none vanish
   that a row still has), `BudgetsHold`, `TypeOK`; `RefinesLedger`; `EveryObjectSettles`.
 - Inbound: `NothingLost`, `OnceAndTold` (an update makes one job and one attachment and cancels
   one queued job at most; over all, no more jobs are cancelled than `/cancel`s were sent; replies
   say what was committed); `EveryUpdateSettles`.
 - Provider: `AnswerIsWhole`, `NotAbandoned`; `RefinesRun`; `EveryRunReturns`.
 - Judgment: `EligibleIsBacked`, `LogIsTrue` (the row is what its events replay to, each change has
   its event, and a rerun adds none), `ReplacementsAreSound`; `RetiredForGood`.
 - Memory: `CorrectionsAreSound`, `PromptIsSound`, `SummariesThrottled`, `RerunsAreBounded`;
   `NothingComesBack`.
 - Service: `GateRowsAreSound`; `ServedUnlessLoopIsDead`, `UpgradeEnds`.
 - Answer: `LinesAsWritten`, `UnmarkedIsClean`, `ChunksAreSound`.

Type invariants are proved as `TypeCorrect`; `TypeOK` of `StorageSync`, which bounds rows and the
retries of jobs, is run as well. `RunningIsOwned` (Worker), `OneRetryWaits` and `SentIsFinal` (Outbound) are
proved and not run.

Some properties name the case in which the code does not keep them, and exclude exactly that:
`OneProviderProcess` the groups a boot was about to kill when it crashed itself (`strays`),
`StrandedByCrash` one notification for each crash, `EveryObjectSettles` a crash or a pass that left
rows out for want of space (`short`), `NotAbandoned` a run whose group id could not be written,
`ServedUnlessLoopIsDead` and `UpgradeEnds` a process that goes on without its worker (`LoopIsDead`).
Each is described in 3.3.

### 3.2 Fairness

Liveness is checked under `FairSpec`. The worker's loop and the poller's are run by the event
loop again and again: weak fairness of their steps, not of each branch. An external call that is
waited for returns: Telegram's and S3's clients have timeouts, and `Inbound` asks strong fairness
of Telegram's answers, since every other one may be lost. The provider exits: an assumption about
the CLI, which `Provider` takes apart (`EveryRunReturns` needs a limit, and production sets none).
A boot follows a crash: systemd's `Restart=on-failure` (`actwyn.service:35`); nothing is assumed
after a graceful stop. Users do nothing they do not want to. In `Provider` the kernel delivers
signals and nobody exits by himself. In `Service` boots and loops are weakly fair, and so are the
operator's steps of an upgrade that was begun; his way back to the old build races systemd's
restarts, which disable it again and again, and is strongly fair: he stops the unit at last.

### 3.3 What the code does not do

Runs that expect a violation show where a document, a comment or a test says otherwise. Details,
with both quotations, are under "findings".

| Run | Where | What the run shows |
|---|---|---|
| `storage_retried` (`FailedIsRetried`) | `src/queue/worker.ts:1163` | A sync job that failed is not run again: the failed upload waits for something else to make a sync job. |
| `memory_latest` (`LatestCorrectionWins`) | `src/memory/items.ts:90` | Two corrections of one item, both queued before the first runs, leave two active versions. |
| `judgment_shown` (`ShownIdsResolve`) | `src/queue/worker.ts:868` | The eight characters of an id that replies show are not an id. |

Other divergences met while modelling. The models reach these states, or have the code as
described; no run is kept for them.

 - `claude.ts:149`: a `/cancel` after the claim and before the adapter listens is not heard, since
   a listener added to an aborted signal is not called. Nor is any later `/cancel` or SIGTERM in
   the same run: an aborted controller fires no second event (`cancel.ts:86`, `worker.ts:279-287`).
   The CLI runs to its end and the job may succeed, though the user was told twice that it is being
   cancelled. `commands/cancel.ts:8-11` says the adapter tears the subprocess down.
 - `worker.ts:1060` looks for the session to resume among the runs of every job, summaries
   included: the message after a summary resumes the CLI session in which the summary was made,
   rather than that of the conversation. `docs/02_HLD.md:1407-1408` looks for it on the `sessions`
   row and speaks of no run; `worker.ts:367` keeps only the summary itself from resuming.
 - `outbound.ts:281`: the pass goes on after a chunk that was refused for a moment, so later chunks
   arrive first. `docs/PRD.md:198` and AC-NOTIF-002 (`docs/PRD.md:1188`) require the order.
 - `claude.ts:240` waits for the pipes to end after the teardown: a helper that survived and holds
   one keeps a cancelled run from returning, and a cancel that comes then is not heard.
   AC-PROV-004 (`docs/06_ACCEPTANCE_TESTS.md:291-301`) has the job end as cancelled and the children
   gone.
 - `worker.ts:972`: an exception outside a job's own try ends the worker's loop. `main.ts:246` waits
   for the poller as well, so the process goes on, systemd sees no failure, and messages are queued
   for nobody. `docs/02_HLD.md:108-109` relies on the restart.
 - `commands/forget.ts:100`: `/forget_session` leaves the session's summary, which the next prompt
   has in it. `docs/PRD.md:116` and the comment above the function have it revoked.
 - `context/packer.ts` drops memory items before recent turns; `docs/PRD.md:608-616` drops old turns
   first.
 - `worker.ts:410`: the second prompt of a summary says the first attempt broke the schema; an
   answer that does not parse is never retried, so only a rerun after a crash gets it.
 - A summary that does not parse leaves no row: the next message queues an automatic one again
   (`worker.ts:1278`).
 - `stream_json.ts:259-262`: the comment has a run without an end promoted to `fallback_used` only
   if no text was parsed either. The code, its test (`test/providers/parser.test.ts:100-107`) and
   section 8.3 of `docs/02_HLD.md` promote it with a text as well, as `UnmarkedIsClean` has it.
 - `stream_json.ts`: `parse_error` and `unparsed` are never produced; `docs/02_HLD.md:890-891` and
   `docs/02_HLD.md:1223-1224` describe them. A line on stderr that is JSON with a text joins the
   answer; `docs/PRD.md:1305` has stderr classified.
 - `outbound.ts:48-55` cuts between the halves of a UTF-16 pair; sizes of 12 and less make chunks
   longer than the size. The default is 3800.
 - `worker.ts:776-810` creates the notification after the terminal transaction: a crash in between
   leaves a finished job nobody hears of. `docs/02_HLD.md:589-592` has a job leave `running` only
   after the notification's row is inserted.
 - `worker.ts:188` charges an attempt at every claim and recovery does not give it back;
   `startup/recovery.ts:102-104` says "we do not charge an attempt".
 - `recovery.ts:129-148` kills the groups of the jobs this boot interrupted, a list in memory: a
   crash between the transaction and the sweep leaves a CLI that no later boot looks for.
   `recovery.ts:9-11` says every step is idempotent.
 - `worker.ts:1499` ends a command as a succeeded provider_run job without a provider_runs row;
   `docs/02_HLD.md:431-434` asks for one.
 - `recovery.ts:90` interrupts an `/end` on its last attempt and leaves its session active;
   `worker.ts:709` says `/end` closes the session regardless.
 - `outbound.ts:299` rolls the parent up in a later transaction than the last chunk's; section 6.3
   of `docs/02_HLD.md` asks for the same one. A crash in between leaves a pending parent with every
   chunk sent.
 - `worker.ts:838` enqueues the retry job after the first pass: after a crash before it the
   notification stays pending. `docs/02_HLD.md:1834-1835` leaves it to the retry loop.
 - `recovery.ts:184` makes a sync job only for failed rows: a crash in a save's sync job leaves its
   row pending without a job. `docs/02_HLD.md:1831-1833` speaks of a "normal cadence"; there is none.
 - `storage/capacity.ts:145` takes a few rows when space is short, and the job ends: the other rows
   have none. Section 12.1 of `docs/02_HLD.md` describes one loop that goes on.
 - `storage/sync.ts:245` retries failed deletions by itself; `docs/02_HLD.md:705-706` says they
   require operator action.
 - `commands/forget.ts:43` sends an artifact that was never captured to deletion;
   `docs/02_HLD.md:709-712` requires `capture_status = captured`.
 - `commands/save.ts:95` promotes and links the newest captured row although it was deleted; its
   header (12-14) says bytes that are not held are not promoted.
 - `worker.ts:1499`: a crash between `/forget_last`'s transaction and its job's end makes one request
   undo two actions; `commands/forget.ts:114-118` says it undoes the last one.
 - `inbound.ts:671` rolls the whole batch back when one update throws; `docs/02_HLD.md:812-814` says
   that the row moves to failed and the others advance.
 - `inbound.ts:374` signals a running job inside the transaction; if it is rolled back the job is
   cancelled all the same, and the `/cancel` is handled again and may cancel a second job, while a
   restart may forget the signal of another. `docs/02_HLD.md:810-811` says the transaction rolls back
   entirely. It takes four updates: a job runs and one waits; of two `/cancel`s in one batch the first
   takes the job that waits, the second signals the one that runs, and the batch is rolled back.
   `OnceAndTold` therefore counts one job to a `/cancel` only for queued jobs, and over all no more
   jobs than `/cancel`s.
 - `main.ts:112-126` sets no limit on the provider: a silent CLI is waited for for ever.
   `docs/02_HLD.md:893-894` treats silence as a hang.
 - `subprocess.ts:100` ends the teardown when the leader has exited: a helper that ignores SIGTERM
   survives. `docs/04_IMPLEMENTATION_PLAN.md:685` says no survivor is left.
 - `claude.ts:131` writes the group's id inside the try of the spawn: if the write throws, the run
   fails and the CLI goes on. `subprocess.ts:48-49` asks the caller to tear it down.
 - `context/compiler.ts:127` takes 20 judgments and `/judgment` lists 50; `worker.ts:1808-1809` says
   the two agree on what is active.

## 4. Proofs

TLAPS proves the theorems for every value of the constants that satisfies the named assumption of
the module (`BoundsAssumption` and the like: the bounds are natural numbers, sets of kinds are
what the schema allows).

| Module | Theorem | Property | What it says |
|---|---|---|---|
| `WorkerProofs` | `TypeCorrect` |  | Every reachable state is well typed; in particular attempts never exceed max_attempts, for every bound. |
| `WorkerProofs` | `RunningOwned` |  | While the process is up, exactly the job the worker holds is running in the database. |
| `WorkerProofs` | `SucceededOnce` | `SucceededExactlyOnce` | A provider job succeeded exactly when its last run did, and no earlier run of it. |
| `WorkerProofs` | `Refinement` | `RefinesLedger` | The worker, the poller and recovery together implement the abstract job ledger. |
| `WorkerProofs` | `ServedInOrder` | `FirstComeFirstServed` | No job gets ahead of an older one that waits or runs, through crashes, requeues and fallbacks, for any number of jobs. |
| `WorkerProofs` | `AnsweredOnce` | `ChatAnsweredOnce` | A chat message gets at most one answer turn over all the runs of its job. |
| `WorkerProofs` | `NeverResumedAgain` | `NoResumeAfterFailedResume` | Once a resumed run of a job has failed no later run of it resumes, through crashes and new claims. |
| `WorkerProofs` | `CancelsKept` | `CancelsHold` | A job ends cancelled only when a /cancel or a stop was meant for it, and if the first one of a run came while the adapter listened, it holds unless the process crashes before the commit. |
| `WorkerProofs` | `OneProvider` | `OneProviderProcess` | Once boot is over at most one provider process group is alive, that of the worker's run, through any number of crashes; only what a boot that crashed before its sweep had to kill may live on. |
| `WorkerProofs` | `EndedStaysClosed` | `EndClosesSession` | A finished /end, whatever its outcome, has closed its session, and no session is over that no /end or /new was sent in. |
| `OutboundProofs` | `TypeCorrect` |  | Every reachable state is well typed; a created notification has all its chunks. |
| `OutboundProofs` | `Delivery` | `DeliveryIsRecorded` | A notification recorded as sent has reached the user in full, and no message comes oftener than once for every attempt and every crash. |
| `OutboundProofs` | `OneRetry` |  | Two retry jobs of one notification never wait together. |
| `OutboundProofs` | `NotResent` | `NeverResent` | A chunk recorded as sent is never given to Telegram again. |
| `OutboundProofs` | `SentForGood` |  | A notification recorded as sent stays sent. |
| `OutboundProofs` | `StrandedOnlyByCrash` | `StrandedByCrash` | Whenever the worker is idle, no more notifications are unfinished and without a retry job than there were crashes: nothing else drops one. |
| `StorageProofs` | `Refinement` | `RefinesLedger` | For any number of objects and crashes, every artifact lives as ArtifactLedger promises: only what was captured and promoted leaves the machine, the row follows the answers and never precedes them, deletions take the bucket, the disk and the row in this order, and nothing undoes them. |
| `StorageProofs` | `BytesWhereRecorded` | `BytesAsRecorded` | What the rows say of an object's bytes is where they are, in the bucket and on the disk, through crashes, lost answers, late captures and deletions, for any number of objects. |
| `StorageProofs` | `TypeCorrect` | `TypeOK` | Every reachable state is well typed, for any number of objects: no job is claimed more often than it may be although restarts give it back, rows stay within the room set aside for them, and no link, file or pass names a row that does not exist. |
| `StorageProofs` | `BudgetsKept` | `BudgetsHold` | Uploads and deletions have budgets of their own, and no object exceeds either. |
| `InboundProofs` | `TypeCorrect` |  | Every reachable state is well typed, for any updates, batches and crashes. |
| `InboundProofs` | `NothingIsLost` | `NothingLost` | What Telegram has dropped is durably enqueued or skipped, through rollbacks and crashes. |
| `InboundProofs` | `ActsOnceAndTellsTrue` | `OnceAndTold` | However often an update is delivered and a batch rolled back, it makes at most one job and one attachment's row and cancels at most one queued job, no more jobs are cancelled than /cancels were sent, and a user is told only of what the database holds. |
| `ProviderProofs` | `TypeCorrect` |  | State keeps its types, and a run has an outcome exactly when it returned, for any helpers, lines and limits. |
| `ProviderProofs` | `Whole` | `AnswerIsWhole` | A run that succeeded was read to the end of both pipes, and nothing is written to them afterwards, whatever the CLI and its helpers do. |
| `ProviderProofs` | `Kept` | `NotAbandoned` | No run that got as far as its race returns while its CLI lives. |
| `ProviderProofs` | `Refinement` | `RefinesRun` | Provider implements ProviderRun: a cancel counts if and only if it comes during the race, what is reported is settled then, success is the CLI's own exit, and the report waits for the CLI's death, for any helpers, signals, limits and lines. |
| `MemoryProofs` | `TypeCorrect` |  | Every reachable state is well typed, for every budget, limit and number of chats, items and crashes. |
| `MemoryProofs` | `CorrectionsSound` | `CorrectionsAreSound` | Along the pointers of a correction each row has one successor, exactly one while it is superseded, and at most one row of a chain is active, whatever is corrected, forgotten and run again. |
| `MemoryProofs` | `NothingReturns` | `NothingComesBack` | A row of memory changes in its status only, which never rises: what was forgotten or corrected is not remembered again. |
| `MemoryProofs` | `RerunsBounded` | `RerunsAreBounded` | A memory command that crashes make the worker run again changes the memory at most once for each attempt. |
| `MemoryProofs` | `DistanceKept` | `SummariesThrottled` | Between any summary and an automatic one after it the user had as many messages answered as the throttle wants, although the decision and the row are transactions apart. |
| `MemoryProofs` | `PackedWell` |  | Whatever the slots weigh, if the message and the identity fit, the packer's loop ends with a prompt that fits, has dropped the lower slots first and none that there was room for. |
| `MemoryProofs` | `PromptsSound` | `PromptIsSound` | Every prompt compiled for a job is packed so, shows no item that was corrected or forgotten since, and tells a summary no judgment. |
| `JudgmentProofs` | `TypeCorrect` |  | Every reachable state is well typed, for every bound, batch and number of restarts. |
| `JudgmentProofs` | `RetiredIsFinal` | `RetiredForGood` | A judgment that left use is never changed again, whatever commands, crashes and summary proposals follow. |
| `JudgmentProofs` | `SupersessionIsSound` | `ReplacementsAreSound` | The edge, the old row and its replacement agree about every supersession, a row is replaced at most once, and replacements never form a circle, for any number of rows. |
| `JudgmentProofs` | `EligibleRestsOnEvidence` | `EligibleIsBacked` | A judgment that the context may show was approved and linked to sources that exist before it was committed, and has gained no link since. |
| `JudgmentProofs` | `LogTellsTheTruth` | `LogIsTrue` | The events of each judgment, replayed in order, give its row, its arrays are its links, and a command that is run again takes effect once. |
| `ServiceProofs` | `TypeCorrect` |  | Every reachable state is well typed; no queued job is without an attempt and no loop runs outside a booted process. |
| `ServiceProofs` | `OneGateRow` | `GateRowsAreSound` | The append-only ledger of the control gate has at most one row naming a job, none for a job the old build wrote for, and one for each success, whatever crashes and however often the build is replaced. |
| `OutboundProofs` | `SplitSound` |  | A text of any length is cut, for any message size above the room reserved for a marker and fewer than ten thousand chunks, into chunks that carry it whole and in order and that fit with their markers. |
| `OutboundProofs` | `LinesRestored` | `LinesAsWritten` | For any lines on the two pipes, cut anywhere, read in any pieces and interleaved in any way, the parser is handed the lines as they were written, each once and in order, and all of them by the end of the stream. |
| `OutboundProofs` | `NoRawOutput` | `UnmarkedIsClean` | An answer that is not marked as a fallback has no raw output and no half of a line in it, and was seen to its end if the CLI exited with code 0. |
| `OutboundProofs` | `AnswerFits` | `ChunksAreSound` | Whatever the length of the answer and the size of a message, the chunks a user is sent carry the whole notification and fit. |

The arguments:

 - `WorkerProofs`. `RunningIsOwned` is inductive once the worker's place is tied to the job it
   holds (`PlaceOK`) and rows to their existence (`RowsOK`): without them a step could commit a
   job that is not running. `SucceededExactlyOnce` also needs that no row but the one in hand has a
   run in progress (`OnlySucceeded`). Every step then maps to one of `JobLedger` or to a stutter.
   Six more properties each have an invariant that is inductive relative to these. `OrderInv`: ids
   are given in order, so that a new row is behind every other (`Dense`). `AnswersInv`: a message that
   waits or runs has no answer, since turn and end are one transaction. `ResumeInv`: a failed resume
   has flipped its job to replay, which no claim or crash takes back. `CancelInv`: a cancel that was
   heard is in the run, or in its outcome, until the commit writes it. `GroupsInv`: a crash leaves
   the group of the running job, and recovery remembers that job until the sweep has killed it.
   `SessionsInv`: a row is never inserted into a session that is over, as a new one takes a number no
   row has.
 - `StorageProofs`. `BytesInv` says what each status promises of the bytes, `BudgetInv` what it
   promises of the budgets (`Budgeted`). For a step of a job to keep that, the row must still be what
   it was when the job chose it, which takes two facts: a message's job is ahead of whatever else is
   asked of its attachment (`MessageFirst`), so that a capture, however late or often it is run, finds
   its row pending; and the rows of a pass keep their status until the pass comes to them (`PassInv`).
   `TypeInv` says that there is always room: a row needs one of `MaxObjects`, and each summary that
   waits, and the snapshot after it, has its row reserved (`Roomy`), so the count of the reserved and
   of the rows never grows but when a row is asked for. That the links of a forgotten artifact are
   taken out of the others in order is a fold over the links: `FoldExists` shows that such a fold is
   defined at every set on its way, by induction over the sizes of the sets (`Numbers`, stated for a
   set of numbers, as the prover cannot instantiate a predicate), and `UnlinkedTyped` what it yields.
   For `Refinement`, `WrittenLedger` and `GrownLedger` say what a written and a new row are to the
   ledger, `PromotedInv` that a pass has only rows that are to be kept, and `CaughtInv` that only what
   was captured can be saved.
 - `InboundProofs`. The database, and the copy an exception would restore, are sane by themselves
   (`Sane`): handled updates have only handled ones below them, no two jobs have one update, none is
   queued ahead of the running one. `Within` says how the two may differ while the transaction is
   open, and `Orderly` that the batch passes over nothing; `NothingLost` follows. For the signals,
   which no rollback takes back, `SignalsInv` keeps an account: either the cancelled jobs, with the one
   that was signalled, are no more than the `/cancel`s handled; or one `/cancel` that was rolled back
   is a `Phantom`, and all that it could still cancel when it is handled again is covered by the
   `/cancel`s up to it, because it signalled only when no other job was left to cancel. An earlier form
   of the property, one job to a `/cancel`, passed TLC with three updates and could not be proved: it
   is false with four (3.3).
 - `OutboundProofs`. The ledger part says that a chunk marked sent was taken by Telegram, and that
   what Telegram took is counted by the chunk's attempts, by the one answer in flight, or by a
   crash. The jobs part says who may hold which notification, so that two retry jobs of one
   notification never wait. For `StrandedByCrash`, `QueueInv` says that the worker takes jobs in the
   order of the rows and that each key of a retry job is new when it is used, so that a notification
   at hand (`AtHand`) is never dropped by a job that ends: `StrandInv` counts one crash for each one
   dropped.
   The answer's part first proves `SplitSound`: the markers are no wider than the estimate, since the
   number of chunks is at most the estimate, which reserves 12, and the number of digits is monotone.
   `AnswerInv` then says that each event is the next line of its stream (`Placed`), and that what a
   reader holds is what was decoded and is in no event (`Held`), so a newline in it ends the next line
   and what is left at the end is the last line as far as it was written.
 - `ProviderProofs`. `Placed` says that nothing was born before the spawn, that the CLI was born
   after it, and that an exit which won the race is over: so a verdict is never revised, since the
   exit code of the dead CLI is kept (`WinnerSettles`), and every step of the adapter or of a process
   maps to one of `ProviderRun` or to a stutter. `AnswerIsWhole` is stable because a pipe that nobody alive holds cannot be written or
   handed on, and a dead CLI keeps its code. `NotAbandoned` leaves
   out the run whose group id could not be written (3.3).
 - `JudgmentProofs`. `SupersessionInv` adds to `Mirrored` and `NoCycle` that edges connect rows and
   that an active row was confirmed by the user: a replacement is active and new in its chain, so
   an edge to it closes no circle. `LogInv` says of each row that its events replay to it, that its
   arrays are its links, and that an approval and a commit in it are in its log, in this order;
   `JobInv` says that a command that took effect has left its row as the operation refuses it, so
   that a rerun has none.
 - `MemoryProofs`. `CorrectionsAreSound` is inductive with the order of chains (an item's chain
   does not begin after it): a correction retires the one active row of a chain and adds one.
   `RunsInv` says what the first run of a job left for the second. `ThrottleInv` adds that an
   automatic summary that is queued or in hand is due now, and that no other summary of its session
   is ahead of it, so that none is written before it. For the prompt, folds over the slots are
   first shown to be defined (`FoldExists`, as above) and sums to add up; `PackedWell` then follows the
   packer's loop, of which the invariant is that what was dropped so far is lower than what is left and
   that the last one did not fit. `PromptInv` says that a compiled prompt was built from the active
   items and is of the job in hand, which no command changes before its run.
 - `ServiceProofs`. `AcrossUpgrade` says which build may meet which schema (only a boot of the new
   one past the guard takes the step), that a job with a row of the old one is over by then,
   and that a job past its gate has a row.

Every invariant and every action property that the runs check is proved, and so are the three
refinements. Liveness under fairness stays with TLC: `EveryJobSettles`, `EveryNotificationSettles`,
`EveryObjectSettles`, `EveryUpdateSettles`, `EveryRunReturns`, `ServedUnlessLoopIsDead` and
`UpgradeEnds`, and with them the runs that expect a violation.

## 5. Not modelled

Formatting of replies, redaction, logging, argv, MIME probing, the estimator's count of
characters, the wording by which corrections are recognised, the status and doctor reports,
`/provider` and `/whoami`, the scripts and the deployment, since no property is about them.
`storage/s3.ts`, `telegram/bot_api.ts` and the CLI are external: the modules have what the code may
see of them. `providers/fake.ts` is a test double. `judgment/validators.ts` checks text and has no
state. What the control gate decides is recorded and read by nothing; `Service` has the row alone.

## 6. Plan

Done: `JobLedger`, `Worker`, `Outbound`, `StorageSync`, `Inbound`, `Judgment`, `Provider`, `Prompt`,
`Memory`, `Service`, `Splitter`, `Answer`, in this order, the most important behaviour first, then
`ProviderRun` and `ArtifactLedger`, and the proofs of section 4.

Left to model: captures of attachments of messages that are cancelled or run again, in more detail
than `StorageSync` has; `Worker` with `ProviderRun` in place of its own steps about the CLI, so that a
cancel may come between the settling of a run and its report.

Left to prove: nothing but liveness.
