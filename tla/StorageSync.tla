---------------------------- MODULE StorageSync -----------------------------
(***************************************************************************)
(* The life of an artifact: its capture (telegram/attachment_capture.ts),  *)
(* its promotion (commands/save.ts), its upload to S3 and its deletion     *)
(* there (storage/sync.ts), and the commands that ask for its deletion     *)
(* (commands/forget.ts).                                                   *)
(*                                                                         *)
(* storage_objects rows are numbered in the order they were created.  The  *)
(* worker runs one job at a time, the oldest first; everything here but    *)
(* the attachment of a file and /cancel happens inside a job, so a row     *)
(* changes under a job's feet only if the process dies.  S3 may take a     *)
(* request and lose the answer.  The disk's level is read anew by whoever  *)
(* asks (storage/capacity.ts), and is whatever it is then.                 *)
(***************************************************************************)
EXTENDS Naturals, Sequences, FiniteSets, SequencesExt

CONSTANTS
  MaxObjects,    \* bound: artifacts
  MaxAsks,       \* bound: commands and summaries asked for
  MaxTries,      \* config.sync.max_attempts, of uploads and of deletions
  Levels,        \* the disk levels that occur
  Batch,         \* reduced_sync_batch_size
  MaxCrashes     \* bound: restarts of the process

ASSUME StorageAssumption ==
  /\ MaxObjects \in Nat \ {0} /\ MaxAsks \in Nat /\ MaxTries \in Nat \ {0}
  /\ Levels \subseteq {"ok", "degraded", "critical"}
  /\ Batch \in Nat \ {0} /\ MaxCrashes \in Nat

VARIABLES
  objs,      \* storage_objects
  disk,      \* the objects whose bytes are under objects/
  remote,    \* the objects whose bytes are in the bucket
  caught,    \* the attachments captured in the session, by captured_at
  links,     \* memory_artifact_links, by created_at: the object of each
  queue,     \* the jobs queued or running, the oldest first
  keys,      \* idempotency keys of storage_sync jobs: they are never freed
  pc,        \* where the worker is
  todo,      \* the rows its pass selected and has not finished with
  cur,       \* the row S3 has answered for
  asks,      \* commands and summaries asked for so far
  short,     \* history: a pass left rows out because the disk was short of space
  crashes

rows == <<objs, caught, links>>
bytes == <<disk, remote>>
pass == <<todo, cur>>
vars == <<rows, bytes, queue, keys, pc, pass, asks, short, crashes>>

Capture == {"pending", "captured", "failed"}
Status == {"pending", "uploaded", "failed", "deletion_requested", "deleted", "delete_failed"}
Object == [capture : Capture, retention : {"session", "long_term"}, status : Status,
           tries : Nat, dtries : Nat]
Id == 1 .. Len(objs)

\* An upload job for o, a deletion job for o, a boot's job.
Key == {<<"sync", o>> : o \in 1 .. MaxObjects} \union {<<"delete", o>> : o \in 1 .. MaxObjects}

Commands == {"save", "forget", "undo"}
Kinds == {"message", "summary", "sync"} \union Commands
Job == [kind : Kinds, obj : 0 .. MaxObjects, left : 0 .. 3]

Awaiting == {"idle", "capture", "ran", "command", "summary", "snapshot", "sched",
             "upload", "delete"}
Pc == Awaiting \union {"wrote", "done", "stored", "removed", "unlinked"}

Init ==
  /\ objs = << >> /\ caught = << >> /\ links = << >>
  /\ disk = {} /\ remote = {}
  /\ queue = << >> /\ keys = {} /\ pc = "idle" /\ todo = {} /\ cur = 0
  /\ asks = 0 /\ short = FALSE /\ crashes = 0

-----------------------------------------------------------------------------
(* Rows and jobs *)

\* left: how often the job may still be claimed.  What a user asks for has
\* max_attempts 2, the default is 1 and no retry.
Asked(k, o) == [kind |-> k, obj |-> o, left |-> 2]
Sync(n) == [kind |-> "sync", obj |-> 0, left |-> n]

\* ON CONFLICT(job_type, idempotency_key) DO NOTHING.
Enqueue(key, n) ==
  /\ queue' = IF key \in keys THEN queue ELSE Append(queue, Sync(n))
  /\ keys' = keys \union {key}

\* A bug: the row goes out with the first sync that comes along.
NotEnqueued(key, n) == UNCHANGED <<queue, keys>>

EnqueueSaved(key, n) == Enqueue(key, n)

Attachment(saved, oversize) ==
  [capture |-> IF oversize THEN "failed" ELSE "pending",
   retention |-> IF saved THEN "long_term" ELSE "session",
   status |-> "pending", tries |-> 0, dtries |-> 0]

SnapshotRow == [Attachment(TRUE, FALSE) EXCEPT !.capture = "captured"]

\* long_term_writes_allowed.
Allows(level) == level # "critical"

\* Snapshots to come.
Reserved ==
  Cardinality({i \in 1 .. Len(queue) : queue[i].kind = "summary"})
    + IF pc = "snapshot" THEN 1 ELSE 0
Room == Len(objs) + Reserved < MaxObjects

-----------------------------------------------------------------------------
(* The poller: it runs whenever the worker waits for something *)

\* A message with a file: the row and the job in one transaction.
Attach(saved, oversize, level) ==
  /\ pc \in Awaiting /\ Room
  /\ objs' = Append(objs, Attachment(saved /\ Allows(level), oversize))
  /\ queue' = Append(queue, Asked("message", Len(objs) + 1))
  /\ UNCHANGED <<caught, links, bytes, keys, pc, pass, asks, short, crashes>>

Ask(k, o) ==
  /\ pc \in Awaiting /\ asks < MaxAsks
  /\ k = "summary" => Room
  /\ asks' = asks + 1
  /\ queue' = Append(queue, Asked(k, o))
  /\ UNCHANGED <<rows, bytes, keys, pc, pass, short, crashes>>

Idle == pc \in {"idle", "snapshot"}
Waiting == {i \in 1 .. Len(queue) : i > 1 \/ Idle}
Cancellable == {i \in 1 .. Len(queue) : queue[i].kind \notin {"summary", "sync"}}

\* /cancel takes the newest job of the user; a running one is only told.
Cancel(i) ==
  /\ pc \in Awaiting /\ asks < MaxAsks
  /\ i \in Cancellable \intersect Waiting /\ \A j \in Cancellable : j <= i
  /\ asks' = asks + 1
  /\ queue' = RemoveAt(queue, i)
  /\ UNCHANGED <<rows, bytes, keys, pc, pass, short, crashes>>

-----------------------------------------------------------------------------
(* The worker *)

Start(k) ==
  CASE k = "message" -> "capture"
    [] k = "summary" -> "summary"
    [] k = "sync" -> "sched"
    [] OTHER -> "command"

Claim ==
  /\ pc = "idle" /\ queue # << >>
  /\ queue' = [queue EXCEPT ![1].left = @ - 1]
  /\ pc' = Start(queue[1].kind)
  /\ UNCHANGED <<rows, bytes, keys, pass, asks, short, crashes>>

\* The job's terminal status is committed.
Over == queue' = Tail(queue) /\ pc' = "idle"

Own == queue[1].obj

-----------------------------------------------------------------------------
(* Capture (runCapturePass) *)

Download ==
  /\ pc = "capture" /\ objs[Own].capture = "pending"
  /\ disk' = disk \union {Own}
  /\ pc' = "wrote"
  /\ UNCHANGED <<rows, remote, queue, keys, pass, asks, short, crashes>>

CaptureFails ==
  /\ pc = "capture" /\ objs[Own].capture = "pending"
  /\ objs' = [objs EXCEPT ![Own].capture = "failed"]
  /\ pc' = "ran"
  /\ UNCHANGED <<caught, links, bytes, queue, keys, pass, asks, short, crashes>>

\* commitCaptureSuccess
Captured ==
  /\ pc = "wrote"
  /\ objs' = [objs EXCEPT ![Own].capture = "captured"]
  /\ caught' = Append(caught, Own)
  /\ IF objs[Own].retention = "long_term"
       THEN Enqueue(<<"sync", Own>>, 3)
       ELSE UNCHANGED <<queue, keys>>
  /\ pc' = "ran"
  /\ UNCHANGED <<links, bytes, pass, asks, short, crashes>>

\* Too large, or an earlier run of the job dealt with it.
NothingToCapture ==
  /\ pc = "capture" /\ objs[Own].capture # "pending"
  /\ pc' = "ran"
  /\ UNCHANGED <<rows, bytes, queue, keys, pass, asks, short, crashes>>

\* The provider answers, or does not, and the message job is over.
MessageOver ==
  /\ pc = "ran"
  /\ Over
  /\ UNCHANGED <<rows, bytes, keys, pass, asks, short, crashes>>

-----------------------------------------------------------------------------
(* Commands: each is one transaction; the job's end is another *)

\* Blocked, or nothing was ever captured.
SaveNothing(level) ==
  /\ pc = "command" /\ queue[1].kind = "save"
  /\ ~Allows(level) \/ caught = << >>
  /\ pc' = "done"
  /\ UNCHANGED <<rows, bytes, queue, keys, pass, asks, short, crashes>>

\* saveLastAttachment; there is a link only if the session has a turn.
Save(level, anchored) ==
  /\ pc = "command" /\ queue[1].kind = "save"
  /\ Allows(level) /\ caught # << >>
  /\ LET o == Last(caught)
     IN  /\ objs' = [objs EXCEPT ![o].retention = "long_term"]
         /\ IF objs[o].status = "pending"
              THEN EnqueueSaved(<<"sync", o>>, 1)
              ELSE UNCHANGED <<queue, keys>>
         /\ links' = IF anchored THEN Append(links, o) ELSE links
  /\ pc' = "done"
  /\ UNCHANGED <<caught, bytes, pass, asks, short, crashes>>

\* A bug: what is already deleted is asked for again.
GoneButDeleted == {"delete_failed", "deletion_requested"}

Gone == {"deleted", "delete_failed", "deletion_requested"}

ForgetNothing ==
  /\ pc = "command" /\ queue[1].kind = "forget" /\ objs[Own].status \in Gone
  /\ pc' = "done"
  /\ UNCHANGED <<rows, bytes, queue, keys, pass, asks, short, crashes>>

\* The links that are not to o keep their order.
Unlinked(o) == FoldLeft(LAMBDA kept, l : IF l = o THEN kept ELSE Append(kept, l), << >>, links)

\* forgetArtifact: the row, its links and the job that deletes it.
Forget ==
  /\ pc = "command" /\ queue[1].kind = "forget" /\ objs[Own].status \notin Gone
  /\ objs' = [objs EXCEPT ![Own].status = "deletion_requested"]
  /\ links' = Unlinked(Own)
  /\ Enqueue(<<"delete", Own>>, 1)
  /\ pc' = "done"
  /\ UNCHANGED <<caught, bytes, pass, asks, short, crashes>>

\* forgetLast: the newest link goes; with none, a memory item (not here).
ForgetLast ==
  /\ pc = "command" /\ queue[1].kind = "undo"
  /\ links' = IF links = << >> THEN links ELSE Front(links)
  /\ pc' = "done"
  /\ UNCHANGED <<objs, caught, bytes, queue, keys, pass, asks, short, crashes>>

CommandOver ==
  /\ pc = "done"
  /\ Over
  /\ UNCHANGED <<rows, bytes, keys, pass, asks, short, crashes>>

-----------------------------------------------------------------------------
(* A summary's snapshot: after the job is over, and then not retried *)

SummaryOver(written) ==
  /\ pc = "summary"
  /\ queue' = Tail(queue) /\ pc' = IF written THEN "snapshot" ELSE "idle"
  /\ UNCHANGED <<rows, bytes, keys, pass, asks, short, crashes>>

SnapshotBlocked(level) ==
  /\ pc = "snapshot" /\ ~Allows(level)
  /\ pc' = "idle"
  /\ UNCHANGED <<rows, bytes, queue, keys, pass, asks, short, crashes>>

\* The file, then the row and its job.
Snapshot(level) ==
  /\ pc = "snapshot" /\ Allows(level)
  /\ objs' = Append(objs, SnapshotRow)
  /\ disk' = disk \union {Len(objs) + 1}
  /\ Enqueue(<<"sync", Len(objs) + 1>>, 1)
  /\ pc' = "idle"
  /\ UNCHANGED <<caught, links, remote, pass, asks, short, crashes>>

-----------------------------------------------------------------------------
(* The sync job: retry scheduler, upload pass, deletion pass *)

\* A bug: off by one.
OneMore(n) == n <= MaxTries

HasBudget(n) == n < MaxTries

FailedUploads ==
  {o \in Id : objs[o].status = "failed" /\ objs[o].capture = "captured"}
UploadsAgain == {o \in FailedUploads : HasBudget(objs[o].tries)}
DeletesAgain == {o \in Id : objs[o].status = "delete_failed" /\ HasBudget(objs[o].dtries)}

RependUpload(o) ==
  /\ pc = "sched" /\ o \in UploadsAgain
  /\ objs' = [objs EXCEPT ![o].status = "pending"]
  /\ UNCHANGED <<caught, links, bytes, queue, keys, pc, pass, asks, short, crashes>>

RependDelete(o) ==
  /\ pc = "sched" /\ UploadsAgain = {} /\ o \in DeletesAgain
  /\ objs' = [objs EXCEPT ![o].status = "deletion_requested"]
  /\ UNCHANGED <<caught, links, bytes, queue, keys, pc, pass, asks, short, crashes>>

\* selectEligibleUploads
Eligible(o) ==
  /\ objs[o].status = "pending" /\ objs[o].capture = "captured"
  /\ objs[o].retention = "long_term"

Eligibles == {o \in Id : Eligible(o)}

\* reducedSyncBatchLimit: the oldest few when space is short, else all.
Selected(level) ==
  IF level = "ok" THEN Eligibles
  ELSE {o \in Eligibles : Cardinality({p \in Eligibles : p < o}) < Batch}

StartUploads(level) ==
  /\ pc = "sched" /\ UploadsAgain = {} /\ DeletesAgain = {}
  /\ todo' = Selected(level)
  /\ short' = (short \/ todo' # Eligibles)
  /\ pc' = "upload"
  /\ UNCHANGED <<rows, bytes, queue, keys, cur, asks, crashes>>

Oldest(o) == o \in todo /\ \A p \in todo : o <= p

\* markUploadFailed
Failed(o) ==
  objs' = [objs EXCEPT ![o].status = IF @ = "pending" THEN "failed" ELSE @,
                       ![o].tries = @ + 1]

\* S3 has the bytes and has said so.
Put(o) ==
  /\ pc = "upload" /\ Oldest(o) /\ o \in disk
  /\ remote' = remote \union {o}
  /\ cur' = o /\ pc' = "stored"
  /\ UNCHANGED <<rows, disk, queue, keys, todo, asks, short, crashes>>

\* The file is missing or not what it was, S3 refused, or S3 has the bytes and
\* its answer was lost.
PutFails(o, taken) ==
  /\ pc = "upload" /\ Oldest(o) /\ (taken => o \in disk)
  /\ remote' = IF taken THEN remote \union {o} ELSE remote
  /\ Failed(o)
  /\ todo' = todo \ {o}
  /\ UNCHANGED <<caught, links, disk, queue, keys, pc, cur, asks, short, crashes>>

\* markUploaded
Uploaded ==
  /\ pc = "stored"
  /\ objs' = [objs EXCEPT ![cur].status = IF @ = "pending" THEN "uploaded" ELSE @,
                          ![cur].tries = 0]
  /\ todo' = todo \ {cur} /\ pc' = "upload"
  /\ UNCHANGED <<caught, links, bytes, queue, keys, cur, asks, short, crashes>>

\* selectEligibleDeletions
Requested == {o \in Id : objs[o].status = "deletion_requested"}

StartDeletes ==
  /\ pc = "upload" /\ todo = {}
  /\ todo' = Requested /\ pc' = "delete"
  /\ UNCHANGED <<rows, bytes, queue, keys, cur, asks, short, crashes>>

\* The rows come in no particular order.
Delete(o) ==
  /\ pc = "delete" /\ o \in todo
  /\ remote' = remote \ {o}
  /\ cur' = o /\ pc' = "removed"
  /\ UNCHANGED <<rows, disk, queue, keys, todo, asks, short, crashes>>

\* S3 refused, or deleted and its answer was lost: the file stays.
DeleteFails(o, taken) ==
  /\ pc = "delete" /\ o \in todo
  /\ remote' = IF taken THEN remote \ {o} ELSE remote
  /\ objs' = [objs EXCEPT ![o].status = IF @ = "deletion_requested"
                                         THEN "delete_failed" ELSE @,
                          ![o].dtries = @ + 1]
  /\ todo' = todo \ {o}
  /\ UNCHANGED <<caught, links, disk, queue, keys, pc, cur, asks, short, crashes>>

\* A bug: only what S3 keeps is removed.
LeaveLocal ==
  /\ pc = "removed"
  /\ pc' = "unlinked"
  /\ UNCHANGED <<rows, bytes, queue, keys, pass, asks, short, crashes>>

RemoveLocal ==
  /\ pc = "removed"
  /\ disk' = disk \ {cur}
  /\ pc' = "unlinked"
  /\ UNCHANGED <<rows, remote, queue, keys, pass, asks, short, crashes>>

Deleted ==
  /\ pc = "unlinked"
  /\ objs' = [objs EXCEPT ![cur].status = IF @ = "deletion_requested" THEN "deleted" ELSE @,
                          ![cur].tries = 0, ![cur].dtries = 0]
  /\ todo' = todo \ {cur} /\ pc' = "delete"
  /\ UNCHANGED <<caught, links, bytes, queue, keys, cur, asks, short, crashes>>

\* Succeeded, or failed with safe_retry = 1: nothing claims it again either way.
SyncOver ==
  /\ pc = "delete" /\ todo = {}
  /\ Over
  /\ UNCHANGED <<rows, bytes, keys, pass, asks, short, crashes>>

-----------------------------------------------------------------------------
(* The process dies and runStartupRecovery prepares the next *)

Running == ~Idle

\* A bug: attempts are not counted.
AlwaysAgain == queue

\* The running job keeps its place, or is interrupted for good.
Reconciled == IF Running /\ queue[1].left = 0 THEN Tail(queue) ELSE queue

Unfinished == {o \in Id : objs[o].status \in {"failed", "delete_failed"}}

\* The boot's own sync job has a key of its own.
Restart ==
  /\ crashes < MaxCrashes
  /\ crashes' = crashes + 1
  /\ queue' = IF Unfinished = {} THEN Reconciled ELSE Append(Reconciled, Sync(1))
  /\ pc' = "idle" /\ todo' = {} /\ cur' = 0
  /\ UNCHANGED <<rows, bytes, keys, asks, short>>

-----------------------------------------------------------------------------
Poller ==
  \/ \E saved, oversize \in BOOLEAN, level \in Levels : Attach(saved, oversize, level)
  \/ \E k \in {"save", "undo", "summary"} : Ask(k, 0)
  \/ \E o \in Id : Ask("forget", o)
  \/ \E i \in 1 .. Len(queue) : Cancel(i)

CaptureStep == Download \/ CaptureFails \/ Captured \/ NothingToCapture \/ MessageOver

CommandStep ==
  \/ \E level \in Levels : SaveNothing(level)
  \/ \E level \in Levels, anchored \in BOOLEAN : Save(level, anchored)
  \/ ForgetNothing \/ Forget \/ ForgetLast \/ CommandOver

SummaryStep ==
  \/ \E written \in BOOLEAN : SummaryOver(written)
  \/ \E level \in Levels : SnapshotBlocked(level)
  \/ \E level \in Levels : Snapshot(level)

UploadStep ==
  \/ \E o \in Id : RependUpload(o)
  \/ \E o \in Id : RependDelete(o)
  \/ \E level \in Levels : StartUploads(level)
  \/ \E o \in Id : Put(o)
  \/ \E o \in Id, taken \in BOOLEAN : PutFails(o, taken)
  \/ Uploaded

DeleteStep ==
  \/ StartDeletes
  \/ \E o \in Id : Delete(o)
  \/ \E o \in Id, taken \in BOOLEAN : DeleteFails(o, taken)
  \/ RemoveLocal \/ Deleted \/ SyncOver

Worker == Claim \/ CaptureStep \/ CommandStep \/ SummaryStep \/ UploadStep \/ DeleteStep

Next == Poller \/ Worker \/ Restart

Spec == Init /\ [][Next]_vars

\* The worker's loop goes on and S3 and Telegram answer or time out.
FairSpec == Spec /\ WF_vars(Worker)

-----------------------------------------------------------------------------
(* Properties *)

TypeOK ==
  /\ Len(objs) \in 0 .. MaxObjects /\ \A o \in Id : objs[o] \in Object
  /\ caught \in Seq(Id) /\ links \in Seq(Id)
  /\ disk \subseteq Id /\ remote \subseteq Id /\ todo \subseteq Id
  /\ \A i \in 1 .. Len(queue) : queue[i] \in Job
  /\ keys \subseteq Key /\ pc \in Pc /\ cur \in 0 .. Len(objs)
  /\ asks \in 0 .. MaxAsks /\ short \in BOOLEAN
  /\ crashes \in 0 .. MaxCrashes
  /\ Running => queue # << >>

\* "uploaded" is never a guess: S3 holds the bytes of every row that says so,
\* whatever answers were lost and wherever the process died (sync.ts:123-186).
UploadedIsRemote == \A o \in Id : objs[o].status = "uploaded" => o \in remote

\* "deleted" is final: the bytes are neither in the bucket nor on the disk, and
\* no capture or upload that was started over brings them back
\* (sync.ts:340-350).
DeletedIsGone == \A o \in Id : objs[o].status = "deleted" => o \notin disk \union remote

\* The bytes of a captured artifact nobody forgot are on the disk: the row is
\* committed after the file, and only a deletion removes it.
BytesKept ==
  \A o \in Id : objs[o].capture = "captured" /\ objs[o].status \notin Gone => o \in disk

\* What a row says of the bytes is where they are, whatever answers were lost,
\* captures ended late and wherever the process died.
BytesAsRecorded == UploadedIsRemote /\ DeletedIsGone /\ BytesKept

\* Uploads and deletions have budgets of their own, and neither is exceeded
\* (sync.ts:188-269, :352-383).
BudgetsHold == \A o \in Id : objs[o].tries <= MaxTries /\ objs[o].dtries <= MaxTries

\* The rows as the ledger of artifacts has them.
StatusOf == [o \in 1 .. MaxObjects |-> IF o \in Id THEN objs[o].status ELSE "absent"]
CapturedRows == {o \in Id : objs[o].capture = "captured"}
PromotedRows == {o \in Id : objs[o].retention = "long_term"}

Ledger == INSTANCE ArtifactLedger
            WITH Artifact <- 1 .. MaxObjects, status <- StatusOf, captured <- CapturedRows,
                 promoted <- PromotedRows, local <- disk, stored <- remote

\* Every artifact lives as ArtifactLedger promises: only what was captured and
\* promoted leaves the machine, "deleted" is for good and comes after the bucket
\* and the disk, in this order, and no capture, command, pass or retry undoes
\* what another decided, wherever answers were lost and the process died
\* (02_HLD.md section 6.4, sync.ts:123-392, forget.ts:30-68).
RefinesLedger == Ledger!Spec

Due(o) ==
  \/ Eligible(o)
  \/ objs[o].status = "deletion_requested"

\* Every upload or deletion that was asked for is carried out or fails for good,
\* although the key of a sync job can be used only once: save, forget, capture
\* and snapshot each leave a job that will do it, unless the process crashed or
\* a pass left rows out for want of space.
EveryObjectSettles ==
  \A o \in 1 .. MaxObjects :
    (o \in Id /\ Due(o)) ~> (crashes > 0 \/ short \/ (o \in Id /\ ~Due(o)))

-----------------------------------------------------------------------------
(* What the documents say, and the code does not do *)

\* worker.ts:1158-1161: a sync job that leaves retryable failures is re-run by
\* the queue, so that failed rows are retried without an external trigger.
FailedIsRetried ==
  \A o \in 1 .. MaxObjects :
    (o \in Id /\ objs[o].status = "failed" /\ objs[o].tries < MaxTries)
      ~> (o \in Id /\ objs[o].status # "failed")
=============================================================================
