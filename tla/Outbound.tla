------------------------------ MODULE Outbound ------------------------------
(***************************************************************************)
(* Delivery of notifications (telegram/outbound.ts) and its retries        *)
(* (queue/notification_retry.ts), with the part of the worker that creates *)
(* them and the part of startup recovery that does.                        *)
(*                                                                         *)
(* A notification is a row with a ledger of chunks, one physical message   *)
(* each.  A pass sends the chunks that are not sent; whatever remains is   *)
(* left to a notification_retry job, which may leave its own successor.    *)
(* The worker runs one job at a time, the oldest first.  A work job        *)
(* (a provider_run) notifies once when it is accepted and once when it     *)
(* ends.  A crash may fall between any two committed writes, and between   *)
(* Telegram's delivery of a message and the write that records it.         *)
(***************************************************************************)
EXTENDS Naturals, Sequences, FiniteSets

CONSTANTS
  MaxWork,       \* bound: work jobs
  Chunks,        \* messages an "ended" notification is split into
  MaxAttempts,   \* max_attempts_per_chunk
  MaxClaims,     \* max_attempts of a work job
  MaxCrashes     \* bound: process crashes

ASSUME OutboundAssumption ==
  /\ MaxWork \in Nat \ {0} /\ Chunks \in Nat \ {0}
  /\ MaxAttempts \in Nat \ {0} /\ MaxClaims \in Nat \ {0}
  /\ MaxCrashes \in Nat

VARIABLES
  rows,      \* the jobs table, oldest first
  parent,    \* outbound_notifications.status, of the notifications created
  chunk,     \* outbound_notification_chunks: [status, attempts] of each chunk
  got,       \* history: how often Telegram took each chunk
  pc,        \* where the worker is
  cur,       \* the row it holds, or NoRow
  note,      \* the notification of the pass
  todo,      \* the chunks the pass still has to look at
  flipped,   \* work jobs queued again by the resume fallback
  crashes

ledger == <<parent, chunk>>
vars == <<rows, ledger, got, pc, cur, note, todo, flipped, crashes>>

NoRow == 0
NoteTypes == {"accepted", "ended", "restarted", "interrupted"}
Note == [row : Nat \ {0}, type : NoteTypes]
NoNote == [row |-> 0, type |-> "ended"]
Of(j, t) == [row |-> j, type |-> t]

RowStatus == {"queued", "running", "over", "interrupted"}
Row == [kind : {"work", "retry"}, note : Note \union {NoNote}, from : Nat,
        status : RowStatus, attempts : Nat]
Chunk == [status : {"pending", "sent", "failed"}, attempts : Nat]

Awaiting == {"idle", "busy", "asked", "answer"}
Pc == Awaiting \union {"claimed", "ended", "pass", "rolled", "settled", "down"}

Init ==
  /\ rows = << >> /\ parent = << >> /\ chunk = << >> /\ got = << >>
  /\ pc = "idle" /\ cur = NoRow /\ note = NoNote /\ todo = {}
  /\ flipped = {} /\ crashes = 0

-----------------------------------------------------------------------------
(* The ledger *)

Created == DOMAIN parent

\* Only what an end says can be long; the rest fits one message.
Size(n) == IF n.type = "ended" THEN Chunks ELSE 1

Fresh(n) == [c \in 1 .. Size(n) |-> [status |-> "pending", attempts |-> 0]]

\* ON CONFLICT DO NOTHING: a notification that exists keeps its chunks.
Create(new) ==
  /\ parent' = [n \in Created \union new |-> IF n \in Created THEN parent[n] ELSE "pending"]
  /\ chunk' = [n \in Created \union new |-> IF n \in Created THEN chunk[n] ELSE Fresh(n)]
  /\ got' = [n \in Created \union new |->
               IF n \in Created THEN got[n] ELSE [c \in 1 .. Size(n) |-> 0]]

\* A bug: a pass starts over with every chunk.
EveryChunk(n, c) == TRUE

\* Only chunks that are not sent are picked.
Unsent(n, c) == chunk[n][c].status # "sent"

Picked(n) == {c \in 1 .. Size(n) : n \in Created => Unsent(n, c)}

Mark(c, st) ==
  chunk' = [chunk EXCEPT ![note][c] = [status |-> st, attempts |-> @.attempts + 1]]

\* A bug: a failed chunk is forgotten when no other is pending.
RolledOptimistic(n) ==
  IF \A c \in 1 .. Size(n) : chunk[n][c].status # "pending" THEN "sent" ELSE "pending"

Has(n, st) == \E c \in 1 .. Size(n) : chunk[n][c].status = st

RollUp(n) ==
  IF ~Has(n, "pending") /\ ~Has(n, "failed") THEN "sent"
  ELSE IF ~Has(n, "pending") THEN "failed" ELSE "pending"

\* A bug: failed chunks are not counted.
PendingOnly(n) ==
  {c \in 1 .. Size(n) : /\ chunk[n][c].status = "pending"
                        /\ chunk[n][c].attempts < MaxAttempts}

Retryable(n) ==
  {c \in 1 .. Size(n) : /\ chunk[n][c].status # "sent"
                        /\ chunk[n][c].attempts < MaxAttempts}

\* A bug: off by one.
ExhaustedLater(n) ==
  {c \in 1 .. Size(n) : /\ chunk[n][c].status = "pending"
                        /\ chunk[n][c].attempts > MaxAttempts}

Exhausted(n) ==
  {c \in 1 .. Size(n) : /\ chunk[n][c].status = "pending"
                        /\ chunk[n][c].attempts >= MaxAttempts}

-----------------------------------------------------------------------------
(* The worker: jobs *)

Queued == {j \in 1 .. Len(rows) : rows[j].status = "queued"}
WorkRows == {j \in 1 .. Len(rows) : rows[j].kind = "work"}

Work == [kind |-> "work", note |-> NoNote, from |-> NoRow, status |-> "queued", attempts |-> 0]
RetryOf(n, from) ==
  [kind |-> "retry", note |-> n, from |-> from, status |-> "queued", attempts |-> 0]

\* idempotency_key 'notif-retry:<n>', or '...:from:<job>' for a successor.
Known(n, from) ==
  \E j \in 1 .. Len(rows) : rows[j].kind = "retry" /\ rows[j].note = n /\ rows[j].from = from

\* enqueueNotificationRetryJob, on a table that already has the rows t.
Enqueued(t, n, from) == IF Known(n, from) THEN t ELSE Append(t, RetryOf(n, from))

\* The poller enqueues a message.
Arrive ==
  /\ pc \in Awaiting
  /\ Cardinality(WorkRows) < MaxWork
  /\ rows' = Append(rows, Work)
  /\ UNCHANGED <<ledger, got, pc, cur, note, todo, flipped, crashes>>

\* Nothing to do: the loop sleeps and polls again.
Sleep ==
  /\ pc = "idle" /\ Queued = {}
  /\ UNCHANGED vars

Claim(j) ==
  /\ pc = "idle"
  /\ j \in Queued /\ \A i \in Queued : j <= i
  /\ rows' = [rows EXCEPT ![j].status = "running", ![j].attempts = @ + 1]
  /\ cur' = j
  /\ pc' = "claimed"
  /\ UNCHANGED <<ledger, got, note, todo, flipped, crashes>>

\* A pass begins on a notification, created here unless it exists.
Begin(n) ==
  /\ Create({n})
  /\ note' = n
  /\ todo' = Picked(n)
  /\ pc' = "pass"

\* job_accepted, of a job that calls the provider.
NotifyAccepted ==
  /\ pc = "claimed" /\ rows[cur].kind = "work"
  /\ Begin(Of(cur, "accepted"))
  /\ UNCHANGED <<rows, cur, flipped, crashes>>

\* A command or a summary is not announced.
NotAnnounced ==
  /\ pc = "claimed" /\ rows[cur].kind = "work"
  /\ pc' = "busy"
  /\ UNCHANGED <<rows, ledger, got, cur, note, todo, flipped, crashes>>

\* The resume fallback: the job is queued again, and will be announced again.
Fallback ==
  /\ pc = "busy" /\ cur \notin flipped
  /\ rows' = [rows EXCEPT ![cur].status = "queued", ![cur].attempts = @ - 1]
  /\ flipped' = flipped \union {cur}
  /\ cur' = NoRow /\ pc' = "idle"
  /\ UNCHANGED <<ledger, got, note, todo, crashes>>

\* The job's end is committed (a command that throws tells nobody) ...
End ==
  /\ pc = "busy"
  /\ rows' = [rows EXCEPT ![cur].status = "over"]
  /\ \/ pc' = "ended" /\ UNCHANGED cur
     \/ pc' = "idle" /\ cur' = NoRow
  /\ UNCHANGED <<ledger, got, note, todo, flipped, crashes>>

\* ... and in another transaction its notification.
NotifyEnd ==
  /\ pc = "ended"
  /\ Begin(Of(cur, "ended"))
  /\ UNCHANGED <<rows, cur, flipped, crashes>>

\* A notification_retry job.
Retry ==
  /\ pc = "claimed" /\ rows[cur].kind = "retry"
  /\ Begin(rows[cur].note)
  /\ UNCHANGED <<rows, cur, flipped, crashes>>

-----------------------------------------------------------------------------
(* The worker: a pass over the chunks *)

First(c) == c \in todo /\ \A d \in todo : c <= d

Spent(c) == chunk[note][c].attempts >= MaxAttempts

\* A chunk whose attempts are used up is failed without a send.
GiveUp(c) ==
  /\ pc = "pass" /\ First(c) /\ Spent(c)
  /\ Mark(c, "failed")
  /\ todo' = todo \ {c}
  /\ UNCHANGED <<rows, parent, got, pc, cur, note, flipped, crashes>>

Ask(c) ==
  /\ pc = "pass" /\ First(c) /\ ~Spent(c)
  /\ pc' = "asked"
  /\ UNCHANGED <<rows, ledger, got, cur, note, todo, flipped, crashes>>

Took(c) == got' = [got EXCEPT ![note][c] = @ + 1]

\* Telegram takes the message; its answer is on the way.
Take(c) ==
  /\ pc = "asked" /\ First(c)
  /\ Took(c)
  /\ pc' = "answer"
  /\ UNCHANGED <<rows, ledger, cur, note, todo, flipped, crashes>>

Answered(c) ==
  /\ pc = "answer" /\ First(c)
  /\ Mark(c, "sent")
  /\ todo' = todo \ {c} /\ pc' = "pass"
  /\ UNCHANGED <<rows, parent, got, cur, note, flipped, crashes>>

\* The answer is lost, or has no message_id: an error, though the user has it.
AnswerLost(c) ==
  /\ pc = "answer" /\ First(c)
  /\ \E st \in {"pending", "failed"} : Mark(c, st)
  /\ todo' = todo \ {c} /\ pc' = "pass"
  /\ UNCHANGED <<rows, parent, got, cur, note, flipped, crashes>>

\* Telegram refuses: for now, for good, or with a retry_after, which ends the pass.
Refused(c) ==
  /\ pc = "asked" /\ First(c)
  /\ \/ \E st \in {"pending", "failed"} : Mark(c, st) /\ todo' = todo \ {c}
     \/ Mark(c, "pending") /\ todo' = {}
  /\ pc' = "pass"
  /\ UNCHANGED <<rows, parent, got, cur, note, flipped, crashes>>

\* rollUpParent, once the pass is through.
RollUpParent ==
  /\ pc = "pass" /\ todo = {}
  /\ parent' = [parent EXCEPT ![note] = RollUp(note)]
  /\ pc' = "rolled"
  /\ UNCHANGED <<rows, chunk, got, cur, note, todo, flipped, crashes>>

-----------------------------------------------------------------------------
(* The worker: after a pass *)

\* The first pass leaves the rest to a retry job.
AfterFirstPass ==
  /\ pc = "rolled" /\ rows[cur].kind = "work"
  /\ rows' = IF parent[note] = "sent" THEN rows ELSE Enqueued(rows, note, NoRow)
  /\ IF note.type = "accepted" THEN pc' = "busy" /\ UNCHANGED cur
     ELSE pc' = "idle" /\ cur' = NoRow
  /\ UNCHANGED <<ledger, got, note, todo, flipped, crashes>>

RetryRolled == pc = "rolled" /\ rows[cur].kind = "retry"

\* Something is left to try: a successor is queued.
Reschedule ==
  /\ RetryRolled /\ Retryable(note) # {}
  /\ rows' = Enqueued(rows, note, cur)
  /\ pc' = "settled"
  /\ UNCHANGED <<ledger, got, cur, note, todo, flipped, crashes>>

\* Nothing is left to try: pending chunks without attempts are failed, and the
\* parent rolls up once more.
Terminalize ==
  /\ RetryRolled /\ Retryable(note) = {} /\ Exhausted(note) # {}
  /\ chunk' = [chunk EXCEPT ![note] =
       [c \in 1 .. Size(note) |->
          IF c \in Exhausted(note) THEN [chunk[note][c] EXCEPT !.status = "failed"]
          ELSE chunk[note][c]]]
  /\ pc' = "pass"
  /\ UNCHANGED <<rows, parent, got, cur, note, todo, flipped, crashes>>

RetryOver ==
  /\ \/ pc = "settled"
     \/ RetryRolled /\ Retryable(note) = {} /\ Exhausted(note) = {}
  /\ rows' = [rows EXCEPT ![cur].status = "over"]
  /\ cur' = NoRow /\ pc' = "idle"
  /\ UNCHANGED <<ledger, got, note, todo, flipped, crashes>>

-----------------------------------------------------------------------------
(* Crashes and boot *)

\* The process dies; what was asked of Telegram may still be taken.
Crash ==
  /\ pc # "down" /\ crashes < MaxCrashes
  /\ crashes' = crashes + 1
  /\ \/ UNCHANGED got
     \/ pc = "asked" /\ \E c \in todo : First(c) /\ Took(c)
  /\ pc' = "down" /\ cur' = NoRow /\ note' = NoNote /\ todo' = {}
  /\ UNCHANGED <<rows, ledger, flipped>>

Running == {j \in 1 .. Len(rows) : rows[j].status = "running"}
Again(j) == rows[j].kind = "work" /\ rows[j].attempts < MaxClaims

\* The running row, work or retry, is interrupted; work with attempts left is
\* queued again.  Either way the user is told, by a retry job.
Interrupt(j) ==
  LET n == Of(j, IF Again(j) THEN "restarted" ELSE "interrupted")
      st == IF Again(j) THEN "queued" ELSE "interrupted"
  IN /\ Create({n})
     /\ rows' = Enqueued([rows EXCEPT ![j].status = st], n, NoRow)

Recover ==
  /\ pc = "down"
  /\ IF Running = {} THEN UNCHANGED <<rows, ledger, got>>
     ELSE \E j \in Running : Interrupt(j)
  /\ pc' = "idle"
  /\ UNCHANGED <<cur, note, todo, flipped, crashes>>

-----------------------------------------------------------------------------
JobStep ==
  \/ \E j \in 1 .. Len(rows) : Claim(j)
  \/ NotifyAccepted \/ NotAnnounced \/ Fallback \/ End \/ NotifyEnd \/ Retry
PassStep ==
  \/ \E c \in todo : GiveUp(c) \/ Ask(c)
  \/ RollUpParent \/ AfterFirstPass \/ Reschedule \/ Terminalize \/ RetryOver
Telegram == \E c \in todo : Take(c) \/ Answered(c) \/ AnswerLost(c) \/ Refused(c)

Next == Arrive \/ Sleep \/ JobStep \/ PassStep \/ Telegram \/ Crash \/ Recover

Spec == Init /\ [][Next]_vars

\* The event loop runs the worker on, every request to Telegram is answered or
\* fails (fetch), and systemd restarts a crashed process: whatever step is due,
\* and the worker's place says which, is taken.
Due == JobStep \/ PassStep \/ Telegram \/ Recover
FairSpec == Spec /\ WF_vars(Due)

-----------------------------------------------------------------------------
(* Correctness *)

TypeJobs ==
  /\ rows \in Seq(Row)
  /\ pc \in Pc
  /\ cur \in 0 .. Len(rows)
  /\ flipped \subseteq (1 .. Len(rows))

TypeLedger ==
  /\ Created \subseteq Note
  /\ \A n \in Created : parent[n] \in {"pending", "sent", "failed"}
  /\ DOMAIN chunk = Created /\ DOMAIN got = Created
  /\ \A n \in Created : chunk[n] \in [1 .. Size(n) -> Chunk]
  /\ \A n \in Created : got[n] \in [1 .. Size(n) -> Nat]
  /\ note \in Created \union {NoNote}
  /\ todo \subseteq (1 .. Size(note))
  /\ crashes \in 0 .. MaxCrashes

\* The type of every variable; a created notification has all its chunks.
TypeOK == TypeJobs /\ TypeLedger

\* "sent" is the truth: every message of the notification reached the user.
SentIsTrue ==
  \A n \in Created : parent[n] = "sent" => \A c \in 1 .. Size(n) : got[n][c] > 0

\* A chunk recorded as sent is never given to Telegram again, whatever pass,
\* retry job, second announcement or restart looks at its notification.
NeverResent ==
  [][\A n \in Created : \A c \in 1 .. Size(n) :
       chunk[n][c].status = "sent" => got'[n][c] = got[n][c]]_vars

\* "sent" is final: no pass and no recovery takes a notification up again.
SentIsFinal == [][\A n \in Created : parent[n] = "sent" => parent'[n] = "sent"]_vars

\* The user sees a message at most once for every attempt and every crash.
DuplicatesBounded ==
  \A n \in Created : \A c \in 1 .. Size(n) : got[n][c] <= MaxAttempts + crashes

\* What the rows say and bound is what the user sees, through lost answers,
\* retries and crashes.
DeliveryIsRecorded == SentIsTrue /\ DuplicatesBounded

\* Two retry jobs never wait for the same notification.
OneRetryWaits ==
  \A i, j \in Queued :
    (rows[i].kind = "retry" /\ rows[j].kind = "retry" /\ rows[i].note = rows[j].note) => i = j

\* A notification with a chunk left to try for which no retry job waits.
Stranded ==
  {n \in Created :
     /\ \E c \in 1 .. Size(n) : chunk[n][c].status # "sent" /\ chunk[n][c].attempts < MaxAttempts
     /\ ~\E j \in Queued : rows[j].kind = "retry" /\ rows[j].note = n}

\* The worker never drops a notification with attempts to spare: only a crash
\* can strand one, and one crash strands one at most.
StrandedByCrash == pc = "idle" => Cardinality(Stranded) <= crashes

\* Unless the process crashes, delivery comes to rest: once no more work arrives
\* (MaxWork jobs did), every notification is sent or failed for good.
EveryNotificationSettles ==
  <>[](crashes > 0 \/ \A n \in Created : parent[n] \in {"sent", "failed"})

-----------------------------------------------------------------------------
(* What the invariants rest on *)

Passing == {"pass", "asked", "answer", "rolled", "settled"}
OnTheWire == {"asked", "answer"}

\* A running pass has a notification; only chunks that are not sent are due.
PassOK ==
  /\ pc \in Passing => note \in Created
  /\ pc \notin {"pass"} \union OnTheWire => todo = {}
  /\ \A c \in todo : Unsent(note, c)
  /\ \A c \in todo : (pc \in OnTheWire /\ First(c)) => ~Spent(c)

\* What is recorded as sent was taken, and "sent" covers every chunk.
TruthOK ==
  /\ \A n \in Created : \A c \in 1 .. Size(n) : ~Unsent(n, c) => got[n][c] > 0
  /\ \A n \in Created : parent[n] = "sent" => \A c \in 1 .. Size(n) : ~Unsent(n, c)
  /\ pc = "answer" => \A c \in todo : First(c) => got[note][c] > 0

\* A message the user got was charged as an attempt, unless its answer is still
\* on the way or was lost in a crash.
Charged(n, c) ==
  IF chunk[n][c].attempts < MaxAttempts THEN chunk[n][c].attempts ELSE MaxAttempts
InFlight(n, c) == IF pc = "answer" /\ n = note /\ c \in todo /\ First(c) THEN 1 ELSE 0
CountOK ==
  \A n \in Created : \A c \in 1 .. Size(n) :
    got[n][c] <= Charged(n, c) + crashes + InFlight(n, c)

LedgerInv == TypeLedger /\ PassOK /\ TruthOK /\ CountOK

\* The row the worker holds, and the one that is running.
HoldsRetry == cur # NoRow /\ rows[cur].kind = "retry"
RowsOK ==
  /\ pc \in {"idle", "down"} <=> cur = NoRow
  /\ cur # NoRow => rows[cur].attempts > 0
  /\ pc \in {"busy", "ended"} => rows[cur].kind = "work"
  /\ pc = "ended" => rows[cur].status = "over"
  /\ pc # "down" => Running \subseteq {cur}
  /\ \A i, j \in Running : i = j
  /\ HoldsRetry => rows[cur].status = "running"
  /\ (pc \in Passing /\ HoldsRetry) => note = rows[cur].note
  /\ (pc \in Passing /\ ~HoldsRetry) =>
       note.type = "accepted" \/ (note.type = "ended" /\ rows[cur].status = "over")
  /\ pc = "settled" => HoldsRetry

\* Every retry job of a notification descends from its first one, and none but
\* the one being run, about to be over, has a successor that waits.
ChainOK ==
  /\ \A i \in DOMAIN rows : rows[i].kind = "retry" => /\ rows[i].note \in Note
                                                     /\ Known(rows[i].note, NoRow)
  /\ (HoldsRetry /\ pc # "settled") =>
       \A i \in Queued : rows[i].kind = "retry" => rows[i].note # rows[cur].note

JobsInv == TypeJobs /\ RowsOK /\ ChainOK /\ OneRetryWaits

=============================================================================
