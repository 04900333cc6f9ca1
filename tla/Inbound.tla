------------------------------ MODULE Inbound -------------------------------
(***************************************************************************)
(* The way in: Telegram's queue of updates, the poller's loop              *)
(* (telegram/poller.ts) and the inbound transaction (telegram/inbound.ts). *)
(*                                                                         *)
(* getUpdates(offset) confirms every update below offset: Telegram drops   *)
(* it.  A batch is handled in one SQLite transaction that ends by moving   *)
(* the offset; nothing else runs meanwhile, but an update's handling may   *)
(* throw and the process may die, and then the database is as it was at    *)
(* BEGIN.  The signal that /cancel sends to a running job is no part of    *)
(* the database.  Telegram may send again what it had confirmed.           *)
(* The worker appears only as far as /cancel depends on it; Worker.tla is  *)
(* about the rest.                                                         *)
(***************************************************************************)
EXTENDS Naturals, Sequences, FiniteSets

CONSTANTS
  MaxUpdates,    \* bound: updates
  MaxBatch,      \* limit of getUpdates
  Kinds,         \* what the updates may be
  MaxErrors,     \* bound: times the handling of an update throws
  MaxRepeats,    \* bound: updates Telegram sends again
  MaxCrashes     \* bound: restarts of the process

AllKinds == {"text", "photo", "end", "cancel", "unknown", "whoami", "stranger"}

ASSUME InboundAssumption ==
  /\ MaxUpdates \in Nat \ {0} /\ MaxBatch \in Nat \ {0}
  /\ Kinds \subseteq AllKinds
  /\ MaxErrors \in Nat /\ MaxRepeats \in Nat /\ MaxCrashes \in Nat

VARIABLES
  sent,        \* the updates users caused: the kind of each
  confirmed,   \* Telegram: what is below it is dropped
  db,          \* the database, as the open transaction sees it
  saved,       \* the database at BEGIN
  pc,          \* where the poller is
  asking,      \* the offset in its request
  batch,       \* the updates of the answer it has not handled yet
  answers,     \* what it will tell users once the transaction is committed
  outbox,      \* instant responses being sent: [upd, left]
  told,        \* history: the updates users were told about
  heard,       \* the /cancel that aborted the running job, or 0
  repeats, errors, crashes

poller == <<pc, asking, batch, answers>>
network == <<sent, confirmed, repeats>>
bounds == <<errors, crashes>>
vars == <<network, db, saved, poller, outbox, told, heard, bounds>>

Update == 1 .. MaxUpdates

\* by: the /cancel whose transaction cancelled the job, or 0.
Job == [upd : Update, kind : {"run", "summary"}, session : 1 .. MaxUpdates,
        status : {"queued", "running", "over", "cancelled"}, by : 0 .. MaxUpdates]
Database == [offset : 0 .. MaxUpdates + 1, jobs : Seq(Job),
             ups : [Update -> {"none", "enqueued", "skipped"}],
             attached : [Update -> Nat], session : 0 .. MaxUpdates, sessions : 0 .. MaxUpdates]

NoUpdates ==
  [offset |-> 0, jobs |-> << >>, ups |-> [u \in Update |-> "none"],
   attached |-> [u \in Update |-> 0], session |-> 0, sessions |-> 0]

Init ==
  /\ sent = << >> /\ confirmed = 0
  /\ db = NoUpdates /\ saved = NoUpdates
  /\ pc = "idle" /\ asking = 0 /\ batch = << >> /\ answers = {}
  /\ outbox = {} /\ told = {} /\ heard = 0
  /\ repeats = 0 /\ errors = 0 /\ crashes = 0

\* What a reader of the file, or the next process, finds.
Durable == IF pc = "tx" THEN saved ELSE db

-----------------------------------------------------------------------------
(* One update, in the transaction: classifyAndCommit *)

EnsureActiveSession(d) ==
  IF d.session # 0 THEN d
  ELSE [d EXCEPT !.session = d.sessions + 1, !.sessions = d.sessions + 1]

\* idempotency_key 'telegram:<update_id>'
HasJob(u, d) == \E j \in 1 .. Len(d.jobs) : d.jobs[j].upd = u

NewJob(u, s) ==
  [upd |-> u, kind |-> IF sent[u] = "end" THEN "summary" ELSE "run",
   session |-> s, status |-> "queued", by |-> 0]

\* The job, the attachment's row and the update's status.
Enqueued(u, d) ==
  LET e == EnsureActiveSession(d)
  IN  [e EXCEPT !.jobs = IF HasJob(u, e) THEN @ ELSE Append(@, NewJob(u, e.session)),
                !.attached[u] = @ + IF sent[u] = "photo" THEN 1 ELSE 0,
                !.ups[u] = "enqueued"]

Skipped(u, d) == [d EXCEPT !.ups[u] = "skipped"]

\* cancelJob: the newest provider_run of the session that is not over, if any.
Active(d) == {j \in 1 .. Len(d.jobs) : /\ d.jobs[j].kind = "run"
                                       /\ d.jobs[j].session = d.session
                                       /\ d.jobs[j].status \in {"queued", "running"}}
Newest(j, d) == j \in Active(d) /\ \A i \in Active(d) : i <= j

CancelQueued(u, d) ==
  [d EXCEPT !.jobs = [j \in 1 .. Len(d.jobs) |->
      IF Newest(j, d) /\ d.jobs[j].status = "queued"
        THEN [d.jobs[j] EXCEPT !.status = "cancelled", !.by = u] ELSE d.jobs[j]]]

Signalled(d) == \E j \in Active(d) : Newest(j, d) /\ d.jobs[j].status = "running"

AfterCancel(u, d) == [CancelQueued(u, EnsureActiveSession(d)) EXCEPT !.ups[u] = "enqueued"]

\* The rest: enqueued, or skipped with or without a session of its own.
After(u, d) ==
  CASE sent[u] \in {"text", "photo", "end"} -> Enqueued(u, d)
    [] sent[u] = "unknown" -> Skipped(u, EnsureActiveSession(d))
    [] sent[u] \in {"whoami", "stranger"} -> Skipped(u, d)
    [] OTHER -> AfterCancel(u, d)

Answered == {"cancel", "unknown", "whoami"}

-----------------------------------------------------------------------------
(* The poller *)

\* getUpdates with the offset of the database: Telegram takes note of it.
Poll ==
  /\ pc = "idle"
  /\ pc' = "asked" /\ asking' = db.offset
  /\ confirmed' = IF db.offset > confirmed THEN db.offset ELSE confirmed
  /\ UNCHANGED <<sent, repeats, db, saved, batch, answers, outbox, told, heard, bounds>>

\* The oldest updates from the offset on, perhaps after one that is repeated.
Offered(n) == [i \in 1 .. n |-> (IF asking = 0 THEN 1 ELSE asking) + i - 1]
CanOffer(n) == n \in 1 .. MaxBatch /\ \A i \in 1 .. n : Offered(n)[i] <= Len(sent)

Begin(b) ==
  /\ pc = "asked"
  /\ batch' = b /\ pc' = "tx" /\ saved' = db
  /\ UNCHANGED <<sent, confirmed, db, asking, answers, outbox, told, heard, bounds>>

Answer(n) == CanOffer(n) /\ Begin(Offered(n)) /\ UNCHANGED repeats

Repeat(u, n) ==
  /\ repeats < MaxRepeats /\ repeats' = repeats + 1
  /\ u < asking /\ u >= 1 /\ (n = 0 \/ CanOffer(n))
  /\ Begin(<<u>> \o Offered(n))

\* Nothing came, or the request failed and the loop backs off.
NoAnswer ==
  /\ pc = "asked"
  /\ pc' = "idle"
  /\ UNCHANGED <<network, db, saved, asking, batch, answers, outbox, told, heard, bounds>>

\* A bug: every update is handled, whatever came of it before.
NeverTerminal(u, d) == FALSE

\* insertReceived found a row that is durably terminal.
IsTerminal(u, d) == d.ups[u] \in {"enqueued", "skipped"}

\* maxUpdateId + 1
OffsetAfter(u, d) == IF u + 1 > d.offset THEN u + 1 ELSE d.offset

Step(u) == [db EXCEPT !.offset = OffsetAfter(u, db)]

\* An update already seen is only reported; of its answer, the whoami reply is
\* given again.
SkipKnown ==
  /\ pc = "tx" /\ batch # << >> /\ IsTerminal(Head(batch), db)
  /\ db' = Step(Head(batch))
  /\ answers' = IF sent[Head(batch)] = "whoami" THEN answers \union {Head(batch)} ELSE answers
  /\ batch' = Tail(batch)
  /\ UNCHANGED <<network, saved, pc, asking, outbox, told, heard, bounds>>

\* /cancel aborts the controller of a running job at once.
Hear(u) == heard' = IF sent[u] = "cancel" /\ heard = 0 /\ Signalled(EnsureActiveSession(db))
                      THEN u ELSE heard

Handle ==
  /\ pc = "tx" /\ batch # << >> /\ ~IsTerminal(Head(batch), db)
  /\ db' = After(Head(batch), Step(Head(batch)))
  /\ Hear(Head(batch))
  /\ answers' = IF sent[Head(batch)] \in Answered THEN answers \union {Head(batch)} ELSE answers
  /\ batch' = Tail(batch)
  /\ UNCHANGED <<network, saved, pc, asking, outbox, told, bounds>>

Throws(u) ==
  /\ pc = "tx" /\ batch # << >> /\ u = Head(batch) /\ ~IsTerminal(u, db)
  /\ errors < MaxErrors /\ errors' = errors + 1
  /\ Hear(u) \/ UNCHANGED heard

\* A bug: the update that throws is passed over.
PassOver ==
  /\ Throws(Head(batch))
  /\ db' = Step(Head(batch)) /\ batch' = Tail(batch)
  /\ UNCHANGED <<network, saved, pc, asking, answers, outbox, told, crashes>>

\* A bug: the loop ends with the first error.
LoopEnds ==
  /\ Throws(Head(batch))
  /\ db' = saved /\ pc' = "ended" /\ batch' = << >> /\ answers' = {}
  /\ UNCHANGED <<network, saved, asking, outbox, told, crashes>>

\* ROLLBACK; the loop backs off and polls again.
Throw ==
  /\ Throws(Head(batch))
  /\ db' = saved /\ pc' = "idle" /\ batch' = << >> /\ answers' = {}
  /\ UNCHANGED <<network, saved, asking, outbox, told, crashes>>

\* COMMIT; the instant responses go out, and nobody waits for them.
Commit ==
  /\ pc = "tx" /\ batch = << >>
  /\ pc' = "idle" /\ answers' = {}
  /\ outbox' = outbox \union {[upd |-> u, left |-> 1] : u \in answers}
  /\ UNCHANGED <<network, db, saved, asking, batch, told, heard, bounds>>

-----------------------------------------------------------------------------
(* Instant responses, the worker, the users: while the poller waits *)

Reply(r) ==
  /\ pc # "tx" /\ r \in outbox
  /\ told' = told \union {r.upd} /\ outbox' = outbox \ {r}
  /\ UNCHANGED <<network, db, saved, poller, heard, bounds>>

\* One retry for answers to commands, none for whoami.
ReplyFails(r) ==
  /\ pc # "tx" /\ r \in outbox
  /\ outbox' = (outbox \ {r}) \union
       (IF r.left = 1 /\ sent[r.upd] # "whoami" THEN {[r EXCEPT !.left = 0]} ELSE {})
  /\ UNCHANGED <<network, db, saved, poller, told, heard, bounds>>

Running == {j \in 1 .. Len(db.jobs) : db.jobs[j].status = "running"}

Claim(j) ==
  /\ pc # "tx" /\ Running = {}
  /\ j \in 1 .. Len(db.jobs) /\ db.jobs[j].status = "queued"
  /\ \A i \in 1 .. j - 1 : db.jobs[i].status # "queued"
  /\ db' = [db EXCEPT !.jobs[j].status = "running"]
  /\ UNCHANGED <<network, saved, poller, outbox, told, heard, bounds>>

\* The job ends by itself or heeds the signal; an ended /end closes its session.
End(j, heeded, closes) ==
  /\ pc # "tx" /\ j \in Running
  /\ heeded => heard # 0
  /\ closes => db.jobs[j].kind = "summary"
  /\ db' = [db EXCEPT !.jobs[j].status = IF heeded THEN "cancelled" ELSE "over",
                      !.session = IF closes /\ @ = db.jobs[j].session THEN 0 ELSE @]
  /\ heard' = 0
  /\ UNCHANGED <<network, saved, poller, outbox, told, bounds>>

Arrive(k) ==
  /\ pc # "tx" /\ Len(sent) < MaxUpdates
  /\ sent' = Append(sent, k)
  /\ UNCHANGED <<confirmed, repeats, db, saved, poller, outbox, told, heard, bounds>>

\* The process dies, and the next one requeues or gives up the running job.
Restart(again) ==
  /\ crashes < MaxCrashes /\ crashes' = crashes + 1
  /\ db' = [Durable EXCEPT !.jobs = [j \in 1 .. Len(@) |->
       IF @[j].status = "running"
         THEN [@[j] EXCEPT !.status = IF again THEN "queued" ELSE "over"] ELSE @[j]]]
  /\ pc' = "idle" /\ batch' = << >> /\ answers' = {} /\ outbox' = {} /\ heard' = 0
  /\ UNCHANGED <<network, saved, asking, told, errors>>

-----------------------------------------------------------------------------
Answers == \E n \in 1 .. MaxBatch : Answer(n)
Transaction == SkipKnown \/ Handle \/ Throw \/ Commit

Next ==
  \/ Poll \/ Answers \/ NoAnswer \/ Transaction
  \/ \E u \in Update, n \in 0 .. MaxBatch : Repeat(u, n)
  \/ \E r \in outbox : Reply(r)
  \/ \E r \in outbox : ReplyFails(r)
  \/ \E j \in 1 .. Len(db.jobs) : Claim(j)
  \/ \E j \in 1 .. Len(db.jobs), heeded, closes \in BOOLEAN : End(j, heeded, closes)
  \/ \E k \in Kinds : Arrive(k)
  \/ \E again \in BOOLEAN : Restart(again)

Spec == Init /\ [][Next]_vars

\* The loop goes on, and Telegram answers again and again if it has something.
FairSpec == Spec /\ WF_vars(Poll) /\ WF_vars(Transaction) /\ SF_vars(Answers)

-----------------------------------------------------------------------------
(* Properties *)

TypeOK ==
  /\ Len(sent) <= MaxUpdates /\ \A u \in 1 .. Len(sent) : sent[u] \in Kinds
  /\ db \in Database /\ saved \in Database
  /\ confirmed \in 0 .. MaxUpdates + 1 /\ asking \in 0 .. MaxUpdates + 1
  /\ pc \in {"idle", "asked", "tx"} /\ batch \in Seq(Update)
  /\ batch # << >> \/ answers # {} => pc = "tx"
  /\ answers \subseteq Update /\ outbox \subseteq [upd : Update, left : {0, 1}]
  /\ told \subseteq Update /\ heard \in 0 .. MaxUpdates
  /\ repeats \in 0 .. MaxRepeats /\ errors \in 0 .. MaxErrors /\ crashes \in 0 .. MaxCrashes

\* No update is lost: what Telegram has dropped is durably enqueued or skipped,
\* through rollbacks and crashes (inbound.ts:667-720, poller.ts:41-45).
NothingLost ==
  \A u \in 1 .. Len(sent) : u < confirmed => Durable.ups[u] # "none"

\* An update acts once however often it is delivered and wherever a crash
\* interrupts it: one job, one row for its attachment, one queued job cancelled
\* (inbound.ts:674-698).
ActsOnce ==
  /\ \A i, j \in 1 .. Len(db.jobs) : db.jobs[i].upd = db.jobs[j].upd => i = j
  /\ \A u \in Update : db.attached[u] <= 1
  /\ \A u \in Update : Cardinality({j \in 1 .. Len(Durable.jobs) : Durable.jobs[j].by = u}) <= 1

\* The signal to a running job is not undone with the transaction that sent it,
\* so a /cancel handled again may end a second job, and a restart may forget a
\* signal.  Still no more jobs are cancelled than users asked for
\* (inbound.ts:374-402, cancel.ts:36-91).
Cancelled(d) == {d.jobs[j].upd : j \in {i \in 1 .. Len(d.jobs) : d.jobs[i].status = "cancelled"}}
CancelsAskedFor ==
  Cardinality(Cancelled(Durable)) <= Cardinality({u \in 1 .. Len(sent) : sent[u] = "cancel"})

\* A user is told only of what the database holds (poller.ts:58-84).
RepliesAreTrue == \A u \in told : Durable.ups[u] # "none"

\* Delivered again, rolled back or interrupted, an update acts once, no job is
\* cancelled in excess, and a user hears of an update only when it has acted.
OnceAndTold == ActsOnce /\ CancelsAskedFor /\ RepliesAreTrue

\* Every update is enqueued or skipped in the end.
EveryUpdateSettles ==
  \A u \in Update : u <= Len(sent) ~> u <= Len(sent) /\ Durable.ups[u] # "none"
=============================================================================
