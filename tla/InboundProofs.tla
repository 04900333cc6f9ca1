--------------------------- MODULE InboundProofs ---------------------------
(***************************************************************************)
(* Proofs about Inbound.tla.  The inductive invariant says of the          *)
(* database, and of the copy the open transaction would be rolled back to, *)
(* that they are sane by themselves; how the two differ; that the batch    *)
(* passes over nothing; and what the signals that no rollback takes back   *)
(* may still cost.                                                         *)
(***************************************************************************)
EXTENDS Inbound, FiniteSetTheorems, TLAPS

Handled(d) == {u \in Update : d.ups[u] # "none"}

TypeInv ==
  /\ TypeOK
  /\ sent \in Seq(Kinds)

\* The offset and every handled update have only handled ones below them, and a
\* session was opened by an update of its own.
SaneUpdates(d) ==
  /\ \A v \in Update : v < d.offset => v \in Handled(d)
  /\ \A v, w \in Update : v < w /\ w \in Handled(d) => v \in Handled(d)
  /\ d.session <= d.sessions /\ d.sessions <= Cardinality(Handled(d))
  /\ \A u \in Update : d.attached[u] <= 1 /\ (d.attached[u] > 0 => u \in Handled(d))

\* Jobs belong to handled updates, were cancelled by handled updates, and at
\* most one runs, before which none waits.
SaneJobs(d) ==
  /\ \A j \in 1 .. Len(d.jobs) :
       /\ d.jobs[j].upd \in Handled(d) /\ d.jobs[j].session <= d.sessions
       /\ d.jobs[j].by # 0 => d.jobs[j].by \in Handled(d)
  /\ \A i, j \in 1 .. Len(d.jobs) :
       /\ d.jobs[i].upd = d.jobs[j].upd => i = j
       /\ d.jobs[i].by = d.jobs[j].by /\ d.jobs[i].by # 0 => i = j
       /\ d.jobs[i].status = "running" /\ d.jobs[j].status = "running" => i = j
       /\ d.jobs[i].status = "running" /\ j < i => d.jobs[j].status # "queued"

Sane(d) == SaneUpdates(d) /\ SaneJobs(d)

\* A signal is pending only for a job that runs.
HeardRuns == heard # 0 => Running # {}

\* What is below an update of the batch b is handled or is handled first.
Orderly(b, d, s) ==
  \A i \in 1 .. Len(b) :
    /\ b[i] <= Len(s)
    /\ \A v \in Update : v < b[i] => v \in Handled(d) \/ \E j \in 1 .. i - 1 : b[j] = v

BatchInv ==
  /\ pc = "asked" => asking <= db.offset
  /\ confirmed <= Durable.offset
  /\ Orderly(batch, db, sent)

\* How the open transaction's database e differs from d, the one at BEGIN: queued
\* jobs are cancelled, and new ones are of the session's.
Within(d, e, s) ==
  /\ d.offset <= e.offset /\ Handled(d) \subseteq Handled(e)
  /\ d.session # 0 => e.session = d.session
  /\ Len(d.jobs) <= Len(e.jobs)
  /\ \A i \in 1 .. Len(d.jobs) :
       /\ e.jobs[i].upd = d.jobs[i].upd /\ e.jobs[i].kind = d.jobs[i].kind
       /\ e.jobs[i].session = d.jobs[i].session
       /\ \/ e.jobs[i].status = d.jobs[i].status
          \/ d.jobs[i].status = "queued" /\ e.jobs[i].status = "cancelled"
  /\ \A i \in Len(d.jobs) + 1 .. Len(e.jobs) :
       /\ e.jobs[i].session = e.session
       /\ e.jobs[i].status \in {"queued", "cancelled"}
  /\ \A w \in Handled(e) \ Handled(d) :
       w <= Len(s) /\ s[w] \in {"text", "photo"} =>
         \E i \in Len(d.jobs) + 1 .. Len(e.jobs) :
           e.jobs[i].upd = w /\ e.jobs[i].kind = "run"

TxInv == pc = "tx" => Within(saved, db, sent)

ToldInv ==
  /\ answers \subseteq Handled(db)
  /\ \A r \in outbox : r.upd \in Handled(Durable)
  /\ told \subseteq Handled(Durable)

(* The signals.  A /cancel that signalled a job and was rolled back is a       *)
(* phantom: it will be handled again.  What it could still cancel are the jobs *)
(* of the session and those of the updates before it, and there are no more    *)
(* of them, with what was cancelled, than /cancels handled or yet to come up   *)
(* to the phantom: it signalled only because all others were used up.          *)

\* The updates whose job is cancelled or will be when it heeds signal h.
Spent(d, h) ==
  Cancelled(d) \union
    {d.jobs[j].upd : j \in {i \in 1 .. Len(d.jobs) : h # 0 /\ d.jobs[i].status = "running"}}

Unborn(d, s, u) ==
  {w \in 1 .. Len(s) : w < u /\ w \notin Handled(d) /\ s[w] \in {"text", "photo"}}

Threatened(d, h, s, u) ==
  Spent(d, h) \union {d.jobs[j].upd : j \in Active(d)} \union Unborn(d, s, u)

Budget(d, s, u) ==
  {w \in 1 .. Len(s) : s[w] = "cancel" /\ (w <= u \/ w \in Handled(d))}

Phantom(d, h, s, u) ==
  /\ u <= Len(s) /\ s[u] = "cancel" /\ u \notin Handled(d)
  /\ Cardinality(Threatened(d, h, s, u)) <= Cardinality(Budget(d, s, u))

Calm(d, h, s) == Cardinality(Spent(d, h)) <= Cardinality(Budget(d, s, 0))

Account(d, h, s) == Calm(d, h, s) \/ \E u \in Update : Phantom(d, h, s, u)

SignalsInv == Account(db, heard, sent) /\ (pc = "tx" => Account(saved, heard, sent))

\* Only updates that were sent are handled.
SentFirst == \A v \in Update : v \in Handled(db) \union Handled(saved) => v <= Len(sent)

OrderInv ==
  Sane(db) /\ Sane(saved) /\ SentFirst /\ HeardRuns /\ BatchInv /\ TxInv /\ ToldInv

Inv == TypeInv /\ OrderInv /\ SignalsInv

-----------------------------------------------------------------------------
(* What handling an update does to the database *)

LEMMA OneMore ==
  ASSUME NEW S, NEW x, IsFiniteSet(S), x \notin S
  PROVE  /\ IsFiniteSet(S \union {x})
         /\ Cardinality(S \union {x}) = Cardinality(S) + 1
BY FS_AddElement

LEMMA HandledFinite ==
  ASSUME NEW d \in Database
  PROVE  /\ IsFiniteSet(Handled(d)) /\ Cardinality(Handled(d)) \in Nat
         /\ \A u \in Update : u \notin Handled(d) => Cardinality(Handled(d)) < MaxUpdates
<1>1. IsFiniteSet(Update) /\ Cardinality(Update) = MaxUpdates
  BY FS_Interval, InboundAssumption DEF Update
<1>2. IsFiniteSet(Handled(d)) /\ Cardinality(Handled(d)) <= MaxUpdates
  BY <1>1, FS_Subset DEF Handled
<1>3. Cardinality(Handled(d)) \in Nat
  BY <1>2, FS_CardinalityType
<1>4. ASSUME NEW u \in Update, u \notin Handled(d), Cardinality(Handled(d)) = MaxUpdates
      PROVE  FALSE
  <2>1. Handled(d) \in SUBSET Update
    BY DEF Handled
  <2>2. Handled(d) = Update
    BY <1>1, <1>4, <2>1, FS_Subset
  <2> QED
    BY <1>4, <2>2
<1> QED
  BY <1>2, <1>3, <1>4, InboundAssumption

LEMMA EnsureFacts ==
  ASSUME NEW d \in Database, d.sessions < MaxUpdates, d.session <= d.sessions,
         NEW e, e = EnsureActiveSession(d)
  PROVE  /\ e \in Database /\ e.session \in 1 .. MaxUpdates /\ e.session <= e.sessions
         /\ e.offset = d.offset /\ e.jobs = d.jobs /\ e.ups = d.ups
         /\ e.attached = d.attached
         /\ d.session # 0 => e.session = d.session /\ e.sessions = d.sessions
         /\ d.session = 0 => e.session = d.sessions + 1 /\ e.sessions = d.sessions + 1
<1>1. CASE d.session # 0
  BY <1>1, InboundAssumption DEF EnsureActiveSession, Database
<1>2. CASE d.session = 0
  <2>1. d.sessions + 1 \in 1 .. MaxUpdates
    BY InboundAssumption DEF Database
  <2>2. e = [d EXCEPT !.session = d.sessions + 1, !.sessions = d.sessions + 1]
    BY <1>2 DEF EnsureActiveSession
  <2>3. e = [offset |-> d.offset, jobs |-> d.jobs, ups |-> d.ups, attached |-> d.attached,
             session |-> d.sessions + 1, sessions |-> d.sessions + 1]
    BY <2>2 DEF Database
  <2>4. e \in Database
    BY <2>1, <2>3, InboundAssumption DEF Database
  <2> QED
    BY <1>2, <2>1, <2>3, <2>4
<1> QED
  BY <1>1, <1>2

LEMMA EnqueuedFacts ==
  ASSUME NEW d \in Database, d.sessions < MaxUpdates, d.session <= d.sessions,
         NEW u \in Update, ~HasJob(u, d),
         NEW e, e = Enqueued(u, d), NEW n, n = EnsureActiveSession(d)
  PROVE  /\ e \in Database /\ e.session = n.session /\ e.sessions = n.sessions
         /\ e.offset = d.offset /\ e.ups = [d.ups EXCEPT ![u] = "enqueued"]
         /\ e.attached = [d.attached EXCEPT ![u] = @ + IF sent[u] = "photo" THEN 1 ELSE 0]
         /\ e.jobs = Append(d.jobs, NewJob(u, n.session))
<1>1. /\ n \in Database /\ n.session \in 1 .. MaxUpdates /\ n.jobs = d.jobs
      /\ n.offset = d.offset /\ n.ups = d.ups /\ n.attached = d.attached
  BY EnsureFacts
<1>2. ~HasJob(u, n)
  BY <1>1 DEF HasJob
<1>3. e = [n EXCEPT !.jobs = Append(@, NewJob(u, n.session)),
                    !.attached[u] = @ + IF sent[u] = "photo" THEN 1 ELSE 0,
                    !.ups[u] = "enqueued"]
  BY <1>2, Zenon DEF Enqueued
<1>4. NewJob(u, n.session) \in Job
  BY <1>1, InboundAssumption DEF NewJob, Job
<1>5. Append(n.jobs, NewJob(u, n.session)) \in Seq(Job)
  BY <1>1, <1>4 DEF Database
<1>6. [n.attached EXCEPT ![u] = @ + IF sent[u] = "photo" THEN 1 ELSE 0] \in [Update -> Nat]
  BY <1>1 DEF Database
<1>7. [n.ups EXCEPT ![u] = "enqueued"] \in [Update -> {"none", "enqueued", "skipped"}]
  BY <1>1 DEF Database
<1>8. e = [offset |-> n.offset, jobs |-> Append(n.jobs, NewJob(u, n.session)),
           ups |-> [n.ups EXCEPT ![u] = "enqueued"],
           attached |-> [n.attached EXCEPT ![u] = @ + IF sent[u] = "photo" THEN 1 ELSE 0],
           session |-> n.session, sessions |-> n.sessions]
  BY <1>1, <1>3 DEF Database
<1>9. e \in Database
  BY <1>1, <1>5, <1>6, <1>7, <1>8 DEF Database
<1> QED
  BY <1>1, <1>8, <1>9

\* A queued job that the /cancel takes out of the queue.
Taken(job, u) == [job EXCEPT !.status = "cancelled", !.by = u]

LEMMA CancelFacts ==
  ASSUME NEW d \in Database, d.sessions < MaxUpdates, d.session <= d.sessions,
         NEW u \in Update, NEW e, e = AfterCancel(u, d), NEW n, n = EnsureActiveSession(d)
  PROVE  /\ e \in Database /\ e.session = n.session /\ e.sessions = n.sessions
         /\ e.offset = d.offset /\ e.ups = [d.ups EXCEPT ![u] = "enqueued"]
         /\ e.attached = d.attached
<1>1. /\ n \in Database /\ n.session \in 1 .. MaxUpdates /\ n.jobs = d.jobs
      /\ n.offset = d.offset /\ n.ups = d.ups /\ n.attached = d.attached
  BY EnsureFacts
<1> DEFINE js == [j \in 1 .. Len(d.jobs) |->
              IF Newest(j, n) /\ d.jobs[j].status = "queued"
                THEN Taken(d.jobs[j], u) ELSE d.jobs[j]]
<1>2. e = [[n EXCEPT !.jobs = js] EXCEPT !.ups[u] = "enqueued"]
  BY <1>1, Zenon DEF AfterCancel, CancelQueued, Taken
<1>3. \A j \in 1 .. Len(d.jobs) : d.jobs[j] \in Job
  BY DEF Database
<1>4. \A j \in 1 .. Len(d.jobs) : Taken(d.jobs[j], u) \in Job
  <2> SUFFICES ASSUME NEW j \in 1 .. Len(d.jobs)
               PROVE  Taken(d.jobs[j], u) \in Job
    OBVIOUS
  <2>1. u \in 0 .. MaxUpdates
    BY InboundAssumption DEF Update
  <2>2. d.jobs[j] \in Job
    BY <1>3
  <2> QED
    BY <2>1, <2>2 DEF Job, Taken
<1>5. Len(d.jobs) \in Nat
  BY DEF Database
<1>6. js \in Seq(Job)
  <2>1. \A j \in 1 .. Len(d.jobs) : js[j] \in Job
    BY <1>3, <1>4
  <2>2. js \in [1 .. Len(d.jobs) -> Job]
    BY <2>1, Zenon
  <2> HIDE DEF js
  <2> QED
    BY <1>5, <2>2
<1> HIDE DEF js
<1>7. [n.ups EXCEPT ![u] = "enqueued"] \in [Update -> {"none", "enqueued", "skipped"}]
  BY <1>1 DEF Database
<1>8. e = [offset |-> n.offset, jobs |-> js, ups |-> [n.ups EXCEPT ![u] = "enqueued"],
           attached |-> n.attached, session |-> n.session, sessions |-> n.sessions]
  BY <1>1, <1>2 DEF Database
<1>9. e \in Database
  BY <1>1, <1>6, <1>7, <1>8 DEF Database
<1>10. /\ e.session = n.session /\ e.sessions = n.sessions /\ e.offset = n.offset
       /\ e.ups = [n.ups EXCEPT ![u] = "enqueued"] /\ e.attached = n.attached
  BY <1>8
<1> QED
  BY <1>1, <1>9, <1>10, Zenon

LEMMA CancelJobs ==
  ASSUME NEW d \in Database, d.sessions < MaxUpdates, d.session <= d.sessions,
         NEW u \in Update, NEW e, e = AfterCancel(u, d), NEW n, n = EnsureActiveSession(d)
  PROVE  /\ Len(e.jobs) = Len(d.jobs)
         /\ \A j \in 1 .. Len(d.jobs) :
              /\ Newest(j, n) /\ d.jobs[j].status = "queued" => e.jobs[j] = Taken(d.jobs[j], u)
              /\ ~(Newest(j, n) /\ d.jobs[j].status = "queued") => e.jobs[j] = d.jobs[j]
<1>1. n \in Database /\ n.jobs = d.jobs
  BY EnsureFacts
<1> DEFINE js == [j \in 1 .. Len(d.jobs) |->
              IF Newest(j, n) /\ d.jobs[j].status = "queued"
                THEN Taken(d.jobs[j], u) ELSE d.jobs[j]]
<1>2. e = [[n EXCEPT !.jobs = js] EXCEPT !.ups[u] = "enqueued"]
  BY <1>1, Zenon DEF AfterCancel, CancelQueued, Taken
<1>3. DOMAIN js = 1 .. Len(d.jobs)
  OBVIOUS
<1>4. \A j \in 1 .. Len(d.jobs) :
        /\ Newest(j, n) /\ d.jobs[j].status = "queued" => js[j] = Taken(d.jobs[j], u)
        /\ ~(Newest(j, n) /\ d.jobs[j].status = "queued") => js[j] = d.jobs[j]
  OBVIOUS
<1> HIDE DEF js
<1>5. e.jobs = js
  BY <1>1, <1>2 DEF Database
<1>6. e \in Database /\ Len(d.jobs) \in Nat
  <2>1. e \in Database
    BY CancelFacts
  <2> QED
    BY <2>1 DEF Database
<1>7. Len(e.jobs) = Len(d.jobs)
  BY <1>3, <1>5, <1>6 DEF Database
<1> QED
  BY <1>4, <1>5, <1>7

LEMMA JobTypes ==
  ASSUME NEW d \in Database
  PROVE  /\ d.jobs \in Seq(Job) /\ Len(d.jobs) \in Nat /\ d.sessions \in Nat
         /\ \A j \in 1 .. Len(d.jobs) :
              /\ d.jobs[j] \in Job /\ d.jobs[j].upd \in Update
              /\ d.jobs[j].session \in 1 .. MaxUpdates /\ d.jobs[j].by \in 0 .. MaxUpdates
<1>1. d.jobs \in Seq(Job) /\ d.sessions \in 0 .. MaxUpdates
  BY DEF Database
<1>2. \A j \in 1 .. Len(d.jobs) : d.jobs[j] \in Job
  BY <1>1
<1> QED
  BY <1>1, <1>2, InboundAssumption DEF Job

LEMMA StepFacts ==
  ASSUME TypeInv, NEW u \in Update, NEW d, d = Step(u)
  PROVE  /\ d \in Database /\ d.jobs = db.jobs /\ d.ups = db.ups
         /\ d.attached = db.attached /\ d.session = db.session /\ d.sessions = db.sessions
         /\ d.offset = OffsetAfter(u, db)
<1>0. db \in Database
  BY DEF TypeInv, TypeOK
<1>1. OffsetAfter(u, db) \in 0 .. MaxUpdates + 1
  BY <1>0, InboundAssumption DEF OffsetAfter, Database, Update
<1>2. d = [offset |-> OffsetAfter(u, db), jobs |-> db.jobs, ups |-> db.ups,
           attached |-> db.attached, session |-> db.session, sessions |-> db.sessions]
  BY <1>0 DEF Step, Database
<1>3. d \in Database
  BY <1>0, <1>1, <1>2 DEF Database
<1> QED
  BY <1>2, <1>3

\* A session opened for the update has no jobs yet: the same jobs are active.
LEMMA ActiveSame ==
  ASSUME NEW d \in Database, Sane(d), d.sessions < MaxUpdates,
         NEW n, n = EnsureActiveSession(d)
  PROVE  /\ Active(n) = Active(d) /\ n.jobs = d.jobs
         /\ \A j : Newest(j, n) <=> Newest(j, d)
<1>1. /\ n \in Database /\ n.jobs = d.jobs
      /\ d.session # 0 => n.session = d.session
      /\ d.session = 0 => n.session = d.sessions + 1
  BY EnsureFacts DEF Sane, SaneUpdates
<1>2. \A j \in 1 .. Len(d.jobs) : /\ d.jobs[j].session \in 1 .. MaxUpdates
                                  /\ d.jobs[j].session <= d.sessions
  BY JobTypes DEF Sane, SaneJobs
<1>3. \A j \in 1 .. Len(d.jobs) : d.jobs[j].session = n.session <=> d.jobs[j].session = d.session
  BY <1>1, <1>2 DEF Database
<1>4. Active(n) = Active(d)
  BY <1>1, <1>3 DEF Active
<1> QED
  BY <1>1, <1>4 DEF Newest

\* What the head of the batch does to the database (Handle).
LEMMA AfterFacts ==
  ASSUME TypeInv, Sane(db), NEW u \in Update, u <= Len(sent), u \notin Handled(db),
         NEW e, e = After(u, Step(u))
  PROVE  /\ e \in Database
         /\ e.offset = OffsetAfter(u, db)
         /\ Handled(e) = Handled(db) \union {u}
         /\ \A v \in Update : v # u => e.attached[v] = db.attached[v]
         /\ e.attached[u] <= 1
         /\ \/ e.session = db.session /\ e.sessions = db.sessions
            \/ /\ db.session = 0
               /\ e.session = db.sessions + 1 /\ e.sessions = db.sessions + 1
         /\ sent[u] \in {"text", "photo", "end"} =>
              e.jobs = Append(db.jobs, NewJob(u, e.session)) /\ e.session \in 1 .. MaxUpdates
         /\ sent[u] \notin {"text", "photo", "end", "cancel"} => e.jobs = db.jobs
         /\ sent[u] = "cancel" =>
              /\ Len(e.jobs) = Len(db.jobs)
              /\ \A j \in 1 .. Len(db.jobs) :
                   /\ Newest(j, db) /\ db.jobs[j].status = "queued" => e.jobs[j] = Taken(db.jobs[j], u)
                   /\ ~(Newest(j, db) /\ db.jobs[j].status = "queued") => e.jobs[j] = db.jobs[j]
<1> DEFINE d == Step(u)
<1>1. /\ d \in Database /\ d.jobs = db.jobs /\ d.ups = db.ups
      /\ d.attached = db.attached /\ d.session = db.session /\ d.sessions = db.sessions
      /\ d.offset = OffsetAfter(u, db)
  BY StepFacts
<1> HIDE DEF d
<1>2. db \in Database
  BY DEF TypeInv, TypeOK
<1>3. d.sessions < MaxUpdates /\ d.session <= d.sessions
  <2>1. Cardinality(Handled(db)) < MaxUpdates /\ Cardinality(Handled(db)) \in Nat
    BY <1>2, HandledFinite
  <2>2. db.session <= db.sessions /\ db.sessions <= Cardinality(Handled(db))
    BY DEF Sane, SaneUpdates
  <2> QED
    BY <1>1, <1>2, <2>1, <2>2, InboundAssumption DEF Database
<1>4. db.attached[u] = 0 /\ db.ups[u] = "none"
  BY <1>2 DEF Sane, SaneUpdates, Handled, Database
<1>5. ~HasJob(u, d)
  BY <1>1 DEF HasJob, Sane, SaneJobs
<1> PICK n : n = EnsureActiveSession(d)
  OBVIOUS
<1>6. /\ n \in Database /\ n.session \in 1 .. MaxUpdates /\ n.session <= n.sessions
      /\ n.offset = d.offset /\ n.jobs = d.jobs /\ n.ups = d.ups
      /\ n.attached = d.attached
      /\ d.session # 0 => n.session = d.session /\ n.sessions = d.sessions
      /\ d.session = 0 => n.session = d.sessions + 1 /\ n.sessions = d.sessions + 1
  BY <1>1, <1>3, EnsureFacts
<1>7. sent[u] \in AllKinds
  BY InboundAssumption DEF TypeInv, TypeOK, Update
<1>8. e = After(u, d)
  BY DEF d
<1>9. CASE sent[u] \in {"text", "photo", "end"}
  <2>1. e = Enqueued(u, d)
    BY <1>8, <1>9 DEF After
  <2>2. /\ e \in Database /\ e.session = n.session /\ e.sessions = n.sessions
        /\ e.offset = d.offset /\ e.ups = [d.ups EXCEPT ![u] = "enqueued"]
        /\ e.attached = [d.attached EXCEPT ![u] = @ + IF sent[u] = "photo" THEN 1 ELSE 0]
        /\ e.jobs = Append(d.jobs, NewJob(u, n.session))
    BY <1>1, <1>3, <1>5, <2>1, EnqueuedFacts
  <2>3. Handled(e) = Handled(db) \union {u}
    BY <1>1, <1>2, <2>2 DEF Handled, Database
  <2>4. e.attached[u] <= 1 /\ \A v \in Update : v # u => e.attached[v] = db.attached[v]
    BY <1>1, <1>2, <1>4, <2>2 DEF Database
  <2> QED
    BY <1>1, <1>6, <1>9, <2>2, <2>3, <2>4
<1>10. CASE sent[u] = "unknown"
  <2>1. e = [n EXCEPT !.ups[u] = "skipped"]
    BY <1>8, <1>10 DEF After, Skipped
  <2>2. [n.ups EXCEPT ![u] = "skipped"] \in [Update -> {"none", "enqueued", "skipped"}]
    BY <1>6 DEF Database
  <2>3. e = [offset |-> n.offset, jobs |-> n.jobs, ups |-> [n.ups EXCEPT ![u] = "skipped"],
             attached |-> n.attached, session |-> n.session, sessions |-> n.sessions]
    BY <1>6, <2>1 DEF Database
  <2>4. e \in Database
    BY <1>6, <2>2, <2>3 DEF Database
  <2>5. Handled(e) = Handled(db) \union {u}
    BY <1>1, <1>2, <1>6, <2>3 DEF Handled, Database
  <2> QED
    BY <1>1, <1>4, <1>6, <1>10, <2>3, <2>4, <2>5
<1>11. CASE sent[u] \in {"whoami", "stranger"}
  <2>1. e = [d EXCEPT !.ups[u] = "skipped"]
    BY <1>8, <1>11 DEF After, Skipped
  <2>2. [d.ups EXCEPT ![u] = "skipped"] \in [Update -> {"none", "enqueued", "skipped"}]
    BY <1>1 DEF Database
  <2>3. e = [offset |-> d.offset, jobs |-> d.jobs, ups |-> [d.ups EXCEPT ![u] = "skipped"],
             attached |-> d.attached, session |-> d.session, sessions |-> d.sessions]
    BY <1>1, <2>1 DEF Database
  <2>4. e \in Database
    BY <1>1, <2>2, <2>3 DEF Database
  <2>5. Handled(e) = Handled(db) \union {u}
    BY <1>1, <1>2, <2>3 DEF Handled, Database
  <2>6. /\ e.offset = d.offset /\ e.jobs = d.jobs /\ e.attached = d.attached
        /\ e.session = d.session /\ e.sessions = d.sessions
    BY <2>3
  <2> QED
    BY <1>1, <1>4, <1>11, <2>4, <2>5, <2>6
<1>12. CASE sent[u] = "cancel"
  <2>1. e = AfterCancel(u, d)
    BY <1>8, <1>12 DEF After
  <2>2. /\ e \in Database /\ e.session = n.session /\ e.sessions = n.sessions
        /\ e.offset = d.offset /\ e.ups = [d.ups EXCEPT ![u] = "enqueued"]
        /\ e.attached = d.attached /\ Len(e.jobs) = Len(d.jobs)
        /\ \A j \in 1 .. Len(d.jobs) :
             /\ Newest(j, n) /\ d.jobs[j].status = "queued" => e.jobs[j] = Taken(d.jobs[j], u)
             /\ ~(Newest(j, n) /\ d.jobs[j].status = "queued") => e.jobs[j] = d.jobs[j]
    <3>1. d \in Database
      BY <1>1
    <3>2. /\ e \in Database /\ e.session = n.session /\ e.sessions = n.sessions
          /\ e.offset = d.offset /\ e.ups = [d.ups EXCEPT ![u] = "enqueued"]
          /\ e.attached = d.attached
      BY <1>3, <2>1, <3>1, CancelFacts
    <3>3. /\ Len(e.jobs) = Len(d.jobs)
          /\ \A j \in 1 .. Len(d.jobs) :
             /\ Newest(j, n) /\ d.jobs[j].status = "queued" => e.jobs[j] = Taken(d.jobs[j], u)
             /\ ~(Newest(j, n) /\ d.jobs[j].status = "queued") => e.jobs[j] = d.jobs[j]
      BY <1>3, <2>1, <3>1, CancelJobs
    <3> QED
      BY <3>2, <3>3
  <2>3. Handled(e) = Handled(db) \union {u}
    BY <1>1, <1>2, <2>2 DEF Handled, Database
  <2>4. \A j : Newest(j, n) <=> Newest(j, d)
    <3>1. SaneJobs(d) /\ d.session <= d.sessions /\ d.sessions <= Cardinality(Handled(d))
      BY <1>1 DEF Sane, SaneUpdates, SaneJobs, Handled
    <3>2. \A j \in 1 .. Len(d.jobs) : /\ d.jobs[j].session \in 1 .. MaxUpdates
                                      /\ d.jobs[j].session <= d.sessions
      BY <1>1, <3>1, JobTypes DEF SaneJobs
    <3>3. \A j \in 1 .. Len(d.jobs) :
            d.jobs[j].session = n.session <=> d.jobs[j].session = d.session
      BY <1>1, <1>6, <3>2 DEF Database
    <3>4. Active(n) = Active(d)
      BY <1>6, <3>3 DEF Active
    <3> QED
      BY <3>4 DEF Newest
  <2>5. \A j : Newest(j, d) <=> Newest(j, db)
    BY <1>1 DEF Newest, Active
  <2>6. \A j \in 1 .. Len(db.jobs) :
          /\ Newest(j, db) /\ db.jobs[j].status = "queued" => e.jobs[j] = Taken(db.jobs[j], u)
          /\ ~(Newest(j, db) /\ db.jobs[j].status = "queued") => e.jobs[j] = db.jobs[j]
    BY <1>1, <2>2, <2>4, <2>5, Zenon
  <2> QED
    BY <1>1, <1>4, <1>6, <1>12, <2>2, <2>3, <2>6
<1> QED
  BY <1>7, <1>9, <1>10, <1>11, <1>12 DEF AllKinds

-----------------------------------------------------------------------------
(* The database stays sane *)

LEMMA AfterSaneUpdates ==
  ASSUME TypeInv, Sane(db), NEW u \in Update, u <= Len(sent), u \notin Handled(db),
         \A v \in Update : v < u => v \in Handled(db),
         NEW e, e = After(u, Step(u))
  PROVE  SaneUpdates(e)
<1>0. db \in Database
  BY DEF TypeInv, TypeOK
<1>1. /\ e \in Database /\ e.offset = OffsetAfter(u, db)
      /\ Handled(e) = Handled(db) \union {u}
      /\ \A v \in Update : v # u => e.attached[v] = db.attached[v]
      /\ e.attached[u] <= 1
      /\ \/ e.session = db.session /\ e.sessions = db.sessions
         \/ /\ db.session = 0
            /\ e.session = db.sessions + 1 /\ e.sessions = db.sessions + 1
  BY AfterFacts
<1>2. SaneUpdates(db) /\ db.offset \in Nat /\ db.session \in Nat /\ db.sessions \in Nat
  BY <1>0, InboundAssumption DEF Sane, Database
<1>3. ASSUME NEW v \in Update, v < e.offset PROVE v \in Handled(e)
  <2>1. v < u + 1 \/ v < db.offset
    BY <1>1, <1>3 DEF OffsetAfter
  <2> QED
    BY <1>1, <1>2, <2>1, InboundAssumption DEF SaneUpdates, Update
<1>4. ASSUME NEW v \in Update, NEW w \in Update, v < w, w \in Handled(e)
      PROVE  v \in Handled(e)
  BY <1>1, <1>2, <1>4 DEF SaneUpdates
<1>5. Cardinality(Handled(e)) = Cardinality(Handled(db)) + 1 /\ Cardinality(Handled(db)) \in Nat
  <2>1. IsFiniteSet(Handled(db)) /\ Cardinality(Handled(db)) \in Nat
    BY <1>0, HandledFinite
  <2>2. Cardinality(Handled(db) \union {u}) = Cardinality(Handled(db)) + 1
    BY <2>1, OneMore
  <2> QED
    BY <1>1, <2>1, <2>2
<1>6. e.session <= e.sessions /\ e.sessions <= Cardinality(Handled(e))
  BY <1>1, <1>2, <1>5 DEF SaneUpdates
<1>7. \A v \in Update : e.attached[v] <= 1 /\ (e.attached[v] > 0 => v \in Handled(e))
  BY <1>1, <1>2 DEF SaneUpdates
<1> QED
  BY <1>3, <1>4, <1>6, <1>7 DEF SaneUpdates

LEMMA AfterSaneJobs ==
  ASSUME TypeInv, Sane(db), NEW u \in Update, u <= Len(sent), u \notin Handled(db),
         NEW e, e = After(u, Step(u))
  PROVE  SaneJobs(e)
<1>0. db \in Database
  BY DEF TypeInv, TypeOK
<1>1. /\ e \in Database /\ Handled(e) = Handled(db) \union {u}
      /\ \/ e.session = db.session /\ e.sessions = db.sessions
         \/ /\ db.session = 0
            /\ e.session = db.sessions + 1 /\ e.sessions = db.sessions + 1
      /\ sent[u] \in {"text", "photo", "end"} =>
           e.jobs = Append(db.jobs, NewJob(u, e.session)) /\ e.session \in 1 .. MaxUpdates
      /\ sent[u] \notin {"text", "photo", "end", "cancel"} => e.jobs = db.jobs
      /\ sent[u] = "cancel" =>
           /\ Len(e.jobs) = Len(db.jobs)
           /\ \A j \in 1 .. Len(db.jobs) :
                   /\ Newest(j, db) /\ db.jobs[j].status = "queued" => e.jobs[j] = Taken(db.jobs[j], u)
                   /\ ~(Newest(j, db) /\ db.jobs[j].status = "queued") => e.jobs[j] = db.jobs[j]
  BY AfterFacts
<1>2. SaneJobs(db) /\ Len(db.jobs) \in Nat /\ db.sessions \in Nat /\ db.session \in Nat
      /\ db.session <= db.sessions
  BY <1>0, JobTypes, InboundAssumption DEF Sane, SaneUpdates, Database
<1>3. \A j \in 1 .. Len(db.jobs) : db.jobs[j].session <= e.sessions
  <2>1. db.sessions <= e.sessions
    BY <1>1, <1>2
  <2>2. \A j \in 1 .. Len(db.jobs) : db.jobs[j].session \in 1 .. MaxUpdates
                                      /\ db.jobs[j].session <= db.sessions
    BY <1>0, <1>2, JobTypes DEF SaneJobs
  <2>3. e.sessions \in Nat
    BY <1>1, JobTypes
  <2> QED
    BY <1>2, <2>1, <2>2, <2>3, InboundAssumption
<1>4. CASE sent[u] \in {"text", "photo", "end"}
  <2> DEFINE k == Len(db.jobs) + 1
  <2>1. /\ Len(e.jobs) = k /\ e.jobs[k] = NewJob(u, e.session)
        /\ \A j \in 1 .. Len(db.jobs) : e.jobs[j] = db.jobs[j]
    <3>1. db.jobs \in Seq(Job)
      BY <1>0, JobTypes
    <3> QED
      BY <1>1, <1>4, <3>1
  <2>2. /\ e.jobs[k].upd = u /\ e.jobs[k].session = e.session /\ e.jobs[k].by = 0
        /\ e.jobs[k].status = "queued"
    BY <2>1 DEF NewJob
  <2>3. \A j \in 1 .. Len(e.jobs) : j = k \/ j \in 1 .. Len(db.jobs)
    BY <1>2, <2>1
  <2>4. e.session <= e.sessions
    BY <1>1, <1>2
  <2>5. \A j \in 1 .. Len(e.jobs) :
          /\ e.jobs[j].upd \in Handled(e) /\ e.jobs[j].session <= e.sessions
          /\ e.jobs[j].by # 0 => e.jobs[j].by \in Handled(e)
    BY <1>1, <1>2, <1>3, <2>1, <2>2, <2>3, <2>4 DEF SaneJobs
  <2>6. \A j \in 1 .. Len(db.jobs) : db.jobs[j].upd # u
    BY <1>2 DEF SaneJobs
  <2> HIDE DEF k
  <2>7. ASSUME NEW i \in 1 .. Len(e.jobs), NEW j \in 1 .. Len(e.jobs)
        PROVE  /\ e.jobs[i].upd = e.jobs[j].upd => i = j
               /\ e.jobs[i].by = e.jobs[j].by /\ e.jobs[i].by # 0 => i = j
               /\ e.jobs[i].status = "running" /\ e.jobs[j].status = "running" => i = j
    <3>1. CASE i = k \/ j = k
      BY <2>1, <2>2, <2>3, <2>6, <3>1
    <3>2. CASE i \in 1 .. Len(db.jobs) /\ j \in 1 .. Len(db.jobs)
      BY <1>2, <2>1, <3>2 DEF SaneJobs
    <3> QED
      BY <2>3, <3>1, <3>2
  <2>8. ASSUME NEW i \in 1 .. Len(e.jobs), NEW j \in 1 .. Len(e.jobs),
               e.jobs[i].status = "running", j < i
        PROVE  e.jobs[j].status # "queued"
    <3>1. i \in 1 .. Len(db.jobs)
      BY <2>2, <2>3, <2>8
    <3>2. j \in 1 .. Len(db.jobs)
      BY <1>2, <2>8, <3>1
    <3> QED
      BY <1>2, <2>1, <2>8, <3>1, <3>2 DEF SaneJobs
  <2> QED
    BY <2>5, <2>7, <2>8 DEF SaneJobs
<1>5. CASE sent[u] \notin {"text", "photo", "end", "cancel"}
  <2>1. e.jobs = db.jobs
    BY <1>1, <1>5
  <2>2. \A j \in 1 .. Len(db.jobs) :
          /\ db.jobs[j].upd \in Handled(e) /\ db.jobs[j].session <= e.sessions
          /\ db.jobs[j].by # 0 => db.jobs[j].by \in Handled(e)
    <3>1. \A j \in 1 .. Len(db.jobs) :
            /\ db.jobs[j].upd \in Handled(db)
            /\ db.jobs[j].by # 0 => db.jobs[j].by \in Handled(db)
      BY <1>2 DEF SaneJobs
    <3> QED BY <1>1, <1>3, <3>1
  <2>3. SaneJobs(db)
    BY <1>2
  <2> QED
    BY <2>1, <2>2, <2>3 DEF SaneJobs
<1>6. CASE sent[u] = "cancel"
  <2>1. Len(e.jobs) = Len(db.jobs)
    BY <1>1, <1>6
  <2>2. ASSUME NEW j \in 1 .. Len(db.jobs)
        PROVE  /\ e.jobs[j].upd = db.jobs[j].upd /\ e.jobs[j].session = db.jobs[j].session
               /\ e.jobs[j].by = db.jobs[j].by \/ (e.jobs[j].by = u /\ Newest(j, db))
               /\ e.jobs[j].status = db.jobs[j].status \/ e.jobs[j].status = "cancelled"
    <3>1. CASE Newest(j, db) /\ db.jobs[j].status = "queued"
      <4>1. e.jobs[j] = Taken(db.jobs[j], u)
        BY <1>1, <1>6, <3>1
      <4>2. db.jobs[j] \in Job
        BY <1>0, JobTypes
      <4> QED
        BY <3>1, <4>1, <4>2 DEF Taken, Job
    <3>2. CASE ~(Newest(j, db) /\ db.jobs[j].status = "queued")
      BY <1>1, <1>6, <3>2
    <3> QED
      BY <3>1, <3>2
  <2>3. \A j \in 1 .. Len(e.jobs) :
          /\ e.jobs[j].upd \in Handled(e) /\ e.jobs[j].session <= e.sessions
          /\ e.jobs[j].by # 0 => e.jobs[j].by \in Handled(e)
    BY <1>1, <1>2, <1>3, <2>1, <2>2 DEF SaneJobs
  <2>4. ASSUME NEW i \in 1 .. Len(e.jobs), NEW j \in 1 .. Len(e.jobs)
        PROVE  /\ e.jobs[i].upd = e.jobs[j].upd => i = j
               /\ e.jobs[i].status = "running" /\ e.jobs[j].status = "running" => i = j
               /\ e.jobs[i].status = "running" /\ j < i => e.jobs[j].status # "queued"
    BY <1>2, <2>1, <2>2 DEF SaneJobs
  <2>5. ASSUME NEW i \in 1 .. Len(e.jobs), NEW j \in 1 .. Len(e.jobs),
               e.jobs[i].by = e.jobs[j].by, e.jobs[i].by # 0
        PROVE  i = j
    <3>1. \A k \in 1 .. Len(db.jobs) : db.jobs[k].by # u
      <4>1. \A k \in 1 .. Len(db.jobs) : db.jobs[k].by # 0 => db.jobs[k].by \in Handled(db)
        BY <1>2 DEF SaneJobs
      <4>2. u # 0
        BY InboundAssumption DEF Update
      <4> QED
        BY <4>1, <4>2
    <3>2. CASE e.jobs[i].by = u
      <4>1. Newest(i, db) /\ Newest(j, db)
        BY <2>1, <2>2, <2>5, <3>1, <3>2
      <4>2. i <= j /\ j <= i
        BY <4>1 DEF Newest
      <4> QED
        BY <4>2
    <3>3. CASE e.jobs[i].by # u
      <4>1. e.jobs[i].by = db.jobs[i].by /\ e.jobs[j].by = db.jobs[j].by
        BY <2>1, <2>2, <2>5, <3>3
      <4> QED
        BY <1>2, <2>1, <2>5, <4>1 DEF SaneJobs
    <3> QED
      BY <3>2, <3>3
  <2> QED
    BY <2>3, <2>4, <2>5 DEF SaneJobs
<1> QED
  BY <1>4, <1>5, <1>6

Db(o, js, ups, a, t, n) ==
  [offset |-> o, jobs |-> js, ups |-> ups, attached |-> a, session |-> t, sessions |-> n]

LEMMA Fields ==
  ASSUME NEW o, NEW js, NEW ups, NEW a, NEW t, NEW n
  PROVE  /\ Db(o, js, ups, a, t, n).offset = o /\ Db(o, js, ups, a, t, n).jobs = js
         /\ Db(o, js, ups, a, t, n).ups = ups /\ Db(o, js, ups, a, t, n).attached = a
         /\ Db(o, js, ups, a, t, n).session = t /\ Db(o, js, ups, a, t, n).sessions = n
BY DEF Db

LEMMA DbType ==
  ASSUME NEW o \in 0 .. MaxUpdates + 1, NEW js \in Seq(Job),
         NEW ups \in [Update -> {"none", "enqueued", "skipped"}],
         NEW a \in [Update -> Nat], NEW t \in 0 .. MaxUpdates, NEW n \in 0 .. MaxUpdates
  PROVE  Db(o, js, ups, a, t, n) \in Database
BY DEF Db, Database

LEMMA SaneKept ==
  ASSUME NEW d \in Database, NEW e \in Database, Sane(d),
         Handled(e) = Handled(d), \A v \in Update : v < e.offset => v \in Handled(d),
         e.attached = d.attached, e.sessions = d.sessions, e.session <= e.sessions,
         Len(e.jobs) = Len(d.jobs),
         \A j \in 1 .. Len(d.jobs) :
           /\ e.jobs[j].upd = d.jobs[j].upd /\ e.jobs[j].session = d.jobs[j].session
           /\ e.jobs[j].by = d.jobs[j].by,
         \A i, j \in 1 .. Len(d.jobs) :
           e.jobs[i].status = "running" =>
             /\ e.jobs[j].status = "running" => i = j
             /\ j < i => e.jobs[j].status # "queued"
  PROVE  Sane(e)
<1>1. SaneUpdates(e)
  BY DEF Sane, SaneUpdates
<1>2. \A j \in 1 .. Len(e.jobs) :
        /\ e.jobs[j].upd \in Handled(e) /\ e.jobs[j].session <= e.sessions
        /\ e.jobs[j].by # 0 => e.jobs[j].by \in Handled(e)
  BY DEF Sane, SaneJobs
<1>3. \A i, j \in 1 .. Len(e.jobs) :
        /\ e.jobs[i].upd = e.jobs[j].upd => i = j
        /\ e.jobs[i].by = e.jobs[j].by /\ e.jobs[i].by # 0 => i = j
  BY DEF Sane, SaneJobs
<1> QED
  BY <1>1, <1>2, <1>3 DEF Sane, SaneJobs

\* The offset moves past an update that was known (SkipKnown).
LEMMA SkipFacts ==
  ASSUME TypeInv, Sane(db), NEW u \in Update, u \in Handled(db), NEW e, e = Step(u)
  PROVE  /\ e \in Database /\ Sane(e) /\ Handled(e) = Handled(db)
         /\ e.jobs = db.jobs /\ e.session = db.session /\ e.offset >= db.offset
<1>0. db \in Database
  BY DEF TypeInv, TypeOK
<1>1. /\ e \in Database /\ e.jobs = db.jobs /\ e.ups = db.ups
      /\ e.attached = db.attached /\ e.session = db.session /\ e.sessions = db.sessions
      /\ e.offset = OffsetAfter(u, db)
  BY StepFacts
<1>2. Handled(e) = Handled(db)
  BY <1>1 DEF Handled
<1>3. db.offset \in Nat /\ SaneUpdates(db) /\ SaneJobs(db) /\ u \in Nat
  BY <1>0, InboundAssumption DEF Database, Sane, Update
<1>4. ASSUME NEW v \in Update, v < e.offset PROVE v \in Handled(db)
  <2>1. v < db.offset \/ v < u \/ v = u
    BY <1>1, <1>3, <1>4, InboundAssumption DEF OffsetAfter, Update
  <2> QED
    BY <1>3, <2>1 DEF SaneUpdates
<1>5. SaneUpdates(e)
  BY <1>1, <1>2, <1>3, <1>4 DEF SaneUpdates
<1>6. SaneJobs(e)
  BY <1>1, <1>2, <1>3 DEF SaneJobs
<1>7. e.offset >= db.offset
  BY <1>1, <1>3 DEF OffsetAfter
<1> QED
  BY <1>1, <1>2, <1>5, <1>6, <1>7 DEF Sane

Restarted(d, again) ==
  [d EXCEPT !.jobs = [j \in 1 .. Len(@) |->
     IF @[j].status = "running"
       THEN [@[j] EXCEPT !.status = IF again THEN "queued" ELSE "over"] ELSE @[j]]]

WithStatus(d, k, s, t) == [d EXCEPT !.jobs[k].status = s, !.session = t]

\* From d to e only the status of job k changes, to s, and the session, to t.
StatusChanged(d, e, k, s, t) ==
  /\ Len(e.jobs) = Len(d.jobs) /\ e.session = t /\ e.offset = d.offset
  /\ \A j \in 1 .. Len(d.jobs) :
       /\ e.jobs[j].upd = d.jobs[j].upd /\ e.jobs[j].kind = d.jobs[j].kind
       /\ e.jobs[j].session = d.jobs[j].session
       /\ j # k => e.jobs[j].status = d.jobs[j].status
  /\ e.jobs[k].status = s

\* No job runs or was queued before job k.
FirstQueued(d, k) ==
  /\ \A j \in 1 .. Len(d.jobs) : d.jobs[j].status # "running"
  /\ \A j \in 1 .. Len(d.jobs) : j < k => d.jobs[j].status # "queued"

LEMMA StatusFacts ==
  ASSUME NEW d \in Database, Sane(d), NEW k \in 1 .. Len(d.jobs),
         NEW s \in {"running", "over", "cancelled"},
         NEW t \in {0, d.session}, NEW e, e = WithStatus(d, k, s, t),
         s # "running" \/ FirstQueued(d, k)
  PROVE  e \in Database /\ Sane(e) /\ Handled(e) = Handled(d) /\ StatusChanged(d, e, k, s, t)
<1>1. /\ d.jobs \in Seq(Job) /\ Len(d.jobs) \in Nat
      /\ \A j \in 1 .. Len(d.jobs) : d.jobs[j] \in Job
  BY JobTypes
<1> DEFINE js == [d.jobs EXCEPT ![k].status = s]
<1>2. [d.jobs[k] EXCEPT !.status = s] \in Job
  BY <1>1 DEF Job
<1>3. js \in Seq(Job) /\ Len(js) = Len(d.jobs)
  BY <1>1, <1>2
<1>4. \A j \in 1 .. Len(d.jobs) :
        /\ js[j].upd = d.jobs[j].upd /\ js[j].kind = d.jobs[j].kind
        /\ js[j].session = d.jobs[j].session /\ js[j].by = d.jobs[j].by
        /\ js[j].status = IF j = k THEN s ELSE d.jobs[j].status
  BY <1>1 DEF Job
<1> HIDE DEF js
<1>5. e = Db(d.offset, js, d.ups, d.attached, t, d.sessions)
  BY DEF Database, js, Db, WithStatus
<1>0. /\ d.offset \in 0 .. MaxUpdates + 1 /\ d.ups \in [Update -> {"none", "enqueued", "skipped"}]
      /\ d.attached \in [Update -> Nat] /\ d.sessions \in 0 .. MaxUpdates
  BY DEF Database
<1>6. t \in 0 .. MaxUpdates /\ t <= d.sessions
  BY InboundAssumption DEF Database, Sane, SaneUpdates
<1>7. e \in Database
  BY <1>0, <1>3, <1>5, <1>6, DbType
<1>8. Handled(e) = Handled(d)
  BY <1>5, Fields DEF Handled
<1>9. \A i, j \in 1 .. Len(d.jobs) :
        js[i].status = "running" =>
          /\ js[j].status = "running" => i = j
          /\ j < i => js[j].status # "queued"
  <2> SUFFICES ASSUME NEW i \in 1 .. Len(d.jobs), NEW j \in 1 .. Len(d.jobs),
                      js[i].status = "running"
               PROVE  /\ js[j].status = "running" => i = j
                      /\ j < i => js[j].status # "queued"
    OBVIOUS
  <2>0. /\ js[i].status = IF i = k THEN s ELSE d.jobs[i].status
        /\ js[j].status = IF j = k THEN s ELSE d.jobs[j].status
        /\ i \in Nat /\ j \in Nat
    BY <1>1, <1>4
  <2>1. CASE i = k
    <3>1. FirstQueued(d, k)
      BY <2>0, <2>1
    <3>2. d.jobs[j].status # "running" /\ (j < k => d.jobs[j].status # "queued")
      BY <3>1 DEF FirstQueued
    <3> QED
      BY <2>0, <2>1, <3>2
  <2>2. CASE i # k
    <3>1. s # "running"
      BY <2>0, <2>2 DEF FirstQueued
    <3> QED
      BY <2>0, <2>2, <3>1 DEF Sane, SaneJobs
  <2> QED
    BY <2>1, <2>2
<1>10. e.jobs = js /\ e.session = t /\ e.offset = d.offset /\ e.attached = d.attached
       /\ e.sessions = d.sessions
  BY <1>5, Fields
<1>11. Sane(e)
  <2>1. \A v \in Update : v < e.offset => v \in Handled(d)
    BY <1>10 DEF Sane, SaneUpdates
  <2> QED
    <3>1. /\ e.attached = d.attached /\ e.sessions = d.sessions /\ e.session <= e.sessions
          /\ Len(e.jobs) = Len(d.jobs)
      BY <1>3, <1>6, <1>10
    <3>2. \A j \in 1 .. Len(d.jobs) :
            /\ e.jobs[j].upd = d.jobs[j].upd /\ e.jobs[j].session = d.jobs[j].session
            /\ e.jobs[j].by = d.jobs[j].by
      BY <1>4, <1>10
    <3>3. \A i, j \in 1 .. Len(d.jobs) :
            e.jobs[i].status = "running" =>
              /\ e.jobs[j].status = "running" => i = j
              /\ j < i => e.jobs[j].status # "queued"
      BY <1>9, <1>10
    <3> QED
      BY <1>7, <1>8, <2>1, <3>1, <3>2, <3>3, SaneKept, Zenon
<1> QED
  BY <1>3, <1>4, <1>7, <1>8, <1>10, <1>11 DEF StatusChanged

\* The next process finds no running job (Restart).
LEMMA RestartFacts ==
  ASSUME NEW d \in Database, Sane(d), NEW again \in BOOLEAN, NEW e,
         e = Restarted(d, again)
  PROVE  /\ e \in Database /\ Sane(e) /\ Handled(e) = Handled(d)
         /\ Len(e.jobs) = Len(d.jobs) /\ e.session = d.session /\ e.offset = d.offset
         /\ \A j \in 1 .. Len(d.jobs) :
              /\ e.jobs[j].upd = d.jobs[j].upd /\ e.jobs[j].kind = d.jobs[j].kind
              /\ e.jobs[j].session = d.jobs[j].session
              /\ d.jobs[j].status = "running" => e.jobs[j].status \in {"queued", "over"}
              /\ d.jobs[j].status # "running" => e.jobs[j].status = d.jobs[j].status
<1>1. /\ d.jobs \in Seq(Job) /\ Len(d.jobs) \in Nat
      /\ \A j \in 1 .. Len(d.jobs) : d.jobs[j] \in Job
  BY JobTypes
<1> DEFINE after == IF again THEN "queued" ELSE "over"
           js == [j \in 1 .. Len(d.jobs) |->
                    IF d.jobs[j].status = "running"
                      THEN [d.jobs[j] EXCEPT !.status = after] ELSE d.jobs[j]]
<1>2. after \in {"queued", "over"}
  OBVIOUS
<1>3. e = [d EXCEPT !.jobs = js]
  BY Zenon DEF Restarted
<1> HIDE DEF after
<1>4. \A j \in 1 .. Len(d.jobs) : [d.jobs[j] EXCEPT !.status = after] \in Job
  BY <1>1, <1>2 DEF Job
<1>5. \A j \in 1 .. Len(d.jobs) : js[j] \in Job
  BY <1>1, <1>4
<1>6. \A j \in 1 .. Len(d.jobs) :
        /\ js[j].upd = d.jobs[j].upd /\ js[j].kind = d.jobs[j].kind
        /\ js[j].session = d.jobs[j].session /\ js[j].by = d.jobs[j].by
        /\ d.jobs[j].status = "running" => js[j].status \in {"queued", "over"}
        /\ d.jobs[j].status # "running" => js[j].status = d.jobs[j].status
  BY <1>1, <1>2 DEF Job
<1>7. js \in [1 .. Len(d.jobs) -> Job]
  BY <1>5, Zenon
<1> HIDE DEF js
<1>8. js \in Seq(Job) /\ Len(js) = Len(d.jobs)
  BY <1>1, <1>7
<1>9. e = Db(d.offset, js, d.ups, d.attached, d.session, d.sessions)
  BY <1>3 DEF Database, Db
<1>10. e \in Database
  <2>1. /\ d.offset \in 0 .. MaxUpdates + 1 /\ d.ups \in [Update -> {"none", "enqueued", "skipped"}]
        /\ d.attached \in [Update -> Nat] /\ d.session \in 0 .. MaxUpdates
        /\ d.sessions \in 0 .. MaxUpdates
    BY DEF Database
  <2> QED
    BY <1>8, <1>9, <2>1, DbType
<1>11. Handled(e) = Handled(d)
  BY <1>9, Fields DEF Handled
<1>12. e.jobs = js /\ e.session = d.session /\ e.offset = d.offset
       /\ e.attached = d.attached /\ e.sessions = d.sessions
  BY <1>9, Fields
<1>13. Sane(e)
  <2>1. \A v \in Update : v < e.offset => v \in Handled(d)
    BY <1>12 DEF Sane, SaneUpdates
  <2>2. \A j \in 1 .. Len(d.jobs) : js[j].status # "running"
    BY <1>6
  <2>3. e.session <= e.sessions
    BY <1>12 DEF Sane, SaneUpdates
  <2>4. \A i, j \in 1 .. Len(d.jobs) :
          js[i].status = "running" =>
            /\ js[j].status = "running" => i = j
            /\ j < i => js[j].status # "queued"
    BY <2>2
  <2> QED
    <3>1. /\ e.attached = d.attached /\ e.sessions = d.sessions /\ e.session <= e.sessions
          /\ Len(e.jobs) = Len(d.jobs)
      BY <1>8, <1>12, <2>3
    <3>2. \A j \in 1 .. Len(d.jobs) :
            /\ e.jobs[j].upd = d.jobs[j].upd /\ e.jobs[j].session = d.jobs[j].session
            /\ e.jobs[j].by = d.jobs[j].by
      BY <1>6, <1>12
    <3>3. \A i, j \in 1 .. Len(d.jobs) :
            e.jobs[i].status = "running" =>
              /\ e.jobs[j].status = "running" => i = j
              /\ j < i => e.jobs[j].status # "queued"
      BY <1>12, <2>4
    <3> QED
      BY <1>10, <1>11, <2>1, <3>1, <3>2, <3>3, SaneKept, Zenon
<1> QED
  BY <1>6, <1>8, <1>10, <1>11, <1>12, <1>13

-----------------------------------------------------------------------------
(* The batch and the open transaction *)

LEMMA HeadFacts ==
  ASSUME TypeInv, OrderInv, batch # << >>, NEW u, u = Head(batch)
  PROVE  /\ pc = "tx" /\ u \in Update /\ u <= Len(sent)
         /\ \A v \in Update : v < u => v \in Handled(db)
         /\ Tail(batch) \in Seq(Update) /\ Len(batch) \in Nat \ {0}
         /\ Len(Tail(batch)) = Len(batch) - 1
         /\ \A i \in 1 .. Len(Tail(batch)) : Tail(batch)[i] = batch[i + 1]
<1>1. batch \in Seq(Update) /\ pc = "tx"
  BY DEF TypeInv, TypeOK
<1>2. /\ u = batch[1] /\ u \in Update /\ Len(batch) \in Nat \ {0}
      /\ Tail(batch) \in Seq(Update) /\ Len(Tail(batch)) = Len(batch) - 1
      /\ \A i \in 1 .. Len(Tail(batch)) : Tail(batch)[i] = batch[i + 1]
  BY <1>1
<1>3. 1 \in 1 .. Len(batch)
  BY <1>2
<1>4. Orderly(batch, db, sent)
  BY DEF OrderInv, BatchInv
<1>5. u <= Len(sent) /\ \A v \in Update : v < u => v \in Handled(db)
  BY <1>2, <1>3, <1>4 DEF Orderly
<1> QED
  BY <1>1, <1>2, <1>5

LEMMA OrderlyTail ==
  ASSUME TypeInv, OrderInv, batch # << >>, NEW e, Handled(e) = Handled(db) \union {Head(batch)}
  PROVE  Orderly(Tail(batch), e, sent)
<1>1. /\ Len(batch) \in Nat \ {0} /\ Len(Tail(batch)) = Len(batch) - 1
      /\ \A i \in 1 .. Len(Tail(batch)) : Tail(batch)[i] = batch[i + 1]
  BY HeadFacts
<1>2. Head(batch) = batch[1]
  BY <1>1 DEF TypeInv, TypeOK
<1>3. Orderly(batch, db, sent)
  BY DEF OrderInv, BatchInv
<1> SUFFICES ASSUME NEW i \in 1 .. Len(Tail(batch))
             PROVE  /\ Tail(batch)[i] <= Len(sent)
                    /\ \A v \in Update : v < Tail(batch)[i] =>
                         v \in Handled(e) \/ \E j \in 1 .. i - 1 : Tail(batch)[j] = v
  BY DEF Orderly
<1>4. i + 1 \in 1 .. Len(batch) /\ Tail(batch)[i] = batch[i + 1]
  BY <1>1
<1>5. /\ batch[i + 1] <= Len(sent)
      /\ \A v \in Update : v < batch[i + 1] =>
           v \in Handled(db) \/ \E j \in 1 .. i + 1 - 1 : batch[j] = v
  BY <1>3, <1>4 DEF Orderly
<1>6. ASSUME NEW v \in Update, v < batch[i + 1], v \notin Handled(e)
      PROVE  \E j \in 1 .. i - 1 : Tail(batch)[j] = v
  <2>1. PICK j \in 1 .. i : batch[j] = v
    BY <1>5, <1>6
  <2>2. j # 1
    BY <1>2, <1>6, <2>1
  <2>3. j - 1 \in 1 .. i - 1 /\ Tail(batch)[j - 1] = batch[j]
    BY <1>1, <2>1, <2>2
  <2> QED
    BY <2>1, <2>3
<1> QED
  BY <1>4, <1>5, <1>6

\* Telegram's answer leaves nothing out, and what it repeats is handled.
LEMMA OrderlyOffer ==
  ASSUME TypeInv, OrderInv, pc = "asked", NEW n \in Nat, n = 0 \/ CanOffer(n)
  PROVE  /\ Offered(n) \in Seq(Update) /\ Orderly(Offered(n), db, sent)
         /\ \A u \in Update : u < asking =>
              /\ <<u>> \o Offered(n) \in Seq(Update)
              /\ Orderly(<<u>> \o Offered(n), db, sent)
<1> DEFINE first == IF asking = 0 THEN 1 ELSE asking
<1>1. /\ asking \in Nat /\ asking <= db.offset /\ first \in Nat \ {0} /\ first >= asking
      /\ Len(sent) \in Nat /\ Len(sent) <= MaxUpdates /\ SaneUpdates(db)
      /\ db.offset \in Nat
  BY InboundAssumption DEF TypeInv, TypeOK, OrderInv, BatchInv, Sane, Database
<1>2. Len(Offered(n)) = n /\ \A i \in 1 .. n : Offered(n)[i] = first + i - 1
  BY DEF Offered
<1>3. \A i \in 1 .. n : Offered(n)[i] <= Len(sent)
  BY <1>2 DEF CanOffer
<1> HIDE DEF first
<1>4. \A i \in 1 .. n : Offered(n)[i] \in Update
  BY <1>1, <1>2, <1>3, InboundAssumption DEF Update
<1>5. Offered(n) \in Seq(Update)
  <2>1. Offered(n) \in [1 .. n -> Update]
    BY <1>4 DEF Offered
  <2> QED
    BY <2>1
<1>6. \A v \in Update : v < asking => v \in Handled(db)
  BY <1>1 DEF SaneUpdates, Update
<1>7. ASSUME NEW i \in 1 .. n, NEW v \in Update, v < Offered(n)[i], v \notin Handled(db)
      PROVE  \E j \in 1 .. i - 1 : Offered(n)[j] = v
  <2>1. v >= asking /\ v \in Nat /\ v # 0
    BY <1>1, <1>6, <1>7, InboundAssumption DEF Update
  <2>2. v >= first
    BY <2>1 DEF first
  <2>3. v < first + i - 1
    BY <1>2, <1>7
  <2>4. v - first + 1 \in 1 .. i - 1
    BY <1>1, <2>1, <2>2, <2>3
  <2>5. Offered(n)[v - first + 1] = first + (v - first + 1) - 1
    BY <1>2, <2>4
  <2>6. Offered(n)[v - first + 1] = v
    BY <1>1, <2>1, <2>5
  <2> QED
    BY <2>4, <2>6
<1>8. Orderly(Offered(n), db, sent)
  BY <1>2, <1>3, <1>7 DEF Orderly
<1>9. ASSUME NEW u \in Update, u < asking
      PROVE  /\ <<u>> \o Offered(n) \in Seq(Update)
             /\ Orderly(<<u>> \o Offered(n), db, sent)
  <2> DEFINE b == <<u>> \o Offered(n)
  <2>1. /\ b \in Seq(Update) /\ Len(b) = n + 1 /\ b[1] = u
        /\ \A i \in 2 .. n + 1 : b[i] = Offered(n)[i - 1]
    BY <1>2, <1>5
  <2> HIDE DEF b
  <2>2. u <= Len(sent)
    <3>1. u \in Handled(db)
      BY <1>6, <1>9
    <3>2. \A v \in Update : v \in Handled(db) => v <= Len(sent)
      BY DEF OrderInv, SentFirst
    <3> QED
      BY <3>1, <3>2
  <2>3. ASSUME NEW i \in 1 .. n + 1
        PROVE  /\ b[i] <= Len(sent)
               /\ \A v \in Update : v < b[i] =>
                    v \in Handled(db) \/ \E j \in 1 .. i - 1 : b[j] = v
    <3>1. CASE i = 1
      BY <1>1, <1>6, <1>9, <2>1, <2>2, <3>1, InboundAssumption DEF Update
    <3>2. CASE i # 1
      <4>1. i - 1 \in 1 .. n /\ b[i] = Offered(n)[i - 1]
        BY <2>1, <3>2
      <4>2. ASSUME NEW v \in Update, v < b[i], v \notin Handled(db)
            PROVE  \E j \in 1 .. i - 1 : b[j] = v
        <5>1. PICK j \in 1 .. i - 1 - 1 : Offered(n)[j] = v
          BY <1>7, <4>1, <4>2
        <5>2. j + 1 \in 1 .. i - 1 /\ j + 1 \in 2 .. n + 1 /\ (j + 1) - 1 = j
          BY <4>1, <5>1
        <5>3. b[j + 1] = v
          BY <2>1, <5>1, <5>2
        <5> QED
          BY <5>2, <5>3
      <4> QED
        BY <1>3, <4>1, <4>2
    <3> QED
      BY <3>1, <3>2
  <2>4. Orderly(b, db, sent)
    BY <2>1, <2>3 DEF Orderly
  <2> QED
    BY <2>1, <2>4 DEF b
<1> QED
  BY <1>5, <1>8, <1>9

\* Job j of d and of e, before and after update u; a job of e that is new.
Kept(j, d, e, u) ==
  /\ e.jobs[j].upd = d.jobs[j].upd /\ e.jobs[j].kind = d.jobs[j].kind
  /\ e.jobs[j].session = d.jobs[j].session
  /\ \/ e.jobs[j].status = d.jobs[j].status
     \/ /\ sent[u] = "cancel" /\ Newest(j, d)
        /\ d.jobs[j].status = "queued" /\ e.jobs[j].status = "cancelled"

New(j, e, u) ==
  /\ e.jobs[j].session = e.session /\ e.jobs[j].status = "queued"
  /\ e.jobs[j].upd = u /\ sent[u] \in {"text", "photo", "end"}
  /\ e.jobs[j].kind = IF sent[u] = "end" THEN "summary" ELSE "run"

\* What the head of the batch does to the jobs.
LEMMA AfterShape ==
  ASSUME TypeInv, Sane(db), NEW u \in Update, u <= Len(sent), u \notin Handled(db),
         NEW e, e = After(u, Step(u))
  PROVE  /\ Len(e.jobs) \in Nat /\ Len(db.jobs) <= Len(e.jobs)
         /\ db.offset <= e.offset
         /\ db.session # 0 => e.session = db.session
         /\ \A j \in 1 .. Len(db.jobs) : Kept(j, db, e, u)
         /\ \A j \in Len(db.jobs) + 1 .. Len(e.jobs) : New(j, e, u)
         /\ sent[u] \in {"text", "photo"} => Len(e.jobs) = Len(db.jobs) + 1
<1>0. db \in Database
  BY DEF TypeInv, TypeOK
<1>1. /\ e \in Database /\ e.offset = OffsetAfter(u, db)
      /\ \/ e.session = db.session /\ e.sessions = db.sessions
         \/ /\ db.session = 0
            /\ e.session = db.sessions + 1 /\ e.sessions = db.sessions + 1
      /\ sent[u] \in {"text", "photo", "end"} =>
           e.jobs = Append(db.jobs, NewJob(u, e.session)) /\ e.session \in 1 .. MaxUpdates
      /\ sent[u] \notin {"text", "photo", "end", "cancel"} => e.jobs = db.jobs
      /\ sent[u] = "cancel" =>
           /\ Len(e.jobs) = Len(db.jobs)
           /\ \A j \in 1 .. Len(db.jobs) :
                   /\ Newest(j, db) /\ db.jobs[j].status = "queued" => e.jobs[j] = Taken(db.jobs[j], u)
                   /\ ~(Newest(j, db) /\ db.jobs[j].status = "queued") => e.jobs[j] = db.jobs[j]
  BY AfterFacts
<1>2. /\ db.jobs \in Seq(Job) /\ Len(db.jobs) \in Nat /\ Len(e.jobs) \in Nat
      /\ db.offset \in Nat
      /\ db.session # 0 => e.session = db.session
  BY <1>0, <1>1, JobTypes, InboundAssumption DEF Database
<1>3. db.offset <= e.offset
  <2>1. e.offset = OffsetAfter(u, db) /\ u \in Nat
    BY <1>1, InboundAssumption DEF Update
  <2> QED
    BY <1>2, <2>1 DEF OffsetAfter
<1>4. CASE sent[u] \in {"text", "photo", "end"}
  <2>1. /\ Len(e.jobs) = Len(db.jobs) + 1 /\ e.jobs[Len(db.jobs) + 1] = NewJob(u, e.session)
        /\ \A j \in 1 .. Len(db.jobs) : e.jobs[j] = db.jobs[j]
    BY <1>1, <1>2, <1>4
  <2>2. \A j \in Len(db.jobs) + 1 .. Len(e.jobs) : j = Len(db.jobs) + 1
    BY <1>2, <2>1
  <2>3. /\ NewJob(u, e.session).upd = u /\ NewJob(u, e.session).session = e.session
        /\ NewJob(u, e.session).status = "queued"
        /\ NewJob(u, e.session).kind = IF sent[u] = "end" THEN "summary" ELSE "run"
    BY DEF NewJob
  <2>4. \A j \in 1 .. Len(db.jobs) : Kept(j, db, e, u)
    BY <2>1 DEF Kept
  <2>5. \A j \in Len(db.jobs) + 1 .. Len(e.jobs) : New(j, e, u)
    BY <1>4, <2>1, <2>2, <2>3 DEF New
  <2> QED
    BY <1>2, <1>3, <2>1, <2>4, <2>5
<1>5. CASE sent[u] \notin {"text", "photo", "end", "cancel"}
  <2>1. e.jobs = db.jobs
    BY <1>1, <1>5
  <2>2. \A j \in Len(db.jobs) + 1 .. Len(db.jobs) : FALSE
    BY <1>2
  <2>3. \A j \in 1 .. Len(db.jobs) : Kept(j, db, e, u)
    BY <2>1 DEF Kept
  <2>4. \A j \in Len(db.jobs) + 1 .. Len(e.jobs) : New(j, e, u)
    BY <2>1, <2>2
  <2> QED
    BY <1>2, <1>3, <1>5, <2>1, <2>3, <2>4
<1>6. CASE sent[u] = "cancel"
  <2>1. ASSUME NEW j \in 1 .. Len(db.jobs)
        PROVE  Kept(j, db, e, u)
    <3>1. CASE Newest(j, db) /\ db.jobs[j].status = "queued"
      <4>1. e.jobs[j] = Taken(db.jobs[j], u) /\ db.jobs[j] \in Job
        BY <1>0, <1>1, <1>6, <3>1, JobTypes
      <4> QED
        BY <1>6, <3>1, <4>1 DEF Taken, Job, Kept
    <3>2. CASE ~(Newest(j, db) /\ db.jobs[j].status = "queued")
      <4>1. e.jobs[j] = db.jobs[j]
        BY <1>1, <1>6, <3>2
      <4> QED
        BY <4>1 DEF Kept
    <3> QED
      BY <3>1, <3>2
  <2>2. Len(e.jobs) = Len(db.jobs) /\ \A j \in Len(db.jobs) + 1 .. Len(e.jobs) : FALSE
    BY <1>1, <1>2, <1>6
  <2>3. \A j \in Len(db.jobs) + 1 .. Len(e.jobs) : New(j, e, u)
    BY <2>2
  <2> QED
    BY <1>2, <1>3, <1>6, <2>1, <2>2, <2>3
<1> QED
  BY <1>4, <1>5, <1>6

LEMMA WithinSelf ==
  ASSUME NEW d \in Database, NEW s
  PROVE  Within(d, d, s)
<1>1. d.offset \in Nat /\ Len(d.jobs) \in Nat
  BY JobTypes, InboundAssumption DEF Database
<1> QED
  BY <1>1 DEF Within

LEMMA WithinAfter ==
  ASSUME TypeInv, Sane(db), NEW u \in Update, u <= Len(sent), u \notin Handled(db),
         NEW e, e = After(u, Step(u)), Within(saved, db, sent)
  PROVE  Within(saved, e, sent)
<1>0. db \in Database /\ saved \in Database
  BY DEF TypeInv, TypeOK
<1>1. /\ Len(e.jobs) \in Nat /\ Len(db.jobs) <= Len(e.jobs) /\ db.offset <= e.offset
      /\ db.session # 0 => e.session = db.session
      /\ \A j \in 1 .. Len(db.jobs) : Kept(j, db, e, u)
      /\ \A j \in Len(db.jobs) + 1 .. Len(e.jobs) : New(j, e, u)
      /\ sent[u] \in {"text", "photo"} => Len(e.jobs) = Len(db.jobs) + 1
  BY AfterShape
<1>2. e \in Database /\ Handled(e) = Handled(db) \union {u}
  BY AfterFacts
<1>3. /\ Len(saved.jobs) \in Nat /\ Len(db.jobs) \in Nat /\ Len(saved.jobs) <= Len(db.jobs)
      /\ saved.offset \in Nat /\ db.offset \in Nat /\ e.offset \in Nat
  BY <1>0, <1>2, JobTypes, InboundAssumption DEF Database, Within
<1>4. \A i \in 1 .. Len(saved.jobs) : i \in 1 .. Len(db.jobs)
  BY <1>3
<1>5. saved.offset <= e.offset /\ Handled(saved) \subseteq Handled(e) /\ Len(saved.jobs) <= Len(e.jobs)
  BY <1>1, <1>2, <1>3 DEF Within
<1>6. saved.session # 0 => e.session = saved.session
  BY <1>1 DEF Within
<1>7. ASSUME NEW i \in 1 .. Len(saved.jobs)
      PROVE  /\ e.jobs[i].upd = saved.jobs[i].upd /\ e.jobs[i].kind = saved.jobs[i].kind
             /\ e.jobs[i].session = saved.jobs[i].session
             /\ \/ e.jobs[i].status = saved.jobs[i].status
                \/ saved.jobs[i].status = "queued" /\ e.jobs[i].status = "cancelled"
  <2>1. Kept(i, db, e, u)
    BY <1>1, <1>4
  <2>2. /\ db.jobs[i].upd = saved.jobs[i].upd /\ db.jobs[i].kind = saved.jobs[i].kind
        /\ db.jobs[i].session = saved.jobs[i].session
        /\ \/ db.jobs[i].status = saved.jobs[i].status
           \/ saved.jobs[i].status = "queued" /\ db.jobs[i].status = "cancelled"
    BY DEF Within
  <2> QED
    BY <2>1, <2>2 DEF Kept
<1>8. ASSUME NEW i \in Len(saved.jobs) + 1 .. Len(e.jobs)
      PROVE  e.jobs[i].session = e.session /\ e.jobs[i].status \in {"queued", "cancelled"}
  <2>1. CASE i \in 1 .. Len(db.jobs)
    <3>1. /\ db.jobs[i].session = db.session /\ db.jobs[i].status \in {"queued", "cancelled"}
          /\ db.jobs[i].session \in 1 .. MaxUpdates
      BY <1>0, <1>3, <2>1, JobTypes DEF Within
    <3>2. db.session # 0
      BY <3>1, InboundAssumption
    <3> QED
      BY <1>1, <2>1, <3>1, <3>2 DEF Kept
  <2>2. CASE i \in Len(db.jobs) + 1 .. Len(e.jobs)
    BY <1>1, <2>2 DEF New
  <2> QED
    BY <1>1, <1>3, <2>1, <2>2
<1>9. ASSUME NEW w \in Handled(e) \ Handled(saved), w <= Len(sent), sent[w] \in {"text", "photo"}
      PROVE  \E i \in Len(saved.jobs) + 1 .. Len(e.jobs) :
               e.jobs[i].upd = w /\ e.jobs[i].kind = "run"
  <2>1. CASE w = u
    <3>1. Len(db.jobs) + 1 \in Len(saved.jobs) + 1 .. Len(e.jobs)
          /\ Len(db.jobs) + 1 \in Len(db.jobs) + 1 .. Len(e.jobs)
      BY <1>1, <1>3, <1>9, <2>1
    <3>2. e.jobs[Len(db.jobs) + 1].upd = w /\ e.jobs[Len(db.jobs) + 1].kind = "run"
      BY <1>1, <1>9, <2>1, <3>1 DEF New
    <3> QED
      BY <3>1, <3>2
  <2>2. CASE w # u
    <3>1. w \in Handled(db) \ Handled(saved)
      BY <1>2, <1>9, <2>2
    <3>2. PICK i \in Len(saved.jobs) + 1 .. Len(db.jobs) :
            db.jobs[i].upd = w /\ db.jobs[i].kind = "run"
      BY <1>9, <3>1 DEF Within
    <3>3. i \in Len(saved.jobs) + 1 .. Len(e.jobs) /\ i \in 1 .. Len(db.jobs)
      BY <1>1, <1>3
    <3> QED
      BY <1>1, <3>2, <3>3 DEF Kept
  <2> QED
    BY <2>1, <2>2
<1> QED
  BY <1>5, <1>6, <1>7, <1>8, <1>9 DEF Within

LEMMA WithinSkip ==
  ASSUME NEW d \in Database, NEW e \in Database, NEW f \in Database, NEW s, Within(d, e, s),
         f.offset >= e.offset, f.jobs = e.jobs, f.session = e.session, Handled(f) = Handled(e)
  PROVE  Within(d, f, s)
<1>1. d.offset \in Nat /\ e.offset \in Nat /\ f.offset \in Nat
  BY InboundAssumption DEF Database
<1>2. d.offset <= f.offset
  BY <1>1 DEF Within
<1> QED
  BY <1>2 DEF Within

\* A job that runs was running at BEGIN.
LEMMA RunningBefore ==
  ASSUME NEW d \in Database, NEW e \in Database, NEW s, Within(d, e, s),
         NEW j \in 1 .. Len(e.jobs), e.jobs[j].status = "running"
  PROVE  /\ j \in 1 .. Len(d.jobs) /\ d.jobs[j].status = "running"
         /\ e.jobs[j].upd = d.jobs[j].upd
<1>1. Len(d.jobs) \in Nat /\ Len(e.jobs) \in Nat
  BY JobTypes
<1>2. j \in 1 .. Len(d.jobs)
  BY <1>1 DEF Within
<1> QED
  BY <1>2 DEF Within

-----------------------------------------------------------------------------
(* Types and order are inductive, action by action *)

BaseInv == TypeInv /\ OrderInv

LEMMA BaseInit == Init => BaseInv
<1> SUFFICES ASSUME Init PROVE BaseInv
  OBVIOUS
<1>1. db = NoUpdates /\ saved = db
  BY DEF Init
<1>2. /\ db \in Database /\ db.offset = 0 /\ db.jobs = << >>
      /\ db.attached = [u \in Update |-> 0] /\ db.session = 0 /\ db.sessions = 0
      /\ db.ups = [u \in Update |-> "none"]
  <2>1. /\ << >> \in Seq(Job) /\ [u \in Update |-> 0] \in [Update -> Nat]
        /\ [u \in Update |-> "none"] \in [Update -> {"none", "enqueued", "skipped"}]
        /\ 0 \in 0 .. MaxUpdates + 1 /\ 0 \in 0 .. MaxUpdates
    BY InboundAssumption
  <2> QED
    BY <1>1, <2>1 DEF NoUpdates, Database
<1>3. Handled(db) = {}
  BY <1>2 DEF Handled
<1>4. Cardinality(Handled(db)) = 0
  BY <1>3, FS_EmptySet
<1>5. Sane(db)
  <2>1. SaneUpdates(db)
    BY <1>2, <1>3, <1>4, InboundAssumption DEF SaneUpdates, Update
  <2>2. SaneJobs(db)
    BY <1>2 DEF SaneJobs
  <2> QED
    BY <2>1, <2>2 DEF Sane
<1>6. TypeInv
  BY <1>1, <1>2, InboundAssumption DEF TypeInv, TypeOK, Init
<1>7. HeardRuns /\ SentFirst
  BY <1>1, <1>3 DEF HeardRuns, SentFirst, Init
<1>8. BatchInv
  BY <1>1, <1>2 DEF BatchInv, Orderly, Durable, Init
<1>9. TxInv /\ ToldInv
  BY DEF TxInv, ToldInv, Init
<1> QED
  BY <1>1, <1>5, <1>6, <1>7, <1>8, <1>9 DEF BaseInv, OrderInv

LEMMA PollStep == BaseInv /\ Poll => BaseInv'
<1> SUFFICES ASSUME BaseInv, Poll PROVE BaseInv'
  OBVIOUS
<1> USE DEF BaseInv
<1>1. db \in Database /\ db.offset \in 0 .. MaxUpdates + 1
  BY DEF TypeInv, TypeOK, Database
<1>2. TypeInv'
  BY <1>1 DEF TypeInv, TypeOK, Poll, bounds
<1>3. Durable = db /\ Durable' = db
  BY DEF Durable, Poll
<1>4. Sane(db)' /\ Sane(saved)' /\ SentFirst' /\ HeardRuns'
  BY DEF OrderInv, SentFirst, HeardRuns, Running, Poll
<1>5. BatchInv'
  BY <1>1, <1>3 DEF OrderInv, BatchInv, Orderly, Poll
<1>6. TxInv' /\ ToldInv'
  BY <1>3 DEF OrderInv, TxInv, ToldInv, Poll
<1> QED
  BY <1>2, <1>4, <1>5, <1>6 DEF OrderInv

LEMMA BeginStep ==
  ASSUME BaseInv, NEW b \in Seq(Update), Begin(b), Orderly(b, db, sent),
         repeats' \in 0 .. MaxRepeats
  PROVE  BaseInv'
<1> USE DEF BaseInv
<1>1. db \in Database
  BY DEF TypeInv, TypeOK
<1>2. TypeInv'
  BY DEF TypeInv, TypeOK, Begin, bounds
<1>3. Durable = db /\ Durable' = db
  BY DEF Durable, Begin
<1>4. Sane(db)' /\ Sane(saved)' /\ SentFirst' /\ HeardRuns'
  BY DEF OrderInv, SentFirst, HeardRuns, Running, Begin
<1>5. BatchInv'
  BY <1>3 DEF OrderInv, BatchInv, Begin
<1>6. TxInv'
  BY <1>1, WithinSelf DEF TxInv, Begin
<1>7. ToldInv'
  BY <1>3 DEF OrderInv, ToldInv, Begin
<1> QED
  BY <1>2, <1>4, <1>5, <1>6, <1>7 DEF OrderInv

LEMMA AnswerStep == BaseInv /\ Answers => BaseInv'
<1> SUFFICES ASSUME BaseInv, NEW n \in 1 .. MaxBatch, Answer(n) PROVE BaseInv'
  BY DEF Answers
<1>1. n \in Nat /\ pc = "asked" /\ CanOffer(n)
  BY InboundAssumption DEF Answer, Begin
<1>2. Offered(n) \in Seq(Update) /\ Orderly(Offered(n), db, sent)
  BY <1>1, OrderlyOffer DEF BaseInv
<1>3. repeats' \in 0 .. MaxRepeats
  BY DEF BaseInv, TypeInv, TypeOK, Answer
<1> QED
  BY <1>2, <1>3, BeginStep DEF Answer

LEMMA RepeatStep ==
  ASSUME BaseInv, NEW u \in Update, NEW n \in 0 .. MaxBatch, Repeat(u, n)
  PROVE  BaseInv'
<1>1. n \in Nat /\ pc = "asked" /\ (n = 0 \/ CanOffer(n)) /\ u < asking
  BY InboundAssumption DEF Repeat, Begin
<1>2. <<u>> \o Offered(n) \in Seq(Update) /\ Orderly(<<u>> \o Offered(n), db, sent)
  BY <1>1, OrderlyOffer DEF BaseInv
<1>3. repeats' \in 0 .. MaxRepeats
  BY InboundAssumption DEF BaseInv, TypeInv, TypeOK, Repeat
<1> QED
  BY <1>2, <1>3, BeginStep DEF Repeat

LEMMA NoAnswerStep == BaseInv /\ NoAnswer => BaseInv'
<1> SUFFICES ASSUME BaseInv, NoAnswer PROVE BaseInv'
  OBVIOUS
<1> USE DEF BaseInv
<1>1. TypeInv'
  BY DEF TypeInv, TypeOK, NoAnswer, bounds, network
<1>2. Durable = db /\ Durable' = db
  BY DEF Durable, NoAnswer
<1>3. Sane(db)' /\ Sane(saved)' /\ SentFirst' /\ HeardRuns'
  BY DEF OrderInv, SentFirst, HeardRuns, Running, NoAnswer, network
<1>4. BatchInv' /\ TxInv' /\ ToldInv'
  BY <1>2 DEF OrderInv, BatchInv, TxInv, ToldInv, NoAnswer, network
<1> QED
  BY <1>1, <1>3, <1>4 DEF OrderInv

LEMMA SkipStep == BaseInv /\ SkipKnown => BaseInv'
<1> SUFFICES ASSUME BaseInv, SkipKnown PROVE BaseInv'
  OBVIOUS
<1> USE DEF BaseInv
<1> PICK u : u = Head(batch)
  OBVIOUS
<1>1. pc = "tx" /\ batch # << >> /\ IsTerminal(u, db)
  BY DEF SkipKnown
<1>2. u \in Update /\ Tail(batch) \in Seq(Update)
  BY <1>1, HeadFacts
<1>3. u \in Handled(db)
  BY <1>1, <1>2 DEF IsTerminal, Handled
<1>4. db' = Step(u) /\ db \in Database /\ saved \in Database
  BY DEF SkipKnown, TypeInv, TypeOK
<1>5. /\ db' \in Database /\ Sane(db') /\ Handled(db') = Handled(db)
      /\ db'.jobs = db.jobs /\ db'.session = db.session /\ db'.offset >= db.offset
  BY <1>2, <1>3, <1>4, SkipFacts DEF OrderInv
<1>6. answers' \subseteq answers \union {u}
  BY DEF SkipKnown
<1>7. /\ sent' = sent /\ confirmed' = confirmed /\ repeats' = repeats /\ saved' = saved
      /\ pc' = pc /\ asking' = asking /\ outbox' = outbox /\ told' = told
      /\ heard' = heard /\ errors' = errors /\ crashes' = crashes /\ batch' = Tail(batch)
  BY DEF SkipKnown, network, bounds
<1>8. TypeInv'
  BY <1>1, <1>2, <1>5, <1>6, <1>7 DEF TypeInv, TypeOK
<1>9. Durable' = Durable
  BY <1>1, <1>7 DEF Durable
<1>10. SentFirst' /\ HeardRuns'
  BY <1>5, <1>7 DEF OrderInv, SentFirst, HeardRuns, Running
<1>11. Orderly(batch', db', sent')
  <2>1. Handled(db') = Handled(db) \union {Head(batch)}
    BY <1>3, <1>5
  <2> QED
    BY <1>1, <1>7, <2>1, OrderlyTail
<1>12. BatchInv'
  BY <1>1, <1>7, <1>9, <1>11 DEF OrderInv, BatchInv
<1>13. TxInv'
  BY <1>1, <1>4, <1>5, <1>7, WithinSkip DEF OrderInv, TxInv
<1>14. ToldInv'
  BY <1>3, <1>5, <1>6, <1>7, <1>9 DEF OrderInv, ToldInv
<1> QED
  BY <1>5, <1>7, <1>8, <1>10, <1>12, <1>13, <1>14 DEF OrderInv

LEMMA HandleStep == BaseInv /\ Handle => BaseInv'
<1> SUFFICES ASSUME BaseInv, Handle PROVE BaseInv'
  OBVIOUS
<1> USE DEF BaseInv
<1> PICK u : u = Head(batch)
  OBVIOUS
<1>1. pc = "tx" /\ batch # << >> /\ ~IsTerminal(u, db)
  BY DEF Handle
<1>2. /\ u \in Update /\ u <= Len(sent) /\ Tail(batch) \in Seq(Update)
      /\ \A v \in Update : v < u => v \in Handled(db)
  BY <1>1, HeadFacts
<1>3. db' = After(u, Step(u)) /\ db \in Database /\ saved \in Database
  BY DEF Handle, TypeInv, TypeOK
<1>4. u \notin Handled(db)
  BY <1>1, <1>2, <1>3 DEF IsTerminal, Handled, Database
<1>5. Sane(db) /\ Within(saved, db, sent)
  BY <1>1 DEF OrderInv, TxInv
<1>6. /\ db' \in Database /\ Handled(db') = Handled(db) \union {u}
  BY <1>2, <1>3, <1>4, <1>5, AfterFacts
<1>7. /\ Len(db.jobs) <= Len(db'.jobs) /\ Len(db'.jobs) \in Nat
      /\ \A j \in 1 .. Len(db.jobs) : Kept(j, db, db', u)
  BY <1>2, <1>3, <1>4, <1>5, AfterShape
<1>8. Sane(db')
  BY <1>2, <1>3, <1>4, <1>5, AfterSaneUpdates, AfterSaneJobs DEF Sane
<1>9. /\ answers' \subseteq answers \union {u}
      /\ heard' = heard \/ (heard' = u /\ Signalled(EnsureActiveSession(db)))
  BY DEF Handle, Hear
<1>10. /\ sent' = sent /\ confirmed' = confirmed /\ repeats' = repeats /\ saved' = saved
       /\ pc' = pc /\ asking' = asking /\ outbox' = outbox /\ told' = told
       /\ errors' = errors /\ crashes' = crashes /\ batch' = Tail(batch)
  BY DEF Handle, network, bounds
<1>11. TypeInv'
  <2>1. heard' \in 0 .. MaxUpdates
    BY <1>2, <1>9, InboundAssumption DEF TypeInv, TypeOK, Update
  <2> QED
    BY <1>1, <1>2, <1>6, <1>9, <1>10, <2>1 DEF TypeInv, TypeOK
<1>12. Durable' = Durable
  BY <1>1, <1>10 DEF Durable
<1>13. SentFirst'
  BY <1>2, <1>6, <1>10 DEF OrderInv, SentFirst
<1>14. HeardRuns'
  <2> SUFFICES ASSUME heard' # 0 PROVE \E j \in 1 .. Len(db'.jobs) : db'.jobs[j].status = "running"
    BY DEF HeardRuns, Running
  <2>1. PICK j \in 1 .. Len(db.jobs) : db.jobs[j].status = "running"
    <3>1. CASE heard # 0
      BY <3>1 DEF OrderInv, HeardRuns, Running
    <3>2. CASE Signalled(EnsureActiveSession(db))
      <4>1. EnsureActiveSession(db).jobs = db.jobs
        BY <1>3 DEF EnsureActiveSession, Database
      <4> QED
        BY <3>2, <4>1 DEF Signalled, Active
    <3> QED
      BY <1>9, <3>1, <3>2
  <2>2. j \in 1 .. Len(db'.jobs)
    BY <1>3, <1>7, JobTypes
  <2>3. db'.jobs[j].status = "running"
    BY <1>7, <2>1 DEF Kept
  <2> QED
    BY <2>2, <2>3
<1>15. Orderly(batch', db', sent')
  BY <1>1, <1>6, <1>10, OrderlyTail
<1>16. BatchInv'
  BY <1>1, <1>10, <1>12, <1>15 DEF OrderInv, BatchInv
<1>17. Within(saved, db', sent)
  BY <1>2, <1>3, <1>4, <1>5, WithinAfter
<1>18. TxInv'
  BY <1>10, <1>17 DEF TxInv
<1>19. ToldInv'
  BY <1>6, <1>9, <1>10, <1>12 DEF OrderInv, ToldInv
<1> QED
  BY <1>5, <1>8, <1>10, <1>11, <1>13, <1>14, <1>16, <1>18, <1>19 DEF OrderInv

LEMMA ThrowStep == BaseInv /\ Throw => BaseInv'
<1> SUFFICES ASSUME BaseInv, Throw PROVE BaseInv'
  OBVIOUS
<1> USE DEF BaseInv
<1>1. /\ pc = "tx" /\ batch # << >> /\ db \in Database /\ saved \in Database
      /\ Within(saved, db, sent) /\ Sane(saved) /\ Sane(db)
  BY DEF Throw, Throws, TypeInv, TypeOK, OrderInv, TxInv
<1>2. /\ sent' = sent /\ confirmed' = confirmed /\ repeats' = repeats /\ saved' = saved
      /\ db' = saved /\ pc' = "idle" /\ batch' = << >> /\ answers' = {}
      /\ asking' = asking /\ outbox' = outbox /\ told' = told /\ crashes' = crashes
      /\ errors < MaxErrors /\ errors' = errors + 1
  BY DEF Throw, Throws, network
<1>3. heard' = heard \/ (heard' = Head(batch) /\ Signalled(EnsureActiveSession(db)))
  BY DEF Throw, Throws, Hear
<1>4. Head(batch) \in Update
  BY <1>1, HeadFacts
<1>5. TypeInv'
  <2>1. heard' \in 0 .. MaxUpdates
    BY <1>3, <1>4, InboundAssumption DEF TypeInv, TypeOK, Update
  <2>2. errors' \in 0 .. MaxErrors
    BY <1>2, InboundAssumption DEF TypeInv, TypeOK
  <2>3. << >> \in Seq(Update)
    OBVIOUS
  <2> QED
    BY <1>1, <1>2, <2>1, <2>2, <2>3 DEF TypeInv, TypeOK
<1>6. Durable = saved /\ Durable' = saved
  BY <1>1, <1>2 DEF Durable
<1>7. SentFirst'
  BY <1>2 DEF OrderInv, SentFirst
<1>8. HeardRuns'
  <2> SUFFICES ASSUME heard' # 0 PROVE \E j \in 1 .. Len(saved.jobs) : saved.jobs[j].status = "running"
    BY <1>2 DEF HeardRuns, Running
  <2>1. PICK j \in 1 .. Len(db.jobs) : db.jobs[j].status = "running"
    <3>1. CASE heard # 0
      BY <3>1 DEF OrderInv, HeardRuns, Running
    <3>2. CASE Signalled(EnsureActiveSession(db))
      <4>1. EnsureActiveSession(db).jobs = db.jobs
        BY <1>1 DEF EnsureActiveSession, Database
      <4> QED
        BY <3>2, <4>1 DEF Signalled, Active
    <3> QED
      BY <1>3, <3>1, <3>2
  <2> QED
    BY <1>1, <2>1, RunningBefore
<1>9. BatchInv'
  BY <1>2, <1>6 DEF OrderInv, BatchInv, Orderly
<1>10. TxInv' /\ ToldInv'
  BY <1>2, <1>6 DEF OrderInv, TxInv, ToldInv
<1> QED
  BY <1>1, <1>2, <1>5, <1>7, <1>8, <1>9, <1>10 DEF OrderInv

LEMMA CommitStep == BaseInv /\ Commit => BaseInv'
<1> SUFFICES ASSUME BaseInv, Commit PROVE BaseInv'
  OBVIOUS
<1> USE DEF BaseInv
<1>1. /\ pc = "tx" /\ batch = << >> /\ db \in Database /\ saved \in Database
      /\ Within(saved, db, sent)
  BY DEF Commit, TypeInv, TypeOK, OrderInv, TxInv
<1>2. /\ sent' = sent /\ confirmed' = confirmed /\ repeats' = repeats /\ saved' = saved
      /\ db' = db /\ pc' = "idle" /\ batch' = batch /\ answers' = {}
      /\ asking' = asking /\ told' = told /\ crashes' = crashes /\ heard' = heard
      /\ errors' = errors
      /\ outbox' = outbox \union {[upd |-> u, left |-> 1] : u \in answers}
  BY DEF Commit, network, bounds
<1>3. TypeInv'
  <2>1. outbox' \subseteq [upd : Update, left : {0, 1}]
    BY <1>2 DEF TypeInv, TypeOK
  <2> QED
    BY <1>1, <1>2, <2>1 DEF TypeInv, TypeOK
<1>4. Durable = saved /\ Durable' = db
  BY <1>1, <1>2 DEF Durable
<1>5. SentFirst' /\ HeardRuns'
  BY <1>2 DEF OrderInv, SentFirst, HeardRuns, Running
<1>6. BatchInv'
  <2>1. saved.offset <= db.offset /\ confirmed <= saved.offset
    BY <1>1, <1>4 DEF Within, OrderInv, BatchInv
  <2>2. saved.offset \in Nat /\ db.offset \in Nat /\ confirmed \in Nat
    BY <1>1, InboundAssumption DEF Database, TypeInv, TypeOK
  <2>3. confirmed' <= Durable'.offset
    BY <1>2, <1>4, <2>1, <2>2
  <2> QED
    BY <1>1, <1>2, <2>3 DEF BatchInv, Orderly
<1>7. TxInv'
  BY <1>2 DEF TxInv
<1>8. ToldInv'
  <2>1. \A r \in outbox' : r.upd \in Handled(db)
    <3>1. \A r \in outbox : r.upd \in Handled(db)
      BY <1>1, <1>4 DEF OrderInv, ToldInv, Within
    <3>2. answers \subseteq Handled(db)
      BY DEF OrderInv, ToldInv
    <3> QED
      BY <1>2, <3>1, <3>2
  <2>2. told' \subseteq Handled(db)
    BY <1>1, <1>2, <1>4 DEF OrderInv, ToldInv, Within
  <2> QED
    BY <1>2, <1>4, <2>1, <2>2 DEF ToldInv
<1> QED
  BY <1>2, <1>3, <1>5, <1>6, <1>7, <1>8 DEF OrderInv

LEMMA ReplyStep ==
  ASSUME BaseInv, NEW r \in outbox, Reply(r) \/ ReplyFails(r)
  PROVE  BaseInv'
<1> USE DEF BaseInv
<1>1. /\ pc # "tx" /\ sent' = sent /\ confirmed' = confirmed /\ repeats' = repeats
      /\ saved' = saved /\ db' = db /\ pc' = pc /\ batch' = batch /\ answers' = answers
      /\ asking' = asking /\ crashes' = crashes /\ heard' = heard /\ errors' = errors
  BY DEF Reply, ReplyFails, network, bounds, poller
<1>2. r.upd \in Update /\ r.upd \in Handled(Durable) /\ r \in [upd : Update, left : {0, 1}]
  BY DEF TypeInv, TypeOK, OrderInv, ToldInv
<1>3. /\ told' \subseteq told \union {r.upd}
      /\ \A q \in outbox' : q \in outbox \/ q = [r EXCEPT !.left = 0]
  BY DEF Reply, ReplyFails
<1>4. [r EXCEPT !.left = 0] \in [upd : Update, left : {0, 1}] /\ [r EXCEPT !.left = 0].upd = r.upd
  BY <1>2
<1>5. TypeInv'
  BY <1>1, <1>2, <1>3, <1>4 DEF TypeInv, TypeOK
<1>6. Durable' = Durable
  BY <1>1 DEF Durable
<1>7. ToldInv'
  BY <1>1, <1>2, <1>3, <1>4, <1>6 DEF OrderInv, ToldInv
<1>8. SentFirst' /\ HeardRuns' /\ BatchInv' /\ TxInv'
  BY <1>1, <1>6 DEF OrderInv, SentFirst, HeardRuns, Running, BatchInv, TxInv
<1> QED
  BY <1>1, <1>5, <1>7, <1>8 DEF OrderInv

\* A step of the worker: the database is another, with the same updates handled.
LEMMA WorkerStep ==
  ASSUME BaseInv, pc # "tx", db' \in Database, Sane(db'), Handled(db') = Handled(db),
         db'.offset = db.offset, heard' = 0,
         UNCHANGED <<network, saved, poller, outbox, told, bounds>>
  PROVE  BaseInv'
<1> USE DEF BaseInv, network, poller, bounds
<1>1. TypeInv'
  BY InboundAssumption DEF TypeInv, TypeOK
<1>2. Durable = db /\ Durable' = db'
  BY DEF Durable
<1>3. SentFirst' /\ HeardRuns' /\ TxInv'
  BY DEF OrderInv, SentFirst, HeardRuns, TxInv
<1>4. batch = << >>
  BY DEF TypeInv, TypeOK
<1>5. BatchInv'
  BY <1>2, <1>4 DEF OrderInv, BatchInv, Orderly
<1>6. ToldInv'
  BY <1>2 DEF OrderInv, ToldInv
<1> QED
  BY <1>1, <1>3, <1>5, <1>6 DEF OrderInv

\* The database after the worker has claimed job j.
LEMMA ClaimFacts ==
  ASSUME BaseInv, NEW j \in 1 .. Len(db.jobs), Claim(j)
  PROVE  /\ pc # "tx" /\ heard = 0 /\ heard' = 0 /\ sent' = sent /\ saved' = saved /\ pc' = pc
         /\ db' \in Database /\ Sane(db') /\ Handled(db') = Handled(db)
         /\ db.jobs[j].status = "queued" /\ StatusChanged(db, db', j, "running", db.session)
<1> USE DEF BaseInv
<1>1. /\ pc # "tx" /\ Running = {} /\ db.jobs[j].status = "queued"
      /\ \A i \in 1 .. j - 1 : db.jobs[i].status # "queued"
      /\ heard' = heard /\ sent' = sent /\ saved' = saved /\ pc' = pc
  BY DEF Claim, network, poller
<1>2. heard = 0 /\ \A i \in 1 .. Len(db.jobs) : db.jobs[i].status # "running"
  BY <1>1 DEF OrderInv, HeardRuns, Running
<1>3. db \in Database /\ Sane(db) /\ Len(db.jobs) \in Nat
  BY JobTypes DEF TypeInv, TypeOK, OrderInv
<1>4. FirstQueued(db, j)
  BY <1>1, <1>2, <1>3 DEF FirstQueued
<1>5. db' = WithStatus(db, j, "running", db.session)
  BY <1>3 DEF Claim, WithStatus, Database
<1>6. /\ db' \in Database /\ Sane(db') /\ Handled(db') = Handled(db)
      /\ StatusChanged(db, db', j, "running", db.session)
  BY <1>3, <1>4, <1>5, StatusFacts
<1> QED
  BY <1>1, <1>2, <1>6

LEMMA ClaimStep == ASSUME BaseInv, NEW j \in 1 .. Len(db.jobs), Claim(j) PROVE BaseInv'
<1>1. UNCHANGED <<network, saved, poller, outbox, told, bounds>>
  BY DEF Claim
<1> QED
  BY <1>1, ClaimFacts, WorkerStep DEF StatusChanged

\* The database after job j has ended.
LEMMA EndFacts ==
  ASSUME BaseInv, NEW j \in 1 .. Len(db.jobs), NEW heeded \in BOOLEAN, NEW closes \in BOOLEAN,
         End(j, heeded, closes)
  PROVE  \E s \in {"over", "cancelled"}, t \in {0, db.session} :
           /\ pc # "tx" /\ heard' = 0 /\ sent' = sent /\ saved' = saved /\ pc' = pc
           /\ s = "cancelled" => heard # 0
           /\ db' \in Database /\ Sane(db') /\ Handled(db') = Handled(db)
           /\ db.jobs[j].status = "running" /\ StatusChanged(db, db', j, s, t)
<1> USE DEF BaseInv
<1>1. /\ pc # "tx" /\ db.jobs[j].status = "running" /\ (heeded => heard # 0)
      /\ heard' = 0 /\ sent' = sent /\ saved' = saved /\ pc' = pc
  BY DEF End, network, poller, Running
<1>2. db \in Database /\ Sane(db)
  BY DEF TypeInv, TypeOK, OrderInv
<1> PICK s : s = IF heeded THEN "cancelled" ELSE "over"
  OBVIOUS
<1> PICK t : t = IF closes /\ db.session = db.jobs[j].session THEN 0 ELSE db.session
  OBVIOUS
<1>3. db' = WithStatus(db, j, s, t)
  BY <1>2 DEF End, WithStatus, Database
<1>4. s \in {"over", "cancelled"} /\ (s = "cancelled" => heeded) /\ t \in {0, db.session}
  OBVIOUS
<1>5. s \in {"running", "over", "cancelled"} /\ s # "running"
  BY <1>4
<1>6. /\ db' \in Database /\ Sane(db') /\ Handled(db') = Handled(db)
      /\ StatusChanged(db, db', j, s, t)
  BY <1>2, <1>3, <1>4, <1>5, StatusFacts
<1> QED
  BY <1>1, <1>4, <1>6

LEMMA EndStep ==
  ASSUME BaseInv, NEW j \in 1 .. Len(db.jobs), NEW heeded \in BOOLEAN, NEW closes \in BOOLEAN,
         End(j, heeded, closes)
  PROVE  BaseInv'
<1>1. UNCHANGED <<network, saved, poller, outbox, told, bounds>>
  BY DEF End
<1> QED
  BY <1>1, EndFacts, WorkerStep DEF StatusChanged

LEMMA ArriveStep == ASSUME BaseInv, NEW k \in Kinds, Arrive(k) PROVE BaseInv'
<1> USE DEF BaseInv
<1>1. /\ pc # "tx" /\ sent' = Append(sent, k) /\ Len(sent) < MaxUpdates
      /\ UNCHANGED <<confirmed, repeats, db, saved, poller, outbox, told, heard, bounds>>
  BY DEF Arrive
<1>2. sent \in Seq(Kinds) /\ batch = << >>
  BY <1>1 DEF TypeInv, TypeOK
<1>3. /\ sent' \in Seq(Kinds) /\ Len(sent') = Len(sent) + 1 /\ Len(sent) \in Nat
      /\ \A u \in 1 .. Len(sent') : sent'[u] \in Kinds
  BY <1>1, <1>2
<1>4. TypeInv'
  <2>1. Len(sent') <= MaxUpdates
    BY <1>1, <1>3, InboundAssumption
  <2> QED
    BY <1>1, <1>3, <2>1 DEF TypeInv, TypeOK, poller, bounds
<1>5. Durable' = Durable
  BY <1>1 DEF Durable, poller
<1>6. SentFirst'
  BY <1>1, <1>3, InboundAssumption DEF OrderInv, SentFirst, Update
<1>7. HeardRuns' /\ TxInv'
  BY <1>1 DEF OrderInv, HeardRuns, Running, TxInv, poller
<1>8. BatchInv'
  BY <1>1, <1>2, <1>5 DEF OrderInv, BatchInv, Orderly, poller
<1>9. ToldInv'
  BY <1>1, <1>5 DEF OrderInv, ToldInv, poller
<1>10. Sane(db)' /\ Sane(saved)'
  BY <1>1 DEF OrderInv
<1> QED
  BY <1>4, <1>6, <1>7, <1>8, <1>9, <1>10 DEF OrderInv

LEMMA RestartStep == ASSUME BaseInv, NEW again \in BOOLEAN, Restart(again) PROVE BaseInv'
<1> USE DEF BaseInv
<1> PICK d : d = Durable
  OBVIOUS
<1>1. /\ db' = Restarted(d, again) /\ crashes < MaxCrashes /\ crashes' = crashes + 1
      /\ pc' = "idle" /\ batch' = << >> /\ answers' = {} /\ outbox' = {} /\ heard' = 0
      /\ UNCHANGED <<network, saved, asking, told, errors>>
  BY DEF Restart, Restarted
<1>2. d \in Database /\ Sane(d)
  BY DEF Durable, TypeInv, TypeOK, OrderInv
<1>3. db' \in Database /\ Sane(db') /\ Handled(db') = Handled(d) /\ db'.offset = d.offset
  BY <1>1, <1>2, RestartFacts
<1>4. TypeInv'
  <2>1. << >> \in Seq(Update) /\ crashes' \in 0 .. MaxCrashes
    BY <1>1, InboundAssumption DEF TypeInv, TypeOK
  <2> QED
    BY <1>1, <1>3, <2>1, InboundAssumption DEF TypeInv, TypeOK, network
<1>5. Durable' = db'
  BY <1>1 DEF Durable
<1>6. SentFirst'
  BY <1>1, <1>3 DEF OrderInv, SentFirst, Durable, network
<1>7. HeardRuns' /\ TxInv'
  BY <1>1 DEF HeardRuns, TxInv
<1>8. BatchInv'
  BY <1>1, <1>3, <1>5 DEF OrderInv, BatchInv, Orderly, network
<1>9. ToldInv'
  BY <1>1, <1>3, <1>5 DEF OrderInv, ToldInv
<1>10. Sane(saved)'
  BY <1>1 DEF OrderInv
<1> QED
  BY <1>3, <1>4, <1>6, <1>7, <1>8, <1>9, <1>10 DEF OrderInv

LEMMA BaseNext == BaseInv /\ [Next]_vars => BaseInv'
<1> SUFFICES ASSUME BaseInv, [Next]_vars PROVE BaseInv'
  OBVIOUS
<1>1. CASE Poll
  BY <1>1, PollStep
<1>2. CASE Answers
  BY <1>2, AnswerStep
<1>3. CASE NoAnswer
  BY <1>3, NoAnswerStep
<1>4. CASE Transaction
  BY <1>4, SkipStep, HandleStep, ThrowStep, CommitStep DEF Transaction
<1>5. CASE \E u \in Update, n \in 0 .. MaxBatch : Repeat(u, n)
  BY <1>5, RepeatStep
<1>6. CASE \E r \in outbox : Reply(r)
  BY <1>6, ReplyStep
<1>7. CASE \E r \in outbox : ReplyFails(r)
  BY <1>7, ReplyStep
<1>8. CASE \E j \in 1 .. Len(db.jobs) : Claim(j)
  BY <1>8, ClaimStep
<1>9. CASE \E j \in 1 .. Len(db.jobs), heeded, closes \in BOOLEAN : End(j, heeded, closes)
  BY <1>9, EndStep
<1>10. CASE \E k \in Kinds : Arrive(k)
  BY <1>10, ArriveStep
<1>11. CASE \E again \in BOOLEAN : Restart(again)
  BY <1>11, RestartStep
<1>12. CASE UNCHANGED vars
  <2>1. Durable' = Durable /\ Running' = Running
    BY <1>12 DEF vars, Durable, Running, poller
  <2>2. TypeInv'
    BY <1>12 DEF BaseInv, TypeInv, TypeOK, vars, network, poller, bounds
  <2>3. OrderInv'
    BY <1>12, <2>1 DEF BaseInv, OrderInv, SentFirst, HeardRuns, BatchInv, TxInv, ToldInv,
      vars, network, poller, bounds
  <2> QED
    BY <2>2, <2>3 DEF BaseInv
<1> QED
  BY <1>1, <1>2, <1>3, <1>4, <1>5, <1>6, <1>7, <1>8, <1>9, <1>10, <1>11, <1>12 DEF Next

-----------------------------------------------------------------------------
(* The signals: what may still be cancelled, and what users asked for *)

LEMMA Smaller ==
  ASSUME NEW T, IsFiniteSet(T), NEW S, S \subseteq T
  PROVE  Cardinality(S) <= Cardinality(T) /\ Cardinality(S) \in Nat /\ Cardinality(T) \in Nat
<1>1. IsFiniteSet(S) /\ Cardinality(S) <= Cardinality(T)
  BY FS_Subset
<1> QED
  BY <1>1, FS_CardinalityType

LEMMA InSpent ==
  ASSUME NEW d, NEW h, NEW w
  PROVE  w \in Spent(d, h) <=>
           \E j \in 1 .. Len(d.jobs) :
             /\ d.jobs[j].upd = w
             /\ d.jobs[j].status = "cancelled" \/ (h # 0 /\ d.jobs[j].status = "running")
BY DEF Spent, Cancelled

LEMMA InThreatened ==
  ASSUME NEW d, NEW h, NEW s, NEW u, NEW w
  PROVE  w \in Threatened(d, h, s, u) <=>
           w \in Spent(d, h) \/ w \in Unborn(d, s, u) \/ \E j \in Active(d) : d.jobs[j].upd = w
BY DEF Threatened

LEMMA SetsFinite ==
  ASSUME NEW d \in Database, NEW h, NEW s, Len(s) \in Nat, Len(s) <= MaxUpdates, NEW u
  PROVE  /\ IsFiniteSet(Threatened(d, h, s, u)) /\ IsFiniteSet(Budget(d, s, u))
         /\ IsFiniteSet(Spent(d, h))
<1>1. IsFiniteSet(Update)
  BY FS_Interval, InboundAssumption DEF Update
<1>2. \A j \in 1 .. Len(d.jobs) : d.jobs[j].upd \in Update
  BY JobTypes
<1>3. \A w \in 1 .. Len(s) : w \in Update
  BY InboundAssumption DEF Update
<1>4. Spent(d, h) \subseteq Update
  BY <1>2, InSpent
<1>5. Threatened(d, h, s, u) \subseteq Update
  BY <1>2, <1>3, <1>4, InThreatened DEF Active, Unborn
<1>6. Budget(d, s, u) \subseteq Update
  BY <1>3 DEF Budget
<1> QED
  BY <1>1, <1>4, <1>5, <1>6, FS_Subset

LEMMA PhantomKept ==
  ASSUME NEW d \in Database, NEW e \in Database, NEW h, NEW k, NEW s, NEW t, NEW u,
         Len(s) \in Nat, Len(s) <= MaxUpdates, Len(t) \in Nat, Len(t) <= MaxUpdates,
         Phantom(d, h, s, u), u <= Len(t), t[u] = "cancel", u \notin Handled(e),
         Threatened(e, k, t, u) \subseteq Threatened(d, h, s, u),
         Budget(d, s, u) \subseteq Budget(e, t, u)
  PROVE  Phantom(e, k, t, u)
<1>1. /\ Cardinality(Threatened(e, k, t, u)) <= Cardinality(Threatened(d, h, s, u))
      /\ Cardinality(Threatened(e, k, t, u)) \in Nat /\ Cardinality(Threatened(d, h, s, u)) \in Nat
  BY SetsFinite, Smaller
<1>2. /\ Cardinality(Budget(d, s, u)) <= Cardinality(Budget(e, t, u))
      /\ Cardinality(Budget(d, s, u)) \in Nat /\ Cardinality(Budget(e, t, u)) \in Nat
  BY SetsFinite, Smaller
<1> QED
  BY <1>1, <1>2 DEF Phantom

LEMMA CalmKept ==
  ASSUME NEW d \in Database, NEW e \in Database, NEW h, NEW k, NEW s, NEW t,
         Len(s) \in Nat, Len(s) <= MaxUpdates, Len(t) \in Nat, Len(t) <= MaxUpdates,
         Calm(d, h, s), Spent(e, k) \subseteq Spent(d, h),
         Budget(d, s, 0) \subseteq Budget(e, t, 0)
  PROVE  Calm(e, k, t)
<1>1. /\ Cardinality(Spent(e, k)) <= Cardinality(Spent(d, h))
      /\ Cardinality(Spent(e, k)) \in Nat /\ Cardinality(Spent(d, h)) \in Nat
  BY SetsFinite, Smaller
<1>2. /\ Cardinality(Budget(d, s, 0)) <= Cardinality(Budget(e, t, 0))
      /\ Cardinality(Budget(d, s, 0)) \in Nat /\ Cardinality(Budget(e, t, 0)) \in Nat
  BY SetsFinite, Smaller
<1> QED
  BY <1>1, <1>2 DEF Calm

\* No update is handled, no more jobs are spent, and what is active was.
LEMMA AccountKept ==
  ASSUME NEW d \in Database, NEW e \in Database, NEW h, NEW k, NEW s,
         Len(s) \in Nat, Len(s) <= MaxUpdates, Account(d, h, s),
         Handled(e) = Handled(d), Spent(e, k) \subseteq Spent(d, h),
         \A j \in Active(e) : \E i \in Active(d) : e.jobs[j].upd = d.jobs[i].upd
  PROVE  Account(e, k, s)
<1>1. \A u : Budget(d, s, u) = Budget(e, s, u) /\ Unborn(d, s, u) = Unborn(e, s, u)
  BY DEF Budget, Unborn
<1>2. CASE Calm(d, h, s)
  <2>1. Calm(e, k, s)
    BY <1>1, <1>2, CalmKept
  <2> QED
    BY <2>1 DEF Account
<1>3. ASSUME NEW u \in Update, Phantom(d, h, s, u) PROVE Account(e, k, s)
  <2>1. Threatened(e, k, s, u) \subseteq Threatened(d, h, s, u)
    <3> SUFFICES ASSUME NEW w, w \in Threatened(e, k, s, u) PROVE w \in Threatened(d, h, s, u)
      OBVIOUS
    <3>1. w \in Spent(e, k) \/ w \in Unborn(e, s, u) \/ \E j \in Active(e) : e.jobs[j].upd = w
      BY InThreatened
    <3>2. w \in Spent(d, h) \/ w \in Unborn(d, s, u) \/ \E j \in Active(d) : d.jobs[j].upd = w
      BY <1>1, <3>1
    <3> QED
      BY <3>2, InThreatened
  <2>2. u <= Len(s) /\ s[u] = "cancel" /\ u \notin Handled(e)
    BY <1>3 DEF Phantom
  <2>3. Phantom(e, k, s, u)
    BY <1>1, <1>3, <2>1, <2>2, PhantomKept
  <2> QED
    BY <2>3 DEF Account
<1> QED
  BY <1>2, <1>3 DEF Account

LEMMA SentFacts ==
  ASSUME TypeInv
  PROVE  /\ Len(sent) \in Nat /\ Len(sent) <= MaxUpdates
         /\ db \in Database /\ saved \in Database
BY DEF TypeInv, TypeOK

LEMMA ArriveAccount ==
  ASSUME TypeInv, NEW k \in Kinds, Len(sent) < MaxUpdates, NEW t, t = Append(sent, k),
         NEW d \in Database, Account(d, heard, sent)
  PROVE  Account(d, heard, t)
<1>1. /\ Len(sent) \in Nat /\ Len(sent) <= MaxUpdates /\ Len(t) = Len(sent) + 1
      /\ Len(t) \in Nat /\ Len(t) <= MaxUpdates
      /\ \A w \in 1 .. Len(sent) : w \in 1 .. Len(t) /\ t[w] = sent[w]
  BY SentFacts, InboundAssumption DEF TypeInv
<1>2. \A u : Budget(d, sent, u) \subseteq Budget(d, t, u)
  BY <1>1 DEF Budget
<1>3. CASE Calm(d, heard, sent)
  <2>1. Calm(d, heard, t)
    BY <1>1, <1>2, <1>3, CalmKept
  <2> QED
    BY <2>1 DEF Account
<1>4. ASSUME NEW u \in Update, Phantom(d, heard, sent, u) PROVE Account(d, heard, t)
  <2>1. u <= Len(sent) /\ sent[u] = "cancel" /\ u \notin Handled(d)
    BY <1>4 DEF Phantom
  <2>2. u \in 1 .. Len(sent) /\ u <= Len(t) /\ t[u] = "cancel"
    BY <1>1, <2>1, InboundAssumption DEF Update
  <2>3. Unborn(d, t, u) \subseteq Unborn(d, sent, u)
    <3> SUFFICES ASSUME NEW w \in 1 .. Len(t), w < u, w \notin Handled(d), t[w] \in {"text", "photo"}
                 PROVE  w \in 1 .. Len(sent) /\ sent[w] \in {"text", "photo"}
      BY DEF Unborn
    <3>1. w \in 1 .. Len(sent)
      BY <1>1, <2>2
    <3> QED
      BY <1>1, <3>1
  <2>4. Threatened(d, heard, t, u) \subseteq Threatened(d, heard, sent, u)
    BY <2>3 DEF Threatened
  <2>5. Phantom(d, heard, t, u)
    BY <1>1, <1>2, <1>4, <2>1, <2>2, <2>4, PhantomKept
  <2> QED
    BY <2>5 DEF Account
<1> QED
  BY <1>3, <1>4 DEF Account

\* The update u at the head of the batch, not yet handled, is about to be.
AtHead(u) ==
  /\ BaseInv /\ pc = "tx" /\ u \in Update /\ u <= Len(sent) /\ u \notin Handled(db)
  /\ \A v \in Update : v < u => v \in Handled(db)

\* Its handling leaves h as the signal (Hear).
HeardBy(u, h) ==
  h = heard \/ (h = u /\ heard = 0 /\ sent[u] = "cancel" /\ Signalled(EnsureActiveSession(db)))

LEMMA AtHeadFacts ==
  ASSUME NEW u, AtHead(u), NEW e, e = After(u, Step(u))
  PROVE  /\ e \in Database /\ db \in Database /\ saved \in Database
         /\ Len(sent) \in Nat /\ Len(sent) <= MaxUpdates /\ u \in 1 .. Len(sent)
         /\ Handled(e) = Handled(db) \union {u}
         /\ \A w \in Handled(db) : w \in Update /\ w < u
         /\ Len(e.jobs) \in Nat /\ Len(db.jobs) \in Nat /\ Len(db.jobs) <= Len(e.jobs)
         /\ db.session # 0 => e.session = db.session
         /\ \A j \in 1 .. Len(db.jobs) : Kept(j, db, e, u)
         /\ \A j \in Len(db.jobs) + 1 .. Len(e.jobs) : New(j, e, u)
<1>1. TypeInv /\ Sane(db) /\ u \in Update /\ u <= Len(sent) /\ u \notin Handled(db)
  BY DEF AtHead, BaseInv, OrderInv
<1>2. /\ Len(sent) \in Nat /\ Len(sent) <= MaxUpdates /\ db \in Database /\ saved \in Database
  BY <1>1, SentFacts
<1>3. u \in 1 .. Len(sent)
  BY <1>1, <1>2, InboundAssumption DEF Update
<1>4. e \in Database /\ Handled(e) = Handled(db) \union {u}
  BY <1>1, AfterFacts
<1>5. \A w \in Handled(db) : w \in Update /\ w < u
  <2>1. \A v, w \in Update : v < w /\ w \in Handled(db) => v \in Handled(db)
    BY <1>1 DEF Sane, SaneUpdates
  <2> SUFFICES ASSUME NEW w \in Handled(db) PROVE w \in Update /\ w < u
    OBVIOUS
  <2>2. w \in Update
    BY DEF Handled
  <2>3. w # u /\ ~(u < w)
    BY <1>1, <2>1, <2>2
  <2> QED
    BY <1>1, <2>2, <2>3, InboundAssumption DEF Update
<1>6. /\ Len(e.jobs) \in Nat /\ Len(db.jobs) <= Len(e.jobs)
      /\ db.session # 0 => e.session = db.session
      /\ \A j \in 1 .. Len(db.jobs) : Kept(j, db, e, u)
      /\ \A j \in Len(db.jobs) + 1 .. Len(e.jobs) : New(j, e, u)
  BY <1>1, AfterShape
<1>7. Len(db.jobs) \in Nat
  BY <1>2, JobTypes
<1> QED
  BY <1>2, <1>3, <1>4, <1>5, <1>6, <1>7

\* The job that is signalled is the newest of the session, and the only one that runs.
LEMMA SignalledFacts ==
  ASSUME NEW u, AtHead(u), Signalled(EnsureActiveSession(db))
  PROVE  \E k \in Active(db) :
           /\ Newest(k, db) /\ db.jobs[k].status = "running"
           /\ \A j \in 1 .. Len(db.jobs) : db.jobs[j].status = "running" => j = k
<1> PICK n : n = EnsureActiveSession(db)
  OBVIOUS
<1>1. db \in Database /\ Sane(db) /\ u \in Update /\ u \notin Handled(db)
  BY SentFacts DEF AtHead, BaseInv, OrderInv
<1>2. db.sessions < MaxUpdates
  <2>1. Cardinality(Handled(db)) < MaxUpdates /\ Cardinality(Handled(db)) \in Nat
    BY <1>1, HandledFinite
  <2> QED
    BY <1>1, <2>1, InboundAssumption DEF Sane, SaneUpdates, Database
<1>3. Active(n) = Active(db) /\ n.jobs = db.jobs /\ \A j : Newest(j, n) <=> Newest(j, db)
  BY <1>1, <1>2, ActiveSame
<1>4. PICK k \in Active(n) : Newest(k, n) /\ n.jobs[k].status = "running"
  BY DEF Signalled
<1>5. k \in Active(db) /\ Newest(k, db) /\ db.jobs[k].status = "running"
  BY <1>3, <1>4
<1>6. \A j \in 1 .. Len(db.jobs) : db.jobs[j].status = "running" => j = k
  BY <1>1, <1>5 DEF Sane, SaneJobs, Active
<1> QED
  BY <1>5, <1>6

\* Handling an update spends at most one job that was active, and only a /cancel does.
LEMMA AfterSpent ==
  ASSUME NEW u, AtHead(u), NEW e, e = After(u, Step(u)), NEW h, HeardBy(u, h)
  PROVE  \E k : \A w \in Spent(e, h) :
           \/ w \in Spent(db, heard)
           \/ sent[u] = "cancel" /\ k \in Active(db) /\ w = db.jobs[k].upd
<1>1. /\ Len(e.jobs) \in Nat /\ Len(db.jobs) \in Nat /\ Len(db.jobs) <= Len(e.jobs)
      /\ \A j \in 1 .. Len(db.jobs) : Kept(j, db, e, u)
      /\ \A j \in Len(db.jobs) + 1 .. Len(e.jobs) : New(j, e, u)
  BY AtHeadFacts
<1> PICK k : k = IF \E i : Newest(i, db) THEN CHOOSE i : Newest(i, db) ELSE 0
  OBVIOUS
<1>2. \A i : Newest(i, db) => i = k /\ k \in Active(db)
  <2>1. ASSUME NEW i, Newest(i, db), NEW j, Newest(j, db) PROVE i = j
    <3>1. i \in Active(db) /\ j \in Active(db) /\ i <= j /\ j <= i
      BY <2>1 DEF Newest
    <3> QED
      BY <1>1, <3>1 DEF Active
  <2>2. ASSUME NEW i, Newest(i, db) PROVE i = k /\ k \in Active(db)
    <3>1. Newest(k, db)
      BY <2>2
    <3> QED
      BY <2>1, <2>2, <3>1 DEF Newest
  <2> QED
    BY <2>2
<1> SUFFICES ASSUME NEW w \in Spent(e, h), w \notin Spent(db, heard)
             PROVE  sent[u] = "cancel" /\ k \in Active(db) /\ w = db.jobs[k].upd
  OBVIOUS
<1>3. PICK j \in 1 .. Len(e.jobs) :
        /\ e.jobs[j].upd = w
        /\ e.jobs[j].status = "cancelled" \/ (h # 0 /\ e.jobs[j].status = "running")
  BY InSpent
<1>4. j \in 1 .. Len(db.jobs) /\ Kept(j, db, e, u)
  <2>1. CASE j \in Len(db.jobs) + 1 .. Len(e.jobs)
    BY <1>1, <1>3, <2>1 DEF New
  <2>2. CASE j \in 1 .. Len(db.jobs)
    BY <1>1, <2>2
  <2> QED
    BY <1>1, <2>1, <2>2
<1>5. db.jobs[j].upd = w
  BY <1>3, <1>4 DEF Kept
<1>6. ~(db.jobs[j].status = "cancelled" \/ (heard # 0 /\ db.jobs[j].status = "running"))
  BY <1>4, <1>5, InSpent
<1>7. CASE e.jobs[j].status = db.jobs[j].status
  <2>1. h # 0 /\ heard = 0 /\ db.jobs[j].status = "running"
    BY <1>3, <1>6, <1>7
  <2>2. sent[u] = "cancel" /\ Signalled(EnsureActiveSession(db))
    BY <2>1 DEF HeardBy
  <2>3. PICK i \in Active(db) :
          /\ Newest(i, db) /\ db.jobs[i].status = "running"
          /\ \A l \in 1 .. Len(db.jobs) : db.jobs[l].status = "running" => l = i
    BY <2>2, SignalledFacts
  <2>4. j = i
    BY <1>4, <2>1, <2>3
  <2> QED
    BY <1>2, <1>5, <2>2, <2>3, <2>4
<1>8. CASE e.jobs[j].status # db.jobs[j].status
  <2>1. sent[u] = "cancel" /\ Newest(j, db)
    BY <1>4, <1>8 DEF Kept
  <2> QED
    BY <1>2, <1>5, <2>1
<1> QED
  BY <1>7, <1>8

\* It makes no job active but its own.
LEMMA AfterActive ==
  ASSUME NEW u, AtHead(u), NEW e, e = After(u, Step(u)), NEW j \in Active(e)
  PROVE  \/ \E i \in Active(db) : db.jobs[i].upd = e.jobs[j].upd
         \/ e.jobs[j].upd = u /\ sent[u] \in {"text", "photo"}
<1>1. /\ Len(e.jobs) \in Nat /\ Len(db.jobs) \in Nat /\ Len(db.jobs) <= Len(e.jobs)
      /\ e \in Database /\ db \in Database
      /\ db.session # 0 => e.session = db.session
      /\ \A i \in 1 .. Len(db.jobs) : Kept(i, db, e, u)
      /\ \A i \in Len(db.jobs) + 1 .. Len(e.jobs) : New(i, e, u)
  BY AtHeadFacts
<1>2. /\ j \in 1 .. Len(e.jobs) /\ e.jobs[j].kind = "run" /\ e.jobs[j].session = e.session
      /\ e.jobs[j].status \in {"queued", "running"}
  BY DEF Active
<1>3. CASE j \in Len(db.jobs) + 1 .. Len(e.jobs)
  BY <1>1, <1>2, <1>3 DEF New
<1>4. CASE j \in 1 .. Len(db.jobs)
  <2>1. Kept(j, db, e, u) /\ db.jobs[j].session \in 1 .. MaxUpdates
    BY <1>1, <1>4, JobTypes
  <2>2. db.jobs[j].session <= db.sessions
    BY <1>4 DEF AtHead, BaseInv, OrderInv, Sane, SaneJobs
  <2>3. e.session = db.session
    <3>1. TypeInv /\ Sane(db) /\ u \in Update /\ u <= Len(sent) /\ u \notin Handled(db)
      BY DEF AtHead, BaseInv, OrderInv
    <3>2. \/ e.session = db.session /\ e.sessions = db.sessions
          \/ /\ db.session = 0
             /\ e.session = db.sessions + 1 /\ e.sessions = db.sessions + 1
      BY <3>1, AfterFacts
    <3>3. e.session = db.jobs[j].session
      BY <1>2, <2>1 DEF Kept
    <3>4. db.sessions \in Nat
      BY <1>1, JobTypes
    <3> QED
      BY <2>1, <2>2, <3>2, <3>3, <3>4, InboundAssumption
  <2>4. /\ db.jobs[j].kind = "run" /\ db.jobs[j].session = db.session
        /\ db.jobs[j].status \in {"queued", "running"}
    BY <1>2, <2>1, <2>3 DEF Kept
  <2>5. j \in Active(db) /\ db.jobs[j].upd = e.jobs[j].upd
    BY <1>4, <2>1, <2>4 DEF Active, Kept
  <2> QED
    BY <2>5
<1> QED
  BY <1>1, <1>2, <1>3, <1>4

LEMMA AccountAfter ==
  ASSUME NEW u, AtHead(u), NEW e, e = After(u, Step(u)), NEW h, HeardBy(u, h),
         Account(db, heard, sent)
  PROVE  Account(e, h, sent)
<1>1. /\ e \in Database /\ db \in Database /\ Len(sent) \in Nat /\ Len(sent) <= MaxUpdates
      /\ u \in 1 .. Len(sent) /\ Handled(e) = Handled(db) \union {u}
      /\ \A w \in Handled(db) : w \in Update /\ w < u
  BY AtHeadFacts
<1>2. u \notin Handled(db) /\ u \in Update /\ \A v \in Update : v < u => v \in Handled(db)
  BY DEF AtHead
<1>3. PICK k : \A w \in Spent(e, h) :
                 \/ w \in Spent(db, heard)
                 \/ sent[u] = "cancel" /\ k \in Active(db) /\ w = db.jobs[k].upd
  BY AfterSpent
<1>4. \A v : Budget(db, sent, v) \subseteq Budget(e, sent, v)
  BY <1>1 DEF Budget
<1>5. ASSUME Calm(db, heard, sent) PROVE Calm(e, h, sent)
  <2>1. CASE Spent(e, h) \subseteq Spent(db, heard)
    BY <1>1, <1>4, <1>5, <2>1, CalmKept
  <2>2. CASE sent[u] = "cancel" /\ k \in Active(db)
    <3> DEFINE S == Spent(db, heard)  B == Budget(db, sent, 0)
    <3>1. IsFiniteSet(S) /\ IsFiniteSet(B) /\ Cardinality(S) \in Nat /\ Cardinality(B) \in Nat
          /\ IsFiniteSet(Budget(e, sent, 0))
      BY <1>1, SetsFinite, FS_CardinalityType
    <3>2. Spent(e, h) \subseteq S \union {db.jobs[k].upd}
      BY <1>3
    <3>3. Cardinality(S \union {db.jobs[k].upd}) <= Cardinality(S) + 1
          /\ IsFiniteSet(S \union {db.jobs[k].upd})
      <4>1. CASE db.jobs[k].upd \in S
        <5>1. S \union {db.jobs[k].upd} = S
          BY <4>1
        <5> QED
          BY <3>1, <5>1
      <4>2. CASE db.jobs[k].upd \notin S
        <5>1. IsFiniteSet(S)
          BY <3>1
        <5>2. /\ IsFiniteSet(S \union {db.jobs[k].upd})
              /\ Cardinality(S \union {db.jobs[k].upd}) = Cardinality(S) + 1
          BY <4>2, <5>1, OneMore
        <5> QED
          BY <3>1, <5>2
      <4> QED
        BY <4>1, <4>2
    <3>4. Cardinality(Spent(e, h)) <= Cardinality(S) + 1 /\ Cardinality(Spent(e, h)) \in Nat
      <4>1. /\ Cardinality(Spent(e, h)) <= Cardinality(S \union {db.jobs[k].upd})
            /\ Cardinality(Spent(e, h)) \in Nat
            /\ Cardinality(S \union {db.jobs[k].upd}) \in Nat
        BY <3>2, <3>3, Smaller
      <4> QED
        BY <3>1, <3>3, <4>1
    <3>5. u \notin B /\ B \union {u} \subseteq Budget(e, sent, 0)
      BY <1>1, <1>2, <1>4, <2>2, InboundAssumption DEF Budget, Update
    <3>6. Cardinality(B) + 1 <= Cardinality(Budget(e, sent, 0))
          /\ Cardinality(Budget(e, sent, 0)) \in Nat
      <4>1. Cardinality(B \union {u}) = Cardinality(B) + 1
        BY <3>1, <3>5, OneMore
      <4>2. Cardinality(B \union {u}) <= Cardinality(Budget(e, sent, 0))
            /\ Cardinality(Budget(e, sent, 0)) \in Nat
        BY <3>1, <3>5, Smaller
      <4> QED
        BY <4>1, <4>2
    <3>7. Cardinality(S) <= Cardinality(B)
      BY <1>5 DEF Calm
    <3> HIDE DEF S, B
    <3> QED
      BY <3>1, <3>4, <3>6, <3>7 DEF Calm
  <2> QED
    BY <1>3, <2>1, <2>2
<1>6. ASSUME NEW v \in Update, Phantom(db, heard, sent, v), v # u
      PROVE  Phantom(e, h, sent, v)
  <2>1. v <= Len(sent) /\ sent[v] = "cancel" /\ v \notin Handled(db)
    BY <1>6 DEF Phantom
  <2>2. u < v
    BY <1>2, <1>6, <2>1, InboundAssumption DEF Update
  <2>3. \A w : w \in Unborn(e, sent, v) => w \in Unborn(db, sent, v)
    BY <1>1 DEF Unborn
  <2>4. sent[u] \in {"text", "photo"} => u \in Unborn(db, sent, v)
    BY <1>1, <1>2, <2>2 DEF Unborn
  <2>5. Threatened(e, h, sent, v) \subseteq Threatened(db, heard, sent, v)
    <3> SUFFICES ASSUME NEW w, w \in Threatened(e, h, sent, v)
                 PROVE  w \in Threatened(db, heard, sent, v)
      OBVIOUS
    <3>1. w \in Spent(e, h) \/ w \in Unborn(e, sent, v) \/ \E j \in Active(e) : e.jobs[j].upd = w
      BY InThreatened
    <3>2. CASE w \in Spent(e, h)
      BY <1>3, <3>2, InThreatened
    <3>3. CASE w \in Unborn(e, sent, v)
      BY <2>3, <3>3, InThreatened
    <3>4. CASE \E j \in Active(e) : e.jobs[j].upd = w
      <4>1. \/ \E i \in Active(db) : db.jobs[i].upd = w
            \/ w = u /\ sent[u] \in {"text", "photo"}
        BY <3>4, AfterActive
      <4> QED
        BY <2>4, <4>1, InThreatened
    <3> QED
      BY <3>1, <3>2, <3>3, <3>4
  <2>6. v \notin Handled(e)
    BY <1>1, <1>6, <2>1
  <2> QED
    BY <1>1, <1>4, <1>6, <2>1, <2>5, <2>6, PhantomKept
<1>7. ASSUME Phantom(db, heard, sent, u) PROVE Calm(e, h, sent)
  <2>1. Spent(e, h) \subseteq Threatened(db, heard, sent, u)
    BY <1>3, InThreatened
  <2>2. Budget(db, sent, u) \subseteq Budget(e, sent, 0)
    <3> SUFFICES ASSUME NEW w \in 1 .. Len(sent), w <= u PROVE w \in Handled(e)
      BY <1>1 DEF Budget
    <3>1. w \in Update
      BY <1>1, InboundAssumption DEF Update
    <3> QED
      BY <1>1, <1>2, <3>1, InboundAssumption DEF Update
  <2>3. /\ Cardinality(Spent(e, h)) <= Cardinality(Threatened(db, heard, sent, u))
        /\ Cardinality(Spent(e, h)) \in Nat /\ Cardinality(Threatened(db, heard, sent, u)) \in Nat
    BY <1>1, <2>1, SetsFinite, Smaller
  <2>4. /\ Cardinality(Budget(db, sent, u)) <= Cardinality(Budget(e, sent, 0))
        /\ Cardinality(Budget(db, sent, u)) \in Nat /\ Cardinality(Budget(e, sent, 0)) \in Nat
    BY <1>1, <2>2, SetsFinite, Smaller
  <2> QED
    BY <1>7, <2>3, <2>4 DEF Phantom, Calm
<1> QED
  BY <1>5, <1>6, <1>7 DEF Account

\* A job that was active at BEGIN and does not run, or whose update has been
\* handled since, is cancelled by now when /cancel comes to signal a job.
LEMMA SavedActive ==
  ASSUME NEW u, AtHead(u), Signalled(EnsureActiveSession(db)), NEW j \in Active(saved)
  PROVE  \E i \in 1 .. Len(db.jobs) :
           /\ db.jobs[i].upd = saved.jobs[j].upd
           /\ db.jobs[i].status \in {"cancelled", "running"}
<1>1. /\ db \in Database /\ saved \in Database /\ Within(saved, db, sent) /\ SaneJobs(db)
  BY SentFacts DEF AtHead, BaseInv, OrderInv, TxInv, Sane
<1>2. PICK k \in Active(db) : Newest(k, db) /\ db.jobs[k].status = "running"
  BY SignalledFacts
<1>3. /\ j \in 1 .. Len(saved.jobs) /\ saved.jobs[j].kind = "run"
      /\ saved.jobs[j].session = saved.session
      /\ saved.jobs[j].status \in {"queued", "running"}
      /\ saved.jobs[j].session \in 1 .. MaxUpdates
  BY <1>1, JobTypes DEF Active
<1>4. /\ j \in 1 .. Len(db.jobs) /\ Len(db.jobs) \in Nat
      /\ db.jobs[j].upd = saved.jobs[j].upd /\ db.jobs[j].kind = saved.jobs[j].kind
      /\ db.jobs[j].session = saved.jobs[j].session
      /\ \/ db.jobs[j].status = saved.jobs[j].status
         \/ saved.jobs[j].status = "queued" /\ db.jobs[j].status = "cancelled"
  <2>1. Len(db.jobs) \in Nat /\ Len(saved.jobs) \in Nat /\ Len(saved.jobs) <= Len(db.jobs)
    BY <1>1, JobTypes DEF Within
  <2> QED
    BY <1>1, <1>3, <2>1 DEF Within
<1>5. db.session = saved.session
  BY <1>1, <1>3, InboundAssumption DEF Within
<1>6. db.jobs[j].status # "queued"
  <2> SUFFICES ASSUME db.jobs[j].status = "queued" PROVE FALSE
    OBVIOUS
  <2>1. j \in Active(db)
    BY <1>3, <1>4, <1>5 DEF Active
  <2>2. j <= k /\ k \in 1 .. Len(db.jobs)
    BY <1>2, <2>1 DEF Newest, Active
  <2>3. j < k
    BY <1>2, <1>4, <2>2
  <2> QED
    BY <1>1, <1>2, <1>4, <2>2, <2>3 DEF SaneJobs
<1> QED
  BY <1>3, <1>4, <1>6

\* So is the job of a text or photo handled since.
LEMMA SavedUnborn ==
  ASSUME NEW u, AtHead(u), Signalled(EnsureActiveSession(db)),
         NEW w \in Handled(db), w \notin Handled(saved), w <= Len(sent),
         sent[w] \in {"text", "photo"}
  PROVE  w \in Cancelled(db)
<1>1. /\ db \in Database /\ saved \in Database /\ Within(saved, db, sent) /\ SaneJobs(db)
      /\ Len(db.jobs) \in Nat /\ Len(saved.jobs) \in Nat /\ Len(saved.jobs) <= Len(db.jobs)
  BY SentFacts, JobTypes DEF AtHead, BaseInv, OrderInv, TxInv, Sane, Within
<1>2. PICK k \in Active(db) : Newest(k, db) /\ db.jobs[k].status = "running"
  BY SignalledFacts
<1>3. k \in 1 .. Len(saved.jobs)
  <2>1. k \in 1 .. Len(db.jobs)
    BY <1>2 DEF Active
  <2> QED
    BY <1>1, <1>2, <2>1, RunningBefore
<1>4. PICK i \in Len(saved.jobs) + 1 .. Len(db.jobs) :
        db.jobs[i].upd = w /\ db.jobs[i].kind = "run"
  BY <1>1 DEF Within
<1>5. db.jobs[i].session = db.session /\ db.jobs[i].status \in {"queued", "cancelled"}
  BY <1>1, <1>4 DEF Within
<1>6. i \in 1 .. Len(db.jobs) /\ k < i
  BY <1>1, <1>3
<1>7. i \notin Active(db)
  BY <1>1, <1>2, <1>3, <1>6 DEF Newest
<1>8. db.jobs[i].status = "cancelled"
  BY <1>4, <1>5, <1>6, <1>7 DEF Active
<1> QED
  BY <1>4, <1>6, <1>8 DEF Cancelled

\* The database the transaction would be rolled back to stands the signal too:
\* the /cancel, or the phantom the open transaction's database has, is a phantom.
LEMMA SavedAccount ==
  ASSUME NEW u, AtHead(u), NEW e, e = After(u, Step(u)), heard = 0, sent[u] = "cancel",
         Signalled(EnsureActiveSession(db)), Account(e, u, sent)
  PROVE  Account(saved, u, sent)
<1>1. /\ e \in Database /\ db \in Database /\ saved \in Database
      /\ Len(sent) \in Nat /\ Len(sent) <= MaxUpdates
      /\ u \in 1 .. Len(sent) /\ Handled(e) = Handled(db) \union {u}
      /\ \A w \in Handled(db) : w \in Update /\ w < u
      /\ Len(e.jobs) \in Nat /\ Len(db.jobs) \in Nat /\ Len(db.jobs) <= Len(e.jobs)
      /\ \A j \in 1 .. Len(db.jobs) : Kept(j, db, e, u)
  BY AtHeadFacts
<1>2. /\ u \notin Handled(db) /\ u \in Update /\ \A v \in Update : v < u => v \in Handled(db)
      /\ Within(saved, db, sent) /\ Handled(saved) \subseteq Handled(db) /\ u # 0
  BY InboundAssumption DEF AtHead, BaseInv, OrderInv, TxInv, Within, Update
<1>3. \A i \in 1 .. Len(db.jobs) :
        db.jobs[i].status \in {"cancelled", "running"} => db.jobs[i].upd \in Spent(e, u)
  <2> SUFFICES ASSUME NEW i \in 1 .. Len(db.jobs), db.jobs[i].status \in {"cancelled", "running"}
               PROVE  db.jobs[i].upd \in Spent(e, u)
    OBVIOUS
  <2>1. i \in 1 .. Len(e.jobs) /\ Kept(i, db, e, u)
    BY <1>1
  <2>2. e.jobs[i].upd = db.jobs[i].upd /\ e.jobs[i].status = db.jobs[i].status
    BY <2>1 DEF Kept
  <2> QED
    BY <1>2, <2>1, <2>2, InSpent
<1>4. Spent(saved, u) \subseteq Spent(e, u)
  <2> SUFFICES ASSUME NEW w \in Spent(saved, u) PROVE w \in Spent(e, u)
    OBVIOUS
  <2>1. PICK j \in 1 .. Len(saved.jobs) :
          saved.jobs[j].upd = w /\ saved.jobs[j].status \in {"cancelled", "running"}
    BY InSpent
  <2>2. j \in 1 .. Len(db.jobs)
    <3>1. Len(saved.jobs) \in Nat /\ Len(saved.jobs) <= Len(db.jobs)
      BY <1>1, <1>2, JobTypes DEF Within
    <3> QED
      BY <1>1, <3>1
  <2>3. db.jobs[j].upd = w /\ db.jobs[j].status = saved.jobs[j].status
    BY <1>2, <2>1 DEF Within
  <2> QED
    BY <1>3, <2>1, <2>2, <2>3
<1>5. ASSUME NEW v, NEW w \in Threatened(saved, u, sent, v)
      PROVE  w \in Spent(e, u) \/ (w \in Unborn(e, sent, v) /\ w \notin Handled(db))
  <2>1. CASE w \in Spent(saved, u)
    BY <1>4, <2>1
  <2>2. CASE \E j \in Active(saved) : saved.jobs[j].upd = w
    <3>1. PICK j \in Active(saved) : saved.jobs[j].upd = w
      BY <2>2
    <3>2. PICK i \in 1 .. Len(db.jobs) :
            db.jobs[i].upd = w /\ db.jobs[i].status \in {"cancelled", "running"}
      BY <3>1, SavedActive
    <3> QED
      BY <1>3, <3>2
  <2>3. CASE w \in Unborn(saved, sent, v)
    <3>1. w \in 1 .. Len(sent) /\ w < v /\ w \notin Handled(saved) /\ sent[w] \in {"text", "photo"}
      BY <2>3 DEF Unborn
    <3>2. CASE w \in Handled(db)
      <4>1. w \in Cancelled(db)
        BY <1>1, <3>1, <3>2, SavedUnborn
      <4>2. PICK i \in 1 .. Len(db.jobs) : db.jobs[i].upd = w /\ db.jobs[i].status = "cancelled"
        BY <4>1 DEF Cancelled
      <4> QED
        BY <1>3, <4>2
    <3>3. CASE w \notin Handled(db)
      <4>1. w # u
        BY <3>1
      <4> QED
        BY <1>1, <3>1, <3>3, <4>1 DEF Unborn
    <3> QED
      BY <3>2, <3>3
  <2> QED
    BY <2>1, <2>2, <2>3, InThreatened
<1>6. ASSUME Calm(e, u, sent) PROVE Phantom(saved, u, sent, u)
  <2>1. Threatened(saved, u, sent, u) \subseteq Spent(e, u)
    <3> SUFFICES ASSUME NEW w \in Threatened(saved, u, sent, u), w \notin Handled(db),
                        w \in Unborn(e, sent, u)
                 PROVE  FALSE
      BY <1>5
    <3>1. w \in 1 .. Len(sent) /\ w < u
      BY DEF Unborn
    <3>2. w \in Update
      BY <1>1, <3>1, InboundAssumption DEF Update
    <3> QED
      BY <1>2, <3>1, <3>2
  <2>2. Budget(e, sent, 0) \subseteq Budget(saved, sent, u)
    <3> SUFFICES ASSUME NEW w \in 1 .. Len(sent), w <= 0 \/ w \in Handled(e) PROVE w <= u
      BY DEF Budget
    <3> QED
      BY <1>1
  <2>3. /\ Cardinality(Threatened(saved, u, sent, u)) <= Cardinality(Spent(e, u))
        /\ Cardinality(Threatened(saved, u, sent, u)) \in Nat /\ Cardinality(Spent(e, u)) \in Nat
    BY <1>1, <2>1, SetsFinite, Smaller
  <2>4. /\ Cardinality(Budget(e, sent, 0)) <= Cardinality(Budget(saved, sent, u))
        /\ Cardinality(Budget(e, sent, 0)) \in Nat /\ Cardinality(Budget(saved, sent, u)) \in Nat
    BY <1>1, <2>2, SetsFinite, Smaller
  <2> QED
    BY <1>1, <1>2, <1>6, <2>3, <2>4 DEF Phantom, Calm
<1>7. ASSUME NEW v \in Update, Phantom(e, u, sent, v) PROVE Phantom(saved, u, sent, v)
  <2>1. v <= Len(sent) /\ sent[v] = "cancel" /\ v \notin Handled(e)
    BY <1>7 DEF Phantom
  <2>2. u < v /\ v \notin Handled(saved)
    BY <1>1, <1>2, <2>1, InboundAssumption DEF Update
  <2>3. Threatened(saved, u, sent, v) \subseteq Threatened(e, u, sent, v)
    BY <1>5, InThreatened
  <2>4. Budget(e, sent, v) \subseteq Budget(saved, sent, v)
    <3> SUFFICES ASSUME NEW w \in 1 .. Len(sent), w \in Handled(e) PROVE w <= v
      BY DEF Budget
    <3>1. w <= u
      BY <1>1
    <3> QED
      BY <1>1, <2>2, <3>1, InboundAssumption DEF Update
  <2> QED
    BY <1>1, <1>7, <2>1, <2>2, <2>3, <2>4, PhantomKept
<1> QED
  BY <1>2, <1>6, <1>7 DEF Account

-----------------------------------------------------------------------------
(* The account holds whatever the poller, the worker and the users do *)

LEMMA SignalsInit == Init => SignalsInv
<1> SUFFICES ASSUME Init PROVE SignalsInv
  OBVIOUS
<1>1. TypeInv /\ db.jobs = << >> /\ heard = 0 /\ pc # "tx"
  BY BaseInit DEF BaseInv, Init, NoUpdates
<1>2. Spent(db, heard) = {}
  BY <1>1 DEF Spent, Cancelled
<1>3. Cardinality(Budget(db, sent, 0)) \in Nat
  <2>1. IsFiniteSet(Budget(db, sent, 0))
    BY <1>1, SentFacts, SetsFinite
  <2> QED
    BY <2>1, FS_CardinalityType
<1>4. Calm(db, heard, sent)
  BY <1>2, <1>3, FS_EmptySet DEF Calm
<1> QED
  BY <1>1, <1>4 DEF SignalsInv, Account

LEMMA SkipSignals == BaseInv /\ SignalsInv /\ SkipKnown => SignalsInv'
<1> SUFFICES ASSUME BaseInv, SignalsInv, SkipKnown PROVE SignalsInv'
  OBVIOUS
<1> PICK u : u = Head(batch)
  OBVIOUS
<1>1. /\ pc = "tx" /\ batch # << >> /\ IsTerminal(u, db) /\ db' = Step(u)
      /\ sent' = sent /\ saved' = saved /\ heard' = heard /\ pc' = pc
  BY DEF SkipKnown, network
<1>2. TypeInv /\ Sane(db) /\ u \in Update
  BY <1>1, HeadFacts DEF BaseInv, OrderInv
<1>3. u \in Handled(db)
  BY <1>1, <1>2 DEF IsTerminal, Handled
<1>4. /\ db' \in Database /\ Handled(db') = Handled(db) /\ db'.jobs = db.jobs
      /\ db'.session = db.session
  BY <1>1, <1>2, <1>3, SkipFacts
<1>5. /\ Spent(db', heard) = Spent(db, heard) /\ Active(db') = Active(db)
      /\ \A j \in Active(db') : \E i \in Active(db) : db'.jobs[j].upd = db.jobs[i].upd
  BY <1>4 DEF Spent, Cancelled, Active
<1>6. Account(db', heard, sent)
  <2>1. Len(sent) \in Nat /\ Len(sent) <= MaxUpdates /\ db \in Database
    BY <1>2, SentFacts
  <2>2. Account(db, heard, sent)
    BY DEF SignalsInv
  <2> QED
    BY <1>4, <1>5, <2>1, <2>2, AccountKept
<1> QED
  BY <1>1, <1>6 DEF SignalsInv

LEMMA HeadAtHead ==
  ASSUME BaseInv, batch # << >>, NEW u, u = Head(batch), ~IsTerminal(u, db)
  PROVE  AtHead(u)
<1>1. TypeInv /\ OrderInv /\ db \in Database
  BY SentFacts DEF BaseInv
<1>2. /\ pc = "tx" /\ u \in Update /\ u <= Len(sent)
      /\ \A v \in Update : v < u => v \in Handled(db)
  BY <1>1, HeadFacts
<1>3. u \notin Handled(db)
  BY <1>1, <1>2 DEF IsTerminal, Handled, Database
<1> QED
  BY <1>2, <1>3 DEF AtHead

\* Both databases stand the signal that the handling of u leaves.
LEMMA HeardAccount ==
  ASSUME SignalsInv, NEW u, AtHead(u), NEW h, HeardBy(u, h), NEW e, e = After(u, Step(u))
  PROVE  Account(e, h, sent) /\ Account(saved, h, sent)
<1>1. Account(db, heard, sent) /\ Account(saved, heard, sent)
  BY DEF SignalsInv, AtHead
<1>2. Account(e, h, sent)
  BY <1>1, AccountAfter
<1>3. CASE h = heard
  BY <1>1, <1>2, <1>3
<1>4. CASE h # heard
  <2>1. h = u /\ heard = 0 /\ sent[u] = "cancel" /\ Signalled(EnsureActiveSession(db))
    BY <1>4 DEF HeardBy
  <2>2. Account(e, u, sent)
    BY <1>2, <2>1
  <2>3. Account(saved, u, sent)
    BY <2>1, <2>2, SavedAccount
  <2> QED
    BY <1>2, <2>1, <2>3
<1> QED
  BY <1>3, <1>4

LEMMA HandleSignals == BaseInv /\ SignalsInv /\ Handle => SignalsInv'
<1> SUFFICES ASSUME BaseInv, SignalsInv, Handle PROVE SignalsInv'
  OBVIOUS
<1> PICK u : u = Head(batch)
  OBVIOUS
<1> PICK e : e = After(u, Step(u))
  OBVIOUS
<1> PICK h : h = heard'
  OBVIOUS
<1>1. /\ batch # << >> /\ ~IsTerminal(u, db) /\ db' = e
      /\ sent' = sent /\ saved' = saved /\ pc' = pc
  BY DEF Handle, network
<1>2. HeardBy(u, h)
  BY DEF Handle, Hear, HeardBy
<1>3. AtHead(u)
  BY <1>1, HeadAtHead
<1>4. Account(e, h, sent) /\ Account(saved, h, sent)
  BY <1>2, <1>3, HeardAccount
<1> QED
  BY <1>1, <1>4 DEF SignalsInv

LEMMA ThrowSignals == BaseInv /\ SignalsInv /\ Throw => SignalsInv'
<1> SUFFICES ASSUME BaseInv, SignalsInv, Throw PROVE SignalsInv'
  OBVIOUS
<1> PICK u : u = Head(batch)
  OBVIOUS
<1> PICK e : e = After(u, Step(u))
  OBVIOUS
<1> PICK h : h = heard'
  OBVIOUS
<1>1. /\ batch # << >> /\ ~IsTerminal(u, db) /\ db' = saved
      /\ sent' = sent /\ saved' = saved /\ pc' = "idle"
  BY DEF Throw, Throws, network
<1>2. HeardBy(u, h)
  BY DEF Throw, Throws, Hear, HeardBy
<1>3. AtHead(u)
  BY <1>1, HeadAtHead
<1>4. Account(saved, h, sent)
  BY <1>2, <1>3, HeardAccount
<1> QED
  BY <1>1, <1>4 DEF SignalsInv

\* The status of a job changes: what is spent was spent, and what is active was.
LEMMA StatusAccount ==
  ASSUME TypeInv, Account(db, heard, sent), Sane(db), NEW e \in Database,
         NEW j \in 1 .. Len(db.jobs),
         NEW s \in {"running", "over", "cancelled"}, NEW t \in {0, db.session},
         StatusChanged(db, e, j, s, t), Handled(e) = Handled(db),
         db.jobs[j].status \in {"queued", "running"},
         s = "cancelled" => heard # 0 /\ db.jobs[j].status = "running"
  PROVE  Account(e, 0, sent)
<1>1. Len(sent) \in Nat /\ Len(sent) <= MaxUpdates /\ db \in Database
  BY SentFacts
<1>2. \A i \in 1 .. Len(db.jobs) :
        /\ e.jobs[i].upd = db.jobs[i].upd /\ e.jobs[i].kind = db.jobs[i].kind
        /\ e.jobs[i].session = db.jobs[i].session
        /\ e.jobs[i].status = db.jobs[i].status \/ (i = j /\ e.jobs[i].status = s)
  BY DEF StatusChanged
<1>3. Len(e.jobs) = Len(db.jobs) /\ e.session = t
  BY DEF StatusChanged
<1>4. Spent(e, 0) \subseteq Spent(db, heard)
  <2> SUFFICES ASSUME NEW w \in Spent(e, 0) PROVE w \in Spent(db, heard)
    OBVIOUS
  <2>1. PICK i \in 1 .. Len(e.jobs) : e.jobs[i].upd = w /\ e.jobs[i].status = "cancelled"
    BY InSpent
  <2>2. /\ i \in 1 .. Len(db.jobs) /\ db.jobs[i].upd = w
        /\ db.jobs[i].status = "cancelled" \/ (heard # 0 /\ db.jobs[i].status = "running")
    BY <1>2, <1>3, <2>1
  <2> QED
    BY <2>2, InSpent
<1>5. \A i \in Active(e) : \E k \in Active(db) : e.jobs[i].upd = db.jobs[k].upd
  <2> SUFFICES ASSUME NEW i \in Active(e) PROVE i \in Active(db) /\ e.jobs[i].upd = db.jobs[i].upd
    OBVIOUS
  <2>1. /\ i \in 1 .. Len(db.jobs) /\ e.jobs[i].kind = "run" /\ e.jobs[i].session = e.session
        /\ e.jobs[i].status \in {"queued", "running"} /\ e.jobs[i].session \in 1 .. MaxUpdates
    BY <1>3, JobTypes DEF Active
  <2>2. e.session = db.session
    BY <1>3, <2>1, InboundAssumption
  <2>3. db.jobs[i].status \in {"queued", "running"}
    BY <1>2, <2>1
  <2> QED
    BY <1>2, <2>1, <2>2, <2>3 DEF Active
<1> QED
  BY <1>1, <1>4, <1>5, AccountKept

LEMMA WorkerSignals ==
  ASSUME BaseInv, SignalsInv,
         \/ \E j \in 1 .. Len(db.jobs) : Claim(j)
         \/ \E j \in 1 .. Len(db.jobs), heeded, closes \in BOOLEAN : End(j, heeded, closes)
  PROVE  SignalsInv'
<1>1. TypeInv /\ Sane(db) /\ Account(db, heard, sent)
  BY DEF BaseInv, OrderInv, SignalsInv
<1>2. ASSUME NEW j \in 1 .. Len(db.jobs), Claim(j) PROVE SignalsInv'
  <2>1. /\ pc # "tx" /\ heard' = 0 /\ sent' = sent /\ pc' = pc
        /\ db' \in Database /\ Handled(db') = Handled(db)
        /\ db.jobs[j].status = "queued" /\ StatusChanged(db, db', j, "running", db.session)
    BY <1>2, ClaimFacts
  <2>2. Account(db', 0, sent)
    BY <1>1, <2>1, StatusAccount
  <2> QED
    BY <2>1, <2>2 DEF SignalsInv
<1>3. ASSUME NEW j \in 1 .. Len(db.jobs), NEW heeded \in BOOLEAN, NEW closes \in BOOLEAN,
             End(j, heeded, closes)
      PROVE  SignalsInv'
  <2>1. PICK s \in {"over", "cancelled"}, t \in {0, db.session} :
          /\ pc # "tx" /\ heard' = 0 /\ sent' = sent /\ pc' = pc
          /\ s = "cancelled" => heard # 0
          /\ db' \in Database /\ Handled(db') = Handled(db)
          /\ db.jobs[j].status = "running" /\ StatusChanged(db, db', j, s, t)
    BY <1>3, EndFacts
  <2>2. Account(db', 0, sent)
    BY <1>1, <2>1, StatusAccount
  <2> QED
    BY <2>1, <2>2 DEF SignalsInv
<1> QED
  BY <1>2, <1>3

LEMMA ArriveSignals ==
  ASSUME BaseInv, SignalsInv, NEW k \in Kinds, Arrive(k)
  PROVE  SignalsInv'
<1> PICK t : t = Append(sent, k)
  OBVIOUS
<1>1. /\ pc # "tx" /\ pc' = pc /\ sent' = t /\ Len(sent) < MaxUpdates
      /\ db' = db /\ heard' = heard
  BY DEF Arrive, poller
<1>2. TypeInv /\ db \in Database /\ Account(db, heard, sent)
  BY SentFacts DEF BaseInv, SignalsInv
<1>3. Account(db, heard, t)
  BY <1>1, <1>2, ArriveAccount
<1> QED
  BY <1>1, <1>3 DEF SignalsInv

LEMMA RestartSignals ==
  ASSUME BaseInv, SignalsInv, NEW again \in BOOLEAN, Restart(again)
  PROVE  SignalsInv'
<1> PICK d : d = Durable
  OBVIOUS
<1> PICK e : e = Restarted(d, again)
  OBVIOUS
<1>1. db' = e /\ pc' = "idle" /\ heard' = 0 /\ sent' = sent
  BY DEF Restart, Restarted, network
<1>2. d \in Database /\ Sane(d) /\ Account(d, heard, sent)
  BY SentFacts DEF Durable, BaseInv, OrderInv, SignalsInv
<1>3. /\ e \in Database /\ Handled(e) = Handled(d)
      /\ Len(e.jobs) = Len(d.jobs) /\ e.session = d.session
      /\ \A j \in 1 .. Len(d.jobs) :
           /\ e.jobs[j].upd = d.jobs[j].upd /\ e.jobs[j].kind = d.jobs[j].kind
           /\ e.jobs[j].session = d.jobs[j].session
           /\ d.jobs[j].status = "running" => e.jobs[j].status \in {"queued", "over"}
           /\ d.jobs[j].status # "running" => e.jobs[j].status = d.jobs[j].status
  BY <1>2, RestartFacts
<1>4. Spent(e, 0) \subseteq Spent(d, heard)
  BY <1>3, InSpent
<1>5. \A i \in Active(e) : \E k \in Active(d) : e.jobs[i].upd = d.jobs[k].upd
  <2> SUFFICES ASSUME NEW i \in Active(e) PROVE i \in Active(d) /\ e.jobs[i].upd = d.jobs[i].upd
    OBVIOUS
  <2> QED
    BY <1>3 DEF Active
<1>6. Account(e, 0, sent)
  <2>1. Len(sent) \in Nat /\ Len(sent) <= MaxUpdates
    BY SentFacts DEF BaseInv
  <2> QED
    BY <1>2, <1>3, <1>4, <1>5, <2>1, AccountKept
<1> QED
  BY <1>1, <1>6 DEF SignalsInv

LEMMA SignalsNext == BaseInv /\ SignalsInv /\ [Next]_vars => SignalsInv'
<1> SUFFICES ASSUME BaseInv, SignalsInv, [Next]_vars PROVE SignalsInv'
  OBVIOUS
<1>1. CASE Poll
  BY <1>1 DEF Poll, SignalsInv
<1>2. ASSUME NEW b, Begin(b) PROVE SignalsInv'
  BY <1>2 DEF Begin, SignalsInv
<1>3. CASE Answers
  BY <1>2, <1>3 DEF Answers, Answer
<1>4. CASE NoAnswer
  BY <1>4 DEF NoAnswer, SignalsInv, network
<1>5. CASE Commit
  BY <1>5 DEF Commit, SignalsInv, network
<1>6. CASE Transaction
  BY <1>5, <1>6, SkipSignals, HandleSignals, ThrowSignals DEF Transaction
<1>7. CASE \E u \in Update, n \in 0 .. MaxBatch : Repeat(u, n)
  BY <1>2, <1>7 DEF Repeat
<1>8. CASE \E r \in outbox : Reply(r)
  BY <1>8 DEF Reply, SignalsInv, network, poller
<1>9. CASE \E r \in outbox : ReplyFails(r)
  BY <1>9 DEF ReplyFails, SignalsInv, network, poller
<1>10. CASE \E j \in 1 .. Len(db.jobs) : Claim(j)
  BY <1>10, WorkerSignals
<1>11. CASE \E j \in 1 .. Len(db.jobs), heeded, closes \in BOOLEAN : End(j, heeded, closes)
  BY <1>11, WorkerSignals
<1>12. CASE \E k \in Kinds : Arrive(k)
  BY <1>12, ArriveSignals
<1>13. CASE \E again \in BOOLEAN : Restart(again)
  BY <1>13, RestartSignals
<1>14. CASE UNCHANGED vars
  BY <1>14 DEF vars, network, poller, SignalsInv
<1> QED
  BY <1>1, <1>3, <1>4, <1>6, <1>7, <1>8, <1>9, <1>10, <1>11, <1>12, <1>13, <1>14 DEF Next

-----------------------------------------------------------------------------
(* The theorems *)

\* The invariant holds in every state the program reaches.
THEOREM Invariance == Spec => []Inv
<1>1. Init => Inv
  BY BaseInit, SignalsInit DEF Inv, BaseInv
<1>2. Inv /\ [Next]_vars => Inv'
  BY BaseNext, SignalsNext DEF Inv, BaseInv
<1> QED
  BY <1>1, <1>2, PTL DEF Spec

\* Every variable stays in its type, whatever the bounds.
THEOREM TypeCorrect == Spec => []TypeOK
<1>1. Inv => TypeOK
  BY DEF Inv, TypeInv
<1> QED
  BY <1>1, Invariance, PTL

\* What Telegram was told to drop is durably enqueued or skipped, wherever a
\* handler throws or the process dies (inbound.ts:667-720, poller.ts:41-45).
THEOREM NothingIsLost == Spec => []NothingLost
<1>1. Inv => NothingLost
  <2> SUFFICES ASSUME Inv, NEW u \in 1 .. Len(sent), u < confirmed
               PROVE  Durable.ups[u] # "none"
    BY DEF NothingLost
  <2>1. TypeInv /\ OrderInv /\ Len(sent) \in Nat /\ Len(sent) <= MaxUpdates
    BY SentFacts DEF Inv
  <2>2. confirmed <= Durable.offset /\ Durable \in Database /\ SaneUpdates(Durable)
    BY <2>1, SentFacts DEF OrderInv, BatchInv, Durable, Sane
  <2>3. u \in Update /\ confirmed \in Nat /\ Durable.offset \in Nat
    BY <2>1, <2>2, InboundAssumption DEF Update, TypeInv, TypeOK, Database
  <2>4. u < Durable.offset
    BY <2>2, <2>3, InboundAssumption DEF Update
  <2>5. u \in Handled(Durable)
    BY <2>2, <2>3, <2>4 DEF SaneUpdates
  <2> QED
    BY <2>5 DEF Handled
<1> QED
  BY <1>1, Invariance, PTL

\* A /cancel cancels at most one queued job.
LEMMA OneCancelled ==
  ASSUME NEW d \in Database, Sane(d), NEW u \in Update
  PROVE  Cardinality({j \in 1 .. Len(d.jobs) : d.jobs[j].by = u}) <= 1
<1> PICK S : S = {j \in 1 .. Len(d.jobs) : d.jobs[j].by = u}
  OBVIOUS
<1>1. \A i, j \in S : i = j
  <2>1. u # 0
    BY InboundAssumption DEF Update
  <2> QED
    BY <2>1 DEF Sane, SaneJobs
<1>2. Cardinality(S) <= 1
  <2>1. CASE S = {}
    <3>1. Cardinality({}) = 0
      BY FS_EmptySet
    <3>2. Cardinality(S) = 0
      BY <2>1, <3>1, Zenon
    <3> QED
      BY <3>2
  <2>2. ASSUME NEW i \in S PROVE Cardinality(S) <= 1
    <3>1. S = {i}
      BY <1>1, <2>2
    <3>2. Cardinality({i}) = 1
      BY FS_Singleton
    <3> QED
      BY <3>1, <3>2
  <2> QED
    BY <2>1, <2>2
<1> QED
  BY <1>2

\* An update acts once however often it is delivered; the jobs cancelled are no
\* more than the /cancels sent, though a signal is not rolled back; and a user
\* is told only of what is committed (inbound.ts:374-402, 667-720,
\* poller.ts:58-84).
THEOREM ActsOnceAndTellsTrue == Spec => []OnceAndTold
<1>1. Inv => ActsOnce
  <2> SUFFICES ASSUME Inv PROVE ActsOnce
    OBVIOUS
  <2>1. Sane(db) /\ Sane(Durable) /\ Durable \in Database
    BY SentFacts DEF Inv, OrderInv, Durable
  <2> QED
    BY <2>1, OneCancelled DEF ActsOnce, Sane, SaneUpdates, SaneJobs
<1>2. Inv => CancelsAskedFor
  <2> SUFFICES ASSUME Inv PROVE CancelsAskedFor
    OBVIOUS
  <2> PICK d : d = Durable
    OBVIOUS
  <2> DEFINE asked == {u \in 1 .. Len(sent) : sent[u] = "cancel"}
  <2>1. /\ d \in Database /\ Account(d, heard, sent)
        /\ Len(sent) \in Nat /\ Len(sent) <= MaxUpdates
    BY SentFacts DEF Inv, SignalsInv, Durable
  <2>2. IsFiniteSet(asked)
    <3>1. IsFiniteSet(1 .. Len(sent))
      BY <2>1, FS_Interval
    <3> QED
      BY <3>1, FS_Subset
  <2>3. \E u : /\ Cardinality(Spent(d, heard)) <= Cardinality(Budget(d, sent, u))
               /\ Cardinality(Spent(d, heard)) \in Nat
    <3>1. \A u : /\ Cardinality(Spent(d, heard)) <= Cardinality(Threatened(d, heard, sent, u))
                 /\ Cardinality(Spent(d, heard)) \in Nat
                 /\ Cardinality(Threatened(d, heard, sent, u)) \in Nat
                 /\ Cardinality(Budget(d, sent, u)) \in Nat
      <4> SUFFICES ASSUME NEW u
                   PROVE  /\ Cardinality(Spent(d, heard)) <= Cardinality(Threatened(d, heard, sent, u))
                          /\ Cardinality(Spent(d, heard)) \in Nat
                          /\ Cardinality(Threatened(d, heard, sent, u)) \in Nat
                          /\ Cardinality(Budget(d, sent, u)) \in Nat
        OBVIOUS
      <4>1. Spent(d, heard) \subseteq Threatened(d, heard, sent, u)
        BY InThreatened
      <4>2. IsFiniteSet(Threatened(d, heard, sent, u)) /\ IsFiniteSet(Budget(d, sent, u))
        BY <2>1, SetsFinite
      <4> QED
        BY <4>1, <4>2, Smaller, FS_CardinalityType
    <3>2. CASE Calm(d, heard, sent)
      BY <3>1, <3>2 DEF Calm
    <3>3. CASE \E u \in Update : Phantom(d, heard, sent, u)
      BY <3>1, <3>3 DEF Phantom
    <3> QED
      BY <2>1, <3>2, <3>3 DEF Account
  <2>4. PICK u : /\ Cardinality(Spent(d, heard)) <= Cardinality(Budget(d, sent, u))
                 /\ Cardinality(Spent(d, heard)) \in Nat
    BY <2>3
  <2>5. Budget(d, sent, u) \subseteq asked /\ Cancelled(d) \subseteq Spent(d, heard)
    BY DEF Budget, Spent
  <2>6. /\ Cardinality(Budget(d, sent, u)) <= Cardinality(asked)
        /\ Cardinality(Budget(d, sent, u)) \in Nat /\ Cardinality(asked) \in Nat
    BY <2>2, <2>5, Smaller
  <2>7. Cardinality(Cancelled(d)) <= Cardinality(Spent(d, heard)) /\ Cardinality(Cancelled(d)) \in Nat
    <3>1. IsFiniteSet(Spent(d, heard))
      BY <2>1, SetsFinite
    <3> QED
      BY <2>5, <3>1, Smaller
  <2>8. Cardinality(Cancelled(d)) <= Cardinality(asked)
    BY <2>4, <2>6, <2>7
  <2> QED
    BY <2>8 DEF CancelsAskedFor
<1>3. Inv => RepliesAreTrue
  BY DEF Inv, OrderInv, ToldInv, RepliesAreTrue, Handled
<1> QED
  BY <1>1, <1>2, <1>3, Invariance, PTL DEF OnceAndTold
=============================================================================
