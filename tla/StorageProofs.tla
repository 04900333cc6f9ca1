--------------------------- MODULE StorageProofs ----------------------------
(***************************************************************************)
(* Proofs about StorageSync: what a row says of its bytes is where they    *)
(* are, and no row is tried more often than its budget.                    *)
(*                                                                         *)
(* The invariant says of every row what its status promises of the bytes   *)
(* and of the budgets.  For a step of a job to keep that, the row must     *)
(* still be what it was when the job chose it.  Two facts give that.  A    *)
(* message job comes before everything else asked of its attachment, so a  *)
(* capture, however late or often it is run, finds its row pending and not *)
(* yet captured unless the job at the head is itself at work on it.  And   *)
(* the rows of a pass keep their status until the pass comes to them: a    *)
(* pass is one job, and the poller only adds rows.                         *)
(*                                                                         *)
(* Then the types.  That there are never more rows than there may be is a  *)
(* matter of room: every summary that waits, and the snapshot after it,    *)
(* has its row set aside from the day it is asked for.                     *)
(*                                                                         *)
(* Last, that an artifact lives as ArtifactLedger promises: both           *)
(* invariants, and that a pass uploads what is to be kept and nothing      *)
(* else, make every step one of the ledger's or none.                      *)
(***************************************************************************)
EXTENDS StorageSync, FiniteSetTheorems, WellFoundedInduction, TLAPS

-----------------------------------------------------------------------------
(* The invariant.                                                          *)

Entry == [kind : Kinds, obj : Nat, left : Nat]

(* The jobs q, when the worker has the first in hand or is idle: only what  *)
(* it has in hand may have been claimed for the last time.                 *)
Fit(q, idle) ==
  /\ q \in Seq(Entry) /\ (q = << >> => idle)
  /\ \A i \in 1 .. Len(q) : i > 1 \/ idle => q[i].left > 0

Shape ==
  /\ objs \in Seq(Object) /\ caught \in Seq(Id) /\ todo \subseteq Id
  /\ Fit(queue, Idle)

Message(e) == e.kind = "message"
OfRow(e) == e.kind \in {"message", "forget"}

(* A message job comes before whatever else is asked of its attachment:     *)
(* until it is over the row is as the poller left it, but for its capture.  *)
Untouched(recs, q, i) ==
  recs[q[i].obj].status = "pending" /\ (i > 1 => recs[q[i].obj].capture # "captured")

MessageFirst(q, recs) ==
  \A i \in 1 .. Len(q) :
    /\ OfRow(q[i]) => q[i].obj \in 1 .. Len(recs)
    /\ Message(q[i]) => Untouched(recs, q, i)
    /\ Message(q[i]) => \A j \in 1 .. i - 1 : OfRow(q[j]) => q[j].obj # q[i].obj

Uploading == pc \in {"upload", "stored"}
Deleting == pc \in {"delete", "removed", "unlinked"}

(* The rows of a pass stay what they were when it selected them, and where  *)
(* the bytes of the row in hand are is known.                              *)
PassInv ==
  /\ pc \in {"capture", "wrote", "ran"} => queue[1].kind = "message"
  /\ pc = "wrote" => queue[1].obj \in disk
  /\ pc \in {"command", "done"} => queue[1].kind \in Commands
  /\ pc = "sched" \/ Uploading \/ Deleting => queue[1].kind = "sync"
  /\ Uploading => \A o \in todo : objs[o].status = "pending" /\ objs[o].capture = "captured"
  /\ Deleting => \A o \in todo : objs[o].status = "deletion_requested"
  /\ pc = "stored" => cur \in todo /\ cur \in remote
  /\ pc \in {"removed", "unlinked"} => cur \in todo /\ cur \notin remote
  /\ pc = "unlinked" => cur \notin disk

(* A row may be tried while it has a try left; the budget of the deletion   *)
(* is untouched until the deletion is asked for.                           *)
Budgeted(r) ==
  /\ r.tries <= MaxTries /\ r.dtries <= MaxTries
  /\ r.status = "pending" => r.tries < MaxTries
  /\ r.status = "deletion_requested" => r.dtries < MaxTries
  /\ r.status \notin Gone => r.dtries = 0

BudgetInv == \A o \in Id : Budgeted(objs[o])

(* What the row says of the bytes of o.                                    *)
Recorded(r, d, b) ==
  /\ r.status = "uploaded" => b
  /\ r.status = "deleted" => ~d /\ ~b
  /\ r.capture = "captured" /\ r.status \notin Gone => d

BytesInv == \A o \in Id : Recorded(objs[o], o \in disk, o \in remote)

Inv == Shape /\ MessageFirst(queue, objs) /\ PassInv /\ BudgetInv /\ BytesInv

LEMMA Means == Inv => BytesAsRecorded /\ BudgetsHold
  BY DEF Inv, BytesInv, Recorded, BytesAsRecorded, UploadedIsRemote, DeletedIsGone, BytesKept,
         BudgetInv, Budgeted, BudgetsHold
-----------------------------------------------------------------------------
(* What becomes of the jobs.                                               *)

LEMMA FitAppend ==
  ASSUME NEW q, NEW idle \in BOOLEAN, Fit(q, idle), NEW e \in Entry, e.left > 0
  PROVE  Fit(Append(q, e), idle)
  BY DEF Fit

LEMMA FitTail == ASSUME NEW q, Fit(q, FALSE) PROVE Fit(Tail(q), TRUE)
  BY DEF Fit

(* Cut(q, i, r): r is q without entry i.                                   *)
Cut(q, i, r) ==
  /\ r \in Seq(Entry) /\ Len(r) = Len(q) - 1
  /\ \A k \in 1 .. Len(r) : (k < i => r[k] = q[k]) /\ (k >= i => r[k] = q[k + 1])

LEMMA CutTail == ASSUME NEW q \in Seq(Entry), q # << >> PROVE Cut(q, 1, Tail(q))
  BY DEF Cut

LEMMA CutRemoved ==
  ASSUME NEW q \in Seq(Entry), NEW i \in 1 .. Len(q) PROVE Cut(q, i, RemoveAt(q, i))
<1>1. /\ SubSeq(q, 1, i - 1) \in Seq(Entry) /\ Len(SubSeq(q, 1, i - 1)) = i - 1
      /\ \A k \in 1 .. i - 1 : SubSeq(q, 1, i - 1)[k] = q[k]
  OBVIOUS
<1>2. /\ SubSeq(q, i + 1, Len(q)) \in Seq(Entry) /\ Len(SubSeq(q, i + 1, Len(q))) = Len(q) - i
      /\ \A k \in 1 .. Len(q) - i : SubSeq(q, i + 1, Len(q))[k] = q[k + i]
  OBVIOUS
<1> DEFINE a == SubSeq(q, 1, i - 1)
           b == SubSeq(q, i + 1, Len(q))
<1>3. RemoveAt(q, i) = a \o b
  BY DEF RemoveAt
<1> HIDE DEF a, b
<1>4. /\ a \in Seq(Entry) /\ Len(a) = i - 1 /\ \A k \in 1 .. i - 1 : a[k] = q[k]
      /\ b \in Seq(Entry) /\ Len(b) = Len(q) - i /\ \A k \in 1 .. Len(q) - i : b[k] = q[k + i]
  BY <1>1, <1>2 DEF a, b
<1>5. a \o b \in Seq(Entry) /\ Len(a \o b) = Len(q) - 1
  <2>0. a \in Seq(Entry) /\ b \in Seq(Entry)
    BY <1>4
  <2>1. a \o b \in Seq(Entry)
    BY <2>0
  <2>2. Len(a \o b) = Len(a) + Len(b)
    BY <2>0
  <2>3. Len(q) \in Nat /\ i \in Nat
    OBVIOUS
  <2> QED BY <1>4, <2>1, <2>2, <2>3
<1>6. \A k \in 1 .. Len(q) - 1 : (k < i => (a \o b)[k] = q[k]) /\ (k >= i => (a \o b)[k] = q[k + 1])
  <2>1. ASSUME NEW k \in 1 .. Len(q) - 1, k < i PROVE (a \o b)[k] = q[k]
    BY <1>4, <2>1
  <2>2. ASSUME NEW k \in 1 .. Len(q) - 1, k >= i PROVE (a \o b)[k] = q[k + 1]
    <3>1. (a \o b)[k] = b[k - (i - 1)] /\ k - (i - 1) \in 1 .. Len(q) - i
      BY <1>4, <2>2
    <3> QED BY <1>4, <3>1
  <2> QED BY <2>1, <2>2
<1> QED BY <1>3, <1>5, <1>6 DEF Cut

LEMMA FitCut ==
  ASSUME NEW q, NEW idle \in BOOLEAN, Fit(q, idle), NEW i \in 1 .. Len(q), NEW r, Cut(q, i, r),
         i > 1 \/ idle
  PROVE  Fit(r, idle)
  BY DEF Fit, Cut

LEMMA FirstCut ==
  ASSUME NEW q \in Seq(Entry), NEW recs, MessageFirst(q, recs), NEW i \in 1 .. Len(q), NEW r, Cut(q, i, r)
  PROVE  MessageFirst(r, recs)
<1> DEFINE Old(k) == IF k < i THEN k ELSE k + 1
<1>1. \A k \in 1 .. Len(r) :
        Old(k) \in 1 .. Len(q) /\ r[k] = q[Old(k)] /\ (k > 1 => Old(k) > 1)
        /\ \A j \in 1 .. k - 1 : j \in 1 .. Len(r) /\ Old(j) \in 1 .. Old(k) - 1
  BY DEF Cut
<1> HIDE DEF Old
<1>2. ASSUME NEW k \in 1 .. Len(r), Message(r[k]) PROVE Untouched(recs, r, k)
  <2>1. r[k] = q[Old(k)] /\ Untouched(recs, q, Old(k)) /\ (k > 1 => Old(k) > 1)
    BY <1>1, <1>2 DEF MessageFirst
  <2> QED BY <2>1 DEF Untouched
<1>3. ASSUME NEW k \in 1 .. Len(r), Message(r[k]), NEW j \in 1 .. k - 1, OfRow(r[j])
      PROVE  r[j].obj # r[k].obj
  <2>1. Old(k) \in 1 .. Len(q) /\ Old(j) \in 1 .. Old(k) - 1 /\ r[k] = q[Old(k)] /\ r[j] = q[Old(j)]
    BY <1>1
  <2> QED BY <1>3, <2>1 DEF MessageFirst
<1>4. ASSUME NEW k \in 1 .. Len(r), OfRow(r[k]) PROVE r[k].obj \in 1 .. Len(recs)
  BY <1>1, <1>4 DEF MessageFirst
<1> QED BY <1>2, <1>3, <1>4 DEF MessageFirst

(* The rows may grow and change, but not those that wait for their message. *)
Calm(q, recs) == \A i \in 1 .. Len(q) : Message(q[i]) => Untouched(recs, q, i)

LEMMA FirstKept ==
  ASSUME NEW q, NEW recs \in Seq(Object), NEW recs2 \in Seq(Object), MessageFirst(q, recs),
         Len(recs) <= Len(recs2), Calm(q, recs2)
  PROVE  MessageFirst(q, recs2)
  BY DEF MessageFirst, Calm

LEMMA FirstAppend ==
  ASSUME NEW q \in Seq(Entry), NEW recs, MessageFirst(q, recs), NEW e \in Entry, ~Message(e),
         OfRow(e) => e.obj \in 1 .. Len(recs)
  PROVE  MessageFirst(Append(q, e), recs)
  BY DEF MessageFirst, Untouched

(* Rows that keep what counts keep the jobs calm.                          *)
LEMMA CalmSame ==
  ASSUME NEW q, NEW recs \in Seq(Object), NEW recs2, MessageFirst(q, recs),
         \A o \in 1 .. Len(recs) : recs2[o].status = recs[o].status /\ recs2[o].capture = recs[o].capture
  PROVE  Calm(q, recs2)
  BY DEF MessageFirst, Calm, Untouched, OfRow, Message

-----------------------------------------------------------------------------
(* What becomes of the rows.                                               *)

(* Only the row of o is written.                                           *)
Written(o) ==
  /\ objs' \in Seq(Object) /\ Len(objs') = Len(objs)
  /\ \A p \in Id : p # o => objs'[p] = objs[p]

LEMMA RowWritten ==
  ASSUME objs \in Seq(Object), NEW o \in Id, NEW r \in Object, objs' = [objs EXCEPT ![o] = r]
  PROVE  Written(o) /\ objs'[o] = r
  BY DEF Id, Written

LEMMA RowOK == ASSUME objs \in Seq(Object), NEW o \in Id PROVE objs[o] \in Object
  BY DEF Id

LEMMA Grown ==
  ASSUME objs \in Seq(Object), NEW r \in Object, objs' = Append(objs, r), NEW n, n = Len(objs) + 1
  PROVE  /\ objs' \in Seq(Object) /\ Len(objs') = n /\ n \notin Id /\ Id' = Id \cup {n}
         /\ \A p \in Id : objs'[p] = objs[p]
         /\ objs'[n] = r
  BY DEF Id

(* The row each step leaves.                                               *)
Set(o, capture, retention, status, tries, dtries) ==
  /\ objs'[o].capture = capture /\ objs'[o].retention = retention
  /\ objs'[o].status = status /\ objs'[o].tries = tries /\ objs'[o].dtries = dtries

LEMMA FailedRow ==
  ASSUME objs \in Seq(Object), NEW o \in Id, Failed(o), objs[o].status = "pending"
  PROVE  Written(o) /\ Set(o, objs[o].capture, objs[o].retention, "failed", objs[o].tries + 1, objs[o].dtries)
<1>0. objs[o] \in Object
  BY RowOK
<1> PICK t \in Nat : t = objs[o].tries + 1
  BY <1>0 DEF Object
<1> DEFINE r == [objs[o] EXCEPT !.status = "failed", !.tries = t]
<1>1. r \in Object
  BY <1>0 DEF Object, Status
<1>2. objs' = [objs EXCEPT ![o] = r]
  BY DEF Failed, Id
<1>3. Written(o) /\ objs'[o] = r
  BY <1>1, <1>2, RowWritten
<1> QED BY <1>0, <1>3 DEF Set, Object

LEMMA CaptureRow ==
  ASSUME objs \in Seq(Object), NEW o \in Id, NEW c \in Capture,
         objs' = [objs EXCEPT ![o].capture = c]
  PROVE  Written(o) /\ Set(o, c, objs[o].retention, objs[o].status, objs[o].tries, objs[o].dtries)
<1> DEFINE r == [objs[o] EXCEPT !.capture = c]
<1>0. objs[o] \in Object
  BY RowOK
<1>1. r \in Object
  BY <1>0 DEF Object
<1>2. objs' = [objs EXCEPT ![o] = r]
  BY DEF Id
<1>3. Written(o) /\ objs'[o] = r
  BY <1>1, <1>2, RowWritten
<1> QED BY <1>0, <1>3 DEF Set, Object

LEMMA RetainedRow ==
  ASSUME objs \in Seq(Object), NEW o \in Id, objs' = [objs EXCEPT ![o].retention = "long_term"]
  PROVE  Written(o) /\ Set(o, objs[o].capture, "long_term", objs[o].status, objs[o].tries, objs[o].dtries)
<1> DEFINE r == [objs[o] EXCEPT !.retention = "long_term"]
<1>0. objs[o] \in Object
  BY RowOK
<1>1. r \in Object
  BY <1>0 DEF Object
<1>2. objs' = [objs EXCEPT ![o] = r]
  BY DEF Id
<1>3. Written(o) /\ objs'[o] = r
  BY <1>1, <1>2, RowWritten
<1> QED BY <1>0, <1>3 DEF Set, Object

LEMMA StatusRow ==
  ASSUME objs \in Seq(Object), NEW o \in Id, NEW s \in Status, objs' = [objs EXCEPT ![o].status = s]
  PROVE  Written(o) /\ Set(o, objs[o].capture, objs[o].retention, s, objs[o].tries, objs[o].dtries)
<1> DEFINE r == [objs[o] EXCEPT !.status = s]
<1>0. objs[o] \in Object
  BY RowOK
<1>1. r \in Object
  BY <1>0 DEF Object
<1>2. objs' = [objs EXCEPT ![o] = r]
  BY DEF Id
<1>3. Written(o) /\ objs'[o] = r
  BY <1>1, <1>2, RowWritten
<1> QED BY <1>0, <1>3 DEF Set, Object

MarkedUploaded(o) ==
  objs' = [objs EXCEPT ![o].status = IF @ = "pending" THEN "uploaded" ELSE @, ![o].tries = 0]

LEMMA UploadedRow ==
  ASSUME objs \in Seq(Object), NEW o \in Id, objs[o].status = "pending",
         MarkedUploaded(o)
  PROVE  Written(o) /\ Set(o, objs[o].capture, objs[o].retention, "uploaded", 0, objs[o].dtries)
<1> DEFINE r == [objs[o] EXCEPT !.status = "uploaded", !.tries = 0]
<1>0. objs[o] \in Object
  BY RowOK
<1>1. r \in Object
  BY <1>0 DEF Object, Status
<1>2. objs' = [objs EXCEPT ![o] = r]
  BY DEF Id, MarkedUploaded
<1>3. Written(o) /\ objs'[o] = r
  BY <1>1, <1>2, RowWritten
<1> QED BY <1>0, <1>3 DEF Set, Object

MarkedDeleteFailed(o) ==
  objs' = [objs EXCEPT ![o].status = IF @ = "deletion_requested" THEN "delete_failed" ELSE @,
                       ![o].dtries = @ + 1]

LEMMA DeleteFailedRow ==
  ASSUME objs \in Seq(Object), NEW o \in Id, objs[o].status = "deletion_requested",
         MarkedDeleteFailed(o)
  PROVE  Written(o) /\ Set(o, objs[o].capture, objs[o].retention, "delete_failed", objs[o].tries, objs[o].dtries + 1)
<1>0. objs[o] \in Object
  BY RowOK
<1> PICK t \in Nat : t = objs[o].dtries + 1
  BY <1>0 DEF Object
<1> DEFINE r == [objs[o] EXCEPT !.status = "delete_failed", !.dtries = t]
<1>1. r \in Object
  BY <1>0 DEF Object, Status
<1>2. objs' = [objs EXCEPT ![o] = r]
  BY DEF Id, MarkedDeleteFailed
<1>3. Written(o) /\ objs'[o] = r
  BY <1>1, <1>2, RowWritten
<1> QED BY <1>0, <1>3 DEF Set, Object

MarkedDeleted(o) ==
  objs' = [objs EXCEPT ![o].status = IF @ = "deletion_requested" THEN "deleted" ELSE @,
                       ![o].tries = 0, ![o].dtries = 0]

LEMMA DeletedRow ==
  ASSUME objs \in Seq(Object), NEW o \in Id, objs[o].status = "deletion_requested",
         MarkedDeleted(o)
  PROVE  Written(o) /\ Set(o, objs[o].capture, objs[o].retention, "deleted", 0, 0)
<1> DEFINE r == [objs[o] EXCEPT !.status = "deleted", !.tries = 0, !.dtries = 0]
<1>0. objs[o] \in Object
  BY RowOK
<1>1. r \in Object
  BY <1>0 DEF Object, Status
<1>2. objs' = [objs EXCEPT ![o] = r]
  BY DEF Id, MarkedDeleted
<1>3. Written(o) /\ objs'[o] = r
  BY <1>1, <1>2, RowWritten
<1> QED BY <1>0, <1>3 DEF Set, Object

-----------------------------------------------------------------------------
(* One part of the invariant at a time.                                    *)

LEMMA BudgetWritten ==
  ASSUME BudgetInv, NEW o \in Id, Written(o), Budgeted(objs'[o]) PROVE BudgetInv'
  BY DEF BudgetInv, Written, Id

LEMMA BytesWritten ==
  ASSUME BytesInv, NEW o \in Id, Written(o), UNCHANGED bytes,
         Recorded(objs'[o], o \in disk, o \in remote)
  PROVE  BytesInv'
<1>1. Id' = Id /\ disk' = disk /\ remote' = remote
  BY DEF Written, Id, bytes
<1>2. ASSUME NEW p \in Id PROVE Recorded(objs'[p], p \in disk, p \in remote)
  <2>1. CASE p = o
    BY <2>1
  <2>2. CASE p # o
    BY <2>2 DEF Written, BytesInv
  <2> QED BY <2>1, <2>2
<1> QED BY <1>1, <1>2 DEF BytesInv

LEMMA NoMessage ==
  ASSUME NEW o, MessageFirst(queue, objs),
         objs[o].status # "pending" \/ (objs[o].capture = "captured" /\ ~Message(queue[1]))
  PROVE  \A i \in 1 .. Len(queue) : Message(queue[i]) => queue[i].obj # o
<1> SUFFICES ASSUME NEW i \in 1 .. Len(queue), Message(queue[i]), queue[i].obj = o PROVE FALSE
  OBVIOUS
<1>1. Untouched(objs, queue, i)
  BY DEF MessageFirst
<1> QED BY <1>1 DEF Untouched

(* Only the first job may be about the row the first job is about.         *)
LEMMA OwnMessage ==
  ASSUME MessageFirst(queue, objs), OfRow(queue[1]), NEW i \in 1 .. Len(queue),
         Message(queue[i]), queue[i].obj = Own
  PROVE  i = 1
<1> SUFFICES ASSUME i # 1 PROVE FALSE
  OBVIOUS
<1>1. 1 \in 1 .. i - 1
  OBVIOUS
<1> QED BY <1>1 DEF MessageFirst, Own

LEMMA CalmWritten ==
  ASSUME Shape, MessageFirst(queue, objs), NEW o \in Id, Written(o),
         \A i \in 1 .. Len(queue) :
           Message(queue[i]) /\ queue[i].obj = o => Untouched(objs', queue, i)
  PROVE  MessageFirst(queue, objs')
<1>1. ASSUME NEW i \in 1 .. Len(queue), Message(queue[i]) PROVE Untouched(objs', queue, i)
  <2>1. CASE queue[i].obj = o
    BY <1>1, <2>1
  <2>2. CASE queue[i].obj # o
    <3>1. queue[i].obj \in Id /\ Untouched(objs, queue, i)
      BY <1>1 DEF MessageFirst, OfRow, Message, Id
    <3> QED BY <2>2, <3>1 DEF Written, Untouched
  <2> QED BY <2>1, <2>2
<1> QED BY <1>1, FirstKept DEF Calm, Written, Shape

LEMMA PassKept ==
  ASSUME Shape, PassInv, UNCHANGED <<pc, todo, cur, disk, remote>>,
         \A p \in Id : objs'[p] = objs[p], ~Idle => queue'[1] = queue[1]
  PROVE  PassInv'
  BY DEF Shape, PassInv, Idle, Uploading, Deleting

(* The poller: rows and jobs are added, or a job that waits is taken out.   *)
LEMMA HeadStays ==
  ASSUME Shape, NEW e, ~Idle PROVE Append(queue, e)[1] = queue[1]
  BY DEF Shape, Fit

LEMMA IdleIsBoolean == Idle \in BOOLEAN
  BY DEF Idle

LEMMA SeqGrows == ASSUME NEW S, NEW T, S \subseteq T, NEW q \in Seq(S) PROVE q \in Seq(T)
  OBVIOUS

LEMMA NewRow ==
  ASSUME Shape, BudgetInv, BytesInv, NEW r \in Object, objs' = Append(objs, r), UNCHANGED remote,
         NEW n, n = Len(objs) + 1, \A p \in Id : p \in disk' <=> p \in disk,
         r.status = "pending", r.tries = 0, r.dtries = 0, r.capture = "captured" => n \in disk'
  PROVE  /\ BudgetInv' /\ BytesInv' /\ Id \subseteq Id' /\ n \in Id'
         /\ objs' \in Seq(Object) /\ Len(objs') = n
         /\ \A p \in Id : objs'[p] = objs[p]
         /\ objs'[n] = r
<1>1. /\ objs' \in Seq(Object) /\ Len(objs') = n /\ n \notin Id /\ Id' = Id \cup {n}
      /\ \A p \in Id : objs'[p] = objs[p]
      /\ objs'[n] = r
  BY Grown DEF Shape
<1>2. Budgeted(r)
  BY StorageAssumption DEF Budgeted, Gone
<1>3. BudgetInv'
  BY <1>1, <1>2 DEF BudgetInv
<1>4. ASSUME NEW p \in Id PROVE Recorded(objs'[p], p \in disk', p \in remote')
  BY <1>1 DEF BytesInv, Recorded
<1>5. Recorded(objs'[n], n \in disk', n \in remote')
  BY <1>1 DEF Recorded
<1>6. BytesInv'
  BY <1>1, <1>4, <1>5 DEF BytesInv
<1> QED BY <1>1, <1>3, <1>6

LEMMA PollerKeeps == ASSUME Inv, Poller PROVE Inv'
<1>0. Shape /\ MessageFirst(queue, objs) /\ PassInv /\ BudgetInv /\ BytesInv /\ queue \in Seq(Entry)
  BY DEF Inv, Shape, Fit
<1>1. ASSUME NEW saved \in BOOLEAN, NEW oversize \in BOOLEAN, NEW level \in Levels,
             Attach(saved, oversize, level)
      PROVE  Inv'
  <2> PICK n : n = Len(objs) + 1
    OBVIOUS
  <2> PICK r : r = Attachment(saved /\ Allows(level), oversize)
    OBVIOUS
  <2> PICK e : e = Asked("message", n)
    OBVIOUS
  <2>1. /\ objs' = Append(objs, r) /\ queue' = Append(queue, e)
        /\ UNCHANGED <<caught, disk, remote, pc, todo, cur>>
    BY <1>1 DEF Attach, bytes, pass
  <2>2. /\ r \in Object /\ r.status = "pending" /\ r.tries = 0 /\ r.dtries = 0
        /\ r.capture # "captured"
    BY DEF Attachment, Object, Capture, Status
  <2>3. n \in Nat /\ e \in Entry /\ e.left = 2 /\ e.kind = "message" /\ e.obj = n
    BY <1>0 DEF Shape, Asked, Entry, Kinds
  <2>4. /\ BudgetInv' /\ BytesInv' /\ Id \subseteq Id' /\ n \in Id'
        /\ objs' \in Seq(Object) /\ Len(objs') = n
        /\ \A p \in Id : objs'[p] = objs[p]
        /\ objs'[n] = r
    BY <1>0, <2>1, <2>2, NewRow
  <2>5. Shape'
    <3>1. Fit(queue, Idle)
      BY <1>0 DEF Shape
    <3>2. Fit(Append(queue, e), Idle)
      BY <2>3, <3>1, FitAppend, IdleIsBoolean
    <3>3. Fit(queue', Idle')
      BY <2>1, <3>2 DEF Idle
    <3>4. caught' \in Seq(Id')
      BY <1>0, <2>1, <2>4, SeqGrows DEF Shape
    <3> QED BY <1>0, <2>1, <2>4, <3>3, <3>4 DEF Shape
  <2>6. PassInv'
    BY <1>0, <2>1, <2>4, PassKept, HeadStays
  <2>7. MessageFirst(queue', objs')
    <3>1. /\ Len(queue') = Len(queue) + 1 /\ queue'[Len(queue) + 1] = e
          /\ \A i \in 1 .. Len(queue) : queue'[i] = queue[i]
      BY <1>0, <2>1, <2>3
    <3>2. ASSUME NEW i \in 1 .. Len(queue)
          PROVE  /\ OfRow(queue'[i]) => queue'[i].obj \in 1 .. Len(objs') /\ queue'[i].obj # n
                 /\ Message(queue'[i]) => Untouched(objs', queue', i)
                 /\ Message(queue'[i]) => \A j \in 1 .. i - 1 : OfRow(queue'[j]) => queue'[j].obj # queue'[i].obj
      <4>1. /\ OfRow(queue[i]) => queue[i].obj \in Id
            /\ Message(queue[i]) => OfRow(queue[i]) /\ Untouched(objs, queue, i)
            /\ Message(queue[i]) => \A j \in 1 .. i - 1 : OfRow(queue[j]) => queue[j].obj # queue[i].obj
        BY <1>0 DEF MessageFirst, Message, OfRow, Id
      <4>2. /\ queue'[i] = queue[i] /\ \A j \in 1 .. i - 1 : queue'[j] = queue[j]
        BY <3>1
      <4>3. Id \subseteq 1 .. Len(objs') /\ n \notin Id
        BY <2>3, <2>4 DEF Id
      <4>4. Message(queue[i]) => Untouched(objs', queue', i)
        BY <2>4, <4>1, <4>2 DEF Untouched
      <4> QED BY <4>1, <4>2, <4>3, <4>4
    <3>3. /\ e.obj \in 1 .. Len(objs') /\ Untouched(objs', queue', Len(queue) + 1)
      BY <1>0, <2>2, <2>3, <2>4, <3>1 DEF Untouched
    <3> QED BY <1>0, <2>3, <3>1, <3>2, <3>3 DEF MessageFirst, Message, OfRow
  <2> QED BY <2>4, <2>5, <2>6, <2>7 DEF Inv
<1>2. ASSUME NEW k \in {"save", "undo", "summary", "forget"}, NEW o \in Nat, Ask(k, o),
             k = "forget" => o \in Id
      PROVE  Inv'
  <2> PICK e : e = Asked(k, o)
    OBVIOUS
  <2>1. /\ queue' = Append(queue, e) /\ UNCHANGED <<objs, caught, disk, remote, pc, todo, cur>>
    BY <1>2 DEF Ask, rows, bytes, pass
  <2>2. e \in Entry /\ e.left = 2 /\ e.kind = k /\ e.obj = o
    BY DEF Asked, Entry, Kinds, Commands
  <2>3. Shape'
    <3>1. Fit(queue, Idle)
      BY <1>0 DEF Shape
    <3>2. Fit(Append(queue, e), Idle)
      BY <2>2, <3>1, FitAppend, IdleIsBoolean
    <3>3. Fit(queue', Idle')
      BY <2>1, <3>2 DEF Idle
    <3> QED BY <1>0, <2>1, <3>3 DEF Shape, Id
  <2>4. PassInv'
    BY <1>0, <2>1, PassKept, HeadStays
  <2>5. MessageFirst(queue, objs)'
    BY <1>0, <1>2, <2>1, <2>2, FirstAppend DEF Message, OfRow, Id
  <2>6. BudgetInv' /\ BytesInv'
    BY <1>0, <2>1 DEF BudgetInv, BytesInv, Id
  <2> QED BY <2>3, <2>4, <2>5, <2>6 DEF Inv
<1>3. ASSUME NEW i \in 1 .. Len(queue), Cancel(i) PROVE Inv'
  <2>1. /\ queue' = RemoveAt(queue, i) /\ UNCHANGED <<objs, caught, disk, remote, pc, todo, cur>>
        /\ i > 1 \/ Idle
    BY <1>3 DEF Cancel, Waiting, rows, bytes, pass
  <2>2. Cut(queue, i, queue')
    BY <1>0, <2>1, CutRemoved
  <2>3. Shape'
    BY <1>0, <2>1, <2>2, FitCut, IdleIsBoolean DEF Shape, Idle, Id
  <2>4. ~Idle => queue'[1] = queue[1]
    BY <1>0, <2>1, <2>2 DEF Cut
  <2>5. PassInv'
    BY <1>0, <2>1, <2>4, PassKept
  <2>6. MessageFirst(queue, objs)'
    BY <1>0, <2>1, <2>2, FirstCut
  <2>7. BudgetInv' /\ BytesInv'
    BY <1>0, <2>1 DEF BudgetInv, BytesInv, Id
  <2> QED BY <2>3, <2>5, <2>6, <2>7 DEF Inv
<1> QED
  <2>1. Id \subseteq Nat
    BY DEF Id
  <2> QED BY <1>1, <1>2, <1>3, <2>1 DEF Poller

-----------------------------------------------------------------------------
(* The worker takes a job, moves within it, and ends it.                   *)

SameRows == UNCHANGED <<objs, caught, disk, remote>>

LEMMA SameRowsKeep ==
  ASSUME SameRows
  PROVE  /\ BudgetInv <=> BudgetInv'
         /\ BytesInv <=> BytesInv'
         /\ Id' = Id
  BY DEF SameRows, BudgetInv, BytesInv, Id

(* Nothing but the place in the job, and the rows of a pass.               *)
LEMMA MoveKeeps ==
  ASSUME Inv, SameRows, UNCHANGED queue, todo' \subseteq Id, Idle' = Idle, PassInv'
  PROVE  Inv'
<1>1. Shape /\ Fit(queue, Idle)
  BY DEF Inv, Shape
<1>2. Fit(queue', Idle')
  BY <1>1
<1>3. Shape'
  BY <1>1, <1>2, SameRowsKeep DEF Shape, SameRows
<1>4. MessageFirst(queue, objs)'
  BY DEF Inv, SameRows
<1> QED BY <1>3, <1>4, SameRowsKeep DEF Inv

(* The first job is over.                                                  *)
LEMMA OverKeeps ==
  ASSUME Inv, SameRows, ~Idle, queue' = Tail(queue), pc' \in {"idle", "snapshot"}, UNCHANGED <<todo, cur>>
  PROVE  Inv'
<1>1. Shape /\ Fit(queue, FALSE) /\ queue # << >> /\ queue \in Seq(Entry)
  BY DEF Inv, Shape, Fit
<1>2. Fit(queue', TRUE)
  BY <1>1, FitTail
<1>3. Shape'
  BY <1>1, <1>2, SameRowsKeep DEF Shape, SameRows, Idle
<1>4. MessageFirst(queue, objs)'
  <2>1. 1 \in 1 .. Len(queue)
    BY <1>1
  <2> QED BY <1>1, <2>1, CutTail, FirstCut DEF Inv, SameRows
<1>5. PassInv'
  BY DEF PassInv, Uploading, Deleting
<1> QED BY <1>3, <1>4, <1>5, SameRowsKeep DEF Inv

LEMMA ClaimKeeps == ASSUME Inv, Claim PROVE Inv'
<1>0. /\ Shape /\ MessageFirst(queue, objs) /\ queue \in Seq(Entry) /\ queue # << >>
      /\ queue[1].left > 0 /\ queue[1] \in Entry
      /\ SameRows /\ UNCHANGED <<todo, cur>> /\ pc' = Start(queue[1].kind) /\ Idle
  BY DEF Inv, Shape, Fit, Claim, SameRows, rows, bytes, pass, Idle
<1> PICK n \in Nat : n = queue[1].left - 1
  BY <1>0 DEF Entry
<1> DEFINE e == [queue[1] EXCEPT !.left = n]
<1>1. e \in Entry /\ e.kind = queue[1].kind /\ e.obj = queue[1].obj
  BY <1>0 DEF Entry
<1>2. queue' = [queue EXCEPT ![1] = e]
  BY <1>0 DEF Claim
<1> HIDE DEF e
<1>3. /\ queue' \in Seq(Entry) /\ Len(queue') = Len(queue) /\ queue'[1] = e /\ queue' # << >>
      /\ \A i \in 1 .. Len(queue) : i > 1 => queue'[i] = queue[i]
  BY <1>0, <1>1, <1>2
<1>4. \A i \in 1 .. Len(queue) : queue'[i].kind = queue[i].kind /\ queue'[i].obj = queue[i].obj
  BY <1>0, <1>1, <1>3
<1>5. Fit(queue', FALSE)
  BY <1>0, <1>3 DEF Shape, Fit
<1>6. /\ pc' \in {"capture", "summary", "sched", "command"}
      /\ pc' = "capture" => queue[1].kind = "message"
      /\ pc' = "sched" => queue[1].kind = "sync"
      /\ pc' = "command" => queue[1].kind \in Commands
  BY <1>0 DEF Start, Entry, Kinds, Commands
<1>7. Shape'
  <2>1. ~Idle'
    BY <1>6 DEF Idle
  <2>2. Fit(queue', Idle')
    BY <1>5, <2>1 DEF Fit
  <2> QED BY <1>0, <2>2, SameRowsKeep DEF Shape, SameRows
<1>8. MessageFirst(queue', objs)
  BY <1>0, <1>3, <1>4 DEF MessageFirst, Message, OfRow, Untouched
<1>9. PassInv'
  BY <1>0, <1>1, <1>3, <1>6 DEF PassInv, Uploading, Deleting
<1>10. MessageFirst(queue, objs)'
  BY <1>0, <1>8 DEF SameRows
<1> QED BY <1>0, <1>7, <1>9, <1>10, SameRowsKeep DEF Inv

(* The process dies.                                                       *)
LEMMA RestartKeeps == ASSUME Inv, Restart PROVE Inv'
<1>0. /\ Shape /\ Fit(queue, Idle) /\ queue \in Seq(Entry) /\ MessageFirst(queue, objs)
      /\ SameRows /\ todo' = {} /\ pc' = "idle"
      /\ queue' = Reconciled \/ queue' = Append(Reconciled, Sync(1))
  BY DEF Inv, Shape, Fit, Restart, SameRows, rows, bytes
<1>1. Fit(Reconciled, TRUE) /\ MessageFirst(Reconciled, objs)
  <2>1. CASE Running /\ queue[1].left = 0
    <3>1. Fit(queue, FALSE) /\ queue # << >> /\ 1 \in 1 .. Len(queue)
      BY <1>0, <2>1 DEF Fit, Running
    <3>2. Reconciled = Tail(queue)
      BY <2>1 DEF Reconciled
    <3> QED BY <1>0, <3>1, <3>2, FitTail, CutTail, FirstCut
  <2>2. CASE ~(Running /\ queue[1].left = 0)
    <3>1. Reconciled = queue
      BY <2>2 DEF Reconciled
    <3>2. \A i \in 1 .. Len(queue) : queue[i].left > 0
      <4>1. ASSUME NEW i \in 1 .. Len(queue), i = 1, ~Idle PROVE queue[i].left > 0
        <5>1. queue[1] \in Entry
          BY <1>0, <4>1
        <5>2. queue[1].left # 0
          BY <2>2, <4>1 DEF Running
        <5> QED BY <4>1, <5>1, <5>2 DEF Entry
      <4>2. ASSUME NEW i \in 1 .. Len(queue), i # 1 \/ Idle PROVE queue[i].left > 0
        BY <1>0, <4>2 DEF Fit
      <4> QED BY <4>1, <4>2
    <3>3. Fit(queue, TRUE)
      BY <1>0, <3>2 DEF Fit
    <3> QED BY <1>0, <3>1, <3>3
  <2> QED BY <2>1, <2>2
<1>2. Sync(1) \in Entry /\ Sync(1).left > 0 /\ ~OfRow(Sync(1)) /\ ~Message(Sync(1))
  BY DEF Sync, Entry, Kinds, OfRow, Message
<1>3. Fit(Append(Reconciled, Sync(1)), TRUE)
  <2>1. TRUE \in BOOLEAN
    OBVIOUS
  <2> QED BY <1>1, <1>2, <2>1, FitAppend, Zenon
<1>4. MessageFirst(Append(Reconciled, Sync(1)), objs)
  BY <1>1, <1>2, FirstAppend DEF Fit
<1>5. Shape'
  BY <1>0, <1>1, <1>3, SameRowsKeep DEF Shape, SameRows, Idle
<1>6. MessageFirst(queue, objs)'
  BY <1>0, <1>1, <1>4 DEF SameRows
<1>7. PassInv'
  BY <1>0 DEF PassInv, Uploading, Deleting
<1> QED BY <1>0, <1>5, <1>6, <1>7, SameRowsKeep DEF Inv

-----------------------------------------------------------------------------
(* The steps that write a row.                                             *)

(* The row of o is written, the jobs stay or gain a sync job, and the rest  *)
(* of the invariant is shown apart.                                        *)
LEMMA WriteKeeps ==
  ASSUME Inv, NEW o \in Id, Written(o), UNCHANGED bytes,
         Budgeted(objs'[o]), Recorded(objs'[o], o \in disk, o \in remote),
         \A i \in 1 .. Len(queue) :
           Message(queue[i]) /\ queue[i].obj = o => Untouched(objs', queue, i),
         queue' = queue \/ \E n \in {1, 3} : queue' = Append(queue, Sync(n)),
         caught' = caught \/ caught' = Append(caught, o),
         todo' \subseteq Id, ~Idle, ~Idle',
         queue'[1] = queue[1] => PassInv'
  PROVE  Inv'
<1>0. Shape /\ Fit(queue, FALSE) /\ queue \in Seq(Entry) /\ MessageFirst(queue, objs) /\ queue # << >>
  BY DEF Inv, Shape, Fit
<1>1. Id' = Id /\ objs' \in Seq(Object) /\ Len(objs') = Len(objs)
  BY DEF Written, Id
<1>2. MessageFirst(queue, objs')
  BY <1>0, CalmWritten
<1>3. ASSUME NEW n \in {1, 3}, queue' = Append(queue, Sync(n))
      PROVE  Fit(queue', FALSE) /\ MessageFirst(queue', objs') /\ queue'[1] = queue[1]
  <2>1. /\ Sync(n) \in Entry /\ Sync(n).left > 0 /\ ~OfRow(Sync(n)) /\ ~Message(Sync(n))
    BY DEF Sync, Entry, Kinds, OfRow, Message
  <2>2. Fit(queue', FALSE)
    <3>1. FALSE \in BOOLEAN
      OBVIOUS
    <3> QED BY <1>0, <1>3, <2>1, <3>1, FitAppend, Zenon
  <2>3. MessageFirst(queue', objs')
    BY <1>0, <1>2, <1>3, <2>1, FirstAppend
  <2>4. queue'[1] = queue[1]
    BY <1>0, <1>3, <2>1
  <2> QED BY <2>2, <2>3, <2>4
<1>4. Fit(queue', FALSE) /\ MessageFirst(queue', objs') /\ queue'[1] = queue[1]
  BY <1>0, <1>2, <1>3
<1>5. Fit(queue', Idle')
  BY <1>4 DEF Fit
<1>6. caught' \in Seq(Id')
  <2>1. caught \in Seq(Id)
    BY <1>0 DEF Shape
  <2>2. Append(caught, o) \in Seq(Id)
    BY <2>1
  <2> QED BY <1>1, <2>1, <2>2
<1>7. Shape'
  BY <1>1, <1>5, <1>6 DEF Shape
<1>8. BudgetInv' /\ BytesInv'
  BY BudgetWritten, BytesWritten DEF Inv
<1> QED BY <1>4, <1>7, <1>8 DEF Inv

LEMMA OwnInId == ASSUME Inv, ~Idle, OfRow(queue[1]) PROVE Own \in Id
  BY DEF Inv, Shape, Fit, MessageFirst, Own, Id

LEMMA CaptureKeeps == ASSUME Inv, CaptureStep PROVE Inv'
<1>0. Shape /\ PassInv /\ MessageFirst(queue, objs) /\ objs \in Seq(Object)
  BY DEF Inv, Shape
<1>1. CASE Download
  <2>1. ~Idle /\ ~Idle' /\ pc = "capture" /\ pc' = "wrote" /\ disk' = disk \cup {Own}
        /\ UNCHANGED <<objs, caught, remote, queue, todo, cur>>
    BY <1>1 DEF Download, Idle, rows, pass
  <2>2. queue[1].kind = "message" /\ OfRow(queue[1]) /\ Message(queue[1])
    BY <1>0, <2>1 DEF PassInv, OfRow, Message
  <2>3. Own \in Id
    BY <2>1, <2>2, OwnInId
  <2>4. objs[Own].status = "pending"
    <3>1. queue # << >> /\ queue \in Seq(Entry)
      BY <1>0, <2>1 DEF Shape, Fit
    <3>2. 1 \in 1 .. Len(queue)
      BY <3>1
    <3> QED BY <1>0, <2>2, <3>2 DEF MessageFirst, Untouched, Own
  <2>5. PassInv'
    BY <2>1, <2>2 DEF PassInv, Uploading, Deleting, Own
  <2>6. BudgetInv'
    BY <2>1 DEF Inv, BudgetInv, Id
  <2>7. BytesInv'
    <3>1. ASSUME NEW p \in Id PROVE Recorded(objs[p], p \in disk', p \in remote)
      <4>1. Recorded(objs[p], p \in disk, p \in remote)
        BY DEF Inv, BytesInv
      <4> QED BY <2>1, <2>4, <4>1 DEF Recorded
    <3> QED BY <2>1, <3>1 DEF BytesInv, Id
  <2>8. Shape'
    <3>1. Fit(queue', Idle')
      BY <1>0, <2>1 DEF Shape, Fit
    <3> QED BY <1>0, <2>1, <3>1 DEF Shape, Id
  <2>9. MessageFirst(queue, objs)'
    BY <1>0, <2>1
  <2> QED BY <2>5, <2>6, <2>7, <2>8, <2>9 DEF Inv
<1>2. CASE CaptureFails
  <2>1. ~Idle /\ ~Idle' /\ pc = "capture" /\ pc' = "ran"
        /\ UNCHANGED <<caught, disk, remote, queue, todo, cur>>
        /\ objs' = [objs EXCEPT ![Own].capture = "failed"]
    BY <1>2 DEF CaptureFails, Idle, bytes, pass
  <2>2. queue[1].kind = "message" /\ OfRow(queue[1]) /\ Message(queue[1])
    BY <1>0, <2>1 DEF PassInv, OfRow, Message
  <2> PICK o \in Id : o = Own
    BY <2>1, <2>2, OwnInId
  <2>3. Written(o) /\ Set(o, "failed", objs[o].retention, objs[o].status, objs[o].tries, objs[o].dtries)
    BY <1>0, <2>1, CaptureRow DEF Capture
  <2>4. Budgeted(objs'[o]) /\ Recorded(objs'[o], o \in disk, o \in remote)
    BY <2>3 DEF Inv, BudgetInv, BytesInv, Budgeted, Recorded, Set
  <2>5. ASSUME NEW i \in 1 .. Len(queue), Message(queue[i]), queue[i].obj = o
        PROVE  Untouched(objs', queue, i)
    <3>1. Untouched(objs, queue, i)
      BY <1>0, <2>5 DEF MessageFirst
    <3> QED BY <2>3, <2>5, <3>1 DEF Untouched, Set
  <2>6. PassInv'
    BY <2>1, <2>2 DEF PassInv, Uploading, Deleting
  <2>7. todo' \subseteq Id /\ UNCHANGED bytes
    BY <1>0, <2>1 DEF Shape, bytes
  <2> QED BY <2>1, <2>3, <2>4, <2>5, <2>6, <2>7, WriteKeeps
<1>3. CASE Captured
  <2>1. /\ ~Idle /\ ~Idle' /\ pc = "wrote" /\ pc' = "ran"
        /\ UNCHANGED <<disk, remote, todo, cur>> /\ caught' = Append(caught, Own)
        /\ objs' = [objs EXCEPT ![Own].capture = "captured"]
        /\ queue' = queue \/ queue' = Append(queue, Sync(3))
    BY <1>3 DEF Captured, Enqueue, Idle, bytes, pass
  <2>2. queue[1].kind = "message" /\ OfRow(queue[1]) /\ Message(queue[1]) /\ Own \in disk
    BY <1>0, <2>1 DEF PassInv, OfRow, Message, Own
  <2> PICK o \in Id : o = Own
    BY <2>1, <2>2, OwnInId
  <2>3. Written(o) /\ Set(o, "captured", objs[o].retention, objs[o].status, objs[o].tries, objs[o].dtries)
    BY <1>0, <2>1, CaptureRow DEF Capture
  <2>4. objs[o].status = "pending"
    <3>1. queue # << >> /\ queue \in Seq(Entry)
      BY <1>0, <2>1 DEF Shape, Fit
    <3>2. 1 \in 1 .. Len(queue)
      BY <3>1
    <3> QED BY <1>0, <2>2, <3>2 DEF MessageFirst, Untouched, Own
  <2>5. Budgeted(objs'[o]) /\ Recorded(objs'[o], o \in disk, o \in remote)
    BY <2>2, <2>3, <2>4 DEF Inv, BudgetInv, Budgeted, Recorded, Set
  <2>6. ASSUME NEW i \in 1 .. Len(queue), Message(queue[i]), queue[i].obj = o
        PROVE  Untouched(objs', queue, i)
    <3>1. i = 1
      BY <1>0, <2>2, <2>6, OwnMessage
    <3> QED BY <2>3, <2>4, <2>6, <3>1 DEF Untouched, Set
  <2>7. queue'[1] = queue[1] => PassInv'
    BY <2>1, <2>2 DEF PassInv, Uploading, Deleting
  <2>8. todo' \subseteq Id /\ UNCHANGED bytes /\ caught' = Append(caught, o)
    BY <1>0, <2>1 DEF Shape, bytes
  <2> QED BY <2>1, <2>3, <2>5, <2>6, <2>7, <2>8, WriteKeeps
<1>4. CASE NothingToCapture
  <2>1. /\ Idle' = Idle /\ pc = "capture" /\ pc' = "ran" /\ SameRows /\ UNCHANGED <<queue, todo, cur>>
    BY <1>4 DEF NothingToCapture, Idle, SameRows, rows, bytes, pass
  <2>2. PassInv'
    BY <1>0, <2>1 DEF PassInv, Uploading, Deleting
  <2>3. todo' \subseteq Id
    BY <1>0, <2>1 DEF Shape
  <2> QED BY <2>1, <2>2, <2>3, MoveKeeps
<1>5. CASE MessageOver
  BY <1>5, OverKeeps DEF MessageOver, Over, Idle, SameRows, rows, bytes, pass
<1> QED BY <1>1, <1>2, <1>3, <1>4, <1>5 DEF CaptureStep

LEMMA CommandKeeps == ASSUME Inv, CommandStep PROVE Inv'
<1>0. Shape /\ PassInv /\ MessageFirst(queue, objs) /\ objs \in Seq(Object) /\ BudgetInv /\ BytesInv
  BY DEF Inv, Shape
<1>1. CASE \/ \E level \in Levels : SaveNothing(level)
           \/ ForgetNothing \/ ForgetLast
  <2>1. /\ Idle' = Idle /\ pc = "command" /\ pc' = "done" /\ SameRows /\ UNCHANGED <<queue, todo, cur>>
    BY <1>1 DEF SaveNothing, ForgetNothing, ForgetLast, Idle, SameRows, rows, bytes, pass
  <2>2. PassInv'
    BY <1>0, <2>1 DEF PassInv, Uploading, Deleting
  <2>3. todo' \subseteq Id
    BY <1>0, <2>1 DEF Shape
  <2> QED BY <2>1, <2>2, <2>3, MoveKeeps
<1>2. ASSUME NEW level \in Levels, NEW anchored \in BOOLEAN, Save(level, anchored) PROVE Inv'
  <2> PICK o : o = Last(caught)
    OBVIOUS
  <2>1. /\ ~Idle /\ ~Idle' /\ pc = "command" /\ pc' = "done"
        /\ UNCHANGED <<disk, remote, todo, cur, caught>> /\ caught # << >>
        /\ objs' = [objs EXCEPT ![o].retention = "long_term"]
        /\ queue' = queue \/ queue' = Append(queue, Sync(1))
    BY <1>2 DEF Save, EnqueueSaved, Enqueue, Idle, bytes, pass
  <2>2. o \in Id
    <3>1. caught \in Seq(Id)
      BY <1>0 DEF Shape
    <3> QED BY <2>1, <3>1 DEF Last
  <2>3. Written(o) /\ Set(o, objs[o].capture, "long_term", objs[o].status, objs[o].tries, objs[o].dtries)
    BY <1>0, <2>1, <2>2, RetainedRow
  <2>4. Budgeted(objs'[o]) /\ Recorded(objs'[o], o \in disk, o \in remote)
    BY <1>0, <2>2, <2>3 DEF BudgetInv, BytesInv, Budgeted, Recorded, Set
  <2>5. ASSUME NEW i \in 1 .. Len(queue), Message(queue[i]), queue[i].obj = o
        PROVE  Untouched(objs', queue, i)
    <3>1. Untouched(objs, queue, i)
      BY <1>0, <2>5 DEF MessageFirst
    <3> QED BY <2>3, <2>5, <3>1 DEF Untouched, Set
  <2>6. queue'[1] = queue[1] => PassInv'
    BY <1>0, <2>1 DEF PassInv, Uploading, Deleting
  <2>7. todo' \subseteq Id /\ UNCHANGED bytes
    BY <1>0, <2>1 DEF Shape, bytes
  <2> QED BY <2>1, <2>2, <2>3, <2>4, <2>5, <2>6, <2>7, WriteKeeps
<1>3. CASE Forget
  <2>1. /\ ~Idle /\ ~Idle' /\ pc = "command" /\ pc' = "done"
        /\ UNCHANGED <<disk, remote, todo, cur, caught>>
        /\ queue[1].kind = "forget" /\ objs[Own].status \notin Gone
        /\ objs' = [objs EXCEPT ![Own].status = "deletion_requested"]
        /\ queue' = queue \/ queue' = Append(queue, Sync(1))
    BY <1>3 DEF Forget, Enqueue, Idle, bytes, pass
  <2>2. OfRow(queue[1]) /\ ~Message(queue[1])
    BY <2>1 DEF OfRow, Message
  <2> PICK o \in Id : o = Own
    BY <2>1, <2>2, OwnInId
  <2>3. Written(o)
        /\ Set(o, objs[o].capture, objs[o].retention, "deletion_requested", objs[o].tries, objs[o].dtries)
    BY <1>0, <2>1, StatusRow DEF Status
  <2>4. Budgeted(objs'[o]) /\ Recorded(objs'[o], o \in disk, o \in remote)
    BY <1>0, <2>1, <2>3, StorageAssumption DEF BudgetInv, Budgeted, Recorded, Set, Gone
  <2>5. ASSUME NEW i \in 1 .. Len(queue), Message(queue[i]), queue[i].obj = o
        PROVE  Untouched(objs', queue, i)
    <3>1. i = 1
      BY <1>0, <2>2, <2>5, OwnMessage
    <3> QED BY <2>2, <2>5, <3>1
  <2>6. queue'[1] = queue[1] => PassInv'
    BY <1>0, <2>1 DEF PassInv, Uploading, Deleting
  <2>7. todo' \subseteq Id /\ UNCHANGED bytes
    BY <1>0, <2>1 DEF Shape, bytes
  <2> QED BY <2>1, <2>3, <2>4, <2>5, <2>6, <2>7, WriteKeeps
<1>4. CASE CommandOver
  BY <1>4, OverKeeps DEF CommandOver, Over, Idle, SameRows, rows, bytes, pass
<1> QED BY <1>1, <1>2, <1>3, <1>4 DEF CommandStep

LEMMA SummaryKeeps == ASSUME Inv, SummaryStep PROVE Inv'
<1>0. Shape /\ PassInv /\ MessageFirst(queue, objs) /\ objs \in Seq(Object) /\ BudgetInv /\ BytesInv
  BY DEF Inv, Shape
<1>1. ASSUME NEW written \in BOOLEAN, SummaryOver(written) PROVE Inv'
  BY <1>1, OverKeeps DEF SummaryOver, Idle, SameRows, rows, bytes, pass
<1>2. ASSUME NEW level \in Levels, SnapshotBlocked(level) PROVE Inv'
  <2>1. /\ Idle /\ Idle' /\ pc' = "idle" /\ SameRows /\ UNCHANGED <<queue, todo, cur>>
    BY <1>2 DEF SnapshotBlocked, Idle, SameRows, rows, bytes, pass
  <2>2. PassInv'
    BY <2>1 DEF PassInv, Uploading, Deleting
  <2>3. todo' \subseteq Id /\ Idle' = Idle
    BY <1>0, <2>1 DEF Shape, Idle
  <2> QED BY <2>1, <2>2, <2>3, MoveKeeps
<1>3. ASSUME NEW level \in Levels, Snapshot(level) PROVE Inv'
  <2> PICK n : n = Len(objs) + 1
    OBVIOUS
  <2>1. /\ Idle /\ pc' = "idle" /\ objs' = Append(objs, SnapshotRow) /\ disk' = disk \cup {n}
        /\ UNCHANGED <<caught, remote, todo, cur>>
        /\ queue' = queue \/ queue' = Append(queue, Sync(1))
    BY <1>3 DEF Snapshot, Enqueue, Idle, pass
  <2>2. /\ SnapshotRow \in Object /\ SnapshotRow.status = "pending" /\ SnapshotRow.tries = 0
        /\ SnapshotRow.dtries = 0
    BY DEF SnapshotRow, Attachment, Object, Capture, Status
  <2>3. n \notin Id
    BY <1>0 DEF Id
  <2>4. /\ BudgetInv' /\ BytesInv' /\ Id \subseteq Id' /\ n \in Id'
        /\ objs' \in Seq(Object) /\ Len(objs') = n
        /\ \A p \in Id : objs'[p] = objs[p]
    <3>1. (\A p \in Id : p \in disk' <=> p \in disk) /\ n \in disk' /\ remote' = remote
      BY <2>1, <2>3
    <3> QED BY <1>0, <2>1, <2>2, <3>1, NewRow
  <2>5. MessageFirst(queue, objs')
    <3>1. \A o \in 1 .. Len(objs) :
            objs'[o].status = objs[o].status /\ objs'[o].capture = objs[o].capture
      BY <2>4 DEF Id
    <3>2. Calm(queue, objs')
      BY <1>0, <3>1, CalmSame
    <3>3. Len(objs) <= Len(objs')
      BY <1>0, <2>4
    <3> QED BY <1>0, <2>4, <3>2, <3>3, FirstKept
  <2>6. Fit(queue, TRUE) /\ queue \in Seq(Entry)
    BY <1>0, <2>1 DEF Shape, Fit
  <2>7. Fit(queue', TRUE) /\ MessageFirst(queue', objs')
    <3>1. CASE queue' = queue
      BY <2>5, <2>6, <3>1
    <3>2. CASE queue' = Append(queue, Sync(1))
      <4>1. /\ Sync(1) \in Entry /\ Sync(1).left > 0 /\ ~OfRow(Sync(1)) /\ ~Message(Sync(1))
        BY DEF Sync, Entry, Kinds, OfRow, Message
      <4>2. TRUE \in BOOLEAN
        OBVIOUS
      <4>3. Fit(queue', TRUE)
        BY <2>6, <3>2, <4>1, <4>2, FitAppend, Zenon
      <4>4. MessageFirst(queue', objs')
        BY <2>5, <2>6, <3>2, <4>1, FirstAppend
      <4> QED BY <4>3, <4>4
    <3> QED BY <2>1, <3>1, <3>2
  <2>8. Shape'
    <3>0. Idle'
      BY <2>1 DEF Idle
    <3>1. Fit(queue', Idle')
      BY <2>7, <3>0 DEF Fit
    <3>2. caught' \in Seq(Id')
      BY <1>0, <2>1, <2>4, SeqGrows DEF Shape
    <3> QED BY <1>0, <2>1, <2>4, <3>1, <3>2 DEF Shape
  <2>9. PassInv'
    BY <2>1 DEF PassInv, Uploading, Deleting
  <2> QED BY <2>4, <2>7, <2>8, <2>9 DEF Inv
<1> QED BY <1>1, <1>2, <1>3 DEF SummaryStep

-----------------------------------------------------------------------------
(* The sync job.                                                           *)

LEMMA InMark ==
  /\ Uploaded => MarkedUploaded(cur)
  /\ Deleted => MarkedDeleted(cur)
  /\ \A o \in Id, taken \in BOOLEAN : DeleteFails(o, taken) => MarkedDeleteFailed(o)
  BY DEF Uploaded, MarkedUploaded, Deleted, MarkedDeleted, DeleteFails, MarkedDeleteFailed

(* A pass writes the row of o; what it told S3 concerns o alone.           *)
LEMMA PassWrites ==
  ASSUME Inv, NEW o \in Id, Written(o), Budgeted(objs'[o]), disk' = disk,
         \A p \in Id : p # o => (p \in remote' <=> p \in remote),
         Recorded(objs'[o], o \in disk, o \in remote'),
         objs[o].status # "pending" \/ objs[o].capture = "captured",
         queue[1].kind = "sync", UNCHANGED <<queue, caught>>, todo' \subseteq Id,
         ~Idle, ~Idle', PassInv'
  PROVE  Inv'
<1>0. Shape /\ Fit(queue, FALSE) /\ MessageFirst(queue, objs) /\ BudgetInv /\ BytesInv
  BY DEF Inv, Shape, Fit
<1>1. Id' = Id /\ objs' \in Seq(Object)
  BY DEF Written, Id
<1>2. MessageFirst(queue, objs')
  <2>1. \A i \in 1 .. Len(queue) : Message(queue[i]) => queue[i].obj # o
    BY <1>0, NoMessage DEF Message
  <2> QED BY <1>0, <2>1, CalmWritten
<1>3. MessageFirst(queue, objs)'
  BY <1>2
<1>4. Fit(queue', Idle')
  BY <1>0 DEF Fit
<1>5. Shape'
  BY <1>0, <1>1, <1>4 DEF Shape
<1>6. BudgetInv'
  BY <1>0, BudgetWritten
<1>7. BytesInv'
  <2>1. ASSUME NEW p \in Id, p # o PROVE Recorded(objs'[p], p \in disk', p \in remote')
    <3>1. objs'[p] = objs[p] /\ Recorded(objs[p], p \in disk, p \in remote)
      BY <1>0, <2>1 DEF Written, BytesInv
    <3> QED BY <2>1, <3>1 DEF Recorded
  <2>2. Recorded(objs'[o], o \in disk', o \in remote')
    BY DEF Recorded
  <2> QED BY <1>1, <2>1, <2>2 DEF BytesInv
<1> QED BY <1>3, <1>5, <1>6, <1>7 DEF Inv

(* S3 or the disk is told about o; no row is written.                      *)
LEMMA TellsKeeps ==
  ASSUME Inv, NEW o \in Id, UNCHANGED <<objs, caught, queue, todo>>, ~Idle, ~Idle', PassInv',
         \A p \in Id : p # o => (p \in remote' <=> p \in remote) /\ (p \in disk' <=> p \in disk),
         Recorded(objs[o], o \in disk', o \in remote')
  PROVE  Inv'
<1>0. Shape /\ Fit(queue, FALSE) /\ BudgetInv /\ BytesInv
  BY DEF Inv, Shape, Fit
<1>1. Fit(queue', Idle')
  BY <1>0 DEF Fit
<1>2. Shape'
  BY <1>0, <1>1 DEF Shape, Id
<1>3. MessageFirst(queue, objs)' /\ BudgetInv'
  BY <1>0 DEF Inv, BudgetInv, Id
<1>4. BytesInv'
  <2>1. ASSUME NEW p \in Id PROVE Recorded(objs[p], p \in disk', p \in remote')
    <3>1. CASE p = o
      BY <3>1
    <3>2. CASE p # o
      <4>1. Recorded(objs[p], p \in disk, p \in remote)
        BY <1>0 DEF BytesInv
      <4> QED BY <3>2, <4>1 DEF Recorded
    <3> QED BY <3>1, <3>2
  <2> QED BY <2>1 DEF BytesInv, Id
<1> QED BY <1>2, <1>3, <1>4 DEF Inv

LEMMA UploadKeeps == ASSUME Inv, UploadStep PROVE Inv'
<1>0. Shape /\ PassInv /\ MessageFirst(queue, objs) /\ objs \in Seq(Object) /\ BudgetInv /\ BytesInv
  BY DEF Inv, Shape
<1>1. ASSUME NEW o \in Id, RependUpload(o) PROVE Inv'
  <2>1. /\ ~Idle /\ ~Idle' /\ pc = "sched" /\ pc' = "sched"
        /\ UNCHANGED <<disk, remote, queue, caught, todo, cur>>
        /\ objs' = [objs EXCEPT ![o].status = "pending"]
        /\ objs[o].status = "failed" /\ objs[o].capture = "captured" /\ objs[o].tries < MaxTries
    BY <1>1 DEF RependUpload, UploadsAgain, FailedUploads, HasBudget, Idle, bytes, pass
  <2>2. Written(o)
        /\ Set(o, objs[o].capture, objs[o].retention, "pending", objs[o].tries, objs[o].dtries)
    BY <1>0, <2>1, StatusRow DEF Status
  <2>3. Budgeted(objs'[o]) /\ Recorded(objs'[o], o \in disk, o \in remote)
    BY <1>0, <2>1, <2>2 DEF BudgetInv, BytesInv, Budgeted, Recorded, Set, Gone
  <2>4. queue[1].kind = "sync" /\ PassInv'
    BY <1>0, <2>1 DEF PassInv, Uploading, Deleting
  <2>5. todo' \subseteq Id
    BY <1>0, <2>1 DEF Shape
  <2> QED BY <2>1, <2>2, <2>3, <2>4, <2>5, PassWrites
<1>2. ASSUME NEW o \in Id, RependDelete(o) PROVE Inv'
  <2>1. /\ ~Idle /\ ~Idle' /\ pc = "sched" /\ pc' = "sched"
        /\ UNCHANGED <<disk, remote, queue, caught, todo, cur>>
        /\ objs' = [objs EXCEPT ![o].status = "deletion_requested"]
        /\ objs[o].status = "delete_failed" /\ objs[o].dtries < MaxTries
    BY <1>2 DEF RependDelete, DeletesAgain, HasBudget, Idle, bytes, pass
  <2>2. Written(o)
        /\ Set(o, objs[o].capture, objs[o].retention, "deletion_requested", objs[o].tries, objs[o].dtries)
    BY <1>0, <2>1, StatusRow DEF Status
  <2>3. Budgeted(objs'[o]) /\ Recorded(objs'[o], o \in disk, o \in remote)
    BY <1>0, <2>1, <2>2 DEF BudgetInv, BytesInv, Budgeted, Recorded, Set, Gone
  <2>4. queue[1].kind = "sync" /\ PassInv'
    BY <1>0, <2>1 DEF PassInv, Uploading, Deleting
  <2>5. todo' \subseteq Id
    BY <1>0, <2>1 DEF Shape
  <2> QED BY <2>1, <2>2, <2>3, <2>4, <2>5, PassWrites
<1>3. ASSUME NEW level \in Levels, StartUploads(level) PROVE Inv'
  <2>1. /\ Idle' = Idle /\ pc = "sched" /\ pc' = "upload" /\ SameRows /\ UNCHANGED <<queue, cur>>
        /\ todo' = Selected(level)
    BY <1>3 DEF StartUploads, Idle, SameRows, rows, bytes
  <2>2. todo' \subseteq Eligibles
    BY <2>1 DEF Selected
  <2>3. todo' \subseteq Id /\ \A o \in todo' : objs[o].status = "pending" /\ objs[o].capture = "captured"
    BY <2>2 DEF Eligibles, Eligible
  <2>4. PassInv'
    BY <1>0, <2>1, <2>3 DEF PassInv, Uploading, Deleting, SameRows
  <2> QED BY <2>1, <2>3, <2>4, MoveKeeps
<1>4. ASSUME NEW o \in Id, Put(o) PROVE Inv'
  <2>1. /\ ~Idle /\ ~Idle' /\ pc = "upload" /\ pc' = "stored" /\ o \in todo
        /\ UNCHANGED <<objs, caught, disk, queue, todo>> /\ cur' = o /\ remote' = remote \cup {o}
    BY <1>4 DEF Put, Oldest, Idle, rows
  <2>2. objs[o].status = "pending" /\ queue[1].kind = "sync"
    BY <1>0, <2>1 DEF PassInv, Uploading
  <2>3. Recorded(objs[o], o \in disk', o \in remote')
    BY <1>0, <2>1, <2>2 DEF BytesInv, Recorded
  <2>4. PassInv'
    BY <1>0, <2>1, <2>2 DEF PassInv, Uploading, Deleting
  <2>5. \A p \in Id : p # o => (p \in remote' <=> p \in remote) /\ (p \in disk' <=> p \in disk)
    BY <2>1
  <2> QED BY <2>1, <2>3, <2>4, <2>5, TellsKeeps
<1>5. ASSUME NEW o \in Id, NEW taken \in BOOLEAN, PutFails(o, taken) PROVE Inv'
  <2>1. /\ ~Idle /\ ~Idle' /\ pc = "upload" /\ pc' = "upload" /\ o \in todo
        /\ UNCHANGED <<caught, disk, queue, cur>> /\ todo' = todo \ {o}
        /\ remote' = remote \/ remote' = remote \cup {o}
        /\ Failed(o)
    BY <1>5 DEF PutFails, Oldest, Idle
  <2>2. /\ objs[o].status = "pending" /\ objs[o].capture = "captured" /\ queue[1].kind = "sync"
        /\ \A p \in todo : objs[p].status = "pending" /\ objs[p].capture = "captured"
    BY <1>0, <2>1 DEF PassInv, Uploading
  <2>3. Written(o)
        /\ Set(o, objs[o].capture, objs[o].retention, "failed", objs[o].tries + 1, objs[o].dtries)
    BY <1>0, <2>1, <2>2, FailedRow
  <2>4. Budgeted(objs'[o])
    <3>1. objs[o] \in Object /\ Budgeted(objs[o]) /\ MaxTries \in Nat
      BY <1>0, RowOK, StorageAssumption DEF BudgetInv
    <3>2. objs[o].tries < MaxTries /\ objs[o].tries \in Nat /\ objs[o].dtries = 0
      BY <2>2, <3>1 DEF Budgeted, Object, Gone
    <3> QED BY <2>3, <3>1, <3>2 DEF Budgeted, Set
  <2>5. Recorded(objs'[o], o \in disk, o \in remote')
    BY <1>0, <2>2, <2>3 DEF BytesInv, Recorded, Set, Gone
  <2>6. todo' \subseteq Id /\ todo' \subseteq todo /\ o \notin todo'
    BY <1>0, <2>1 DEF Shape
  <2>7. \A p \in todo' : objs'[p] = objs[p]
    BY <2>3, <2>6 DEF Written
  <2>8. PassInv'
    BY <1>0, <2>1, <2>2, <2>6, <2>7 DEF PassInv, Uploading, Deleting
  <2>9. \A p \in Id : p # o => (p \in remote' <=> p \in remote)
    BY <2>1
  <2> QED BY <2>1, <2>2, <2>3, <2>4, <2>5, <2>6, <2>8, <2>9, PassWrites
<1>6. CASE Uploaded
  <2>1. /\ ~Idle /\ ~Idle' /\ pc = "stored" /\ pc' = "upload"
        /\ UNCHANGED <<caught, disk, remote, queue, cur>> /\ todo' = todo \ {cur}
        /\ MarkedUploaded(cur)
    BY <1>6, InMark DEF Uploaded, Idle, bytes
  <2> PICK o : o = cur
    OBVIOUS
  <2>2. /\ o \in Id /\ o \in remote /\ objs[o].status = "pending" /\ objs[o].capture = "captured"
        /\ queue[1].kind = "sync"
        /\ \A p \in todo : objs[p].status = "pending" /\ objs[p].capture = "captured"
    BY <1>0, <2>1 DEF PassInv, Uploading, Shape
  <2>3. Written(o)
        /\ Set(o, objs[o].capture, objs[o].retention, "uploaded", 0, objs[o].dtries)
    BY <1>0, <2>1, <2>2, UploadedRow
  <2>4. Budgeted(objs'[o])
    <3>1. Budgeted(objs[o]) /\ MaxTries \in Nat
      BY <1>0, <2>2, StorageAssumption DEF BudgetInv
    <3> QED BY <2>2, <2>3, <3>1 DEF Budgeted, Set, Gone
  <2>5. Recorded(objs'[o], o \in disk, o \in remote')
    BY <1>0, <2>1, <2>2, <2>3 DEF BytesInv, Recorded, Set, Gone
  <2>6. todo' \subseteq Id /\ todo' \subseteq todo /\ o \notin todo'
    BY <1>0, <2>1 DEF Shape
  <2>7. \A p \in todo' : objs'[p] = objs[p]
    BY <2>3, <2>6 DEF Written
  <2>8. PassInv'
    BY <1>0, <2>1, <2>2, <2>6, <2>7 DEF PassInv, Uploading, Deleting
  <2> QED BY <2>1, <2>2, <2>3, <2>4, <2>5, <2>6, <2>8, PassWrites
<1> QED BY <1>1, <1>2, <1>3, <1>4, <1>5, <1>6 DEF UploadStep

LEMMA DeleteKeeps == ASSUME Inv, DeleteStep PROVE Inv'
<1>0. Shape /\ PassInv /\ MessageFirst(queue, objs) /\ objs \in Seq(Object) /\ BudgetInv /\ BytesInv
  BY DEF Inv, Shape
<1>1. CASE StartDeletes
  <2>1. /\ Idle' = Idle /\ pc = "upload" /\ pc' = "delete" /\ SameRows /\ UNCHANGED <<queue, cur>>
        /\ todo' = Requested
    BY <1>1 DEF StartDeletes, Idle, SameRows, rows, bytes
  <2>2. todo' \subseteq Id /\ \A o \in todo' : objs[o].status = "deletion_requested"
    BY <2>1 DEF Requested
  <2>3. PassInv'
    BY <1>0, <2>1, <2>2 DEF PassInv, Uploading, Deleting, SameRows
  <2> QED BY <2>1, <2>2, <2>3, MoveKeeps
<1>2. ASSUME NEW o \in Id, Delete(o) PROVE Inv'
  <2>1. /\ ~Idle /\ ~Idle' /\ pc = "delete" /\ pc' = "removed" /\ o \in todo
        /\ UNCHANGED <<objs, caught, disk, queue, todo>> /\ cur' = o /\ remote' = remote \ {o}
    BY <1>2 DEF Delete, Idle, rows
  <2>2. objs[o].status = "deletion_requested" /\ queue[1].kind = "sync"
    BY <1>0, <2>1 DEF PassInv, Deleting
  <2>3. Recorded(objs[o], o \in disk', o \in remote')
    BY <2>2 DEF Recorded, Gone
  <2>4. PassInv'
    BY <1>0, <2>1, <2>2 DEF PassInv, Uploading, Deleting
  <2>5. \A p \in Id : p # o => (p \in remote' <=> p \in remote) /\ (p \in disk' <=> p \in disk)
    BY <2>1
  <2> QED BY <2>1, <2>3, <2>4, <2>5, TellsKeeps
<1>3. ASSUME NEW o \in Id, NEW taken \in BOOLEAN, DeleteFails(o, taken) PROVE Inv'
  <2>1. /\ ~Idle /\ ~Idle' /\ pc = "delete" /\ pc' = "delete" /\ o \in todo
        /\ UNCHANGED <<caught, disk, queue, cur>> /\ todo' = todo \ {o}
        /\ remote' = remote \/ remote' = remote \ {o}
        /\ MarkedDeleteFailed(o)
    BY <1>3, InMark DEF DeleteFails, Idle
  <2>2. /\ objs[o].status = "deletion_requested" /\ queue[1].kind = "sync"
        /\ \A p \in todo : objs[p].status = "deletion_requested"
    BY <1>0, <2>1 DEF PassInv, Deleting
  <2>3. Written(o)
        /\ Set(o, objs[o].capture, objs[o].retention, "delete_failed", objs[o].tries, objs[o].dtries + 1)
    BY <1>0, <2>1, <2>2, DeleteFailedRow
  <2>4. Budgeted(objs'[o])
    <3>1. objs[o] \in Object /\ Budgeted(objs[o]) /\ MaxTries \in Nat
      BY <1>0, RowOK, StorageAssumption DEF BudgetInv
    <3>2. objs[o].tries <= MaxTries /\ objs[o].dtries < MaxTries /\ objs[o].dtries \in Nat
      BY <2>2, <3>1 DEF Budgeted, Object
    <3> QED BY <2>3, <3>1, <3>2 DEF Budgeted, Set, Gone
  <2>5. Recorded(objs'[o], o \in disk, o \in remote')
    BY <2>3 DEF Recorded, Set, Gone
  <2>6. todo' \subseteq Id /\ todo' \subseteq todo /\ o \notin todo'
    BY <1>0, <2>1 DEF Shape
  <2>7. \A p \in todo' : objs'[p] = objs[p]
    BY <2>3, <2>6 DEF Written
  <2>8. PassInv'
    BY <1>0, <2>1, <2>2, <2>6, <2>7 DEF PassInv, Uploading, Deleting
  <2>9. \A p \in Id : p # o => (p \in remote' <=> p \in remote)
    BY <2>1
  <2> QED BY <2>1, <2>2, <2>3, <2>4, <2>5, <2>6, <2>8, <2>9, PassWrites
<1>4. CASE RemoveLocal
  <2>1. /\ ~Idle /\ ~Idle' /\ pc = "removed" /\ pc' = "unlinked"
        /\ UNCHANGED <<objs, caught, remote, queue, todo, cur>> /\ disk' = disk \ {cur}
    BY <1>4 DEF RemoveLocal, Idle, rows, pass
  <2>2. /\ cur \in Id /\ objs[cur].status = "deletion_requested"
        /\ PassInv'
    BY <1>0, <2>1 DEF PassInv, Uploading, Deleting, Shape
  <2>3. Recorded(objs[cur], cur \in disk', cur \in remote')
    BY <2>2 DEF Recorded, Gone
  <2>4. \A p \in Id : p # cur => (p \in remote' <=> p \in remote) /\ (p \in disk' <=> p \in disk)
    BY <2>1
  <2> QED BY <2>1, <2>2, <2>3, <2>4, TellsKeeps
<1>5. CASE Deleted
  <2>1. /\ ~Idle /\ ~Idle' /\ pc = "unlinked" /\ pc' = "delete"
        /\ UNCHANGED <<caught, disk, remote, queue, cur>> /\ todo' = todo \ {cur}
        /\ MarkedDeleted(cur)
    BY <1>5, InMark DEF Deleted, Idle, bytes
  <2> PICK o : o = cur
    OBVIOUS
  <2>2. /\ o \in Id /\ o \notin remote /\ o \notin disk /\ objs[o].status = "deletion_requested"
        /\ queue[1].kind = "sync"
        /\ \A p \in todo : objs[p].status = "deletion_requested"
    BY <1>0, <2>1 DEF PassInv, Deleting, Shape
  <2>3. Written(o) /\ Set(o, objs[o].capture, objs[o].retention, "deleted", 0, 0)
    BY <1>0, <2>1, <2>2, DeletedRow
  <2>4. Budgeted(objs'[o]) /\ Recorded(objs'[o], o \in disk, o \in remote')
    BY <2>1, <2>2, <2>3, StorageAssumption DEF Budgeted, Recorded, Set, Gone
  <2>5. todo' \subseteq Id /\ todo' \subseteq todo /\ o \notin todo'
    BY <1>0, <2>1 DEF Shape
  <2>6. \A p \in todo' : objs'[p] = objs[p]
    BY <2>3, <2>5 DEF Written
  <2>7. PassInv'
    BY <1>0, <2>1, <2>2, <2>5, <2>6 DEF PassInv, Uploading, Deleting
  <2> QED BY <2>1, <2>2, <2>3, <2>4, <2>5, <2>7, PassWrites
<1>6. CASE SyncOver
  BY <1>6, OverKeeps DEF SyncOver, Over, Idle, SameRows, rows, bytes, pass
<1> QED BY <1>1, <1>2, <1>3, <1>4, <1>5, <1>6 DEF DeleteStep

-----------------------------------------------------------------------------
(* The whole.                                                              *)

LEMMA Initially == ASSUME Init PROVE Inv
<1>1. Idle /\ objs = << >> /\ caught = << >> /\ queue = << >> /\ todo = {} /\ pc = "idle"
  BY DEF Init, Idle
<1>2. Id = {}
  BY <1>1 DEF Id
<1>3. Fit(queue, Idle)
  BY <1>1 DEF Fit
<1>4. Shape
  <2>1. objs \in Seq(Object) /\ caught \in Seq(Id) /\ todo \subseteq Id
    BY <1>1
  <2> QED BY <1>3, <2>1 DEF Shape
<1>5. MessageFirst(queue, objs)
  BY <1>1 DEF MessageFirst
<1>6. PassInv
  BY <1>1 DEF PassInv, Uploading, Deleting
<1>7. BudgetInv /\ BytesInv
  BY <1>2 DEF BudgetInv, BytesInv
<1> QED BY <1>4, <1>5, <1>6, <1>7 DEF Inv

LEMMA StutterKeeps == ASSUME Inv, UNCHANGED vars PROVE Inv'
<1>1. SameRows /\ UNCHANGED <<queue, pc, todo, cur>>
  BY DEF vars, rows, bytes, pass, SameRows
<1>2. Idle' = Idle /\ todo' \subseteq Id
  BY <1>1 DEF Idle, Inv, Shape
<1>3. PassInv'
  BY <1>1 DEF Inv, PassInv, Uploading, Deleting, SameRows
<1> QED BY <1>1, <1>2, <1>3, MoveKeeps

(* The inductive invariant holds: message jobs come before what else is     *)
(* asked of their row, a pass works on the rows it selected, and every row  *)
(* has tries left for what its status says is to be done.                  *)
THEOREM Invariance == Spec => []Inv
<1>1. Inv /\ [Next]_vars => Inv'
  <2> SUFFICES ASSUME Inv, [Next]_vars PROVE Inv'
    OBVIOUS
  <2> QED BY PollerKeeps, ClaimKeeps, CaptureKeeps, CommandKeeps, SummaryKeeps, UploadKeeps,
             DeleteKeeps, RestartKeeps, StutterKeeps DEF Next, Worker
<1> QED BY <1>1, Initially, PTL DEF Spec

(* What a row says of its bytes is where they are: a row is "uploaded" only  *)
(* with its bytes in the bucket, "deleted" only with none left anywhere, and *)
(* a captured artifact nobody forgot is on the disk, whatever answers of S3  *)
(* were lost and wherever the process died (sync.ts:123-186, :340-350).      *)
THEOREM BytesWhereRecorded == Spec => []BytesAsRecorded
  BY Invariance, Means, PTL

(* No row is tried more often than its budget, for uploads and for deletions *)
(* apart, over any number of jobs and restarts (sync.ts:188-269, :352-383).  *)
THEOREM BudgetsKept == Spec => []BudgetsHold
  BY Invariance, Means, PTL

-----------------------------------------------------------------------------
(* Folds over finite sets.                                                 *)

(* A set of numbers has a least one, and so there is induction over them,   *)
(* for a set of numbers.                                                   *)
LEMMA Least ==
  ASSUME NEW N \in SUBSET Nat, N # {}
  PROVE  \E n \in N : \A m \in N : n <= m
<1>1. \E n \in N : \A m \in N : ~ (<<m, n>> \in OpToRel(<, Nat))
  BY NatLessThanWellFounded, WFMin
<1>2. \E n \in N : \A m \in N : ~ (m < n)
  BY <1>1, Zenon DEF OpToRel
<1> QED
  BY <1>2

LEMMA Numbers ==
  ASSUME NEW P \in SUBSET Nat, 0 \in P, \A n \in P : n + 1 \in P
  PROVE  P = Nat
<1> SUFFICES ASSUME Nat \ P # {} PROVE FALSE
  OBVIOUS
<1>1. Nat \ P \in SUBSET Nat
  OBVIOUS
<1>2. PICK n \in Nat \ P : \A m \in Nat \ P : n <= m
  BY <1>1, Least
<1>3. n - 1 \in P
  BY <1>2
<1> QED
  BY <1>3

(* The subsets of a set with so many elements at most.                     *)
Small(S, n) == {T \in SUBSET S : Cardinality(T) <= n}

LEMMA Smalls ==
  ASSUME NEW S, IsFiniteSet(S)
  PROVE  /\ \A n \in Nat : {} \in Small(S, n)
         /\ Small(S, 0) = {{}}
         /\ Small(S, Cardinality(S)) = SUBSET S
         /\ \A n \in Nat : \A T \in Small(S, n) : T \in SUBSET S /\ T \in Small(S, n + 1)
         /\ \A n \in Nat : \A T \in Small(S, n + 1) : \A x \in T :
              x \in S /\ T \ {x} \in Small(S, n)
<1>1. \A T \in SUBSET S : IsFiniteSet(T) /\ Cardinality(T) \in Nat /\ Cardinality(T) <= Cardinality(S)
  BY FS_Subset, FS_CardinalityType
<1>2. \A T \in SUBSET S : Cardinality(T) = 0 <=> T = {}
  BY <1>1, FS_EmptySet
<1>3. \A T \in SUBSET S : \A x \in T : Cardinality(T \ {x}) = Cardinality(T) - 1
  BY <1>1, FS_RemoveElement
<1>4. \A n \in Nat : {} \in Small(S, n)
  BY FS_EmptySet DEF Small
<1>5. Small(S, 0) = {{}}
  <2>1. ASSUME NEW T \in Small(S, 0) PROVE T = {}
    <3>1. T \in SUBSET S /\ Cardinality(T) <= 0
      BY DEF Small
    <3>2. Cardinality(T) = 0
      BY <1>1, <3>1
    <3> QED
      BY <1>2, <3>1, <3>2
  <2> QED
    BY <1>4, <2>1
<1>6. Small(S, Cardinality(S)) = SUBSET S
  BY <1>1 DEF Small
<1>7. \A n \in Nat : \A T \in Small(S, n) : T \in SUBSET S /\ T \in Small(S, n + 1)
  BY <1>1 DEF Small
<1>8. ASSUME NEW n \in Nat, NEW T \in Small(S, n + 1), NEW x \in T
      PROVE  x \in S /\ T \ {x} \in Small(S, n)
  <2>1. T \in SUBSET S /\ Cardinality(T) <= n + 1 /\ T \ {x} \in SUBSET S
    BY DEF Small
  <2>2. Cardinality(T \ {x}) = Cardinality(T) - 1 /\ Cardinality(T) \in Nat
    BY <1>1, <1>3, <2>1
  <2>3. Cardinality(T \ {x}) <= n
    BY <2>1, <2>2
  <2> QED
    BY <2>1, <2>3 DEF Small
<1> QED
  BY <1>4, <1>5, <1>6, <1>7, <1>8

(* What a fold over the subsets of a finite set computes is a function that *)
(* satisfies the equation of the fold.                                     *)
Fold(g, S, c, base, op) ==
  g = [T \in SUBSET S |-> IF T = {} THEN base ELSE op[c[T]][g[T \ {c[T]}]]]
Chooses(c, S) == \A T \in SUBSET S : T # {} => c[T] \in T
FoldsAt(g, T, c, base, op) ==
  /\ T = {} => g[T] = base
  /\ T # {} => g[T] = op[c[T]][g[T \ {c[T]}]]

LEMMA FoldFurther ==
  ASSUME NEW S, IsFiniteSet(S), NEW c, Chooses(c, S), NEW A, NEW base \in A, NEW op,
         \A s \in S, a \in A : op[s][a] \in A,
         NEW n \in Nat, NEW g \in [Small(S, n) -> A],
         \A T \in Small(S, n) : FoldsAt(g, T, c, base, op)
  PROVE  \E h \in [Small(S, n + 1) -> A] :
           \A T \in Small(S, n + 1) : FoldsAt(h, T, c, base, op)
<1> DEFINE v(T) == IF T = {} THEN base ELSE op[c[T]][g[T \ {c[T]}]]
           h == [T \in Small(S, n + 1) |-> v(T)]
<1>1. ASSUME NEW T \in Small(S, n + 1), T # {}
      PROVE  c[T] \in S /\ T \ {c[T]} \in Small(S, n)
  <2>1. T \in SUBSET S
    BY DEF Small
  <2>2. c[T] \in T
    BY <1>1, <2>1 DEF Chooses
  <2> QED
    BY <2>2, Smalls
<1>2. ASSUME NEW T \in Small(S, n + 1) PROVE v(T) \in A
  <2>1. CASE T = {}
    BY <2>1
  <2>2. CASE T # {}
    <3>1. c[T] \in S /\ g[T \ {c[T]}] \in A
      BY <1>1, <2>2
    <3>2. op[c[T]][g[T \ {c[T]}]] \in A
      BY <3>1
    <3> QED
      BY <2>2, <3>2
  <2> QED
    BY <2>1, <2>2
<1>3. ASSUME NEW T \in Small(S, n) PROVE v(T) = g[T]
  BY DEF FoldsAt
<1>4. \A T \in Small(S, n) : T \in Small(S, n + 1)
  BY Smalls
<1> HIDE DEF v
<1>5. h \in [Small(S, n + 1) -> A]
  BY <1>2
<1>6. \A T \in Small(S, n) : h[T] = g[T]
  BY <1>3, <1>4
<1>7. ASSUME NEW T \in Small(S, n + 1) PROVE FoldsAt(h, T, c, base, op)
  <2>1. h[T] = v(T)
    OBVIOUS
  <2>2. T # {} => h[T \ {c[T]}] = g[T \ {c[T]}]
    BY <1>1, <1>6
  <2> HIDE DEF h
  <2> QED
    BY <2>1, <2>2 DEF FoldsAt, v
<1> HIDE DEF h
<1> QED
  BY <1>5, <1>7

LEMMA FoldExists ==
  ASSUME NEW S, IsFiniteSet(S), NEW c, Chooses(c, S), NEW A, NEW base \in A, NEW op,
         \A s \in S, a \in A : op[s][a] \in A
  PROVE  \E g \in [SUBSET S -> A] : Fold(g, S, c, base, op)
<1> DEFINE Upto(n) == \E g \in [Small(S, n) -> A] :
                        \A T \in Small(S, n) : FoldsAt(g, T, c, base, op)
           P == {n \in Nat : Upto(n)}
<1>1. Upto(0)
  <2> DEFINE g == [T \in {{}} |-> base]
  <2>1. g \in [Small(S, 0) -> A] /\ \A T \in Small(S, 0) : FoldsAt(g, T, c, base, op)
    BY Smalls DEF FoldsAt
  <2> QED
    BY <2>1
<1>2. ASSUME NEW n \in Nat, Upto(n) PROVE Upto(n + 1)
  BY <1>2, FoldFurther
<1> HIDE DEF Upto
<1>3. P \in SUBSET Nat /\ 0 \in P /\ \A n \in P : n + 1 \in P
  BY <1>1, <1>2
<1>4. P = Nat
  BY <1>3, Numbers
<1>5. Upto(Cardinality(S))
  BY <1>4, FS_CardinalityType
<1>6. PICK g \in [SUBSET S -> A] : \A T \in SUBSET S : FoldsAt(g, T, c, base, op)
  BY <1>5, Smalls DEF Upto
<1>7. Fold(g, S, c, base, op)
  <2> DEFINE h == [T \in SUBSET S |-> IF T = {} THEN base ELSE op[c[T]][g[T \ {c[T]}]]]
  <2>1. \A T \in SUBSET S : g[T] = h[T]
    BY <1>6 DEF FoldsAt
  <2>2. g = h
    BY <2>1
  <2> QED
    BY <2>2 DEF Fold
<1> QED
  BY <1>7

(* Induction over the subsets of a finite set, one element taken at a time. *)
LEMMA Subsets ==
  ASSUME NEW S, IsFiniteSet(S), NEW Good \in SUBSET (SUBSET S),
         \A T \in SUBSET S : (\A x \in T : T \ {x} \in Good) => T \in Good
  PROVE  Good = SUBSET S
<1> DEFINE P == {n \in Nat : Small(S, n) \subseteq Good}
<1>1. 0 \in P
  BY Smalls
<1>2. ASSUME NEW n \in P PROVE n + 1 \in P
  <2>1. ASSUME NEW T \in Small(S, n + 1) PROVE T \in Good
    <3>1. T \in SUBSET S
      BY DEF Small
    <3>2. \A x \in T : T \ {x} \in Good
      BY Smalls
    <3> QED
      BY <3>1, <3>2
  <2> QED
    BY <2>1
<1>3. P \in SUBSET Nat
  OBVIOUS
<1>4. P = Nat
  BY <1>1, <1>2, <1>3, Numbers
<1>5. Small(S, Cardinality(S)) \subseteq Good
  BY <1>4, FS_CardinalityType
<1> QED
  BY <1>5, Smalls

(* The links that are left when those to o are deleted.                    *)
Kept(l, o, kept) == IF l = o THEN kept ELSE Append(kept, l)
Unlinks(g, o, seq) ==
  g = [T \in SUBSET DOMAIN seq |->
         IF T = {} THEN << >> ELSE Kept(seq[Max(T)], o, g[T \ {Max(T)}])]

LEMMA MaxIn ==
  ASSUME NEW n \in Nat, NEW T \in SUBSET (1 .. n), T # {}
  PROVE  Max(T) \in T
<1> DEFINE N == {m \in Nat : \E i \in T : m = n - i}
<1>1. \A i \in T : n - i \in N
  OBVIOUS
<1>2. N \in SUBSET Nat /\ N # {}
  BY <1>1
<1>3. PICK m \in N : \A k \in N : m <= k
  BY <1>2, Least
<1>4. \E i \in T : \A k \in T : i >= k
  BY <1>1, <1>3
<1> QED
  BY <1>4 DEF Max

LEMMA UnlinkedTyped ==
  ASSUME NEW S, links \in Seq(S), NEW o PROVE Unlinked(o) \in Seq(S)
<1> DEFINE D == DOMAIN links
           A == Seq(S)
           c == [T \in SUBSET D |-> Max(T)]
           op == [i \in D |-> [kept \in A |-> Kept(links[i], o, kept)]]
<1>1. Len(links) \in Nat /\ D = 1 .. Len(links) /\ IsFiniteSet(D)
  BY FS_Interval
<1>2. \A T \in SUBSET D : T # {} => Max(T) \in T
  BY <1>1, MaxIn
<1>3. Chooses(c, D)
  BY <1>2 DEF Chooses
<1>4. \A i \in D, kept \in A : Kept(links[i], o, kept) \in A
  BY DEF Kept
<1>5. \A i \in D, kept \in A : op[i][kept] = Kept(links[i], o, kept) /\ op[i][kept] \in A
  BY <1>4
<1>6. PICK g \in [SUBSET D -> A] : Fold(g, D, c, << >>, op)
  <2>1. << >> \in A
    OBVIOUS
  <2> HIDE DEF c, op, A, D
  <2> QED
    BY <1>1, <1>3, <1>5, <2>1, FoldExists
<1>7. Unlinks(g, o, links)
  <2> DEFINE h == [T \in SUBSET D |->
                     IF T = {} THEN << >> ELSE Kept(links[Max(T)], o, g[T \ {Max(T)}])]
  <2>1. ASSUME NEW T \in SUBSET D PROVE g[T] = h[T]
    <3>1. CASE T = {}
      BY <1>6, <3>1 DEF Fold
    <3>2. CASE T # {}
      <4>1. g[T] = op[c[T]][g[T \ {c[T]}]]
        <5> HIDE DEF c, op
        <5> QED
          BY <1>6, <3>2 DEF Fold
      <4>2. c[T] = Max(T) /\ Max(T) \in D /\ g[T \ {Max(T)}] \in A
        BY <1>2, <3>2
      <4> HIDE DEF c, op
      <4>3. g[T] = Kept(links[Max(T)], o, g[T \ {Max(T)}])
        BY <1>5, <4>1, <4>2
      <4> QED
        BY <3>2, <4>3
    <3> QED
      BY <3>1, <3>2
  <2>2. g = h
    BY <2>1
  <2> QED
    BY <2>2 DEF Unlinks
<1> DEFINE f == CHOOSE f : Unlinks(f, o, links)
<1>8. Unlinks(f, o, links)
  BY <1>7
<1>9. Unlinked(o) = f[D]
  BY DEF Unlinked, FoldLeft, MapThenFoldSet, Unlinks, Kept
<1> HIDE DEF f
<1> DEFINE Good == {T \in SUBSET D : f[T] \in A}
<1>10. ASSUME NEW T \in SUBSET D, \A i \in T : T \ {i} \in Good PROVE T \in Good
  <2>1. CASE T = {}
    BY <1>8, <2>1 DEF Unlinks
  <2>2. CASE T # {}
    <3>1. Max(T) \in D /\ f[T \ {Max(T)}] \in A
      BY <1>2, <1>10, <2>2
    <3>2. f[T] = Kept(links[Max(T)], o, f[T \ {Max(T)}])
      BY <1>8, <2>2 DEF Unlinks
    <3> QED
      BY <1>4, <3>1, <3>2
  <2> QED
    BY <2>1, <2>2
<1>11. Good = SUBSET D
  <2>1. Good \in SUBSET (SUBSET D)
    OBVIOUS
  <2>2. \A T \in SUBSET D : (\A i \in T : T \ {i} \in Good) => T \in Good
    BY <1>10
  <2> HIDE DEF Good, D
  <2> QED
    BY <1>1, <2>1, <2>2, Subsets
<1> QED
  BY <1>9, <1>11

-----------------------------------------------------------------------------
(* Types.  What is bounded is the room: a row needs one of MaxObjects, and  *)
(* each summary that waits, or whose snapshot does, has its row reserved.   *)

Counted(q) == {i \in 1 .. Len(q) : q[i].kind = "summary"}
Roomy(n, q, snapshot) ==
  /\ n + Cardinality(Counted(q)) <= MaxObjects
  /\ snapshot => n + Cardinality(Counted(q)) < MaxObjects

Jobs(q) == \A i \in 1 .. Len(q) : q[i] \in Job
Places == links \in Seq(Id) /\ disk \subseteq Id /\ remote \subseteq Id /\ cur \in 0 .. Len(objs)
Counters == asks \in 0 .. MaxAsks /\ short \in BOOLEAN /\ crashes \in 0 .. MaxCrashes
SummaryFirst == pc = "summary" => queue[1].kind = "summary"

TypeInv ==
  /\ Roomy(Len(objs), queue, pc = "snapshot") /\ SummaryFirst
  /\ Jobs(queue) /\ keys \subseteq Key /\ pc \in Pc /\ Places /\ Counters

LEMMA CountedFinite ==
  ASSUME NEW q \in Seq(Entry)
  PROVE  IsFiniteSet(Counted(q)) /\ Cardinality(Counted(q)) \in Nat
<1>1. IsFiniteSet(1 .. Len(q))
  BY FS_Interval
<1>2. Counted(q) \subseteq 1 .. Len(q)
  BY DEF Counted
<1> QED
  BY <1>1, <1>2, FS_Subset, FS_CardinalityType

LEMMA Types == ASSUME Inv, TypeInv PROVE TypeOK
<1>1. Shape /\ Fit(queue, Idle) /\ objs \in Seq(Object) /\ queue \in Seq(Entry)
  BY DEF Inv, Shape, Fit
<1>2. Len(objs) \in Nat /\ Cardinality(Counted(queue)) \in Nat /\ MaxObjects \in Nat
  BY <1>1, CountedFinite, StorageAssumption
<1>3. Len(objs) \in 0 .. MaxObjects
  BY <1>2 DEF TypeInv, Roomy
<1>4. Running => queue # << >>
  BY <1>1 DEF Fit, Running
<1> QED
  BY <1>1, <1>3, <1>4 DEF TypeOK, TypeInv, Shape, Id, Jobs, Places, Counters

(* What becomes of the summaries counted.                                  *)
LEMMA CountSame ==
  ASSUME NEW q, NEW r, Len(r) = Len(q), \A i \in 1 .. Len(q) : r[i].kind = q[i].kind
  PROVE  Counted(r) = Counted(q)
  BY DEF Counted

LEMMA CountAppend ==
  ASSUME NEW q \in Seq(Entry), NEW e \in Entry
  PROVE  /\ e.kind # "summary" => Counted(Append(q, e)) = Counted(q)
         /\ Cardinality(Counted(Append(q, e))) <= Cardinality(Counted(q)) + 1
<1> DEFINE r == Append(q, e)
<1>1. PICK n \in Nat : n = Len(q)
  OBVIOUS
<1>2. Len(r) = n + 1 /\ r[n + 1] = e /\ \A i \in 1 .. n : r[i] = q[i]
  BY <1>1
<1> HIDE DEF r
<1>3. e.kind # "summary" => Counted(r) = Counted(q)
  BY <1>1, <1>2 DEF Counted
<1>4. e.kind = "summary" => Counted(r) = Counted(q) \cup {n + 1}
  BY <1>1, <1>2 DEF Counted
<1>5. IsFiniteSet(Counted(q)) /\ Cardinality(Counted(q)) \in Nat
  BY CountedFinite
<1>6. PICK c \in Nat : c = Cardinality(Counted(q))
  BY <1>5
<1>7. n + 1 \notin Counted(q)
  BY <1>1 DEF Counted
<1>8. Cardinality(Counted(q) \cup {n + 1}) = c + 1
  BY <1>5, <1>6, <1>7, FS_AddElement
<1>9. Cardinality(Counted(r)) = c \/ Cardinality(Counted(r)) = c + 1
  <2>1. CASE e.kind = "summary"
    <3>1. Counted(r) = Counted(q) \cup {n + 1}
      BY <1>4, <2>1
    <3> QED
      BY <1>8, <3>1
  <2>2. CASE e.kind # "summary"
    <3>1. Counted(r) = Counted(q)
      BY <1>3, <2>2
    <3> QED
      BY <1>6, <3>1
  <2> QED
    BY <2>1, <2>2
<1> QED
  BY <1>3, <1>6, <1>9 DEF r

LEMMA CountCut ==
  ASSUME NEW q \in Seq(Entry), NEW i \in 1 .. Len(q), NEW r, Cut(q, i, r)
  PROVE  /\ Cardinality(Counted(r)) <= Cardinality(Counted(q))
         /\ q[i].kind = "summary" => Cardinality(Counted(r)) < Cardinality(Counted(q))
<1> DEFINE T == Counted(q) \ {i}
           f == [k \in Counted(r) |-> IF k < i THEN k ELSE k + 1]
<1>1. PICK n \in Nat : n = Len(r) /\ Len(q) = n + 1
  BY DEF Cut
<1>2. \A k \in 1 .. n : (k < i => r[k] = q[k]) /\ (k >= i => r[k] = q[k + 1])
  BY <1>1 DEF Cut
<1>3. ASSUME NEW k \in Counted(r) PROVE f[k] \in T
  <2>1. k \in 1 .. n /\ r[k].kind = "summary"
    BY <1>1 DEF Counted
  <2>2. CASE k < i
    <3>1. f[k] = k /\ k \in 1 .. n + 1 /\ q[k].kind = "summary"
      BY <1>2, <2>1, <2>2
    <3> QED
      BY <1>1, <2>2, <3>1 DEF Counted
  <2>3. CASE ~ (k < i)
    <3>1. f[k] = k + 1 /\ k + 1 \in 1 .. n + 1 /\ q[k + 1].kind = "summary" /\ k + 1 # i
      BY <1>2, <2>1, <2>3
    <3> QED
      BY <1>1, <3>1 DEF Counted
  <2> QED
    BY <2>2, <2>3
<1>4. \A k, l \in Counted(r) : f[k] = f[l] => k = l
  <2>1. \A k \in Counted(r) : k \in Nat
    BY <1>1 DEF Counted
  <2> QED
    BY <2>1
<1>5. f \in Injection(Counted(r), T)
  BY <1>3, <1>4 DEF Injection, IsInjective
<1>6. IsFiniteSet(Counted(q)) /\ Cardinality(Counted(q)) \in Nat
  BY CountedFinite
<1>7. IsFiniteSet(T) /\ Cardinality(T) \in Nat /\ Cardinality(T) <= Cardinality(Counted(q))
  BY <1>6, FS_Subset, FS_CardinalityType
<1>8. IsFiniteSet(Counted(r)) /\ Cardinality(Counted(r)) <= Cardinality(T)
  <2> HIDE DEF f, T
  <2> QED
    BY <1>5, <1>7, FS_Injection
<1>9. Cardinality(Counted(r)) \in Nat
  BY <1>8, FS_CardinalityType
<1>10. q[i].kind = "summary" => Cardinality(T) = Cardinality(Counted(q)) - 1
  <2>1. q[i].kind = "summary" => i \in Counted(q)
    BY DEF Counted
  <2> QED
    BY <1>6, <2>1, FS_RemoveElement
<1> QED
  BY <1>6, <1>7, <1>8, <1>9, <1>10

LEMMA JobsAppend ==
  ASSUME NEW q \in Seq(Entry), Jobs(q), NEW e \in Job PROVE Jobs(Append(q, e))
  BY DEF Jobs

LEMMA JobsCut ==
  ASSUME NEW q \in Seq(Entry), Jobs(q), NEW i \in 1 .. Len(q), NEW r, Cut(q, i, r)
  PROVE  Jobs(r) /\ (i > 1 => r[1] = q[1])
<1>1. PICK n \in Nat : n = Len(r) /\ Len(q) = n + 1
  BY DEF Cut
<1>2. \A k \in 1 .. n : (k < i => r[k] = q[k]) /\ (k >= i => r[k] = q[k + 1])
  BY <1>1 DEF Cut
<1>3. \A k \in 1 .. n + 1 : q[k] \in Job
  BY <1>1 DEF Jobs
<1>4. ASSUME NEW k \in 1 .. n PROVE r[k] \in Job
  <2>1. CASE k < i
    BY <1>2, <1>3, <2>1
  <2>2. CASE ~ (k < i)
    BY <1>2, <1>3, <2>2
  <2> QED
    BY <2>1, <2>2
<1>5. i > 1 => r[1] = q[1]
  BY <1>1, <1>2
<1> QED
  BY <1>1, <1>4, <1>5 DEF Jobs

(* What every step may start from.                                         *)
LEMMA Known ==
  ASSUME Inv, TypeInv
  PROVE  /\ queue \in Seq(Entry) /\ objs \in Seq(Object) /\ Len(objs) \in Nat
         /\ Id = 1 .. Len(objs) /\ Jobs(queue) /\ MaxObjects \in Nat
         /\ Cardinality(Counted(queue)) \in Nat
         /\ Len(objs) + Cardinality(Counted(queue)) <= MaxObjects
         /\ Len(objs) <= MaxObjects
         /\ pc = "snapshot" => Len(objs) + Cardinality(Counted(queue)) < MaxObjects
         /\ ~Idle => queue # << >>
<1>1. queue \in Seq(Entry) /\ objs \in Seq(Object) /\ Fit(queue, Idle)
  BY DEF Inv, Shape, Fit
<1>2. Len(objs) \in Nat /\ MaxObjects \in Nat /\ Cardinality(Counted(queue)) \in Nat
  BY <1>1, CountedFinite, StorageAssumption
<1>3. /\ Len(objs) + Cardinality(Counted(queue)) <= MaxObjects
      /\ pc = "snapshot" => Len(objs) + Cardinality(Counted(queue)) < MaxObjects
  BY DEF TypeInv, Roomy
<1>4. Len(objs) <= MaxObjects
  BY <1>2, <1>3
<1> QED
  BY <1>1, <1>2, <1>3, <1>4 DEF Fit, Id, TypeInv

LEMMA RoomMeans ==
  ASSUME Inv, TypeInv, Room
  PROVE  /\ Len(objs) + Cardinality(Counted(queue)) + 1 <= MaxObjects
         /\ pc = "snapshot" => Len(objs) + Cardinality(Counted(queue)) + 1 < MaxObjects
<1>1. PICK n \in Nat, c \in Nat : n = Len(objs) /\ c = Cardinality(Counted(queue))
  BY Known
<1>2. MaxObjects \in Nat
  BY Known
<1>3. pc = "snapshot" => Reserved = c + 1
  BY <1>1 DEF Reserved, Counted
<1>4. pc # "snapshot" => Reserved = c
  BY <1>1 DEF Reserved, Counted
<1>5. n + Reserved < MaxObjects
  BY <1>1 DEF Room
<1> QED
  BY <1>1, <1>2, <1>3, <1>4, <1>5

LEMMA Enqueues ==
  ASSUME Inv, TypeInv, NEW key \in Key, NEW n \in {1, 3}, Enqueue(key, n)
  PROVE  Jobs(queue') /\ keys' \subseteq Key /\ Counted(queue') = Counted(queue)
<1>1. Sync(n) \in Entry /\ Sync(n) \in Job /\ Sync(n).kind # "summary"
  BY StorageAssumption DEF Sync, Entry, Job, Kinds
<1>2. queue \in Seq(Entry) /\ Jobs(queue)
  BY Known
<1>3. queue' = queue \/ queue' = Append(queue, Sync(n))
  BY DEF Enqueue
<1>4. Jobs(queue') /\ Counted(queue') = Counted(queue)
  BY <1>1, <1>2, <1>3, JobsAppend, CountAppend
<1>5. keys' \subseteq Key
  BY DEF Enqueue, TypeInv
<1> QED
  BY <1>4, <1>5

(* A step within a job: no row comes or goes, the jobs may gain a sync job.  *)
LEMMA Within ==
  ASSUME Inv, Inv', TypeInv, Len(objs') = Len(objs), pc' \in Pc \ {"summary", "snapshot"},
         Places', Counters',
         UNCHANGED <<queue, keys>> \/ \E key \in Key, n \in {1, 3} : Enqueue(key, n)
  PROVE  TypeInv'
<1>1. Jobs(queue') /\ keys' \subseteq Key /\ Counted(queue') = Counted(queue)
  BY Enqueues DEF TypeInv
<1>2. Roomy(Len(objs), queue, pc = "snapshot")'
  BY <1>1, Known DEF Roomy
<1>3. SummaryFirst'
  BY DEF SummaryFirst
<1> QED
  BY <1>1, <1>2, <1>3 DEF TypeInv

(* The job in hand is over, and a summary may leave a snapshot to write.    *)
LEMMA Ends ==
  ASSUME Inv, Inv', TypeInv, ~Idle, UNCHANGED <<objs, keys>>, queue' = Tail(queue),
         pc' = "idle" \/ (pc' = "snapshot" /\ pc = "summary"), Places', Counters'
  PROVE  TypeInv'
<1>1. queue \in Seq(Entry) /\ queue # << >> /\ 1 \in 1 .. Len(queue) /\ Jobs(queue)
  BY Known
<1>2. Cut(queue, 1, queue')
  BY <1>1, CutTail
<1>3. Jobs(queue')
  BY <1>1, <1>2, JobsCut
<1>4. /\ Cardinality(Counted(queue')) <= Cardinality(Counted(queue))
      /\ queue[1].kind = "summary" => Cardinality(Counted(queue')) < Cardinality(Counted(queue))
  BY <1>1, <1>2, CountCut
<1>5. PICK n \in Nat, c \in Nat, d \in Nat :
        n = Len(objs) /\ c = Cardinality(Counted(queue)) /\ d = Cardinality(Counted(queue'))
  <2>1. queue' \in Seq(Entry)
    BY <1>2 DEF Cut
  <2> QED
    BY <2>1, Known, CountedFinite
<1>6. pc' = "snapshot" => queue[1].kind = "summary"
  BY DEF TypeInv, SummaryFirst
<1>7. n + c <= MaxObjects /\ MaxObjects \in Nat /\ d <= c /\ (pc' = "snapshot" => d < c)
  BY <1>4, <1>5, <1>6, Known
<1>8. Roomy(Len(objs), queue, pc = "snapshot")'
  BY <1>5, <1>7 DEF Roomy
<1>9. SummaryFirst' /\ pc' \in Pc
  BY DEF SummaryFirst, Pc, Awaiting
<1> QED
  BY <1>3, <1>8, <1>9 DEF TypeInv

LEMMA LenKept ==
  ASSUME objs \in Seq(Object), objs' \in Seq(Object), DOMAIN objs' = DOMAIN objs
  PROVE  Len(objs') = Len(objs) /\ Id' = Id
<1>1. PICK n \in Nat, m \in Nat : n = Len(objs) /\ m = Len(objs')
  OBVIOUS
<1>2. 1 .. n = 1 .. m
  BY <1>1
<1>3. n = m
  <2>1. ~ (n < m)
    <3>1. m > n => m \in 1 .. m /\ m \notin 1 .. n
      OBVIOUS
    <3> QED
      BY <1>2, <3>1
  <2>2. ~ (m < n)
    <3>1. n > m => n \in 1 .. n /\ n \notin 1 .. m
      OBVIOUS
    <3> QED
      BY <1>2, <3>1
  <2> QED
    BY <2>1, <2>2
<1> QED
  BY <1>1, <1>3 DEF Id

(* The rows that were there stay, and so do the places in them.             *)
LEMMA PlacesKept ==
  ASSUME Places, Id \subseteq Id', Len(objs) \in Nat, Len(objs') \in Nat, Len(objs) <= Len(objs'),
         UNCHANGED <<links, remote, cur>>, disk' \subseteq Id'
  PROVE  Places'
<1>1. links' \in Seq(Id')
  BY SeqGrows DEF Places
<1>2. remote' \subseteq Id' /\ cur' \in 0 .. Len(objs')
  BY DEF Places
<1> QED
  BY <1>1, <1>2 DEF Places

(* The poller has room for the row of a file, and reserves the row of a     *)
(* summary when it is asked for.                                           *)
LEMMA PollerTyped == ASSUME Inv, Inv', TypeInv, Poller PROVE TypeInv'
<1>0. /\ Shape /\ queue \in Seq(Entry) /\ Jobs(queue) /\ objs \in Seq(Object) /\ Places /\ pc \in Pc
      /\ keys \subseteq Key /\ Counters /\ SummaryFirst
  BY Known DEF Inv, TypeInv
<1> PICK n \in Nat, c \in Nat : n = Len(objs) /\ c = Cardinality(Counted(queue))
  BY Known
<1>1. MaxObjects \in Nat /\ n + c <= MaxObjects /\ (pc = "snapshot" => n + c < MaxObjects)
  BY Known
<1>2. ASSUME NEW e \in Entry, queue' = Append(queue, e), UNCHANGED pc PROVE SummaryFirst'
  <2>1. pc = "summary" => ~Idle
    BY DEF Idle
  <2>2. pc = "summary" => queue'[1] = queue[1]
    BY <1>0, <1>2, <2>1, HeadStays
  <2> QED
    BY <1>0, <1>2, <2>2 DEF SummaryFirst
<1>3. ASSUME NEW saved \in BOOLEAN, NEW oversize \in BOOLEAN, NEW level \in Levels,
             Attach(saved, oversize, level)
      PROVE  TypeInv'
  <2>1. /\ Room /\ UNCHANGED <<links, disk, remote, cur, keys, pc, asks, short, crashes>>
        /\ queue' = Append(queue, Asked("message", n + 1))
    BY <1>3 DEF Attach, bytes, pass
  <2>2. PICK r \in Object : objs' = Append(objs, r)
    <3>1. Attachment(saved /\ Allows(level), oversize) \in Object
      BY DEF Attachment, Object, Capture, Status
    <3> QED
      BY <1>3, <3>1 DEF Attach
  <2>3. Len(objs') = n + 1 /\ Id' = Id \cup {n + 1}
    BY <1>0, <2>2, Grown
  <2>4. n + c + 1 <= MaxObjects /\ (pc = "snapshot" => n + c + 1 < MaxObjects)
    BY <2>1, RoomMeans
  <2> DEFINE e == Asked("message", n + 1)
  <2>5. e \in Entry /\ e \in Job /\ e.kind # "summary"
    BY <1>1, <2>4 DEF Asked, Entry, Job, Kinds
  <2> HIDE DEF e
  <2>6. Jobs(queue') /\ Counted(queue') = Counted(queue)
    BY <1>0, <2>1, <2>5, JobsAppend, CountAppend DEF e
  <2>7. Roomy(Len(objs), queue, pc = "snapshot")'
    <3>1. Cardinality(Counted(queue')) = c
      BY <2>6
    <3> QED
      BY <1>1, <2>1, <2>3, <2>4, <3>1 DEF Roomy
  <2>8. Places'
    <3>1. disk' \subseteq Id' /\ Id \subseteq Id'
      BY <1>0, <2>1, <2>3 DEF Places
    <3> QED
      BY <1>0, <2>1, <2>3, <3>1, PlacesKept
  <2>9. SummaryFirst'
    BY <1>2, <2>1, <2>5 DEF e
  <2>10. keys' \subseteq Key /\ pc' \in Pc /\ Counters'
    BY <1>0, <2>1 DEF Counters
  <2> QED
    BY <2>6, <2>7, <2>8, <2>9, <2>10 DEF TypeInv
<1>4. ASSUME NEW k \in {"save", "undo", "summary", "forget"}, NEW o \in 0 .. n, Ask(k, o)
      PROVE  TypeInv'
  <2>1. /\ UNCHANGED <<objs, links, disk, remote, cur, keys, pc, short, crashes>>
        /\ asks < MaxAsks /\ asks' = asks + 1 /\ (k = "summary" => Room)
        /\ queue' = Append(queue, Asked(k, o))
    BY <1>4 DEF Ask, rows, bytes, pass
  <2> DEFINE e == Asked(k, o)
  <2>2. e \in Entry /\ e \in Job /\ e.kind = k
    BY <1>1 DEF Asked, Entry, Job, Kinds, Commands
  <2> HIDE DEF e
  <2>3. queue' = Append(queue, e)
    BY <2>1 DEF e
  <2>4. Jobs(queue')
    BY <1>0, <2>2, <2>3, JobsAppend
  <2>5. PICK d \in Nat : d = Cardinality(Counted(queue'))
    <3>1. queue' \in Seq(Entry)
      BY <1>0, <2>2, <2>3
    <3> QED
      BY <3>1, CountedFinite
  <2>6. d <= c + 1 /\ (k # "summary" => d = c)
    BY <1>0, <2>2, <2>3, <2>5, CountAppend
  <2>7. k = "summary" => n + c + 1 <= MaxObjects /\ (pc = "snapshot" => n + c + 1 < MaxObjects)
    BY <2>1, RoomMeans
  <2>8. n + d <= MaxObjects /\ (pc = "snapshot" => n + d < MaxObjects)
    BY <1>1, <2>6, <2>7
  <2>9. Roomy(Len(objs), queue, pc = "snapshot")'
    BY <2>1, <2>5, <2>8 DEF Roomy
  <2>10. SummaryFirst'
    BY <1>2, <2>1, <2>2, <2>3
  <2>11. Counters' /\ Places' /\ keys' \subseteq Key /\ pc' \in Pc
    BY <1>0, <2>1, StorageAssumption DEF Counters, Places, Id
  <2> QED
    BY <2>4, <2>9, <2>10, <2>11 DEF TypeInv
<1>5. ASSUME NEW i \in 1 .. Len(queue), Cancel(i) PROVE TypeInv'
  <2>1. /\ UNCHANGED <<objs, links, disk, remote, cur, keys, pc, short, crashes>>
        /\ asks < MaxAsks /\ asks' = asks + 1 /\ (i > 1 \/ Idle)
        /\ queue' = RemoveAt(queue, i)
    BY <1>5 DEF Cancel, Waiting, rows, bytes, pass
  <2>2. Cut(queue, i, queue')
    BY <1>0, <2>1, CutRemoved
  <2>3. Jobs(queue') /\ (i > 1 => queue'[1] = queue[1])
    BY <1>0, <2>2, JobsCut
  <2>4. PICK d \in Nat : d = Cardinality(Counted(queue'))
    <3>1. queue' \in Seq(Entry)
      BY <2>2 DEF Cut
    <3> QED
      BY <3>1, CountedFinite
  <2>5. d <= c
    BY <1>0, <2>2, <2>4, CountCut
  <2>6. n + d <= MaxObjects /\ (pc = "snapshot" => n + d < MaxObjects)
    BY <1>1, <2>5
  <2>7. Roomy(Len(objs), queue, pc = "snapshot")'
    BY <2>1, <2>4, <2>6 DEF Roomy
  <2>8. SummaryFirst'
    BY <1>0, <2>1, <2>3 DEF SummaryFirst, Idle
  <2>9. Counters' /\ Places' /\ keys' \subseteq Key /\ pc' \in Pc
    BY <1>0, <2>1, StorageAssumption DEF Counters, Places, Id
  <2> QED
    BY <2>3, <2>7, <2>8, <2>9 DEF TypeInv
<1> QED
  <2>1. 0 \in 0 .. n /\ \A o \in Id : o \in 0 .. n
    BY DEF Id
  <2> QED
    BY <1>3, <1>4, <1>5, <2>1 DEF Poller

LEMMA ClaimTyped == ASSUME Inv, Inv', TypeInv, Claim PROVE TypeInv'
<1>0. /\ queue \in Seq(Entry) /\ Jobs(queue) /\ queue # << >> /\ pc = "idle"
      /\ UNCHANGED <<objs, links, disk, remote, cur, keys, asks, short, crashes>>
      /\ pc' = Start(queue[1].kind) /\ Fit(queue, TRUE)
  BY Known DEF Claim, rows, bytes, pass, Inv, Shape, Idle, Fit
<1>1. queue[1] \in Job /\ queue[1].left > 0
  <2>1. 1 \in 1 .. Len(queue)
    BY <1>0
  <2> QED
    BY <1>0, <2>1 DEF Jobs, Fit
<1> PICK m \in 0 .. 3 : m = queue[1].left - 1
  BY <1>1 DEF Job
<1> DEFINE e == [queue[1] EXCEPT !.left = m]
<1>2. e \in Job /\ e.kind = queue[1].kind
  BY <1>1 DEF Job
<1>3. queue' = [queue EXCEPT ![1] = e]
  BY <1>0 DEF Claim
<1> HIDE DEF e
<1>4. /\ Len(queue') = Len(queue) /\ queue'[1] = e
      /\ \A i \in 1 .. Len(queue) : i # 1 => queue'[i] = queue[i]
  BY <1>0, <1>3
<1>5. \A i \in 1 .. Len(queue) : queue'[i].kind = queue[i].kind /\ queue'[i] \in Job
  BY <1>0, <1>2, <1>4 DEF Jobs
<1>6. Jobs(queue')
  BY <1>4, <1>5 DEF Jobs
<1>7. Counted(queue') = Counted(queue)
  BY <1>4, <1>5, CountSame
<1>8. queue[1].kind \in Kinds
  BY <1>1 DEF Job
<1>9. pc' \in {"capture", "summary", "sched", "command"} /\ (pc' = "summary" => queue[1].kind = "summary")
  BY <1>0, <1>8 DEF Start, Kinds, Commands
<1>10. pc' \in Pc /\ pc' # "snapshot"
  BY <1>9 DEF Pc, Awaiting
<1>11. SummaryFirst'
  BY <1>2, <1>4, <1>9 DEF SummaryFirst
<1>12. Roomy(Len(objs), queue, pc = "snapshot")'
  BY <1>0, <1>7, <1>10 DEF TypeInv, Roomy
<1>13. Counters' /\ Places' /\ keys' \subseteq Key
  BY <1>0 DEF TypeInv, Counters, Places, Id
<1> QED
  BY <1>6, <1>10, <1>11, <1>12, <1>13 DEF TypeInv

(* A step of a job that leaves the rows, their number and their links.      *)
LEMMA Stays ==
  ASSUME Inv, Inv', TypeInv, DOMAIN objs' = DOMAIN objs, pc' \in Pc \ {"summary", "snapshot"},
         UNCHANGED <<links, asks, crashes>>, short' \in BOOLEAN,
         cur' = cur \/ cur' \in Id, disk' \subseteq Id, remote' \subseteq Id,
         UNCHANGED <<queue, keys>> \/ \E key \in Key, n \in {1, 3} : Enqueue(key, n)
  PROVE  TypeInv'
<1>1. Len(objs') = Len(objs) /\ Id' = Id
  BY LenKept DEF Inv, Shape
<1>2. Places'
  BY <1>1, Known DEF TypeInv, Places, Id
<1>3. Counters'
  BY DEF TypeInv, Counters
<1> QED
  BY <1>1, <1>2, <1>3, Within

(* The keys of the jobs a job leaves.                                       *)
LEMMA Keyed ==
  ASSUME Inv, TypeInv, NEW o \in Id
  PROVE  <<"sync", o>> \in Key /\ <<"delete", o>> \in Key
<1>1. o \in 1 .. MaxObjects
  BY Known
<1> QED
  BY <1>1 DEF Key

LEMMA CaptureTyped == ASSUME Inv, Inv', TypeInv, CaptureStep PROVE TypeInv'
<1>0. PassInv /\ Places /\ short \in BOOLEAN
  BY DEF Inv, TypeInv, Counters
<1>1. pc \in {"capture", "wrote", "ran"} => Own \in Id /\ ~Idle
  <2>1. pc \in {"capture", "wrote", "ran"} => OfRow(queue[1]) /\ ~Idle
    BY <1>0 DEF PassInv, OfRow, Idle
  <2> QED
    BY <2>1, OwnInId
<1>2. CASE Download \/ CaptureFails \/ NothingToCapture
  <2>1. /\ DOMAIN objs' = DOMAIN objs /\ pc = "capture" /\ pc' \in {"wrote", "ran"}
        /\ UNCHANGED <<links, remote, queue, keys, cur, asks, short, crashes>>
        /\ disk' = disk \/ disk' = disk \cup {Own}
    BY <1>2 DEF Download, CaptureFails, NothingToCapture, rows, bytes, pass
  <2>2. pc' \in Pc \ {"summary", "snapshot"} /\ disk' \subseteq Id /\ remote' \subseteq Id
    BY <1>0, <1>1, <2>1 DEF Pc, Awaiting, Places
  <2> QED
    BY <1>0, <2>1, <2>2, Stays
<1>3. CASE Captured
  <2>1. /\ DOMAIN objs' = DOMAIN objs /\ pc = "wrote" /\ pc' = "ran"
        /\ UNCHANGED <<links, disk, remote, cur, asks, short, crashes>>
        /\ UNCHANGED <<queue, keys>> \/ Enqueue(<<"sync", Own>>, 3)
    BY <1>3 DEF Captured, bytes, pass
  <2>2. pc' \in Pc \ {"summary", "snapshot"} /\ disk' \subseteq Id /\ remote' \subseteq Id
    BY <1>0, <2>1 DEF Pc, Awaiting, Places
  <2>3. UNCHANGED <<queue, keys>> \/ \E key \in Key, n \in {1, 3} : Enqueue(key, n)
    BY <1>1, <2>1, Keyed
  <2> QED
    BY <1>0, <2>1, <2>2, <2>3, Stays
<1>4. CASE MessageOver
  <2>1. /\ pc = "ran" /\ ~Idle /\ queue' = Tail(queue) /\ pc' = "idle"
        /\ UNCHANGED <<objs, keys, links, disk, remote, cur, asks, short, crashes>>
    BY <1>4 DEF MessageOver, Over, Idle, rows, bytes, pass
  <2>2. Places' /\ Counters'
    BY <1>0, <2>1 DEF Places, Id, TypeInv, Counters
  <2> QED
    BY <2>1, <2>2, Ends
<1> QED
  BY <1>2, <1>3, <1>4 DEF CaptureStep

LEMMA CommandTyped == ASSUME Inv, Inv', TypeInv, CommandStep PROVE TypeInv'
<1>0. /\ PassInv /\ Places /\ Counters /\ Shape /\ links \in Seq(Id) /\ queue \in Seq(Entry)
      /\ objs \in Seq(Object)
  BY Known DEF Inv, TypeInv, Places
<1>1. CASE (\E level \in Levels : SaveNothing(level)) \/ ForgetNothing
  <2>1. /\ pc' = "done"
        /\ UNCHANGED <<objs, links, disk, remote, queue, keys, cur, asks, short, crashes>>
    BY <1>1 DEF SaveNothing, ForgetNothing, rows, bytes, pass
  <2>2. pc' \in Pc \ {"summary", "snapshot"} /\ disk' \subseteq Id /\ remote' \subseteq Id
    BY <1>0, <2>1 DEF Pc, Awaiting, Places
  <2> QED
    BY <1>0, <2>1, <2>2, Stays DEF Counters
<1>2. ASSUME links' \in Seq(Id), pc' = "done", DOMAIN objs' = DOMAIN objs,
             UNCHANGED <<disk, remote, cur, asks, short, crashes>>,
             UNCHANGED <<queue, keys>> \/ \E key \in Key, n \in {1, 3} : Enqueue(key, n)
      PROVE  TypeInv'
  <2>1. Len(objs') = Len(objs) /\ Id' = Id
    BY <1>0, <1>2, LenKept DEF Inv, Shape
  <2>2. Places' /\ Counters'
    BY <1>0, <1>2, <2>1 DEF Places, Counters
  <2>3. pc' \in Pc \ {"summary", "snapshot"}
    BY <1>2 DEF Pc, Awaiting
  <2> QED
    BY <1>2, <2>1, <2>2, <2>3, Within
<1>3. ASSUME NEW level \in Levels, NEW anchored \in BOOLEAN, Save(level, anchored) PROVE TypeInv'
  <2> PICK o : o = Last(caught)
    OBVIOUS
  <2>1. /\ pc' = "done" /\ caught # << >> /\ DOMAIN objs' = DOMAIN objs
        /\ UNCHANGED <<disk, remote, cur, asks, short, crashes>>
        /\ links' = links \/ links' = Append(links, o)
        /\ UNCHANGED <<queue, keys>> \/ Enqueue(<<"sync", o>>, 1)
    BY <1>3 DEF Save, EnqueueSaved, bytes, pass
  <2>2. o \in Id
    <3>1. caught \in Seq(Id)
      BY <1>0 DEF Shape
    <3> QED
      BY <2>1, <3>1 DEF Last
  <2>3. links' \in Seq(Id)
    <3>1. Append(links, o) \in Seq(Id)
      BY <1>0, <2>2
    <3> QED
      BY <1>0, <2>1, <3>1
  <2>4. UNCHANGED <<queue, keys>> \/ \E key \in Key, n \in {1, 3} : Enqueue(key, n)
    BY <2>1, <2>2, Keyed
  <2> QED
    BY <1>2, <2>1, <2>3, <2>4
<1>4. CASE Forget
  <2>1. /\ pc = "command" /\ pc' = "done" /\ DOMAIN objs' = DOMAIN objs /\ queue[1].kind = "forget"
        /\ UNCHANGED <<disk, remote, cur, asks, short, crashes>>
        /\ links' = Unlinked(Own) /\ Enqueue(<<"delete", Own>>, 1)
    BY <1>4 DEF Forget, bytes, pass
  <2>2. Own \in Id
    BY <2>1, OwnInId DEF OfRow, Idle
  <2>3. links' \in Seq(Id)
    BY <1>0, <2>1, UnlinkedTyped
  <2>4. \E key \in Key, n \in {1, 3} : Enqueue(key, n)
    BY <2>1, <2>2, Keyed
  <2> QED
    BY <1>2, <2>1, <2>3, <2>4
<1>5. CASE ForgetLast
  <2>1. /\ pc' = "done" /\ UNCHANGED <<objs, disk, remote, queue, keys, cur, asks, short, crashes>>
        /\ links' = IF links = << >> THEN links ELSE Front(links)
    BY <1>5 DEF ForgetLast, bytes, pass
  <2>2. ASSUME links # << >> PROVE Front(links) \in Seq(Id)
    <3>1. \A i \in 1 .. Len(links) - 1 : links[i] \in Id
      BY <1>0
    <3>2. Front(links) = SubSeq(links, 1, Len(links) - 1)
      BY DEF Front
    <3> QED
      BY <1>0, <2>2, <3>1, <3>2
  <2>3. links' \in Seq(Id)
    BY <1>0, <2>1, <2>2
  <2> QED
    BY <1>2, <2>1, <2>3
<1>6. CASE CommandOver
  <2>1. /\ pc = "done" /\ ~Idle /\ queue' = Tail(queue) /\ pc' = "idle"
        /\ UNCHANGED <<objs, keys, links, disk, remote, cur, asks, short, crashes>>
    BY <1>6 DEF CommandOver, Over, Idle, rows, bytes, pass
  <2>2. Places' /\ Counters'
    BY <1>0, <2>1 DEF Places, Id, Counters
  <2> QED
    BY <2>1, <2>2, Ends
<1> QED
  BY <1>1, <1>3, <1>4, <1>5, <1>6 DEF CommandStep

(* The row of a summary's snapshot is the one reserved for it.              *)
LEMMA SummaryTyped == ASSUME Inv, Inv', TypeInv, SummaryStep PROVE TypeInv'
<1>0. /\ Places /\ Counters /\ objs \in Seq(Object) /\ Jobs(queue) /\ keys \subseteq Key
      /\ queue \in Seq(Entry)
  BY Known DEF TypeInv
<1> PICK n \in Nat, c \in Nat : n = Len(objs) /\ c = Cardinality(Counted(queue))
  BY Known
<1>1. ASSUME NEW written \in BOOLEAN, SummaryOver(written) PROVE TypeInv'
  <2>1. /\ pc = "summary" /\ ~Idle /\ queue' = Tail(queue)
        /\ pc' = "idle" \/ pc' = "snapshot"
        /\ UNCHANGED <<objs, keys, links, disk, remote, cur, asks, short, crashes>>
    BY <1>1 DEF SummaryOver, Idle, rows, bytes, pass
  <2>2. Places' /\ Counters'
    BY <1>0, <2>1 DEF Places, Id, Counters
  <2> QED
    BY <2>1, <2>2, Ends
<1>2. ASSUME NEW level \in Levels, SnapshotBlocked(level) PROVE TypeInv'
  <2>1. /\ pc' = "idle"
        /\ UNCHANGED <<objs, links, disk, remote, queue, keys, cur, asks, short, crashes>>
    BY <1>2 DEF SnapshotBlocked, rows, bytes, pass
  <2>2. pc' \in Pc \ {"summary", "snapshot"} /\ disk' \subseteq Id /\ remote' \subseteq Id
    BY <1>0, <2>1 DEF Pc, Awaiting, Places
  <2> QED
    BY <1>0, <2>1, <2>2, Stays DEF Counters
<1>3. ASSUME NEW level \in Levels, Snapshot(level) PROVE TypeInv'
  <2>1. /\ pc = "snapshot" /\ pc' = "idle" /\ UNCHANGED <<links, remote, cur, asks, short, crashes>>
        /\ objs' = Append(objs, SnapshotRow) /\ disk' = disk \cup {n + 1}
        /\ Enqueue(<<"sync", n + 1>>, 1)
    BY <1>3 DEF Snapshot, pass
  <2>2. SnapshotRow \in Object
    BY DEF SnapshotRow, Attachment, Object, Capture, Status
  <2>3. Len(objs') = n + 1 /\ Id' = Id \cup {n + 1}
    BY <1>0, <2>1, <2>2, Grown
  <2>4. MaxObjects \in Nat /\ n + c < MaxObjects
    BY <2>1, Known
  <2>5. <<"sync", n + 1>> \in Key
    BY <2>4 DEF Key
  <2>6. Jobs(queue') /\ keys' \subseteq Key /\ Counted(queue') = Counted(queue)
    BY <2>1, <2>5, Enqueues
  <2>7. Roomy(Len(objs), queue, pc = "snapshot")'
    <3>1. Cardinality(Counted(queue')) = c /\ ~(pc' = "snapshot")
      BY <2>1, <2>6
    <3> QED
      BY <2>3, <2>4, <3>1 DEF Roomy
  <2>8. Places'
    <3>1. disk' \subseteq Id' /\ Id \subseteq Id'
      BY <1>0, <2>1, <2>3 DEF Places
    <3> QED
      BY <1>0, <2>1, <2>3, <3>1, PlacesKept
  <2>9. SummaryFirst' /\ pc' \in Pc /\ Counters'
    BY <1>0, <2>1 DEF SummaryFirst, Pc, Awaiting, Counters
  <2> QED
    BY <2>6, <2>7, <2>8, <2>9 DEF TypeInv
<1> QED
  BY <1>1, <1>2, <1>3 DEF SummaryStep

LEMMA SyncTyped == ASSUME Inv, Inv', TypeInv, UploadStep \/ DeleteStep PROVE TypeInv'
<1>0. Places /\ Counters
  BY DEF TypeInv
<1>1. CASE \/ \E o \in Id : RependUpload(o)
           \/ \E o \in Id : RependDelete(o)
           \/ \E level \in Levels : StartUploads(level)
           \/ \E o \in Id : Put(o)
           \/ \E o \in Id, taken \in BOOLEAN : PutFails(o, taken)
           \/ Uploaded
  <2>1. /\ DOMAIN objs' = DOMAIN objs /\ pc' \in {"sched", "upload", "stored"}
        /\ UNCHANGED <<links, disk, queue, keys, asks, crashes>>
        /\ cur' = cur \/ cur' \in Id
        /\ remote' = remote \/ \E o \in Id : remote' = remote \cup {o}
    BY <1>1 DEF RependUpload, RependDelete, StartUploads, Put, PutFails, Failed, Uploaded, rows, bytes, pass
  <2>2. short' \in BOOLEAN
    BY <1>0, <1>1 DEF RependUpload, RependDelete, StartUploads, Put, PutFails, Uploaded, Counters
  <2>3. pc' \in Pc \ {"summary", "snapshot"} /\ disk' \subseteq Id /\ remote' \subseteq Id
    BY <1>0, <2>1 DEF Pc, Awaiting, Places
  <2> QED
    BY <2>1, <2>2, <2>3, Stays
<1>2. CASE \/ StartDeletes
           \/ \E o \in Id : Delete(o)
           \/ \E o \in Id, taken \in BOOLEAN : DeleteFails(o, taken)
           \/ RemoveLocal \/ Deleted
  <2>1. /\ DOMAIN objs' = DOMAIN objs /\ pc' \in {"delete", "removed", "unlinked"}
        /\ UNCHANGED <<links, queue, keys, asks, short, crashes>>
        /\ cur' = cur \/ cur' \in Id
        /\ remote' \subseteq remote /\ disk' \subseteq disk
    BY <1>2 DEF StartDeletes, Delete, DeleteFails, RemoveLocal, Deleted, rows, bytes, pass
  <2>2. pc' \in Pc \ {"summary", "snapshot"} /\ disk' \subseteq Id /\ remote' \subseteq Id
    BY <1>0, <2>1 DEF Pc, Awaiting, Places
  <2> QED
    BY <1>0, <2>1, <2>2, Stays DEF Counters
<1>3. CASE SyncOver
  <2>1. /\ pc = "delete" /\ ~Idle /\ queue' = Tail(queue) /\ pc' = "idle"
        /\ UNCHANGED <<objs, keys, links, disk, remote, cur, asks, short, crashes>>
    BY <1>3 DEF SyncOver, Over, Idle, rows, bytes, pass
  <2>2. Places' /\ Counters'
    BY <1>0, <2>1 DEF Places, Id, Counters
  <2> QED
    BY <2>1, <2>2, Ends
<1> QED
  BY <1>1, <1>2, <1>3 DEF UploadStep, DeleteStep

(* The process dies: at most the job in hand goes, and one of the boot's    *)
(* comes.                                                                  *)
LEMMA RestartTyped == ASSUME Inv, Inv', TypeInv, Restart PROVE TypeInv'
<1>0. /\ Places /\ Counters /\ objs \in Seq(Object) /\ Jobs(queue) /\ keys \subseteq Key
      /\ queue \in Seq(Entry)
  BY Known DEF TypeInv
<1>1. /\ UNCHANGED <<objs, links, disk, remote, keys, asks, short>> /\ pc' = "idle" /\ cur' = 0
      /\ crashes < MaxCrashes /\ crashes' = crashes + 1
      /\ queue' = Reconciled \/ queue' = Append(Reconciled, Sync(1))
  BY DEF Restart, rows, bytes
<1> PICK n \in Nat, c \in Nat : n = Len(objs) /\ c = Cardinality(Counted(queue))
  BY Known
<1>2. n + c <= MaxObjects /\ MaxObjects \in Nat
  BY Known
<1> PICK r : r = Reconciled
  OBVIOUS
<1>3. r = queue \/ (queue # << >> /\ r = Tail(queue))
  <2>1. Running => queue # << >>
    BY Known DEF Running
  <2> QED
    BY <2>1 DEF Reconciled
<1>4. r \in Seq(Entry) /\ Jobs(r) /\ Cardinality(Counted(r)) <= Cardinality(Counted(queue))
  <2>1. CASE r = queue
    <3>1. Cardinality(Counted(r)) = c
      BY <2>1
    <3> QED
      BY <1>0, <2>1, <3>1
  <2>2. CASE queue # << >> /\ r = Tail(queue)
    <3>1. 1 \in 1 .. Len(queue) /\ Cut(queue, 1, r)
      BY <1>0, <2>2, CutTail
    <3> QED
      BY <1>0, <3>1, JobsCut, CountCut DEF Cut
  <2> QED
    BY <1>3, <2>1, <2>2
<1>5. Sync(1) \in Entry /\ Sync(1) \in Job /\ Sync(1).kind # "summary"
  BY StorageAssumption DEF Sync, Entry, Job, Kinds
<1>6. Jobs(queue') /\ Counted(queue') = Counted(r)
  BY <1>1, <1>4, <1>5, JobsAppend, CountAppend
<1>7. Roomy(Len(objs), queue, pc = "snapshot")'
  <2>1. PICK d \in Nat : d = Cardinality(Counted(r))
    BY <1>4, CountedFinite
  <2>2. Cardinality(Counted(queue')) = d /\ ~(pc' = "snapshot")
    BY <1>1, <1>6, <2>1
  <2>3. d <= c
    BY <1>4, <2>1
  <2>4. n + d <= MaxObjects
    BY <1>2, <2>3
  <2> QED
    BY <1>1, <2>2, <2>4 DEF Roomy
<1>8. Places'
  BY <1>0, <1>1 DEF Places, Id
<1>9. Counters' /\ SummaryFirst' /\ pc' \in Pc /\ keys' \subseteq Key
  BY <1>0, <1>1, StorageAssumption DEF Counters, SummaryFirst, Pc, Awaiting
<1> QED
  BY <1>6, <1>7, <1>8, <1>9 DEF TypeInv

LEMMA InitTyped == ASSUME Init PROVE TypeInv
<1>1. Counted(queue) = {} /\ Len(objs) = 0 /\ pc = "idle" /\ links = << >> /\ Jobs(queue)
  BY DEF Init, Counted, Jobs
<1>2. Roomy(Len(objs), queue, pc = "snapshot")
  BY <1>1, FS_EmptySet, StorageAssumption DEF Roomy
<1>3. Places
  BY <1>1 DEF Init, Places, Id
<1>4. Counters
  <2>1. short \in BOOLEAN
    BY Zenon DEF Init
  <2>2. asks \in 0 .. MaxAsks /\ crashes \in 0 .. MaxCrashes
    BY StorageAssumption DEF Init
  <2> QED
    BY <2>1, <2>2 DEF Counters
<1> QED
  BY <1>1, <1>2, <1>3, <1>4 DEF Init, TypeInv, SummaryFirst, Pc, Awaiting

LEMMA StutterTyped == ASSUME TypeInv, UNCHANGED vars PROVE TypeInv'
<1>1. UNCHANGED <<objs, links, disk, remote, queue, keys, pc, cur, asks, short, crashes>>
  BY DEF vars, rows, bytes, pass
<1>2. Roomy(Len(objs), queue, pc = "snapshot")' /\ SummaryFirst' /\ Jobs(queue)'
  BY <1>1 DEF TypeInv, SummaryFirst
<1> QED
  BY <1>1, <1>2 DEF TypeInv, Places, Id, Counters

(* The room that is set aside is there when it is needed.                   *)
LEMMA TypesKept == Spec => []TypeInv
<1>1. Inv /\ Inv' /\ TypeInv /\ [Next]_vars => TypeInv'
  <2> SUFFICES ASSUME Inv, Inv', TypeInv, [Next]_vars PROVE TypeInv'
    OBVIOUS
  <2> QED
    BY PollerTyped, ClaimTyped, CaptureTyped, CommandTyped, SummaryTyped, SyncTyped, RestartTyped,
       StutterTyped DEF Next, Worker
<1> QED
  BY <1>1, Invariance, InitTyped, PTL DEF Spec

(* Every variable keeps its type, and the worker is in a job only while one  *)
(* is queued: no job is claimed more often than it may be, although restarts *)
(* give it back to the queue (recovery.ts), no row is created beyond the     *)
(* bound by whatever order of files, summaries and restarts, and no capture, *)
(* link, file, upload or deletion is of a row that does not exist.           *)
THEOREM TypeCorrect == Spec => []TypeOK
<1>1. Inv /\ TypeInv => TypeOK
  BY Types
<1> QED
  BY <1>1, Invariance, TypesKept, PTL

-----------------------------------------------------------------------------
(* StorageSync implements ArtifactLedger.                                   *)

(* What a pass uploads is to be kept: the selection takes nothing else, and *)
(* no step makes a row less than "long_term" again.                        *)
PromotedInv == Uploading => \A o \in todo : objs[o].retention = "long_term"

LEMMA PromotedKept ==
  ASSUME Shape, PromotedInv, pc' = pc, todo' \subseteq todo, \A p \in todo' : objs'[p] = objs[p]
  PROVE  PromotedInv'
  BY DEF PromotedInv, Uploading

LEMMA PromotedKeeps == ASSUME Inv, PromotedInv, Next PROVE PromotedInv'
<1>0. Shape /\ PassInv /\ objs \in Seq(Object) /\ todo \subseteq Id
  BY DEF Inv, Shape
<1>1. CASE Poller
  <2>1. UNCHANGED <<pc, todo>>
    BY <1>1 DEF Poller, Attach, Ask, Cancel, pass
  <2>2. \A p \in Id : objs'[p] = objs[p]
    <3>1. ASSUME NEW saved \in BOOLEAN, NEW oversize \in BOOLEAN, NEW level \in Levels,
                 Attach(saved, oversize, level)
          PROVE  \A p \in Id : objs'[p] = objs[p]
      BY <1>0, <3>1 DEF Attach, Id
    <3> QED
      BY <1>1, <3>1 DEF Poller, Ask, Cancel, rows
  <2> QED
    BY <1>0, <2>1, <2>2, PromotedKept
<1>2. CASE Claim \/ CaptureStep \/ CommandStep \/ SummaryStep \/ DeleteStep \/ Restart
  <2>1. Claim => ~Uploading'
    BY DEF Claim, Start, Uploading
  <2>2. CaptureStep => ~Uploading'
    BY DEF CaptureStep, Download, CaptureFails, Captured, NothingToCapture, MessageOver, Over, Uploading
  <2>3. CommandStep => ~Uploading'
    BY DEF CommandStep, SaveNothing, Save, ForgetNothing, Forget, ForgetLast, CommandOver, Over,
           Uploading
  <2>4. SummaryStep => ~Uploading'
    BY DEF SummaryStep, SummaryOver, SnapshotBlocked, Snapshot, Uploading
  <2>5. DeleteStep => ~Uploading'
    BY DEF DeleteStep, StartDeletes, Delete, DeleteFails, RemoveLocal, Deleted, SyncOver, Over,
           Uploading
  <2>6. Restart => ~Uploading'
    BY DEF Restart, Uploading
  <2> QED
    BY <1>2, <2>1, <2>2, <2>3, <2>4, <2>5, <2>6 DEF PromotedInv
<1>3. CASE UploadStep
  <2>1. ASSUME NEW o \in Id, RependUpload(o) \/ RependDelete(o) PROVE PromotedInv'
    BY <2>1 DEF RependUpload, RependDelete, PromotedInv, Uploading
  <2>2. ASSUME NEW level \in Levels, StartUploads(level) PROVE PromotedInv'
    <3>1. todo' \subseteq Eligibles /\ UNCHANGED objs
      BY <2>2 DEF StartUploads, Selected, rows
    <3> QED
      BY <3>1 DEF PromotedInv, Eligibles, Eligible
  <2>3. ASSUME NEW o \in Id, Put(o) PROVE PromotedInv'
    BY <2>3 DEF Put, PromotedInv, Uploading, rows
  <2>4. ASSUME NEW o \in Id, NEW taken \in BOOLEAN, PutFails(o, taken) PROVE PromotedInv'
    <3>1. o \in todo /\ todo' = todo \ {o} /\ pc = "upload" /\ pc' = pc /\ Failed(o)
      BY <2>4 DEF PutFails, Oldest
    <3>2. objs[o].status = "pending"
      BY <1>0, <3>1 DEF PassInv, Uploading
    <3>3. Written(o)
      BY <1>0, <3>1, <3>2, FailedRow
    <3>4. \A p \in todo' : objs'[p] = objs[p]
      BY <1>0, <3>1, <3>3 DEF Written
    <3> QED
      BY <1>0, <3>1, <3>4, PromotedKept
  <2>5. ASSUME Uploaded PROVE PromotedInv'
    <3> PICK o : o = cur
      OBVIOUS
    <3>1. todo' = todo \ {o} /\ pc = "stored" /\ pc' = "upload" /\ MarkedUploaded(o)
      BY <2>5, InMark DEF Uploaded
    <3>2. o \in Id /\ objs[o].status = "pending"
      BY <1>0, <3>1 DEF PassInv, Uploading
    <3>3. Written(o)
      BY <1>0, <3>1, <3>2, UploadedRow
    <3>4. \A p \in todo' : objs'[p] = objs[p]
      BY <1>0, <3>1, <3>3 DEF Written
    <3> QED
      BY <3>1, <3>4 DEF PromotedInv, Uploading
  <2> QED
    BY <1>3, <2>1, <2>2, <2>3, <2>4, <2>5 DEF UploadStep
<1> QED
  BY <1>1, <1>2, <1>3 DEF Next, Worker

-----------------------------------------------------------------------------
(* The ledger of artifacts.                                                 *)

LEMMA SameLedger ==
  ASSUME UNCHANGED objs PROVE UNCHANGED <<StatusOf, CapturedRows, PromotedRows>>
  BY DEF StatusOf, CapturedRows, PromotedRows, Id

LEMMA RowOf ==
  ASSUME NEW o \in Id, Len(objs) \in Nat, Len(objs) <= MaxObjects, MaxObjects \in Nat
  PROVE  /\ o \in 1 .. MaxObjects /\ StatusOf[o] = objs[o].status
         /\ o \in CapturedRows <=> objs[o].capture = "captured"
         /\ o \in PromotedRows <=> objs[o].retention = "long_term"
  BY DEF StatusOf, CapturedRows, PromotedRows, Id

(* A row is written: its status becomes s.                                 *)
LEMMA WrittenLedger ==
  ASSUME objs \in Seq(Object), MaxObjects \in Nat, Len(objs) <= MaxObjects, NEW o \in Id, Written(o),
         NEW c, NEW r, NEW s, NEW t, NEW d, Set(o, c, r, s, t, d)
  PROVE  /\ StatusOf' = [StatusOf EXCEPT ![o] = s]
         /\ c = "captured" => CapturedRows' = CapturedRows \union {o}
         /\ c = objs[o].capture => CapturedRows' = CapturedRows
         /\ c # "captured" /\ objs[o].capture # "captured" => CapturedRows' = CapturedRows
         /\ r = "long_term" => PromotedRows' = PromotedRows \union {o}
         /\ r = objs[o].retention => PromotedRows' = PromotedRows
<1>1. Id' = Id /\ Id = 1 .. Len(objs) /\ \A p \in Id : p # o => objs'[p] = objs[p]
  BY DEF Written, Id
<1>2. objs'[o].capture = c /\ objs'[o].retention = r /\ objs'[o].status = s
  BY DEF Set
<1>3. StatusOf' = [StatusOf EXCEPT ![o] = s]
  <2> DEFINE before(p) == IF p \in Id THEN objs[p].status ELSE "absent"
             after(p) == IF p \in Id' THEN objs'[p].status ELSE "absent"
  <2>1. StatusOf = [p \in 1 .. MaxObjects |-> before(p)]
    BY DEF StatusOf
  <2>2. StatusOf' = [p \in 1 .. MaxObjects |-> after(p)]
    BY DEF StatusOf
  <2>3. after(o) = s /\ \A p \in 1 .. MaxObjects : p # o => after(p) = before(p)
    BY <1>1, <1>2
  <2>4. o \in 1 .. MaxObjects
    BY <1>1
  <2> HIDE DEF before, after
  <2> QED
    BY <2>1, <2>2, <2>3, <2>4
<1>4. c = "captured" => CapturedRows' = CapturedRows \union {o}
  BY <1>1, <1>2 DEF CapturedRows
<1>5. c = objs[o].capture => CapturedRows' = CapturedRows
  BY <1>1, <1>2 DEF CapturedRows
<1>6. c # "captured" /\ objs[o].capture # "captured" => CapturedRows' = CapturedRows
  BY <1>1, <1>2 DEF CapturedRows
<1>7. r = "long_term" => PromotedRows' = PromotedRows \union {o}
  BY <1>1, <1>2 DEF PromotedRows
<1>8. r = objs[o].retention => PromotedRows' = PromotedRows
  BY <1>1, <1>2 DEF PromotedRows
<1> QED
  BY <1>3, <1>4, <1>5, <1>6, <1>7, <1>8

(* A new row: it was absent and is pending.                                *)
LEMMA GrownLedger ==
  ASSUME objs \in Seq(Object), MaxObjects \in Nat, NEW x \in Object, objs' = Append(objs, x),
         NEW n, n = Len(objs) + 1, n <= MaxObjects, x.status = "pending"
  PROVE  /\ n \in 1 .. MaxObjects /\ StatusOf[n] = "absent"
         /\ StatusOf' = [StatusOf EXCEPT ![n] = "pending"]
         /\ CapturedRows' = IF x.capture = "captured" THEN CapturedRows \union {n} ELSE CapturedRows
         /\ PromotedRows' = IF x.retention = "long_term" THEN PromotedRows \union {n} ELSE PromotedRows
<1>1. n \notin Id /\ Id' = Id \union {n} /\ objs'[n] = x /\ \A p \in Id : objs'[p] = objs[p]
  BY Grown
<1>2. n \in 1 .. MaxObjects
  BY DEF Id
<1>3. StatusOf[n] = "absent"
  BY <1>1, <1>2 DEF StatusOf
<1>4. StatusOf' = [StatusOf EXCEPT ![n] = "pending"]
  <2> DEFINE before(p) == IF p \in Id THEN objs[p].status ELSE "absent"
             after(p) == IF p \in Id' THEN objs'[p].status ELSE "absent"
  <2>1. StatusOf = [p \in 1 .. MaxObjects |-> before(p)]
    BY DEF StatusOf
  <2>2. StatusOf' = [p \in 1 .. MaxObjects |-> after(p)]
    BY DEF StatusOf
  <2>3. after(n) = "pending" /\ \A p \in 1 .. MaxObjects : p # n => after(p) = before(p)
    BY <1>1
  <2> HIDE DEF before, after
  <2> QED
    BY <1>2, <2>1, <2>2, <2>3
<1>5. CapturedRows' = IF x.capture = "captured" THEN CapturedRows \union {n} ELSE CapturedRows
  BY <1>1 DEF CapturedRows
<1>6. PromotedRows' = IF x.retention = "long_term" THEN PromotedRows \union {n} ELSE PromotedRows
  BY <1>1 DEF PromotedRows
<1> QED
  BY <1>2, <1>3, <1>4, <1>5, <1>6

LEMMA SameStep ==
  ASSUME UNCHANGED <<objs, disk, remote>> PROVE UNCHANGED Ledger!ledger
  BY SameLedger DEF Ledger!ledger

(* What comes for an artifact is one of its steps.                          *)
LEMMA PollerRefines == ASSUME Inv, TypeInv, Poller PROVE [Ledger!Next]_(Ledger!ledger)
<1>0. objs \in Seq(Object) /\ Len(objs) \in Nat /\ MaxObjects \in Nat
  BY Known
<1>1. ASSUME NEW saved \in BOOLEAN, NEW oversize \in BOOLEAN, NEW level \in Levels,
             Attach(saved, oversize, level)
      PROVE  Ledger!Next
  <2> DEFINE x == Attachment(saved /\ Allows(level), oversize)
  <2> PICK n : n = Len(objs) + 1
    OBVIOUS
  <2>1. x \in Object /\ x.status = "pending" /\ x.capture # "captured"
    BY DEF Attachment, Object, Capture, Status
  <2>2. objs' = Append(objs, x) /\ Room /\ UNCHANGED <<disk, remote>>
    BY <1>1 DEF Attach, bytes
  <2> HIDE DEF x
  <2>3. n <= MaxObjects
    <3>1. Cardinality(Counted(queue)) \in Nat
      BY Known
    <3> QED
      BY <1>0, <2>2, <3>1, RoomMeans
  <2>4. /\ n \in 1 .. MaxObjects /\ StatusOf[n] = "absent"
        /\ StatusOf' = [StatusOf EXCEPT ![n] = "pending"] /\ CapturedRows' = CapturedRows
        /\ PromotedRows' \in {PromotedRows, PromotedRows \union {n}}
    BY <1>0, <2>1, <2>2, <2>3, GrownLedger
  <2>5. Ledger!Arrive(n)
    BY <2>2, <2>4 DEF Ledger!Arrive, Ledger!Becomes
  <2> QED
    BY <2>4, <2>5 DEF Ledger!Next
<1>2. ASSUME NEW k, NEW o, Ask(k, o) PROVE UNCHANGED Ledger!ledger
  BY <1>2, SameStep DEF Ask, rows, bytes
<1>3. ASSUME NEW i, Cancel(i) PROVE UNCHANGED Ledger!ledger
  BY <1>3, SameStep DEF Cancel, rows, bytes
<1> QED
  BY <1>1, <1>2, <1>3 DEF Poller

LEMMA CaptureRefines == ASSUME Inv, TypeInv, CaptureStep PROVE [Ledger!Next]_(Ledger!ledger)
<1>0. /\ objs \in Seq(Object) /\ Len(objs) \in Nat /\ MaxObjects \in Nat /\ Len(objs) <= MaxObjects
      /\ PassInv /\ MessageFirst(queue, objs)
  BY Known DEF Inv
<1>1. ASSUME pc \in {"capture", "wrote"}
      PROVE  /\ Own \in Id /\ objs[Own].status = "pending" /\ Own \in 1 .. MaxObjects
             /\ StatusOf[Own] = "pending"
             /\ Own \in CapturedRows <=> objs[Own].capture = "captured"
  <2>1. ~Idle /\ OfRow(queue[1]) /\ Message(queue[1])
    BY <1>0, <1>1 DEF PassInv, OfRow, Message, Idle
  <2>2. Own \in Id
    BY <2>1, OwnInId
  <2>3. queue # << >> /\ queue \in Seq(Entry)
    BY <2>1, Known
  <2>4. 1 \in 1 .. Len(queue)
    BY <2>3
  <2>5. objs[Own].status = "pending"
    BY <1>0, <2>1, <2>4 DEF MessageFirst, Untouched, Own
  <2> QED
    BY <1>0, <2>2, <2>5, RowOf
<1>2. CASE Download
  <2>1. Ledger!Fetch(Own)
    BY <1>1, <1>2, SameLedger DEF Download, rows, Ledger!Fetch
  <2> QED
    BY <1>1, <1>2, <2>1 DEF Download, Ledger!Next
<1>3. CASE CaptureFails
  <2> PICK o : o = Own
    OBVIOUS
  <2>1. /\ o \in Id /\ objs[o].capture = "pending" /\ objs' = [objs EXCEPT ![o].capture = "failed"]
        /\ UNCHANGED <<disk, remote>> /\ StatusOf[o] = objs[o].status
    BY <1>1, <1>3 DEF CaptureFails, bytes
  <2>2. Written(o)
        /\ Set(o, "failed", objs[o].retention, objs[o].status, objs[o].tries, objs[o].dtries)
    BY <1>0, <2>1, CaptureRow DEF Capture
  <2>3. /\ StatusOf' = [StatusOf EXCEPT ![o] = objs[o].status]
        /\ UNCHANGED <<CapturedRows, PromotedRows>>
    BY <1>0, <2>1, <2>2, WrittenLedger
  <2>4. StatusOf' = StatusOf
    BY <2>1, <2>3 DEF StatusOf
  <2> QED
    BY <2>1, <2>3, <2>4 DEF Ledger!ledger
<1>4. CASE Captured
  <2> PICK o : o = Own
    OBVIOUS
  <2>1. /\ o \in Id /\ objs' = [objs EXCEPT ![o].capture = "captured"] /\ o \in disk
        /\ UNCHANGED <<disk, remote>> /\ objs[o].status = "pending" /\ StatusOf[o] = "pending"
        /\ o \in 1 .. MaxObjects
    BY <1>0, <1>1, <1>4 DEF Captured, bytes, PassInv, Own
  <2>2. Written(o)
        /\ Set(o, "captured", objs[o].retention, objs[o].status, objs[o].tries, objs[o].dtries)
    BY <1>0, <2>1, CaptureRow DEF Capture
  <2>3. /\ StatusOf' = [StatusOf EXCEPT ![o] = objs[o].status]
        /\ CapturedRows' = CapturedRows \union {o} /\ UNCHANGED PromotedRows
    BY <1>0, <2>1, <2>2, WrittenLedger
  <2>4. StatusOf' = StatusOf
    BY <2>1, <2>3 DEF StatusOf
  <2>5. Ledger!Capture(o)
    BY <2>1, <2>3, <2>4 DEF Ledger!Capture
  <2> QED
    BY <2>1, <2>5 DEF Ledger!Next
<1>5. CASE NothingToCapture \/ MessageOver
  BY <1>5, SameStep DEF NothingToCapture, MessageOver, rows, bytes
<1> QED
  BY <1>2, <1>3, <1>4, <1>5 DEF CaptureStep

(* What may be saved was captured, and stays so.                            *)
CaughtInv == \A i \in 1 .. Len(caught) : caught[i] \in CapturedRows

LEMMA CommandRefines ==
  ASSUME Inv, TypeInv, CaughtInv, CommandStep PROVE [Ledger!Next]_(Ledger!ledger)
<1>0. /\ objs \in Seq(Object) /\ Len(objs) \in Nat /\ MaxObjects \in Nat /\ Len(objs) <= MaxObjects
      /\ Shape
  BY Known DEF Inv
<1>1. ASSUME NEW level \in Levels, NEW anchored \in BOOLEAN, Save(level, anchored) PROVE Ledger!Next
  <2> PICK o : o = Last(caught)
    OBVIOUS
  <2>1. /\ caught # << >> /\ objs' = [objs EXCEPT ![o].retention = "long_term"]
        /\ UNCHANGED <<disk, remote>>
    BY <1>1 DEF Save, bytes
  <2>2. o \in Id /\ o \in CapturedRows
    <3>1. caught \in Seq(Id)
      BY <1>0 DEF Shape
    <3>2. o = caught[Len(caught)] /\ Len(caught) \in 1 .. Len(caught)
      BY <2>1, <3>1 DEF Last
    <3> QED
      BY <3>1, <3>2 DEF CaughtInv
  <2>3. o \in 1 .. MaxObjects /\ StatusOf[o] = objs[o].status
    BY <1>0, <2>2, RowOf
  <2>4. Written(o)
        /\ Set(o, objs[o].capture, "long_term", objs[o].status, objs[o].tries, objs[o].dtries)
    BY <1>0, <2>1, <2>2, RetainedRow
  <2>5. /\ StatusOf' = [StatusOf EXCEPT ![o] = objs[o].status]
        /\ PromotedRows' = PromotedRows \union {o} /\ UNCHANGED CapturedRows
    BY <1>0, <2>2, <2>4, WrittenLedger
  <2>6. StatusOf' = StatusOf
    BY <2>3, <2>5 DEF StatusOf
  <2>7. Ledger!Promote(o)
    BY <2>1, <2>2, <2>5, <2>6 DEF Ledger!Promote
  <2> QED
    BY <2>3, <2>7 DEF Ledger!Next
<1>2. CASE Forget
  <2>0. ~Idle /\ OfRow(queue[1])
    BY <1>2 DEF Forget, Idle, OfRow
  <2> PICK o \in Id : o = Own
    BY <2>0, OwnInId
  <2>1. /\ objs' = [objs EXCEPT ![o].status = "deletion_requested"] /\ objs[o].status \notin Gone
        /\ UNCHANGED <<disk, remote>>
    BY <1>2 DEF Forget, bytes
  <2>2. /\ objs[o].status \in {"pending", "uploaded", "failed"} /\ o \in 1 .. MaxObjects
        /\ StatusOf[o] = objs[o].status
    <3>1. objs[o] \in Object
      BY <1>0, RowOK
    <3> QED
      BY <1>0, <2>1, <3>1, RowOf DEF Object, Status, Gone
  <2>3. Written(o)
        /\ Set(o, objs[o].capture, objs[o].retention, "deletion_requested", objs[o].tries, objs[o].dtries)
    BY <1>0, <2>1, StatusRow DEF Status
  <2>4. /\ StatusOf' = [StatusOf EXCEPT ![o] = "deletion_requested"]
        /\ UNCHANGED <<CapturedRows, PromotedRows>>
    BY <1>0, <2>3, WrittenLedger
  <2>5. Ledger!Forget(o)
    BY <2>1, <2>2, <2>4 DEF Ledger!Forget, Ledger!Becomes
  <2> QED
    BY <2>2, <2>5 DEF Ledger!Next
<1>3. CASE \/ \E level \in Levels : SaveNothing(level)
           \/ ForgetNothing \/ ForgetLast \/ CommandOver
  BY <1>3, SameStep DEF SaveNothing, ForgetNothing, ForgetLast, CommandOver, rows, bytes
<1> QED
  BY <1>1, <1>2, <1>3 DEF CommandStep

LEMMA SummaryRefines == ASSUME Inv, TypeInv, SummaryStep PROVE [Ledger!Next]_(Ledger!ledger)
<1>0. objs \in Seq(Object) /\ Len(objs) \in Nat /\ MaxObjects \in Nat
  BY Known
<1>1. ASSUME NEW level \in Levels, Snapshot(level) PROVE Ledger!Next
  <2> PICK n : n = Len(objs) + 1
    OBVIOUS
  <2>1. /\ pc = "snapshot" /\ objs' = Append(objs, SnapshotRow) /\ disk' = disk \union {n}
        /\ UNCHANGED remote
    BY <1>1 DEF Snapshot
  <2>2. /\ SnapshotRow \in Object /\ SnapshotRow.status = "pending"
        /\ SnapshotRow.capture = "captured" /\ SnapshotRow.retention = "long_term"
    BY DEF SnapshotRow, Attachment, Object, Capture, Status
  <2>3. n <= MaxObjects
    <3>1. Cardinality(Counted(queue)) \in Nat /\ Len(objs) + Cardinality(Counted(queue)) < MaxObjects
      BY <2>1, Known
    <3> QED
      BY <1>0, <3>1
  <2>4. /\ n \in 1 .. MaxObjects /\ StatusOf[n] = "absent"
        /\ StatusOf' = [StatusOf EXCEPT ![n] = "pending"]
        /\ CapturedRows' = CapturedRows \union {n} /\ PromotedRows' = PromotedRows \union {n}
    BY <1>0, <2>1, <2>2, <2>3, GrownLedger
  <2>5. Ledger!Arrive(n)
    BY <2>1, <2>4 DEF Ledger!Arrive, Ledger!Becomes
  <2> QED
    BY <2>4, <2>5 DEF Ledger!Next
<1>2. CASE \/ \E written \in BOOLEAN : SummaryOver(written)
           \/ \E level \in Levels : SnapshotBlocked(level)
  BY <1>2, SameStep DEF SummaryOver, SnapshotBlocked, rows, bytes
<1> QED
  BY <1>1, <1>2 DEF SummaryStep

(* A pass changes the status of one row, and no more.                       *)
LEMMA StatusLedger ==
  ASSUME Inv, TypeInv, NEW o \in Id, Written(o), NEW s, NEW t, NEW d,
         Set(o, objs[o].capture, objs[o].retention, s, t, d)
  PROVE  /\ o \in 1 .. MaxObjects /\ StatusOf[o] = objs[o].status
         /\ StatusOf' = [StatusOf EXCEPT ![o] = s] /\ UNCHANGED <<CapturedRows, PromotedRows>>
  BY Known, RowOf, WrittenLedger

LEMMA UploadRefines ==
  ASSUME Inv, TypeInv, PromotedInv, UploadStep PROVE [Ledger!Next]_(Ledger!ledger)
<1>0. /\ objs \in Seq(Object) /\ Len(objs) \in Nat /\ MaxObjects \in Nat /\ Len(objs) <= MaxObjects
      /\ PassInv /\ todo \subseteq Id
  BY Known DEF Inv, Shape
<1>1. ASSUME Uploading, NEW o \in todo
      PROVE  o \in Id /\ o \in 1 .. MaxObjects /\ objs[o].status = "pending" /\ Ledger!Due(o)
  BY <1>0, <1>1, RowOf DEF PassInv, PromotedInv, Ledger!Due
<1>2. ASSUME NEW o \in Id, RependUpload(o) PROVE Ledger!Next
  <2>1. /\ objs' = [objs EXCEPT ![o].status = "pending"] /\ objs[o].status = "failed"
        /\ UNCHANGED <<disk, remote>>
    BY <1>2 DEF RependUpload, UploadsAgain, FailedUploads, bytes
  <2>2. Written(o)
        /\ Set(o, objs[o].capture, objs[o].retention, "pending", objs[o].tries, objs[o].dtries)
    BY <1>0, <2>1, StatusRow DEF Status
  <2>3. o \in 1 .. MaxObjects /\ Ledger!UploadAgain(o)
    BY <2>1, <2>2, StatusLedger DEF Ledger!UploadAgain, Ledger!Becomes
  <2> QED
    BY <2>3 DEF Ledger!Next
<1>3. ASSUME NEW o \in Id, RependDelete(o) PROVE Ledger!Next
  <2>1. /\ objs' = [objs EXCEPT ![o].status = "deletion_requested"]
        /\ objs[o].status = "delete_failed" /\ UNCHANGED <<disk, remote>>
    BY <1>3 DEF RependDelete, DeletesAgain, bytes
  <2>2. Written(o)
        /\ Set(o, objs[o].capture, objs[o].retention, "deletion_requested", objs[o].tries, objs[o].dtries)
    BY <1>0, <2>1, StatusRow DEF Status
  <2>3. o \in 1 .. MaxObjects /\ Ledger!DeleteAgain(o)
    BY <2>1, <2>2, StatusLedger DEF Ledger!DeleteAgain, Ledger!Becomes
  <2> QED
    BY <2>3 DEF Ledger!Next
<1>4. ASSUME NEW level \in Levels, StartUploads(level) PROVE UNCHANGED Ledger!ledger
  BY <1>4, SameStep DEF StartUploads, rows, bytes
<1>5. ASSUME NEW o \in Id, Put(o) PROVE Ledger!Next
  <2>1. /\ Uploading /\ o \in todo /\ o \in disk /\ remote' = remote \union {o}
        /\ UNCHANGED <<objs, disk>>
    BY <1>5 DEF Put, Oldest, Uploading, rows
  <2>2. Ledger!Upload(o)
    BY <1>1, <2>1, SameLedger DEF Ledger!Upload
  <2> QED
    BY <1>1, <2>1, <2>2 DEF Ledger!Next
<1>6. ASSUME NEW o \in Id, NEW taken \in BOOLEAN, PutFails(o, taken) PROVE Ledger!Next
  <2>1. /\ Uploading /\ o \in todo /\ Failed(o) /\ UNCHANGED disk
        /\ remote' = remote \/ (o \in disk /\ remote' = remote \union {o})
    BY <1>6 DEF PutFails, Oldest, Uploading
  <2>2. Written(o)
        /\ Set(o, objs[o].capture, objs[o].retention, "failed", objs[o].tries + 1, objs[o].dtries)
    BY <1>0, <1>1, <2>1, FailedRow
  <2>3. Ledger!UploadFails(o)
    BY <1>1, <2>1, <2>2, StatusLedger DEF Ledger!UploadFails, Ledger!Becomes
  <2> QED
    BY <1>1, <2>1, <2>3 DEF Ledger!Next
<1>7. CASE Uploaded
  <2> PICK o : o = cur
    OBVIOUS
  <2>1. /\ Uploading /\ o \in todo /\ o \in remote /\ MarkedUploaded(o) /\ UNCHANGED <<disk, remote>>
    BY <1>0, <1>7, InMark DEF Uploaded, PassInv, Uploading, bytes
  <2>2. Written(o)
        /\ Set(o, objs[o].capture, objs[o].retention, "uploaded", 0, objs[o].dtries)
    BY <1>0, <1>1, <2>1, UploadedRow
  <2>3. Ledger!Uploaded(o)
    BY <1>1, <2>1, <2>2, StatusLedger DEF Ledger!Uploaded, Ledger!Becomes
  <2> QED
    BY <1>1, <2>1, <2>3 DEF Ledger!Next
<1> QED
  BY <1>2, <1>3, <1>4, <1>5, <1>6, <1>7 DEF UploadStep

LEMMA DeleteRefines == ASSUME Inv, TypeInv, DeleteStep PROVE [Ledger!Next]_(Ledger!ledger)
<1>0. /\ objs \in Seq(Object) /\ Len(objs) \in Nat /\ MaxObjects \in Nat /\ Len(objs) <= MaxObjects
      /\ PassInv /\ todo \subseteq Id
  BY Known DEF Inv, Shape
<1>1. ASSUME Deleting, NEW o \in todo
      PROVE  /\ o \in Id /\ o \in 1 .. MaxObjects /\ objs[o].status = "deletion_requested"
             /\ StatusOf[o] = "deletion_requested"
  BY <1>0, <1>1, RowOf DEF PassInv
<1>2. ASSUME NEW o \in Id, Delete(o) PROVE Ledger!Next
  <2>1. Deleting /\ o \in todo /\ remote' = remote \ {o} /\ UNCHANGED <<objs, disk>>
    BY <1>2 DEF Delete, Deleting, rows
  <2>2. Ledger!Remove(o)
    BY <1>1, <2>1, SameLedger DEF Ledger!Remove
  <2> QED
    BY <1>1, <2>1, <2>2 DEF Ledger!Next
<1>3. ASSUME NEW o \in Id, NEW taken \in BOOLEAN, DeleteFails(o, taken) PROVE Ledger!Next
  <2>1. /\ Deleting /\ o \in todo /\ remote' \in {remote, remote \ {o}} /\ UNCHANGED disk
        /\ MarkedDeleteFailed(o)
    BY <1>3, InMark DEF DeleteFails, Deleting
  <2>2. Written(o)
        /\ Set(o, objs[o].capture, objs[o].retention, "delete_failed", objs[o].tries, objs[o].dtries + 1)
    BY <1>0, <1>1, <2>1, DeleteFailedRow
  <2>3. Ledger!DeleteFails(o)
    BY <1>1, <2>1, <2>2, StatusLedger DEF Ledger!DeleteFails, Ledger!Becomes
  <2> QED
    BY <1>1, <2>1, <2>3 DEF Ledger!Next
<1>4. CASE RemoveLocal
  <2>1. /\ Deleting /\ cur \in todo /\ cur \notin remote /\ disk' = disk \ {cur}
        /\ UNCHANGED <<objs, remote>>
    BY <1>0, <1>4 DEF RemoveLocal, PassInv, Deleting, rows
  <2>2. Ledger!Unlink(cur)
    BY <1>1, <2>1, SameLedger DEF Ledger!Unlink
  <2> QED
    BY <1>1, <2>1, <2>2 DEF Ledger!Next
<1>5. CASE Deleted
  <2> PICK o : o = cur
    OBVIOUS
  <2>1. /\ Deleting /\ o \in todo /\ o \notin remote /\ o \notin disk /\ MarkedDeleted(o)
        /\ UNCHANGED <<disk, remote>>
    BY <1>0, <1>5, InMark DEF Deleted, PassInv, Deleting, bytes
  <2>2. Written(o) /\ Set(o, objs[o].capture, objs[o].retention, "deleted", 0, 0)
    BY <1>0, <1>1, <2>1, DeletedRow
  <2>3. Ledger!Deleted(o)
    BY <1>1, <2>1, <2>2, StatusLedger DEF Ledger!Deleted, Ledger!Becomes
  <2> QED
    BY <1>1, <2>1, <2>3 DEF Ledger!Next
<1>6. CASE StartDeletes \/ SyncOver
  BY <1>6, SameStep DEF StartDeletes, SyncOver, rows, bytes
<1> QED
  BY <1>2, <1>3, <1>4, <1>5, <1>6 DEF DeleteStep

LEMMA CaughtKeeps ==
  ASSUME Inv, CaughtInv, Next, [Ledger!Next]_(Ledger!ledger) PROVE CaughtInv'
<1>0. objs \in Seq(Object) /\ caught \in Seq(Id)
  BY DEF Inv, Shape
<1>1. CapturedRows \subseteq CapturedRows'
  BY DEF Ledger!ledger, Ledger!Next, Ledger!Arrive, Ledger!Fetch, Ledger!Capture, Ledger!Promote,
         Ledger!Upload, Ledger!Uploaded, Ledger!UploadFails, Ledger!UploadAgain, Ledger!Forget,
         Ledger!Remove, Ledger!Unlink, Ledger!Deleted, Ledger!DeleteFails, Ledger!DeleteAgain
<1>2. CASE UNCHANGED caught
  BY <1>1, <1>2 DEF CaughtInv
<1>3. CASE Captured
  <2>1. ~Idle /\ OfRow(queue[1]) /\ caught' = Append(caught, Own)
        /\ objs' = [objs EXCEPT ![Own].capture = "captured"]
    BY <1>3 DEF Captured, Inv, PassInv, Idle, OfRow
  <2> PICK o \in Id : o = Own
    BY <2>1, OwnInId
  <2>2. Written(o)
        /\ Set(o, "captured", objs[o].retention, objs[o].status, objs[o].tries, objs[o].dtries)
    BY <1>0, <2>1, CaptureRow DEF Capture
  <2>3. o \in CapturedRows'
    BY <2>2 DEF Written, Set, CapturedRows, Id
  <2> QED
    BY <1>0, <1>1, <2>1, <2>3 DEF CaughtInv
<1>4. UNCHANGED caught \/ Captured
  <2>1. Poller \/ Claim \/ Restart => UNCHANGED caught
    BY DEF Poller, Attach, Ask, Cancel, Claim, Restart, rows
  <2>2. CaptureStep => UNCHANGED caught \/ Captured
    BY DEF CaptureStep, Download, CaptureFails, NothingToCapture, MessageOver, rows
  <2>3. CommandStep => UNCHANGED caught
    BY DEF CommandStep, SaveNothing, Save, ForgetNothing, Forget, ForgetLast, CommandOver, rows
  <2>4. SummaryStep => UNCHANGED caught
    BY DEF SummaryStep, SummaryOver, SnapshotBlocked, Snapshot, rows
  <2>5. UploadStep => UNCHANGED caught
    BY DEF UploadStep, RependUpload, RependDelete, StartUploads, Put, PutFails, Uploaded, rows
  <2>6. DeleteStep => UNCHANGED caught
    BY DEF DeleteStep, StartDeletes, Delete, DeleteFails, RemoveLocal, Deleted, SyncOver, rows
  <2> QED
    BY <2>1, <2>2, <2>3, <2>4, <2>5, <2>6 DEF Next, Worker
<1> QED
  BY <1>2, <1>3, <1>4

(* Every artifact lives as ArtifactLedger.tla promises: only what was       *)
(* captured and promoted is ever sent to the bucket, "uploaded" follows the *)
(* answer, a deletion takes the bucket first, then the disk, then the row,  *)
(* and no capture, command, pass, retry or restart brings back what is gone *)
(* (sync.ts:123-392, attachment_capture.ts:237-363, forget.ts:30-68).       *)
THEOREM Refinement == Spec => RefinesLedger
<1>1. Init => Ledger!Init
  <2> SUFFICES ASSUME Init PROVE Ledger!Init
    OBVIOUS
  <2>1. Id = {} /\ disk = {} /\ remote = {}
    BY DEF Init, Id
  <2> QED
    BY <2>1 DEF StatusOf, CapturedRows, PromotedRows, Ledger!Init
<1>2. Init => PromotedInv
  BY DEF Init, PromotedInv, Uploading
<1>3. Inv /\ PromotedInv /\ [Next]_vars => PromotedInv'
  <2>1. PromotedInv /\ UNCHANGED vars => PromotedInv'
    BY DEF PromotedInv, Uploading, vars, rows, pass
  <2> QED
    BY <2>1, PromotedKeeps
<1>4. Init => CaughtInv
  BY DEF Init, CaughtInv
<1>5. Inv /\ TypeInv /\ PromotedInv /\ CaughtInv /\ [Next]_vars => [Ledger!Next]_(Ledger!ledger)
  <2>1. Claim \/ Restart \/ UNCHANGED vars => UNCHANGED Ledger!ledger
    BY SameStep DEF Claim, Restart, vars, rows, bytes
  <2> QED
    BY <2>1, PollerRefines, CaptureRefines, CommandRefines, SummaryRefines, UploadRefines, DeleteRefines
       DEF Next, Worker
<1>6. Inv /\ CaughtInv /\ [Next]_vars /\ [Ledger!Next]_(Ledger!ledger) => CaughtInv'
  <2>1. CaughtInv /\ UNCHANGED vars => CaughtInv'
    BY SameLedger DEF CaughtInv, vars, rows
  <2> QED
    BY <2>1, CaughtKeeps
<1> QED
  BY <1>1, <1>2, <1>3, <1>4, <1>5, <1>6, Invariance, TypesKept, PTL DEF Spec, Ledger!Spec, RefinesLedger
=============================================================================
