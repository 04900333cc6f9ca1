---------------------------- MODULE MemoryProofs ----------------------------
(***************************************************************************)
(* What holds of the memory of a chat for every value of the constants.    *)
(*                                                                         *)
(* First types.  Then the items: ItemStep lists the four ways a step may    *)
(* change them, and what is said of corrections follows from those.  Then   *)
(* the job in hand and the queue, for reruns and for the throttle.  Last    *)
(* the prompts: folds over finite sets, the packer's loop as one of them,   *)
(* and what the prompt of the job in hand shows.                           *)
(***************************************************************************)
EXTENDS Memory, FiniteSetTheorems, WellFoundedInduction, TLAPS

(* A job is a record with a kind that is not "none".                       *)
LEMMA JobsAreJobs == NoJob \notin Job
  BY SMT DEF NoJob, Job, Kinds, Commands, Undoing, Summaries

LEMMA NewJobTyped ==
  ASSUME NEW k \in Kinds, NEW s \in Session
  PROVE  /\ NewJob(k, s) \in Job
         /\ NewJob(k, s).session = s /\ NewJob(k, s).runs = 0 /\ NewJob(k, s).kind = k
         /\ NewJob(k, s).changes = 0
  BY DEF NewJob, Job

LEMMA OpenedTyped ==
  ASSUME TypeOK
  PROVE  opened \in Nat /\ opened \in 1 .. opened /\ 1 .. opened \subseteq Session
<1>1. opened \in 1 .. MaxSessions
  BY DEF TypeOK, Session
<1>2. MaxSessions \in Nat
  BY MemoryAssumption
<1> QED
  BY <1>1, <1>2 DEF Session

(* What a message appends to the queue is a job of the current session.    *)
LEMMA Sent ==
  ASSUME TypeOK, Send
  PROVE  \E j \in Job : /\ Enqueued(j) /\ j.session = Current /\ j.runs = 0 /\ j.changes = 0
                        /\ j.kind # "auto"
<1>0. Current \in Session
  BY DEF Send, Enqueued
<1>0a. \A k \in Kinds : /\ NewJob(k, Current) \in Job
                        /\ NewJob(k, Current).session = Current /\ NewJob(k, Current).runs = 0
                        /\ NewJob(k, Current).kind = k /\ NewJob(k, Current).changes = 0
  BY <1>0, NewJobTyped
<1>1. CASE \E t \in MessageTokens : Enqueued([NewJob("chat", Current) EXCEPT !.tokens = t])
  <2>1. PICK t \in MessageTokens : Enqueued([NewJob("chat", Current) EXCEPT !.tokens = t])
    BY <1>1
  <2>2. "chat" \in Kinds /\ t \in Nat
    BY MemoryAssumption DEF Kinds
  <2> QED
    BY <2>1, <2>2, <1>0a DEF Job
<1>2. CASE \E k \in (Commands \ NamesItem) \cup {"summary", "end"} : Enqueued(NewJob(k, Current))
  <2>1. PICK k \in (Commands \ NamesItem) \cup {"summary", "end"} : Enqueued(NewJob(k, Current))
    BY <1>2
  <2>2. k \in Kinds /\ k # "auto"
    BY DEF Kinds, Commands, Undoing, Summaries
  <2> QED
    BY <2>1, <2>2, <1>0a
<1>3. CASE \E k \in NamesItem, i \in Items \cup {0} :
              Enqueued([NewJob(k, Current) EXCEPT !.target = i])
  <2>1. PICK k \in NamesItem, i \in Items \cup {0} :
              Enqueued([NewJob(k, Current) EXCEPT !.target = i])
    BY <1>3
  <2>2. k \in Kinds /\ k # "auto" /\ i \in Nat
    BY DEF Kinds, Commands, Undoing, NamesItem, Items, TypeOK
  <2> QED
    BY <2>1, <2>2, <1>0a DEF Job
<1> QED
  BY <1>1, <1>2, <1>3 DEF Send

-----------------------------------------------------------------------------
(* Types.                                                                  *)

(* The sessions a step leaves alone stay typed, and those a message opens.  *)
LEMMA Opens ==
  ASSUME TypeOK, Current \in Session
  PROVE  Current \in Nat /\ opened <= Current
<1>1. opened \in Nat
  BY OpenedTyped
<1> QED
  BY <1>1 DEF Current

(* The rows of memory_items stay rows.                                     *)
LEMMA ItemsTyped ==
  ASSUME TypeOK, NEW i \in Items, NEW s \in Session, Len(items) < MaxItems
  PROVE  /\ Inserted(items, s, 0, Len(items) + 1, items[i].fact) \in Seq(Row)
         /\ Len(Inserted(items, s, 0, Len(items) + 1, items[i].fact)) <= MaxItems
         /\ Inserted([items EXCEPT ![i].status = "superseded"], s, i, items[i].chain,
                     items[i].fact) \in Seq(Row)
         /\ Len(Inserted([items EXCEPT ![i].status = "superseded"], s, i, items[i].chain,
                         items[i].fact)) <= MaxItems
<1>0. items \in Seq(Row) /\ MaxItems \in Nat
  BY MemoryAssumption DEF TypeOK
<1>1. items \in Seq(Row) /\ Len(items) \in Nat /\ MaxItems \in Nat /\ i \in 1 .. Len(items)
  BY <1>0 DEF Items
<1>2. items[i] \in Row
  BY <1>1
<1>3. items[i].chain \in Item /\ items[i].fact \in Item
  BY <1>2 DEF Row
<1>4. Len(items) + 1 \in Item /\ i \in 0 .. MaxItems /\ 0 \in 0 .. MaxItems
  BY <1>1 DEF Item
<1>5. [items[i] EXCEPT !.status = "superseded"] \in Row
  BY <1>2 DEF Row
<1>6. /\ [items EXCEPT ![i].status = "superseded"] \in Seq(Row)
      /\ Len([items EXCEPT ![i].status = "superseded"]) = Len(items)
  BY <1>1, <1>5
<1>7. ASSUME NEW p \in 0 .. MaxItems, NEW c \in Item
      PROVE  [status |-> "active", session |-> s, stated |-> TRUE, supersedes |-> p,
              chain |-> c, fact |-> items[i].fact] \in Row
  BY <1>3 DEF Row
<1> QED
  BY <1>1, <1>3, <1>4, <1>6, <1>7 DEF Inserted
(* What the tombstone leaves are rows, in the same order.                  *)
LEMMA RevokedTyped ==
  ASSUME TypeOK, NEW S \in SUBSET Items, Revoked(S)
  PROVE  items' \in Seq(Row) /\ Len(items') = Len(items)
<1>1. items \in Seq(Row) /\ Items = 1 .. Len(items) /\ Len(items) \in Nat
  BY DEF TypeOK, Items
<1>2. ASSUME NEW i \in Items
      PROVE  items[i] \in Row /\ [items[i] EXCEPT !.status = "revoked"] \in Row
  <2>1. items[i] \in Row
    BY <1>1
  <2> QED
    BY <2>1 DEF Row
<1>3. items' \in [1 .. Len(items) -> Row]
  BY <1>1, <1>2 DEF Revoked
<1> QED
  BY <1>1, <1>3

LEMMA InitTyped == Init => TypeOK
<1> SUFFICES ASSUME Init PROVE TypeOK
  OBVIOUS
<1>1. InitialItems \in Seq(BOOLEAN) /\ Len(InitialItems) <= MaxItems /\ MaxItems \in Nat
      /\ Len(InitialItems) \in Nat /\ DOMAIN InitialItems = 1 .. Len(InitialItems)
  BY MemoryAssumption
<1>2. 1 \in Session /\ MaxSessions \in Nat /\ opened = 1
  BY MemoryAssumption DEF Session, Init
<1>3. items \in [1 .. Len(InitialItems) -> Row]
  BY <1>1, <1>2 DEF Init, Row, Item
<1>4. items \in Seq(Row) /\ Len(items) = Len(InitialItems)
  BY <1>1, <1>3
<1>5. summaries \in [Session -> Seq([turns : Nat, users : Nat, kind : Summaries])]
  BY DEF Init
<1>6. sent \in [messages : 0 .. MaxMessages, commands : 0 .. MaxCommands] /\ crashes \in 0 .. MaxCrashes
  BY MemoryAssumption DEF Init
<1>7. queue \in Seq(Job) /\ \A k \in DOMAIN queue : Typed(queue[k]) /\ queue[k].runs < MaxAttempts
  BY DEF Init
<1> QED
  BY <1>1, <1>2, <1>4, <1>5, <1>6, <1>7 DEF TypeOK, Init

(* A queue and a hand that are typed.                                      *)
Queued(q) == q \in Seq(Job) /\ \A k \in DOMAIN q : Typed(q[k]) /\ q[k].runs < MaxAttempts
Held(j) == j # NoJob => Typed(j) /\ j.runs \in 1 .. MaxAttempts
StoreOK ==
  /\ items \in Seq(Row) /\ Len(items) <= MaxItems
  /\ links \in [Session -> Nat]
  /\ turns \in [Session -> [all : Nat, users : Nat]]
  /\ summaries \in [Session -> Seq([turns : Nat, users : Nat, kind : Summaries])]
  /\ opened \in Session /\ closed \subseteq 1 .. opened
  /\ resumable \subseteq 1 .. opened
CountsOK ==
  /\ sent \in [messages : 0 .. MaxMessages, commands : 0 .. MaxCommands]
  /\ crashes \in 0 .. MaxCrashes

LEMMA TypeParts == TypeOK <=> StoreOK /\ old \in 0 .. opened /\ Queued(queue) /\ Held(job) /\ CountsOK
  BY DEF TypeOK, StoreOK, Queued, Held, CountsOK

LEMMA TailQueued ==
  ASSUME Queued(queue), queue # << >>
  PROVE  /\ Head(queue) = queue[1] /\ 1 \in DOMAIN queue
         /\ Queued(Tail(queue))
<1>1. queue \in Seq(Job) /\ Len(queue) \in Nat /\ Len(queue) > 0 /\ DOMAIN queue = 1 .. Len(queue)
  BY DEF Queued
<1>2. /\ Tail(queue) \in Seq(Job) /\ DOMAIN Tail(queue) = 1 .. Len(queue) - 1
      /\ \A k \in DOMAIN Tail(queue) : k + 1 \in DOMAIN queue /\ Tail(queue)[k] = queue[k + 1]
  BY <1>1
<1> QED
  BY <1>1, <1>2 DEF Queued

LEMMA AppendQueued ==
  ASSUME Queued(queue), NEW j \in Job, Typed(j), j.runs < MaxAttempts
  PROVE  /\ Queued(Append(queue, j)) /\ Queued(<<j>> \o queue)
<1>1. queue \in Seq(Job) /\ Len(queue) \in Nat /\ DOMAIN queue = 1 .. Len(queue)
  BY DEF Queued
<1>2. /\ Append(queue, j) \in Seq(Job) /\ DOMAIN Append(queue, j) = 1 .. Len(queue) + 1
      /\ \A k \in 1 .. Len(queue) : Append(queue, j)[k] = queue[k]
      /\ Append(queue, j)[Len(queue) + 1] = j
  BY <1>1
<1>3. /\ <<j>> \o queue \in Seq(Job) /\ DOMAIN (<<j>> \o queue) = 1 .. Len(queue) + 1
      /\ \A k \in 1 .. Len(queue) + 1 :
           (<<j>> \o queue)[k] = IF k = 1 THEN j ELSE queue[k - 1]
      /\ \A k \in 1 .. Len(queue) + 1 : k # 1 => k - 1 \in 1 .. Len(queue)
  BY <1>1
<1> QED
  BY <1>1, <1>2, <1>3 DEF Queued

(* Every kind of step, part by part.                                       *)
LEMMA SendTyped == ASSUME TypeOK, Send PROVE TypeOK'
<1>0. StoreOK /\ old \in 0 .. opened /\ Queued(queue) /\ Held(job) /\ CountsOK
  BY TypeParts
<1>1. PICK j \in Job : /\ Enqueued(j) /\ j.session = Current /\ j.runs = 0 /\ j.changes = 0
  BY Sent
<1>2. Current \in Session /\ Current \in Nat /\ opened \in Nat /\ opened <= Current
  BY <1>1, Opens, OpenedTyped DEF Enqueued
<1>3. /\ opened' = Current /\ queue' = Append(queue, j) /\ job' = job /\ old' = old
      /\ UNCHANGED <<items, links, turns, summaries, closed, resumable, crashes>>
  BY <1>1 DEF Enqueued
<1>4. ASSUME NEW x \in Job, x.session <= opened PROVE x.session <= opened'
  BY <1>2, <1>3, <1>4 DEF Job, Session
<1>5. j.session <= opened' /\ j.runs < MaxAttempts
  BY <1>1, <1>2, <1>3, MemoryAssumption
<1>6. /\ queue' \in Seq(Job)
      /\ \A k \in DOMAIN queue' : queue'[k] \in Job /\ queue'[k].session <= opened'
                                /\ queue'[k].runs < MaxAttempts
  <2>1. queue \in Seq(Job) /\ Len(queue) \in Nat /\ DOMAIN queue = 1 .. Len(queue)
    BY <1>0 DEF Queued
  <2>2. /\ queue' \in Seq(Job) /\ DOMAIN queue' = 1 .. Len(queue) + 1
        /\ \A k \in 1 .. Len(queue) : queue'[k] = queue[k]
        /\ queue'[Len(queue) + 1] = j
    BY <1>3, <2>1
  <2>3. \A k \in DOMAIN queue : queue[k] \in Job /\ queue[k].session <= opened'
                               /\ queue[k].runs < MaxAttempts
    BY <1>0, <1>4 DEF Queued, Typed
  <2> QED
    BY <2>1, <2>2, <2>3, <1>5
<1>7. sent' \in [messages : 0 .. MaxMessages, commands : 0 .. MaxCommands]
  <2>1. sent \in [messages : 0 .. MaxMessages, commands : 0 .. MaxCommands]
        /\ MaxMessages \in Nat /\ MaxCommands \in Nat
    BY <1>0, MemoryAssumption DEF CountsOK
  <2> QED
    BY <1>1, <2>1 DEF Enqueued
<1>8. StoreOK' /\ old' \in 0 .. opened' /\ crashes' \in 0 .. MaxCrashes
  <2>1. closed \subseteq 1 .. opened' /\ resumable \subseteq 1 .. opened' /\ old' \in 0 .. opened'
    BY <1>0, <1>2, <1>3 DEF StoreOK
  <2> QED
    BY <1>0, <1>2, <1>3, <2>1 DEF StoreOK, CountsOK
<1>9. job' # NoJob => /\ job' \in Job /\ job'.session <= opened'
                      /\ job'.runs \in 1 .. MaxAttempts
  BY <1>0, <1>3, <1>4 DEF Held, Typed
<1> QED
  BY <1>6, <1>7, <1>8, <1>9 DEF TypeOK, StoreOK, Typed

(* Steps that open no session: enough to look at what they change.         *)
LEMMA Rest ==
  ASSUME TypeOK, opened' = opened, UNCHANGED <<sent>>, StoreOK', old' \in 0 .. opened,
         Queued(queue'), Held(job'), crashes' \in 0 .. MaxCrashes
  PROVE  TypeOK'
<1>1. \A x : Typed(x) => Typed(x)'
  BY DEF Typed
<1>2. CountsOK'
  BY DEF TypeOK, CountsOK
<1> QED
  BY <1>1, <1>2 DEF TypeOK, StoreOK, Queued, Held, CountsOK

(* A job keeps its type as its phase, attempts and mode go on.             *)
LEMMA JobOn ==
  ASSUME NEW j \in Job, NEW n \in Nat, NEW p \in {"queued", "claimed"}, NEW r \in BOOLEAN
  PROVE  /\ [j EXCEPT !.phase = p, !.runs = n] \in Job
         /\ [j EXCEPT !.phase = p, !.runs = n, !.warned = r] \in Job
         /\ [j EXCEPT !.phase = p, !.replay = r, !.runs = n] \in Job
  BY DEF Job

(* The job in hand is a job, and keeps its type as its phase goes on.      *)
LEMMA InHand ==
  ASSUME TypeOK, job # NoJob
  PROVE  /\ job \in Job /\ job.session \in Session /\ job.session \in 1 .. opened
         /\ job.session <= opened
         /\ job.runs \in 1 .. MaxAttempts /\ job.runs \in Nat /\ MaxAttempts \in Nat
         /\ Held(NoJob) /\ Held(job)
         /\ \A p \in {"claimed", "compiled", "done", "told", "ended"} :
              Held([job EXCEPT !.phase = p])
<1>1. job \in Job /\ job.session <= opened /\ job.runs \in 1 .. MaxAttempts /\ MaxAttempts \in Nat
  BY MemoryAssumption DEF TypeOK, Typed
<1>2. job.session \in Session /\ job.session \in 1 .. opened
  BY <1>1, OpenedTyped DEF Job, Session
<1>3. ASSUME NEW p \in {"claimed", "compiled", "done", "told", "ended"}
      PROVE  Held([job EXCEPT !.phase = p])
  BY <1>1 DEF Held, Typed, Job
<1> QED
  BY <1>1, <1>2, <1>3 DEF Held, Typed

(* A turn of the assistant adds one turn, and none of the user.            *)
LEMMA ToldTyped ==
  ASSUME TypeOK, NEW s \in Session
  PROVE  /\ Told(s) \in [Session -> [all : Nat, users : Nat]]
         /\ \A t \in Session : Told(s)[t].users = turns[t].users
<1> DEFINE n == turns[s].all + 1
<1>1. turns \in [Session -> [all : Nat, users : Nat]] /\ Told(s) = [turns EXCEPT ![s].all = n]
  BY DEF TypeOK, Told
<1>2. turns[s] \in [all : Nat, users : Nat] /\ n \in Nat
  BY <1>1
<1>3. [turns[s] EXCEPT !.all = n] \in [all : Nat, users : Nat]
  BY <1>2
<1>4. [turns[s] EXCEPT !.all = n].users = turns[s].users
  BY <1>2
<1> HIDE DEF n
<1> QED
  BY <1>1, <1>3, <1>4

LEMMA CrashTyped == ASSUME TypeOK, Crash PROVE TypeOK'
<1>1. job # NoJob /\ StoreOK /\ Queued(queue) /\ old \in 0 .. opened /\ Held(NoJob)
  BY InHand, TypeParts DEF Crash
<1>2. crashes' \in 0 .. MaxCrashes
  <2>1. crashes \in 0 .. MaxCrashes /\ MaxCrashes \in Nat
    BY MemoryAssumption DEF TypeOK
  <2> QED
    BY <2>1 DEF Crash
<1>3. Held(job')
  <2>1. job \in Job /\ job.runs \in Nat /\ job.runs \in 1 .. MaxAttempts /\ MaxAttempts \in Nat
        /\ job.session <= opened
    BY <1>1, InHand
  <2>2. ASSUME job.runs < MaxAttempts
        PROVE  Held([job EXCEPT !.phase = "claimed", !.runs = @ + 1, !.warned = TRUE])
    <3> DEFINE n == job.runs + 1
    <3>1. n \in Nat /\ n \in 1 .. MaxAttempts
      BY <2>1, <2>2
    <3> HIDE DEF n
    <3>2. [job EXCEPT !.phase = "claimed", !.runs = n, !.warned = TRUE] \in Job
      BY <2>1, <3>1, JobOn
    <3>3. Held([job EXCEPT !.phase = "claimed", !.runs = n, !.warned = TRUE])
      BY <2>1, <3>1, <3>2 DEF Held, Typed, Job
    <3> QED
      BY <3>3 DEF n
  <2> QED
    BY <1>1, <2>2 DEF Crash, RunAgain
<1>4. turns' \in [Session -> [all : Nat, users : Nat]]
  <2>1. turns' = turns \/ turns' = Told(job.session)
    BY DEF Crash
  <2>2. job.session \in Session /\ turns \in [Session -> [all : Nat, users : Nat]]
    BY <1>1, InHand DEF StoreOK
  <2> QED
    BY <2>1, <2>2, ToldTyped
<1>5. opened' = opened /\ UNCHANGED <<sent, queue, old>> /\ StoreOK'
  BY <1>1, <1>4 DEF Crash, StoreOK
<1> QED
  BY <1>1, <1>2, <1>3, <1>5, Rest

LEMMA ClaimTyped == ASSUME TypeOK, Claim PROVE TypeOK'
<1>1. StoreOK /\ Queued(queue) /\ old \in 0 .. opened /\ CountsOK
  BY TypeParts
<1>2. Queued(queue') /\ Head(queue) = queue[1] /\ 1 \in DOMAIN queue
  BY <1>1, TailQueued DEF Claim
<1>3. queue[1] \in Job /\ queue[1].session <= opened /\ queue[1].runs < MaxAttempts
      /\ MaxAttempts \in Nat
  BY <1>1, <1>2, MemoryAssumption DEF Queued, Typed
<1>4. Held(job')
  <2> DEFINE n == queue[1].runs + 1
  <2>1. job' = [queue[1] EXCEPT !.phase = "claimed", !.runs = n]
    BY <1>2 DEF Claim
  <2>2. queue[1].runs \in Nat
    BY <1>3 DEF Job
  <2>3. n \in Nat /\ n \in 1 .. MaxAttempts
    BY <1>3, <2>2
  <2> HIDE DEF n
  <2>4. [queue[1] EXCEPT !.phase = "claimed", !.runs = n] \in Job
    BY <1>3, <2>3, JobOn
  <2> QED
    BY <1>3, <2>1, <2>3, <2>4 DEF Held, Typed, Job
<1>5. opened' = opened /\ UNCHANGED <<sent, old, crashes>> /\ StoreOK'
  BY <1>1 DEF Claim, store, StoreOK
<1> QED
  BY <1>1, <1>2, <1>4, <1>5, Rest DEF CountsOK

(* The steps of a run of the provider.                                     *)
LEMMA ProviderTyped == ASSUME TypeOK, Provider PROVE TypeOK'
<1>0. job # NoJob
  BY DEF Provider, Compile, ResumeFails, Return, AutoSummary, Summarise, At
<1>1. /\ StoreOK /\ Queued(queue) /\ old \in 0 .. opened /\ CountsOK
      /\ Held(NoJob) /\ Held([job EXCEPT !.phase = "compiled"])
      /\ Held([job EXCEPT !.phase = "ended"])
      /\ job \in Job /\ job.session \in Session /\ job.session \in 1 .. opened
      /\ job.session <= opened /\ job.runs \in 1 .. MaxAttempts /\ MaxAttempts \in Nat
  BY <1>0, InHand, TypeParts, OpenedTyped DEF TypeOK, Typed
<1>2. UNCHANGED <<sent, old, crashes, opened>>
  BY DEF Provider, Compile, ResumeFails, Return, AutoSummary, Summarise, store
<1>3. crashes' \in 0 .. MaxCrashes /\ old' \in 0 .. opened'
  BY <1>1, <1>2 DEF CountsOK
<1>4. CASE Compile
  <2>1. StoreOK' /\ Queued(queue')
    BY <1>1, <1>4 DEF Compile, store, StoreOK
  <2>2. Held(job')
    BY <1>1, <1>4 DEF Compile, Over
  <2> QED
    BY <1>2, <1>3, <2>1, <2>2, Rest
<1>5. CASE ResumeFails
  <2>1. StoreOK' /\ Held(job')
    BY <1>1, <1>5 DEF ResumeFails, store, StoreOK, Over
  <2>2. Requeued \in Job /\ Typed(Requeued) /\ Requeued.runs < MaxAttempts
    <3> DEFINE n == job.runs - 1
    <3>1. n \in Nat /\ n < MaxAttempts
      BY <1>1
    <3>2. Requeued = [job EXCEPT !.phase = "queued", !.replay = TRUE, !.runs = n]
      BY DEF Requeued
    <3> HIDE DEF n
    <3>3. Requeued \in Job
      BY <1>1, <3>1, <3>2, JobOn
    <3>4. Requeued.session = job.session /\ Requeued.runs = n
      BY <1>1, <3>2 DEF Job
    <3> QED
      BY <1>1, <3>1, <3>3, <3>4 DEF Typed
  <2>3. Queued(queue')
    BY <1>1, <1>5, <2>2, AppendQueued DEF ResumeFails
  <2> QED
    BY <1>2, <1>3, <2>1, <2>3, Rest
<1>6. CASE Return
  <2>1. Held(job') /\ Queued(queue')
    BY <1>1, <1>6 DEF Return, Over
  <2>2. turns' \in [Session -> [all : Nat, users : Nat]]
    <3> DEFINE s == job.session
    <3> DEFINE T == [all |-> turns[s].all + 2, users |-> turns[s].users + 1]
    <3>1. turns' = turns \/ turns' = [turns EXCEPT ![s] = T]
      BY <1>6 DEF Return
    <3>2. turns \in [Session -> [all : Nat, users : Nat]] /\ s \in Session
      BY <1>1 DEF StoreOK
    <3>3. turns[s].all \in Nat /\ turns[s].users \in Nat
      BY <3>2
    <3>4. T \in [all : Nat, users : Nat]
      BY <3>3
    <3> HIDE DEF T, s
    <3> QED
      BY <3>1, <3>2, <3>4
  <2>3. resumable' \subseteq 1 .. opened
    BY <1>1, <1>6 DEF Return, KeepsSession, StoreOK
  <2>4. StoreOK'
    BY <1>1, <1>6, <2>2, <2>3 DEF Return, StoreOK
  <2> QED
    BY <1>2, <1>3, <2>1, <2>4, Rest
<1>7. CASE AutoSummary
  <2>1. StoreOK' /\ Held(job')
    BY <1>1, <1>7 DEF AutoSummary, store, StoreOK, Over
  <2>2. "auto" \in Kinds
    BY DEF Kinds, Summaries
  <2>3. NewJob("auto", job.session) \in Job /\ NewJob("auto", job.session).session = job.session
        /\ NewJob("auto", job.session).runs = 0
    BY <1>1, <2>2, NewJobTyped
  <2>4. Queued(Append(queue, NewJob("auto", job.session)))
    <3>1. MaxAttempts > 0
      BY MemoryAssumption
    <3>2. ASSUME NEW j \in Job, j.session <= opened, j.runs = 0
          PROVE  Queued(Append(queue, j))
      BY <1>1, <3>1, <3>2, AppendQueued DEF Typed
    <3> QED
      BY <1>1, <2>3, <3>2
  <2>5. Queued(queue')
    BY <1>1, <1>7, <2>4 DEF AutoSummary
  <2> QED
    BY <1>2, <1>3, <2>1, <2>5, Rest
<1>8. CASE Summarise
  <2>1. Held(job') /\ Queued(queue')
    BY <1>1, <1>8 DEF Summarise, Over
  <2>2. ASSUME NEW r, r = [turns |-> turns[job.session].all, users |-> turns[job.session].users,
                           kind |-> job.kind]
        PROVE  r \in [turns : Nat, users : Nat, kind : Summaries]
    <3>1. turns[job.session] \in [all : Nat, users : Nat] /\ job.kind \in Summaries
      BY <1>1, <1>8 DEF Summarise, StoreOK
    <3> QED
      BY <2>2, <3>1
  <2>3. summaries' \in [Session -> Seq([turns : Nat, users : Nat, kind : Summaries])]
    <3> DEFINE R == [turns : Nat, users : Nat, kind : Summaries]
    <3> DEFINE r == [turns |-> turns[job.session].all, users |-> turns[job.session].users,
                     kind |-> job.kind]
    <3>1. r \in R /\ summaries \in [Session -> Seq(R)]
      BY <1>1, <2>2 DEF StoreOK
    <3>2. summaries' = summaries
          \/ summaries' = [summaries EXCEPT ![job.session] = Append(summaries[job.session], r)]
      BY <1>8 DEF Summarise
    <3> HIDE DEF R, r
    <3>3. Append(summaries[job.session], r) \in Seq(R)
      BY <1>1, <3>1
    <3> QED
      BY <1>1, <3>1, <3>2, <3>3 DEF R
  <2>4. closed' \subseteq 1 .. opened /\ resumable' \subseteq 1 .. opened
    BY <1>1, <1>8 DEF Summarise, KeepsSession, StoreOK
  <2>5. StoreOK'
    BY <1>1, <1>8, <2>3, <2>4 DEF Summarise, StoreOK
  <2> QED
    BY <1>2, <1>3, <2>1, <2>5, Rest
<1> QED
  BY <1>4, <1>5, <1>6, <1>7, <1>8 DEF Provider

(* The commands, the reply and the end of their job.                       *)
LEMMA DoneTyped ==
  ASSUME TypeOK, job # NoJob, NEW b, Done(b)
  PROVE  Held(job')
<1>1. job \in Job /\ job.session <= opened /\ job.runs \in 1 .. MaxAttempts
  BY InHand
<1>2. PICK c \in Nat : job' = [job EXCEPT !.phase = "done", !.changes = c]
  <2>1. job.changes \in Nat /\ job.changes + 1 \in Nat
    BY <1>1 DEF Job
  <2> QED
    BY <2>1 DEF Done
<1> QED
  BY <1>1, <1>2 DEF Held, Typed, Job

LEMMA CommandTyped == ASSUME TypeOK, Command PROVE TypeOK'
<1>0. job # NoJob
  BY DEF Command, Correct, ForgetMemory, ForgetSession, ForgetLast, Save, NewSession, Runs, At
<1>1. /\ StoreOK /\ Queued(queue) /\ old \in 0 .. opened /\ CountsOK
      /\ job.session \in Session /\ job.session \in 1 .. opened
  BY <1>0, InHand, TypeParts
<1>2. UNCHANGED <<sent, old, crashes, opened, queue, turns, summaries, resumable>>
  BY DEF Command, Correct, ForgetMemory, ForgetSession, ForgetLast, Save, NewSession, Forgets
<1>3. \E b : Done(b)
  BY DEF Command, Correct, ForgetMemory, ForgetSession, ForgetLast, Save, NewSession, Forgets
<1>4. Held(job')
  BY <1>0, <1>3, DoneTyped
<1>5. crashes' \in 0 .. MaxCrashes /\ old' \in 0 .. opened' /\ Queued(queue')
  BY <1>1, <1>2 DEF CountsOK
<1>6. items' \in Seq(Row) /\ Len(items') <= MaxItems
  <2>1. items \in Seq(Row) /\ Len(items) <= MaxItems
    BY <1>1 DEF StoreOK
  <2>2. CASE Correct
    <3>1. CASE items' = items
      BY <2>1, <3>1
    <3>2. CASE items' # items
      <4>1. job.target \in Items /\ Len(items) < MaxItems /\ (Superseded(job.target) \/ Fresh(job.target))
        BY <2>2, <3>2 DEF Correct
      <4> QED
        BY <1>1, <4>1, ItemsTyped DEF Superseded, Fresh
    <3> QED
      BY <3>1, <3>2
  <2>3. CASE ForgetMemory \/ ForgetSession \/ ForgetLast
    <3>1. CASE items' = items
      BY <2>1, <3>1
    <3>2. CASE \E S \in SUBSET Items : Forgets(S)
      BY <2>1, <3>2, RevokedTyped DEF Forgets
    <3>3. CASE ForgetLast /\ items' # items
      <4> DEFINE S == {i \in ActiveOf(job.session) : \A k \in ActiveOf(job.session) : k <= i}
      <4>1. Forgets(S)
        BY <3>3 DEF ForgetLast
      <4>2. S \in SUBSET Items
        BY DEF ActiveOf
      <4> QED
        BY <3>2, <4>1, <4>2
    <3> QED
      BY <2>3, <3>1, <3>2, <3>3 DEF ForgetMemory, ForgetSession
  <2>4. CASE Save \/ NewSession
    BY <2>1, <2>4 DEF Save, NewSession
  <2> QED
    BY <2>2, <2>3, <2>4 DEF Command
<1>7. links' \in [Session -> Nat]
  <2>1. links \in [Session -> Nat] /\ links[job.session] \in Nat
    BY <1>1 DEF StoreOK
  <2>2. \/ links' = links
        \/ links[job.session] > 0 /\ links' = [links EXCEPT ![job.session] = @ - 1]
        \/ links' = [links EXCEPT ![job.session] = @ + 1]
    BY DEF Command, Correct, ForgetMemory, ForgetSession, ForgetLast, Save, NewSession, Forgets
  <2> QED
    BY <1>1, <2>1, <2>2
<1>8. closed' \subseteq 1 .. opened
  <2>1. closed' = closed \/ closed' = closed \cup {job.session}
    BY DEF Command, Correct, ForgetMemory, ForgetSession, ForgetLast, Save, NewSession, Forgets
  <2> QED
    BY <1>1, <2>1 DEF StoreOK
<1>9. StoreOK'
  BY <1>1, <1>2, <1>6, <1>7, <1>8 DEF StoreOK
<1> QED
  BY <1>2, <1>4, <1>5, <1>9, Rest

LEMMA OthersTyped == ASSUME TypeOK, Age \/ Reply \/ Settle PROVE TypeOK'
<1>1. StoreOK /\ Queued(queue) /\ old \in 0 .. opened /\ Held(job) /\ CountsOK /\ opened \in Nat
  BY TypeParts, OpenedTyped
<1>2. UNCHANGED <<items, links, summaries, opened, closed, resumable, queue, sent, crashes>>
  BY DEF Age, Reply, Settle, store
<1>3. old' \in 0 .. opened'
  BY <1>1, <1>2 DEF Age, Reply, Settle
<1>4. Held(job')
  <2>1. Held(NoJob)
    BY DEF Held
  <2>2. Reply => job # NoJob
    BY DEF Reply, At
  <2> QED
    BY <1>1, <2>1, <2>2, InHand DEF Age, Reply, Settle, Over
<1>5. turns' \in [Session -> [all : Nat, users : Nat]]
  <2>1. turns \in [Session -> [all : Nat, users : Nat]]
    BY <1>1 DEF StoreOK
  <2>2. CASE Reply
    BY <2>2, InHand, ToldTyped DEF Reply, At
  <2>3. CASE turns' = turns
    BY <2>1, <2>3
  <2> QED
    BY <2>2, <2>3 DEF Age, Reply, Settle, store
<1>6. StoreOK' /\ Queued(queue') /\ crashes' \in 0 .. MaxCrashes
  BY <1>1, <1>2, <1>5 DEF StoreOK, CountsOK
<1> QED
  BY <1>2, <1>3, <1>4, <1>6, Rest

LEMMA TypeStep == TypeOK /\ [Next]_vars => TypeOK'
<1> SUFFICES ASSUME TypeOK, [Next]_vars PROVE TypeOK'
  OBVIOUS
<1>1. CASE UNCHANGED vars
  BY <1>1 DEF vars, store, TypeOK, Typed
<1> QED
  BY <1>1, SendTyped, ClaimTyped, CrashTyped, ProviderTyped, CommandTyped, OthersTyped DEF Next

(* Every variable has its type; a job keeps to its attempts.               *)
THEOREM TypeCorrect == Spec => []TypeOK
  BY InitTyped, TypeStep, PTL DEF Spec

-----------------------------------------------------------------------------
(* Items.                                                                  *)

(* A row is inserted after those there are, and at most the row it corrects *)
(* changes: it is retired.                                                 *)
Corrects(i, s) ==
  /\ items[i].status = "active"
  /\ items' = Inserted([items EXCEPT ![i].status = "superseded"], s, i, items[i].chain,
                       items[i].fact)
Adds(i, s) ==
  /\ items[i].status # "active"
  /\ items' = Inserted(items, s, 0, Len(items) + 1, items[i].fact)

LEMMA ItemsStep ==
  ASSUME TypeOK, [Next]_vars
  PROVE  \/ items' = items
         \/ \E i \in Items, s \in Session : Corrects(i, s) \/ Adds(i, s)
         \/ \E S \in SUBSET Items : Revoked(S)
<1>1. CASE Correct
  <2>1. job.session \in Session
    BY <1>1, InHand DEF Correct, Runs, At
  <2>2. CASE items' # items
    BY <1>1, <2>1, <2>2 DEF Correct, Correctable, Superseded, Fresh, Corrects, Adds
  <2> QED
    BY <2>2
<1>2. CASE ForgetMemory \/ ForgetSession \/ ForgetLast
  <2> DEFINE S == {i \in ActiveOf(job.session) : \A k \in ActiveOf(job.session) : k <= i}
  <2>1. S \in SUBSET Items
    BY DEF ActiveOf
  <2>2. ForgetLast => items' = items \/ Forgets(S)
    BY DEF ForgetLast
  <2> HIDE DEF S
  <2> QED
    BY <1>2, <2>1, <2>2 DEF ForgetMemory, ForgetSession, Forgets
<1>3. CASE ~ Correct /\ ~ (ForgetMemory \/ ForgetSession \/ ForgetLast)
  BY <1>3 DEF Next, vars, store, Send, Enqueued, Age, Claim, Crash, Provider, Compile, ResumeFails, Return,
              AutoSummary, Summarise, Command, Save, NewSession, Reply, Settle
<1> QED
  BY <1>1, <1>2, <1>3

(* The same, row by row.                                                   *)
LEMMA Corrected ==
  ASSUME TypeOK, NEW i \in Items, NEW s \in Session, Corrects(i, s) \/ Adds(i, s)
  PROVE  LET n == Len(items)
         IN  /\ n \in Nat /\ Items = 1 .. n /\ Items' = 1 .. n + 1
             /\ \A k \in 1 .. n : /\ items[k] \in Row
                                 /\ items'[k] = IF Corrects(i, s) /\ k = i
                                                THEN [items[k] EXCEPT !.status = "superseded"]
                                                ELSE items[k]
             /\ items'[n + 1] =
                  [status |-> "active", session |-> s, stated |-> TRUE,
                   supersedes |-> IF Corrects(i, s) THEN i ELSE 0,
                   chain |-> IF Corrects(i, s) THEN items[i].chain ELSE n + 1,
                   fact |-> items[i].fact]
<1> DEFINE n == Len(items)
<1>1. items \in Seq(Row) /\ n \in Nat /\ Items = 1 .. n
  BY DEF TypeOK, Items
<1>2. \A k \in 1 .. n : items[k] \in Row
  BY <1>1
<1>3. [items[i] EXCEPT !.status = "superseded"] \in Row
  BY <1>1, <1>2 DEF Row
<1>4. ASSUME NEW q \in Seq(Row), Len(q) = n, NEW x
      PROVE  /\ DOMAIN Append(q, x) = 1 .. n + 1 /\ Append(q, x)[n + 1] = x
             /\ \A k \in 1 .. n : Append(q, x)[k] = q[k]
  BY <1>1, <1>4
<1>5. CASE Corrects(i, s)
  <2> DEFINE q == [items EXCEPT ![i].status = "superseded"]
  <2>1. q \in Seq(Row) /\ Len(q) = n
    BY <1>1, <1>3
  <2>2. \A k \in 1 .. n : q[k] = IF k = i THEN [items[k] EXCEPT !.status = "superseded"] ELSE items[k]
    BY <1>1
  <2>3. items' = Append(q, [status |-> "active", session |-> s, stated |-> TRUE, supersedes |-> i,
                            chain |-> items[i].chain, fact |-> items[i].fact])
    BY <1>5 DEF Corrects, Inserted
  <2> HIDE DEF q, n
  <2> QED
    BY <1>1, <1>2, <1>4, <1>5, <2>1, <2>2, <2>3 DEF Items, n
<1>6. CASE ~ Corrects(i, s)
  <2>1. items' = Append(items, [status |-> "active", session |-> s, stated |-> TRUE, supersedes |-> 0,
                                chain |-> n + 1, fact |-> items[i].fact])
    BY <1>6 DEF Adds, Inserted
  <2> HIDE DEF n
  <2> QED
    BY <1>1, <1>2, <1>4, <1>6, <2>1 DEF Items, n
<1> QED
  BY <1>5, <1>6

LEMMA RowFields ==
  ASSUME NEW r \in Row, NEW st
  PROVE  /\ r.supersedes \in Nat /\ r.chain \in Nat
         /\ [r EXCEPT !.status = st].supersedes = r.supersedes
         /\ [r EXCEPT !.status = st].chain = r.chain
         /\ [r EXCEPT !.status = st].status = st
         /\ [r EXCEPT !.status = r.status] = r
<1>1. MaxItems \in Nat
  BY MemoryAssumption
<1> QED
  BY <1>1 DEF Row, Item

LEMMA Forgotten ==
  ASSUME TypeOK, NEW S \in SUBSET Items, Revoked(S)
  PROVE  /\ Items' = Items
         /\ \A k \in Items : /\ items[k] \in Row
                             /\ \/ items'[k] = items[k]
                                \/ items'[k] = [items[k] EXCEPT !.status = "revoked"]
<1>1. items \in Seq(Row) /\ Items = 1 .. Len(items)
  BY DEF TypeOK, Items
<1>2. \A k \in Items : items[k] \in Row
  BY <1>1
<1> QED
  BY <1>2 DEF Revoked, Items

ItemsInv == CorrectionsAreSound /\ \A i \in Items : items[i].chain <= i

LEMMA InitItems == Init => ItemsInv
<1> SUFFICES ASSUME Init PROVE ItemsInv
  OBVIOUS
<1>1. Items = DOMAIN InitialItems /\ \A i \in Items :
        /\ items[i].status = "active" /\ items[i].supersedes = 0 /\ items[i].chain = i
  BY DEF Init, Items
<1>2. \A i \in Items : i \in Nat
  BY <1>1, MemoryAssumption
<1> QED
  BY <1>1, <1>2 DEF ItemsInv, CorrectionsAreSound

LEMMA CorrectedSound ==
  ASSUME TypeOK, ItemsInv, NEW i \in Items, NEW s \in Session, Corrects(i, s) \/ Adds(i, s)
  PROVE  ItemsInv'
<1> DEFINE n == Len(items)
<1>1. /\ n \in Nat /\ Items = 1 .. n /\ Items' = 1 .. n + 1
      /\ \A k \in 1 .. n : /\ items[k] \in Row
                          /\ items'[k] = IF Corrects(i, s) /\ k = i
                                         THEN [items[k] EXCEPT !.status = "superseded"]
                                         ELSE items[k]
      /\ items'[n + 1] =
           [status |-> "active", session |-> s, stated |-> TRUE,
            supersedes |-> IF Corrects(i, s) THEN i ELSE 0,
            chain |-> IF Corrects(i, s) THEN items[i].chain ELSE n + 1,
            fact |-> items[i].fact]
  BY Corrected
<1> HIDE DEF n
<1>2. ASSUME NEW k \in 1 .. n
      PROVE  /\ items'[k].supersedes = items[k].supersedes
             /\ items'[k].chain = items[k].chain
             /\ items[k].supersedes \in Nat /\ items[k].chain \in Nat
             /\ items'[k].status = IF Corrects(i, s) /\ k = i THEN "superseded"
                                   ELSE items[k].status
  <2>1. items[k] \in Row
    BY <1>1
  <2>2. CASE Corrects(i, s) /\ k = i
    <3>1. items'[k] = [items[k] EXCEPT !.status = "superseded"]
      BY <1>1, <2>2
    <3> QED
      BY <2>1, <2>2, <3>1, RowFields
  <2>3. CASE ~ (Corrects(i, s) /\ k = i)
    <3>1. items'[k] = items[k]
      BY <1>1, <2>3
    <3> QED
      BY <2>1, <2>3, <3>1, RowFields
  <2> QED
    BY <2>2, <2>3
<1>3. /\ items'[n + 1].status = "active"
      /\ items'[n + 1].supersedes = IF Corrects(i, s) THEN i ELSE 0
      /\ items'[n + 1].chain = IF Corrects(i, s) THEN items[i].chain ELSE n + 1
  BY <1>1
<1>4. Corrects(i, s) => items[i].status = "active"
  BY DEF Corrects
<1>5. /\ \A k \in 1 .. n :
           LET p == items[k].supersedes
           IN  p # 0 => /\ p < k /\ items[p].status # "active" /\ items[p].chain = items[k].chain
                        /\ \A l \in 1 .. n : items[l].supersedes = p => l = k
      /\ \A k \in 1 .. n : items[k].status = "superseded" => \E l \in 1 .. n : items[l].supersedes = k
      /\ \A k, l \in 1 .. n : items[k].status = "active" /\ items[l].status = "active"
                              /\ items[k].chain = items[l].chain => k = l
      /\ \A k \in 1 .. n : items[k].chain <= k
      /\ i \in 1 .. n
  BY <1>1 DEF ItemsInv, CorrectionsAreSound
<1>6. \A k \in 1 .. n + 1 : items'[k].chain <= k
  <2>1. items[i].chain \in Nat /\ items[i].chain <= i /\ i <= n
    BY <1>1, <1>2, <1>5
  <2>2. items'[n + 1].chain <= n + 1
    BY <1>1, <1>3, <2>1
  <2>3. \A k \in 1 .. n : items'[k].chain <= k
    BY <1>2, <1>5
  <2> QED
    BY <1>1, <2>2, <2>3
<1>7. ASSUME NEW k \in 1 .. n + 1, items'[k].supersedes # 0
      PROVE  /\ items'[k].supersedes < k
             /\ items'[items'[k].supersedes].status # "active"
             /\ items'[items'[k].supersedes].chain = items'[k].chain
             /\ \A l \in 1 .. n + 1 : items'[l].supersedes = items'[k].supersedes => l = k
  <2>1. CASE k \in 1 .. n
    <3> DEFINE p == items[k].supersedes
    <3>1. p = items'[k].supersedes /\ p # 0 /\ p < k /\ p \in 1 .. n /\ p \in Nat
      BY <1>1, <1>2, <1>5, <1>7, <2>1
    <3>2. items[p].status # "active" /\ items[p].chain = items[k].chain
      BY <1>5, <2>1, <3>1
    <3>3. Corrects(i, s) => p # i
      BY <1>4, <3>2
    <3> HIDE DEF p
    <3>4. items'[p].status # "active" /\ items'[p].chain = items'[k].chain
      BY <1>2, <2>1, <3>1, <3>2
    <3>5. ASSUME NEW l \in 1 .. n + 1, items'[l].supersedes = p PROVE l = k
      <4>1. l # n + 1
        <5>1. ASSUME l = n + 1 PROVE p = IF Corrects(i, s) THEN i ELSE 0
          BY <1>3, <3>5, <5>1
        <5> QED BY <3>1, <3>3, <5>1
      <4>2. l \in 1 .. n /\ items[l].supersedes = p
        BY <1>1, <1>2, <3>5, <4>1
      <4> QED
        BY <1>5, <2>1, <3>1, <4>2 DEF p
    <3> QED
      BY <3>1, <3>4, <3>5
  <2>2. CASE k = n + 1
    <3>1. Corrects(i, s) /\ items'[k].supersedes = i
      BY <1>3, <1>7, <2>2
    <3>2. ASSUME NEW l \in 1 .. n PROVE items'[l].supersedes # i
      BY <1>2, <1>4, <1>5, <3>1
    <3> QED
      BY <1>1, <1>2, <1>3, <1>5, <2>2, <3>1, <3>2
  <2> QED
    BY <1>1, <2>1, <2>2
<1>8. ASSUME NEW k \in 1 .. n + 1, items'[k].status = "superseded"
      PROVE  \E l \in 1 .. n + 1 : items'[l].supersedes = k
  <2>1. k \in 1 .. n
    BY <1>1, <1>3, <1>8
  <2>2. CASE Corrects(i, s) /\ k = i
    BY <1>1, <1>3, <2>2
  <2>3. CASE ~ (Corrects(i, s) /\ k = i)
    <3>1. PICK l \in 1 .. n : items[l].supersedes = k
      BY <1>2, <1>5, <1>8, <2>1, <2>3
    <3> QED
      BY <1>1, <1>2, <3>1
  <2> QED
    BY <2>2, <2>3
<1>9. ASSUME NEW k \in 1 .. n + 1, NEW l \in 1 .. n + 1,
             items'[k].status = "active", items'[l].status = "active",
             items'[k].chain = items'[l].chain
      PROVE  k = l
  <2>1. ASSUME NEW x \in 1 .. n, items'[x].status = "active" PROVE items'[x].chain # items'[n + 1].chain
    BY <1>1, <1>2, <1>3, <1>4, <1>5, <2>1
  <2>2. CASE k \in 1 .. n /\ l \in 1 .. n
    BY <1>2, <1>5, <1>9, <2>2
  <2> QED
    BY <1>1, <1>9, <2>1, <2>2
<1> QED
  BY <1>1, <1>6, <1>7, <1>8, <1>9 DEF ItemsInv, CorrectionsAreSound

LEMMA ForgottenSound ==
  ASSUME TypeOK, ItemsInv, NEW S \in SUBSET Items, Revoked(S)
  PROVE  ItemsInv'
<1>1. Items' = Items /\ \A k \in Items :
        /\ items'[k].supersedes = items[k].supersedes /\ items'[k].chain = items[k].chain
        /\ items'[k].status \in {items[k].status, "revoked"}
  BY Forgotten DEF Row
<1>2. \A k \in Items : k \in Nat /\ k > 0 /\ \A p \in Nat : p # 0 /\ p < k => p \in Items
  <2>1. Items = 1 .. Len(items) /\ Len(items) \in Nat
    BY DEF TypeOK, Items
  <2> QED
    BY <2>1
<1>3. \A k \in Items : items[k].supersedes \in Nat
  BY Forgotten, RowFields
<1>4. \A k \in Items : items[k].supersedes # 0 => items[k].supersedes \in Items
  BY <1>2, <1>3 DEF ItemsInv, CorrectionsAreSound
<1> QED
  BY <1>1, <1>2, <1>3, <1>4 DEF ItemsInv, CorrectionsAreSound

LEMMA ItemsInvStep == TypeOK /\ ItemsInv /\ [Next]_vars => ItemsInv'
<1> SUFFICES ASSUME TypeOK, ItemsInv, [Next]_vars PROVE ItemsInv'
  OBVIOUS
<1>1. CASE items' = items
  BY <1>1 DEF ItemsInv, CorrectionsAreSound, Items
<1> QED
  BY <1>1, ItemsStep, CorrectedSound, ForgottenSound

(* Along the pointers of memory_items a row has one successor at most, one  *)
(* while it counts as superseded, and one version at most is active.       *)
THEOREM CorrectionsSound == Spec => []CorrectionsAreSound
<1>1. ItemsInv => CorrectionsAreSound
  BY DEF ItemsInv
<1> QED
  BY <1>1, InitTyped, TypeStep, InitItems, ItemsInvStep, PTL DEF Spec

LEMMA StatusFalls ==
  ASSUME TypeOK, [Next]_vars, NEW i \in Items
  PROVE  /\ i \in DOMAIN items' /\ Rank[items'[i].status] <= Rank[items[i].status]
         /\ items'[i] = [items[i] EXCEPT !.status = items'[i].status]
<1>1. items[i] \in Row
  <2>1. items \in Seq(Row) /\ i \in 1 .. Len(items)
    BY DEF TypeOK, Items
  <2> QED
    BY <2>1
<1>2. Rank["active"] = 2 /\ Rank["superseded"] = 1 /\ Rank["revoked"] = 0
  BY DEF Rank
<1>3. items[i].status \in {"active", "superseded", "revoked"}
  BY <1>1 DEF Row
<1>4. \/ items'[i] = items[i]
      \/ items'[i] = [items[i] EXCEPT !.status = "revoked"]
      \/ /\ items[i].status = "active"
         /\ items'[i] = [items[i] EXCEPT !.status = "superseded"]
  <2>1. CASE items' = items
    BY <2>1 DEF Items
  <2>2. ASSUME NEW k \in Items, NEW s \in Session, Corrects(k, s) \/ Adds(k, s)
        PROVE  <1>4
    <3>1. Corrects(k, s) => items[k].status = "active"
      BY DEF Corrects
    <3>2. /\ Len(items) \in Nat /\ i \in 1 .. Len(items) /\ Items' = 1 .. Len(items) + 1
          /\ items'[i] = IF Corrects(k, s) /\ i = k
                         THEN [items[i] EXCEPT !.status = "superseded"] ELSE items[i]
      BY <2>2, Corrected
    <3> QED
      BY <3>1, <3>2 DEF Items
  <2>3. ASSUME NEW S \in SUBSET Items, Revoked(S) PROVE <1>4
    BY <2>3, Forgotten DEF Items
  <2> QED
    BY <2>1, <2>2, <2>3, ItemsStep
<1>5. ASSUME NEW st \in {"active", "superseded", "revoked"}, Rank[st] <= Rank[items[i].status],
             items'[i] = [items[i] EXCEPT !.status = st]
      PROVE  /\ Rank[items'[i].status] <= Rank[items[i].status]
             /\ items'[i] = [items[i] EXCEPT !.status = items'[i].status]
  <2>1. items'[i].status = st
    BY <1>1, <1>5, RowFields
  <2>2. Rank[items'[i].status] <= Rank[items[i].status]
    BY <1>5, <2>1
  <2>3. items'[i] = [items[i] EXCEPT !.status = items'[i].status]
    BY <1>5, <2>1
  <2> QED
    BY <2>2, <2>3
<1>6. Rank["revoked"] <= Rank[items[i].status] /\ Rank["superseded"] <= Rank["active"]
      /\ Rank[items[i].status] <= Rank[items[i].status]
  BY <1>2, <1>3
<1>7. items[i] = [items[i] EXCEPT !.status = items[i].status]
  BY <1>1, RowFields
<1>8. \E st \in {"active", "superseded", "revoked"} :
        Rank[st] <= Rank[items[i].status] /\ items'[i] = [items[i] EXCEPT !.status = st]
  <2>1. CASE items'[i] = items[i]
    BY <1>3, <1>6, <1>7, <2>1
  <2>2. CASE items'[i] = [items[i] EXCEPT !.status = "revoked"]
    BY <1>6, <2>2
  <2>3. CASE items[i].status = "active" /\ items'[i] = [items[i] EXCEPT !.status = "superseded"]
    BY <1>6, <2>3
  <2> QED
    BY <1>4, <2>1, <2>2, <2>3
<1>9. PICK st \in {"active", "superseded", "revoked"} :
        Rank[st] <= Rank[items[i].status] /\ items'[i] = [items[i] EXCEPT !.status = st]
  BY <1>8
<1>10. i \in DOMAIN items'
  <2>1. CASE items' = items
    BY <2>1 DEF Items
  <2>2. ASSUME NEW k \in Items, NEW s \in Session, Corrects(k, s) \/ Adds(k, s)
        PROVE  i \in DOMAIN items'
    <3>1. Len(items) \in Nat /\ Items = 1 .. Len(items) /\ Items' = 1 .. Len(items) + 1
      BY <2>2, Corrected
    <3>2. i \in Items'
      BY <3>1
    <3> QED
      BY <3>2 DEF Items
  <2>3. ASSUME NEW S \in SUBSET Items, Revoked(S)
        PROVE  i \in DOMAIN items'
    BY <2>3, Forgotten DEF Items
  <2> QED
    BY <2>1, <2>2, <2>3, ItemsStep
<1>11. /\ Rank[items'[i].status] <= Rank[items[i].status]
       /\ items'[i] = [items[i] EXCEPT !.status = items'[i].status]
  BY <1>5, <1>9
<1> QED
  BY <1>10, <1>11

(* What is written of an item stays, and its status only falls.            *)
THEOREM NothingReturns == Spec => NothingComesBack
<1>1. TypeOK /\ [Next]_vars =>
        [\A i \in Items :
           /\ i \in DOMAIN items' /\ Rank[items'[i].status] <= Rank[items[i].status]
           /\ items'[i] = [items[i] EXCEPT !.status = items'[i].status]]_vars
  BY StatusFalls
<1> QED
  BY <1>1, TypeCorrect, PTL DEF Spec, NothingComesBack

-----------------------------------------------------------------------------
(* Reruns.  A job that changed something and runs again has a run more than *)
(* changes; what a forgetting command or /new has done leaves it nothing to *)
(* do, for nothing else changes the items while it is in hand.             *)
Spent ==
  /\ job.kind = "forget_memory" => Revocable(Items \cap {job.target}) = {}
  /\ job.kind = "forget_session" => Revocable({i \in Items : items[i].session = job.session}) = {}
  /\ job.kind = "new" => job.session \in closed

RunsInv ==
  /\ \A k \in DOMAIN queue : queue[k].changes = 0
  /\ job # NoJob =>
       /\ job.changes <= job.runs
       /\ job.phase = "claimed" => job.changes < job.runs
       /\ job.kind \in Summaries \cup {"chat"} => job.changes = 0
       /\ job.phase = "compiled" => job.kind \in Summaries \cup {"chat"}
       /\ job.kind \in {"forget_memory", "forget_session", "new"} => job.changes <= 1
       /\ job.changes > 0 => Spent

LEMMA InitRuns == Init => RunsInv
  BY DEF Init, RunsInv

(* After a tombstone nothing is left of what it was put on.                *)
LEMMA NothingLeft ==
  ASSUME TypeOK, NEW S \in SUBSET Items, Revoked(S)
  PROVE  /\ {i \in S : items'[i].status \in {"active", "superseded"}} = {}
         /\ Items' = Items /\ \A i \in Items : items'[i].session = items[i].session
<1>1. Items' = Items /\ \A i \in Items : items'[i].session = items[i].session
  BY Forgotten DEF Row
<1>2. ASSUME NEW i \in S PROVE items'[i].status \notin {"active", "superseded"}
  <2>1. items[i] \in Row
    BY Forgotten
  <2>2. CASE i \in Revocable(S)
    <3>1. items'[i] = [items[i] EXCEPT !.status = "revoked"]
      BY <2>2 DEF Revoked
    <3> QED
      BY <2>1, <3>1 DEF Row
  <2>3. CASE i \notin Revocable(S)
    BY <2>3 DEF Revoked, Revocable
  <2> QED
    BY <2>2, <2>3
<1> QED
  BY <1>1, <1>2

LEMMA DoneChanges ==
  ASSUME job \in Job, NEW b \in BOOLEAN, Done(b)
  PROVE  \E c \in Nat : /\ job' = [job EXCEPT !.phase = "done", !.changes = c]
                        /\ c = IF b THEN job.changes + 1 ELSE job.changes
<1> DEFINE c == IF b THEN job.changes + 1 ELSE job.changes
<1>1. job.changes \in Nat
  BY DEF Job
<1>2. c \in Nat
  BY <1>1
<1>3. job' = [job EXCEPT !.phase = "done", !.changes = c]
  BY DEF Done
<1> HIDE DEF c
<1>4. c = IF b THEN job.changes + 1 ELSE job.changes
  BY DEF c
<1> QED
  BY <1>2, <1>3, <1>4

LEMMA RunsForgets ==
  ASSUME TypeOK, RunsInv, job # NoJob, job.phase = "claimed", NEW S \in SUBSET Items, Forgets(S),
         job.kind \in {"forget_memory", "forget_session", "forget_last"},
         job.kind = "forget_memory" => S = Items \cap {job.target},
         job.kind = "forget_session" => S = {i \in Items : items[i].session = job.session}
  PROVE  RunsInv'
<1>1. job \in Job /\ job.changes \in Nat /\ job.runs \in Nat
  BY InHand DEF Job
<1>2. /\ job.changes < job.runs
      /\ job.kind # "forget_last" => job.changes <= 1
      /\ job.changes > 0 => Spent
  BY DEF RunsInv
<1>3. /\ queue' = queue /\ closed' = closed /\ Done(Revocable(S) # {}) /\ Revoked(S)
  BY DEF Forgets
<1>4. PICK c \in Nat : /\ job' = [job EXCEPT !.phase = "done", !.changes = c]
                       /\ c = IF Revocable(S) # {} THEN job.changes + 1 ELSE job.changes
  BY <1>1, <1>3, DoneChanges
<1>5. /\ job'.changes = c /\ job'.phase = "done" /\ job'.kind = job.kind /\ job'.runs = job.runs
      /\ job'.target = job.target /\ job'.session = job.session
  BY <1>1, <1>4 DEF Job
<1>6. c <= job.runs
  BY <1>1, <1>2, <1>4
<1>7. job.kind # "forget_last" => c <= 1
  BY <1>1, <1>2, <1>4 DEF Spent
<1>8. Spent'
  <2>1. /\ {i \in S : items'[i].status \in {"active", "superseded"}} = {}
        /\ Items' = Items /\ \A i \in Items : items'[i].session = items[i].session
    BY <1>3, NothingLeft
  <2>2. CASE job.kind = "forget_memory"
    BY <1>5, <2>1, <2>2 DEF Spent, Revocable
  <2>3. CASE job.kind = "forget_session"
    BY <1>5, <2>1, <2>3 DEF Spent, Revocable
  <2>4. CASE job.kind = "forget_last"
    BY <1>5, <2>4 DEF Spent
  <2> QED
    BY <2>2, <2>3, <2>4
<1>9. job.kind \notin Summaries \cup {"chat"} /\ job.kind # "new"
  BY DEF Summaries
<1>10. \A k \in DOMAIN queue' : queue'[k].changes = 0
  BY <1>3 DEF RunsInv
<1> QED
  BY <1>5, <1>6, <1>7, <1>8, <1>9, <1>10 DEF RunsInv

LEMMA RunsStep == TypeOK /\ RunsInv /\ [Next]_vars => RunsInv'
<1> SUFFICES ASSUME TypeOK, RunsInv, [Next]_vars PROVE RunsInv'
  OBVIOUS
<1>0. /\ \A k \in DOMAIN queue : queue[k].changes = 0
      /\ queue \in Seq(Job) /\ Len(queue) \in Nat /\ DOMAIN queue = 1 .. Len(queue)
      /\ Queued(queue)
  <2>1. \A k \in DOMAIN queue : queue[k].changes = 0
    BY DEF RunsInv
  <2>2. Queued(queue)
    BY TypeParts
  <2>3. queue \in Seq(Job)
    BY <2>2 DEF Queued
  <2> QED
    BY <2>1, <2>2, <2>3
<1>a. ASSUME job # NoJob
      PROVE  /\ job \in Job /\ job.changes \in Nat /\ job.runs \in Nat
             /\ job.changes <= job.runs
             /\ job.phase = "claimed" => job.changes < job.runs
             /\ job.kind \in Summaries \cup {"chat"} => job.changes = 0
             /\ job.phase = "compiled" => job.kind \in Summaries \cup {"chat"}
             /\ job.kind \in {"forget_memory", "forget_session", "new"} => job.changes <= 1
             /\ job.changes > 0 => Spent
  BY <1>a, InHand DEF Job, RunsInv
<1>b. ASSUME items' = items, closed' = closed, job # NoJob, job' # NoJob, NEW p,
             job' = [job EXCEPT !.phase = p], p # "claimed", queue' = queue,
             p = "compiled" => job.kind \in Summaries \cup {"chat"}
      PROVE  RunsInv'
  <2>1. /\ job'.changes = job.changes /\ job'.runs = job.runs /\ job'.kind = job.kind
        /\ job'.target = job.target /\ job'.session = job.session /\ job'.phase # "claimed" /\ job'.phase = p
    BY <1>a, <1>b DEF Job
  <2>2. Spent => Spent'
    BY <1>b, <2>1 DEF Spent, Revocable, Items
  <2> QED
    BY <1>0, <1>a, <1>b, <2>1, <2>2 DEF RunsInv
<1>1. CASE UNCHANGED vars
  BY <1>1 DEF vars, store, RunsInv, Spent, Revocable, Items
<1>2. CASE Send
  <2>1. PICK j \in Job : Enqueued(j) /\ j.changes = 0
    BY <1>2, Sent
  <2>2. queue' = Append(queue, j) /\ UNCHANGED <<items, closed, job>>
    BY <2>1 DEF Enqueued
  <2>3. \A k \in DOMAIN queue' : queue'[k].changes = 0
    BY <1>0, <2>1, <2>2
  <2>4. Spent' <=> Spent
    BY <2>2 DEF Spent, Revocable, Items
  <2> QED
    BY <1>a, <2>2, <2>3, <2>4 DEF RunsInv
<1>3. CASE Age
  BY <1>3 DEF Age, store, RunsInv, Spent, Revocable, Items
<1>4. CASE Claim
  <2>1. /\ queue # << >> /\ queue' = Tail(queue) /\ Head(queue) = queue[1] /\ 1 \in DOMAIN queue
        /\ job' = [queue[1] EXCEPT !.phase = "claimed", !.runs = @ + 1]
    BY <1>0, <1>4, TailQueued DEF Claim
  <2>2. queue[1] \in Job /\ queue[1].runs \in Nat /\ queue[1].changes = 0
    <3>1. queue[1] \in Job /\ queue[1].changes = 0
      BY <1>0, <2>1
    <3> QED
      BY <3>1 DEF Job
  <2>3. job'.changes = 0 /\ job'.runs > 0 /\ job'.phase = "claimed"
    <3> DEFINE n == queue[1].runs + 1
    <3>1. n > 0 /\ job' = [queue[1] EXCEPT !.phase = "claimed", !.runs = n]
      BY <2>1, <2>2
    <3> HIDE DEF n
    <3> QED
      BY <2>2, <3>1 DEF Job
  <2>4. \A k \in DOMAIN queue' : queue'[k].changes = 0
    BY <1>0, <2>1
  <2>5. 0 <= job'.runs
    <3>1. queue[1].runs + 1 \in Nat
      BY <2>2
    <3>2. job'.runs = queue[1].runs + 1
      BY <2>1, <2>2 DEF Job
    <3> QED
      BY <3>1, <3>2
  <2> QED
    BY <2>3, <2>4, <2>5 DEF RunsInv
<1>5. CASE Crash
  <2>1. job # NoJob /\ UNCHANGED <<items, closed, queue>>
    BY <1>5 DEF Crash, store
  <2>2. CASE job' = NoJob
    BY <1>0, <2>1, <2>2 DEF RunsInv
  <2>3. CASE job' = [job EXCEPT !.phase = "claimed", !.runs = @ + 1, !.warned = TRUE]
    <3> DEFINE n == job.runs + 1
    <3>1. n \in Nat /\ job.changes < n /\ job.changes <= n
      BY <1>a, <2>1
    <3>2. job' = [job EXCEPT !.phase = "claimed", !.runs = n, !.warned = TRUE]
      BY <2>3
    <3> HIDE DEF n
    <3>3. /\ job'.changes = job.changes /\ job'.runs = n /\ job'.kind = job.kind /\ job'.phase = "claimed"
          /\ job'.target = job.target /\ job'.session = job.session
      BY <1>a, <2>1, <3>2 DEF Job
    <3>4. Spent => Spent'
      BY <2>1, <3>3 DEF Spent, Revocable, Items
    <3> QED
      BY <1>0, <1>a, <2>1, <3>1, <3>3, <3>4 DEF RunsInv
  <2> QED
    BY <1>5, <2>2, <2>3 DEF Crash
<1>6. CASE Provider
  <2>1. CASE job' = NoJob /\ (queue' = queue \/ queue' = Append(queue, NewJob("auto", job.session))
                                              \/ (ResumeFails /\ queue' = <<Requeued>> \o queue))
    <3>1. NewJob("auto", job.session).changes = 0
      BY DEF NewJob
    <3>2. ASSUME NEW j, j.changes = 0, queue' = Append(queue, j) \/ queue' = <<j>> \o queue
          PROVE  \A k \in DOMAIN queue' : queue'[k].changes = 0
      <4>1. CASE queue' = Append(queue, j)
        BY <1>0, <3>2, <4>1
      <4>2. CASE queue' = <<j>> \o queue
        <5>1. /\ DOMAIN queue' = 1 .. Len(queue) + 1
              /\ \A k \in 1 .. Len(queue) + 1 :
                   queue'[k] = IF k = 1 THEN j ELSE queue[k - 1]
          BY <1>0, <4>2
        <5>2. \A k \in 1 .. Len(queue) + 1 : k # 1 => k - 1 \in DOMAIN queue
          BY <1>0
        <5> QED
          BY <1>0, <3>2, <5>1, <5>2
      <4> QED
        BY <3>2, <4>1, <4>2
    <3>3. ResumeFails => Requeued.changes = 0
      <4>1. ResumeFails => job # NoJob
        BY DEF ResumeFails, At
      <4>2. ResumeFails => job.changes = 0
        <5>1. ResumeFails => job.phase = "compiled"
          BY DEF ResumeFails, At
        <5> QED
          BY <5>1, <4>1, <1>a
      <4> QED
        BY <1>a, <4>1, <4>2 DEF Requeued, Job
    <3>4. \A k \in DOMAIN queue' : queue'[k].changes = 0
      BY <1>0, <2>1, <3>1, <3>2, <3>3
    <3> QED
      BY <2>1, <3>4 DEF RunsInv
  <2>2. CASE Compile \/ Return
    <3>1. /\ job # NoJob /\ items' = items /\ closed' = closed /\ queue' = queue
          /\ \/ job' = NoJob
             \/ /\ job' = [job EXCEPT !.phase = "compiled"]
                /\ job.kind \in Summaries \cup {"chat"}
             \/ job' = [job EXCEPT !.phase = "ended"]
      BY <2>2 DEF Compile, Return, store, At, Over
    <3>2. CASE job' = NoJob
      BY <2>1, <3>1, <3>2
    <3> QED
      BY <1>b, <3>1, <3>2
  <2>3. CASE ResumeFails \/ AutoSummary \/ Summarise
    BY <2>1, <2>3 DEF ResumeFails, AutoSummary, Summarise, Over
  <2> QED
    BY <1>6, <2>2, <2>3 DEF Provider
<1>7. CASE ForgetMemory \/ ForgetSession \/ (ForgetLast /\ ~ (links[job.session] > 0))
  <2>0. job # NoJob /\ job.phase = "claimed"
    BY <1>7 DEF ForgetMemory, ForgetSession, ForgetLast, Runs, At
  <2>1. {i \in ActiveOf(job.session) : \A k \in ActiveOf(job.session) : k <= i} \in SUBSET Items
    BY DEF ActiveOf
  <2>2. CASE ForgetMemory
    BY <2>0, <2>2, RunsForgets DEF ForgetMemory, Runs
  <2>3. CASE ForgetSession
    BY <2>0, <2>3, RunsForgets DEF ForgetSession, Runs
  <2>4. CASE ForgetLast /\ ~ (links[job.session] > 0)
    BY <2>0, <2>1, <2>4, RunsForgets DEF ForgetLast, Runs
  <2> QED
    BY <1>7, <2>2, <2>3, <2>4
<1>8. CASE Correct \/ Save \/ NewSession \/ (ForgetLast /\ links[job.session] > 0)
  <2>0. /\ job # NoJob /\ job.phase = "claimed" /\ queue' = queue
        /\ \E b \in BOOLEAN : Done(b)
        /\ job.kind \in {"correct", "save", "new", "forget_last"}
        /\ job.kind = "new" => /\ closed' = closed \cup {job.session}
                              /\ Done(job.session \notin closed)
    BY <1>8 DEF Correct, Save, NewSession, ForgetLast, Runs, At
  <2>1. PICK c \in Nat : job' = [job EXCEPT !.phase = "done", !.changes = c] /\ c <= job.changes + 1
    <3>1. PICK b \in BOOLEAN : Done(b)
      BY <2>0
    <3>2. PICK c \in Nat : /\ job' = [job EXCEPT !.phase = "done", !.changes = c]
                           /\ c = IF b THEN job.changes + 1 ELSE job.changes
      BY <1>a, <2>0, <3>1, DoneChanges
    <3>3. c <= job.changes + 1
      BY <1>a, <2>0, <3>2
    <3> QED
      BY <3>2, <3>3
  <2>2. /\ job'.changes = c /\ job'.phase = "done" /\ job'.kind = job.kind /\ job'.runs = job.runs
        /\ job'.session = job.session
    BY <1>a, <2>0, <2>1 DEF Job
  <2>3. c <= job.runs
    BY <1>a, <2>0, <2>1
  <2>4. job.kind = "new" => c <= 1 /\ job.session \in closed'
    <3>1. job.kind = "new" /\ job.changes > 0 => job' = [job EXCEPT !.phase = "done"]
      BY <1>a, <2>0 DEF Done, Spent
    <3>2. job.kind = "new" /\ job.changes > 0 => job'.changes = job.changes
      BY <1>a, <2>0, <3>1 DEF Job
    <3> QED
      BY <1>a, <2>0, <2>1, <2>2, <3>2
  <2>5. Spent'
    BY <2>0, <2>2, <2>4 DEF Spent
  <2>6. job.kind \notin Summaries \cup {"chat"}
    BY <2>0 DEF Summaries
  <2> QED
    BY <1>0, <2>0, <2>2, <2>3, <2>4, <2>5, <2>6 DEF RunsInv
<1>9. CASE Reply \/ Settle
  <2>1. CASE Reply
    <3>1. /\ job # NoJob /\ items' = items /\ closed' = closed /\ queue' = queue
          /\ job' = [job EXCEPT !.phase = "told"]
      BY <2>1 DEF Reply, At
    <3>2. CASE job' # NoJob
      BY <1>b, <3>1, <3>2
    <3>3. CASE job' = NoJob
      BY <1>0, <3>1, <3>3 DEF RunsInv
    <3> QED
      BY <3>2, <3>3
  <2>2. CASE Settle
    BY <1>0, <2>2 DEF Settle, Over, store, RunsInv
  <2> QED
    BY <1>9, <2>1, <2>2
<1> QED
  BY <1>1, <1>2, <1>3, <1>4, <1>5, <1>6, <1>7, <1>8, <1>9 DEF Next, Command

(* A command changes something at most once per run, and forgetting by name *)
(* and /new once in all.                                                   *)
THEOREM RerunsBounded == Spec => []RerunsAreBounded
<1>1. RunsInv => RerunsAreBounded
  BY DEF RunsInv, RerunsAreBounded
<1> QED
  BY <1>1, InitTyped, TypeStep, InitRuns, RunsStep, PTL DEF Spec

-----------------------------------------------------------------------------
(* The throttle.  An automatic summary that is queued or in hand is due     *)
(* now, not only when it was decided: no other summary of its session is    *)
(* ahead of it, so none is written before it, and users only send more.    *)
Due(s) == turns[s].users - LastSummary(s).users >= UserThrottle
Summarises(j, s) == j.kind \in Summaries /\ j.session = s

ThrottleInv ==
  /\ SummariesThrottled
  /\ \A k \in DOMAIN queue : queue[k].kind = "auto" =>
       /\ Due(queue[k].session)
       /\ \A l \in DOMAIN queue : l < k => ~ Summarises(queue[l], queue[k].session)
       /\ job # NoJob => ~ Summarises(job, queue[k].session)
  /\ job # NoJob => (job.kind = "auto" => Due(job.session))

LEMMA InitThrottled == Init => ThrottleInv
<1> SUFFICES ASSUME Init PROVE ThrottleInv
  OBVIOUS
<1>1. queue = << >> /\ job = NoJob /\ \A s \in Session : summaries[s] = << >>
  BY DEF Init
<1>2. SummariesThrottled
  BY <1>1 DEF SummariesThrottled
<1> QED
  BY <1>1, <1>2 DEF ThrottleInv

LEMMA LastTyped ==
  ASSUME TypeOK, NEW s \in Session
  PROVE  LastSummary(s).users \in Nat /\ turns[s].users \in Nat /\ UserThrottle \in Nat
<1> DEFINE R == [turns : Nat, users : Nat, kind : Summaries]
<1>1. summaries[s] \in Seq(R) /\ turns[s] \in [all : Nat, users : Nat] /\ UserThrottle \in Nat
  BY MemoryAssumption DEF TypeOK
<1>2. CASE summaries[s] = << >>
  BY <1>1, <1>2 DEF LastSummary
<1>3. CASE summaries[s] # << >>
  <2> HIDE DEF R
  <2>1. summaries[s][Len(summaries[s])] \in R
    BY <1>1, <1>3
  <2> QED
    BY <1>1, <1>3, <2>1 DEF LastSummary, R
<1> QED
  BY <1>2, <1>3

(* Steps that write no summary keep what is due due.                       *)
LEMMA StaysDue ==
  ASSUME TypeOK, [Next]_vars, ~ Summarise, NEW s \in Session, Due(s)
  PROVE  Due(s)'
<1>1. summaries' = summaries
  BY DEF Next, vars, store, Send, Enqueued, Age, Claim, Crash, Provider, Compile, ResumeFails, Return,
         AutoSummary, Command, Correct, ForgetMemory, ForgetSession, ForgetLast, Forgets, Save,
         NewSession, Reply, Settle
<1>2. turns'[s].users >= turns[s].users
  <2>1. turns \in [Session -> [all : Nat, users : Nat]]
    BY DEF TypeOK
  <2>2. turns[s] \in [all : Nat, users : Nat] /\ turns[s].users \in Nat
    BY <2>1
  <2>3. CASE Return
    <3>1. CASE turns' = turns
      BY <2>2, <3>1
    <3>2. CASE turns' # turns
      <4>1. turns' = [turns EXCEPT ![job.session] = [all |-> turns[job.session].all + 2,
                                                     users |-> turns[job.session].users + 1]]
        BY <2>3, <3>2 DEF Return
      <4>2. turns'[s].users = IF s = job.session THEN turns[s].users + 1 ELSE turns[s].users
        BY <2>1, <4>1
      <4> QED
        BY <2>2, <4>2
    <3> QED
      BY <3>1, <3>2
  <2>4. CASE job # NoJob /\ turns' = Told(job.session)
    BY <2>2, <2>4, InHand, ToldTyped
  <2>5. CASE turns' = turns
    BY <2>2, <2>5
  <2>6. Crash \/ Reply => job # NoJob /\ (turns' = turns \/ turns' = Told(job.session))
    BY DEF Crash, Reply, At
  <2> QED
    BY <2>3, <2>4, <2>5, <2>6
       DEF Next, vars, store, Send, Enqueued, Age, Claim, Provider, Compile, ResumeFails,
           AutoSummary, Command, Correct, ForgetMemory, ForgetSession, ForgetLast, Forgets, Save,
           NewSession, Settle
<1>3. /\ LastSummary(s)' = LastSummary(s)
      /\ LastSummary(s).users \in Nat /\ turns[s].users \in Nat /\ UserThrottle \in Nat
  BY <1>1, LastTyped DEF LastSummary
<1>4. turns'[s].users \in Nat
  BY TypeStep DEF TypeOK
<1> QED
  BY <1>2, <1>3, <1>4 DEF Due

(* The row a summary writes keeps the distance if it is automatic.         *)
LEMMA WrittenInTime ==
  ASSUME TypeOK, ThrottleInv, Summarise
  PROVE  SummariesThrottled'
<1> DEFINE R == [turns : Nat, users : Nat, kind : Summaries]
<1> DEFINE s == job.session
<1> DEFINE r == [turns |-> turns[s].all, users |-> turns[s].users, kind |-> job.kind]
<1>1. /\ job # NoJob /\ s \in Session
      /\ summaries \in [Session -> Seq(R)] /\ UserThrottle \in Nat
      /\ job.kind = "auto" => Due(s)
  BY InHand, MemoryAssumption DEF Summarise, At, ThrottleInv, TypeOK
<1>2. \/ summaries' = summaries
      \/ summaries' = [summaries EXCEPT ![s] = Append(summaries[s], r)]
  BY DEF Summarise
<1>3. r.kind = "auto" => r.users - LastSummary(s).users >= UserThrottle
  BY <1>1 DEF Due
<1>4. ASSUME NEW t \in Session, NEW k \in DOMAIN summaries[t], summaries[t][k].kind = "auto"
      PROVE  summaries[t][k].users - (IF k = 1 THEN 0 ELSE summaries[t][k - 1].users) >= UserThrottle
  BY <1>4 DEF ThrottleInv, SummariesThrottled
<1>5. CASE summaries' = summaries
  BY <1>4, <1>5 DEF SummariesThrottled
<1>6. CASE summaries' = [summaries EXCEPT ![s] = Append(summaries[s], r)]
  <2> SUFFICES ASSUME NEW t \in Session, NEW k \in DOMAIN summaries'[t],
                      summaries'[t][k].kind = "auto"
               PROVE  summaries'[t][k].users - (IF k = 1 THEN 0 ELSE summaries'[t][k - 1].users)
                        >= UserThrottle
    BY DEF SummariesThrottled
  <2> HIDE DEF r, s, R
  <2>1. CASE t # s
    <3>1. summaries'[t] = summaries[t]
      BY <1>1, <1>6, <2>1
    <3> QED
      BY <1>4, <3>1
  <2>2. CASE t = s
    <3> DEFINE q == summaries[s]
    <3> DEFINE n == Len(q)
    <3>1. q \in Seq(R) /\ n \in Nat
      BY <1>1
    <3>2. summaries'[t] = Append(q, r)
      BY <1>1, <1>6, <2>2
    <3>3. /\ DOMAIN summaries'[t] = 1 .. n + 1 /\ summaries'[t][n + 1] = r
          /\ DOMAIN q = 1 .. n
          /\ \A l \in 1 .. n : summaries'[t][l] = q[l]
      BY <3>1, <3>2
    <3>4. CASE k \in 1 .. n
      <4>1. k # 1 => k - 1 \in 1 .. n
        BY <3>1, <3>4
      <4> QED
        BY <1>4, <2>2, <3>3, <3>4, <4>1
    <3>5. CASE k = n + 1
      <4>1. n = 0 <=> q = << >>
        BY <3>1
      <4>2. LastSummary(s).users = IF k = 1 THEN 0 ELSE summaries'[t][k - 1].users
        <5>1. CASE n = 0
          BY <3>5, <4>1, <5>1 DEF LastSummary
        <5>2. CASE n # 0
          <6>1. n \in 1 .. n /\ k # 1 /\ k - 1 = n
            BY <3>1, <3>5, <5>2
          <6>2. LastSummary(s) = q[n]
            BY <4>1, <5>2 DEF LastSummary
          <6> QED
            BY <3>3, <6>1, <6>2
        <5> QED
          BY <5>1, <5>2
      <4>3. summaries'[t][k] = r
        BY <3>3, <3>5
      <4>4. r.users - LastSummary(s).users >= UserThrottle
        BY <1>3, <4>3
      <4> QED
        BY <4>2, <4>3, <4>4
    <3> QED
      BY <3>1, <3>3, <3>4, <3>5
  <2> QED
    BY <2>1, <2>2
<1> QED
  BY <1>2, <1>5, <1>6

(* A job that is queued names a session.                                   *)
LEMMA QueuedSessions ==
  ASSUME TypeOK
  PROVE  /\ queue \in Seq(Job) /\ Len(queue) \in Nat /\ DOMAIN queue = 1 .. Len(queue)
         /\ \A k \in DOMAIN queue : queue[k] \in Job /\ queue[k].session \in Session
<1>1. queue \in Seq(Job)
  BY DEF TypeOK
<1>2. \A k \in DOMAIN queue : queue[k] \in Job /\ queue[k].session <= opened
  BY TypeParts DEF Queued, Typed
<1>3. \A k \in DOMAIN queue : queue[k].session \in Session
  BY <1>2, OpenedTyped DEF Job, Session
<1> QED
  BY <1>1, <1>2, <1>3

LEMMA DueElsewhere ==
  ASSUME TypeOK, Summarise, NEW s \in Session, s # job.session, Due(s)
  PROVE  Due(s)'
<1>1. turns' = turns
  BY DEF Summarise
<1>2. summaries \in [Session -> Seq([turns : Nat, users : Nat, kind : Summaries])]
  BY DEF TypeOK
<1>3. summaries'[s] = summaries[s]
  BY <1>2 DEF Summarise
<1> QED
  BY <1>1, <1>3 DEF Due, LastSummary

LEMMA StillThrottled ==
  ASSUME TypeOK, ThrottleInv, [Next]_vars
  PROVE  SummariesThrottled'
<1>1. CASE Summarise
  BY <1>1, WrittenInTime
<1>2. CASE ~ Summarise
  <2>1. summaries' = summaries
    BY <1>2 DEF Next, vars, store, Send, Enqueued, Age, Claim, Crash, Provider, Compile, ResumeFails, Return,
           AutoSummary, Command, Correct, ForgetMemory, ForgetSession, ForgetLast, Forgets, Save,
           NewSession, Reply, Settle
  <2> QED
    BY <2>1 DEF ThrottleInv, SummariesThrottled
<1> QED
  BY <1>1, <1>2

(* What has to be shown of a queue and a hand after a step.                *)
LEMMA Apart ==
  ASSUME SummariesThrottled',
         \A k \in DOMAIN queue' : queue'[k].kind = "auto" =>
           /\ queue'[k].session \in {s \in Session : Due(s)'}
           /\ \A l \in DOMAIN queue' : l < k => ~ Summarises(queue'[l], queue'[k].session)
           /\ job' # NoJob => ~ Summarises(job', queue'[k].session),
         job' # NoJob => (job'.kind = "auto" => job'.session \in {s \in Session : Due(s)'})
  PROVE  ThrottleInv'
  BY DEF ThrottleInv, Summarises, Due, LastSummary

LEMMA Longer == \A n \in Nat : n + 1 # n
  OBVIOUS

LEMMA ThrottledStep == TypeOK /\ ThrottleInv /\ [Next]_vars => ThrottleInv'
<1> SUFFICES ASSUME TypeOK, ThrottleInv, [Next]_vars PROVE ThrottleInv'
  OBVIOUS
<1> DEFINE N == {s \in Session : Due(s)'}
<1>1. /\ queue \in Seq(Job) /\ Len(queue) \in Nat /\ DOMAIN queue = 1 .. Len(queue)
      /\ \A k \in DOMAIN queue : queue[k] \in Job /\ queue[k].session \in Session
  BY QueuedSessions
<1>2. SummariesThrottled'
  BY StillThrottled
<1>3. ASSUME NEW k \in DOMAIN queue, queue[k].kind = "auto"
      PROVE  /\ queue[k].session \in N
             /\ \A l \in DOMAIN queue : l < k => ~ Summarises(queue[l], queue[k].session)
             /\ job # NoJob => ~ Summarises(job, queue[k].session)
  <2>1. /\ Due(queue[k].session) /\ queue[k].session \in Session
        /\ \A l \in DOMAIN queue : l < k => ~ Summarises(queue[l], queue[k].session)
        /\ job # NoJob => ~ Summarises(job, queue[k].session)
    BY <1>1, <1>3 DEF ThrottleInv
  <2>2. Summarise => job # NoJob /\ Summarises(job, job.session)
    BY DEF Summarise, At, Summarises
  <2>3. Summarise => queue[k].session # job.session
    BY <2>1, <2>2
  <2>4. \A s \in Session : Due(s) /\ (Summarise => s # job.session) => s \in N
    BY DueElsewhere, StaysDue
  <2> QED
    BY <2>1, <2>3, <2>4
<1>4. ASSUME job # NoJob, ~ Summarise, job.kind = "auto" PROVE job.session \in N
  <2>1. job.session \in Session /\ Due(job.session)
    BY <1>4, InHand DEF ThrottleInv
  <2>2. \A s \in Session : Due(s) => s \in N
    BY <1>4, StaysDue
  <2> QED
    BY <2>1, <2>2
<1> HIDE DEF N
<1>5. ASSUME /\ \A k \in DOMAIN queue' : queue'[k].kind = "auto" =>
                 /\ queue'[k].session \in N
                 /\ \A l \in DOMAIN queue' : l < k => ~ Summarises(queue'[l], queue'[k].session)
                 /\ job' # NoJob => ~ Summarises(job', queue'[k].session),
             job' # NoJob => (job'.kind = "auto" => job'.session \in N)
      PROVE  ThrottleInv'
  BY <1>2, <1>5, Apart DEF N
<1>6. CASE Send
  <2>1. PICK j \in Job : Enqueued(j) /\ j.kind # "auto"
    BY <1>6, Sent
  <2>2. queue' = Append(queue, j) /\ job' = job
    BY <2>1 DEF Enqueued
  <2>3. /\ DOMAIN queue' = 1 .. Len(queue) + 1 /\ queue'[Len(queue) + 1] = j
        /\ \A k \in DOMAIN queue : queue'[k] = queue[k]
    BY <1>1, <2>2
  <2>4. ASSUME NEW k \in DOMAIN queue', queue'[k].kind = "auto"
        PROVE  /\ queue'[k].session \in N
               /\ \A l \in DOMAIN queue' : l < k => ~ Summarises(queue'[l], queue'[k].session)
               /\ job' # NoJob => ~ Summarises(job', queue'[k].session)
    <3>1. k \in DOMAIN queue /\ queue'[k] = queue[k]
      BY <1>1, <2>1, <2>3, <2>4
    <3>2. \A l \in DOMAIN queue' : l < k => l \in DOMAIN queue /\ queue'[l] = queue[l]
      BY <1>1, <2>3, <3>1
    <3> QED
      BY <1>3, <2>2, <2>4, <3>1, <3>2
  <2>5. ~ Summarise
    <3>1. Len(queue') = Len(queue) + 1
      BY <1>1, <2>1, <2>2
    <3>2. Len(queue') # Len(queue)
      BY <1>1, <3>1, Longer, Zenon
    <3> QED
      BY <3>2 DEF Summarise
  <2> QED
    BY <1>4, <1>5, <2>2, <2>4, <2>5
<1>7. CASE Claim
  <2>1. /\ queue # << >> /\ queue' = Tail(queue) /\ Head(queue) = queue[1] /\ job = NoJob
        /\ 1 \in DOMAIN queue
        /\ job' = [queue[1] EXCEPT !.phase = "claimed", !.runs = @ + 1]
    BY <1>7, TailQueued, TypeParts DEF Claim
  <2>2. /\ DOMAIN queue' = 1 .. Len(queue) - 1
        /\ \A k \in DOMAIN queue' : k + 1 \in DOMAIN queue /\ queue'[k] = queue[k + 1]
    BY <1>1, <2>1
  <2>3. job'.kind = queue[1].kind /\ job'.session = queue[1].session
    BY <1>1, <2>1 DEF Job
  <2>4. ASSUME NEW k \in DOMAIN queue', queue'[k].kind = "auto"
        PROVE  /\ queue'[k].session \in N
               /\ \A l \in DOMAIN queue' : l < k => ~ Summarises(queue'[l], queue'[k].session)
               /\ job' # NoJob => ~ Summarises(job', queue'[k].session)
    <3>1. /\ k + 1 \in DOMAIN queue /\ queue'[k] = queue[k + 1] /\ 1 < k + 1 /\ k \in Nat
      BY <1>1, <2>2
    <3>2. \A l \in DOMAIN queue' : l < k => /\ l + 1 \in DOMAIN queue /\ l + 1 < k + 1
                                           /\ queue'[l] = queue[l + 1]
      BY <1>1, <2>2, <3>1
    <3>3. /\ queue[k + 1].session \in N
          /\ \A l \in DOMAIN queue : l < k + 1 => ~ Summarises(queue[l], queue[k + 1].session)
      BY <1>3, <2>4, <3>1
    <3> QED
      BY <2>1, <2>3, <3>1, <3>2, <3>3 DEF Summarises
  <2>5. job'.kind = "auto" => job'.session \in N
    BY <1>3, <2>1, <2>3
  <2> QED
    BY <1>5, <2>4, <2>5
<1>8. CASE ResumeFails
  <2>1. queue' = <<Requeued>> \o queue /\ job' = NoJob /\ job # NoJob /\ job \in Job
    BY <1>8, InHand DEF ResumeFails, Over, At
  <2>2. /\ DOMAIN queue' = 1 .. Len(queue) + 1 /\ queue'[1] = Requeued
        /\ \A k \in DOMAIN queue' : k # 1 => k - 1 \in DOMAIN queue /\ queue'[k] = queue[k - 1]
    BY <1>1, <2>1
  <2>3. Requeued.kind = job.kind /\ Requeued.session = job.session
    BY <2>1 DEF Requeued, Job
  <2>4. ~ Summarise
    <3>1. job.phase = "compiled" /\ queue' # queue
      <4>1. (<<Requeued>> \o queue) # queue
        <5>1. Len(<<Requeued>> \o queue) = Len(queue) + 1
          BY <1>1
        <5>2. Len(queue) + 1 # Len(queue)
          BY <1>1, Longer, Zenon
        <5> QED
          BY <5>1, <5>2
      <4> QED
        BY <1>8, <2>1, <4>1 DEF ResumeFails, At
    <3> QED
      BY <3>1 DEF Summarise
  <2>5. ASSUME NEW k \in DOMAIN queue', queue'[k].kind = "auto"
        PROVE  /\ queue'[k].session \in N
               /\ \A l \in DOMAIN queue' : l < k => ~ Summarises(queue'[l], queue'[k].session)
    <3>1. CASE k = 1
      <4>1. queue'[k].session \in N
        BY <1>4, <2>1, <2>2, <2>3, <2>4, <2>5, <3>1
      <4>2. \A l \in DOMAIN queue' : ~ (l < k)
        BY <1>1, <2>2, <3>1
      <4> QED
        BY <4>1, <4>2
    <3>2. CASE k # 1
      <4>1. k - 1 \in DOMAIN queue /\ queue'[k] = queue[k - 1]
        BY <2>2, <3>2
      <4>2. /\ queue[k - 1].session \in N
            /\ \A l \in DOMAIN queue : l < k - 1 => ~ Summarises(queue[l], queue[k - 1].session)
            /\ ~ Summarises(job, queue[k - 1].session)
        BY <1>3, <2>1, <2>5, <4>1
      <4>3. ~ Summarises(Requeued, queue[k - 1].session)
        BY <2>3, <4>2 DEF Summarises
      <4>4. ASSUME NEW l \in DOMAIN queue', l < k PROVE ~ Summarises(queue'[l], queue'[k].session)
        <5>1. CASE l = 1
          BY <2>2, <4>1, <4>3, <5>1
        <5>2. CASE l # 1
          <6>1. l - 1 \in DOMAIN queue /\ l - 1 < k - 1 /\ queue'[l] = queue[l - 1]
            BY <1>1, <2>2, <4>4, <5>2
          <6> QED
            BY <4>1, <4>2, <6>1
        <5> QED
          BY <5>1, <5>2
      <4> QED
        BY <4>1, <4>2, <4>4
    <3> QED
      BY <3>1, <3>2
  <2> QED
    BY <1>5, <2>1, <2>5
<1>9. CASE AutoSummary
  <2> DEFINE s == job.session
  <2>1. job # NoJob /\ job' = NoJob /\ s \in Session
    BY <1>9, InHand DEF AutoSummary, Over, At
  <2>2. CASE queue' = queue
    BY <1>3, <1>5, <2>1, <2>2
  <2>3. CASE queue' = Append(queue, NewJob("auto", s)) /\ ~ Throttled(s) /\ NonePending(s)
    <3>1. /\ DOMAIN queue' = 1 .. Len(queue) + 1 /\ queue'[Len(queue) + 1] = NewJob("auto", s)
          /\ \A k \in DOMAIN queue : queue'[k] = queue[k]
      BY <1>1, <2>3
    <3>2. NewJob("auto", s).session = s
      BY DEF NewJob
    <3>3. s \in N
      <4>1. Due(s)
        BY <2>1, <2>3, LastTyped DEF Due, Throttled
      <4>2. turns' = turns /\ summaries' = summaries
        BY <1>9 DEF AutoSummary, store
      <4>3. \A t \in Session : Due(t) => Due(t)'
        BY <4>2 DEF Due, LastSummary
      <4> QED
        BY <2>1, <4>1, <4>3 DEF N
    <3>4. ASSUME NEW k \in DOMAIN queue', queue'[k].kind = "auto"
          PROVE  /\ queue'[k].session \in N
                 /\ \A l \in DOMAIN queue' : l < k => ~ Summarises(queue'[l], queue'[k].session)
      <4>1. CASE k = Len(queue) + 1
        <5>1. \A l \in DOMAIN queue' : l < k => l \in DOMAIN queue /\ queue'[l] = queue[l]
          BY <1>1, <3>1, <4>1
        <5> QED
          BY <2>3, <3>1, <3>2, <3>3, <4>1, <5>1 DEF NonePending, Summarises
      <4>2. CASE k # Len(queue) + 1
        <5>1. k \in DOMAIN queue /\ queue'[k] = queue[k]
          BY <1>1, <3>1, <4>2
        <5>2. \A l \in DOMAIN queue' : l < k => l \in DOMAIN queue /\ queue'[l] = queue[l]
          BY <1>1, <3>1, <5>1
        <5> QED
          BY <1>3, <3>4, <5>1, <5>2
      <4> QED
        BY <4>1, <4>2
    <3> QED
      BY <1>5, <2>1, <3>4
  <2> QED
    BY <1>9, <2>2, <2>3 DEF AutoSummary
<1>10. CASE Summarise
  <2>1. job # NoJob /\ job' = NoJob /\ queue' = queue
    BY <1>10 DEF Summarise, Over, At
  <2> QED
    BY <1>3, <1>5, <2>1
<1>11. CASE ~ Send /\ ~ Claim /\ ~ ResumeFails /\ ~ AutoSummary /\ ~ Summarise
  <2>1. queue' = queue
    BY <1>11 DEF Next, vars, Age, store, Crash, Provider, Compile, Return, Command, Correct, ForgetMemory,
       ForgetSession, ForgetLast, Forgets, Save, NewSession, Reply, Settle
  <2>2. \/ job' = job \/ job' = NoJob
        \/ job # NoJob /\ \E p : job' = [job EXCEPT !.phase = p]
        \/ job # NoJob /\ job' = [job EXCEPT !.phase = "claimed", !.runs = @ + 1, !.warned = TRUE]
        \/ job # NoJob /\ \E b \in BOOLEAN : Done(b)
    <3>1. CASE UNCHANGED vars \/ Age \/ Crash \/ Compile \/ Return \/ Reply \/ Settle
      BY <3>1 DEF vars, Age, Crash, Compile, Return, Reply, Settle, Over, At
    <3>2. CASE Command
      BY <3>2 DEF Command, Correct, ForgetMemory, ForgetSession, ForgetLast, Forgets, Save, NewSession,
         Runs, At
    <3> QED
      BY <1>11, <3>1, <3>2 DEF Next, Provider
  <2>3. job' = job \/ job' = NoJob \/ (job # NoJob /\ job'.kind = job.kind /\ job'.session = job.session)
    <3>1. job # NoJob => job \in Job
      BY InHand
    <3>2. CASE job # NoJob /\ \E b \in BOOLEAN : Done(b)
      <4>1. \E c \in Nat : job' = [job EXCEPT !.phase = "done", !.changes = c]
        BY <3>1, <3>2, DoneChanges
      <4> QED
        BY <3>1, <3>2, <4>1 DEF Job
    <3>3. CASE job # NoJob /\ job' = [job EXCEPT !.phase = "claimed", !.runs = @ + 1, !.warned = TRUE]
      BY <3>1, <3>3 DEF Job
    <3>4. CASE job # NoJob /\ \E p : job' = [job EXCEPT !.phase = p]
      BY <3>1, <3>4 DEF Job
    <3> QED
      BY <2>2, <3>2, <3>3, <3>4
  <2>4. \A k \in DOMAIN queue : queue[k].kind = "auto" =>
          /\ queue[k].session \in N
          /\ \A l \in DOMAIN queue : l < k => ~ Summarises(queue[l], queue[k].session)
          /\ job' # NoJob => ~ Summarises(job', queue[k].session)
    BY <1>3, <2>3 DEF Summarises
  <2>5. job' # NoJob => (job'.kind = "auto" => job'.session \in N)
    BY <1>4, <1>11, <2>3
  <2> QED
    BY <1>5, <2>1, <2>4, <2>5
<1> QED
  BY <1>6, <1>7, <1>8, <1>9, <1>10, <1>11

(* AC-MEM-005 for every number of sessions, messages and restarts.         *)
THEOREM DistanceKept == Spec => []SummariesThrottled
<1>1. ThrottleInv => SummariesThrottled
  BY DEF ThrottleInv
<1> QED
  BY <1>1, InitTyped, TypeStep, InitThrottled, ThrottledStep, PTL DEF Spec

-----------------------------------------------------------------------------
(* Prompts: folds over finite sets, the packer's loop, and the prompt that  *)
(* was compiled for the job in hand.                                       *)

(* A set of numbers has a least one, and so there is induction over them,   *)
(* for a set of numbers.                                                   *)
LEMMA Least ==
  ASSUME NEW N \in SUBSET Nat, N # {}
  PROVE  \E n \in N : \A m \in N : n <= m
<1>1. \E n \in N : \A m \in N : ~ (<<m, n>> \in OpToRel(<, Nat))
  BY NatLessThanWellFounded, WFMin
<1>2. \E n \in N : \A m \in N : ~ (m < n)
  BY <1>1, Zenon DEF OpToRel
<1> QED
  BY <1>2

LEMMA Numbers ==
  ASSUME NEW P \in SUBSET Nat, 0 \in P, \A n \in P : n + 1 \in P
  PROVE  P = Nat
<1> SUFFICES ASSUME Nat \ P # {} PROVE FALSE
  OBVIOUS
<1>1. Nat \ P \in SUBSET Nat
  OBVIOUS
<1>2. PICK n \in Nat \ P : \A m \in Nat \ P : n <= m
  BY <1>1, Least
<1>3. n - 1 \in P
  BY <1>2
<1> QED
  BY <1>3

(* The subsets of a set with so many elements at most.                     *)
Small(S, n) == {T \in SUBSET S : Cardinality(T) <= n}

LEMMA Smalls ==
  ASSUME NEW S, IsFiniteSet(S)
  PROVE  /\ \A n \in Nat : {} \in Small(S, n)
         /\ Small(S, 0) = {{}}
         /\ Small(S, Cardinality(S)) = SUBSET S
         /\ \A n \in Nat : \A T \in Small(S, n) : T \in SUBSET S /\ T \in Small(S, n + 1)
         /\ \A n \in Nat : \A T \in Small(S, n + 1) : \A x \in T :
              x \in S /\ T \ {x} \in Small(S, n)
<1>1. \A T \in SUBSET S : IsFiniteSet(T) /\ Cardinality(T) \in Nat /\ Cardinality(T) <= Cardinality(S)
  BY FS_Subset, FS_CardinalityType
<1>2. \A T \in SUBSET S : Cardinality(T) = 0 <=> T = {}
  BY <1>1, FS_EmptySet
<1>3. \A T \in SUBSET S : \A x \in T : Cardinality(T \ {x}) = Cardinality(T) - 1
  BY <1>1, FS_RemoveElement
<1>4. \A n \in Nat : {} \in Small(S, n)
  BY FS_EmptySet DEF Small
<1>5. Small(S, 0) = {{}}
  <2>1. ASSUME NEW T \in Small(S, 0) PROVE T = {}
    <3>1. T \in SUBSET S /\ Cardinality(T) <= 0
      BY DEF Small
    <3>2. Cardinality(T) = 0
      BY <1>1, <3>1
    <3> QED
      BY <1>2, <3>1, <3>2
  <2> QED
    BY <1>4, <2>1
<1>6. Small(S, Cardinality(S)) = SUBSET S
  BY <1>1 DEF Small
<1>7. \A n \in Nat : \A T \in Small(S, n) : T \in SUBSET S /\ T \in Small(S, n + 1)
  BY <1>1 DEF Small
<1>8. ASSUME NEW n \in Nat, NEW T \in Small(S, n + 1), NEW x \in T
      PROVE  x \in S /\ T \ {x} \in Small(S, n)
  <2>1. T \in SUBSET S /\ Cardinality(T) <= n + 1 /\ T \ {x} \in SUBSET S
    BY DEF Small
  <2>2. Cardinality(T \ {x}) = Cardinality(T) - 1 /\ Cardinality(T) \in Nat
    BY <1>1, <1>3, <2>1
  <2>3. Cardinality(T \ {x}) <= n
    BY <2>1, <2>2
  <2> QED
    BY <2>1, <2>3 DEF Small
<1> QED
  BY <1>4, <1>5, <1>6, <1>7, <1>8

(* What a fold over the subsets of a finite set computes is a function that *)
(* satisfies the equation of the fold.                                     *)
Fold(g, S, c, base, op) ==
  g = [T \in SUBSET S |-> IF T = {} THEN base ELSE op[c[T]][g[T \ {c[T]}]]]
Chooses(c, S) == \A T \in SUBSET S : T # {} => c[T] \in T
FoldsAt(g, T, c, base, op) ==
  /\ T = {} => g[T] = base
  /\ T # {} => g[T] = op[c[T]][g[T \ {c[T]}]]

LEMMA FoldFurther ==
  ASSUME NEW S, IsFiniteSet(S), NEW c, Chooses(c, S), NEW A, NEW base \in A, NEW op,
         \A s \in S, a \in A : op[s][a] \in A,
         NEW n \in Nat, NEW g \in [Small(S, n) -> A],
         \A T \in Small(S, n) : FoldsAt(g, T, c, base, op)
  PROVE  \E h \in [Small(S, n + 1) -> A] :
           \A T \in Small(S, n + 1) : FoldsAt(h, T, c, base, op)
<1> DEFINE v(T) == IF T = {} THEN base ELSE op[c[T]][g[T \ {c[T]}]]
           h == [T \in Small(S, n + 1) |-> v(T)]
<1>1. ASSUME NEW T \in Small(S, n + 1), T # {}
      PROVE  c[T] \in S /\ T \ {c[T]} \in Small(S, n)
  <2>1. T \in SUBSET S
    BY DEF Small
  <2>2. c[T] \in T
    BY <1>1, <2>1 DEF Chooses
  <2> QED
    BY <2>2, Smalls
<1>2. ASSUME NEW T \in Small(S, n + 1) PROVE v(T) \in A
  <2>1. CASE T = {}
    BY <2>1
  <2>2. CASE T # {}
    <3>1. c[T] \in S /\ g[T \ {c[T]}] \in A
      BY <1>1, <2>2
    <3>2. op[c[T]][g[T \ {c[T]}]] \in A
      BY <3>1
    <3> QED
      BY <2>2, <3>2
  <2> QED
    BY <2>1, <2>2
<1>3. ASSUME NEW T \in Small(S, n) PROVE v(T) = g[T]
  BY DEF FoldsAt
<1>4. \A T \in Small(S, n) : T \in Small(S, n + 1)
  BY Smalls
<1> HIDE DEF v
<1>5. h \in [Small(S, n + 1) -> A]
  BY <1>2
<1>6. \A T \in Small(S, n) : h[T] = g[T]
  BY <1>3, <1>4
<1>7. ASSUME NEW T \in Small(S, n + 1) PROVE FoldsAt(h, T, c, base, op)
  <2>1. h[T] = v(T)
    OBVIOUS
  <2>2. T # {} => h[T \ {c[T]}] = g[T \ {c[T]}]
    BY <1>1, <1>6
  <2> HIDE DEF h
  <2> QED
    BY <2>1, <2>2 DEF FoldsAt, v
<1> HIDE DEF h
<1> QED
  BY <1>5, <1>7

LEMMA FoldExists ==
  ASSUME NEW S, IsFiniteSet(S), NEW c, Chooses(c, S), NEW A, NEW base \in A, NEW op,
         \A s \in S, a \in A : op[s][a] \in A
  PROVE  \E g \in [SUBSET S -> A] : Fold(g, S, c, base, op)
<1> DEFINE Upto(n) == \E g \in [Small(S, n) -> A] :
                        \A T \in Small(S, n) : FoldsAt(g, T, c, base, op)
           P == {n \in Nat : Upto(n)}
<1>1. Upto(0)
  <2> DEFINE g == [T \in {{}} |-> base]
  <2>1. g \in [Small(S, 0) -> A] /\ \A T \in Small(S, 0) : FoldsAt(g, T, c, base, op)
    BY Smalls DEF FoldsAt
  <2> QED
    BY <2>1
<1>2. ASSUME NEW n \in Nat, Upto(n) PROVE Upto(n + 1)
  BY <1>2, FoldFurther
<1> HIDE DEF Upto
<1>3. P \in SUBSET Nat /\ 0 \in P /\ \A n \in P : n + 1 \in P
  BY <1>1, <1>2
<1>4. P = Nat
  BY <1>3, Numbers
<1>5. Upto(Cardinality(S))
  BY <1>4, FS_CardinalityType
<1>6. PICK g \in [SUBSET S -> A] : \A T \in SUBSET S : FoldsAt(g, T, c, base, op)
  BY <1>5, Smalls DEF Upto
<1>7. Fold(g, S, c, base, op)
  <2> DEFINE h == [T \in SUBSET S |-> IF T = {} THEN base ELSE op[c[T]][g[T \ {c[T]}]]]
  <2>1. \A T \in SUBSET S : g[T] = h[T]
    BY <1>6 DEF FoldsAt
  <2>2. g = h
    BY <2>1
  <2> QED
    BY <2>2 DEF Fold
<1> QED
  BY <1>7

(* Induction over the subsets of a finite set, one element taken at a time. *)
LEMMA Subsets ==
  ASSUME NEW S, IsFiniteSet(S), NEW Good \in SUBSET (SUBSET S),
         \A T \in SUBSET S : (\A x \in T : T \ {x} \in Good) => T \in Good
  PROVE  Good = SUBSET S
<1> DEFINE P == {n \in Nat : Small(S, n) \subseteq Good}
<1>1. 0 \in P
  BY Smalls
<1>2. ASSUME NEW n \in P PROVE n + 1 \in P
  <2>1. ASSUME NEW T \in Small(S, n + 1) PROVE T \in Good
    <3>1. T \in SUBSET S
      BY DEF Small
    <3>2. \A x \in T : T \ {x} \in Good
      BY Smalls
    <3> QED
      BY <3>1, <3>2
  <2> QED
    BY <2>1
<1>3. P \in SUBSET Nat
  OBVIOUS
<1>4. P = Nat
  BY <1>1, <1>2, <1>3, Numbers
<1>5. Small(S, Cardinality(S)) \subseteq Good
  BY <1>4, FS_CardinalityType
<1> QED
  BY <1>5, Smalls

(* The sum of the community modules: its equation, and that it does not     *)
(* matter which element is taken out first.                                *)
Any(T) == CHOOSE x \in T : TRUE
Sums(g, f, S) ==
  g = [T \in SUBSET S |-> IF T = {} THEN 0 ELSE f[Any(T)] + g[T \ {Any(T)}]]
Weighs(f, S) == IsFiniteSet(S) /\ \A s \in S : f[s] \in Nat

LEMMA AnyIn == \A T : T # {} => Any(T) \in T
  BY DEF Any

LEMMA SumExists ==
  ASSUME NEW f, NEW S, Weighs(f, S)
  PROVE  \E g \in [SUBSET S -> Nat] : Sums(g, f, S)
<1> DEFINE c == [T \in SUBSET S |-> Any(T)]
           op == [s \in S |-> [a \in Nat |-> f[s] + a]]
<1>1. IsFiniteSet(S) /\ Chooses(c, S)
  BY AnyIn DEF Weighs, Chooses
<1>2. \A s \in S, a \in Nat : op[s][a] = f[s] + a /\ op[s][a] \in Nat
  BY DEF Weighs
<1>3. PICK g \in [SUBSET S -> Nat] : Fold(g, S, c, 0, op)
  <2> HIDE DEF c, op
  <2> QED
    BY <1>1, <1>2, FoldExists
<1>4. Sums(g, f, S)
  <2> DEFINE h == [T \in SUBSET S |-> IF T = {} THEN 0 ELSE f[Any(T)] + g[T \ {Any(T)}]]
  <2>1. ASSUME NEW T \in SUBSET S PROVE g[T] = h[T]
    <3>1. CASE T = {}
      BY <1>3, <3>1 DEF Fold
    <3>2. CASE T # {}
      <4>1. g[T] = op[c[T]][g[T \ {c[T]}]]
        <5> HIDE DEF c, op
        <5> QED
          BY <1>3, <3>2 DEF Fold
      <4>2. c[T] = Any(T) /\ Any(T) \in S /\ g[T \ {Any(T)}] \in Nat
        BY <3>2, AnyIn
      <4> QED
        BY <1>2, <3>2, <4>1, <4>2
    <3> QED
      BY <3>1, <3>2
  <2>2. g = h
    BY <2>1
  <2> QED
    BY <2>2 DEF Sums
<1> QED
  BY <1>4

LEMMA SumOf ==
  ASSUME NEW f, NEW S, Weighs(f, S), NEW g, Sums(g, f, S), NEW T \in SUBSET S
  PROVE  SumFunctionOnSet(f, T) = g[T]
<1>1. Weighs(f, T)
  BY FS_Subset DEF Weighs
<1>2. \E h : Sums(h, f, T)
  BY <1>1, SumExists
<1> DEFINE h == CHOOSE h : Sums(h, f, T)
<1>3. Sums(h, f, T)
  BY <1>2
<1>4. SumFunctionOnSet(f, T) = h[T]
  BY DEF SumFunctionOnSet, FoldFunctionOnSet, MapThenFoldSet, Sums, Any
<1> HIDE DEF h
<1> DEFINE Good == {U \in SUBSET T : g[U] = h[U]}
<1>5. ASSUME NEW U \in SUBSET T, \A x \in U : U \ {x} \in Good PROVE U \in Good
  <2>1. CASE U = {}
    BY <1>3, <2>1 DEF Sums
  <2>2. CASE U # {}
    <3>1. g[U \ {Any(U)}] = h[U \ {Any(U)}]
      BY <1>5, <2>2, AnyIn
    <3>2. g[U] = f[Any(U)] + g[U \ {Any(U)}] /\ h[U] = f[Any(U)] + h[U \ {Any(U)}]
      BY <1>3, <2>2 DEF Sums
    <3> QED
      BY <3>1, <3>2
  <2> QED
    BY <2>1, <2>2
<1>6. Good = SUBSET T
  <2>1. IsFiniteSet(T) /\ Good \in SUBSET (SUBSET T)
    BY <1>1 DEF Weighs
  <2>2. \A U \in SUBSET T : (\A x \in U : U \ {x} \in Good) => U \in Good
    BY <1>5
  <2> HIDE DEF Good
  <2> QED
    BY <2>1, <2>2, Subsets
<1> QED
  BY <1>4, <1>6

LEMMA Sum ==
  ASSUME NEW f, NEW S, Weighs(f, S)
  PROVE  /\ SumFunctionOnSet(f, S) \in Nat
         /\ \A x \in S : SumFunctionOnSet(f, S) = f[x] + SumFunctionOnSet(f, S \ {x})
<1>1. PICK g \in [SUBSET S -> Nat] : Sums(g, f, S)
  BY SumExists
<1>2. \A T \in SUBSET S : SumFunctionOnSet(f, T) = g[T]
  BY <1>1, SumOf
<1> DEFINE Good == {T \in SUBSET S : \A x \in T : g[T] = f[x] + g[T \ {x}]}
<1>3. ASSUME NEW T \in SUBSET S, \A x \in T : T \ {x} \in Good,
             NEW x \in T
      PROVE  g[T] = f[x] + g[T \ {x}]
  <2>1. PICK a \in T : a = Any(T)
    BY AnyIn
  <2>2. g[T] = f[a] + g[T \ {a}]
    BY <1>1, <2>1 DEF Sums
  <2>3. CASE a = x
    BY <2>2, <2>3
  <2>4. CASE a # x
    <3>1. x \in T \ {a} /\ a \in T \ {x} /\ (T \ {a}) \ {x} = (T \ {x}) \ {a}
      BY <2>4
    <3>2. g[T \ {a}] = f[x] + g[(T \ {a}) \ {x}] /\ g[T \ {x}] = f[a] + g[(T \ {x}) \ {a}]
      BY <1>3, <3>1
    <3>3. PICK r \in Nat : r = g[(T \ {a}) \ {x}]
      BY <1>1
    <3>4. f[a] \in Nat /\ f[x] \in Nat
      BY DEF Weighs
    <3>5. g[T] = f[a] + (f[x] + r) /\ g[T \ {x}] = f[a] + r
      BY <2>2, <3>1, <3>2, <3>3
    <3> QED
      BY <3>4, <3>5
  <2> QED
    BY <2>3, <2>4
<1>4. Good = SUBSET S
  <2>1. IsFiniteSet(S) /\ Good \in SUBSET (SUBSET S)
    BY DEF Weighs
  <2>2. \A T \in SUBSET S : (\A x \in T : T \ {x} \in Good) => T \in Good
    BY <1>3
  <2> HIDE DEF Good
  <2> QED
    BY <2>1, <2>2, Subsets
<1>5. S \in SUBSET S /\ \A x \in S : S \ {x} \in SUBSET S
  OBVIOUS
<1>6. \A x \in S : g[S] = f[x] + g[S \ {x}]
  BY <1>4
<1> QED
  BY <1>1, <1>2, <1>5, <1>6

-----------------------------------------------------------------------------
(* The packer.                                                             *)
Slots == DOMAIN Priority

LEMMA Priorities ==
  /\ Slots = {"user_message", "system_identity", "judgment_active", "current_session_summary",
              "recent_turns", "memory_user_stated", "memory_other"}
  /\ \A s \in Slots : Priority[s] \in Nat /\ Priority[s] <= 1000
  /\ \A s, t \in Slots : Priority[s] = Priority[t] => s = t
  /\ \A s \in Floor, t \in Slots \ Floor : s \in Slots /\ Priority[t] < Priority[s]
  BY DEF Slots, Priority, Floor

LEMMA HighestIn ==
  ASSUME NEW T \in SUBSET Slots, T # {}
  PROVE  Highest(T) \in T /\ \A t \in T \ {Highest(T)} : Priority[t] < Priority[Highest(T)]
<1> DEFINE h == Highest(T)
           N == {n \in Nat : \E s \in T : n = 1000 - Priority[s]}
<1>0. \A s \in T : Priority[s] \in Nat /\ Priority[s] <= 1000
  BY Priorities
<1>1. \A s \in T : 1000 - Priority[s] \in N
  BY <1>0
<1>2. N \in SUBSET Nat /\ N # {}
  BY <1>1
<1>3. PICK n \in N : \A m \in N : n <= m
  BY <1>2, Least
<1>4. \E s \in T : \A t \in T : Priority[t] <= Priority[s]
  BY <1>0, <1>1, <1>3
<1>5. h \in T /\ \A t \in T : Priority[t] <= Priority[h]
  BY <1>4 DEF Highest
<1> HIDE DEF h
<1>6. \A t \in T \ {h} : Priority[t] # Priority[h]
  BY <1>5, Priorities
<1>7. \A t \in T \ {h} : Priority[t] < Priority[h]
  BY <1>0, <1>5, <1>6
<1> QED
  BY <1>5, <1>7 DEF h

(* What the builder hands to the packer.                                   *)
Weighted(snapshot) ==
  /\ Floor \subseteq DOMAIN snapshot /\ DOMAIN snapshot \subseteq Slots
  /\ \A s \in DOMAIN snapshot : snapshot[s] \in Nat

LEMMA SlotsFinite == ASSUME NEW S \in SUBSET Slots PROVE IsFiniteSet(S)
<1>1. \A T, x : IsFiniteSet(T) => IsFiniteSet(T \cup {x})
  BY FS_AddElement
<1>2. IsFiniteSet(Floor)
  <2>1. IsFiniteSet({"user_message"} \cup {"system_identity"})
    BY <1>1, FS_Singleton
  <2> QED
    BY <2>1 DEF Floor
<1>3. PICK a : IsFiniteSet(a) /\ a = Floor \cup {"judgment_active"}
  BY <1>1, <1>2
<1>4. PICK b : IsFiniteSet(b) /\ b = a \cup {"current_session_summary"}
  BY <1>1, <1>3
<1>5. PICK c : IsFiniteSet(c) /\ c = b \cup {"recent_turns"}
  BY <1>1, <1>4
<1>6. PICK d : IsFiniteSet(d) /\ d = c \cup {"memory_user_stated"}
  BY <1>1, <1>5
<1>7. PICK e : IsFiniteSet(e) /\ e = d \cup {"memory_other"}
  BY <1>1, <1>6
<1>8. S \subseteq e
  BY <1>3, <1>4, <1>5, <1>6, <1>7, Priorities DEF Floor
<1> QED
  BY <1>7, <1>8, FS_Subset

LEMMA SlotsWeigh ==
  ASSUME NEW snapshot, Weighted(snapshot), NEW S \in SUBSET DOMAIN snapshot
  PROVE  Weighs(snapshot, S)
  BY SlotsFinite DEF Weighted, Weighs

Acc(snapshot) == [dropped : SUBSET DOMAIN snapshot, total : Int]
Start(snapshot) == [dropped |-> {}, total |-> SumFunction(snapshot)]
Loops(g, snapshot) ==
  g = [T \in SUBSET (DOMAIN snapshot \ Floor) |->
         IF T = {} THEN Start(snapshot)
         ELSE Drop(snapshot, Highest(T), g[T \ {Highest(T)}])]

LEMMA StartTyped ==
  ASSUME NEW snapshot, Weighted(snapshot) PROVE Start(snapshot) \in Acc(snapshot)
<1>1. SumFunction(snapshot) \in Nat
  BY SlotsWeigh, Sum DEF SumFunction
<1> QED
  BY <1>1 DEF Start, Acc

LEMMA DropTyped ==
  ASSUME NEW snapshot, Weighted(snapshot), NEW s \in DOMAIN snapshot, NEW a \in Acc(snapshot)
  PROVE  Drop(snapshot, s, a) \in Acc(snapshot)
<1>1. snapshot[s] \in Nat
  BY DEF Weighted
<1>2. a.dropped \in SUBSET DOMAIN snapshot /\ a.total \in Int
  BY DEF Acc
<1>3. [dropped |-> a.dropped \cup {s}, total |-> a.total - snapshot[s]] \in Acc(snapshot)
  BY <1>1, <1>2 DEF Acc
<1> QED
  BY <1>3 DEF Drop

LEMMA LoopExists ==
  ASSUME NEW snapshot, Weighted(snapshot)
  PROVE  \E g \in [SUBSET (DOMAIN snapshot \ Floor) -> Acc(snapshot)] : Loops(g, snapshot)
<1> DEFINE S == DOMAIN snapshot \ Floor
           A == Acc(snapshot)
           c == [T \in SUBSET S |-> Highest(T)]
           op == [s \in S |-> [a \in A |-> Drop(snapshot, s, a)]]
<1>1. S \in SUBSET Slots /\ IsFiniteSet(S) /\ S \subseteq DOMAIN snapshot
  BY SlotsFinite DEF Weighted
<1>2. Chooses(c, S)
  BY <1>1, HighestIn DEF Chooses
<1>3. \A s \in S, a \in A : op[s][a] = Drop(snapshot, s, a) /\ op[s][a] \in A
  BY <1>1, DropTyped
<1>4. PICK g \in [SUBSET S -> A] : Fold(g, S, c, Start(snapshot), op)
  <2>1. Start(snapshot) \in A
    BY StartTyped
  <2> HIDE DEF c, op, A, S
  <2> QED
    BY <1>1, <1>2, <1>3, <2>1, FoldExists
<1>5. Loops(g, snapshot)
  <2> DEFINE v(T) == IF T = {} THEN Start(snapshot)
                     ELSE Drop(snapshot, Highest(T), g[T \ {Highest(T)}])
             h == [T \in SUBSET S |-> v(T)]
  <2>1. ASSUME NEW T \in SUBSET S PROVE g[T] = h[T]
    <3>1. CASE T = {}
      BY <1>4, <3>1 DEF Fold
    <3>2. CASE T # {}
      <4>1. g[T] = op[c[T]][g[T \ {c[T]}]]
        <5> HIDE DEF c, op
        <5> QED
          BY <1>4, <3>2 DEF Fold
      <4>2. c[T] = Highest(T) /\ Highest(T) \in S /\ g[T \ {Highest(T)}] \in A
        BY <1>1, <3>2, HighestIn
      <4> HIDE DEF c, op
      <4>3. g[T] = Drop(snapshot, Highest(T), g[T \ {Highest(T)}])
        BY <1>3, <4>1, <4>2
      <4> QED
        BY <3>2, <4>3
    <3> QED
      BY <3>1, <3>2
  <2>2. g = h
    BY <2>1
  <2> QED
    BY <2>2 DEF Loops
<1> QED
  BY <1>5

LEMMA DroppedOf ==
  ASSUME NEW snapshot, Weighted(snapshot)
  PROVE  \E g : Loops(g, snapshot) /\ Dropped(snapshot) = g[DOMAIN snapshot \ Floor].dropped
<1>1. \E g : Loops(g, snapshot)
  BY LoopExists
<1> DEFINE g == CHOOSE g : Loops(g, snapshot)
<1>2. Loops(g, snapshot)
  BY <1>1
<1>3. Dropped(snapshot) = g[DOMAIN snapshot \ Floor].dropped
  BY DEF Dropped, MapThenFoldSet, Loops, Start
<1> QED
  BY <1>2, <1>3

(* The loop's invariant: acc is what it has made of the slots T.           *)
Packs(snapshot, T, acc) ==
  /\ acc.dropped \subseteq T
  /\ acc.total = SumFunctionOnSet(snapshot, DOMAIN snapshot \ acc.dropped)
  /\ \A d \in acc.dropped, k \in T \ acc.dropped : Priority[d] < Priority[k]
  /\ acc.total <= Budget \/ acc.dropped = T
  /\ \A d \in acc.dropped :
       (\A e \in acc.dropped : Priority[e] <= Priority[d])
         => ~ Fits(snapshot, DOMAIN snapshot \ (acc.dropped \ {d}))

LEMMA PacksOn ==
  ASSUME NEW snapshot, Weighted(snapshot), NEW T \in SUBSET (DOMAIN snapshot \ Floor), T # {},
         NEW a, Packs(snapshot, T \ {Highest(T)}, a)
  PROVE  Packs(snapshot, T, Drop(snapshot, Highest(T), a))
<1> DEFINE D == DOMAIN snapshot
           h == Highest(T)
           b == [dropped |-> a.dropped \cup {h}, total |-> a.total - snapshot[h]]
<1>0. Budget \in Nat
  BY PromptAssumption
<1>1. /\ T \in SUBSET Slots /\ T \subseteq D
      /\ h \in T /\ \A t \in T \ {h} : Priority[t] < Priority[h]
  BY HighestIn DEF Weighted
<1>2. \A s \in Slots : Priority[s] \in Nat
  BY Priorities
<1>3. a.dropped \subseteq T \ {h} /\ h \in D \ a.dropped
  BY <1>1 DEF Packs
<1> HIDE DEF h
<1>4. a.total \in Nat /\ a.total = snapshot[h] + SumFunctionOnSet(snapshot, D \ (a.dropped \cup {h}))
  <2>1. Weighs(snapshot, D \ a.dropped)
    BY SlotsWeigh
  <2>2. (D \ a.dropped) \ {h} = D \ (a.dropped \cup {h})
    OBVIOUS
  <2> QED
    BY <1>3, <2>1, <2>2, Sum DEF Packs, h
<1>5. CASE a.total <= Budget
  <2>1. Drop(snapshot, h, a) = a
    BY <1>5 DEF Drop
  <2>2. Packs(snapshot, T, a)
    <3>1. \A d \in a.dropped, k \in T \ a.dropped : Priority[d] < Priority[k]
      BY <1>1, <1>3 DEF Packs, h
    <3> QED
      BY <1>3, <1>5, <3>1 DEF Packs, h
  <2> QED
    BY <2>1, <2>2 DEF h
<1>6. CASE ~ (a.total <= Budget)
  <2>1. Drop(snapshot, h, a) = b
    BY <1>6 DEF Drop
  <2>2. a.dropped = T \ {h} /\ b.dropped = T
    BY <1>1, <1>6 DEF Packs, h
  <2>3. b.total = SumFunctionOnSet(snapshot, D \ b.dropped)
    <3>1. SumFunctionOnSet(snapshot, D \ (a.dropped \cup {h})) \in Nat /\ snapshot[h] \in Nat
      BY <1>1, SlotsWeigh, Sum DEF Weighted
    <3> QED
      BY <1>4, <3>1
  <2>4. ASSUME NEW d \in T, \A e \in T : Priority[e] <= Priority[d]
        PROVE  ~ Fits(snapshot, D \ (T \ {d}))
    <3>1. d = h
      BY <1>1, <1>2, <2>4
    <3>2. D \ (T \ {d}) = D \ a.dropped
      BY <2>2, <3>1
    <3>3. SumFunctionOnSet(snapshot, D \ a.dropped) = a.total
      BY DEF Packs
    <3> QED
      BY <1>6, <3>2, <3>3 DEF Fits
  <2>5. Packs(snapshot, T, b)
    BY <2>2, <2>3, <2>4 DEF Packs
  <2> QED
    BY <2>1, <2>5 DEF h
<1> QED
  BY <1>5, <1>6

(* However much room it has to make, the packer keeps the message and the  *)
(* identity, drops the lower slots first, and none there was room for.     *)
THEOREM PackedWell ==
  ASSUME NEW snapshot, Weighted(snapshot), ~ Overflows(snapshot)
  PROVE  WellPacked(snapshot, DOMAIN snapshot \ Dropped(snapshot))
<1> DEFINE D == DOMAIN snapshot
           S == D \ Floor
<1>1. PICK g : Loops(g, snapshot) /\ Dropped(snapshot) = g[S].dropped
  BY DroppedOf
<1> DEFINE Good == {T \in SUBSET S : Packs(snapshot, T, g[T])}
<1>2. ASSUME NEW T \in SUBSET S, \A x \in T : T \ {x} \in Good PROVE T \in Good
  <2>1. CASE T = {}
    <3>1. g[T] = Start(snapshot)
      BY <1>1, <2>1 DEF Loops
    <3>2. Packs(snapshot, {}, Start(snapshot))
      <4>1. D \ {} = D
        OBVIOUS
      <4> QED
        BY <4>1 DEF Packs, Start, SumFunction
    <3> QED
      BY <2>1, <3>1, <3>2
  <2>2. CASE T # {}
    <3>1. Highest(T) \in T
      BY <2>2, HighestIn DEF Weighted
    <3>2. g[T] = Drop(snapshot, Highest(T), g[T \ {Highest(T)}])
      BY <1>1, <2>2 DEF Loops
    <3>3. Packs(snapshot, T \ {Highest(T)}, g[T \ {Highest(T)}])
      BY <1>2, <3>1
    <3> QED
      BY <2>2, <3>2, <3>3, PacksOn
  <2> QED
    BY <2>1, <2>2
<1>3. S \in Good
  <2>1. IsFiniteSet(S) /\ Good \in SUBSET (SUBSET S)
    BY SlotsFinite DEF Weighted
  <2>2. \A T \in SUBSET S : (\A x \in T : T \ {x} \in Good) => T \in Good
    BY <1>2
  <2>3. Good = SUBSET S
    <3> HIDE DEF Good, S
    <3> QED
      BY <2>1, <2>2, Subsets
  <2> QED
    BY <2>3
<1> DEFINE X == Dropped(snapshot)
           K == D \ X
<1>4. Packs(snapshot, S, g[S]) /\ X = g[S].dropped
  BY <1>1, <1>3
<1>5. X \subseteq S /\ Floor \subseteq K /\ K \subseteq D /\ D \ K = X
  BY <1>4 DEF Packs, Weighted
<1> HIDE DEF X
<1>6. Fits(snapshot, K)
  <2>1. CASE g[S].total <= Budget
    BY <1>4, <2>1 DEF Packs, Fits
  <2>2. CASE X = S
    <3>1. K = D \cap Floor
      BY <2>2
    <3>2. SumFunctionOnSet(snapshot, D \cap Floor) \in Nat /\ Budget \in Nat
      BY SlotsWeigh, Sum, PromptAssumption
    <3> QED
      BY <3>1, <3>2 DEF Fits, Overflows
  <2> QED
    BY <1>4, <2>1, <2>2 DEF Packs
<1>7. ASSUME NEW d \in X, NEW k \in K PROVE Priority[d] < Priority[k]
  <2>1. CASE k \in Floor
    BY <1>5, <2>1, Priorities DEF Weighted
  <2>2. CASE k \in S \ X
    BY <1>4, <2>2 DEF Packs
  <2> QED
    BY <2>1, <2>2
<1>8. ASSUME NEW d \in X, \A e \in X : Priority[e] <= Priority[d]
      PROVE  ~ Fits(snapshot, K \cup {d})
  <2>1. K \cup {d} = D \ (X \ {d})
    BY <1>5
  <2> QED
    BY <1>4, <1>8, <2>1 DEF Packs
<1> HIDE DEF K
<1>9. WellPacked(snapshot, K)
  BY <1>5, <1>6, <1>7, <1>8 DEF WellPacked
<1> QED
  BY <1>9 DEF K, X

-----------------------------------------------------------------------------
(* The prompt of the job in hand.                                          *)

LEMMA BuiltWeighted ==
  ASSUME NEW mode, NEW user \in Nat, NEW identity \in Nat, NEW judged \in BOOLEAN,
         NEW summarised, NEW replies \in Nat, NEW stated \in Nat, NEW other \in Nat
  PROVE  /\ Weighted(Built(mode, user, identity, judged, summarised, replies, stated, other))
         /\ "judgment_active" \in
                DOMAIN Built(mode, user, identity, judged, summarised, replies, stated, other)
              => judged
<1> DEFINE weight == [user_message |-> user, system_identity |-> identity,
                      judgment_active |-> JudgmentTokens,
                      current_session_summary |-> SummaryTokens,
                      recent_turns |-> TurnTokens * replies,
                      memory_user_stated |-> ItemTokens * stated,
                      memory_other |-> ItemTokens * other]
           replayed == (IF summarised THEN {"current_session_summary"} ELSE {})
                       \cup (IF replies > 0 THEN {"recent_turns"} ELSE {})
                       \cup (IF stated > 0 THEN {"memory_user_stated"} ELSE {})
                       \cup (IF other > 0 THEN {"memory_other"} ELSE {})
           present == Floor \cup (IF judged THEN {"judgment_active"} ELSE {})
                            \cup (IF mode = "replay_mode" THEN replayed ELSE {})
<1>1. /\ JudgmentTokens \in Nat /\ SummaryTokens \in Nat /\ TurnTokens \in Nat /\ ItemTokens \in Nat
  BY PromptAssumption
<1>2. TurnTokens * replies \in Nat /\ ItemTokens * stated \in Nat /\ ItemTokens * other \in Nat
  BY <1>1
<1>3. \A s \in Slots : weight[s] \in Nat
  BY <1>1, <1>2, Priorities
<1>4. /\ Floor \subseteq present /\ present \subseteq Slots
      /\ "judgment_active" \in present => judged
  BY Priorities DEF Floor
<1>5. Built(mode, user, identity, judged, summarised, replies, stated, other)
        = [s \in present |-> weight[s]]
  BY DEF Built
<1> HIDE DEF present, weight
<1> QED
  BY <1>3, <1>4, <1>5 DEF Weighted

(* What a prompt is built from has a weight, and shows active items only.  *)
LEMMA SnapshotWeighted ==
  ASSUME TypeOK, At("claimed"), NEW mode, NEW judged \in BOOLEAN
  PROVE  /\ Weighted(Snapshot(mode, judged))
         /\ "judgment_active" \in DOMAIN Snapshot(mode, judged) => job.kind = "chat"
<1>1. job \in Job /\ job.session \in Session
  BY InHand DEF At
<1>2. job.tokens \in Nat /\ turns[job.session].all \in Nat
  BY <1>1 DEF Job, TypeOK
<1>3. IsFiniteSet(Items)
  <2>1. Items = 1 .. Len(items) /\ Len(items) \in Nat
    BY DEF TypeOK, Items
  <2> QED
    BY <2>1, FS_Interval
<1>4. Recalled(job.session) \subseteq Items
  BY DEF Recalled, ActiveOf
<1> DEFINE stated == {i \in Recalled(job.session) : items[i].stated}
           identity == IF job.kind = "chat" THEN IdentityTokens ELSE SchemaTokens
           replies == Smaller(turns[job.session].all, TurnLimit)
           shown == judged /\ job.kind = "chat"
<1>5. Cardinality(stated) \in Nat /\ Cardinality(Recalled(job.session) \ stated) \in Nat
  BY <1>3, <1>4, FS_Subset, FS_CardinalityType
<1>6. identity \in Nat
  BY PromptAssumption
<1>7. replies \in Nat
  BY <1>2, MemoryAssumption DEF Smaller
<1>8. Snapshot(mode, judged)
        = Built(mode, job.tokens, identity, shown, summaries[job.session] # << >>, replies,
                Cardinality(stated), Cardinality(Recalled(job.session) \ stated))
  BY DEF Snapshot
<1>9. shown \in BOOLEAN
  OBVIOUS
<1> DEFINE built == Snapshot(mode, judged)
<1> HIDE DEF stated, identity, replies, shown
<1>10. Weighted(built) /\ ("judgment_active" \in DOMAIN built => shown)
  BY <1>2, <1>5, <1>6, <1>7, <1>8, <1>9, BuiltWeighted
<1> QED
  BY <1>10 DEF shown

(* A prompt there is belongs to the job in hand, which waits for its run.  *)
PromptInv == PromptIsSound /\ (prompt # NoPrompt => At("compiled"))

(* The prompt itself: what is said of it but for whose it is.              *)
LEMMA CompileSound == ASSUME TypeOK, Compile PROVE PromptInv'
<1>1. At("claimed") /\ job # NoJob /\ UNCHANGED items
  BY DEF Compile, store, At
<1>2. PICK judged \in BOOLEAN :
        LET mode == PackingMode
            snapshot == Snapshot(mode, judged)
        IN  IF ~ Bare(mode, judged) /\ Overflows(snapshot)
            THEN Over
            ELSE /\ job' = [job EXCEPT !.phase = "compiled"]
                 /\ prompt' = IF Bare(mode, judged)
                              THEN [mode |-> mode, snapshot |-> [s \in {} |-> 0], dropped |-> {},
                                    recalled |-> {}]
                              ELSE [mode |-> mode, snapshot |-> snapshot,
                                    dropped |-> Dropped(snapshot),
                                    recalled |-> IF mode = "replay_mode"
                                                 THEN Recalled(job.session) ELSE {}]
  BY DEF Compile
<1> DEFINE mode == PackingMode
           snapshot == Snapshot(mode, judged)
           shown == IF mode = "replay_mode" THEN Recalled(job.session) ELSE {}
<1>3. CASE ~ Bare(mode, judged) /\ Overflows(snapshot)
  <2>1. prompt' = NoPrompt
    BY <1>2, <1>3 DEF Over
  <2> QED
    BY <2>1 DEF PromptInv, PromptIsSound
<1>4. CASE Bare(mode, judged) \/ ~ Overflows(snapshot)
  <2>1. job' = [job EXCEPT !.phase = "compiled"]
    BY <1>2, <1>4
  <2>2. job' # NoJob /\ job'.phase = "compiled" /\ job'.session = job.session /\ job'.kind = job.kind
    <3>1. job \in Job
      BY <1>1, InHand
    <3>2. job' \in Job
      BY <2>1, <3>1 DEF Job
    <3> QED
      BY <2>1, <3>1, <3>2, JobsAreJobs DEF Job
  <2>3. At("compiled")'
    BY <2>2 DEF At
  <2>4. CASE Bare(mode, judged)
    <3>1. prompt' = [mode |-> mode, snapshot |-> [s \in {} |-> 0], dropped |-> {}, recalled |-> {}]
      BY <1>2, <2>4
    <3>2. prompt'.snapshot = [s \in {} |-> 0] /\ prompt'.recalled = {}
      BY <3>1
    <3>3. DOMAIN prompt'.snapshot = {}
      BY <3>2
    <3> QED
      BY <2>3, <3>2, <3>3 DEF PromptInv, PromptIsSound
  <2>5. CASE ~ Bare(mode, judged)
    <3>1. prompt' = [mode |-> mode, snapshot |-> snapshot, dropped |-> Dropped(snapshot),
                     recalled |-> shown]
      BY <1>2, <1>4, <2>5
    <3>2. /\ prompt'.snapshot = snapshot /\ prompt'.dropped = Dropped(snapshot)
          /\ prompt'.recalled = shown
      BY <3>1
    <3>3. WellPacked(snapshot, DOMAIN snapshot \ Dropped(snapshot))
      BY <1>1, <1>4, <2>5, SnapshotWeighted, PackedWell
    <3>4. shown \subseteq ActiveOf(job.session) /\ ActiveOf(job.session) = ActiveOf(job.session)'
      BY <1>1, <2>2 DEF Recalled, ActiveOf, Items
    <3>5. job.kind # "chat" => "judgment_active" \notin DOMAIN snapshot
      BY <1>1, SnapshotWeighted
    <3> HIDE DEF snapshot, shown
    <3> QED
      BY <2>2, <2>3, <3>2, <3>3, <3>4, <3>5 DEF PromptInv, PromptIsSound
  <2> QED
    BY <2>4, <2>5
<1> QED
  BY <1>3, <1>4

LEMMA PromptStep == TypeOK /\ PromptInv /\ [Next]_vars => PromptInv'
<1> SUFFICES ASSUME TypeOK, PromptInv, [Next]_vars PROVE PromptInv'
  OBVIOUS
<1>1. ASSUME prompt' = NoPrompt PROVE PromptInv'
  BY <1>1 DEF PromptInv, PromptIsSound
<1>2. ASSUME UNCHANGED <<items, job, prompt>> PROVE PromptInv'
  BY <1>2 DEF PromptInv, PromptIsSound, At, ActiveOf, Items
<1>3. \A p : p # "compiled" /\ At(p) => prompt = NoPrompt
  BY DEF PromptInv, At
<1>4. CASE UNCHANGED vars
  BY <1>2, <1>4 DEF vars, store
<1>5. CASE Send \/ Age
  BY <1>2, <1>5, Sent DEF Age, store, Enqueued
<1>6. CASE Claim
  <2>1. prompt = NoPrompt /\ prompt' = prompt
    BY <1>6 DEF Claim, PromptInv, At
  <2> QED
    BY <1>1, <2>1
<1>7. CASE Crash
  BY <1>1, <1>7 DEF Crash
<1>8. CASE Provider
  <2>1. CASE Compile
    BY <2>1, CompileSound
  <2>2. CASE ResumeFails \/ AutoSummary \/ Summarise
    BY <1>1, <2>2 DEF ResumeFails, AutoSummary, Summarise, Over
  <2>3. CASE Return
    BY <1>1, <2>3 DEF Return, Over
  <2> QED
    BY <1>8, <2>1, <2>2, <2>3 DEF Provider
<1>9. CASE Command
  <2>1. At("claimed") /\ prompt' = prompt
    BY <1>9 DEF Command, Correct, ForgetMemory, ForgetSession, ForgetLast, Forgets, Save,
                NewSession, Runs
  <2> QED
    BY <1>1, <1>3, <2>1
<1>10. CASE Reply
  <2>1. At("done") /\ prompt' = prompt
    BY <1>10 DEF Reply
  <2> QED
    BY <1>1, <1>3, <2>1
<1>11. CASE Settle
  BY <1>1, <1>11 DEF Settle, Over
<1> QED
  BY <1>4, <1>5, <1>6, <1>7, <1>8, <1>9, <1>10, <1>11 DEF Next

(* Every prompt fits its budget, keeps the message and the identity, drops  *)
(* the lower slots first, shows no item that was corrected or forgotten     *)
(* since, and tells a summary no judgment.                                 *)
THEOREM PromptsSound == Spec => []PromptIsSound
<1>1. Init => PromptInv
  BY DEF Init, PromptInv, PromptIsSound
<1>2. PromptInv => PromptIsSound
  BY DEF PromptInv
<1> QED
  BY <1>1, <1>2, PromptStep, TypeCorrect, PTL DEF Spec
=============================================================================
