------------------------------- MODULE Memory -------------------------------
(***************************************************************************)
(* What the agent remembers of a chat: its turns and their summaries       *)
(* (memory/summary.ts), the memory items with the commands that correct and *)
(* forget them (memory/items.ts, commands/correct.ts, commands/forget.ts),  *)
(* and the prompts compiled from all of it (context/compiler.ts).           *)
(*                                                                         *)
(* The poller queues a job per message; the one worker runs them in order.  *)
(* A job's effects, its turn and its end are separate commits, and a job    *)
(* that is still running at a crash is run again by the next boot, ahead of *)
(* those that came later.  One chat: its sessions follow one another, but   *)
(* jobs of an ended session may still be queued.                           *)
(*                                                                         *)
(* Items are numbered in order of creation.  Those of Init were promoted by *)
(* earlier versions; today only corrections insert items.                  *)
(***************************************************************************)
EXTENDS Prompt, FiniteSets

CONSTANTS
  MaxSessions,    \* bound: sessions of the chat
  MaxItems,       \* bound: rows of memory_items
  InitialItems,   \* items from before: which of them the user stated
  MaxMessages,    \* bound: messages the user sends, /summary and /end included
  MaxCommands,    \* bound: other commands
  MaxSent,        \* bound: both together
  MaxQueue,       \* bound: messages waiting
  MaxAged,        \* bound: sessions that get 24 hours old
  MaxAttempts,    \* jobs.max_attempts
  MaxCrashes,     \* bound: restarts of the process
  MessageTokens,  \* the weights a message may have
  TurnTrigger,    \* TURN_COUNT_TRIGGER
  TokenTrigger,   \* TOKEN_TRIGGER
  UserThrottle,   \* THROTTLE_MIN_USER_TURNS
  TurnLimit,      \* LIMIT of queryRecentTurns
  ItemLimit       \* LIMIT of queryActiveMemoryItems

ASSUME MemoryAssumption ==
  /\ {MaxSessions, MaxItems, MaxAttempts} \subseteq Nat \ {0}
  /\ InitialItems \in Seq(BOOLEAN) /\ Len(InitialItems) <= MaxItems
  /\ {MaxMessages, MaxCommands, MaxSent, MaxQueue, MaxAged, MaxCrashes, TurnTrigger, TokenTrigger,
      UserThrottle, TurnLimit, ItemLimit} \subseteq Nat
  /\ MessageTokens \subseteq Nat \ {0}

VARIABLES
  items,      \* memory_items
  links,      \* memory_artifact_links of each session's turns: how many
  turns,      \* turns of each session: how many, and how many of the user
  summaries,  \* memory_summaries of each session, oldest first
  opened,     \* sessions: how many; the last is the one messages go to
  closed,     \* sessions that have ended
  old,        \* sessions that began 24 hours ago or earlier: how many
  resumable,  \* sessions with a succeeded run that has a provider session
  queue,      \* jobs that are queued, oldest first
  job,        \* the job the worker has in hand
  prompt,     \* what was compiled for it
  sent,       \* how many messages and commands so far
  crashes

store == <<items, links, turns, summaries, opened, closed, resumable>>
vars == <<store, old, queue, job, prompt, sent, crashes>>

Session == 1 .. MaxSessions
Item == 1 .. MaxItems

(* chain and fact are not stored: the item a row's pointers lead back to,   *)
(* and the item whose content it is a version of.                          *)
Row == [status : {"active", "superseded", "revoked"}, session : Session, stated : BOOLEAN,
        supersedes : 0 .. MaxItems, chain : Item, fact : Item]

Items == DOMAIN items
ActiveOf(s) == {i \in Items : items[i].session = s /\ items[i].status = "active"}

Undoing == {"forget_memory", "forget_session", "forget_last"}
NamesItem == {"correct", "forget_memory"}
Commands == Undoing \cup {"correct", "save", "new"}
Summaries == {"summary", "end", "auto"}
Kinds == Commands \cup Summaries \cup {"chat"}

(* changes counts the runs of the job that changed something; warned is     *)
(* whether a turn says that the job was interrupted and is run again.      *)
Job == [kind : Kinds, session : Session, target : Nat, tokens : Nat, replay : BOOLEAN,
        phase : {"queued", "claimed", "compiled", "done", "told", "ended"},
        runs : Nat, changes : Nat, warned : BOOLEAN]
NoJob == [kind |-> "none"]
NewJob(kind, s) == [kind |-> kind, session |-> s, target |-> 0, tokens |-> 0, replay |-> FALSE,
                    phase |-> "queued", runs |-> 0, changes |-> 0, warned |-> FALSE]

NoPrompt == [mode |-> "none"]

Init ==
  /\ items = [i \in DOMAIN InitialItems |->
                [status |-> "active", session |-> 1, stated |-> InitialItems[i],
                 supersedes |-> 0, chain |-> i, fact |-> i]]
  /\ links = [s \in Session |-> 0]
  /\ turns = [s \in Session |-> [all |-> 0, users |-> 0]]
  /\ summaries = [s \in Session |-> << >>]
  /\ opened = 1 /\ closed = {} /\ old = 0 /\ resumable = {}
  /\ queue = << >> /\ job = NoJob /\ prompt = NoPrompt
  /\ sent = [messages |-> 0, commands |-> 0] /\ crashes = 0

-----------------------------------------------------------------------------
(* The user and the clock.                                                 *)

(* ensureActiveSession.                                                    *)
Current == IF opened \in closed THEN opened + 1 ELSE opened

Enqueued(j) ==
  /\ Len(queue) < MaxQueue /\ Current \in Session
  /\ sent.messages + sent.commands < MaxSent
  /\ queue' = Append(queue, j) /\ opened' = Current
  /\ IF j.kind \in Commands
     THEN sent.commands < MaxCommands /\ sent' = [sent EXCEPT !.commands = @ + 1]
     ELSE sent.messages < MaxMessages /\ sent' = [sent EXCEPT !.messages = @ + 1]
  /\ UNCHANGED <<items, links, turns, summaries, closed, old, resumable, job, prompt, crashes>>

Send ==
  \/ \E t \in MessageTokens : Enqueued([NewJob("chat", Current) EXCEPT !.tokens = t])
  \/ \E k \in (Commands \ NamesItem) \cup {"summary", "end"} : Enqueued(NewJob(k, Current))
  \/ \E k \in NamesItem, i \in Items \cup {0} :
       Enqueued([NewJob(k, Current) EXCEPT !.target = i])

(* 24 hours go by.                                                         *)
Age ==
  /\ old < opened /\ old < MaxAged
  /\ old' = old + 1
  /\ UNCHANGED <<store, queue, job, prompt, sent, crashes>>

-----------------------------------------------------------------------------
(* The worker.                                                             *)

Claim ==
  /\ job = NoJob /\ queue # << >>
  /\ job' = [Head(queue) EXCEPT !.phase = "claimed", !.runs = @ + 1]
  /\ queue' = Tail(queue)
  /\ UNCHANGED <<store, old, prompt, sent, crashes>>

At(phase) == job # NoJob /\ job.phase = phase

(* The worker is done with the job.                                        *)
Over == job' = NoJob /\ prompt' = NoPrompt

(* A turn of the assistant.                                                *)
Told(s) == [turns EXCEPT ![s].all = @ + 1]

Interrupted == job.phase # "ended"
RunAgain == Interrupted /\ job.runs < MaxAttempts

(* recovery: queued again, and claimed before anything else, or given up.   *)
(* Either is told in a turn of the session, whose id has it written once.  *)
Crash ==
  /\ job # NoJob /\ crashes < MaxCrashes
  /\ crashes' = crashes + 1 /\ prompt' = NoPrompt
  /\ job' = IF RunAgain THEN [job EXCEPT !.phase = "claimed", !.runs = @ + 1, !.warned = TRUE]
            ELSE NoJob
  /\ turns' = IF Interrupted /\ ~ (RunAgain /\ job.warned) THEN Told(job.session) ELSE turns
  /\ UNCHANGED <<items, links, summaries, opened, closed, resumable, old, queue, sent>>

-----------------------------------------------------------------------------
(* Runs of the provider.                                                   *)

(* queryActiveMemoryItems: the newest of them.                             *)
Recalled(s) ==
  {i \in ActiveOf(s) : Cardinality({k \in ActiveOf(s) : k > i}) < ItemLimit}

Smaller(a, b) == IF a < b THEN a ELSE b

Snapshot(mode, judged) ==
  LET s == job.session
      recalled == Recalled(s)
      stated == {i \in recalled : items[i].stated}
  IN  Built(mode, job.tokens,
            IF job.kind = "chat" THEN IdentityTokens ELSE SchemaTokens,
            judged /\ job.kind = "chat", summaries[s] # << >>,
            Smaller(turns[s].all, TurnLimit),
            Cardinality(stated), Cardinality(recalled \ stated))

(* Resuming with no judgment to tell, the message goes as it is.           *)
Bare(mode, judged) == mode = "resume_mode" /\ ~ judged

PackingMode ==
  IF job.kind = "chat" /\ ~ job.replay /\ job.session \in resumable
  THEN "resume_mode" ELSE "replay_mode"

(* compile; a prompt whose floor does not fit fails the job.  Whether any   *)
(* judgment is eligible is up to module Judgment.                          *)
Compile ==
  /\ At("claimed") /\ job.kind \in Summaries \cup {"chat"}
  /\ \E judged \in BOOLEAN :
       LET mode == PackingMode
           snapshot == Snapshot(mode, judged)
       IN  IF ~ Bare(mode, judged) /\ Overflows(snapshot)
           THEN Over
           ELSE /\ job' = [job EXCEPT !.phase = "compiled"]
                /\ prompt' = IF Bare(mode, judged)
                             THEN [mode |-> mode, snapshot |-> [s \in {} |-> 0], dropped |-> {},
                                   recalled |-> {}]
                             ELSE [mode |-> mode, snapshot |-> snapshot,
                                   dropped |-> Dropped(snapshot),
                                   recalled |-> IF mode = "replay_mode"
                                                THEN Recalled(job.session) ELSE {}]
  /\ UNCHANGED <<store, old, queue, sent, crashes>>

Requeued == [job EXCEPT !.phase = "queued", !.replay = TRUE, !.runs = @ - 1]

(* The CLI no longer knows the session: once more, in replay_mode, ahead of *)
(* those that came later.                                                  *)
ResumeFails ==
  /\ At("compiled") /\ prompt.mode = "resume_mode"
  /\ queue' = <<Requeued>> \o queue
  /\ Over
  /\ UNCHANGED <<store, old, sent, crashes>>

(* The run's row has the CLI's session if the run succeeded and the CLI     *)
(* named it, be it the run of a message or of a summary.                   *)
KeepsSession(succeeded) ==
  \/ succeeded /\ resumable' = resumable \cup {job.session}
  \/ UNCHANGED resumable

(* The terminal transaction of a message: two turns if there is an answer,  *)
(* however it ended.                                                       *)
Return ==
  /\ At("compiled") /\ job.kind = "chat"
  /\ \E succeeded, answered \in BOOLEAN :
       /\ turns' = IF answered
                   THEN [turns EXCEPT ![job.session] = [all |-> @.all + 2, users |-> @.users + 1]]
                   ELSE turns
       /\ KeepsSession(succeeded)
       /\ IF succeeded THEN job' = [job EXCEPT !.phase = "ended"] /\ prompt' = NoPrompt
          ELSE Over
  /\ UNCHANGED <<items, links, summaries, opened, closed, old, queue, sent, crashes>>

LastSummary(s) ==
  IF summaries[s] = << >> THEN [turns |-> 0, users |-> 0, kind |-> "none"]
  ELSE summaries[s][Len(summaries[s])]

Throttled(s) == turns[s].users - LastSummary(s).users < UserThrottle

Triggered(s) ==
  \/ turns[s].all - LastSummary(s).turns >= TurnTrigger
  \/ TurnTokens * turns[s].all >= TokenTrigger
  \/ s <= old

(* A bug: only a job that runs counts as pending.                          *)
NothingRuns(s) == job # NoJob /\ ~ (job.kind \in Summaries /\ job.session = s)

NonePending(s) == \A k \in DOMAIN queue : ~ (queue[k].kind \in Summaries /\ queue[k].session = s)

(* maybeEnqueueAutoSummary, after the transaction that ended the job.      *)
AutoSummary ==
  /\ At("ended")
  /\ LET s == job.session
     IN  queue' = IF Triggered(s) /\ ~ Throttled(s) /\ NonePending(s)
                  THEN Append(queue, NewJob("auto", s)) ELSE queue
  /\ Over
  /\ UNCHANGED <<store, old, sent, crashes>>

(* The terminal transaction of a summary.  An answer that is no summary     *)
(* leaves no row, except at /end, which closes the session in any case.     *)
Summarise ==
  /\ At("compiled") /\ job.kind \in Summaries
  /\ \E succeeded, parsed \in BOOLEAN :
       /\ summaries' = IF succeeded /\ (parsed \/ job.kind = "end")
                       THEN [summaries EXCEPT ![job.session] =
                               Append(@, [turns |-> turns[job.session].all,
                                          users |-> turns[job.session].users, kind |-> job.kind])]
                       ELSE summaries
       /\ KeepsSession(succeeded)
  /\ closed' = IF job.kind = "end" THEN closed \cup {job.session} ELSE closed
  /\ Over
  /\ UNCHANGED <<items, links, turns, opened, old, queue, sent, crashes>>

-----------------------------------------------------------------------------
(* The commands.  Each runs its transaction, stores its reply as a turn and *)
(* ends its job, in that order.                                            *)

Runs(kind) == At("claimed") /\ job.kind = kind
Done(changed) ==
  job' = [job EXCEPT !.phase = "done", !.changes = IF changed THEN @ + 1 ELSE @]

Inserted(rows, session, supersedes, chain, fact) ==
  Append(rows, [status |-> "active", session |-> session, stated |-> TRUE,
                supersedes |-> supersedes, chain |-> chain, fact |-> fact])

(* A bug: the item's status is not read.                                   *)
CorrectableAnyhow(i) == i \in Items

Correctable(i) == items[i].status = "active"

(* A bug: the new row is written, the old one is left as it is.            *)
SupersededTwice(i) ==
  items' = Inserted(items, job.session, i, items[i].chain, items[i].fact)

(* supersedeMemoryItem, the item being active.                             *)
Superseded(i) ==
  items' = Inserted([items EXCEPT ![i].status = "superseded"], job.session, i,
                    items[i].chain, items[i].fact)

(* It no longer is: a row without a pointer.                               *)
Fresh(i) == items' = Inserted(items, job.session, 0, Len(items) + 1, items[i].fact)

Correct ==
  /\ Runs("correct")
  /\ IF job.target \notin Items THEN Done(FALSE) /\ UNCHANGED items
     ELSE /\ Len(items) < MaxItems
          /\ Done(TRUE)
          /\ IF Correctable(job.target) THEN Superseded(job.target)
             ELSE Fresh(job.target)
  /\ UNCHANGED <<links, turns, summaries, opened, closed, resumable, old, queue, prompt, sent,
                 crashes>>

(* A bug: the tombstone's guard on the status is dropped.                  *)
RevocableAll(S) == S

(* UPDATE ... WHERE status IN ('active', 'superseded').                    *)
Revocable(S) == {i \in S : items[i].status \in {"active", "superseded"}}

Revoked(S) ==
  items' = [i \in Items |-> IF i \in Revocable(S) THEN [items[i] EXCEPT !.status = "revoked"]
                            ELSE items[i]]

Forgets(S) ==
  /\ Revoked(S) /\ Done(Revocable(S) # {})
  /\ UNCHANGED <<links, turns, summaries, opened, closed, resumable, old, queue, prompt, sent,
                 crashes>>

ForgetMemory == Runs("forget_memory") /\ Forgets(Items \cap {job.target})

ForgetSession ==
  Runs("forget_session") /\ Forgets({i \in Items : items[i].session = job.session})

(* The newest link if there is one, else the newest active item.           *)
ForgetLast ==
  /\ Runs("forget_last")
  /\ IF links[job.session] > 0
     THEN /\ links' = [links EXCEPT ![job.session] = @ - 1]
          /\ Done(TRUE)
          /\ UNCHANGED <<items, turns, summaries, opened, closed, resumable, old, queue, prompt,
                         sent, crashes>>
     ELSE Forgets({i \in ActiveOf(job.session) : \A k \in ActiveOf(job.session) : k <= i})

(* saveLastAttachment, as far as the link goes: there may be no attachment, *)
(* or no room on the disk, and without a turn there is nothing to link to.  *)
Save ==
  /\ Runs("save")
  /\ \E promoted \in BOOLEAN :
       LET linked == promoted /\ turns[job.session].all > 0
       IN  /\ links' = IF linked THEN [links EXCEPT ![job.session] = @ + 1] ELSE links
           /\ Done(linked)
  /\ UNCHANGED <<items, turns, summaries, opened, closed, resumable, old, queue, prompt, sent,
                 crashes>>

NewSession ==
  /\ Runs("new")
  /\ closed' = closed \cup {job.session}
  /\ Done(job.session \notin closed)
  /\ UNCHANGED <<items, links, turns, summaries, opened, resumable, old, queue, prompt, sent,
                 crashes>>

(* The reply is stored as a turn of the assistant.                         *)
Reply ==
  /\ At("done")
  /\ turns' = Told(job.session)
  /\ job' = [job EXCEPT !.phase = "told"]
  /\ UNCHANGED <<items, links, summaries, opened, closed, resumable, old, queue, prompt, sent,
                 crashes>>

Settle == At("told") /\ Over /\ UNCHANGED <<store, old, queue, sent, crashes>>

Provider == Compile \/ ResumeFails \/ Return \/ AutoSummary \/ Summarise
Command == Correct \/ ForgetMemory \/ ForgetSession \/ ForgetLast \/ Save \/ NewSession
Next == Send \/ Age \/ Claim \/ Crash \/ Provider \/ Command \/ Reply \/ Settle

Spec == Init /\ [][Next]_vars

-----------------------------------------------------------------------------
(* Properties.                                                             *)

(* Every variable has its type; a job's session exists, and its attempts    *)
(* are within their limit whatever recovery and the fallback do to them.    *)
Typed(j) == j \in Job /\ j.session <= opened
TypeOK ==
  /\ items \in Seq(Row) /\ Len(items) <= MaxItems
  /\ links \in [Session -> Nat]
  /\ turns \in [Session -> [all : Nat, users : Nat]]
  /\ summaries \in [Session -> Seq([turns : Nat, users : Nat, kind : Summaries])]
  /\ opened \in Session /\ closed \subseteq 1 .. opened /\ old \in 0 .. opened
  /\ resumable \subseteq 1 .. opened
  /\ queue \in Seq(Job)
  /\ \A k \in DOMAIN queue : Typed(queue[k]) /\ queue[k].runs < MaxAttempts
  /\ job # NoJob => Typed(job) /\ job.runs \in 1 .. MaxAttempts
  /\ sent \in [messages : 0 .. MaxMessages, commands : 0 .. MaxCommands]
  /\ crashes \in 0 .. MaxCrashes

(* A correction retires the version it corrects in the same step: along the *)
(* pointers of memory_items each row has one successor at most, exactly one *)
(* while it counts as superseded, and one row at most is still active,      *)
(* whatever is corrected, forgotten and run again in between.              *)
CorrectionsAreSound ==
  /\ \A i \in Items :
       LET p == items[i].supersedes
       IN  p # 0 => /\ p < i /\ items[p].status # "active" /\ items[p].chain = items[i].chain
                    /\ \A k \in Items : items[k].supersedes = p => k = i
  /\ \A i \in Items :
       items[i].status = "superseded" => \E k \in Items : items[k].supersedes = i
  /\ \A i, k \in Items :
       items[i].status = "active" /\ items[k].status = "active"
         /\ items[i].chain = items[k].chain => i = k

(* No row is ever changed but in its status, which only falls: what was     *)
(* forgotten is not remembered again, not even by a command that a crash    *)
(* runs twice.                                                             *)
Rank == [active |-> 2, superseded |-> 1, revoked |-> 0]
NothingComesBack ==
  [][\A i \in Items :
       /\ i \in DOMAIN items' /\ Rank[items'[i].status] <= Rank[items[i].status]
       /\ items'[i] = [items[i] EXCEPT !.status = items'[i].status]]_vars

(* A prompt fits its budget, keeps the message and the identity, drops the  *)
(* lower slots first and none that there was room for, shows no item that   *)
(* was corrected or forgotten, and tells a summary no judgment.             *)
PromptIsSound ==
  prompt # NoPrompt =>
    /\ prompt.snapshot # [s \in {} |-> 0] =>
         WellPacked(prompt.snapshot, DOMAIN prompt.snapshot \ prompt.dropped)
    /\ prompt.recalled \subseteq ActiveOf(job.session)
    /\ job.kind # "chat" => "judgment_active" \notin DOMAIN prompt.snapshot

(* AC-MEM-005: between a summary and an automatic one after it the user     *)
(* has sent at least UserThrottle answered messages, although the decision  *)
(* is taken when the job is queued and the row is written much later, with  *)
(* other summaries queued, failed, interrupted or run in between.           *)
SummariesThrottled ==
  \A s \in Session : \A k \in DOMAIN summaries[s] :
    summaries[s][k].kind = "auto" =>
      summaries[s][k].users - (IF k = 1 THEN 0 ELSE summaries[s][k - 1].users) >= UserThrottle

(* A command a crash runs again changes something at most once per run, and *)
(* once in all if what it names stays named: only /correct, /forget_last    *)
(* and /save_last_attachment may act twice.                                *)
RerunsAreBounded ==
  job # NoJob =>
    /\ job.changes <= job.runs
    /\ job.kind \in {"forget_memory", "forget_session", "new"} => job.changes <= 1

(* PRD 12.2a (docs/PRD.md:535): the latest correction wins over older       *)
(* memories.  Of each remembered thing one version at most is active.       *)
LatestCorrectionWins ==
  \A i, k \in Items :
    items[i].status = "active" /\ items[k].status = "active"
      /\ items[i].fact = items[k].fact => i = k
=============================================================================
